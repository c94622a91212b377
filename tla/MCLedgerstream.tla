--------------------------- MODULE MCLedgerstream ---------------------------
(* One process of each kind, one payment, a settled and an unsettled currency. *)
EXTENDS Ledgerstream

CONSTANTS p1, t1

const_Bodies == {[amount |-> 5, currency |-> "USD"], [amount |-> 5, currency |-> "GBP"]}
const_PartitionOf == [p \in PaymentIds |-> 1]
=============================================================================

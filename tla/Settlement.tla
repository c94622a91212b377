------------------------------ MODULE Settlement ------------------------------
(***************************************************************************)
(* What the whole pipeline promises, without its mechanism: a payment is    *)
(* authorized on fixed terms, captured once, and then either booked in the   *)
(* ledger exactly once or rejected by it and voided, never both.  What the   *)
(* books owe a merchant is the sum of its booked payments.                  *)
(***************************************************************************)
EXTENDS Naturals

CONSTANTS
    PaymentIds,
    Merchants,      \* tenants of the Payment service
    Bodies,         \* what was asked for: [amount, currency]
    NoTerms,        \* the payment does not exist yet
    Settled         \* currencies the ledger settles

VARIABLES
    terms,          \* payment -> [tenant, body], fixed when it is authorized
    stage,          \* payment -> how far it has come
    owed            \* merchant -> what the ledger owes it

settlementVars == <<terms, stage, owed>>

Init ==
    /\ terms = [p \in PaymentIds |-> NoTerms]
    /\ stage = [p \in PaymentIds |-> "absent"]
    /\ owed = [t \in Merchants |-> 0]

Advance(p, from, to) ==
    /\ stage[p] = from
    /\ stage' = [stage EXCEPT ![p] = to]

Settleable(p) == terms[p].body.currency \in Settled

Authorize(p) ==
    /\ Advance(p, "absent", "authorized")
    /\ \E t \in Merchants, b \in Bodies :
           terms' = [terms EXCEPT ![p] = [tenant |-> t, body |-> b]]
    /\ UNCHANGED owed

Capture(p) == Advance(p, "authorized", "captured") /\ UNCHANGED <<terms, owed>>

Post(p) ==
    /\ Advance(p, "captured", "posted")
    /\ Settleable(p)
    /\ owed' = [owed EXCEPT ![terms[p].tenant] = @ + terms[p].body.amount]
    /\ UNCHANGED terms

Reject(p) ==
    /\ Advance(p, "captured", "rejected")
    /\ ~Settleable(p)
    /\ UNCHANGED <<terms, owed>>

Void(p) == Advance(p, "rejected", "voided") /\ UNCHANGED <<terms, owed>>

Next == \E p \in PaymentIds :
    Authorize(p) \/ Capture(p) \/ Post(p) \/ Reject(p) \/ Void(p)

Spec == Init /\ [][Next]_settlementVars
=============================================================================

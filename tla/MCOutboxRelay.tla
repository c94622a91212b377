---------------------------- MODULE MCOutboxRelay ----------------------------
(* Two relays over a database with two payments, in a partition each.  Both    *)
(* payments are authorized and two web workers are about to capture them: each  *)
(* holds the lock of one row and commits at any time, in either order.        *)
EXTENDS OutboxRelay, TLC

CONSTANTS p1, p2, t1, w1, w2, r1, r2

const_Bodies == {[amount |-> 5, currency |-> "USD"]}
const_PartitionOf == [p \in PaymentIds |-> IF p = p2 THEN 2 ELSE 1]

AboutToCapture ==
    /\ payments \in [PaymentIds -> {row \in PaymentRow : row.status = "AUTHORIZED"}]
    /\ payLock = [p \in PaymentIds |-> IF p = p2 THEN w2 ELSE w1]
    /\ outbox = << >>
    /\ RelayInit

CaptureNext ==
    \/ RelayNext
    \/ /\ \E p \in PaymentIds, w \in Workers : WebCaptures(p, w)
       /\ UNCHANGED relayVars

FairSpec == AboutToCapture /\ [][CaptureNext]_relayStoreVars /\ RelayFairness
=============================================================================

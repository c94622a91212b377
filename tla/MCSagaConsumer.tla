--------------------------- MODULE MCSagaConsumer ---------------------------
(* Saga workers fed with the ledger's outcomes for captured payments, while  *)
(* a web worker's capture calls lock and release payment rows.              *)
EXTENDS SagaConsumer, TLC

CONSTANTS p1, p2, t1, s1, s2, web,
    Topic       \* what the ledger publishes, per partition

Out(p, status) == [event |-> p, payment |-> p, status |-> status]

(* p1 is rejected, twice over as after a redelivery; p2 is posted.          *)
const_OnePartition == <<<<Out(p1, "REJECTED"), Out(p2, "POSTED"), Out(p1, "REJECTED")>>>>
const_Bodies == {[amount |-> 5, currency |-> "GBP"]}

(* A state Spec reaches: both payments were authorized and captured.         *)
CapturedInit ==
    /\ payments = [p \in PaymentIds |-> [tenant |-> t1, key |-> NoKey,
                       body |-> CHOOSE b \in Bodies : TRUE, status |-> "CAPTURED"]]
    /\ payLock = [p \in PaymentIds |-> NoProc]
    /\ outbox = <<CapturedRow(p1), CapturedRow(p2)>>
    /\ outcomeLog = [q \in Partitions |-> << >>]
    /\ SagaInit

PublishNext(q) ==
    /\ Len(outcomeLog[q]) < Len(Topic[q])
    /\ Announce(q, Topic[q][Len(outcomeLog[q]) + 1])

WebLocksP1(w) == WebLocks(p1, w) /\ UNCHANGED <<outcomeLog, sagaVars>>
WebLeaves(w) == WebEnds(w) /\ UNCHANGED <<outcomeLog, sagaVars>>

(* Next, with Topic the only thing the ledger announces and repeated calls to *)
(* capture p1 the only web requests.                                       *)
TopicNext == \/ SagaNext
             \/ \E q \in Partitions : PublishNext(q)
             \/ \E w \in Workers : WebLocksP1(w) \/ WebLeaves(w)
             \/ \E s \in Sagas : PollAgain(s)

TopicSpec == CapturedInit /\ [][TopicNext]_sagaAllVars
FairSpec == TopicSpec /\ SagaFairness /\ \A w \in Workers : WF_sagaAllVars(WebLeaves(w))

----------------------------------------------------------------------------
(* Once faults stop, every rejection is compensated or has reached the DLQ   *)
(* step, web requests on the same payment notwithstanding.                  *)
EveryRejectionHandled ==
    \A p \in PaymentIds : Rejected(p) ~> Voided(p) \/ p \in sagaDlq \cup sagaDlqLost
=============================================================================

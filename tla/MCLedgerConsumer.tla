-------------------------- MODULE MCLedgerConsumer --------------------------
(* Ledger consumers fed with a growing topic in which the relay has published   *)
(* an event twice.                                                         *)
EXTENDS LedgerConsumer, TLC

CONSTANTS c1, c2, Topic     \* Topic: what the relay publishes, per partition

Body(amount, currency) == [amount |-> amount, currency |-> currency]

Captured(e, t, body) == [event |-> e, payment |-> e, tenant |-> t, body |-> body]

Paid == Captured(1, "t1", Body(5, "USD"))
Unsettled == Captured(2, "t1", Body(7, "GBP"))
OtherPaid == Captured(3, "t2", Body(2, "EUR"))

const_TwoTenants == <<<<Paid, Paid>>, <<Unsettled, OtherPaid>>>>

const_OnePartition == <<<<Paid, Unsettled, Paid>>>>

const_Events == UNION {{Topic[q][o] : o \in DOMAIN Topic[q]} : q \in Partitions}

(* The relay appends the next event of a partition.                        *)
PublishNext(q) ==
    /\ Len(eventLog[q]) < Len(Topic[q])
    /\ Publish(q, Topic[q][Len(eventLog[q]) + 1])

(* Next, with Topic the only thing the relay publishes.                     *)
TopicNext == \/ LedgerNext
             \/ \E q \in Partitions : PublishNext(q)
             \/ \E c \in Consumers : PollAgain(c)

TopicSpec == Init /\ [][TopicNext]_ledgerAllVars
FairSpec == TopicSpec /\ LedgerFairness

----------------------------------------------------------------------------
(* Once faults stop, every published event gets an outcome or reaches the     *)
(* DLQ step; redelivery and retries always come to an end.                  *)
EveryEventHandled ==
    \A q \in Partitions : \A o \in 1..Len(Topic[q]) :
        o <= Len(eventLog[q]) ~> LET e == Topic[q][o].event IN
                                 OutcomesOf(q, e) # {} \/ e \in eventDlq \cup dlqLost
=============================================================================

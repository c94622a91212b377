---------------------------- MODULE SagaConsumer ----------------------------
(***************************************************************************)
(* The Payment service's saga worker: consume ledger.events and void the    *)
(* payment of every REJECTED outcome.  Compensation is idempotent by state,  *)
(* so there is no dedupe table; a failing one is retried, an undecodable     *)
(* outcome or an exhausted retry goes to the dead-letter topic, and the      *)
(* offset is committed last.                                               *)
(***************************************************************************)
EXTENDS PaymentStore

CONSTANTS
    Workers,            \* the service's web workers: they use the same rows
    Sagas,              \* processes of the group payment-saga
    Partitions,         \* partitions of ledger.events
    EventIds,           \* ids of the events the ledger answers
    MaxRetries,         \* retries after the first attempt (run_with_retry)
    NoSaga,             \* a partition is not assigned
    MaxSagaFaults       \* bound: failures, crashes, rebalances, lost commits

ASSUME SagaAssumption ==
    /\ NoSaga \notin Sagas
    /\ MaxRetries \in Nat
    /\ MaxSagaFaults \in Nat

VARIABLES
    outcomeLog,         \* ledger.events: partition -> sequence of outcomes
    sowner, sposition, scommitted,  \* the consumer group
    spc,                \* saga -> the step of _handle it executes next
    smsg,               \* saga -> [part, offset] of the message in hand
    sattempt,           \* saga -> retries used on that message
    sagaDlq,            \* payments whose outcome is on ledger.events.dlq
    sagaDlqLost,        \* history: those whose DLQ write was not delivered
    sfaults             \* faults so far

sagaGroup == <<sowner, sposition, scommitted>>
sagaWork == <<spc, smsg, sattempt>>
sagaVars == <<sagaGroup, sagaWork, sagaDlq, sagaDlqLost, sfaults>>
sagaAllVars == <<outcomeLog, storeVars, sagaVars>>

Group == INSTANCE ConsumerGroup WITH
            Members <- Sagas, Nobody <- NoSaga,
            owner <- sowner, position <- sposition, committed <- scommitted

NoMessage == [part |-> 0, offset |-> 0]

SagaInit ==
    /\ Group!GroupInit
    /\ spc = [s \in Sagas |-> "poll"]
    /\ smsg = [s \in Sagas |-> NoMessage]
    /\ sattempt = [s \in Sagas |-> 0]
    /\ sagaDlq = {}
    /\ sagaDlqLost = {}
    /\ sfaults = 0

(* The outcome in saga s's hand.                                           *)
Outcome(s) == outcomeLog[smsg[s].part][smsg[s].offset + 1]

At(s, step) == spc[s] = step
GoesTo(s, step) == spc' = [spc EXCEPT ![s] = step]

SagaFault == sfaults < MaxSagaFaults /\ sfaults' = sfaults + 1

LetGo(s) ==
    /\ GoesTo(s, "poll")
    /\ smsg' = [smsg EXCEPT ![s] = NoMessage]
    /\ sattempt' = [sattempt EXCEPT ![s] = 0]

----------------------------------------------------------------------------
SagaPoll(s) ==
    /\ At(s, "poll")
    /\ \E q \in Partitions :
        /\ Group!Poll(s, q, outcomeLog)
        /\ smsg' = [smsg EXCEPT ![s] = [part |-> q, offset |-> sposition[q]]]
    /\ GoesTo(s, "decode")
    /\ UNCHANGED <<outcomeLog, storeVars, sattempt, sagaDlq, sagaDlqLost, sfaults>>

SagaDecode(s) ==
    /\ At(s, "decode")
    /\ GoesTo(s, "handle")
    /\ UNCHANGED <<outcomeLog, storeVars, sagaGroup, smsg, sattempt, sagaDlq, sagaDlqLost, sfaults>>

(* Mutant: an undecodable outcome is logged and dropped.                    *)
SagaDecodeFails_Skips(s) ==
    /\ At(s, "decode")
    /\ SagaFault
    /\ GoesTo(s, "commitPast")
    /\ UNCHANGED <<outcomeLog, storeVars, sagaGroup, smsg, sattempt, sagaDlq, sagaDlqLost>>

(* Any decoding error is taken for poison: no retry, straight to the DLQ.    *)
SagaDecodeFails(s) ==
    /\ At(s, "decode")
    /\ SagaFault
    /\ GoesTo(s, "dlq")
    /\ UNCHANGED <<outcomeLog, storeVars, sagaGroup, smsg, sattempt, sagaDlq, sagaDlqLost>>

(* Mutant: any outcome voids the payment.                                   *)
CompensateIfRejected_Always(out) == CompensatePayment(out.payment)

(* _compensate_if_rejected.                                                *)
CompensateIfRejected(out) ==
    IF out.status = "REJECTED" THEN CompensatePayment(out.payment) ELSE UNCHANGED storeVars

Handle(s) ==
    /\ At(s, "handle")
    /\ CompensateIfRejected(Outcome(s))
    /\ GoesTo(s, "commit")
    /\ UNCHANGED <<outcomeLog, sagaGroup, smsg, sattempt, sagaDlq, sagaDlqLost, sfaults>>

(* Mutant: an outcome given up without the DLQ.                             *)
Retry_Drops(s) ==
    IF sattempt[s] < MaxRetries
    THEN sattempt' = [sattempt EXCEPT ![s] = @ + 1] /\ UNCHANGED spc
    ELSE UNCHANGED sattempt /\ GoesTo(s, "commitPast")

(* run_with_retry: an attempt raised.  Try it again, or give up.             *)
Retry(s) ==
    IF sattempt[s] < MaxRetries
    THEN sattempt' = [sattempt EXCEPT ![s] = @ + 1] /\ UNCHANGED spc
    ELSE UNCHANGED sattempt /\ GoesTo(s, "dlq")

(* The attempt raises, at the commit perhaps after the payment was voided.   *)
HandleFails(s) ==
    /\ At(s, "handle")
    /\ Outcome(s).status = "REJECTED"
    /\ SagaFault
    /\ UNCHANGED storeVars \/ CompensateIfRejected(Outcome(s))
    /\ Retry(s)
    /\ UNCHANGED <<outcomeLog, sagaGroup, smsg, sagaDlq, sagaDlqLost>>

(* _to_dlq: produce and flush without a delivery callback.                  *)
SagaToDlq(s) ==
    /\ At(s, "dlq")
    /\ sagaDlq' = sagaDlq \cup {Outcome(s).payment}
    /\ GoesTo(s, "commitPast")
    /\ UNCHANGED <<outcomeLog, storeVars, sagaGroup, smsg, sattempt, sagaDlqLost, sfaults>>

SagaToDlqUndelivered(s) ==
    /\ At(s, "dlq")
    /\ SagaFault
    /\ sagaDlqLost' = sagaDlqLost \cup {Outcome(s).payment}
    /\ GoesTo(s, "commitPast")
    /\ UNCHANGED <<outcomeLog, storeVars, sagaGroup, smsg, sattempt, sagaDlq>>

(* consumer.commit(msg), after success or behind the DLQ write.             *)
Committing(s) == spc[s] \in {"commit", "commitPast"}

SagaCommit(s) ==
    /\ Committing(s)
    /\ Group!Commit(s, smsg[s].part, smsg[s].offset)
    /\ LetGo(s)
    /\ UNCHANGED <<outcomeLog, storeVars, sagaDlq, sagaDlqLost, sfaults>>

(* The asynchronous commit never reaches the broker.                       *)
SagaCommitLost(s) ==
    /\ Committing(s)
    /\ SagaFault
    /\ LetGo(s)
    /\ UNCHANGED <<outcomeLog, storeVars, sagaGroup, sagaDlq, sagaDlqLost>>

(* commit() itself raises inside the try: a message that was handled goes to *)
(* the DLQ as well.  (The commit behind a DLQ write ends run(): a crash.)    *)
SagaCommitRaises(s) ==
    /\ At(s, "commit")
    /\ SagaFault
    /\ GoesTo(s, "dlq")
    /\ UNCHANGED <<outcomeLog, storeVars, sagaGroup, smsg, sattempt, sagaDlq, sagaDlqLost>>

SagaCrash(s) ==
    /\ SagaFault
    /\ LetGo(s)
    /\ Group!Leave(s)
    /\ UNCHANGED <<outcomeLog, storeVars, sagaDlq, sagaDlqLost>>

Polling == {s \in Sagas : At(s, "poll")}

(* Members join the group and share out what nobody owns.                   *)
SagaJoin ==
    /\ Group!Joinable(Polling)
    /\ Group!Rebalance(Polling)
    /\ UNCHANGED <<outcomeLog, storeVars, sagaWork, sagaDlq, sagaDlqLost, sfaults>>

(* Any other rebalance, one that leaves a busy member a zombie included.     *)
SagaRebalance ==
    /\ SagaFault
    /\ Group!Rebalance(Polling)
    /\ UNCHANGED <<outcomeLog, storeVars, sagaWork, sagaDlq, sagaDlqLost>>

SagaStep(s) == \/ SagaPoll(s)
               \/ SagaDecode(s)
               \/ Handle(s)
               \/ SagaToDlq(s)
               \/ SagaCommit(s)

SagaFaults(s) == \/ SagaDecodeFails(s)
                 \/ HandleFails(s)
                 \/ SagaToDlqUndelivered(s)
                 \/ SagaCommitLost(s)
                 \/ SagaCommitRaises(s)
                 \/ SagaCrash(s)

SagaNext == \/ \E s \in Sagas : SagaStep(s) \/ SagaFaults(s)
            \/ SagaJoin
            \/ SagaRebalance

(* A running worker finishes the message in hand and polls on; the row lock  *)
(* its compensation waits for is granted in turn.                          *)
SagaFairness == /\ \A s \in Sagas : /\ WF_sagaAllVars(SagaStep(s))
                                    /\ SF_sagaAllVars(Handle(s))
                /\ WF_sagaAllVars(SagaJoin)

----------------------------------------------------------------------------
(* The workers with their environment.  The ledger answers an event only a    *)
(* captured payment has, perhaps more than once; the web workers authorize    *)
(* and capture, under the row lock; the relay marks outbox rows.             *)
LedgerOutcome == [event : EventIds, payment : PaymentIds, status : {"POSTED", "REJECTED"}]

Captured(p) == p \in DOMAIN payments /\ payments[p].status # "AUTHORIZED"

Announce(q, out) ==
    /\ Captured(out.payment)
    /\ outcomeLog' = [outcomeLog EXCEPT ![q] = Append(@, out)]
    /\ UNCHANGED <<storeVars, sagaVars>>

WebActs(w) == WebWrites(w) /\ UNCHANGED <<outcomeLog, sagaVars>>

RelayMarks(S) ==
    /\ MarkPublished(S)
    /\ UNCHANGED <<payments, payLock, outcomeLog, sagaVars>>

(* Polling an empty topic returns None: the worker polls again.             *)
PollAgain(s) == At(s, "poll") /\ UNCHANGED sagaAllVars

Environment ==
    \/ \E q \in Partitions, out \in LedgerOutcome : Announce(q, out)
    \/ \E w \in Workers : WebActs(w)
    \/ \E S \in SUBSET DOMAIN outbox : RelayMarks(S)

Init ==
    /\ StoreInit
    /\ outcomeLog = [q \in Partitions |-> << >>]
    /\ SagaInit

Next == SagaNext \/ Environment \/ \E s \in Sagas : PollAgain(s)

Spec == Init /\ [][Next]_sagaAllVars

----------------------------------------------------------------------------
Message == [part : Partitions \cup {0}, offset : Nat]

Handling == {"decode", "handle", "dlq", "commit", "commitPast"}

SagaTypeOK ==
    /\ Group!GroupTypeOK
    /\ spc \in [Sagas -> {"poll"} \cup Handling]
    /\ smsg \in [Sagas -> Message]
    /\ sattempt \in [Sagas -> 0..MaxRetries]
    /\ sagaDlq \subseteq PaymentIds
    /\ sagaDlqLost \subseteq PaymentIds
    /\ sfaults \in 0..MaxSagaFaults
    /\ \A s \in Sagas : spc[s] \in Handling =>
           /\ smsg[s].part \in Partitions
           /\ smsg[s].offset < Len(outcomeLog[smsg[s].part])

Voided(p) == p \in DOMAIN payments /\ payments[p].status = "VOIDED"

Rejected(p) == \E q \in Partitions : \E n \in DOMAIN outcomeLog[q] :
                  outcomeLog[q][n].payment = p /\ outcomeLog[q][n].status = "REJECTED"

(* Compensation is never skipped: a rejection behind the committed offset has *)
(* its payment voided, or was sent to the DLQ, delivered there or not.      *)
RejectionAccountedFor ==
    \A q \in Partitions : \A o \in 1..scommitted[q] :
        LET out == outcomeLog[q][o] IN
        out.status = "REJECTED" =>
            Voided(out.payment) \/ out.payment \in sagaDlq \cup sagaDlqLost

(* A payment is only ever voided on the ledger's rejection.                 *)
VoidedOnRejection == \A p \in PaymentIds : Voided(p) => Rejected(p)
=============================================================================

-------------------------- MODULE SagaConsumerProofs --------------------------
(***************************************************************************)
(* Proofs about the saga workers, for any number of processes, partitions,    *)
(* retries and faults, next to web workers and a relay that use the same rows. *)
(***************************************************************************)
EXTENDS SagaConsumer, SequenceTheorems, TLAPS

(* The payment table, and what the ledger has answered: only outcomes of       *)
(* payments that are there.                                                *)
RowsOK ==
    /\ DOMAIN payments \subseteq PaymentIds
    /\ payments \in [DOMAIN payments -> PaymentRow]

LogOK == outcomeLog \in [Partitions -> Seq(LedgerOutcome)]

KnownOK ==
    \A q \in Partitions : \A n \in DOMAIN outcomeLog[q] :
        outcomeLog[q][n].payment \in DOMAIN payments

Shape == SagaTypeOK /\ RowsOK /\ LogOK /\ KnownOK

(* Nothing that was announced, voided or parked is ever taken back.           *)
LogKept ==
    \A q \in Partitions :
        /\ Len(outcomeLog[q]) \in Nat /\ Len(outcomeLog'[q]) \in Nat
        /\ Len(outcomeLog[q]) <= Len(outcomeLog'[q])
        /\ \A o \in 1..Len(outcomeLog[q]) :
               o \in DOMAIN outcomeLog'[q] /\ outcomeLog'[q][o] = outcomeLog[q][o]

RowsKept ==
    /\ DOMAIN payments \subseteq DOMAIN payments'
    /\ \A p \in DOMAIN payments : payments[p].status = "VOIDED" => payments'[p].status = "VOIDED"

Grows == LogKept /\ RowsKept /\ sagaDlq \subseteq sagaDlq' /\ sagaDlqLost \subseteq sagaDlqLost'

----------------------------------------------------------------------------
(* The outcome in a busy worker's hand.                                    *)
LEMMA HandTyped ==
    ASSUME Shape, NEW s \in Sagas, spc[s] \in Handling
    PROVE  /\ smsg[s].part \in Partitions
           /\ smsg[s].offset \in Nat
           /\ smsg[s].offset + 1 \in DOMAIN outcomeLog[smsg[s].part]
           /\ Outcome(s) \in LedgerOutcome
           /\ Outcome(s).payment \in DOMAIN payments
<1>1. /\ smsg[s].part \in Partitions
      /\ smsg[s].offset < Len(outcomeLog[smsg[s].part])
      /\ smsg[s].offset \in Nat
  BY DEF Shape, SagaTypeOK, Message
<1>2. outcomeLog[smsg[s].part] \in Seq(LedgerOutcome)
  BY <1>1 DEF Shape, LogOK
<1>3. smsg[s].offset + 1 \in DOMAIN outcomeLog[smsg[s].part] /\ Outcome(s) \in LedgerOutcome
  <2> DEFINE L == outcomeLog[smsg[s].part]
             n == smsg[s].offset
  <2>1. L \in Seq(LedgerOutcome) /\ n \in Nat /\ n < Len(L) /\ Outcome(s) = L[n + 1]
    BY <1>1, <1>2 DEF Outcome
  <2> HIDE DEF L, n
  <2>2. n + 1 \in DOMAIN L /\ L[n + 1] \in LedgerOutcome
    BY <2>1
  <2> QED BY <2>1, <2>2 DEF L, n
<1>4. Outcome(s).payment \in DOMAIN payments
  BY <1>1, <1>3 DEF Outcome, Shape, KnownOK
<1> QED BY <1>1, <1>3, <1>4

(* A step of the group or of PollAgain touches neither rows nor log.          *)
LEMMA OutcomesStep ==
    ASSUME [Next]_sagaAllVars
    PROVE  \/ UNCHANGED outcomeLog
           \/ \E q \in Partitions, out \in LedgerOutcome : Announce(q, out)
<1>1. ASSUME NEW s \in Sagas, SagaStep(s) \/ SagaFaults(s) PROVE UNCHANGED outcomeLog
  BY <1>1 DEF SagaStep, SagaFaults, SagaPoll, SagaDecode, Handle, SagaToDlq, SagaCommit,
       SagaDecodeFails, HandleFails, SagaToDlqUndelivered, SagaCommitLost, SagaCommitRaises,
       SagaCrash
<1> QED BY <1>1 DEF Next, SagaNext, SagaJoin, SagaRebalance, Environment, PollAgain, sagaAllVars,
       WebActs, RelayMarks

LEMMA LogStep ==
    ASSUME Shape, [Next]_sagaAllVars
    PROVE  LogOK' /\ LogKept
<1>0. outcomeLog \in [Partitions -> Seq(LedgerOutcome)]
  BY DEF Shape, LogOK
<1>1. CASE UNCHANGED outcomeLog
  BY <1>0, <1>1, LenProperties DEF LogOK, LogKept
<1>2. ASSUME NEW q \in Partitions, NEW out \in LedgerOutcome, Announce(q, out)
      PROVE  LogOK' /\ LogKept
  <2> DEFINE new == Append(outcomeLog[q], out)
  <2>1. outcomeLog[q] \in Seq(LedgerOutcome) /\ outcomeLog' = [outcomeLog EXCEPT ![q] = new]
    BY <1>0, <1>2 DEF Announce
  <2>2. /\ new \in Seq(LedgerOutcome)
        /\ Len(new) = Len(outcomeLog[q]) + 1
        /\ \A o \in 1..Len(outcomeLog[q]) : new[o] = outcomeLog[q][o]
    BY <2>1, AppendProperties
  <2> HIDE DEF new
  <2>3. outcomeLog' \in [Partitions -> Seq(LedgerOutcome)]
    BY <1>0, <2>1, <2>2
  <2>4. \A p \in Partitions : /\ Len(outcomeLog[p]) \in Nat /\ Len(outcomeLog'[p]) \in Nat
                              /\ DOMAIN outcomeLog'[p] = 1..Len(outcomeLog'[p])
    <3>1. \A p \in Partitions : outcomeLog[p] \in Seq(LedgerOutcome) /\ outcomeLog'[p] \in Seq(LedgerOutcome)
      BY <1>0, <2>3
    <3> QED BY <3>1, LenProperties
  <2>5. \A p \in Partitions : outcomeLog'[p] = IF p = q THEN new ELSE outcomeLog[p]
    BY <1>0, <2>1
  <2>6. ASSUME NEW p \in Partitions
        PROVE  /\ Len(outcomeLog[p]) <= Len(outcomeLog'[p])
               /\ \A o \in 1..Len(outcomeLog[p]) :
                      o \in DOMAIN outcomeLog'[p] /\ outcomeLog'[p][o] = outcomeLog[p][o]
    <3>1. CASE p = q
      BY <2>2, <2>4, <2>5, <3>1
    <3>2. CASE p # q
      BY <2>4, <2>5, <3>2
    <3> QED BY <3>1, <3>2
  <2> QED BY <2>3, <2>4, <2>6 DEF LogOK, LogKept
<1> QED BY <1>1, <1>2, OutcomesStep

(* A status is written into the row of one payment.                         *)
LEMMA StatusWritten ==
    ASSUME RowsOK, NEW p \in DOMAIN payments, NEW st \in Statuses, SetStatus(p, st)
    PROVE  /\ DOMAIN payments' = DOMAIN payments
           /\ payments'[p].status = st
           /\ \A r \in DOMAIN payments \ {p} : payments'[r] = payments[r]
           /\ RowsOK'
<1>1. payments \in [DOMAIN payments -> PaymentRow] /\ DOMAIN payments \subseteq PaymentIds
  BY DEF RowsOK
<1>2. payments' = [payments EXCEPT ![p].status = st]
  BY DEF SetStatus
<1>3. payments[p] \in PaymentRow
  BY <1>1
<1>4. DOMAIN payments' = DOMAIN payments
  BY <1>1, <1>2
<1>5. payments'[p] = [payments[p] EXCEPT !.status = st]
  BY <1>1, <1>2
<1>6. payments'[p].status = st /\ payments'[p] \in PaymentRow
  BY <1>3, <1>5 DEF PaymentRow
<1>7. \A r \in DOMAIN payments \ {p} : payments'[r] = payments[r]
  BY <1>1, <1>2
<1>8. payments' \in [DOMAIN payments' -> PaymentRow]
  <2>1. \A r \in DOMAIN payments' : payments'[r] \in PaymentRow
    BY <1>1, <1>4, <1>6, <1>7
  <2>2. payments' = [r \in DOMAIN payments' |-> payments'[r]]
    BY <1>1, <1>2
  <2> QED BY <2>1, <2>2
<1> QED BY <1>1, <1>4, <1>6, <1>7, <1>8 DEF RowsOK

LEMMA RowInserted ==
    ASSUME RowsOK, NEW p \in PaymentIds \ DOMAIN payments, NEW t \in Tenants,
           NEW k \in Keys \cup {NoKey}, NEW b \in Bodies, InsertPayment(p, t, k, b)
    PROVE  /\ DOMAIN payments' = DOMAIN payments \cup {p}
           /\ payments'[p].status = "AUTHORIZED"
           /\ \A r \in DOMAIN payments : payments'[r] = payments[r]
           /\ RowsOK'
<1> DEFINE row == [tenant |-> t, key |-> k, body |-> b, status |-> "AUTHORIZED"]
<1>1. payments' = [r \in DOMAIN payments \cup {p} |-> IF r = p THEN row ELSE payments[r]]
  BY DEF InsertPayment
<1>2. row \in PaymentRow /\ row.status = "AUTHORIZED"
  BY DEF PaymentRow, Statuses
<1> HIDE DEF row
<1>3. DOMAIN payments' = DOMAIN payments \cup {p}
  BY <1>1
<1>4. payments'[p] = row /\ \A r \in DOMAIN payments : payments'[r] = payments[r]
  BY <1>1
<1>5. \A r \in DOMAIN payments' : payments'[r] \in PaymentRow
  BY <1>2, <1>3, <1>4 DEF RowsOK
<1>6. payments' \in [DOMAIN payments' -> PaymentRow]
  BY <1>1, <1>3, <1>5
<1> QED BY <1>2, <1>3, <1>4, <1>6 DEF RowsOK

(* What a step may do to the payment table: only a worker with a rejection in  *)
(* its hand voids, and only that payment.                                  *)
Voids(s) ==
    /\ At(s, "handle") /\ Outcome(s).status = "REJECTED"
    /\ Compensable(Outcome(s).payment) /\ SetStatus(Outcome(s).payment, "VOIDED")

Inserts ==
    \E p \in PaymentIds \ DOMAIN payments, t \in Tenants, k \in Keys \cup {NoKey}, b \in Bodies :
        InsertPayment(p, t, k, b)

Captures ==
    \E p \in DOMAIN payments : payments[p].status = "AUTHORIZED" /\ SetStatus(p, "CAPTURED")

LEMMA PaymentsStep ==
    ASSUME Shape, [Next]_sagaAllVars
    PROVE  \/ UNCHANGED payments
           \/ Inserts \/ Captures
           \/ \E s \in Sagas : Voids(s)
<1>1. ASSUME NEW s \in Sagas, SagaStep(s) \/ SagaFaults(s)
      PROVE  UNCHANGED payments \/ Voids(s)
  <2>1. ASSUME Handle(s) \/ HandleFails(s) PROVE UNCHANGED payments \/ Voids(s)
    BY <2>1 DEF Handle, HandleFails, CompensateIfRejected, CompensatePayment, Voids, storeVars
  <2>2. ASSUME \/ SagaPoll(s) \/ SagaDecode(s) \/ SagaToDlq(s) \/ SagaCommit(s)
               \/ SagaDecodeFails(s) \/ SagaToDlqUndelivered(s) \/ SagaCommitLost(s)
               \/ SagaCommitRaises(s) \/ SagaCrash(s)
        PROVE  UNCHANGED payments
    BY <2>2 DEF SagaPoll, SagaDecode, SagaToDlq, SagaCommit, SagaDecodeFails,
         SagaToDlqUndelivered, SagaCommitLost, SagaCommitRaises, SagaCrash, storeVars
  <2> QED BY <1>1, <2>1, <2>2 DEF SagaStep, SagaFaults
<1>2. ASSUME SagaJoin \/ SagaRebalance PROVE UNCHANGED payments
  BY <1>2 DEF SagaJoin, SagaRebalance, storeVars
<1>3. ASSUME Environment
      PROVE  UNCHANGED payments \/ Inserts \/ Captures
  <2>1. ASSUME NEW w \in Workers, WebWrites(w)
        PROVE  UNCHANGED payments \/ Inserts \/ Captures
    <3>1. ASSUME NEW p \in PaymentIds, WebLocks(p, w) \/ WebCaptures(p, w) \/ WebEnds(w)
          PROVE  UNCHANGED payments \/ Captures
      BY <3>1 DEF WebLocks, WebCaptures, WebEnds, Captures
    <3>2. ASSUME NEW p \in PaymentIds, NEW t \in Tenants, NEW k \in Keys \cup {NoKey},
                 NEW b \in Bodies, WebAuthorizes(p, t, k, b)
          PROVE  Inserts
      BY <3>2 DEF WebAuthorizes, Inserts
    <3>3. WebEnds(w) => UNCHANGED payments
      BY DEF WebEnds
    <3> QED BY <2>1, <3>1, <3>2, <3>3 DEF WebWrites
  <2> QED BY <1>3, <2>1 DEF Environment, WebActs, Announce, RelayMarks, storeVars
<1> QED BY <1>1, <1>2, <1>3 DEF Next, SagaNext, PollAgain, sagaAllVars, storeVars

LEMMA RowsStep ==
    ASSUME Shape, [Next]_sagaAllVars
    PROVE  RowsOK' /\ RowsKept
<1>0. RowsOK
  BY DEF Shape
<1>1. CASE UNCHANGED payments
  BY <1>0, <1>1 DEF RowsOK, RowsKept
<1>2. ASSUME NEW p \in PaymentIds \ DOMAIN payments, NEW t \in Tenants, NEW k \in Keys \cup {NoKey},
             NEW b \in Bodies, InsertPayment(p, t, k, b)
      PROVE  RowsOK' /\ RowsKept
  BY <1>0, <1>2, RowInserted DEF RowsKept
<1>3. ASSUME NEW p \in DOMAIN payments, payments[p].status = "AUTHORIZED", SetStatus(p, "CAPTURED")
      PROVE  RowsOK' /\ RowsKept
  <2>1. "CAPTURED" \in Statuses
    BY DEF Statuses
  <2> QED BY <1>0, <1>3, <2>1, StatusWritten DEF RowsKept
<1>4. ASSUME NEW s \in Sagas, Voids(s) PROVE RowsOK' /\ RowsKept
  <2>1. "VOIDED" \in Statuses
    BY DEF Statuses
  <2>2. PICK p \in DOMAIN payments : p = Outcome(s).payment
    BY <1>4 DEF Voids, Compensable
  <2> QED BY <1>0, <1>4, <2>1, <2>2, StatusWritten DEF Voids, RowsKept
<1> QED BY <1>1, <1>2, <1>3, <1>4, PaymentsStep DEF Inserts, Captures

LEMMA KnownStep ==
    ASSUME Shape, [Next]_sagaAllVars
    PROVE  KnownOK'
<1>0. RowsKept /\ outcomeLog \in [Partitions -> Seq(LedgerOutcome)]
  BY RowsStep DEF Shape, LogOK
<1>1. CASE UNCHANGED outcomeLog
  BY <1>0, <1>1 DEF Shape, KnownOK, RowsKept
<1>2. ASSUME NEW q \in Partitions, NEW out \in LedgerOutcome, Announce(q, out)
      PROVE  KnownOK'
  <2> DEFINE new == Append(outcomeLog[q], out)
  <2>1. outcomeLog[q] \in Seq(LedgerOutcome) /\ outcomeLog' = [outcomeLog EXCEPT ![q] = new]
    BY <1>0, <1>2 DEF Announce
  <2>2. /\ DOMAIN new = 1..(Len(outcomeLog[q]) + 1) /\ Len(outcomeLog[q]) \in Nat
        /\ DOMAIN outcomeLog[q] = 1..Len(outcomeLog[q])
        /\ new[Len(outcomeLog[q]) + 1] = out
        /\ \A o \in 1..Len(outcomeLog[q]) : new[o] = outcomeLog[q][o]
    BY <2>1, AppendProperties, LenProperties
  <2> HIDE DEF new
  <2>3. out.payment \in DOMAIN payments
    BY <1>2 DEF Announce, Captured
  <2>4. \A n \in DOMAIN new : new[n].payment \in DOMAIN payments
    BY <2>2, <2>3 DEF Shape, KnownOK
  <2>5. \A p \in Partitions : outcomeLog'[p] = IF p = q THEN new ELSE outcomeLog[p]
    BY <1>0, <2>1
  <2> QED BY <1>0, <2>4, <2>5 DEF Shape, KnownOK, RowsKept
<1> QED BY <1>1, <1>2, OutcomesStep

LEMMA ParkedStep ==
    ASSUME Shape, [Next]_sagaAllVars
    PROVE  /\ sagaDlq \subseteq sagaDlq' /\ sagaDlqLost \subseteq sagaDlqLost'
           /\ sagaDlq' \subseteq PaymentIds /\ sagaDlqLost' \subseteq PaymentIds
<1>0. sagaDlq \subseteq PaymentIds /\ sagaDlqLost \subseteq PaymentIds
  BY DEF Shape, SagaTypeOK
<1>1. ASSUME NEW s \in Sagas, SagaStep(s) \/ SagaFaults(s)
      PROVE  \/ UNCHANGED <<sagaDlq, sagaDlqLost>>
             \/ /\ At(s, "dlq")
                /\ sagaDlq' \in {sagaDlq, sagaDlq \cup {Outcome(s).payment}}
                /\ sagaDlqLost' \in {sagaDlqLost, sagaDlqLost \cup {Outcome(s).payment}}
  BY <1>1 DEF SagaStep, SagaFaults, SagaPoll, SagaDecode, Handle, SagaToDlq, SagaCommit,
       SagaDecodeFails, HandleFails, SagaToDlqUndelivered, SagaCommitLost, SagaCommitRaises,
       SagaCrash
<1>2. ASSUME NEW s \in Sagas, At(s, "dlq") PROVE Outcome(s).payment \in PaymentIds
  BY <1>2, HandTyped DEF At, Handling, LedgerOutcome
<1>3. ASSUME \A s \in Sagas : ~(SagaStep(s) \/ SagaFaults(s)) PROVE UNCHANGED <<sagaDlq, sagaDlqLost>>
  BY <1>3 DEF Next, SagaNext, SagaJoin, SagaRebalance, Environment, Announce, PollAgain, sagaAllVars,
       sagaVars, WebActs, RelayMarks
<1> QED BY <1>0, <1>1, <1>2, <1>3

LEMMA LogsStep ==
    ASSUME Shape, [Next]_sagaAllVars
    PROVE  Grows
BY LogStep, RowsStep, ParkedStep DEF Grows

----------------------------------------------------------------------------
(* The group's variables keep their types.                                 *)
LEMMA GroupStep ==
    ASSUME Shape, [Next]_sagaAllVars
    PROVE  Group!GroupTypeOK'
<1>0. Group!GroupTypeOK
  BY DEF Shape, SagaTypeOK
<1>1. CASE UNCHANGED sagaGroup
  BY <1>0, <1>1 DEF sagaGroup, Group!GroupTypeOK
<1>2. ASSUME NEW s \in Sagas, SagaPoll(s) PROVE Group!GroupTypeOK'
  BY <1>0, <1>2 DEF SagaPoll, Group!Poll, Group!GroupTypeOK
<1>3. ASSUME NEW s \in Sagas, SagaCommit(s) PROVE Group!GroupTypeOK'
  <2>1. smsg[s].offset \in Nat
    BY <1>3, HandTyped DEF SagaCommit, Committing, Handling
  <2> QED BY <1>0, <1>3, <2>1 DEF SagaCommit, Group!Commit, Group!GroupTypeOK
<1>4. ASSUME NEW s \in Sagas, SagaCrash(s) PROVE Group!GroupTypeOK'
  BY <1>0, <1>4 DEF SagaCrash, Group!Leave, Group!GroupTypeOK
<1>5. ASSUME SagaJoin \/ SagaRebalance PROVE Group!GroupTypeOK'
  <2>1. Group!Rebalance(Polling) /\ Polling \subseteq Sagas
    BY <1>5 DEF SagaJoin, SagaRebalance, Polling
  <2> QED BY <1>0, <2>1 DEF Group!Rebalance, Group!GroupTypeOK
<1>6. ASSUME NEW s \in Sagas,
             \/ SagaDecode(s) \/ Handle(s) \/ SagaToDlq(s) \/ SagaDecodeFails(s) \/ HandleFails(s)
             \/ SagaToDlqUndelivered(s) \/ SagaCommitLost(s) \/ SagaCommitRaises(s)
      PROVE  UNCHANGED sagaGroup
  BY <1>6 DEF SagaDecode, Handle, SagaToDlq, SagaDecodeFails, HandleFails,
       SagaToDlqUndelivered, SagaCommitLost, SagaCommitRaises
<1> QED BY <1>1, <1>2, <1>3, <1>4, <1>5, <1>6
    DEF Next, SagaNext, SagaStep, SagaFaults, PollAgain, Environment, Announce,
       WebActs, RelayMarks, sagaAllVars, sagaVars

(* One saga worker moves to another step with the message it has, or none.       *)
Moves(s, step, msg) ==
    /\ spc' = [spc EXCEPT ![s] = step]
    /\ smsg' = [smsg EXCEPT ![s] = msg]
    /\ step \in Handling => /\ msg.part \in Partitions
                           /\ msg.offset < Len(outcomeLog[msg.part])

(* What a step does to the worker it belongs to.                            *)
LEMMA WorkerStep ==
    ASSUME Shape, NEW s \in Sagas, SagaStep(s) \/ SagaFaults(s)
    PROVE  /\ \E step \in {"poll"} \cup Handling, msg \in Message : Moves(s, step, msg)
           /\ sattempt' \in [Sagas -> 0..MaxRetries]
           /\ sfaults' \in 0..MaxSagaFaults
<1>1. /\ spc \in [Sagas -> {"poll"} \cup Handling]
      /\ smsg \in [Sagas -> Message]
      /\ sattempt \in [Sagas -> 0..MaxRetries]
      /\ sfaults \in 0..MaxSagaFaults
      /\ MaxRetries \in Nat /\ MaxSagaFaults \in Nat
      /\ Group!GroupTypeOK
  BY SagaAssumption DEF Shape, SagaTypeOK
<1>2. NoMessage \in Message
  BY DEF NoMessage, Message
<1>3. SagaFault => sfaults' \in 0..MaxSagaFaults
  BY <1>1 DEF SagaFault
<1>4. Retry(s) => sattempt' \in [Sagas -> 0..MaxRetries]
  BY <1>1 DEF Retry
<1>5. ASSUME spc[s] \in Handling, UNCHANGED smsg, NEW step \in Handling, GoesTo(s, step)
      PROVE  Moves(s, step, smsg[s])
  BY <1>1, <1>5 DEF Moves, GoesTo, Shape, SagaTypeOK
<1>6. LetGo(s) => /\ Moves(s, "poll", NoMessage)
                  /\ sattempt' \in [Sagas -> 0..MaxRetries]
         BY <1>1 DEF LetGo, GoesTo, Moves, Handling
<1>7. CASE SagaPoll(s)
  <2>1. PICK q \in Partitions :
            /\ Group!Poll(s, q, outcomeLog)
            /\ smsg' = [smsg EXCEPT ![s] = [part |-> q, offset |-> sposition[q]]]
    BY <1>7 DEF SagaPoll
  <2>2. sposition[q] \in Nat /\ sposition[q] < Len(outcomeLog[q])
    BY <1>1, <2>1 DEF Group!Poll, Group!Available, Group!GroupTypeOK
  <2>3. [part |-> q, offset |-> sposition[q]] \in Message
    BY <2>2 DEF Message
  <2>4. Moves(s, "decode", [part |-> q, offset |-> sposition[q]])
    BY <1>7, <2>1, <2>2 DEF SagaPoll, GoesTo, Moves
  <2> QED BY <1>1, <1>7, <2>3, <2>4 DEF SagaPoll, Handling
<1>8. CASE SagaDecode(s) \/ SagaDecodeFails(s) \/ SagaToDlq(s) \/ SagaToDlqUndelivered(s) \/ Handle(s) \/ SagaCommitRaises(s)
  <2>1. /\ spc[s] \in Handling /\ UNCHANGED <<smsg, sattempt>>
        /\ \E step \in Handling : GoesTo(s, step)
        /\ UNCHANGED sfaults \/ SagaFault
    BY <1>8 DEF SagaDecode, SagaDecodeFails, SagaToDlq, SagaToDlqUndelivered, Handle, SagaCommitRaises, At, Handling
  <2> QED BY <1>1, <1>3, <1>5, <2>1
<1>9. CASE HandleFails(s)
  <2>1. /\ spc[s] \in Handling /\ UNCHANGED smsg
        /\ Retry(s) /\ SagaFault
    BY <1>9 DEF HandleFails, At, Handling
  <2>2. \E step \in Handling : GoesTo(s, step)
    BY <1>1, <1>9 DEF HandleFails, Retry, GoesTo, At, Handling
  <2> QED BY <1>1, <1>3, <1>4, <1>5, <2>1, <2>2
<1>10. CASE SagaCommit(s) \/ SagaCommitLost(s) \/ SagaCrash(s)
  <2>1. LetGo(s) /\ (UNCHANGED sfaults \/ SagaFault)
    BY <1>10 DEF SagaCommit, SagaCommitLost, SagaCrash
  <2> QED BY <1>1, <1>2, <1>3, <1>6, <2>1
<1> QED BY <1>7, <1>8, <1>9, <1>10 DEF SagaStep, SagaFaults

LEMMA ShapeStep ==
    ASSUME Shape, [Next]_sagaAllVars
    PROVE  Shape'
<1>1. /\ Grows /\ RowsOK' /\ LogOK' /\ KnownOK' /\ Group!GroupTypeOK'
      /\ sagaDlq' \subseteq PaymentIds /\ sagaDlqLost' \subseteq PaymentIds
  BY ParkedStep, LogsStep, RowsStep, LogStep, KnownStep, GroupStep
<1>2. ASSUME UNCHANGED sagaWork, sfaults' \in 0..MaxSagaFaults
      PROVE  SagaTypeOK'
  <2>1. /\ spc \in [Sagas -> {"poll"} \cup Handling]
        /\ smsg \in [Sagas -> Message]
        /\ sattempt \in [Sagas -> 0..MaxRetries]
          /\ spc' = spc /\ smsg' = smsg /\ sattempt' = sattempt
    BY <1>2 DEF Shape, SagaTypeOK, sagaWork
  <2>2. ASSUME NEW s \in Sagas, spc'[s] \in Handling
        PROVE  smsg'[s].part \in Partitions /\ smsg'[s].offset < Len(outcomeLog'[smsg'[s].part])
    <3>1. /\ smsg[s].part \in Partitions /\ smsg[s].offset < Len(outcomeLog[smsg[s].part])
          /\ smsg[s].offset \in Nat
      BY <2>1, <2>2 DEF Shape, SagaTypeOK, Message
    <3> QED BY <1>1, <2>1, <3>1 DEF Grows, LogKept
  <2> QED BY <1>1, <1>2, <2>1, <2>2 DEF SagaTypeOK, Handling, Message
<1>3. ASSUME NEW s \in Sagas, SagaStep(s) \/ SagaFaults(s)
      PROVE  SagaTypeOK'
  <2>1. PICK step \in {"poll"} \cup Handling, msg \in Message : Moves(s, step, msg)
    BY <1>3, WorkerStep
  <2>2. /\ sattempt' \in [Sagas -> 0..MaxRetries]
        /\ sfaults' \in 0..MaxSagaFaults
    BY <1>3, WorkerStep
  <2>3. /\ spc \in [Sagas -> {"poll"} \cup Handling]
        /\ smsg \in [Sagas -> Message]
        /\ \A d \in Sagas : spc[d] \in Handling =>
               /\ smsg[d].part \in Partitions
               /\ smsg[d].offset < Len(outcomeLog[smsg[d].part])
    BY DEF Shape, SagaTypeOK
  <2>4. /\ spc' \in [Sagas -> {"poll"} \cup Handling]
        /\ smsg' \in [Sagas -> Message]
        /\ spc'[s] = step /\ smsg'[s] = msg
        /\ \A d \in Sagas \ {s} : spc'[d] = spc[d] /\ smsg'[d] = smsg[d]
    BY <2>1, <2>3 DEF Moves
  <2>5. ASSUME NEW d \in Sagas, spc'[d] \in Handling
        PROVE  smsg'[d].part \in Partitions /\ smsg'[d].offset < Len(outcomeLog'[smsg'[d].part])
    <3>1. /\ smsg'[d].part \in Partitions
          /\ smsg'[d].offset < Len(outcomeLog[smsg'[d].part])
      BY <2>1, <2>3, <2>4, <2>5 DEF Moves
    <3>2. smsg'[d].offset \in Nat
      BY <2>4 DEF Message
    <3> QED BY <1>1, <3>1, <3>2 DEF Grows, LogKept
  <2> QED BY <1>1, <2>2, <2>4, <2>5 DEF SagaTypeOK, Handling, Message
<1>4. ASSUME \/ SagaJoin \/ SagaRebalance \/ (\E s \in Sagas : PollAgain(s))
             \/ Environment \/ UNCHANGED sagaAllVars
      PROVE  UNCHANGED sagaWork /\ sfaults' \in 0..MaxSagaFaults
  BY <1>4, SagaAssumption DEF SagaJoin, SagaRebalance, SagaFault, PollAgain, Environment, Announce,
       WebActs, RelayMarks,
       sagaAllVars, sagaVars, Shape, SagaTypeOK
<1> QED BY <1>1, <1>2, <1>3, <1>4 DEF Next, SagaNext, Shape

LEMMA ShapeInit ==
    ASSUME Init
    PROVE  Shape
<1>1. LogOK /\ RowsOK /\ KnownOK
  <2>1. << >> \in Seq(LedgerOutcome) /\ DOMAIN << >> = {}
    OBVIOUS
  <2> QED BY <2>1 DEF Init, StoreInit, SagaInit, LogOK, RowsOK, KnownOK
<1>2. Group!GroupTypeOK
  BY DEF Init, SagaInit, Group!GroupInit, Group!GroupTypeOK
<1>3. SagaTypeOK
  BY <1>2, SagaAssumption DEF Init, SagaInit, SagaTypeOK, NoMessage, Message, Handling
<1> QED BY <1>1, <1>3 DEF Shape


THEOREM ShapeCorrect == Spec => []Shape
BY ShapeInit, ShapeStep, PTL DEF Spec

(* The workers' variables keep their types: the outcome in hand is always one   *)
(* of the topic, and none is tried more often than the retries allow.         *)
THEOREM SagaTypeCorrect == Spec => []SagaTypeOK
<1>1. Shape => SagaTypeOK
  BY DEF Shape
<1> QED BY <1>1, ShapeCorrect, PTL

(* Compensation is final: no capture, retry or later outcome brings a voided    *)
(* payment back, and no row disappears.                                     *)
VoidIsFinal == \A p \in PaymentIds : Voided(p) => Voided(p)'

THEOREM VoidStays == Spec => [][VoidIsFinal]_sagaAllVars
<1>1. Shape /\ [Next]_sagaAllVars => VoidIsFinal
  BY RowsStep DEF RowsKept, Voided, VoidIsFinal
<1> QED BY <1>1, ShapeCorrect, PTL DEF Spec

----------------------------------------------------------------------------
(* Offsets.  Message o of partition q has been dealt with.                   *)
Accounted(q, o) ==
    LET out == outcomeLog[q][o] IN
    out.status = "REJECTED" =>
        Voided(out.payment) \/ out.payment \in sagaDlq \cup sagaDlqLost

InHand(s, q, o) == spc[s] \in Handling /\ smsg[s].part = q /\ smsg[s].offset + 1 = o

(* Whatever the owner of a partition has polled since its assignment, and       *)
(* whatever was committed before, is dealt with or is the message in its hand.  *)
PolledOK ==
    \A q \in Partitions :
        /\ scommitted[q] <= Len(outcomeLog[q]) /\ sposition[q] <= Len(outcomeLog[q])
        /\ \A o \in 1..scommitted[q] : Accounted(q, o)
        /\ \A s \in Sagas : sowner[q] = s =>
               \A o \in 1..sposition[q] : Accounted(q, o) \/ InHand(s, q, o)

(* A worker commits only what is dealt with, and an owner has polled no         *)
(* further than the message in its hand.                                    *)
CommitOK(s) ==
    /\ Committing(s) => Accounted(smsg[s].part, smsg[s].offset + 1)
    /\ spc[s] \in Handling /\ sowner[smsg[s].part] = s =>
           sposition[smsg[s].part] = smsg[s].offset + 1

OffsetInv == PolledOK /\ \A s \in Sagas : CommitOK(s)

----------------------------------------------------------------------------
LEMMA VoidedStep ==
    ASSUME Shape, VoidedOnRejection, [Next]_sagaAllVars
    PROVE  VoidedOnRejection'
<1>0. RowsOK /\ Grows
  BY LogsStep DEF Shape
<1>1. ASSUME NEW p \in PaymentIds, Rejected(p) PROVE Rejected(p)'
  <2>1. PICK q \in Partitions : \E n \in DOMAIN outcomeLog[q] :
            outcomeLog[q][n].payment = p /\ outcomeLog[q][n].status = "REJECTED"
    BY <1>1 DEF Rejected
  <2>2. PICK n \in DOMAIN outcomeLog[q] :
            outcomeLog[q][n].payment = p /\ outcomeLog[q][n].status = "REJECTED"
    BY <2>1
  <2>3. DOMAIN outcomeLog[q] = 1..Len(outcomeLog[q])
    BY DEF Shape, LogOK
  <2> QED BY <1>0, <2>2, <2>3 DEF Grows, LogKept, Rejected
<1> SUFFICES ASSUME NEW p \in PaymentIds, Voided(p)' PROVE Rejected(p)'
  BY DEF VoidedOnRejection
<1>2. CASE Voided(p)
  BY <1>1, <1>2 DEF VoidedOnRejection
<1>3. CASE ~Voided(p)
  <2>1. CASE UNCHANGED payments
    BY <1>3, <2>1 DEF Voided
  <2>2. CASE Inserts
    <3>1. PICK r \in PaymentIds \ DOMAIN payments, t \in Tenants, k \in Keys \cup {NoKey}, b \in Bodies :
              InsertPayment(r, t, k, b)
      BY <2>2 DEF Inserts
    <3>2. /\ DOMAIN payments' = DOMAIN payments \cup {r}
          /\ payments'[r].status = "AUTHORIZED"
          /\ \A x \in DOMAIN payments : payments'[x] = payments[x]
      BY <1>0, <3>1, RowInserted
    <3> QED BY <1>3, <3>2 DEF Voided
  <2>3. CASE Captures
    <3>1. PICK r \in DOMAIN payments : SetStatus(r, "CAPTURED")
      BY <2>3 DEF Captures
    <3>2. /\ DOMAIN payments' = DOMAIN payments
          /\ payments'[r].status = "CAPTURED"
          /\ \A x \in DOMAIN payments \ {r} : payments'[x] = payments[x]
      BY <1>0, <3>1, StatusWritten DEF Statuses
    <3> QED BY <1>3, <3>2 DEF Voided
  <2>4. ASSUME NEW s \in Sagas, Voids(s) PROVE Rejected(p)'
    <3>1. PICK r \in DOMAIN payments : r = Outcome(s).payment
      BY <2>4 DEF Voids, Compensable
    <3>2. /\ DOMAIN payments' = DOMAIN payments
          /\ \A x \in DOMAIN payments \ {r} : payments'[x] = payments[x]
      BY <1>0, <2>4, <3>1, StatusWritten DEF Voids, Statuses
    <3>3. p = Outcome(s).payment
      BY <1>3, <3>1, <3>2 DEF Voided
    <3>4. /\ smsg[s].part \in Partitions
          /\ smsg[s].offset + 1 \in DOMAIN outcomeLog[smsg[s].part]
      BY <2>4, HandTyped DEF Voids, At, Handling
    <3>5. Rejected(p)
      BY <2>4, <3>3, <3>4 DEF Voids, Outcome, Rejected
    <3> QED BY <1>1, <3>5
  <2> QED BY <2>1, <2>2, <2>3, <2>4, PaymentsStep
<1> QED BY <1>2, <1>3

(* A payment is voided only when the ledger has announced its rejection: not   *)
(* by a web request, a posted outcome or a stray retry.                      *)
THEOREM OnlyRejectedAreVoided == Spec => []VoidedOnRejection
<1>1. Init => VoidedOnRejection
  BY DEF Init, StoreInit, VoidedOnRejection, Voided
<1> QED BY <1>1, ShapeCorrect, VoidedStep, PTL DEF Spec

----------------------------------------------------------------------------
(* A step of one worker leaves the work of the others alone.                 *)
LEMMA OthersWait ==
    ASSUME Shape, NEW s \in Sagas, SagaStep(s) \/ SagaFaults(s),
           NEW d \in Sagas \ {s}
    PROVE  spc'[d] = spc[d] /\ smsg'[d] = smsg[d]
<1>1. PICK step \in {"poll"} \cup Handling, msg \in Message : Moves(s, step, msg)
  BY WorkerStep
<1> QED BY <1>1 DEF Moves, Shape, SagaTypeOK

(* The message in hand is the same outcome after the step.                  *)
LEMMA OutcomeKept ==
    ASSUME Shape, Grows, NEW s \in Sagas, spc[s] \in Handling, smsg'[s] = smsg[s]
    PROVE  Outcome(s)' = Outcome(s)
<1>1. /\ smsg[s].part \in Partitions
      /\ smsg[s].offset + 1 \in 1..Len(outcomeLog[smsg[s].part])
  BY HandTyped DEF Shape, LogOK
<1> QED BY <1>1 DEF Outcome, Grows, LogKept

(* An attempt that does not raise has voided the payment of a rejection, now   *)
(* or in an earlier attempt.                                               *)
LEMMA Compensated ==
    ASSUME Shape, NEW s \in Sagas, Handle(s), Outcome(s).status = "REJECTED"
    PROVE  /\ Outcome(s).payment \in DOMAIN payments'
           /\ payments'[Outcome(s).payment].status = "VOIDED"
<1>1. PICK p \in DOMAIN payments : p = Outcome(s).payment
  BY HandTyped DEF Handle, At, Handling
<1>2. IF Compensable(p) THEN SetStatus(p, "VOIDED") ELSE UNCHANGED payments
  BY <1>1 DEF Handle, CompensateIfRejected, CompensatePayment
<1>3. RowsOK /\ "VOIDED" \in Statuses
  BY DEF Shape, Statuses
<1>4. CASE Compensable(p)
  BY <1>1, <1>2, <1>3, <1>4, StatusWritten
<1>5. CASE ~Compensable(p)
  BY <1>1, <1>2, <1>5 DEF Compensable
<1> QED BY <1>4, <1>5

----------------------------------------------------------------------------
(* A saga worker polls, goes on with the message in its hand, or lets go of it.    *)
GoesOn(s) ==
    /\ spc[s] \in Handling /\ spc'[s] \in Handling
    /\ smsg' = smsg /\ UNCHANGED sagaGroup

LEMMA StepKinds ==
    ASSUME Shape, NEW s \in Sagas, SagaStep(s) \/ SagaFaults(s)
    PROVE  \/ SagaPoll(s) \/ GoesOn(s)
           \/ SagaCommit(s) \/ SagaCommitLost(s) \/ SagaCrash(s)
<1>1. spc \in [Sagas -> {"poll"} \cup Handling]
  BY DEF Shape, SagaTypeOK
<1>2. ASSUME SagaDecode(s) \/ SagaDecodeFails(s) \/ SagaToDlq(s) \/ SagaToDlqUndelivered(s)
               \/ Handle(s) \/ SagaCommitRaises(s)
      PROVE  GoesOn(s)
  BY <1>1, <1>2 DEF SagaDecode, SagaDecodeFails, SagaToDlq, SagaToDlqUndelivered, Handle,
       SagaCommitRaises, GoesTo, At, Handling, GoesOn
<1>3. ASSUME HandleFails(s) PROVE GoesOn(s)
  BY <1>1, <1>3 DEF HandleFails, Retry, GoesTo, At, Handling, GoesOn
<1> QED BY <1>2, <1>3 DEF SagaStep, SagaFaults

(* A message that was dealt with stays dealt with.                          *)
LEMMA AccountedOn ==
    ASSUME Shape, Grows, NEW q \in Partitions, NEW o \in 1..Len(outcomeLog[q]), Accounted(q, o)
    PROVE  Accounted(q, o)'
<1>1. outcomeLog'[q][o] = outcomeLog[q][o]
  BY DEF Grows, LogKept
<1>2. PICK x : x = outcomeLog[q][o].payment
  OBVIOUS
<1>3. /\ Voided(x) => Voided(x)'
      /\ sagaDlq \subseteq sagaDlq' /\ sagaDlqLost \subseteq sagaDlqLost'
  BY DEF Grows, LogKept, RowsKept, Voided
<1> QED BY <1>1, <1>2, <1>3 DEF Accounted

(* The offsets after a step that moves no one in the group: what was in the     *)
(* owner's hand must still be there or have been dealt with.                  *)
LEMMA PolledKept ==
    ASSUME Shape, Grows, PolledOK, sposition' = sposition, sowner' = sowner,
           scommitted' = scommitted,
           \A s \in Sagas, q \in Partitions : \A o \in 1..sposition[q] :
               InHand(s, q, o) => Accounted(q, o) \/ InHand(s, q, o)'
    PROVE  PolledOK'
<1> SUFFICES ASSUME NEW q \in Partitions
             PROVE  /\ scommitted'[q] <= Len(outcomeLog'[q]) /\ sposition'[q] <= Len(outcomeLog'[q])
                    /\ \A o \in 1..scommitted'[q] : Accounted(q, o)'
                    /\ \A s \in Sagas : sowner'[q] = s =>
                           \A o \in 1..sposition'[q] : Accounted(q, o)' \/ InHand(s, q, o)'
  BY DEF PolledOK
<1>1. /\ scommitted[q] \in Nat /\ sposition[q] \in Nat
      /\ Len(outcomeLog[q]) \in Nat /\ Len(outcomeLog'[q]) \in Nat
      /\ Len(outcomeLog[q]) <= Len(outcomeLog'[q])
      /\ scommitted[q] <= Len(outcomeLog[q]) /\ sposition[q] <= Len(outcomeLog[q])
  BY DEF Shape, SagaTypeOK, Group!GroupTypeOK, Grows, LogKept, PolledOK
<1>2. \A o \in 1..Len(outcomeLog[q]) : Accounted(q, o) => Accounted(q, o)'
  BY AccountedOn
<1> QED BY <1>1, <1>2 DEF PolledOK

LEMMA PollOffsets ==
    ASSUME Shape, Grows, PolledOK, NEW s \in Sagas, SagaPoll(s)
    PROVE  PolledOK'
<1>1. PICK p \in Partitions :
          /\ Group!Poll(s, p, outcomeLog)
          /\ smsg' = [smsg EXCEPT ![s] = [part |-> p, offset |-> sposition[p]]]
  BY DEF SagaPoll
<1>2. /\ spc[s] = "poll" /\ spc'[s] = "decode"
      /\ smsg'[s] = [part |-> p, offset |-> sposition[p]]
      /\ \A d \in Sagas \ {s} : spc'[d] = spc[d] /\ smsg'[d] = smsg[d]
  BY <1>1 DEF SagaPoll, At, GoesTo, Shape, SagaTypeOK
<1>3. /\ sowner' = sowner /\ scommitted' = scommitted /\ outcomeLog' = outcomeLog
      /\ sposition[p] < Len(outcomeLog[p])
      /\ sposition'[p] = sposition[p] + 1
      /\ sowner[p] = s
      /\ \A q \in Partitions \ {p} : sposition'[q] = sposition[q]
  BY <1>1 DEF SagaPoll, Group!Poll, Group!Available, Shape, SagaTypeOK, Group!GroupTypeOK
<1> SUFFICES ASSUME NEW q \in Partitions
             PROVE  /\ scommitted'[q] <= Len(outcomeLog'[q]) /\ sposition'[q] <= Len(outcomeLog'[q])
                    /\ \A o \in 1..scommitted'[q] : Accounted(q, o)'
                    /\ \A d \in Sagas : sowner'[q] = d =>
                           \A o \in 1..sposition'[q] : Accounted(q, o)' \/ InHand(d, q, o)'
  BY DEF PolledOK
<1>4. /\ scommitted[q] \in Nat /\ sposition[q] \in Nat
      /\ Len(outcomeLog[q]) \in Nat
      /\ scommitted[q] <= Len(outcomeLog[q]) /\ sposition[q] <= Len(outcomeLog[q])
  BY DEF Shape, SagaTypeOK, Group!GroupTypeOK, Grows, LogKept, PolledOK
<1>5. \A o \in 1..Len(outcomeLog[q]) : Accounted(q, o) => Accounted(q, o)'
  BY AccountedOn
<1>6. sposition'[q] <= Len(outcomeLog[q])
  BY <1>3, <1>4
<1>7. ASSUME NEW d \in Sagas, sowner[q] = d, NEW o \in 1..sposition'[q]
      PROVE  Accounted(q, o)' \/ InHand(d, q, o)'
  <2>1. CASE o \in 1..sposition[q]
    <3>1. Accounted(q, o) \/ InHand(d, q, o)
      BY <1>7, <2>1 DEF PolledOK
    <3>2. InHand(d, q, o) => d # s
      BY <1>2 DEF InHand, Handling
    <3>3. InHand(d, q, o) => InHand(d, q, o)'
      BY <1>2, <3>2 DEF InHand
    <3> QED BY <1>4, <1>5, <2>1, <3>1, <3>3
  <2>2. CASE o \notin 1..sposition[q]
    <3>1. q = p /\ o = sposition[p] + 1 /\ d = s
      BY <1>3, <1>4, <1>7, <2>2
    <3> QED BY <1>2, <3>1 DEF InHand, Handling
  <2> QED BY <2>1, <2>2
<1> QED BY <1>3, <1>4, <1>5, <1>6, <1>7 DEF PolledOK

LEMMA CommitOffsets ==
    ASSUME Shape, Grows, PolledOK, NEW s \in Sagas, CommitOK(s), SagaCommit(s)
    PROVE  PolledOK'
<1>1. /\ spc[s] \in Handling /\ Committing(s)
      /\ Group!Commit(s, smsg[s].part, smsg[s].offset) /\ LetGo(s) /\ outcomeLog' = outcomeLog
  BY DEF SagaCommit, Committing, Handling
<1>2. PICK p \in Partitions, m \in Nat :
          /\ p = smsg[s].part /\ m = smsg[s].offset /\ m + 1 \in DOMAIN outcomeLog[p]
  BY <1>1, HandTyped
<1>3. /\ sowner' = sowner /\ sposition' = sposition
      /\ \A q \in Partitions : scommitted'[q] = scommitted[q] \/ (q = p /\ sowner[p] = s /\ scommitted'[p] = m + 1)
  BY <1>1, <1>2 DEF Group!Commit, Shape, SagaTypeOK, Group!GroupTypeOK
<1>4. /\ spc'[s] = "poll"
      /\ \A d \in Sagas \ {s} : spc'[d] = spc[d] /\ smsg'[d] = smsg[d]
  BY <1>1 DEF LetGo, GoesTo, Shape, SagaTypeOK
<1>5. Accounted(p, m + 1)
  BY <1>1, <1>2 DEF CommitOK
<1>6. \A q \in Partitions, o \in Nat : InHand(s, q, o) => q = p /\ o = m + 1
  BY <1>2 DEF InHand
<1> SUFFICES ASSUME NEW q \in Partitions
             PROVE  /\ scommitted'[q] <= Len(outcomeLog'[q]) /\ sposition'[q] <= Len(outcomeLog'[q])
                    /\ \A o \in 1..scommitted'[q] : Accounted(q, o)'
                    /\ \A d \in Sagas : sowner'[q] = d =>
                           \A o \in 1..sposition'[q] : Accounted(q, o)' \/ InHand(d, q, o)'
  BY DEF PolledOK
<1>7. /\ scommitted[q] \in Nat /\ sposition[q] \in Nat
      /\ Len(outcomeLog[q]) \in Nat /\ DOMAIN outcomeLog[q] = 1..Len(outcomeLog[q])
      /\ scommitted[q] <= Len(outcomeLog[q]) /\ sposition[q] <= Len(outcomeLog[q])
  BY DEF Shape, SagaTypeOK, Group!GroupTypeOK, Grows, LogKept, PolledOK, LogOK
<1>8. \A o \in 1..Len(outcomeLog[q]) : Accounted(q, o) => Accounted(q, o)'
  BY AccountedOn
<1>9. ASSUME NEW d \in Sagas, sowner[q] = d, NEW o \in 1..sposition[q]
      PROVE  Accounted(q, o) \/ (d # s /\ InHand(d, q, o))
  BY <1>5, <1>6, <1>7, <1>9 DEF PolledOK
<1>10. \A d \in Sagas \ {s}, o \in Nat : InHand(d, q, o) => InHand(d, q, o)'
  BY <1>4 DEF InHand
<1>11. \A d \in Sagas : sowner'[q] = d =>
          \A o \in 1..sposition'[q] : Accounted(q, o)' \/ InHand(d, q, o)'
  BY <1>3, <1>7, <1>8, <1>9, <1>10
<1>12. CASE scommitted'[q] = scommitted[q]
  BY <1>1, <1>3, <1>7, <1>8, <1>11, <1>12 DEF PolledOK
<1>13. CASE q = p /\ sowner[p] = s /\ scommitted'[p] = m + 1
  <2>1. sposition[p] = m + 1
    BY <1>1, <1>2, <1>13 DEF CommitOK
  <2>2. \A o \in 1..(m + 1) : Accounted(p, o)
    BY <1>9, <1>13, <2>1
  <2> QED BY <1>1, <1>2, <1>3, <1>7, <1>8, <1>11, <1>13, <2>2
<1> QED BY <1>3, <1>12, <1>13

(* A member that leaves takes no message with it that matters: its partitions   *)
(* start again at the committed offset.                                     *)
LEMMA CrashOffsets ==
    ASSUME Shape, Grows, PolledOK, NEW s \in Sagas, SagaCrash(s)
    PROVE  PolledOK'
<1>1. /\ sposition' = sposition /\ scommitted' = scommitted /\ outcomeLog' = outcomeLog
      /\ \A q \in Partitions : sowner'[q] = IF sowner[q] = s THEN NoSaga ELSE sowner[q]
      /\ LetGo(s)
  BY DEF SagaCrash, Group!Leave
<1>2. \A d \in Sagas \ {s} : spc'[d] = spc[d] /\ smsg'[d] = smsg[d]
  BY <1>1 DEF LetGo, GoesTo, Shape, SagaTypeOK
<1>3. \A d \in Sagas, q \in Partitions : sowner'[q] = d => sowner[q] = d /\ d # s
  BY <1>1, SagaAssumption
<1> SUFFICES ASSUME NEW q \in Partitions
             PROVE  /\ scommitted'[q] <= Len(outcomeLog'[q]) /\ sposition'[q] <= Len(outcomeLog'[q])
                    /\ \A o \in 1..scommitted'[q] : Accounted(q, o)'
                    /\ \A d \in Sagas : sowner'[q] = d =>
                           \A o \in 1..sposition'[q] : Accounted(q, o)' \/ InHand(d, q, o)'
  BY DEF PolledOK
<1>4. /\ scommitted[q] \in Nat /\ sposition[q] \in Nat /\ Len(outcomeLog[q]) \in Nat
      /\ scommitted[q] <= Len(outcomeLog[q]) /\ sposition[q] <= Len(outcomeLog[q])
  BY DEF Shape, SagaTypeOK, Group!GroupTypeOK, Grows, LogKept, PolledOK
<1>5. \A o \in 1..Len(outcomeLog[q]) : Accounted(q, o) => Accounted(q, o)'
  BY AccountedOn
<1>6. \A d \in Sagas \ {s}, o \in Nat : InHand(d, q, o) => InHand(d, q, o)'
  BY <1>2 DEF InHand
<1> QED BY <1>1, <1>3, <1>4, <1>5, <1>6 DEF PolledOK

LEMMA RebalanceOffsets ==
    ASSUME Shape, Grows, PolledOK, Group!Rebalance(Polling), UNCHANGED outcomeLog
    PROVE  PolledOK'
<1>1. sposition' = scommitted /\ scommitted' = scommitted
  BY DEF Group!Rebalance
<1> SUFFICES ASSUME NEW q \in Partitions
             PROVE  /\ scommitted'[q] <= Len(outcomeLog'[q]) /\ sposition'[q] <= Len(outcomeLog'[q])
                    /\ \A o \in 1..scommitted'[q] : Accounted(q, o)'
                    /\ \A d \in Sagas : sowner'[q] = d =>
                           \A o \in 1..sposition'[q] : Accounted(q, o)' \/ InHand(d, q, o)'
  BY DEF PolledOK
<1>2. /\ scommitted[q] \in Nat /\ Len(outcomeLog[q]) \in Nat
      /\ scommitted[q] <= Len(outcomeLog[q])
      /\ \A o \in 1..scommitted[q] : Accounted(q, o)
  BY DEF Shape, SagaTypeOK, Group!GroupTypeOK, Grows, LogKept, PolledOK
<1>3. \A o \in 1..Len(outcomeLog[q]) : Accounted(q, o) => Accounted(q, o)'
  BY AccountedOn
<1> QED BY <1>1, <1>2, <1>3

LEMMA PolledStep ==
    ASSUME Shape, OffsetInv, [Next]_sagaAllVars
    PROVE  PolledOK'
<1>0. Grows /\ PolledOK
  BY LogsStep DEF OffsetInv
<1>1. ASSUME NEW s \in Sagas, GoesOn(s), SagaStep(s) \/ SagaFaults(s) PROVE PolledOK'
  <2>1. \A d \in Sagas : smsg'[d] = smsg[d] /\ (spc'[d] = spc[d] \/ d = s)
    BY <1>1, OthersWait DEF GoesOn
  <2>2. \A d \in Sagas : \A q \in Partitions : \A o \in 1..sposition[q] :
            InHand(d, q, o) => InHand(d, q, o)'
    BY <1>1, <2>1 DEF GoesOn, InHand
  <2> QED BY <1>0, <1>1, <2>2, PolledKept DEF GoesOn, sagaGroup
<1>2. ASSUME NEW s \in Sagas, SagaCommitLost(s) PROVE PolledOK'
  <2>1. CommitOK(s) /\ Committing(s) /\ LetGo(s) /\ UNCHANGED sagaGroup
    BY <1>2 DEF SagaCommitLost, OffsetInv
  <2>2. \A d \in Sagas \ {s} : spc'[d] = spc[d] /\ smsg'[d] = smsg[d]
    BY <2>1 DEF LetGo, GoesTo, Shape, SagaTypeOK
  <2>3. \A d \in Sagas : \A q \in Partitions : \A o \in 1..sposition[q] :
            InHand(d, q, o) => Accounted(q, o) \/ InHand(d, q, o)'
    BY <2>1, <2>2 DEF InHand, CommitOK
  <2> QED BY <1>0, <2>1, <2>3, PolledKept DEF sagaGroup
<1>3. ASSUME NEW s \in Sagas, SagaStep(s) \/ SagaFaults(s) PROVE PolledOK'
  <2>1. CommitOK(s)
    BY DEF OffsetInv
  <2> QED BY <1>0, <1>1, <1>2, <1>3, <2>1, StepKinds, PollOffsets, CommitOffsets, CrashOffsets
<1>4. ASSUME SagaJoin \/ SagaRebalance PROVE PolledOK'
  BY <1>0, <1>4, RebalanceOffsets DEF SagaJoin, SagaRebalance
<1>5. ASSUME UNCHANGED <<sagaGroup, sagaWork>> PROVE PolledOK'
  <2>1. \A d \in Sagas : \A q \in Partitions : \A o \in 1..sposition[q] :
            InHand(d, q, o) => InHand(d, q, o)'
    BY <1>5 DEF sagaWork, InHand
  <2> QED BY <1>0, <1>5, <2>1, PolledKept DEF sagaGroup
<1> QED BY <1>3, <1>4, <1>5 DEF Next, SagaNext, PollAgain, Environment, Announce,
    WebActs, RelayMarks, sagaAllVars, sagaVars

(* A saga worker the step is not about keeps its part of the invariant.          *)
LEMMA CommitOKKept ==
    ASSUME Shape, Grows, NEW d \in Sagas, CommitOK(d),
           smsg'[d] = smsg[d],
           spc[d] \in Handling /\ spc'[d] \in Handling,
           Committing(d)' => Committing(d) \/ Accounted(smsg[d].part, smsg[d].offset + 1)',
           sowner'[smsg[d].part] = d =>
               /\ sowner[smsg[d].part] = d
               /\ sposition'[smsg[d].part] = sposition[smsg[d].part]
    PROVE  CommitOK(d)'
<1>1. PICK p \in Partitions, m \in Nat :
          /\ p = smsg[d].part /\ m = smsg[d].offset /\ m + 1 \in 1..Len(outcomeLog[p])
  <2>1. /\ smsg[d].part \in Partitions /\ smsg[d].offset \in Nat
        /\ smsg[d].offset + 1 \in DOMAIN outcomeLog[smsg[d].part]
    BY HandTyped
  <2> QED BY <2>1 DEF Shape, LogOK
<1>2. Accounted(p, m + 1) => Accounted(p, m + 1)'
  BY <1>1, AccountedOn
<1>3. smsg'[d].part = p /\ smsg'[d].offset = m
  BY <1>1
<1>4. Committing(d)' => Accounted(p, m + 1)'
  BY <1>1, <1>2, <1>3 DEF CommitOK
<1> QED BY <1>1, <1>3, <1>4 DEF CommitOK

LEMMA CommitOKStep ==
    ASSUME Shape, OffsetInv, [Next]_sagaAllVars, NEW d \in Sagas
    PROVE  CommitOK(d)'
<1>0. Grows /\ CommitOK(d)
  BY LogsStep DEF OffsetInv
<1>1. /\ spc \in [Sagas -> {"poll"} \cup Handling]
      /\ smsg \in [Sagas -> Message]
      /\ sowner \in [Partitions -> Sagas \cup {NoSaga}]
      /\ sposition \in [Partitions -> Nat]
  BY DEF Shape, SagaTypeOK, Group!GroupTypeOK
<1>2. ASSUME spc'[d] \notin Handling PROVE CommitOK(d)'
  BY <1>2 DEF CommitOK, Committing, Handling
<1>3. ASSUME SagaPoll(d) PROVE CommitOK(d)'
  <2>1. PICK q \in Partitions :
            /\ Group!Poll(d, q, outcomeLog)
            /\ smsg' = [smsg EXCEPT ![d] = [part |-> q, offset |-> sposition[q]]]
    BY <1>3 DEF SagaPoll
  <2>2. spc'[d] = "decode" /\ sposition'[q] = sposition[q] + 1
    BY <1>1, <1>3, <2>1 DEF SagaPoll, GoesTo, Group!Poll
  <2>3. smsg'[d] = [part |-> q, offset |-> sposition[q]]
    BY <1>1, <2>1
  <2> QED BY <2>2, <2>3 DEF CommitOK, Committing
<1>4. ASSUME SagaCommit(d) \/ SagaCommitLost(d) \/ SagaCrash(d) PROVE CommitOK(d)'
  <2>1. spc'[d] = "poll"
    BY <1>1, <1>4 DEF SagaCommit, SagaCommitLost, SagaCrash, LetGo, GoesTo
  <2> QED BY <1>2, <2>1 DEF Handling
<1>5. ASSUME GoesOn(d), SagaStep(d) \/ SagaFaults(d) PROVE CommitOK(d)'
  <2>1. /\ spc[d] \in Handling /\ spc'[d] \in Handling /\ smsg'[d] = smsg[d]
        /\ sowner' = sowner /\ sposition' = sposition
    BY <1>5 DEF GoesOn, sagaGroup
  <2>2. Outcome(d)' = Outcome(d) /\ Outcome(d) \in LedgerOutcome
    BY <1>0, <2>1, OutcomeKept, HandTyped
  <2>3. PICK p \in Partitions, m \in Nat, e \in LedgerOutcome :
            p = smsg[d].part /\ m = smsg[d].offset /\ e = Outcome(d)
    BY <2>1, <2>2, HandTyped
  <2>4. outcomeLog'[p][m + 1] = e
    BY <2>1, <2>2, <2>3 DEF Outcome
  <2>5. ASSUME Handle(d) PROVE Accounted(p, m + 1)'
    <3>1. PICK x : x = e.payment
      OBVIOUS
    <3>2. e.status = "REJECTED" => Voided(x)'
      BY <2>3, <2>5, <3>1, Compensated DEF Voided
    <3> QED BY <2>4, <3>1, <3>2 DEF Accounted
  <2>6. ASSUME SagaToDlq(d) \/ SagaToDlqUndelivered(d) PROVE Accounted(p, m + 1)'
    <3>1. e.payment \in sagaDlq' \cup sagaDlqLost'
      BY <2>3, <2>6 DEF SagaToDlq, SagaToDlqUndelivered
    <3> QED BY <2>4, <3>1 DEF Accounted
  <2>7. ASSUME ~Handle(d), ~SagaToDlq(d), ~SagaToDlqUndelivered(d), Committing(d)' PROVE Committing(d)
    <3>1. ASSUME SagaDecode(d) \/ SagaDecodeFails(d) \/ SagaCommitRaises(d) \/ HandleFails(d)
          PROVE  spc'[d] \notin {"commit", "commitPast"}
      BY <1>1, <3>1 DEF SagaDecode, SagaDecodeFails, SagaCommitRaises, HandleFails,
           Retry, At, GoesTo
    <3>2. ASSUME SagaPoll(d) \/ SagaCommit(d) \/ SagaCommitLost(d) \/ SagaCrash(d)
          PROVE  spc'[d] \in {"poll", "decode"}
      BY <1>1, <3>2 DEF SagaPoll, SagaCommit, SagaCommitLost, SagaCrash, LetGo, GoesTo
    <3> QED BY <1>5, <2>7, <3>1, <3>2 DEF SagaStep, SagaFaults, Committing
  <2>8. Committing(d)' => Committing(d) \/ Accounted(smsg[d].part, smsg[d].offset + 1)'
    <3>1. smsg'[d].part = p /\ smsg'[d].offset = m
      BY <2>1, <2>3
    <3> QED BY <2>5, <2>6, <2>7, <3>1
  <2> QED BY <1>0, <2>1, <2>8, CommitOKKept
<1>6. ASSUME NEW s \in Sagas, SagaStep(s) \/ SagaFaults(s), s # d, spc'[d] \in Handling
      PROVE  CommitOK(d)'
  <2>1. spc'[d] = spc[d] /\ smsg'[d] = smsg[d]
    BY <1>6, OthersWait
  <2>2. PICK p \in Partitions : p = smsg[d].part
    BY <1>6, <2>1, HandTyped
  <2>3. sowner'[p] = d => sowner[p] = d /\ sposition'[p] = sposition[p]
    <3>1. ASSUME SagaPoll(s) PROVE <2>3!:
      <4>1. PICK q \in Partitions : Group!Poll(s, q, outcomeLog)
        BY <3>1 DEF SagaPoll
      <4> QED BY <1>1, <1>6, <4>1 DEF Group!Poll, Group!Available
    <3>2. ASSUME SagaCommit(s) PROVE <2>3!:
      BY <3>2 DEF SagaCommit, Group!Commit
    <3>3. ASSUME SagaCrash(s) PROVE <2>3!:
      BY <1>6, <3>3, SagaAssumption DEF SagaCrash, Group!Leave
    <3>4. ASSUME GoesOn(s) \/ SagaCommitLost(s) PROVE <2>3!:
      BY <3>4 DEF GoesOn, SagaCommitLost, sagaGroup
    <3> QED BY <1>6, <3>1, <3>2, <3>3, <3>4, StepKinds
  <2>4. Committing(d)' => Committing(d)
    BY <2>1 DEF Committing
  <2> QED BY <1>0, <1>6, <2>1, <2>2, <2>3, <2>4, CommitOKKept
<1>7. ASSUME SagaJoin \/ SagaRebalance PROVE CommitOK(d)'
  <2>1. /\ spc' = spc /\ smsg' = smsg /\ outcomeLog' = outcomeLog
        /\ Group!Rebalance(Polling)
    BY <1>7 DEF SagaJoin, SagaRebalance, sagaWork
  <2>2. ASSUME spc[d] \in Handling PROVE CommitOK(d)'
    <3>1. d \notin Polling
      BY <2>2 DEF Polling, At, Handling
    <3>2. PICK p \in Partitions : p = smsg[d].part
      BY <2>2, HandTyped
    <3>3. sowner'[p] # d
      BY <2>1, <3>1, SagaAssumption DEF Group!Rebalance
    <3>4. Committing(d)' => Committing(d)
      BY <2>1 DEF Committing
    <3> QED BY <1>0, <2>1, <2>2, <3>2, <3>3, <3>4, CommitOKKept
  <2> QED BY <1>2, <2>1, <2>2
<1>8. ASSUME UNCHANGED <<sagaGroup, sagaWork>> PROVE CommitOK(d)'
  <2>1. spc' = spc /\ smsg' = smsg /\ sowner' = sowner /\ sposition' = sposition
    BY <1>8 DEF sagaGroup, sagaWork
  <2>2. ASSUME spc[d] \in Handling PROVE CommitOK(d)'
    BY <1>0, <2>1, <2>2, CommitOKKept DEF Committing
  <2> QED BY <1>2, <2>1, <2>2
<1>9. ASSUME NEW s \in Sagas, SagaStep(s) \/ SagaFaults(s) PROVE CommitOK(d)'
  BY <1>2, <1>3, <1>4, <1>5, <1>6, <1>9, StepKinds
<1> QED BY <1>7, <1>8, <1>9 DEF Next, SagaNext, PollAgain, Environment, Announce,
    WebActs, RelayMarks, sagaAllVars, sagaVars

(* Compensation is never skipped: a rejection behind the committed offset has    *)
(* its payment voided or was sent to the DLQ, through crashes, retries,         *)
(* rebalances in the middle of a message and lost commits.                    *)
THEOREM CompensationNotSkipped == Spec => []RejectionAccountedFor
<1>1. Init => OffsetInv
  <2> SUFFICES ASSUME Init PROVE OffsetInv
    OBVIOUS
  <2>1. /\ \A q \in Partitions : /\ scommitted[q] = 0 /\ sposition[q] = 0
                                /\ sowner[q] = NoSaga /\ outcomeLog[q] = << >>
        /\ \A s \in Sagas : spc[s] = "poll"
    BY DEF Init, SagaInit, Group!GroupInit
  <2>2. Len(<< >>) = 0 /\ 1..0 = {}
    OBVIOUS
  <2> QED BY <2>1, <2>2 DEF OffsetInv, PolledOK, CommitOK, Committing, Handling
<1>2. Shape /\ OffsetInv /\ [Next]_sagaAllVars => OffsetInv'
  <2> SUFFICES ASSUME Shape, OffsetInv, [Next]_sagaAllVars PROVE OffsetInv'
    OBVIOUS
  <2> QED BY PolledStep, CommitOKStep DEF OffsetInv
<1>3. Spec => []OffsetInv
  BY <1>1, <1>2, ShapeCorrect, PTL DEF Spec
<1>4. OffsetInv => RejectionAccountedFor
  BY DEF OffsetInv, PolledOK, RejectionAccountedFor, Accounted
<1> QED BY <1>3, <1>4, PTL
=============================================================================

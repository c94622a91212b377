------------------------- MODULE LedgerConsumerProofs -------------------------
(***************************************************************************)
(* Proofs about the Ledger's consumers, for any number of processes,          *)
(* partitions, retries and faults, and any events the relay may publish.     *)
(***************************************************************************)
EXTENDS LedgerConsumer, SequenceTheorems, FiniteSetTheorems, WellFoundedInduction, TLAPS

(* What can be booked for an event, and what can be answered.                *)
EntryOf(e) == [event |-> e.event, payment |-> e.payment,
               tenant |-> e.tenant, lines |-> DoubleEntry(e)]
AnswerOf(e, status) == [event |-> e.event, payment |-> e.payment, status |-> status]

Entries == {EntryOf(e) : e \in Events}
Answers == {AnswerOf(e, status) : e \in Events, status \in {"none", "POSTED", "REJECTED"}}

LogsOK ==
    /\ eventLog \in [Partitions -> Seq(Events)]
    /\ outcomeLog \in [Partitions -> Seq(Answers)]
    /\ journal \in Seq(Entries)

Shape == LedgerTypeOK /\ LogsOK

----------------------------------------------------------------------------
(* A log of partitions in which one partition grows by one record.           *)
LEMMA LogGrows ==
    ASSUME NEW P, NEW S, NEW L \in [P -> Seq(S)], NEW q \in P, NEW x \in S,
           NEW M, M = [L EXCEPT ![q] = Append(@, x)]
    PROVE  /\ M \in [P -> Seq(S)]
           /\ DOMAIN M[q] = 1..(Len(L[q]) + 1)
           /\ M[q][Len(L[q]) + 1] = x
           /\ \A p \in P \ {q} : M[p] = L[p]
           /\ \A p \in P : /\ Len(L[p]) \in Nat /\ Len(M[p]) \in Nat
                           /\ Len(L[p]) <= Len(M[p])
                           /\ DOMAIN L[p] = 1..Len(L[p]) /\ DOMAIN M[p] = 1..Len(M[p])
                           /\ \A o \in DOMAIN L[p] : M[p][o] = L[p][o]
<1> DEFINE new == Append(L[q], x)
<1>1. L[q] \in Seq(S) /\ M = [L EXCEPT ![q] = new]
  OBVIOUS
<1>2. /\ new \in Seq(S)
      /\ Len(new) = Len(L[q]) + 1
      /\ new[Len(L[q]) + 1] = x
      /\ \A o \in 1..Len(L[q]) : new[o] = L[q][o]
  BY <1>1, AppendProperties
<1> HIDE DEF new
<1>3. M[q] = new /\ (\A p \in P \ {q} : M[p] = L[p]) /\ M \in [P -> Seq(S)]
  BY <1>1, <1>2
<1>4. \A p \in P : /\ Len(L[p]) \in Nat /\ Len(M[p]) \in Nat
                   /\ DOMAIN L[p] = 1..Len(L[p]) /\ DOMAIN M[p] = 1..Len(M[p])
  <2>1. \A p \in P : L[p] \in Seq(S) /\ M[p] \in Seq(S)
    BY <1>3
  <2> QED BY <2>1, LenProperties
<1>5. ASSUME NEW p \in P
      PROVE  Len(L[p]) <= Len(M[p]) /\ \A o \in DOMAIN L[p] : M[p][o] = L[p][o]
  BY <1>2, <1>3, <1>4
<1> QED BY <1>2, <1>3, <1>4, <1>5

(* The event in a busy consumer's hand.                                    *)
LEMMA HandTyped ==
    ASSUME Shape, NEW c \in Consumers, lpc[c] \in Handling
    PROVE  /\ lmsg[c].part \in Partitions
           /\ lmsg[c].offset \in Nat
           /\ lmsg[c].offset + 1 \in DOMAIN eventLog[lmsg[c].part]
           /\ Ev(c) \in Events
           /\ lstatus[c] \in {"none", "POSTED", "REJECTED"}
           /\ OutcomeOf(c) \in Answers
<1>1. /\ lmsg[c].part \in Partitions
      /\ lmsg[c].offset < Len(eventLog[lmsg[c].part])
      /\ lmsg[c].offset \in Nat
      /\ lstatus[c] \in {"none", "POSTED", "REJECTED"}
  BY DEF Shape, LedgerTypeOK, Message
<1>2. eventLog[lmsg[c].part] \in Seq(Events)
  BY <1>1 DEF Shape, LogsOK
<1>3. lmsg[c].offset + 1 \in DOMAIN eventLog[lmsg[c].part] /\ Ev(c) \in Events
  <2> DEFINE L == eventLog[lmsg[c].part]
             n == lmsg[c].offset
  <2>1. L \in Seq(Events) /\ n \in Nat /\ n < Len(L) /\ Ev(c) = L[n + 1]
    BY <1>1, <1>2 DEF Ev
  <2> HIDE DEF L, n
  <2>2. n + 1 \in DOMAIN L /\ L[n + 1] \in Events
    BY <2>1
  <2> QED BY <2>1, <2>2 DEF L, n
<1>4. OutcomeOf(c) \in Answers
  <2>1. OutcomeOf(c) = AnswerOf(Ev(c), lstatus[c])
    BY DEF OutcomeOf, AnswerOf
  <2> QED BY <1>1, <1>3, <2>1 DEF Answers
<1> QED BY <1>1, <1>3, <1>4

(* Nothing that was logged, booked or parked is ever taken back.             *)
Grows ==
    /\ \A q \in Partitions :
          /\ Len(eventLog[q]) \in Nat /\ Len(eventLog'[q]) \in Nat
          /\ Len(eventLog[q]) <= Len(eventLog'[q])
          /\ \A o \in 1..Len(eventLog[q]) :
                 o \in DOMAIN eventLog'[q] /\ eventLog'[q][o] = eventLog[q][o]
    /\ \A q \in Partitions : \A n \in DOMAIN outcomeLog[q] :
          n \in DOMAIN outcomeLog'[q] /\ outcomeLog'[q][n] = outcomeLog[q][n]
    /\ \A n \in DOMAIN journal : n \in DOMAIN journal' /\ journal'[n] = journal[n]
    /\ eventDlq \subseteq eventDlq' /\ dlqLost \subseteq dlqLost'

LEMMA EventsStep ==
    ASSUME Shape, [Next]_ledgerAllVars
    PROVE  \/ UNCHANGED eventLog
           \/ \E q \in Partitions, e \in Events : Publish(q, e)
<1>1. ASSUME NEW c \in Consumers, LedgerStep(c) \/ LedgerFaults(c) PROVE UNCHANGED eventLog
  BY <1>1 DEF LedgerStep, LedgerFaults, LedgerPoll, Decode, PostCheck, PostInsert, PostConflict,
       Emit, ToDlq, CommitOffset, DecodeFails, PostFails, EmitFails, ToDlqUndelivered,
       CommitLost, CommitRaises, LedgerCrash
<1>2. ASSUME LedgerJoin \/ LedgerRebalance PROVE UNCHANGED eventLog
  BY <1>2 DEF LedgerJoin, LedgerRebalance
<1> QED BY <1>1, <1>2 DEF Next, LedgerNext, PollAgain, ledgerAllVars

LEMMA OutcomesStep ==
    ASSUME Shape, [Next]_ledgerAllVars
    PROVE  \/ UNCHANGED outcomeLog
           \/ \E c \in Consumers : At(c, "emit") /\ Produced(c)
<1>1. ASSUME NEW c \in Consumers, LedgerStep(c) \/ LedgerFaults(c)
      PROVE  \/ UNCHANGED outcomeLog
             \/ At(c, "emit") /\ Produced(c)
  BY <1>1 DEF LedgerStep, LedgerFaults, LedgerPoll, Decode, PostCheck, PostInsert, PostConflict,
       Emit, ToDlq, CommitOffset, DecodeFails, PostFails, EmitFails, ToDlqUndelivered,
       CommitLost, CommitRaises, LedgerCrash
<1>2. ASSUME LedgerJoin \/ LedgerRebalance PROVE UNCHANGED outcomeLog
  BY <1>2 DEF LedgerJoin, LedgerRebalance
<1> QED BY <1>1, <1>2 DEF Next, LedgerNext, PollAgain, Publish, ledgerAllVars, ledgerVars

LEMMA JournalStep ==
    ASSUME Shape, [Next]_ledgerAllVars
    PROVE  \/ UNCHANGED journal
           \/ \E c \in Consumers : At(c, "insert") /\ EventIdFree(Ev(c)) /\ WriteEntry(Ev(c))
<1>1. ASSUME NEW c \in Consumers, LedgerStep(c) \/ LedgerFaults(c)
      PROVE  \/ UNCHANGED journal
             \/ At(c, "insert") /\ EventIdFree(Ev(c)) /\ WriteEntry(Ev(c))
  BY <1>1 DEF LedgerStep, LedgerFaults, LedgerPoll, Decode, PostCheck, PostInsert, PostConflict,
       Emit, ToDlq, CommitOffset, DecodeFails, PostFails, EmitFails, ToDlqUndelivered,
       CommitLost, CommitRaises, LedgerCrash
<1>2. ASSUME LedgerJoin \/ LedgerRebalance PROVE UNCHANGED journal
  BY <1>2 DEF LedgerJoin, LedgerRebalance
<1> QED BY <1>1, <1>2 DEF Next, LedgerNext, PollAgain, Publish, ledgerAllVars, ledgerVars

LEMMA ParkedStep ==
    ASSUME Shape, [Next]_ledgerAllVars
    PROVE  eventDlq \subseteq eventDlq' /\ dlqLost \subseteq dlqLost'
<1>1. ASSUME NEW c \in Consumers, LedgerStep(c) \/ LedgerFaults(c)
      PROVE  eventDlq \subseteq eventDlq' /\ dlqLost \subseteq dlqLost'
  BY <1>1 DEF LedgerStep, LedgerFaults, LedgerPoll, Decode, PostCheck, PostInsert, PostConflict,
       Emit, ToDlq, CommitOffset, DecodeFails, PostFails, EmitFails, ToDlqUndelivered,
       CommitLost, CommitRaises, LedgerCrash
<1>2. ASSUME LedgerJoin \/ LedgerRebalance PROVE UNCHANGED <<eventDlq, dlqLost>>
  BY <1>2 DEF LedgerJoin, LedgerRebalance
<1> QED BY <1>1, <1>2 DEF Next, LedgerNext, PollAgain, Publish, ledgerAllVars, ledgerVars

(* A booked entry goes behind the others.                                   *)
LEMMA EntryAppended ==
    ASSUME Shape, NEW e \in Events, WriteEntry(e)
    PROVE  /\ journal' \in Seq(Entries)
           /\ Len(journal) \in Nat
           /\ DOMAIN journal = 1..Len(journal)
           /\ DOMAIN journal' = 1..(Len(journal) + 1)
           /\ journal'[Len(journal) + 1] = EntryOf(e)
           /\ \A n \in DOMAIN journal : journal'[n] = journal[n]
<1>1. journal \in Seq(Entries) /\ EntryOf(e) \in Entries
  BY DEF Shape, LogsOK, Entries
<1>2. journal' = Append(journal, EntryOf(e))
  BY DEF WriteEntry, EntryOf
<1> QED BY <1>1, <1>2, AppendProperties, LenProperties

LEMMA LogsStep ==
    ASSUME Shape, [Next]_ledgerAllVars
    PROVE  LogsOK' /\ Grows
<1>1. /\ eventLog' \in [Partitions -> Seq(Events)]
      /\ \A q \in Partitions :
          /\ Len(eventLog[q]) \in Nat /\ Len(eventLog'[q]) \in Nat
          /\ Len(eventLog[q]) <= Len(eventLog'[q])
          /\ \A o \in 1..Len(eventLog[q]) :
                 o \in DOMAIN eventLog'[q] /\ eventLog'[q][o] = eventLog[q][o]
  <2>0. eventLog \in [Partitions -> Seq(Events)]
    BY DEF Shape, LogsOK
  <2>1. CASE UNCHANGED eventLog
    BY <2>0, <2>1, LenProperties
  <2>2. ASSUME NEW q \in Partitions, NEW e \in Events, Publish(q, e)
        PROVE  <1>1!:
    <3>1. eventLog' = [eventLog EXCEPT ![q] = Append(@, e)]
      BY <2>2 DEF Publish
    <3> QED BY <2>0, <3>1, LogGrows
  <2> QED BY <2>1, <2>2, EventsStep
<1>2. /\ outcomeLog' \in [Partitions -> Seq(Answers)]
      /\ \A q \in Partitions : \A n \in DOMAIN outcomeLog[q] :
          n \in DOMAIN outcomeLog'[q] /\ outcomeLog'[q][n] = outcomeLog[q][n]
  <2>0. outcomeLog \in [Partitions -> Seq(Answers)]
    BY DEF Shape, LogsOK
  <2>1. CASE UNCHANGED outcomeLog
    BY <2>0, <2>1
  <2>2. ASSUME NEW c \in Consumers, At(c, "emit"), Produced(c)
        PROVE  <1>2!:
    <3>1. lmsg[c].part \in Partitions /\ OutcomeOf(c) \in Answers
      BY <2>2, HandTyped DEF At, Handling
    <3>2. outcomeLog' = [outcomeLog EXCEPT ![lmsg[c].part] = Append(@, OutcomeOf(c))]
      BY <2>2 DEF Produced
    <3>3. \A p \in Partitions :
              /\ Len(outcomeLog[p]) \in Nat /\ Len(outcomeLog'[p]) \in Nat
              /\ Len(outcomeLog[p]) <= Len(outcomeLog'[p])
              /\ DOMAIN outcomeLog[p] = 1..Len(outcomeLog[p])
              /\ DOMAIN outcomeLog'[p] = 1..Len(outcomeLog'[p])
              /\ \A o \in DOMAIN outcomeLog[p] : outcomeLog'[p][o] = outcomeLog[p][o]
      BY <2>0, <3>1, <3>2, LogGrows
    <3>4. outcomeLog' \in [Partitions -> Seq(Answers)]
      BY <2>0, <3>1, <3>2, LogGrows
    <3> QED BY <3>3, <3>4
  <2> QED BY <2>1, <2>2, OutcomesStep
<1>3. /\ journal' \in Seq(Entries)
      /\ \A n \in DOMAIN journal : n \in DOMAIN journal' /\ journal'[n] = journal[n]
  <2>1. CASE UNCHANGED journal
    BY <2>1 DEF Shape, LogsOK
  <2>2. ASSUME NEW c \in Consumers, At(c, "insert"), WriteEntry(Ev(c))
        PROVE  <1>3!:
    <3>1. Ev(c) \in Events
      BY <2>2, HandTyped DEF At, Handling
    <3> QED BY <2>2, <3>1, EntryAppended
  <2> QED BY <2>1, <2>2, JournalStep
<1> QED BY <1>1, <1>2, <1>3, ParkedStep DEF LogsOK, Grows

----------------------------------------------------------------------------
(* The group's variables keep their types.                                 *)
LEMMA GroupStep ==
    ASSUME Shape, [Next]_ledgerAllVars
    PROVE  Group!GroupTypeOK'
<1>0. Group!GroupTypeOK
  BY DEF Shape, LedgerTypeOK
<1>1. CASE UNCHANGED groupState
  BY <1>0, <1>1 DEF groupState, Group!GroupTypeOK
<1>2. ASSUME NEW c \in Consumers, LedgerPoll(c) PROVE Group!GroupTypeOK'
  BY <1>0, <1>2 DEF LedgerPoll, Group!Poll, Group!GroupTypeOK
<1>3. ASSUME NEW c \in Consumers, CommitOffset(c) PROVE Group!GroupTypeOK'
  <2>1. lmsg[c].offset \in Nat
    BY <1>3, HandTyped DEF CommitOffset, Committing, Handling
  <2> QED BY <1>0, <1>3, <2>1 DEF CommitOffset, Group!Commit, Group!GroupTypeOK
<1>4. ASSUME NEW c \in Consumers, LedgerCrash(c) PROVE Group!GroupTypeOK'
  BY <1>0, <1>4 DEF LedgerCrash, Group!Leave, Group!GroupTypeOK
<1>5. ASSUME LedgerJoin \/ LedgerRebalance PROVE Group!GroupTypeOK'
  <2>1. Group!Rebalance(Polling) /\ Polling \subseteq Consumers
    BY <1>5 DEF LedgerJoin, LedgerRebalance, Polling
  <2> QED BY <1>0, <2>1 DEF Group!Rebalance, Group!GroupTypeOK
<1>6. ASSUME NEW c \in Consumers,
             \/ Decode(c) \/ PostCheck(c) \/ PostInsert(c) \/ PostConflict(c) \/ Emit(c)
             \/ ToDlq(c) \/ DecodeFails(c) \/ PostFails(c) \/ EmitFails(c)
             \/ ToDlqUndelivered(c) \/ CommitLost(c) \/ CommitRaises(c)
      PROVE  UNCHANGED groupState
  BY <1>6 DEF Decode, PostCheck, PostInsert, PostConflict, Emit, ToDlq, DecodeFails, PostFails,
       EmitFails, ToDlqUndelivered, CommitLost, CommitRaises
<1> QED BY <1>1, <1>2, <1>3, <1>4, <1>5, <1>6
    DEF Next, LedgerNext, LedgerStep, LedgerFaults, PollAgain, Publish, ledgerAllVars, ledgerVars

(* One consumer moves to another step with the message it has, or none.       *)
Moves(c, step, msg) ==
    /\ lpc' = [lpc EXCEPT ![c] = step]
    /\ lmsg' = [lmsg EXCEPT ![c] = msg]
    /\ step \in Handling => /\ msg.part \in Partitions
                           /\ msg.offset < Len(eventLog[msg.part])

(* What a step does to the worker it belongs to.                            *)
LEMMA WorkerStep ==
    ASSUME Shape, NEW c \in Consumers, LedgerStep(c) \/ LedgerFaults(c)
    PROVE  /\ \E step \in {"poll"} \cup Handling, msg \in Message : Moves(c, step, msg)
           /\ lattempt' \in [Consumers -> 0..MaxRetries]
           /\ lstatus' \in [Consumers -> {"none", "POSTED", "REJECTED"}]
           /\ lfaults' \in 0..MaxLedgerFaults
<1>1. /\ lpc \in [Consumers -> {"poll"} \cup Handling]
      /\ lmsg \in [Consumers -> Message]
      /\ lattempt \in [Consumers -> 0..MaxRetries]
      /\ lstatus \in [Consumers -> {"none", "POSTED", "REJECTED"}]
      /\ lfaults \in 0..MaxLedgerFaults
      /\ MaxRetries \in Nat /\ MaxLedgerFaults \in Nat
      /\ Group!GroupTypeOK
  BY LedgerAssumption DEF Shape, LedgerTypeOK
<1>2. NoMessage \in Message
  BY DEF NoMessage, Message
<1>3. LedgerFault => lfaults' \in 0..MaxLedgerFaults
  BY <1>1 DEF LedgerFault
<1>4. Retry(c) => lattempt' \in [Consumers -> 0..MaxRetries]
  BY <1>1 DEF Retry
<1>5. ASSUME lpc[c] \in Handling, UNCHANGED lmsg, NEW step \in Handling, GoesTo(c, step)
      PROVE  Moves(c, step, lmsg[c])
  BY <1>1, <1>5 DEF Moves, GoesTo, Shape, LedgerTypeOK
<1>6. LetGo(c) => /\ Moves(c, "poll", NoMessage)
                  /\ lattempt' \in [Consumers -> 0..MaxRetries]
                  /\ lstatus' \in [Consumers -> {"none", "POSTED", "REJECTED"}]
  BY <1>1 DEF LetGo, GoesTo, Moves, Handling
<1>7. CASE LedgerPoll(c)
  <2>1. PICK q \in Partitions :
            /\ Group!Poll(c, q, eventLog)
            /\ lmsg' = [lmsg EXCEPT ![c] = [part |-> q, offset |-> lposition[q]]]
    BY <1>7 DEF LedgerPoll
  <2>2. lposition[q] \in Nat /\ lposition[q] < Len(eventLog[q])
    BY <1>1, <2>1 DEF Group!Poll, Group!Available, Group!GroupTypeOK
  <2>3. [part |-> q, offset |-> lposition[q]] \in Message
    BY <2>2 DEF Message
  <2>4. Moves(c, "decode", [part |-> q, offset |-> lposition[q]])
    BY <1>7, <2>1, <2>2 DEF LedgerPoll, GoesTo, Moves
  <2> QED BY <1>1, <1>7, <2>3, <2>4 DEF LedgerPoll, Handling
<1>8. CASE Decode(c) \/ DecodeFails(c) \/ ToDlq(c) \/ ToDlqUndelivered(c) \/ Emit(c) \/ CommitRaises(c)
  <2>1. /\ lpc[c] \in Handling /\ UNCHANGED <<lmsg, lattempt, lstatus>>
        /\ \E step \in Handling : GoesTo(c, step)
        /\ UNCHANGED lfaults \/ LedgerFault
    BY <1>8 DEF Decode, DecodeFails, ToDlq, ToDlqUndelivered, Emit, CommitRaises, At, Handling
  <2> QED BY <1>1, <1>3, <1>5, <2>1
<1>9. CASE PostCheck(c) \/ PostInsert(c) \/ PostConflict(c)
  <2>1. /\ lpc[c] \in Handling /\ UNCHANGED <<lmsg, lattempt, lfaults>>
        /\ \E step \in Handling : GoesTo(c, step)
        /\ \/ UNCHANGED lstatus
           \/ \E status \in {"POSTED", "REJECTED"} : lstatus' = [lstatus EXCEPT ![c] = status]
    BY <1>9 DEF PostCheck, PostInsert, PostConflict, Returns, At, Handling
  <2> QED BY <1>1, <1>5, <2>1
<1>10. CASE PostFails(c) \/ EmitFails(c)
  <2>1. /\ lpc[c] \in Handling /\ UNCHANGED <<lmsg, lstatus>>
        /\ Retry(c) /\ LedgerFault
    BY <1>10 DEF PostFails, EmitFails, At, Handling
  <2>2. \E step \in Handling : GoesTo(c, step)
    BY <2>1 DEF Retry, Handling
  <2> QED BY <1>1, <1>3, <1>4, <1>5, <2>1, <2>2
<1>11. CASE CommitOffset(c) \/ CommitLost(c) \/ LedgerCrash(c)
  <2>1. LetGo(c) /\ (UNCHANGED lfaults \/ LedgerFault)
    BY <1>11 DEF CommitOffset, CommitLost, LedgerCrash
  <2> QED BY <1>1, <1>2, <1>3, <1>6, <2>1
<1> QED BY <1>7, <1>8, <1>9, <1>10, <1>11 DEF LedgerStep, LedgerFaults

LEMMA ShapeStep ==
    ASSUME Shape, [Next]_ledgerAllVars
    PROVE  Shape'
<1>1. LogsOK' /\ Grows /\ Group!GroupTypeOK'
  BY LogsStep, GroupStep
<1>2. ASSUME UNCHANGED workState, lfaults' \in 0..MaxLedgerFaults
      PROVE  LedgerTypeOK'
  <2>1. /\ lpc \in [Consumers -> {"poll"} \cup Handling]
        /\ lmsg \in [Consumers -> Message]
        /\ lattempt \in [Consumers -> 0..MaxRetries]
        /\ lstatus \in [Consumers -> {"none", "POSTED", "REJECTED"}]
        /\ lpc' = lpc /\ lmsg' = lmsg /\ lattempt' = lattempt /\ lstatus' = lstatus
    BY <1>2 DEF Shape, LedgerTypeOK, workState
  <2>2. ASSUME NEW c \in Consumers, lpc'[c] \in Handling
        PROVE  lmsg'[c].part \in Partitions /\ lmsg'[c].offset < Len(eventLog'[lmsg'[c].part])
    <3>1. /\ lmsg[c].part \in Partitions /\ lmsg[c].offset < Len(eventLog[lmsg[c].part])
          /\ lmsg[c].offset \in Nat
      BY <2>1, <2>2 DEF Shape, LedgerTypeOK, Message
    <3> QED BY <1>1, <2>1, <3>1 DEF Grows
  <2> QED BY <1>1, <1>2, <2>1, <2>2 DEF LedgerTypeOK, Handling, Message
<1>3. ASSUME NEW c \in Consumers, LedgerStep(c) \/ LedgerFaults(c)
      PROVE  LedgerTypeOK'
  <2>1. PICK step \in {"poll"} \cup Handling, msg \in Message : Moves(c, step, msg)
    BY <1>3, WorkerStep
  <2>2. /\ lattempt' \in [Consumers -> 0..MaxRetries]
        /\ lstatus' \in [Consumers -> {"none", "POSTED", "REJECTED"}]
        /\ lfaults' \in 0..MaxLedgerFaults
    BY <1>3, WorkerStep
  <2>3. /\ lpc \in [Consumers -> {"poll"} \cup Handling]
        /\ lmsg \in [Consumers -> Message]
        /\ \A d \in Consumers : lpc[d] \in Handling =>
               /\ lmsg[d].part \in Partitions
               /\ lmsg[d].offset < Len(eventLog[lmsg[d].part])
    BY DEF Shape, LedgerTypeOK
  <2>4. /\ lpc' \in [Consumers -> {"poll"} \cup Handling]
        /\ lmsg' \in [Consumers -> Message]
        /\ lpc'[c] = step /\ lmsg'[c] = msg
        /\ \A d \in Consumers \ {c} : lpc'[d] = lpc[d] /\ lmsg'[d] = lmsg[d]
    BY <2>1, <2>3 DEF Moves
  <2>5. ASSUME NEW d \in Consumers, lpc'[d] \in Handling
        PROVE  lmsg'[d].part \in Partitions /\ lmsg'[d].offset < Len(eventLog'[lmsg'[d].part])
    <3>1. /\ lmsg'[d].part \in Partitions
          /\ lmsg'[d].offset < Len(eventLog[lmsg'[d].part])
      BY <2>1, <2>3, <2>4, <2>5 DEF Moves
    <3>2. lmsg'[d].offset \in Nat
      BY <2>4 DEF Message
    <3> QED BY <1>1, <3>1, <3>2 DEF Grows
  <2> QED BY <1>1, <2>2, <2>4, <2>5 DEF LedgerTypeOK, Handling, Message
<1>4. ASSUME \/ LedgerJoin \/ LedgerRebalance \/ (\E c \in Consumers : PollAgain(c))
             \/ (\E q \in Partitions, e \in Events : Publish(q, e)) \/ UNCHANGED ledgerAllVars
      PROVE  UNCHANGED workState /\ lfaults' \in 0..MaxLedgerFaults
  BY <1>4, LedgerAssumption DEF LedgerJoin, LedgerRebalance, LedgerFault, PollAgain, Publish,
       ledgerAllVars, ledgerVars, Shape, LedgerTypeOK
<1> QED BY <1>1, <1>2, <1>3, <1>4 DEF Next, LedgerNext, Shape

LEMMA ShapeInit ==
    ASSUME Init
    PROVE  Shape
<1>1. LogsOK
  <2>1. << >> \in Seq(Events) /\ << >> \in Seq(Answers) /\ << >> \in Seq(Entries)
    OBVIOUS
  <2> QED BY <2>1 DEF Init, LedgerInit, LogsOK
<1>2. Group!GroupTypeOK
  BY DEF Init, LedgerInit, Group!GroupInit, Group!GroupTypeOK
<1>3. LedgerTypeOK
  BY <1>2, LedgerAssumption DEF Init, LedgerInit, LedgerTypeOK, NoMessage, Message, Handling
<1> QED BY <1>1, <1>3 DEF Shape

THEOREM ShapeCorrect == Spec => []Shape
BY ShapeInit, ShapeStep, PTL DEF Spec

(* The consumers' variables keep their types: the message in hand is always   *)
(* one of the topic, and no message is tried more often than the retries      *)
(* allow.                                                                  *)
THEOREM LedgerTypeCorrect == Spec => []LedgerTypeOK
<1>1. Shape => LedgerTypeOK
  BY DEF Shape
<1> QED BY <1>1, ShapeCorrect, PTL

----------------------------------------------------------------------------
(* Truth.  Event e is in the topic.                                         *)
Logged(e) == \E q \in Partitions : \E o \in DOMAIN eventLog[q] : eventLog[q][o] = e

OneEventPerId ==
    \A e, f \in Events : Logged(e) /\ Logged(f) /\ e.event = f.event => e = f

(* What is booked is the double entry of an event in a settled currency.      *)
BooksOK ==
    \A n \in DOMAIN journal : \E e \in Events :
        Logged(e) /\ Settles(e.body) /\ journal[n] = EntryOf(e)

Truthful(e, status) ==
    \/ status = "POSTED" /\ Booked(e.event) # {}
    \/ status = "REJECTED" /\ ~Settles(e.body)

AnswersOK ==
    \A q \in Partitions : \A n \in DOMAIN outcomeLog[q] :
        \E e \in Events, status \in {"POSTED", "REJECTED"} :
            /\ outcomeLog[q][n] = AnswerOf(e, status)
            /\ Logged(e) /\ Truthful(e, status)

(* What a consumer has found out about the event in its hand still holds.     *)
HandOK(c) ==
    /\ At(c, "insert") => Settles(Ev(c).body)
    /\ lpc[c] \in {"emit", "commit"} => Truthful(Ev(c), lstatus[c])

TruthInv == OneEventPerId /\ BooksOK /\ AnswersOK /\ \A c \in Consumers : HandOK(c)

----------------------------------------------------------------------------
(* Offsets.  Message o of partition q has been dealt with.                   *)
Accounted(q, o) ==
    LET e == eventLog[q][o].event IN
    OutcomesOf(q, e) # {} \/ e \in eventDlq \cup dlqLost

InHand(c, q, o) == lpc[c] \in Handling /\ lmsg[c].part = q /\ lmsg[c].offset + 1 = o

(* Whatever the owner of a partition has polled since its assignment, and       *)
(* whatever was committed before, is dealt with or is the message in its hand.  *)
PolledOK ==
    \A q \in Partitions :
        /\ lcommitted[q] <= Len(eventLog[q]) /\ lposition[q] <= Len(eventLog[q])
        /\ \A o \in 1..lcommitted[q] : Accounted(q, o)
        /\ \A c \in Consumers : lowner[q] = c =>
               \A o \in 1..lposition[q] : Accounted(q, o) \/ InHand(c, q, o)

(* A consumer commits only what is dealt with, and an owner has polled no       *)
(* further than the message in its hand.                                    *)
CommitOK(c) ==
    /\ Committing(c) => Accounted(lmsg[c].part, lmsg[c].offset + 1)
    /\ lpc[c] \in Handling /\ lowner[lmsg[c].part] = c =>
           lposition[lmsg[c].part] = lmsg[c].offset + 1

OffsetInv == PolledOK /\ \A c \in Consumers : CommitOK(c)

----------------------------------------------------------------------------
(* The UNIQUE event_id keeps one entry per event through every step.          *)
LEMMA OneEntryStep ==
    ASSUME Shape, OneEntryPerEvent, [Next]_ledgerAllVars
    PROVE  OneEntryPerEvent'
<1>1. CASE UNCHANGED journal
  BY <1>1 DEF OneEntryPerEvent
<1>2. ASSUME NEW c \in Consumers, At(c, "insert"), EventIdFree(Ev(c)), WriteEntry(Ev(c))
      PROVE  OneEntryPerEvent'
  <2>1. PICK e \in Events : e = Ev(c)
    BY <1>2, HandTyped DEF At, Handling
  <2>2. /\ Len(journal) \in Nat
        /\ DOMAIN journal = 1..Len(journal)
        /\ DOMAIN journal' = 1..(Len(journal) + 1)
        /\ journal'[Len(journal) + 1] = EntryOf(e)
        /\ \A n \in DOMAIN journal : journal'[n] = journal[n]
    BY <1>2, <2>1, EntryAppended
  <2>3. \A n \in DOMAIN journal : journal[n].event # e.event
    BY <1>2, <2>1 DEF EventIdFree, Booked
  <2>4. EntryOf(e).event = e.event
    BY DEF EntryOf
  <2> QED BY <2>2, <2>3, <2>4 DEF OneEntryPerEvent
<1> QED BY <1>1, <1>2, JournalStep

(* An event is booked at most once: redelivery, zombies of a rebalance and     *)
(* commits whose answer was lost all end at the UNIQUE event_id.             *)
THEOREM BookedOnce == Spec => []OneEntryPerEvent
<1>1. Init => OneEntryPerEvent
  BY DEF Init, LedgerInit, OneEntryPerEvent
<1> QED BY <1>1, ShapeCorrect, OneEntryStep, PTL DEF Spec

----------------------------------------------------------------------------
LEMMA GrowsOn ==
    ASSUME Grows
    PROVE  /\ \A x : Booked(x) \subseteq Booked(x)'
           /\ \A x : \A q \in Partitions : OutcomesOf(q, x) \subseteq OutcomesOf(q, x)'
BY DEF Grows, Booked, OutcomesOf

LEMMA LoggedOn ==
    ASSUME Shape, Grows
    PROVE  \A e \in Events : Logged(e) => Logged(e)'
<1>1. \A q \in Partitions : DOMAIN eventLog[q] = 1..Len(eventLog[q])
  BY DEF Shape, LogsOK
<1> SUFFICES ASSUME NEW e \in Events, Logged(e) PROVE Logged(e)'
  OBVIOUS
<1>3. PICK q \in Partitions : \E o \in DOMAIN eventLog[q] : eventLog[q][o] = e
  BY DEF Logged
<1>4. PICK o \in DOMAIN eventLog[q] : eventLog[q][o] = e
  BY <1>3
<1> QED BY <1>1, <1>3, <1>4 DEF Grows, Logged

(* The message in hand is the same event after the step.                    *)
LEMMA EvKept ==
    ASSUME Shape, Grows, NEW c \in Consumers, lpc[c] \in Handling, lmsg'[c] = lmsg[c]
    PROVE  Ev(c)' = Ev(c)
<1>1. /\ lmsg[c].part \in Partitions
      /\ lmsg[c].offset + 1 \in 1..Len(eventLog[lmsg[c].part])
  BY HandTyped DEF Shape, LogsOK
<1> QED BY <1>1 DEF Ev, Grows

(* A step of one consumer leaves the work of the others alone.               *)
LEMMA OthersWait ==
    ASSUME Shape, NEW c \in Consumers, LedgerStep(c) \/ LedgerFaults(c),
           NEW d \in Consumers \ {c}
    PROVE  lpc'[d] = lpc[d] /\ lmsg'[d] = lmsg[d] /\ lstatus'[d] = lstatus[d]
<1>1. lpc'[d] = lpc[d] /\ lmsg'[d] = lmsg[d]
  <2>1. PICK step \in {"poll"} \cup Handling, msg \in Message : Moves(c, step, msg)
    BY WorkerStep
  <2> QED BY <2>1 DEF Moves, Shape, LedgerTypeOK
<1>2. \/ UNCHANGED lstatus
      \/ \E status : lstatus' = [lstatus EXCEPT ![c] = status]
  BY DEF LedgerStep, LedgerFaults, LedgerPoll, Decode, PostCheck, PostInsert, PostConflict,
       Emit, ToDlq, CommitOffset, DecodeFails, PostFails, EmitFails, ToDlqUndelivered,
       CommitLost, CommitRaises, LedgerCrash, LetGo, Returns
<1>3. lstatus'[d] = lstatus[d]
  BY <1>2 DEF Shape, LedgerTypeOK
<1> QED BY <1>1, <1>3

(* Steps of the environment and the coordinator leave all workers alone.       *)
LEMMA NoWork ==
    ASSUME [Next]_ledgerAllVars,
           \A c \in Consumers : ~(LedgerStep(c) \/ LedgerFaults(c))
    PROVE  UNCHANGED workState
BY DEF Next, LedgerNext, LedgerJoin, LedgerRebalance, PollAgain, Publish, ledgerAllVars, ledgerVars

LEMMA IdsStep ==
    ASSUME Shape, OneEventPerId, [Next]_ledgerAllVars
    PROVE  OneEventPerId'
<1>1. CASE UNCHANGED eventLog
  BY <1>1 DEF OneEventPerId, Logged
<1>2. ASSUME NEW q \in Partitions, NEW e \in Events, Publish(q, e)
      PROVE  OneEventPerId'
  <2>1. eventLog \in [Partitions -> Seq(Events)] /\ eventLog' = [eventLog EXCEPT ![q] = Append(@, e)]
    BY <1>2 DEF Publish, Shape, LogsOK
  <2>2. /\ DOMAIN eventLog'[q] = 1..(Len(eventLog[q]) + 1)
        /\ eventLog'[q][Len(eventLog[q]) + 1] = e
        /\ \A p \in Partitions \ {q} : eventLog'[p] = eventLog[p]
        /\ \A p \in Partitions :
              /\ DOMAIN eventLog[p] = 1..Len(eventLog[p]) /\ Len(eventLog[p]) \in Nat
              /\ \A o \in DOMAIN eventLog[p] : eventLog'[p][o] = eventLog[p][o]
    BY <2>1, LogGrows
  <2>3. ASSUME NEW f \in Events, Logged(f)' PROVE f = e \/ Logged(f)
    <3>1. PICK p \in Partitions : \E o \in DOMAIN eventLog'[p] : eventLog'[p][o] = f
      BY <2>3 DEF Logged
    <3>2. PICK o \in DOMAIN eventLog'[p] : eventLog'[p][o] = f
      BY <3>1
    <3>3. CASE p = q /\ o = Len(eventLog[q]) + 1
      BY <2>2, <3>2, <3>3
    <3>4. CASE p = q /\ o # Len(eventLog[q]) + 1
      BY <2>2, <3>2, <3>4 DEF Logged
    <3>5. CASE p # q
      BY <2>2, <3>2, <3>5 DEF Logged
    <3> QED BY <3>3, <3>4, <3>5
  <2>4. ASSUME NEW f \in Events, Logged(f), f.event = e.event PROVE f = e
    BY <1>2, <2>4 DEF Publish, Logged
  <2> QED BY <2>3, <2>4 DEF OneEventPerId
<1> QED BY <1>1, <1>2, EventsStep

LEMMA BooksStep ==
    ASSUME Shape, TruthInv, [Next]_ledgerAllVars
    PROVE  BooksOK'
<1>1. Grows
  BY LogsStep
<1>2. CASE UNCHANGED journal
  BY <1>1, <1>2, LoggedOn DEF TruthInv, BooksOK
<1>3. ASSUME NEW c \in Consumers, At(c, "insert"), WriteEntry(Ev(c))
      PROVE  BooksOK'
  <2>1. PICK e \in Events : e = Ev(c)
    BY <1>3, HandTyped DEF At, Handling
  <2>2. /\ Len(journal) \in Nat
        /\ DOMAIN journal = 1..Len(journal)
        /\ DOMAIN journal' = 1..(Len(journal) + 1)
        /\ journal'[Len(journal) + 1] = EntryOf(e)
        /\ \A n \in DOMAIN journal : journal'[n] = journal[n]
    BY <1>3, <2>1, EntryAppended
  <2>3. Settles(e.body) /\ Logged(e)
    <3>1. /\ lmsg[c].part \in Partitions
          /\ lmsg[c].offset + 1 \in DOMAIN eventLog[lmsg[c].part]
      BY <1>3, HandTyped DEF At, Handling
    <3>2. HandOK(c)
      BY DEF TruthInv
    <3> QED BY <1>3, <2>1, <3>1, <3>2 DEF HandOK, Logged, Ev
  <2>4. EntryOf(e).event = e.event
    BY DEF EntryOf
  <2>5. \A n \in DOMAIN journal' : n \in DOMAIN journal \/ n = Len(journal) + 1
    BY <2>2
  <2> QED BY <1>1, <2>2, <2>3, <2>4, <2>5, LoggedOn DEF TruthInv, BooksOK
<1> QED BY <1>2, <1>3, JournalStep

(* What was true of an event's outcome stays true.                          *)
LEMMA TruthStays ==
    ASSUME Grows, NEW e, NEW status, Truthful(e, status)
    PROVE  Truthful(e, status)'
BY GrowsOn DEF Truthful

LEMMA AnswersStep ==
    ASSUME Shape, TruthInv, [Next]_ledgerAllVars
    PROVE  AnswersOK'
<1>1. Grows
  BY LogsStep
<1>2. ASSUME NEW q \in Partitions, NEW n \in DOMAIN outcomeLog[q]
      PROVE  \E e \in Events, status \in {"POSTED", "REJECTED"} :
                 /\ outcomeLog[q][n] = AnswerOf(e, status)
                 /\ Logged(e)' /\ Truthful(e, status)'
  BY <1>1, LoggedOn, TruthStays DEF TruthInv, AnswersOK
<1>3. CASE UNCHANGED outcomeLog
  BY <1>2, <1>3 DEF AnswersOK
<1>4. ASSUME NEW c \in Consumers, At(c, "emit"), Produced(c)
      PROVE  AnswersOK'
  <2>1. PICK e \in Events : e = Ev(c)
    BY <1>4, HandTyped DEF At, Handling
  <2>2. PICK q \in Partitions : q = lmsg[c].part
    BY <1>4, HandTyped DEF At, Handling
  <2>3. PICK out \in Answers : out = OutcomeOf(c)
    BY <1>4, HandTyped DEF At, Handling
  <2>4. /\ DOMAIN outcomeLog'[q] = 1..(Len(outcomeLog[q]) + 1)
        /\ outcomeLog'[q][Len(outcomeLog[q]) + 1] = out
        /\ \A p \in Partitions \ {q} : outcomeLog'[p] = outcomeLog[p]
        /\ \A p \in Partitions :
              /\ DOMAIN outcomeLog[p] = 1..Len(outcomeLog[p]) /\ Len(outcomeLog[p]) \in Nat
              /\ \A o \in DOMAIN outcomeLog[p] : outcomeLog'[p][o] = outcomeLog[p][o]
    <3>1. /\ outcomeLog \in [Partitions -> Seq(Answers)]
          /\ outcomeLog' = [outcomeLog EXCEPT ![q] = Append(@, out)]
      BY <1>4, <2>2, <2>3 DEF Produced, Shape, LogsOK
    <3> QED BY <3>1, LogGrows
  <2>5. PICK status \in {"POSTED", "REJECTED"} :
            out = AnswerOf(e, status) /\ Truthful(e, status) /\ Logged(e)
    <3>1. lmsg[c].offset + 1 \in DOMAIN eventLog[q] /\ HandOK(c)
      BY <1>4, <2>2, HandTyped DEF At, Handling, TruthInv
    <3>2. out = AnswerOf(e, lstatus[c]) /\ Truthful(e, lstatus[c])
      BY <1>4, <2>1, <2>3, <3>1 DEF At, HandOK, OutcomeOf, AnswerOf
    <3>3. Logged(e)
      BY <2>1, <2>2, <3>1 DEF Logged, Ev
    <3> QED BY <3>2, <3>3 DEF Truthful
  <2>7. Truthful(e, status)' /\ Logged(e)'
    BY <1>1, <2>5, TruthStays, LoggedOn
  <2>8. ASSUME NEW p \in Partitions, NEW n \in DOMAIN outcomeLog'[p]
        PROVE  \E f \in Events, st \in {"POSTED", "REJECTED"} :
                   /\ outcomeLog'[p][n] = AnswerOf(f, st)
                   /\ Logged(f)' /\ Truthful(f, st)'
    <3>1. CASE p = q /\ n = Len(outcomeLog[q]) + 1
      BY <2>4, <2>5, <2>7, <3>1
    <3>2. CASE p # q \/ n # Len(outcomeLog[q]) + 1
      <4>1. n \in DOMAIN outcomeLog[p] /\ outcomeLog'[p][n] = outcomeLog[p][n]
        <5>1. CASE p = q
          BY <2>4, <3>2, <5>1
        <5>2. CASE p # q
          BY <2>4, <5>2
        <5> QED BY <5>1, <5>2
      <4> QED BY <1>2, <4>1
    <3> QED BY <3>1, <3>2
  <2> QED BY <2>8 DEF AnswersOK
<1> QED BY <1>3, <1>4, OutcomesStep

LEMMA HandStep ==
    ASSUME Shape, TruthInv, [Next]_ledgerAllVars, NEW d \in Consumers
    PROVE  HandOK(d)'
<1>0. Grows /\ HandOK(d)
  BY LogsStep DEF TruthInv
<1>1. ASSUME lpc'[d] = lpc[d], lmsg'[d] = lmsg[d], lstatus'[d] = lstatus[d]
      PROVE  HandOK(d)'
  <2>1. CASE lpc[d] \in {"insert", "emit", "commit"}
    <3>1. Ev(d)' = Ev(d)
      BY <1>0, <1>1, <2>1, EvKept DEF Handling
    <3>2. PICK e : e = Ev(d)
      OBVIOUS
    <3>3. PICK status : status = lstatus[d]
      OBVIOUS
    <3>4. Truthful(e, status) => Truthful(e, status)'
      BY <1>0, TruthStays
    <3> QED BY <1>0, <1>1, <3>1, <3>2, <3>3, <3>4 DEF HandOK, At, Truthful
  <2>2. CASE lpc[d] \notin {"insert", "emit", "commit"}
    BY <1>1, <2>2 DEF HandOK, At
  <2> QED BY <2>1, <2>2
<1>2. ASSUME NEW c \in Consumers, LedgerStep(c) \/ LedgerFaults(c), c # d
      PROVE  HandOK(d)'
  BY <1>1, <1>2, OthersWait
<1>3. ASSUME \A c \in Consumers : ~(LedgerStep(c) \/ LedgerFaults(c))
      PROVE  HandOK(d)'
  BY <1>1, <1>3, NoWork DEF workState
<1>4. ASSUME lpc'[d] \notin {"insert", "emit", "commit"} PROVE HandOK(d)'
  BY <1>4 DEF HandOK, At
<1>5. /\ lpc \in [Consumers -> {"poll"} \cup Handling]
      /\ lstatus \in [Consumers -> {"none", "POSTED", "REJECTED"}]
  BY DEF Shape, LedgerTypeOK
<1>6. ASSUME LedgerPoll(d) \/ Decode(d) \/ DecodeFails(d) \/ ToDlq(d) \/ ToDlqUndelivered(d)
               \/ CommitRaises(d) \/ CommitOffset(d) \/ CommitLost(d) \/ LedgerCrash(d)
               \/ PostFails(d) \/ EmitFails(d)
      PROVE  HandOK(d)'
  <2>1. lpc'[d] \notin {"insert", "emit", "commit"}
    BY <1>5, <1>6 DEF LedgerPoll, Decode, DecodeFails, ToDlq, ToDlqUndelivered, CommitRaises,
         CommitOffset, CommitLost, LedgerCrash, PostFails, EmitFails, Retry, LetGo, GoesTo
  <2> QED BY <1>4, <2>1
<1>7. ASSUME PostCheck(d) \/ PostInsert(d) \/ PostConflict(d) \/ Emit(d)
      PROVE  HandOK(d)'
  <2>1. lpc[d] \in Handling /\ lmsg' = lmsg
    BY <1>7 DEF PostCheck, PostInsert, PostConflict, Emit, At, Handling
  <2>2. Ev(d)' = Ev(d) /\ Ev(d) \in Events
    BY <1>0, <2>1, EvKept, HandTyped
  <2>3. PICK e \in Events : e = Ev(d)
    BY <2>2
  <2>4. PICK status : status = lstatus'[d]
    OBVIOUS
  <2>5. ASSUME PostCheck(d) PROVE HandOK(d)'
    <3>1. CASE lpc'[d] = "insert"
      BY <1>5, <2>2, <2>5, <3>1 DEF PostCheck, Returns, GoesTo, HandOK, At
    <3>2. CASE lpc'[d] # "insert"
      <4>1. lpc'[d] = "emit" /\ Truthful(e, status)
        BY <1>5, <2>3, <2>4, <2>5, <3>2 DEF PostCheck, Returns, GoesTo, Truthful
      <4>2. Truthful(e, status)'
        BY <1>0, <4>1, TruthStays
      <4> QED BY <2>2, <2>3, <2>4, <4>1, <4>2 DEF HandOK, At, Truthful
    <3> QED BY <3>1, <3>2
  <2>6. ASSUME PostInsert(d) PROVE HandOK(d)'
    <3>1. WriteEntry(e)
      BY <2>3, <2>6 DEF PostInsert
    <3>2. /\ Len(journal) + 1 \in DOMAIN journal'
          /\ journal'[Len(journal) + 1] = EntryOf(e)
      BY <3>1, EntryAppended
    <3>3. Booked(e.event)' # {}
      BY <3>2 DEF Booked, EntryOf
    <3>4. lpc'[d] = "emit" /\ lstatus'[d] = "POSTED"
      BY <1>5, <2>6 DEF PostInsert, Returns, GoesTo
    <3> QED BY <2>2, <2>3, <3>3, <3>4 DEF HandOK, At, Truthful
  <2>7. ASSUME PostConflict(d) PROVE HandOK(d)'
    <3>1. lpc'[d] = "emit" /\ lstatus'[d] = "POSTED" /\ Booked(e.event) # {}
      BY <1>5, <2>3, <2>7 DEF PostConflict, Returns, GoesTo, EventIdFree
    <3>2. Booked(e.event)' # {}
      BY <1>0, <3>1, GrowsOn
    <3> QED BY <2>2, <2>3, <3>1, <3>2 DEF HandOK, At, Truthful
  <2>8. ASSUME Emit(d) PROVE HandOK(d)'
    <3>1. lpc'[d] = "commit" /\ lstatus' = lstatus /\ Truthful(e, status)
      BY <1>0, <1>5, <2>3, <2>4, <2>8 DEF Emit, GoesTo, At, HandOK
    <3>2. Truthful(e, status)'
      BY <1>0, <3>1, TruthStays
    <3> QED BY <2>2, <2>3, <2>4, <3>1, <3>2 DEF HandOK, At, Truthful
  <2> QED BY <1>7, <2>5, <2>6, <2>7, <2>8
<1>8. ASSUME LedgerStep(d) \/ LedgerFaults(d) PROVE HandOK(d)'
  BY <1>6, <1>7, <1>8 DEF LedgerStep, LedgerFaults
<1> QED BY <1>2, <1>3, <1>8

LEMMA TruthInit ==
    ASSUME Init
    PROVE  TruthInv
<1>1. \A e : ~Logged(e)
  BY DEF Init, Logged
<1>2. journal = << >> /\ \A q \in Partitions : outcomeLog[q] = << >>
  BY DEF Init, LedgerInit
<1>3. \A c \in Consumers : lpc[c] = "poll"
  BY DEF Init, LedgerInit
<1> QED BY <1>1, <1>2, <1>3 DEF TruthInv, OneEventPerId, BooksOK, AnswersOK, HandOK, At

LEMMA TruthStep ==
    ASSUME Shape, TruthInv, [Next]_ledgerAllVars
    PROVE  TruthInv'
BY IdsStep, BooksStep, AnswersStep, HandStep DEF TruthInv

THEOREM TruthCorrect == Spec => []TruthInv
BY TruthInit, TruthStep, ShapeCorrect, PTL DEF Spec

(* Every journal entry is the balanced double entry, DEBIT Cash / CREDIT        *)
(* Merchant-Payable, of a published event in a settled currency, for the       *)
(* event's tenant, payment and amount.                                      *)
THEOREM EntriesAreCaptures == Spec => []BooksOK
<1>1. TruthInv => BooksOK
  BY DEF TruthInv
<1> QED BY <1>1, TruthCorrect, PTL

(* The ledger tells the truth: POSTED is only announced for an event in the    *)
(* journal, REJECTED only for one that is not in it and never will be.        *)
THEOREM OutcomesAreTrue == Spec => []OutcomeTruthful
<1>1. TruthInv => OutcomeTruthful
  <2> SUFFICES ASSUME TruthInv, NEW q \in Partitions, NEW n \in DOMAIN outcomeLog[q]
               PROVE  outcomeLog[q][n].status = "POSTED" <=> Booked(outcomeLog[q][n].event) # {}
    BY DEF OutcomeTruthful
  <2>1. PICK e \in Events, status \in {"POSTED", "REJECTED"} :
            outcomeLog[q][n] = AnswerOf(e, status) /\ Logged(e) /\ Truthful(e, status)
    BY DEF TruthInv, AnswersOK
  <2>2. outcomeLog[q][n].event = e.event /\ outcomeLog[q][n].status = status
    BY <2>1 DEF AnswerOf
  <2>3. ASSUME Booked(e.event) # {} PROVE Settles(e.body)
    <3>1. PICK k \in DOMAIN journal : journal[k].event = e.event
      BY <2>3 DEF Booked
    <3>2. PICK f \in Events : Logged(f) /\ Settles(f.body) /\ journal[k].event = f.event
      BY DEF TruthInv, BooksOK, EntryOf
    <3> QED BY <2>1, <3>1, <3>2 DEF TruthInv, OneEventPerId
  <2> QED BY <2>1, <2>3, <2>2 DEF Truthful
<1> QED BY <1>1, TruthCorrect, PTL

----------------------------------------------------------------------------
(* A consumer polls, goes on with the message in its hand, or lets go of it.    *)
GoesOn(c) ==
    /\ lpc[c] \in Handling /\ lpc'[c] \in Handling
    /\ lmsg' = lmsg /\ UNCHANGED groupState

LEMMA StepKinds ==
    ASSUME Shape, NEW c \in Consumers, LedgerStep(c) \/ LedgerFaults(c)
    PROVE  \/ LedgerPoll(c) \/ GoesOn(c)
           \/ CommitOffset(c) \/ CommitLost(c) \/ LedgerCrash(c)
<1>1. lpc \in [Consumers -> {"poll"} \cup Handling]
  BY DEF Shape, LedgerTypeOK
<1>2. ASSUME Decode(c) \/ DecodeFails(c) \/ ToDlq(c) \/ ToDlqUndelivered(c) \/ Emit(c)
               \/ CommitRaises(c) \/ PostCheck(c) \/ PostInsert(c) \/ PostConflict(c)
      PROVE  GoesOn(c)
  BY <1>1, <1>2 DEF Decode, DecodeFails, ToDlq, ToDlqUndelivered, Emit, CommitRaises, PostCheck,
       PostInsert, PostConflict, Returns, GoesTo, At, Handling, GoesOn
<1>3. ASSUME PostFails(c) \/ EmitFails(c) PROVE GoesOn(c)
  BY <1>1, <1>3 DEF PostFails, EmitFails, Retry, GoesTo, At, Handling, GoesOn
<1> QED BY <1>2, <1>3 DEF LedgerStep, LedgerFaults

(* A message that was dealt with stays dealt with.                          *)
LEMMA AccountedOn ==
    ASSUME Shape, Grows, NEW q \in Partitions, NEW o \in 1..Len(eventLog[q]), Accounted(q, o)
    PROVE  Accounted(q, o)'
<1>1. eventLog'[q][o] = eventLog[q][o]
  BY DEF Grows
<1>2. PICK x : x = eventLog[q][o].event
  OBVIOUS
<1>3. OutcomesOf(q, x) \subseteq OutcomesOf(q, x)' /\ eventDlq \subseteq eventDlq' /\ dlqLost \subseteq dlqLost'
  BY GrowsOn DEF Grows
<1> QED BY <1>1, <1>2, <1>3 DEF Accounted

(* The offsets after a step that moves no one in the group: what was in the     *)
(* owner's hand must still be there or have been dealt with.                  *)
LEMMA PolledKept ==
    ASSUME Shape, Grows, PolledOK, lposition' = lposition, lowner' = lowner,
           lcommitted' = lcommitted,
           \A c \in Consumers, q \in Partitions : \A o \in 1..lposition[q] :
               InHand(c, q, o) => Accounted(q, o) \/ InHand(c, q, o)'
    PROVE  PolledOK'
<1> SUFFICES ASSUME NEW q \in Partitions
             PROVE  /\ lcommitted'[q] <= Len(eventLog'[q]) /\ lposition'[q] <= Len(eventLog'[q])
                    /\ \A o \in 1..lcommitted'[q] : Accounted(q, o)'
                    /\ \A c \in Consumers : lowner'[q] = c =>
                           \A o \in 1..lposition'[q] : Accounted(q, o)' \/ InHand(c, q, o)'
  BY DEF PolledOK
<1>1. /\ lcommitted[q] \in Nat /\ lposition[q] \in Nat
      /\ Len(eventLog[q]) \in Nat /\ Len(eventLog'[q]) \in Nat
      /\ Len(eventLog[q]) <= Len(eventLog'[q])
      /\ lcommitted[q] <= Len(eventLog[q]) /\ lposition[q] <= Len(eventLog[q])
  BY DEF Shape, LedgerTypeOK, Group!GroupTypeOK, Grows, PolledOK
<1>2. \A o \in 1..Len(eventLog[q]) : Accounted(q, o) => Accounted(q, o)'
  BY AccountedOn
<1> QED BY <1>1, <1>2 DEF PolledOK

LEMMA PollOffsets ==
    ASSUME Shape, Grows, PolledOK, NEW c \in Consumers, LedgerPoll(c)
    PROVE  PolledOK'
<1>1. PICK p \in Partitions :
          /\ Group!Poll(c, p, eventLog)
          /\ lmsg' = [lmsg EXCEPT ![c] = [part |-> p, offset |-> lposition[p]]]
  BY DEF LedgerPoll
<1>2. /\ lpc[c] = "poll" /\ lpc'[c] = "decode"
      /\ lmsg'[c] = [part |-> p, offset |-> lposition[p]]
      /\ \A d \in Consumers \ {c} : lpc'[d] = lpc[d] /\ lmsg'[d] = lmsg[d]
  BY <1>1 DEF LedgerPoll, At, GoesTo, Shape, LedgerTypeOK
<1>3. /\ lowner' = lowner /\ lcommitted' = lcommitted /\ eventLog' = eventLog
      /\ lposition[p] < Len(eventLog[p])
      /\ lposition'[p] = lposition[p] + 1
      /\ lowner[p] = c
      /\ \A q \in Partitions \ {p} : lposition'[q] = lposition[q]
  BY <1>1 DEF LedgerPoll, Group!Poll, Group!Available, Shape, LedgerTypeOK, Group!GroupTypeOK
<1> SUFFICES ASSUME NEW q \in Partitions
             PROVE  /\ lcommitted'[q] <= Len(eventLog'[q]) /\ lposition'[q] <= Len(eventLog'[q])
                    /\ \A o \in 1..lcommitted'[q] : Accounted(q, o)'
                    /\ \A d \in Consumers : lowner'[q] = d =>
                           \A o \in 1..lposition'[q] : Accounted(q, o)' \/ InHand(d, q, o)'
  BY DEF PolledOK
<1>4. /\ lcommitted[q] \in Nat /\ lposition[q] \in Nat
      /\ Len(eventLog[q]) \in Nat
      /\ lcommitted[q] <= Len(eventLog[q]) /\ lposition[q] <= Len(eventLog[q])
  BY DEF Shape, LedgerTypeOK, Group!GroupTypeOK, Grows, PolledOK
<1>5. \A o \in 1..Len(eventLog[q]) : Accounted(q, o) => Accounted(q, o)'
  BY AccountedOn
<1>6. lposition'[q] <= Len(eventLog[q])
  BY <1>3, <1>4
<1>7. ASSUME NEW d \in Consumers, lowner[q] = d, NEW o \in 1..lposition'[q]
      PROVE  Accounted(q, o)' \/ InHand(d, q, o)'
  <2>1. CASE o \in 1..lposition[q]
    <3>1. Accounted(q, o) \/ InHand(d, q, o)
      BY <1>7, <2>1 DEF PolledOK
    <3>2. InHand(d, q, o) => d # c
      BY <1>2 DEF InHand, Handling
    <3>3. InHand(d, q, o) => InHand(d, q, o)'
      BY <1>2, <3>2 DEF InHand
    <3> QED BY <1>4, <1>5, <2>1, <3>1, <3>3
  <2>2. CASE o \notin 1..lposition[q]
    <3>1. q = p /\ o = lposition[p] + 1 /\ d = c
      BY <1>3, <1>4, <1>7, <2>2
    <3> QED BY <1>2, <3>1 DEF InHand, Handling
  <2> QED BY <2>1, <2>2
<1> QED BY <1>3, <1>4, <1>5, <1>6, <1>7 DEF PolledOK

LEMMA CommitOffsets ==
    ASSUME Shape, Grows, PolledOK, NEW c \in Consumers, CommitOK(c), CommitOffset(c)
    PROVE  PolledOK'
<1>1. /\ lpc[c] \in Handling /\ Committing(c)
      /\ Group!Commit(c, lmsg[c].part, lmsg[c].offset) /\ LetGo(c) /\ eventLog' = eventLog
  BY DEF CommitOffset, Committing, Handling
<1>2. PICK p \in Partitions, m \in Nat :
          /\ p = lmsg[c].part /\ m = lmsg[c].offset /\ m + 1 \in DOMAIN eventLog[p]
  BY <1>1, HandTyped
<1>3. /\ lowner' = lowner /\ lposition' = lposition
      /\ \A q \in Partitions : lcommitted'[q] = lcommitted[q] \/ (q = p /\ lowner[p] = c /\ lcommitted'[p] = m + 1)
  BY <1>1, <1>2 DEF Group!Commit, Shape, LedgerTypeOK, Group!GroupTypeOK
<1>4. /\ lpc'[c] = "poll"
      /\ \A d \in Consumers \ {c} : lpc'[d] = lpc[d] /\ lmsg'[d] = lmsg[d]
  BY <1>1 DEF LetGo, GoesTo, Shape, LedgerTypeOK
<1>5. Accounted(p, m + 1)
  BY <1>1, <1>2 DEF CommitOK
<1>6. \A q \in Partitions, o \in Nat : InHand(c, q, o) => q = p /\ o = m + 1
  BY <1>2 DEF InHand
<1> SUFFICES ASSUME NEW q \in Partitions
             PROVE  /\ lcommitted'[q] <= Len(eventLog'[q]) /\ lposition'[q] <= Len(eventLog'[q])
                    /\ \A o \in 1..lcommitted'[q] : Accounted(q, o)'
                    /\ \A d \in Consumers : lowner'[q] = d =>
                           \A o \in 1..lposition'[q] : Accounted(q, o)' \/ InHand(d, q, o)'
  BY DEF PolledOK
<1>7. /\ lcommitted[q] \in Nat /\ lposition[q] \in Nat
      /\ Len(eventLog[q]) \in Nat /\ DOMAIN eventLog[q] = 1..Len(eventLog[q])
      /\ lcommitted[q] <= Len(eventLog[q]) /\ lposition[q] <= Len(eventLog[q])
  BY DEF Shape, LedgerTypeOK, Group!GroupTypeOK, Grows, PolledOK, LogsOK
<1>8. \A o \in 1..Len(eventLog[q]) : Accounted(q, o) => Accounted(q, o)'
  BY AccountedOn
<1>9. ASSUME NEW d \in Consumers, lowner[q] = d, NEW o \in 1..lposition[q]
      PROVE  Accounted(q, o) \/ (d # c /\ InHand(d, q, o))
  BY <1>5, <1>6, <1>7, <1>9 DEF PolledOK
<1>10. \A d \in Consumers \ {c}, o \in Nat : InHand(d, q, o) => InHand(d, q, o)'
  BY <1>4 DEF InHand
<1>11. \A d \in Consumers : lowner'[q] = d =>
          \A o \in 1..lposition'[q] : Accounted(q, o)' \/ InHand(d, q, o)'
  BY <1>3, <1>7, <1>8, <1>9, <1>10
<1>12. CASE lcommitted'[q] = lcommitted[q]
  BY <1>1, <1>3, <1>7, <1>8, <1>11, <1>12 DEF PolledOK
<1>13. CASE q = p /\ lowner[p] = c /\ lcommitted'[p] = m + 1
  <2>1. lposition[p] = m + 1
    BY <1>1, <1>2, <1>13 DEF CommitOK
  <2>2. \A o \in 1..(m + 1) : Accounted(p, o)
    BY <1>9, <1>13, <2>1
  <2> QED BY <1>1, <1>2, <1>3, <1>7, <1>8, <1>11, <1>13, <2>2
<1> QED BY <1>3, <1>12, <1>13

(* A member that leaves takes no message with it that matters: its partitions   *)
(* start again at the committed offset.                                     *)
LEMMA CrashOffsets ==
    ASSUME Shape, Grows, PolledOK, NEW c \in Consumers, LedgerCrash(c)
    PROVE  PolledOK'
<1>1. /\ lposition' = lposition /\ lcommitted' = lcommitted /\ eventLog' = eventLog
      /\ \A q \in Partitions : lowner'[q] = IF lowner[q] = c THEN NoConsumer ELSE lowner[q]
      /\ LetGo(c)
  BY DEF LedgerCrash, Group!Leave
<1>2. \A d \in Consumers \ {c} : lpc'[d] = lpc[d] /\ lmsg'[d] = lmsg[d]
  BY <1>1 DEF LetGo, GoesTo, Shape, LedgerTypeOK
<1>3. \A d \in Consumers, q \in Partitions : lowner'[q] = d => lowner[q] = d /\ d # c
  BY <1>1, LedgerAssumption
<1> SUFFICES ASSUME NEW q \in Partitions
             PROVE  /\ lcommitted'[q] <= Len(eventLog'[q]) /\ lposition'[q] <= Len(eventLog'[q])
                    /\ \A o \in 1..lcommitted'[q] : Accounted(q, o)'
                    /\ \A d \in Consumers : lowner'[q] = d =>
                           \A o \in 1..lposition'[q] : Accounted(q, o)' \/ InHand(d, q, o)'
  BY DEF PolledOK
<1>4. /\ lcommitted[q] \in Nat /\ lposition[q] \in Nat /\ Len(eventLog[q]) \in Nat
      /\ lcommitted[q] <= Len(eventLog[q]) /\ lposition[q] <= Len(eventLog[q])
  BY DEF Shape, LedgerTypeOK, Group!GroupTypeOK, Grows, PolledOK
<1>5. \A o \in 1..Len(eventLog[q]) : Accounted(q, o) => Accounted(q, o)'
  BY AccountedOn
<1>6. \A d \in Consumers \ {c}, o \in Nat : InHand(d, q, o) => InHand(d, q, o)'
  BY <1>2 DEF InHand
<1> QED BY <1>1, <1>3, <1>4, <1>5, <1>6 DEF PolledOK

LEMMA RebalanceOffsets ==
    ASSUME Shape, Grows, PolledOK, Group!Rebalance(Polling), UNCHANGED eventLog
    PROVE  PolledOK'
<1>1. lposition' = lcommitted /\ lcommitted' = lcommitted
  BY DEF Group!Rebalance
<1> SUFFICES ASSUME NEW q \in Partitions
             PROVE  /\ lcommitted'[q] <= Len(eventLog'[q]) /\ lposition'[q] <= Len(eventLog'[q])
                    /\ \A o \in 1..lcommitted'[q] : Accounted(q, o)'
                    /\ \A d \in Consumers : lowner'[q] = d =>
                           \A o \in 1..lposition'[q] : Accounted(q, o)' \/ InHand(d, q, o)'
  BY DEF PolledOK
<1>2. /\ lcommitted[q] \in Nat /\ Len(eventLog[q]) \in Nat
      /\ lcommitted[q] <= Len(eventLog[q])
      /\ \A o \in 1..lcommitted[q] : Accounted(q, o)
  BY DEF Shape, LedgerTypeOK, Group!GroupTypeOK, Grows, PolledOK
<1>3. \A o \in 1..Len(eventLog[q]) : Accounted(q, o) => Accounted(q, o)'
  BY AccountedOn
<1> QED BY <1>1, <1>2, <1>3

LEMMA PolledStep ==
    ASSUME Shape, OffsetInv, [Next]_ledgerAllVars
    PROVE  PolledOK'
<1>0. Grows /\ PolledOK
  BY LogsStep DEF OffsetInv
<1>1. ASSUME NEW c \in Consumers, GoesOn(c), LedgerStep(c) \/ LedgerFaults(c) PROVE PolledOK'
  <2>1. \A d \in Consumers : lmsg'[d] = lmsg[d] /\ (lpc'[d] = lpc[d] \/ d = c)
    BY <1>1, OthersWait DEF GoesOn
  <2>2. \A d \in Consumers : \A q \in Partitions : \A o \in 1..lposition[q] :
            InHand(d, q, o) => InHand(d, q, o)'
    BY <1>1, <2>1 DEF GoesOn, InHand
  <2> QED BY <1>0, <1>1, <2>2, PolledKept DEF GoesOn, groupState
<1>2. ASSUME NEW c \in Consumers, CommitLost(c) PROVE PolledOK'
  <2>1. CommitOK(c) /\ Committing(c) /\ LetGo(c) /\ UNCHANGED groupState
    BY <1>2 DEF CommitLost, OffsetInv
  <2>2. \A d \in Consumers \ {c} : lpc'[d] = lpc[d] /\ lmsg'[d] = lmsg[d]
    BY <2>1 DEF LetGo, GoesTo, Shape, LedgerTypeOK
  <2>3. \A d \in Consumers : \A q \in Partitions : \A o \in 1..lposition[q] :
            InHand(d, q, o) => Accounted(q, o) \/ InHand(d, q, o)'
    BY <2>1, <2>2 DEF InHand, CommitOK
  <2> QED BY <1>0, <2>1, <2>3, PolledKept DEF groupState
<1>3. ASSUME NEW c \in Consumers, LedgerStep(c) \/ LedgerFaults(c) PROVE PolledOK'
  <2>1. CommitOK(c)
    BY DEF OffsetInv
  <2> QED BY <1>0, <1>1, <1>2, <1>3, <2>1, StepKinds, PollOffsets, CommitOffsets, CrashOffsets
<1>4. ASSUME LedgerJoin \/ LedgerRebalance PROVE PolledOK'
  BY <1>0, <1>4, RebalanceOffsets DEF LedgerJoin, LedgerRebalance
<1>5. ASSUME UNCHANGED <<groupState, workState>> PROVE PolledOK'
  <2>1. \A d \in Consumers : \A q \in Partitions : \A o \in 1..lposition[q] :
            InHand(d, q, o) => InHand(d, q, o)'
    BY <1>5 DEF workState, InHand
  <2> QED BY <1>0, <1>5, <2>1, PolledKept DEF groupState
<1> QED BY <1>3, <1>4, <1>5 DEF Next, LedgerNext, PollAgain, Publish, ledgerAllVars, ledgerVars

(* A consumer the step is not about keeps its part of the invariant.          *)
LEMMA CommitOKKept ==
    ASSUME Shape, Grows, NEW d \in Consumers, CommitOK(d),
           lmsg'[d] = lmsg[d],
           lpc[d] \in Handling /\ lpc'[d] \in Handling,
           Committing(d)' => Committing(d) \/ Accounted(lmsg[d].part, lmsg[d].offset + 1)',
           lowner'[lmsg[d].part] = d =>
               /\ lowner[lmsg[d].part] = d
               /\ lposition'[lmsg[d].part] = lposition[lmsg[d].part]
    PROVE  CommitOK(d)'
<1>1. PICK p \in Partitions, m \in Nat :
          /\ p = lmsg[d].part /\ m = lmsg[d].offset /\ m + 1 \in 1..Len(eventLog[p])
  <2>1. /\ lmsg[d].part \in Partitions /\ lmsg[d].offset \in Nat
        /\ lmsg[d].offset + 1 \in DOMAIN eventLog[lmsg[d].part]
    BY HandTyped
  <2> QED BY <2>1 DEF Shape, LogsOK
<1>2. Accounted(p, m + 1) => Accounted(p, m + 1)'
  BY <1>1, AccountedOn
<1>3. lmsg'[d].part = p /\ lmsg'[d].offset = m
  BY <1>1
<1>4. Committing(d)' => Accounted(p, m + 1)'
  BY <1>1, <1>2, <1>3 DEF CommitOK
<1> QED BY <1>1, <1>3, <1>4 DEF CommitOK

LEMMA CommitOKStep ==
    ASSUME Shape, OffsetInv, [Next]_ledgerAllVars, NEW d \in Consumers
    PROVE  CommitOK(d)'
<1>0. Grows /\ CommitOK(d)
  BY LogsStep DEF OffsetInv
<1>1. /\ lpc \in [Consumers -> {"poll"} \cup Handling]
      /\ lmsg \in [Consumers -> Message]
      /\ lowner \in [Partitions -> Consumers \cup {NoConsumer}]
      /\ lposition \in [Partitions -> Nat]
  BY DEF Shape, LedgerTypeOK, Group!GroupTypeOK
<1>2. ASSUME lpc'[d] \notin Handling PROVE CommitOK(d)'
  BY <1>2 DEF CommitOK, Committing, Handling
<1>3. ASSUME LedgerPoll(d) PROVE CommitOK(d)'
  <2>1. PICK q \in Partitions :
            /\ Group!Poll(d, q, eventLog)
            /\ lmsg' = [lmsg EXCEPT ![d] = [part |-> q, offset |-> lposition[q]]]
    BY <1>3 DEF LedgerPoll
  <2>2. lpc'[d] = "decode" /\ lposition'[q] = lposition[q] + 1
    BY <1>1, <1>3, <2>1 DEF LedgerPoll, GoesTo, Group!Poll
  <2>3. lmsg'[d] = [part |-> q, offset |-> lposition[q]]
    BY <1>1, <2>1
  <2> QED BY <2>2, <2>3 DEF CommitOK, Committing
<1>4. ASSUME CommitOffset(d) \/ CommitLost(d) \/ LedgerCrash(d) PROVE CommitOK(d)'
  <2>1. lpc'[d] = "poll"
    BY <1>1, <1>4 DEF CommitOffset, CommitLost, LedgerCrash, LetGo, GoesTo
  <2> QED BY <1>2, <2>1 DEF Handling
<1>5. ASSUME GoesOn(d), LedgerStep(d) \/ LedgerFaults(d) PROVE CommitOK(d)'
  <2>1. /\ lpc[d] \in Handling /\ lpc'[d] \in Handling /\ lmsg'[d] = lmsg[d]
        /\ lowner' = lowner /\ lposition' = lposition
    BY <1>5 DEF GoesOn, groupState
  <2>2. Ev(d)' = Ev(d) /\ Ev(d) \in Events
    BY <1>0, <2>1, EvKept, HandTyped
  <2>3. PICK p \in Partitions, m \in Nat, e \in Events :
            p = lmsg[d].part /\ m = lmsg[d].offset /\ e = Ev(d)
    BY <2>1, <2>2, HandTyped
  <2>4. eventLog'[p][m + 1] = e
    BY <2>1, <2>2, <2>3 DEF Ev
  <2>5. ASSUME Emit(d) PROVE Accounted(p, m + 1)'
    <3>1. PICK out \in Answers : out = OutcomeOf(d)
      BY <2>1, HandTyped
    <3>2. /\ outcomeLog \in [Partitions -> Seq(Answers)]
          /\ outcomeLog' = [outcomeLog EXCEPT ![p] = Append(@, out)]
      BY <2>3, <2>5, <3>1 DEF Emit, Produced, Shape, LogsOK
    <3>3. /\ DOMAIN outcomeLog'[p] = 1..(Len(outcomeLog[p]) + 1) /\ Len(outcomeLog[p]) \in Nat
          /\ outcomeLog'[p][Len(outcomeLog[p]) + 1] = out
      BY <3>2, LogGrows
    <3>4. out.event = e.event
      BY <2>3, <3>1 DEF OutcomeOf
    <3>5. PICK x : x = e.event
      OBVIOUS
    <3>6. OutcomesOf(p, x)' # {}
      BY <3>3, <3>4, <3>5 DEF OutcomesOf
    <3> QED BY <2>4, <3>5, <3>6 DEF Accounted
  <2>6. ASSUME ToDlq(d) \/ ToDlqUndelivered(d) PROVE Accounted(p, m + 1)'
    <3>1. e.event \in eventDlq' \cup dlqLost'
      BY <2>3, <2>6 DEF ToDlq, ToDlqUndelivered
    <3> QED BY <2>4, <3>1 DEF Accounted
  <2>7. ASSUME ~Emit(d), ~ToDlq(d), ~ToDlqUndelivered(d), Committing(d)' PROVE Committing(d)
    <3>1. ASSUME Decode(d) \/ DecodeFails(d) \/ CommitRaises(d) \/ PostCheck(d) \/ PostInsert(d)
                   \/ PostConflict(d) \/ PostFails(d) \/ EmitFails(d)
          PROVE  lpc'[d] \notin {"commit", "commitPast"}
      BY <1>1, <3>1 DEF Decode, DecodeFails, CommitRaises, PostCheck, PostInsert, PostConflict,
           PostFails, EmitFails, Retry, Returns, GoesTo
    <3>2. ASSUME LedgerPoll(d) \/ CommitOffset(d) \/ CommitLost(d) \/ LedgerCrash(d)
          PROVE  lpc'[d] \in {"poll", "decode"}
      BY <1>1, <3>2 DEF LedgerPoll, CommitOffset, CommitLost, LedgerCrash, LetGo, GoesTo
    <3> QED BY <1>5, <2>7, <3>1, <3>2 DEF LedgerStep, LedgerFaults, Committing
  <2>8. Committing(d)' => Committing(d) \/ Accounted(lmsg[d].part, lmsg[d].offset + 1)'
    <3>1. lmsg'[d].part = p /\ lmsg'[d].offset = m
      BY <2>1, <2>3
    <3> QED BY <2>5, <2>6, <2>7, <3>1
  <2> QED BY <1>0, <2>1, <2>8, CommitOKKept
<1>6. ASSUME NEW c \in Consumers, LedgerStep(c) \/ LedgerFaults(c), c # d, lpc'[d] \in Handling
      PROVE  CommitOK(d)'
  <2>1. lpc'[d] = lpc[d] /\ lmsg'[d] = lmsg[d]
    BY <1>6, OthersWait
  <2>2. PICK p \in Partitions : p = lmsg[d].part
    BY <1>6, <2>1, HandTyped
  <2>3. lowner'[p] = d => lowner[p] = d /\ lposition'[p] = lposition[p]
    <3>1. ASSUME LedgerPoll(c) PROVE <2>3!:
      <4>1. PICK q \in Partitions : Group!Poll(c, q, eventLog)
        BY <3>1 DEF LedgerPoll
      <4> QED BY <1>1, <1>6, <4>1 DEF Group!Poll, Group!Available
    <3>2. ASSUME CommitOffset(c) PROVE <2>3!:
      BY <3>2 DEF CommitOffset, Group!Commit
    <3>3. ASSUME LedgerCrash(c) PROVE <2>3!:
      BY <1>6, <3>3, LedgerAssumption DEF LedgerCrash, Group!Leave
    <3>4. ASSUME GoesOn(c) \/ CommitLost(c) PROVE <2>3!:
      BY <3>4 DEF GoesOn, CommitLost, groupState
    <3> QED BY <1>6, <3>1, <3>2, <3>3, <3>4, StepKinds
  <2>4. Committing(d)' => Committing(d)
    BY <2>1 DEF Committing
  <2> QED BY <1>0, <1>6, <2>1, <2>2, <2>3, <2>4, CommitOKKept
<1>7. ASSUME LedgerJoin \/ LedgerRebalance PROVE CommitOK(d)'
  <2>1. /\ lpc' = lpc /\ lmsg' = lmsg /\ eventLog' = eventLog
        /\ Group!Rebalance(Polling)
    BY <1>7 DEF LedgerJoin, LedgerRebalance, workState
  <2>2. ASSUME lpc[d] \in Handling PROVE CommitOK(d)'
    <3>1. d \notin Polling
      BY <2>2 DEF Polling, At, Handling
    <3>2. PICK p \in Partitions : p = lmsg[d].part
      BY <2>2, HandTyped
    <3>3. lowner'[p] # d
      BY <2>1, <3>1, LedgerAssumption DEF Group!Rebalance
    <3>4. Committing(d)' => Committing(d)
      BY <2>1 DEF Committing
    <3> QED BY <1>0, <2>1, <2>2, <3>2, <3>3, <3>4, CommitOKKept
  <2> QED BY <1>2, <2>1, <2>2
<1>8. ASSUME UNCHANGED <<groupState, workState>> PROVE CommitOK(d)'
  <2>1. lpc' = lpc /\ lmsg' = lmsg /\ lowner' = lowner /\ lposition' = lposition
    BY <1>8 DEF groupState, workState
  <2>2. ASSUME lpc[d] \in Handling PROVE CommitOK(d)'
    BY <1>0, <2>1, <2>2, CommitOKKept DEF Committing
  <2> QED BY <1>2, <2>1, <2>2
<1>9. ASSUME NEW c \in Consumers, LedgerStep(c) \/ LedgerFaults(c) PROVE CommitOK(d)'
  BY <1>2, <1>3, <1>4, <1>5, <1>6, <1>9, StepKinds
<1> QED BY <1>7, <1>8, <1>9 DEF Next, LedgerNext, PollAgain, Publish, ledgerAllVars, ledgerVars

(* No event is skipped: one behind the committed offset has its outcome in the *)
(* topic or was sent to the DLQ, through crashes, retries, rebalances in the    *)
(* middle of a message and lost commits.                                    *)
THEOREM NoEventSkipped == Spec => []AccountedFor
<1>1. Init => OffsetInv
  <2> SUFFICES ASSUME Init PROVE OffsetInv
    OBVIOUS
  <2>1. /\ \A q \in Partitions : /\ lcommitted[q] = 0 /\ lposition[q] = 0
                                /\ lowner[q] = NoConsumer /\ eventLog[q] = << >>
        /\ \A c \in Consumers : lpc[c] = "poll"
    BY DEF Init, LedgerInit, Group!GroupInit
  <2>2. Len(<< >>) = 0 /\ 1..0 = {}
    OBVIOUS
  <2> QED BY <2>1, <2>2 DEF OffsetInv, PolledOK, CommitOK, Committing, Handling
<1>2. Shape /\ OffsetInv /\ [Next]_ledgerAllVars => OffsetInv'
  <2> SUFFICES ASSUME Shape, OffsetInv, [Next]_ledgerAllVars PROVE OffsetInv'
    OBVIOUS
  <2> QED BY PolledStep, CommitOKStep DEF OffsetInv
<1>3. Spec => []OffsetInv
  BY <1>1, <1>2, ShapeCorrect, PTL DEF Spec
<1>4. OffsetInv => AccountedFor
  BY DEF OffsetInv, PolledOK, AccountedFor, Accounted
<1> QED BY <1>3, <1>4, PTL

----------------------------------------------------------------------------
(* Sums.  The balances are sums over finite sets, element by chosen element;       *)
(* what such a sum is does not depend on the choice.  Each fact is shown by the     *)
(* least size of a set at which it could fail.                                 *)
Less == {ss \in Nat \X Nat : ss[1] < ss[2]}

LEMMA Least ==
    ASSUME NEW T \in SUBSET Nat, T # {}
    PROVE  \E n \in T : \A m \in Nat : m < n => m \notin T
<1>1. IsWellFoundedOn(Less, Nat)
  BY NatLessThanWellFounded DEF OpToRel, Less
<1>2. PICK n \in T : \A m \in T : <<m, n>> \notin Less
  BY <1>1, WFMin, Zenon
<1> QED BY <1>2 DEF Less

First(s) == CHOOSE x \in s : TRUE
Step(F, it, s) == IF s = {} THEN 0 ELSE F[First(s)] + it[s \ {First(s)}]

(* it holds the sums of F over the subsets of S with up to k elements.             *)
SumsUpTo(F, S, k, it) ==
    /\ it = [s \in SUBSET S |-> it[s]]
    /\ \A s \in SUBSET S : Cardinality(s) <= k => it[s] = Step(F, it, s)
Sums(F, S, it) == it = [s \in SUBSET S |-> Step(F, it, s)]
SumOf(F, S) == (CHOOSE it : Sums(F, S, it))[S]

(* Without its first element, a set has one element less.                         *)
LEMMA WithoutFirst ==
    ASSUME NEW s, IsFiniteSet(s), s # {}
    PROVE  /\ First(s) \in s /\ s \ {First(s)} \subseteq s
           /\ IsFiniteSet(s \ {First(s)})
           /\ Cardinality(s) \in Nat \ {0}
           /\ Cardinality(s \ {First(s)}) = Cardinality(s) - 1
<1>1. First(s) \in s
  BY DEF First
<1>2. IsFiniteSet(s \ {First(s)}) /\ Cardinality(s \ {First(s)}) = Cardinality(s) - 1
  BY <1>1, FS_RemoveElement
<1>3. Cardinality(s) \in Nat /\ Cardinality(s) # 0
  BY FS_CardinalityType, FS_EmptySet
<1> QED BY <1>1, <1>2, <1>3

LEMMA SumsUpToExist ==
    ASSUME NEW F, NEW S, IsFiniteSet(S), NEW k \in Nat
    PROVE  \E it : SumsUpTo(F, S, k, it)
<1> DEFINE T == {n \in Nat : ~ \E it : SumsUpTo(F, S, n, it)}
<1>1. \A s \in SUBSET S : IsFiniteSet(s) /\ Cardinality(s) \in Nat
  BY FS_Subset, FS_CardinalityType
<1>2. ASSUME T # {} PROVE FALSE
  <2>1. PICK n \in T : \A m \in Nat : m < n => m \notin T
    BY <1>2, Least
  <2>2. CASE n = 0
    <3> DEFINE it == [s \in SUBSET S |-> 0]
    <3>1. \A s \in SUBSET S : Cardinality(s) <= n => s = {}
      BY <1>1, <2>2, FS_EmptySet
    <3>2. \A s \in SUBSET S : Cardinality(s) <= n => it[s] = Step(F, it, s)
      BY <3>1 DEF Step
    <3>3. it = [s \in SUBSET S |-> it[s]]
      OBVIOUS
    <3>4. SumsUpTo(F, S, n, it)
      BY <3>2, <3>3 DEF SumsUpTo
    <3> QED BY <3>4
  <2>3. CASE n # 0
    <3>1. n - 1 \in Nat /\ n - 1 < n
      BY <2>3
    <3>2. PICK jt : SumsUpTo(F, S, n - 1, jt)
      BY <2>1, <3>1
    <3> DEFINE it == [s \in SUBSET S |-> IF Cardinality(s) <= n - 1 THEN jt[s] ELSE Step(F, jt, s)]
    <3>3. \A s \in SUBSET S : it[s] = IF Cardinality(s) <= n - 1 THEN jt[s] ELSE Step(F, jt, s)
      OBVIOUS
    <3>4. it = [s \in SUBSET S |-> it[s]]
      OBVIOUS
    <3> HIDE DEF it
    <3>5. ASSUME NEW s \in SUBSET S, Cardinality(s) <= n PROVE it[s] = Step(F, it, s)
      <4>1. it[s] = Step(F, jt, s)
        BY <3>2, <3>3 DEF SumsUpTo
      <4>2. CASE s = {}
        BY <4>1, <4>2 DEF Step
      <4>3. CASE s # {}
        <5>1. /\ s \ {First(s)} \in SUBSET S /\ Cardinality(s) \in Nat
              /\ Cardinality(s \ {First(s)}) = Cardinality(s) - 1
          BY <1>1, <4>3, WithoutFirst
        <5>2. Cardinality(s \ {First(s)}) <= n - 1
          BY <3>5, <5>1
        <5>3. it[s \ {First(s)}] = jt[s \ {First(s)}]
          BY <3>3, <5>1, <5>2
        <5> QED BY <4>1, <5>3 DEF Step
      <4> QED BY <4>2, <4>3
    <3>6. SumsUpTo(F, S, n, it)
      BY <3>4, <3>5 DEF SumsUpTo
    <3> QED BY <3>6
  <2> QED BY <2>2, <2>3
<1> QED BY <1>2

LEMMA SumsExist ==
    ASSUME NEW F, NEW S, IsFiniteSet(S)
    PROVE  \E it : Sums(F, S, it)
<1>1. PICK k \in Nat : k = Cardinality(S)
  BY FS_CardinalityType
<1>2. PICK it : SumsUpTo(F, S, k, it)
  BY SumsUpToExist
<1>3. \A s \in SUBSET S : it[s] = Step(F, it, s)
  BY <1>1, <1>2, FS_Subset DEF SumsUpTo
<1>4. it = [s \in SUBSET S |-> it[s]]
  BY <1>2 DEF SumsUpTo
<1>5. it = [s \in SUBSET S |-> Step(F, it, s)]
  BY <1>3, <1>4
<1> QED BY <1>5 DEF Sums

(* Two readings of the sums agree on the sets that both are about.                 *)
LEMMA SumsAgree ==
    ASSUME NEW F, NEW S, NEW R, IsFiniteSet(S), IsFiniteSet(R), NEW it, NEW jt,
           Sums(F, S, it), Sums(F, R, jt), NEW s \in SUBSET (S \cap R)
    PROVE  it[s] = jt[s]
<1> DEFINE Differ == {x \in SUBSET (S \cap R) : it[x] # jt[x]}
           T == {n \in Nat : \E x \in Differ : Cardinality(x) = n}
<1>1. \A x \in SUBSET (S \cap R) : IsFiniteSet(x) /\ Cardinality(x) \in Nat
  <2>1. \A x \in SUBSET (S \cap R) : x \subseteq S
    OBVIOUS
  <2> QED BY <2>1, FS_Subset, FS_CardinalityType
<1>2. ASSUME T # {} PROVE FALSE
  <2>1. PICK n \in T : \A m \in Nat : m < n => m \notin T
    BY <1>2, Least
  <2>2. PICK x \in Differ : Cardinality(x) = n
    OBVIOUS
  <2>3. x \in SUBSET S /\ x \in SUBSET R /\ x \in SUBSET (S \cap R) /\ it[x] # jt[x]
    OBVIOUS
  <2>4. it[x] = Step(F, it, x) /\ jt[x] = Step(F, jt, x)
    BY <2>3 DEF Sums
  <2>5. CASE x = {}
    BY <2>3, <2>4, <2>5 DEF Step
  <2>6. CASE x # {}
    <3>1. /\ x \ {First(x)} \in SUBSET (S \cap R)
          /\ Cardinality(x \ {First(x)}) = n - 1 /\ n - 1 \in Nat /\ n - 1 < n
      <4>1. IsFiniteSet(x) /\ x \in SUBSET (S \cap R)
        BY <1>1, <2>3
      <4>2. /\ x \ {First(x)} \subseteq x /\ Cardinality(x) \in Nat \ {0}
            /\ Cardinality(x \ {First(x)}) = Cardinality(x) - 1
        BY <2>6, <4>1, WithoutFirst
      <4>3. n \in Nat \ {0} /\ Cardinality(x \ {First(x)}) = n - 1
        BY <2>2, <4>2
      <4> QED BY <4>1, <4>2, <4>3
    <3>2. n - 1 \notin T
      BY <2>1, <3>1
    <3>3. it[x \ {First(x)}] = jt[x \ {First(x)}]
      BY <3>1, <3>2
    <3> QED BY <2>3, <2>4, <3>3 DEF Step
  <2> QED BY <2>5, <2>6
<1>3. s \notin Differ
  BY <1>1, <1>2
<1> QED BY <1>3

LEMMA SumIs ==
    ASSUME NEW F, NEW S, IsFiniteSet(S), NEW it, Sums(F, S, it), NEW s \in SUBSET S
    PROVE  it[s] = SumOf(F, s)
<1>1. IsFiniteSet(s)
  BY FS_Subset
<1>2. PICK jt : jt = CHOOSE x : Sums(F, s, x)
  OBVIOUS
<1>3. Sums(F, s, jt)
  BY <1>1, <1>2, SumsExist
<1>4. s \in SUBSET (S \cap s)
  OBVIOUS
<1>5. it[s] = jt[s]
  BY <1>1, <1>3, <1>4, SumsAgree
<1> QED BY <1>2, <1>5 DEF SumOf

LEMMA SumEmpty == \A F : SumOf(F, {}) = 0
<1> SUFFICES ASSUME NEW F PROVE SumOf(F, {}) = 0
  OBVIOUS
<1>1. IsFiniteSet({})
  BY FS_EmptySet
<1>2. PICK it : Sums(F, {}, it)
  BY <1>1, SumsExist
<1>3. it[{}] = 0
  BY <1>2 DEF Sums, Step
<1>4. it[{}] = SumOf(F, {})
  <2>1. {} \in SUBSET {}
    OBVIOUS
  <2> QED BY <1>1, <1>2, <2>1, SumIs
<1> QED BY <1>3, <1>4

LEMMA SumFirst ==
    ASSUME NEW F, NEW S, IsFiniteSet(S), S # {}
    PROVE  SumOf(F, S) = F[First(S)] + SumOf(F, S \ {First(S)})
<1>1. PICK it : Sums(F, S, it)
  BY SumsExist
<1>2. S \in SUBSET S /\ S \ {First(S)} \in SUBSET S
  OBVIOUS
<1>3. \A s \in SUBSET S : it[s] = SumOf(F, s)
  BY <1>1, SumIs
<1>4. it[S] = F[First(S)] + it[S \ {First(S)}]
  BY <1>1, <1>2 DEF Sums, Step
<1> QED BY <1>2, <1>3, <1>4

LEMMA SumTyped ==
    ASSUME NEW S, IsFiniteSet(S), NEW F, \A x \in S : F[x] \in Int
    PROVE  \A s \in SUBSET S : SumOf(F, s) \in Int
<1> DEFINE Bad == {x \in SUBSET S : SumOf(F, x) \notin Int}
           T == {n \in Nat : \E x \in Bad : Cardinality(x) = n}
<1>1. \A x \in SUBSET S : IsFiniteSet(x) /\ Cardinality(x) \in Nat
  BY FS_Subset, FS_CardinalityType
<1>2. ASSUME T # {} PROVE FALSE
  <2>1. PICK n \in T : \A m \in Nat : m < n => m \notin T
    BY <1>2, Least
  <2>2. PICK x \in Bad : Cardinality(x) = n
    OBVIOUS
  <2>3. x \in SUBSET S /\ IsFiniteSet(x) /\ SumOf(F, x) \notin Int
    BY <1>1
  <2>4. CASE x = {}
    BY <2>3, <2>4, SumEmpty
  <2>5. CASE x # {}
    <3>1. PICK y : y = x \ {First(x)}
      OBVIOUS
    <3>2. /\ First(x) \in x /\ y \subseteq x /\ Cardinality(x) \in Nat \ {0}
          /\ Cardinality(y) = Cardinality(x) - 1
      BY <2>3, <2>5, <3>1, WithoutFirst
    <3>3. Cardinality(y) \in Nat /\ Cardinality(y) < n
      BY <2>2, <3>2
    <3>4. SumOf(F, y) \in Int
      <4>1. y \in SUBSET S
        BY <2>3, <3>2
      <4> QED BY <2>1, <3>3, <4>1
    <3>5. SumOf(F, x) = F[First(x)] + SumOf(F, y)
      BY <2>3, <2>5, <3>1, SumFirst
    <3>6. F[First(x)] \in Int
      BY <2>3, <3>2
    <3> HIDE DEF T, Bad
    <3> QED BY <2>3, <3>4, <3>5, <3>6
  <2> QED BY <2>4, <2>5
<1> QED BY <1>1, <1>2

(* Any element may be taken out first.                                          *)
LEMMA SumWithout ==
    ASSUME NEW S, IsFiniteSet(S), NEW F, \A x \in S : F[x] \in Int,
           NEW s \in SUBSET S, NEW e \in s
    PROVE  SumOf(F, s) = F[e] + SumOf(F, s \ {e})
<1> DEFINE Bad == {x \in SUBSET S : \E y \in x : SumOf(F, x) # F[y] + SumOf(F, x \ {y})}
           T == {n \in Nat : \E x \in Bad : Cardinality(x) = n}
<1>1. \A x \in SUBSET S : IsFiniteSet(x) /\ Cardinality(x) \in Nat
  BY FS_Subset, FS_CardinalityType
<1>2. ASSUME T # {} PROVE FALSE
  <2>1. PICK n \in T : \A m \in Nat : m < n => m \notin T
    BY <1>2, Least
  <2>2. PICK x \in Bad : Cardinality(x) = n
    OBVIOUS
  <2>3. PICK y \in x : SumOf(F, x) # F[y] + SumOf(F, x \ {y})
    OBVIOUS
  <2>4. x \in SUBSET S /\ IsFiniteSet(x) /\ x # {}
    BY <1>1
  <2>5. PICK p, r : p = First(x) /\ r = x \ {p}
    OBVIOUS
  <2>6. /\ p \in x /\ r \subseteq x /\ IsFiniteSet(r) /\ Cardinality(x) \in Nat \ {0}
        /\ Cardinality(r) = Cardinality(x) - 1
    BY <2>4, <2>5, WithoutFirst
  <2>7. SumOf(F, x) = F[p] + SumOf(F, r)
    BY <2>4, <2>5, SumFirst
  <2>8. y # p
    BY <2>3, <2>5, <2>7
  <2>9. Cardinality(r) \in Nat /\ Cardinality(r) < n
    BY <2>2, <2>6
  <2>10. SumOf(F, r) = F[y] + SumOf(F, r \ {y})
    <3>1. r \in SUBSET S /\ y \in r
      BY <2>4, <2>5, <2>6, <2>8
    <3> QED BY <2>1, <2>9, <3>1
  <2>11. PICK q : q = x \ {y}
    OBVIOUS
  <2>12. IsFiniteSet(q) /\ Cardinality(q) = Cardinality(x) - 1 /\ q \in SUBSET S /\ p \in q
    BY <2>3, <2>4, <2>6, <2>8, <2>11, FS_RemoveElement
  <2>13. SumOf(F, q) = F[p] + SumOf(F, q \ {p})
    <3>1. Cardinality(q) \in Nat /\ Cardinality(q) < n
      BY <2>2, <2>6, <2>12
    <3> QED BY <2>1, <2>12, <3>1
  <2>14. q \ {p} = r \ {y} /\ r \ {y} \in SUBSET S
    BY <2>4, <2>5, <2>11
  <2>15. F[p] \in Int /\ F[y] \in Int /\ SumOf(F, r \ {y}) \in Int
    BY <2>3, <2>4, <2>6, <2>14, SumTyped
  <2>16. SumOf(F, x) = F[y] + SumOf(F, q)
    <3> HIDE DEF T, Bad
    <3>1. PICK v \in Int : v = SumOf(F, r \ {y})
      BY <2>15
    <3>2. SumOf(F, x) = F[p] + (F[y] + v) /\ SumOf(F, q) = F[p] + v
      BY <2>7, <2>10, <2>13, <2>14, <3>1
    <3> QED BY <2>15, <3>2
  <2> QED BY <2>3, <2>11, <2>16
<1> QED BY <1>1, <1>2

(* Sums over sets that correspond one to one.                                    *)
LEMMA SumImage ==
    ASSUME NEW A, IsFiniteSet(A), NEW g, \A a, b \in A : g[a] = g[b] => a = b,
           NEW F, NEW G, \A a \in A : F[a] = G[g[a]] /\ F[a] \in Int
    PROVE  SumOf(F, A) = SumOf(G, {g[a] : a \in A})
<1> DEFINE Image(s) == {g[a] : a \in s}
           Bad == {x \in SUBSET A : SumOf(F, x) # SumOf(G, Image(x))}
           T == {n \in Nat : \E x \in Bad : Cardinality(x) = n}
<1>1. \A x \in SUBSET A : IsFiniteSet(x) /\ Cardinality(x) \in Nat
  BY FS_Subset, FS_CardinalityType
<1>2. IsFiniteSet(Image(A))
  <2>1. [a \in A |-> g[a]] \in Surjection(A, Image(A))
    BY DEF Surjection
  <2> HIDE DEF Image, Bad, T
  <2> QED BY <2>1, FS_Surjection
<1>3. ASSUME T # {} PROVE FALSE
  <2>1. PICK n \in T : \A m \in Nat : m < n => m \notin T
    BY <1>3, Least
  <2>2. PICK x \in Bad : Cardinality(x) = n
    OBVIOUS
  <2>3. x \in SUBSET A /\ IsFiniteSet(x) /\ SumOf(F, x) # SumOf(G, Image(x))
    BY <1>1
  <2>4. CASE x = {}
    <3>1. Image(x) = {}
      BY <2>4
    <3> HIDE DEF Image, Bad, T
    <3> QED BY <2>3, <2>4, <3>1, SumEmpty
  <2>5. CASE x # {}
    <3>1. PICK p, r : p = First(x) /\ r = x \ {p}
      OBVIOUS
    <3>2. /\ p \in x /\ r \subseteq x /\ Cardinality(x) \in Nat \ {0}
          /\ Cardinality(r) = Cardinality(x) - 1
      BY <2>3, <2>5, <3>1, WithoutFirst
    <3>3. Cardinality(r) \in Nat /\ Cardinality(r) < n
      BY <2>2, <3>2
    <3>4. SumOf(F, r) = SumOf(G, Image(r))
      <4>1. r \in SUBSET A
        BY <2>3, <3>2
      <4> QED BY <2>1, <3>3, <4>1
    <3>5. /\ g[p] \in Image(x) /\ Image(x) \in SUBSET Image(A)
          /\ Image(r) = Image(x) \ {g[p]}
      <4>1. \A a \in r : a \in A /\ p \in A /\ a # p
        BY <2>3, <3>1, <3>2
      <4>2. \A a \in r : g[a] # g[p]
        BY <4>1
      <4>3. \A a \in x : a = p \/ a \in r
        BY <3>1
      <4> QED BY <2>3, <3>2, <4>2, <4>3
    <3>6. \A y \in Image(A) : G[y] \in Int
      OBVIOUS
    <3>7. F[p] = G[g[p]]
      BY <2>3, <3>2
    <3>8. SumOf(F, x) = F[p] + SumOf(F, r)
      BY <2>3, <2>5, <3>1, SumFirst
    <3>9. SumOf(G, Image(x)) = G[g[p]] + SumOf(G, Image(x) \ {g[p]})
      <4> HIDE DEF Image, Bad, T
      <4> QED BY <1>2, <3>5, <3>6, SumWithout
    <3> HIDE DEF Image, Bad, T
    <3> QED BY <2>3, <3>4, <3>5, <3>7, <3>8, <3>9
  <2> QED BY <2>4, <2>5
<1>4. A \notin Bad
  BY <1>1, <1>3
<1> QED BY <1>4

(* The balances view adds up the amounts of the lines that match.                   *)
LineAt(nk) == journal[nk[1]].lines[nk[2]]
LinesOf(t, code, direction) ==
    {nk \in (DOMAIN journal) \X {1, 2} :
        /\ LineAt(nk).account.tenant = t
        /\ LineAt(nk).account.code = code
        /\ LineAt(nk).direction = direction}
Amounts(S) == [nk \in S |-> LineAt(nk).amount]

LEMMA TotalIs ==
    ASSUME NEW t, NEW code, NEW direction, IsFiniteSet(LinesOf(t, code, direction))
    PROVE  Total(t, code, direction) =
               SumOf(Amounts(LinesOf(t, code, direction)), LinesOf(t, code, direction))
<1> DEFINE S == LinesOf(t, code, direction)
           F == Amounts(S)
           Adds(it) == it = [s \in SUBSET S |->
                               IF s = {} THEN 0
                               ELSE LineAt(CHOOSE x \in s : TRUE).amount
                                       + it[s \ {CHOOSE x \in s : TRUE}]]
<1>1. ASSUME NEW it PROVE Adds(it) <=> Sums(F, S, it)
  <2>1. ASSUME NEW s \in SUBSET S
        PROVE  Step(F, it, s) = IF s = {} THEN 0
                                ELSE LineAt(CHOOSE x \in s : TRUE).amount
                                       + it[s \ {CHOOSE x \in s : TRUE}]
    <3>1. CASE s = {}
      BY <3>1 DEF Step
    <3>2. CASE s # {}
      <4>1. First(s) \in S
        BY <3>2 DEF First
      <4>2. F[First(s)] = LineAt(First(s)).amount
        BY <4>1 DEF Amounts
      <4> HIDE DEF S, F
      <4> QED BY <3>2, <4>2 DEF Step, First
    <3> QED BY <3>1, <3>2
  <2> HIDE DEF S, F
  <2> QED BY <2>1 DEF Sums
<1>2. PICK it : it = CHOOSE x : Adds(x)
  OBVIOUS
<1>3. Total(t, code, direction) = it[S]
  BY <1>2 DEF Total, MapThenSumSet, MapThenFoldSet, LinesOf, LineAt
<1>4. \E x : Adds(x)
  <2> HIDE DEF Adds, F
  <2> QED BY <1>1, SumsExist
<1>5. Sums(F, S, it)
  <2>1. Adds(it)
    <3> HIDE DEF Adds
    <3> QED BY <1>2, <1>4
  <2> HIDE DEF Adds, F, S
  <2> QED BY <1>1, <2>1
<1>6. it[S] = SumOf(F, S)
  <2>1. S \in SUBSET S
    OBVIOUS
  <2> HIDE DEF F, S, Adds
  <2> QED BY <1>5, <2>1, SumIs DEF S
<1> QED BY <1>3, <1>6

(* What is expected adds up the amounts of the captures that are booked.             *)
BookedCaptures(t) == {e \in Published : e.tenant = t /\ Booked(e.event) # {}}
Asked(S) == [e \in S |-> e.body.amount]

LEMMA ExpectedIs ==
    ASSUME NEW t, IsFiniteSet(BookedCaptures(t))
    PROVE  MapThenSumSet(LAMBDA e : e.body.amount, BookedCaptures(t)) =
               SumOf(Asked(BookedCaptures(t)), BookedCaptures(t))
<1> DEFINE S == BookedCaptures(t)
           F == Asked(S)
           Adds(it) == it = [s \in SUBSET S |->
                               IF s = {} THEN 0
                               ELSE (CHOOSE x \in s : TRUE).body.amount
                                       + it[s \ {CHOOSE x \in s : TRUE}]]
<1>1. ASSUME NEW it PROVE Adds(it) <=> Sums(F, S, it)
  <2>1. ASSUME NEW s \in SUBSET S
        PROVE  Step(F, it, s) = IF s = {} THEN 0
                                ELSE (CHOOSE x \in s : TRUE).body.amount
                                       + it[s \ {CHOOSE x \in s : TRUE}]
    <3>1. CASE s = {}
      BY <3>1 DEF Step
    <3>2. CASE s # {}
      <4>1. First(s) \in S
        BY <3>2 DEF First
      <4>2. F[First(s)] = First(s).body.amount
        BY <4>1 DEF Asked
      <4> HIDE DEF S, F
      <4> QED BY <3>2, <4>2 DEF Step, First
    <3> QED BY <3>1, <3>2
  <2> HIDE DEF S, F
  <2> QED BY <2>1 DEF Sums
<1>2. PICK it : it = CHOOSE x : Adds(x)
  OBVIOUS
<1>3. MapThenSumSet(LAMBDA e : e.body.amount, S) = it[S]
  BY <1>2 DEF MapThenSumSet, MapThenFoldSet
<1>4. \E x : Adds(x)
  <2> HIDE DEF Adds, F
  <2> QED BY <1>1, SumsExist
<1>5. Sums(F, S, it)
  <2>1. Adds(it)
    <3> HIDE DEF Adds
    <3> QED BY <1>2, <1>4
  <2> HIDE DEF Adds, F, S
  <2> QED BY <1>1, <2>1
<1>6. it[S] = SumOf(F, S)
  <2>1. S \in SUBSET S
    OBVIOUS
  <2> HIDE DEF F, S, Adds
  <2> QED BY <1>5, <2>1, SumIs DEF S
<1> QED BY <1>3, <1>6

(* A tenant's entries.                                                       *)
EntriesOf(t) == {n \in DOMAIN journal : journal[n].tenant = t}

(* The capture that an entry books: published, and no other entry's.                *)
CaptureOf(n) == CHOOSE e \in Events : Logged(e) /\ Settles(e.body) /\ journal[n] = EntryOf(e)

LEMMA EntriesAndCaptures ==
    ASSUME Shape, TruthInv, OneEntryPerEvent
    PROVE  /\ \A n \in DOMAIN journal : CaptureOf(n) \in Events /\ journal[n] = EntryOf(CaptureOf(n))
           /\ \A m, n \in DOMAIN journal : CaptureOf(m) = CaptureOf(n) => m = n
           /\ \A t : IsFiniteSet(EntriesOf(t)) /\ BookedCaptures(t) = {CaptureOf(n) : n \in EntriesOf(t)}
<1>1. ASSUME NEW t PROVE IsFiniteSet(EntriesOf(t))
  <2>1. DOMAIN journal = 1..Len(journal) /\ Len(journal) \in Nat
    BY LenProperties DEF Shape, LogsOK
  <2>2. IsFiniteSet(1..Len(journal))
    BY <2>1, FS_Interval
  <2>3. EntriesOf(t) \subseteq 1..Len(journal)
    BY <2>1 DEF EntriesOf
  <2> QED BY <2>2, <2>3, FS_Subset
<1>2. ASSUME NEW n \in DOMAIN journal
      PROVE  CaptureOf(n) \in Events /\ Logged(CaptureOf(n)) /\ journal[n] = EntryOf(CaptureOf(n))
  <2>1. \E e \in Events : Logged(e) /\ Settles(e.body) /\ journal[n] = EntryOf(e)
    BY DEF TruthInv, BooksOK
  <2> QED BY <2>1 DEF CaptureOf
<1>3. \A n \in DOMAIN journal :
         journal[n].event = CaptureOf(n).event /\ journal[n].tenant = CaptureOf(n).tenant
  BY <1>2 DEF EntryOf
<1>4. \A m, n \in DOMAIN journal : CaptureOf(m) = CaptureOf(n) => m = n
  BY <1>3 DEF OneEntryPerEvent
<1>5. \A e : e \in Published <=> Logged(e)
  BY DEF Published, Logged
<1>6. \A e : Logged(e) => e \in Events
  <2>1. \A q \in Partitions : \A o \in DOMAIN eventLog[q] : eventLog[q][o] \in Events
    <3> SUFFICES ASSUME NEW q \in Partitions, NEW o \in DOMAIN eventLog[q]
                 PROVE  eventLog[q][o] \in Events
      OBVIOUS
    <3>1. eventLog[q] \in Seq(Events)
      BY DEF Shape, LogsOK
    <3> QED BY <3>1
  <2> QED BY <2>1 DEF Logged
<1>7. ASSUME NEW t, NEW e \in BookedCaptures(t) PROVE \E n \in EntriesOf(t) : e = CaptureOf(n)
  <2>1. Logged(e) /\ e \in Events /\ e.tenant = t
    BY <1>5, <1>6 DEF BookedCaptures
  <2>2. PICK n \in DOMAIN journal : journal[n].event = e.event
    BY DEF BookedCaptures, Booked
  <2>3. e = CaptureOf(n)
    BY <1>2, <1>3, <2>1, <2>2 DEF TruthInv, OneEventPerId
  <2> QED BY <1>3, <2>1, <2>3 DEF EntriesOf
<1>8. ASSUME NEW t, NEW n \in EntriesOf(t) PROVE CaptureOf(n) \in BookedCaptures(t)
  <2>1. n \in DOMAIN journal /\ CaptureOf(n).tenant = t
    BY <1>3 DEF EntriesOf
  <2>2. CaptureOf(n) \in Published
    BY <1>2, <1>5, <2>1
  <2>3. n \in Booked(CaptureOf(n).event)
    BY <1>3, <2>1 DEF Booked
  <2> QED BY <2>1, <2>2, <2>3 DEF BookedCaptures
<1>9. ASSUME NEW t PROVE BookedCaptures(t) = {CaptureOf(n) : n \in EntriesOf(t)}
  BY <1>7, <1>8
<1> QED BY <1>1, <1>2, <1>4, <1>9

(* Each entry of a tenant has one line in its cash and one in what it is owed.       *)
LEMMA LinesAre ==
    ASSUME Shape, TruthInv, OneEntryPerEvent, NEW t
    PROVE  /\ LinesOf(t, "CASH", "DEBIT") = {<<n, 1>> : n \in EntriesOf(t)}
           /\ LinesOf(t, "MERCHANT_PAYABLE", "CREDIT") = {<<n, 2>> : n \in EntriesOf(t)}
           /\ LinesOf(t, "CASH", "CREDIT") = {}
           /\ LinesOf(t, "MERCHANT_PAYABLE", "DEBIT") = {}
           /\ \A n \in DOMAIN journal, k \in {1, 2} : LineAt(<<n, k>>).amount = CaptureOf(n).body.amount
<1> DEFINE Is(nk, u, code, direction) ==
               /\ LineAt(nk).account.tenant = u
               /\ LineAt(nk).account.code = code
               /\ LineAt(nk).direction = direction
<1>1. \A nk \in (DOMAIN journal) \X {1, 2} : \E n \in DOMAIN journal : nk = <<n, 1>> \/ nk = <<n, 2>>
  OBVIOUS
<1>2. \A n \in DOMAIN journal : <<n, 1>> \in (DOMAIN journal) \X {1, 2} /\ <<n, 2>> \in (DOMAIN journal) \X {1, 2}
  OBVIOUS
<1>3. \A n \in DOMAIN journal :
         /\ Is(<<n, 1>>, journal[n].tenant, "CASH", "DEBIT")
         /\ Is(<<n, 2>>, journal[n].tenant, "MERCHANT_PAYABLE", "CREDIT")
         /\ LineAt(<<n, 1>>).amount = CaptureOf(n).body.amount
         /\ LineAt(<<n, 2>>).amount = CaptureOf(n).body.amount
  <2> SUFFICES ASSUME NEW n \in DOMAIN journal
               PROVE  /\ Is(<<n, 1>>, journal[n].tenant, "CASH", "DEBIT")
                      /\ Is(<<n, 2>>, journal[n].tenant, "MERCHANT_PAYABLE", "CREDIT")
                      /\ LineAt(<<n, 1>>).amount = CaptureOf(n).body.amount
                      /\ LineAt(<<n, 2>>).amount = CaptureOf(n).body.amount
    OBVIOUS
  <2>1. PICK e : e = CaptureOf(n) /\ journal[n] = EntryOf(e)
    BY EntriesAndCaptures
  <2>2. journal[n].lines = DoubleEntry(e) /\ journal[n].tenant = e.tenant
    BY <2>1 DEF EntryOf
  <2>3. /\ LineAt(<<n, 1>>) = Line(Account(e.tenant, "CASH"), "DEBIT", e.body.amount)
        /\ LineAt(<<n, 2>>) = Line(Account(e.tenant, "MERCHANT_PAYABLE"), "CREDIT", e.body.amount)
    BY <2>2 DEF LineAt, DoubleEntry
  <2>4. \A u, code, y, z : /\ Line(Account(u, code), y, z).account.tenant = u
                           /\ Line(Account(u, code), y, z).account.code = code
                           /\ Line(Account(u, code), y, z).direction = y
                           /\ Line(Account(u, code), y, z).amount = z
    BY DEF Line, Account
  <2>5. PICK u, v : u = e.tenant /\ v = e.body.amount
    OBVIOUS
  <2>6. PICK d, c : d = LineAt(<<n, 1>>) /\ c = LineAt(<<n, 2>>)
    OBVIOUS
  <2>7. d = Line(Account(u, "CASH"), "DEBIT", v) /\ c = Line(Account(u, "MERCHANT_PAYABLE"), "CREDIT", v)
    BY <2>3, <2>5, <2>6
  <2>8. /\ d.account.tenant = u /\ d.account.code = "CASH" /\ d.direction = "DEBIT" /\ d.amount = v
        /\ c.account.tenant = u /\ c.account.code = "MERCHANT_PAYABLE" /\ c.direction = "CREDIT" /\ c.amount = v
    BY <2>4, <2>7
  <2> QED BY <2>1, <2>2, <2>5, <2>6, <2>8
<1>4. "CASH" # "MERCHANT_PAYABLE" /\ "CREDIT" # "DEBIT"
  OBVIOUS
<1>5. \A nk, code, direction :
         nk \in LinesOf(t, code, direction) <=> nk \in (DOMAIN journal) \X {1, 2} /\ Is(nk, t, code, direction)
  BY DEF LinesOf
<1>6. \A n : n \in EntriesOf(t) <=> n \in DOMAIN journal /\ journal[n].tenant = t
  BY DEF EntriesOf
<1>7. LinesOf(t, "CASH", "DEBIT") = {<<n, 1>> : n \in EntriesOf(t)}
  <2>1. ASSUME NEW nk \in LinesOf(t, "CASH", "DEBIT") PROVE \E n \in EntriesOf(t) : nk = <<n, 1>>
    <3>1. nk \in (DOMAIN journal) \X {1, 2} /\ Is(nk, t, "CASH", "DEBIT")
      BY <1>5
    <3>2. PICK n \in DOMAIN journal : nk = <<n, 1>> \/ nk = <<n, 2>>
      BY <1>1, <3>1
    <3>3. nk = <<n, 1>> /\ journal[n].tenant = t
      BY <1>3, <1>4, <3>1, <3>2
    <3> QED BY <1>6, <3>3
  <2>2. ASSUME NEW n \in EntriesOf(t) PROVE <<n, 1>> \in LinesOf(t, "CASH", "DEBIT")
    <3>1. n \in DOMAIN journal /\ journal[n].tenant = t
      BY <1>6
    <3>2. <<n, 1>> \in (DOMAIN journal) \X {1, 2}
      BY <1>2, <3>1
    <3>3. Is(<<n, 1>>, journal[n].tenant, "CASH", "DEBIT")
      BY <1>3, <3>1
    <3> HIDE DEF Is
    <3>4. Is(<<n, 1>>, t, "CASH", "DEBIT")
      BY <3>1, <3>3
    <3> QED BY <1>5, <3>2, <3>4
  <2> QED BY <2>1, <2>2
<1>8. LinesOf(t, "MERCHANT_PAYABLE", "CREDIT") = {<<n, 2>> : n \in EntriesOf(t)}
  <2>1. ASSUME NEW nk \in LinesOf(t, "MERCHANT_PAYABLE", "CREDIT") PROVE \E n \in EntriesOf(t) : nk = <<n, 2>>
    <3>1. nk \in (DOMAIN journal) \X {1, 2} /\ Is(nk, t, "MERCHANT_PAYABLE", "CREDIT")
      BY <1>5
    <3>2. PICK n \in DOMAIN journal : nk = <<n, 1>> \/ nk = <<n, 2>>
      BY <1>1, <3>1
    <3>3. nk = <<n, 2>> /\ journal[n].tenant = t
      BY <1>3, <1>4, <3>1, <3>2
    <3> QED BY <1>6, <3>3
  <2>2. ASSUME NEW n \in EntriesOf(t) PROVE <<n, 2>> \in LinesOf(t, "MERCHANT_PAYABLE", "CREDIT")
    <3>1. n \in DOMAIN journal /\ journal[n].tenant = t
      BY <1>6
    <3>2. <<n, 2>> \in (DOMAIN journal) \X {1, 2}
      BY <1>2, <3>1
    <3>3. Is(<<n, 2>>, journal[n].tenant, "MERCHANT_PAYABLE", "CREDIT")
      BY <1>3, <3>1
    <3> HIDE DEF Is
    <3>4. Is(<<n, 2>>, t, "MERCHANT_PAYABLE", "CREDIT")
      BY <3>1, <3>3
    <3> QED BY <1>5, <3>2, <3>4
  <2> QED BY <2>1, <2>2
<1>9. \A nk : nk \notin LinesOf(t, "CASH", "CREDIT") /\ nk \notin LinesOf(t, "MERCHANT_PAYABLE", "DEBIT")
  <2> SUFFICES ASSUME NEW nk, NEW code, NEW direction, nk \in LinesOf(t, code, direction)
               PROVE  \/ code = "CASH" /\ direction = "DEBIT"
                      \/ code = "MERCHANT_PAYABLE" /\ direction = "CREDIT"
    BY <1>4
  <2>1. nk \in (DOMAIN journal) \X {1, 2} /\ Is(nk, t, code, direction)
    BY <1>5
  <2>2. PICK n \in DOMAIN journal : nk = <<n, 1>> \/ nk = <<n, 2>>
    BY <1>1, <2>1
  <2>3. CASE nk = <<n, 1>>
    BY <1>3, <2>1, <2>2, <2>3
  <2>4. CASE nk = <<n, 2>>
    BY <1>3, <2>1, <2>2, <2>4
  <2> QED BY <2>2, <2>3, <2>4
<1> QED BY <1>3, <1>7, <1>8, <1>9

(* One line of each of a tenant's entries adds up to its captures.                  *)
LEMMA SideAddsUp ==
    ASSUME Shape, TruthInv, OneEntryPerEvent, NEW t, NEW k \in {1, 2}, NEW code, NEW direction,
           LinesOf(t, code, direction) = {<<n, k>> : n \in EntriesOf(t)}
    PROVE  Total(t, code, direction) = SumOf(Asked(BookedCaptures(t)), BookedCaptures(t))
<1> DEFINE N == EntriesOf(t)
           S == LinesOf(t, code, direction)
           B == BookedCaptures(t)
           H == [n \in N |-> CaptureOf(n).body.amount]
           at == [n \in N |-> <<n, k>>]
           cap == [n \in N |-> CaptureOf(n)]
<1>1. /\ IsFiniteSet(N)
      /\ N \subseteq DOMAIN journal
      /\ \A n \in N : CaptureOf(n) \in Events
      /\ \A m, n \in N : CaptureOf(m) = CaptureOf(n) => m = n
      /\ B = {CaptureOf(n) : n \in N}
  BY EntriesAndCaptures DEF EntriesOf
<1>2. \A n \in N : H[n] \in Int
  <2>1. \A e \in Events : e.body.amount \in Nat
    BY LedgerAssumption
  <2> QED BY <1>1, <2>1
<1>3. SumOf(H, N) = SumOf(Amounts(S), S)
  <2>1. \A n \in N : at[n] = <<n, k>>
    OBVIOUS
  <2>2. \A m, n \in N : at[m] = at[n] => m = n
    BY <2>1
  <2>3. S = {at[n] : n \in N}
    BY <2>1
  <2>4. \A n \in N : H[n] = Amounts(S)[at[n]]
    <3>1. \A n \in N : at[n] \in S /\ LineAt(at[n]).amount = CaptureOf(n).body.amount
      BY <1>1, <2>1, <2>3, LinesAre
    <3> QED BY <3>1 DEF Amounts
  <2> HIDE DEF N, S, H, at
  <2>5. PICK G : G = Amounts(S)
    OBVIOUS
  <2>6. \A n \in N : H[n] = G[at[n]] /\ H[n] \in Int
    BY <1>2, <2>4, <2>5
  <2>7. IsFiniteSet(N)
    BY <1>1
  <2>8. SumOf(H, N) = SumOf(G, {at[n] : n \in N})
    BY <2>2, <2>6, <2>7, SumImage
  <2> QED BY <2>3, <2>5, <2>8
<1>4. SumOf(H, N) = SumOf(Asked(B), B)
  <2>1. \A m, n \in N : cap[m] = cap[n] => m = n
    BY <1>1
  <2>2. B = {cap[n] : n \in N}
    BY <1>1
  <2>3. \A n \in N : H[n] = Asked(B)[cap[n]]
    <3>1. \A n \in N : cap[n] \in B /\ cap[n] = CaptureOf(n)
      BY <2>2
    <3> QED BY <3>1 DEF Asked
  <2> HIDE DEF N, H, cap
  <2>4. PICK G : G = Asked(B)
    OBVIOUS
  <2>5. \A n \in N : H[n] = G[cap[n]] /\ H[n] \in Int
    BY <1>2, <2>3, <2>4
  <2>6. IsFiniteSet(N)
    BY <1>1
  <2>7. SumOf(H, N) = SumOf(G, {cap[n] : n \in N})
    BY <2>1, <2>5, <2>6, SumImage
  <2> QED BY <2>2, <2>4, <2>7
<1>5. IsFiniteSet(S)
  <2>1. [n \in N |-> <<n, k>>] \in Surjection(N, S)
    BY DEF Surjection
  <2> HIDE DEF N, S
  <2> QED BY <1>1, <2>1, FS_Surjection
<1> QED BY <1>3, <1>4, <1>5, TotalIs

LEMMA BooksMatch == Shape /\ TruthInv /\ OneEntryPerEvent => BooksMatchCaptures
<1> SUFFICES ASSUME Shape, TruthInv, OneEntryPerEvent, NEW t
             PROVE  LET expected == MapThenSumSet(LAMBDA e : e.body.amount, BookedCaptures(t))
                    IN  /\ Total(t, "CASH", "DEBIT") = expected
                        /\ Total(t, "MERCHANT_PAYABLE", "CREDIT") = expected
                        /\ Total(t, "CASH", "CREDIT") = 0
                        /\ Total(t, "MERCHANT_PAYABLE", "DEBIT") = 0
  BY DEF BooksMatchCaptures, BookedCaptures
<1> DEFINE sum == SumOf(Asked(BookedCaptures(t)), BookedCaptures(t))
<1>1. Total(t, "CASH", "DEBIT") = sum /\ Total(t, "MERCHANT_PAYABLE", "CREDIT") = sum
  BY LinesAre, SideAddsUp
<1>2. Total(t, "CASH", "CREDIT") = 0 /\ Total(t, "MERCHANT_PAYABLE", "DEBIT") = 0
  <2>1. IsFiniteSet({})
    BY FS_EmptySet
  <2>2. LinesOf(t, "CASH", "CREDIT") = {} /\ LinesOf(t, "MERCHANT_PAYABLE", "DEBIT") = {}
    BY LinesAre
  <2>3. /\ Total(t, "CASH", "CREDIT") = SumOf(Amounts({}), {})
        /\ Total(t, "MERCHANT_PAYABLE", "DEBIT") = SumOf(Amounts({}), {})
    BY <2>1, <2>2, TotalIs
  <2> QED BY <2>3, SumEmpty
<1>3. IsFiniteSet(BookedCaptures(t))
  <2> DEFINE N == EntriesOf(t)
  <2>1. IsFiniteSet(N) /\ BookedCaptures(t) = {CaptureOf(n) : n \in N}
    BY EntriesAndCaptures
  <2>2. [n \in N |-> CaptureOf(n)] \in Surjection(N, BookedCaptures(t))
    BY <2>1 DEF Surjection
  <2> HIDE DEF N
  <2> QED BY <2>1, <2>2, FS_Surjection
<1>4. MapThenSumSet(LAMBDA e : e.body.amount, BookedCaptures(t)) = sum
  BY <1>3, ExpectedIs
<1> HIDE DEF sum
<1> QED BY <1>1, <1>2, <1>4

(* The books of every tenant are its captures: however often an event was delivered,  *)
(* its cash is debited and what it is owed credited by the amounts of its own distinct *)
(* captures that are booked, and nothing stands on the other sides (views.py:39-60).  *)
THEOREM BooksAreCaptures == Spec => []BooksMatchCaptures
BY ShapeCorrect, TruthCorrect, BookedOnce, BooksMatch, PTL
=============================================================================

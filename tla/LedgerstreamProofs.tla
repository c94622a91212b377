-------------------------- MODULE LedgerstreamProofs --------------------------
(***************************************************************************)
(* What is proved of the pipeline put together.  Each part was proved alone, *)
(* with an environment that stands for the others; here every step of one     *)
(* part is shown to be a step the environments of the other three allow, so   *)
(* what is proved of a part holds in the pipeline, and then the pipeline is   *)
(* shown to implement Settlement.                                          *)
(***************************************************************************)
EXTENDS Ledgerstream, WellFoundedInduction, TLAPS

LEMMA PartAssumptions ==
    /\ Api!StoreAssumption /\ Api!ApiAssumption
    /\ Relay!StoreAssumption /\ Relay!RelayAssumption
    /\ Ledger!LedgerAssumption
    /\ Saga!StoreAssumption /\ Saga!SagaAssumption
BY PipelineAssumption DEF Api!StoreAssumption, Api!ApiAssumption, Relay!StoreAssumption,
     Relay!RelayAssumption, Relay!Event, Ledger!LedgerAssumption, Saga!StoreAssumption, Saga!SagaAssumption

(* The parts' invariants, together.                                        *)
ApiInv == Api!IInv /\ Api!RowsNameTerms
RelayInv == Relay!Shape /\ Relay!LogIsOutbox
LedgerInv == Ledger!Shape /\ Ledger!TruthInv /\ Ledger!OneEntryPerEvent
SagaInv == Saga!Shape /\ Saga!VoidedOnRejection

JointInv == ApiInv /\ RelayInv /\ LedgerInv /\ SagaInv

(* A step as each of the four parts sees it.                                *)
PartsStep ==
    /\ [Api!Next]_(Api!allVars)
    /\ [Relay!Next]_(Relay!relayStoreVars)
    /\ [Ledger!Next]_(Ledger!ledgerAllVars)
    /\ [Saga!Next]_(Saga!sagaAllVars)

----------------------------------------------------------------------------
(* The store's operators are the same seen from any part.                   *)
LEMMA WebWritesShared ==
    ASSUME NEW w
    PROVE  /\ Api!WebWrites(w) => Relay!WebWrites(w)
           /\ Api!WebWrites(w) => Saga!WebWrites(w)
BY Zenon DEF Api!WebWrites, Api!WebAuthorizes, Api!WebLocks, Api!WebCaptures, Api!WebEnds,
     Api!Insertable, Api!WithKey, Api!Owned, Api!InsertPayment, Api!Free, Api!LockRow,
     Api!SetStatus, Api!WriteOutbox, Api!CapturedRow, Api!UnlockRow, Api!UnlockAll,
     Relay!WebWrites, Relay!WebAuthorizes, Relay!WebLocks, Relay!WebCaptures, Relay!WebEnds,
     Relay!Insertable, Relay!WithKey, Relay!Owned, Relay!InsertPayment, Relay!Free, Relay!LockRow,
     Relay!SetStatus, Relay!WriteOutbox, Relay!CapturedRow, Relay!UnlockRow, Relay!UnlockAll,
     Saga!WebWrites, Saga!WebAuthorizes, Saga!WebLocks, Saga!WebCaptures, Saga!WebEnds,
     Saga!Insertable, Saga!WithKey, Saga!Owned, Saga!InsertPayment, Saga!Free, Saga!LockRow,
     Saga!SetStatus, Saga!WriteOutbox, Saga!CapturedRow, Saga!UnlockRow, Saga!UnlockAll

LEMMA CompensationShared ==
    ASSUME NEW p
    PROVE  /\ Saga!CompensatePayment(p) => Api!CompensatePayment(p)
           /\ Saga!CompensatePayment(p) => Relay!CompensatePayment(p)
BY Zenon DEF Api!CompensatePayment, Api!Compensable, Api!SetStatus, Api!Free,
     Relay!CompensatePayment, Relay!Compensable, Relay!SetStatus, Relay!Free,
     Saga!CompensatePayment, Saga!Compensable, Saga!SetStatus, Saga!Free

(* A web worker's step: relays and saga workers see the store written, the     *)
(* ledger sees nothing.                                                    *)
LEMMA ApiMoves ==
    ASSUME JointInv, ApiActs
    PROVE  PartsStep
<1>1. Api!ApiNext /\ UNCHANGED <<relayOwn, eventLog, outcomeLog, ledgerOwn, sagaOwn>>
  BY DEF ApiActs
<1>2. Api!Next
  BY <1>1 DEF Api!Next
<1>3. UNCHANGED Api!storeVars \/ \E w \in Workers : Api!WebWrites(w)
  BY <1>1, PartAssumptions, Api!WorkersWriteStore DEF JointInv, ApiInv, Api!IInv
<1>4. UNCHANGED Relay!relayVars /\ UNCHANGED Ledger!ledgerAllVars
      /\ UNCHANGED <<outcomeLog, Saga!sagaVars>>
  BY <1>1 DEF relayOwn, ledgerOwn, sagaOwn, Relay!relayVars, Ledger!ledgerAllVars,
       Ledger!ledgerVars, Ledger!groupState, Ledger!workState, Saga!sagaVars, Saga!sagaGroup,
       Saga!sagaWork
<1>5. CASE UNCHANGED Api!storeVars
  <2>1. UNCHANGED Relay!relayStoreVars /\ UNCHANGED Saga!sagaAllVars
    BY <1>4, <1>5 DEF Api!storeVars, Relay!storeVars, Saga!storeVars, Relay!relayStoreVars,
         Saga!sagaAllVars
  <2> QED BY <1>2, <1>4, <2>1 DEF PartsStep
<1>6. ASSUME NEW w \in Workers, Api!WebWrites(w) PROVE PartsStep
  <2>1. Relay!WebActs(w) /\ Saga!WebActs(w)
    BY <1>4, <1>6, WebWritesShared DEF Relay!WebActs, Saga!WebActs
  <2>2. Relay!Next /\ Saga!Next
    BY <2>1 DEF Relay!Next, Saga!Next, Saga!Environment
  <2> QED BY <1>2, <1>4, <2>2 DEF PartsStep
<1> QED BY <1>3, <1>5, <1>6

LEMMA RelayStores ==
    ASSUME JointInv, RelayActs
    PROVE  \/ UNCHANGED <<payments, payLock, outbox>>
           \/ \E S \in SUBSET DOMAIN outbox :
                 Api!MarkPublished(S) /\ Saga!MarkPublished(S) /\ UNCHANGED <<payments, payLock>>
<1>1. PICK r \in Relays : Relay!RelayStep(r) \/ Relay!Deliver(r) \/ Relay!RelayFault(r)
  BY DEF RelayActs, Relay!RelayNext
<1>2. ASSUME Relay!Mark(r)
      PROVE  \E S \in SUBSET DOMAIN outbox :
                 Api!MarkPublished(S) /\ Saga!MarkPublished(S) /\ UNCHANGED <<payments, payLock>>
  <2>1. PICK S : S = rdelivered[r]
    OBVIOUS
  <2>2. S \in SUBSET DOMAIN outbox
    BY <2>1 DEF JointInv, RelayInv, Relay!Shape, Relay!RelayTypeOK
  <2>3. Relay!MarkPublished(S) /\ UNCHANGED <<payments, payLock>>
    BY <1>2, <2>1 DEF Relay!Mark
  <2>4. Api!MarkPublished(S) /\ Saga!MarkPublished(S)
    BY <2>3 DEF Relay!MarkPublished, Api!MarkPublished, Saga!MarkPublished
  <2> QED BY <2>2, <2>3, <2>4
<1>3. ASSUME ~Relay!Mark(r) PROVE UNCHANGED <<payments, payLock, outbox>>
  BY <1>1, <1>3 DEF Relay!RelayStep, Relay!RelayFault, Relay!Claim, Relay!PollNothing,
       Relay!Produce, Relay!StartFlush, Relay!FlushReturns, Relay!MarkFails, Relay!Deliver,
       Relay!DeliveryFails, Relay!CycleRaises, Relay!RelayCrash, Relay!ConnectionLost,
       Relay!storeVars
<1> QED BY <1>2, <1>3

(* What a relay sends is an event the ledger's environment may publish: an     *)
(* event id is an outbox row, and a row's event never changes.              *)
LEMMA RelayPublishes ==
    ASSUME JointInv, RelayActs
    PROVE  \/ UNCHANGED eventLog
           \/ \E q \in Partitions, e \in Relay!Event : Ledger!Publish(q, e)
<1>0. Relay!Shape /\ Relay!LogIsOutbox /\ Relay!Next
  BY DEF JointInv, RelayInv, RelayActs, Relay!Next
<1>1. UNCHANGED eventLog \/ \E i \in DOMAIN outbox : Relay!AppendEvent(i)
  BY <1>0, PartAssumptions, Relay!StepLogs
<1>2. ASSUME NEW i \in DOMAIN outbox, Relay!AppendEvent(i)
      PROVE  \E q \in Partitions, e \in Relay!Event : Ledger!Publish(q, e)
  <2>1. PICK q, e : q = PartitionOf[outbox[i].payment] /\ e = Relay!EventOf(i)
    OBVIOUS
  <2>2. q \in Partitions /\ e \in Relay!Event /\ e.event = i
    BY <1>0, <2>1, PartAssumptions, Relay!EventTyped
  <2>3. eventLog' = [eventLog EXCEPT ![q] = Append(@, e)]
    BY <1>2, <2>1 DEF Relay!AppendEvent
  <2>4. ASSUME NEW p \in Partitions, NEW o \in DOMAIN eventLog[p], eventLog[p][o].event = e.event
        PROVE  eventLog[p][o] = e
    <3>1. PICK j \in DOMAIN outbox : eventLog[p][o] = Relay!EventOf(j)
      BY <1>0 DEF Relay!LogIsOutbox
    <3>2. j = i
      BY <2>2, <2>4, <3>1 DEF Relay!EventOf
    <3> QED BY <2>1, <3>1, <3>2
  <2>5. UNCHANGED Ledger!ledgerVars
    BY DEF RelayActs, ledgerOwn, Ledger!ledgerVars, Ledger!groupState, Ledger!workState
  <2>6. Ledger!Publish(q, e)
    BY <2>3, <2>4, <2>5 DEF Ledger!Publish
  <2> QED BY <2>2, <2>6
<1> QED BY <1>1, <1>2

LEMMA RelayMoves ==
    ASSUME JointInv, RelayActs
    PROVE  PartsStep
<1>0. UNCHANGED <<api, outcomeLog, ledgerOwn, sagaOwn>>
  BY DEF RelayActs
<1>1. Relay!Next
  BY DEF RelayActs, Relay!Next
<1>2. [Ledger!Next]_(Ledger!ledgerAllVars)
  <2>1. UNCHANGED Ledger!ledgerVars
    BY <1>0 DEF ledgerOwn, Ledger!ledgerVars, Ledger!groupState, Ledger!workState
  <2> QED BY <2>1, RelayPublishes DEF Ledger!Next, Ledger!ledgerAllVars
<1>3. UNCHANGED Api!apiVars /\ UNCHANGED <<outcomeLog, Saga!sagaVars>>
  BY <1>0 DEF api, sagaOwn, Api!apiVars, Saga!sagaVars, Saga!sagaGroup, Saga!sagaWork
<1>4. CASE UNCHANGED <<payments, payLock, outbox>>
  <2>1. UNCHANGED Api!allVars /\ UNCHANGED Saga!sagaAllVars
    BY <1>3, <1>4 DEF Api!allVars, Api!storeVars, Saga!sagaAllVars, Saga!storeVars
  <2> QED BY <1>1, <1>2, <2>1 DEF PartsStep
<1>5. ASSUME NEW S \in SUBSET DOMAIN outbox,
             Api!MarkPublished(S), Saga!MarkPublished(S), UNCHANGED <<payments, payLock>>
      PROVE  PartsStep
  <2>1. Api!RelayMarks /\ Saga!RelayMarks(S)
    BY <1>3, <1>5 DEF Api!RelayMarks, Saga!RelayMarks
  <2>2. Api!Next /\ Saga!Next
    BY <2>1 DEF Api!Next, Saga!Next, Saga!Environment
  <2> QED BY <1>1, <1>2, <2>2 DEF PartsStep
<1> QED BY <1>4, <1>5, RelayStores

(* What the ledger has read from the topic is a row of the outbox, and its    *)
(* payment was captured.                                                   *)
LEMMA LoggedIsCaptured ==
    ASSUME JointInv, NEW e \in Relay!Event, Ledger!Logged(e)
    PROVE  /\ e.payment \in PaymentIds
           /\ \E i \in DOMAIN outbox :
                 e = Relay!EventOf(i) /\ e.event = i /\ e.payment = outbox[i].payment
           /\ Api!RowsOf(e.payment) # {}
           /\ e.payment \in DOMAIN payments /\ payments[e.payment].status # "AUTHORIZED"
<1>1. PICK q \in Partitions : \E o \in DOMAIN eventLog[q] : eventLog[q][o] = e
  BY DEF Ledger!Logged
<1>2. PICK i \in DOMAIN outbox : e = Relay!EventOf(i)
  BY <1>1 DEF JointInv, RelayInv, Relay!LogIsOutbox
<1>3. e.payment \in PaymentIds /\ e.event = i /\ e.payment = outbox[i].payment
  BY <1>2 DEF Relay!EventOf, Relay!Event
<1>4. Api!RowsOf(e.payment) # {}
  BY <1>3 DEF Api!RowsOf
<1>5. e.payment \in DOMAIN payments /\ payments[e.payment].status # "AUTHORIZED"
  BY <1>3, <1>4 DEF JointInv, ApiInv, Api!IInv, Api!OutboxMatchesState, Api!CapturedIffRecorded
<1> QED BY <1>2, <1>3, <1>4, <1>5

(* What the ledger answers is an outcome the saga's environment may announce. *)
LEMMA LedgerAnnounces ==
    ASSUME JointInv, LedgerActs
    PROVE  \/ UNCHANGED outcomeLog
           \/ \E q \in Partitions, out \in Saga!LedgerOutcome : Saga!Announce(q, out)
<1>0. Ledger!Shape /\ Ledger!TruthInv /\ Ledger!Next
  BY DEF JointInv, LedgerInv, LedgerActs, Ledger!Next
<1>1. UNCHANGED outcomeLog \/ \E c \in Consumers : Ledger!At(c, "emit") /\ Ledger!Produced(c)
  BY <1>0, PartAssumptions, Ledger!OutcomesStep
<1>2. ASSUME NEW c \in Consumers, Ledger!At(c, "emit"), Ledger!Produced(c)
      PROVE  \E q \in Partitions, out \in Saga!LedgerOutcome : Saga!Announce(q, out)
  <2>1. lpc[c] \in Ledger!Handling /\ lpc[c] = "emit"
    BY <1>2 DEF Ledger!At, Ledger!Handling
  <2>2. PICK q, e, out : q = lmsg[c].part /\ e = Ledger!Ev(c) /\ out = Ledger!OutcomeOf(c)
    OBVIOUS
  <2>3. q \in Partitions /\ e \in Relay!Event /\ lmsg[c].offset + 1 \in DOMAIN eventLog[q]
    BY <1>0, <2>1, <2>2, PartAssumptions, Ledger!HandTyped
  <2>4. e = eventLog[q][lmsg[c].offset + 1]
    BY <2>2 DEF Ledger!Ev
  <2>5. Ledger!Logged(e)
    BY <2>3, <2>4 DEF Ledger!Logged
  <2>6. Ledger!Truthful(e, lstatus[c])
    BY <1>0, <2>1, <2>2 DEF Ledger!TruthInv, Ledger!HandOK
  <2>7. lstatus[c] \in {"POSTED", "REJECTED"}
    BY <2>6 DEF Ledger!Truthful
  <2>8. out = [event |-> e.event, payment |-> e.payment, status |-> lstatus[c]]
    BY <2>2 DEF Ledger!OutcomeOf
  <2>9. e.event \in Nat /\ e.payment \in PaymentIds
    BY <2>3 DEF Relay!Event
  <2>10. out \in Saga!LedgerOutcome /\ out.payment = e.payment
    BY <2>7, <2>8, <2>9 DEF Saga!LedgerOutcome
  <2>11. Saga!Captured(out.payment)
    BY <2>3, <2>5, <2>10, LoggedIsCaptured DEF Saga!Captured
  <2>12. outcomeLog' = [outcomeLog EXCEPT ![q] = Append(@, out)]
    BY <1>2, <2>2 DEF Ledger!Produced
  <2>13. UNCHANGED <<Saga!storeVars, Saga!sagaVars>>
    BY DEF LedgerActs, store, sagaOwn, Saga!storeVars, Saga!sagaVars, Saga!sagaGroup, Saga!sagaWork
  <2>14. Saga!Announce(q, out)
    BY <2>11, <2>12, <2>13 DEF Saga!Announce
  <2> QED BY <2>3, <2>10, <2>14
<1> QED BY <1>1, <1>2

LEMMA LedgerReadsOnly ==
    ASSUME Ledger!LedgerNext
    PROVE  UNCHANGED eventLog
<1>1. ASSUME NEW c \in Consumers, Ledger!LedgerStep(c) PROVE UNCHANGED eventLog
  BY <1>1 DEF Ledger!LedgerStep, Ledger!LedgerPoll, Ledger!Decode, Ledger!PostCheck,
       Ledger!PostInsert, Ledger!PostConflict, Ledger!Emit, Ledger!ToDlq, Ledger!CommitOffset
<1>2. ASSUME NEW c \in Consumers, Ledger!LedgerFaults(c) PROVE UNCHANGED eventLog
  BY <1>2 DEF Ledger!LedgerFaults, Ledger!DecodeFails, Ledger!PostFails, Ledger!EmitFails,
       Ledger!ToDlqUndelivered, Ledger!CommitLost, Ledger!CommitRaises, Ledger!LedgerCrash
<1> QED BY <1>1, <1>2 DEF Ledger!LedgerNext, Ledger!LedgerJoin, Ledger!LedgerRebalance

LEMMA LedgerMoves ==
    ASSUME JointInv, LedgerActs
    PROVE  PartsStep
<1>0. UNCHANGED <<store, api, relayOwn, sagaOwn>> /\ UNCHANGED eventLog /\ Ledger!Next
  BY LedgerReadsOnly DEF LedgerActs, Ledger!Next
<1>1. UNCHANGED Api!allVars
  BY <1>0 DEF store, api, Api!allVars, Api!storeVars, Api!apiVars
<1>2. UNCHANGED Relay!relayStoreVars
  BY <1>0 DEF store, relayOwn, Relay!relayStoreVars, Relay!storeVars, Relay!relayVars
<1>3. [Saga!Next]_(Saga!sagaAllVars)
  <2>1. UNCHANGED outcomeLog => UNCHANGED Saga!sagaAllVars
    BY <1>0 DEF store, sagaOwn, Saga!sagaAllVars, Saga!storeVars, Saga!sagaVars, Saga!sagaGroup,
         Saga!sagaWork
  <2> QED BY <2>1, LedgerAnnounces DEF Saga!Next, Saga!Environment
<1> QED BY <1>0, <1>1, <1>2, <1>3 DEF PartsStep

(* A saga worker's step changes the store only to void a payment whose capture *)
(* was recorded: the outcome in its hand answers an event of that payment.    *)
LEMMA SagaStores ==
    ASSUME JointInv, SagaActs
    PROVE  /\ UNCHANGED outcomeLog
           /\ \/ UNCHANGED <<payments, payLock, outbox>>
              \/ \E p \in PaymentIds : Api!RowsOf(p) # {} /\ Saga!CompensatePayment(p)
<1>0. Saga!Shape /\ Saga!SagaNext
  BY DEF JointInv, SagaInv, SagaActs
<1>1. CASE Saga!SagaJoin \/ Saga!SagaRebalance
  BY <1>1 DEF Saga!SagaJoin, Saga!SagaRebalance, Saga!storeVars
<1>2. ASSUME NEW s \in Sagas, Saga!SagaStep(s) \/ Saga!SagaFaults(s)
      PROVE  /\ UNCHANGED outcomeLog
             /\ \/ UNCHANGED <<payments, payLock, outbox>>
                \/ /\ spc[s] = "handle" /\ Saga!Outcome(s).status = "REJECTED"
                   /\ Saga!CompensatePayment(Saga!Outcome(s).payment)
  <2>1. ASSUME Saga!Handle(s) \/ Saga!HandleFails(s)
        PROVE  /\ UNCHANGED outcomeLog
               /\ \/ UNCHANGED <<payments, payLock, outbox>>
                  \/ /\ spc[s] = "handle" /\ Saga!Outcome(s).status = "REJECTED"
                     /\ Saga!CompensatePayment(Saga!Outcome(s).payment)
    BY <2>1 DEF Saga!Handle, Saga!HandleFails, Saga!CompensateIfRejected, Saga!At, Saga!storeVars
  <2>2. ASSUME ~(Saga!Handle(s) \/ Saga!HandleFails(s))
        PROVE  UNCHANGED outcomeLog /\ UNCHANGED <<payments, payLock, outbox>>
    BY <1>2, <2>2 DEF Saga!SagaStep, Saga!SagaFaults, Saga!SagaPoll, Saga!SagaDecode,
         Saga!SagaToDlq, Saga!SagaCommit, Saga!SagaDecodeFails, Saga!SagaToDlqUndelivered,
         Saga!SagaCommitLost, Saga!SagaCommitRaises, Saga!SagaCrash, Saga!storeVars
  <2> QED BY <2>1, <2>2
<1>3. ASSUME NEW s \in Sagas, spc[s] = "handle"
      PROVE  /\ Saga!Outcome(s).payment \in PaymentIds
             /\ Api!RowsOf(Saga!Outcome(s).payment) # {}
  <2>1. PICK q, o, out : /\ q = smsg[s].part /\ o = smsg[s].offset + 1
                         /\ out = Saga!Outcome(s)
    OBVIOUS
  <2>2. q \in Partitions /\ o \in DOMAIN outcomeLog[q] /\ out = outcomeLog[q][o]
    BY <1>0, <1>3, <2>1, PartAssumptions, Saga!HandTyped DEF Saga!Handling, Saga!Outcome
  <2>3. PICK e \in Relay!Event, status \in {"POSTED", "REJECTED"} :
            out = Ledger!AnswerOf(e, status) /\ Ledger!Logged(e)
    BY <2>2 DEF JointInv, LedgerInv, Ledger!TruthInv, Ledger!AnswersOK
  <2>4. out.payment = e.payment
    BY <2>3 DEF Ledger!AnswerOf
  <2> QED BY <2>1, <2>3, <2>4, LoggedIsCaptured
<1>4. ASSUME NEW s \in Sagas, Saga!SagaStep(s) \/ Saga!SagaFaults(s)
      PROVE  /\ UNCHANGED outcomeLog
             /\ \/ UNCHANGED <<payments, payLock, outbox>>
                \/ \E p \in PaymentIds : Api!RowsOf(p) # {} /\ Saga!CompensatePayment(p)
  <2>1. PICK p : p = Saga!Outcome(s).payment
    OBVIOUS
  <2> QED BY <1>2, <1>3, <1>4, <2>1
<1> QED BY <1>0, <1>1, <1>4 DEF Saga!SagaNext

LEMMA SagaMoves ==
    ASSUME JointInv, SagaActs
    PROVE  PartsStep
<1>0. UNCHANGED <<api, relayOwn, eventLog, ledgerOwn, outcomeLog>> /\ Saga!Next
  BY SagaStores DEF SagaActs, Saga!Next
<1>1. UNCHANGED Ledger!ledgerAllVars
  BY <1>0 DEF ledgerOwn, Ledger!ledgerAllVars, Ledger!ledgerVars, Ledger!groupState,
       Ledger!workState
<1>2. UNCHANGED Api!apiVars /\ UNCHANGED Relay!relayVars
  BY <1>0 DEF api, relayOwn, Api!apiVars, Relay!relayVars
<1>3. CASE UNCHANGED <<payments, payLock, outbox>>
  <2>1. UNCHANGED Api!allVars /\ UNCHANGED Relay!relayStoreVars
    BY <1>2, <1>3 DEF Api!allVars, Api!storeVars, Relay!relayStoreVars, Relay!storeVars
  <2> QED BY <1>0, <1>1, <2>1 DEF PartsStep
<1>4. ASSUME NEW p \in PaymentIds, Api!RowsOf(p) # {}, Saga!CompensatePayment(p)
      PROVE  PartsStep
  <2>1. Api!SagaVoids /\ Relay!SagaVoids(p)
    BY <1>2, <1>4, CompensationShared DEF Api!SagaVoids, Relay!SagaVoids
  <2>2. Api!Next /\ Relay!Next
    BY <2>1 DEF Api!Next, Relay!Next
  <2> QED BY <1>0, <1>1, <2>2 DEF PartsStep
<1> QED BY <1>3, <1>4, SagaStores

----------------------------------------------------------------------------
LEMMA PartsStutter ==
    ASSUME UNCHANGED vars
    PROVE  PartsStep
<1>1. UNCHANGED <<store, api, relayOwn, eventLog, outcomeLog, ledgerOwn, sagaOwn>>
  BY DEF vars
<1>2. UNCHANGED Api!allVars /\ UNCHANGED Relay!relayStoreVars
  BY <1>1 DEF store, api, relayOwn, Api!allVars, Api!storeVars, Api!apiVars,
       Relay!relayStoreVars, Relay!storeVars, Relay!relayVars
<1>3. UNCHANGED Ledger!ledgerAllVars /\ UNCHANGED Saga!sagaAllVars
  BY <1>1 DEF store, ledgerOwn, sagaOwn, Ledger!ledgerAllVars, Ledger!ledgerVars,
       Ledger!groupState, Ledger!workState, Saga!sagaAllVars, Saga!storeVars, Saga!sagaVars,
       Saga!sagaGroup, Saga!sagaWork
<1> QED BY <1>2, <1>3 DEF PartsStep

LEMMA PartsMove ==
    ASSUME JointInv, [Next]_vars
    PROVE  PartsStep
BY ApiMoves, RelayMoves, LedgerMoves, SagaMoves, PartsStutter DEF Next

LEMMA JointInit ==
    ASSUME Init
    PROVE  JointInv
<1>1. Api!Init /\ Relay!Init /\ Ledger!Init /\ Saga!Init
  BY DEF Init, Api!Init, Relay!Init, Ledger!Init, Saga!Init, Api!StoreInit, Relay!StoreInit,
       Saga!StoreInit, Relay!RelayInit, Ledger!LedgerInit
<1>2. ApiInv
  <2>1. Api!TypeOK
    BY <1>1, PartAssumptions, Api!TypeInit
  <2>2. Api!LockInv /\ Api!OutboxMatchesState /\ Api!RowsNameTerms
    BY <1>1 DEF Api!Init, Api!StoreInit, Api!ApiInit, Api!LockInv, Api!OutboxMatchesState,
         Api!CapturedIffRecorded, Api!RecordedOnce, Api!RowsOf, Api!RowsNameTerms
  <2> QED BY <2>1, <2>2 DEF ApiInv, Api!IInv
<1>3. RelayInv
  BY <1>1, PartAssumptions, Relay!ShapeInit, Relay!LoggedInit DEF RelayInv
<1>4. LedgerInv
  <2>1. Ledger!Shape /\ Ledger!TruthInv
    BY <1>1, PartAssumptions, Ledger!ShapeInit, Ledger!TruthInit
  <2>2. Ledger!OneEntryPerEvent
    BY <1>1 DEF Ledger!Init, Ledger!LedgerInit, Ledger!OneEntryPerEvent
  <2> QED BY <2>1, <2>2 DEF LedgerInv
<1>5. SagaInv
  <2>1. Saga!Shape
    BY <1>1, PartAssumptions, Saga!ShapeInit
  <2>2. Saga!VoidedOnRejection
    BY <1>1 DEF Saga!Init, Saga!StoreInit, Saga!VoidedOnRejection, Saga!Voided
  <2> QED BY <2>1, <2>2 DEF SagaInv
<1> QED BY <1>2, <1>3, <1>4, <1>5 DEF JointInv

LEMMA JointStep ==
    ASSUME JointInv, [Next]_vars
    PROVE  JointInv'
<1>1. PartsStep
  BY PartsMove
<1>2. ApiInv'
  <2>1. [Api!Next]_(Api!allVars) /\ Api!TypeOK /\ Api!LockInv /\ Api!OutboxMatchesState
        /\ Api!RowsNameTerms
    BY <1>1 DEF PartsStep, JointInv, ApiInv, Api!IInv
  <2>2. Api!TypeOK' /\ Api!LockInv'
    BY <2>1, PartAssumptions, Api!TypeStep, Api!LockStep
  <2>3. Api!OutboxMatchesState' /\ Api!RowsNameTerms'
    BY <2>1, PartAssumptions, Api!OutboxStep, Api!TermsStep
  <2> QED BY <2>2, <2>3 DEF ApiInv, Api!IInv
<1>3. RelayInv'
  <2>1. [Relay!Next]_(Relay!relayStoreVars) /\ Relay!Shape /\ Relay!LogIsOutbox
    BY <1>1 DEF PartsStep, JointInv, RelayInv
  <2> QED BY <2>1, PartAssumptions, Relay!ShapeStep, Relay!LogIsOutboxStep DEF RelayInv
<1>4. LedgerInv'
  <2>1. [Ledger!Next]_(Ledger!ledgerAllVars)
        /\ Ledger!Shape /\ Ledger!TruthInv /\ Ledger!OneEntryPerEvent
    BY <1>1 DEF PartsStep, JointInv, LedgerInv
  <2> QED BY <2>1, PartAssumptions, Ledger!ShapeStep, Ledger!TruthStep, Ledger!OneEntryStep
       DEF LedgerInv
<1>5. SagaInv'
  <2>1. [Saga!Next]_(Saga!sagaAllVars) /\ Saga!Shape /\ Saga!VoidedOnRejection
    BY <1>1 DEF PartsStep, JointInv, SagaInv
  <2> QED BY <2>1, PartAssumptions, Saga!ShapeStep, Saga!VoidedStep DEF SagaInv
<1> QED BY <1>2, <1>3, <1>4, <1>5 DEF JointInv

THEOREM PipelineInvariant == Spec => []JointInv
BY JointInit, JointStep, PTL DEF Spec

(* Every part keeps, in the pipeline, the specification it was proved under:  *)
(* the environment each of them assumes is what the other three do.         *)
THEOREM PartsAsSpecified == Spec => Api!Spec /\ Relay!Spec /\ Ledger!Spec /\ Saga!Spec
<1>1. Init => Api!Init /\ Relay!Init /\ Ledger!Init /\ Saga!Init
  BY DEF Init, Api!Init, Relay!Init, Ledger!Init, Saga!Init, Api!StoreInit, Relay!StoreInit,
       Saga!StoreInit, Relay!RelayInit, Ledger!LedgerInit
<1>2. JointInv /\ [Next]_vars =>
          /\ [Api!Next]_(Api!allVars)
          /\ [Relay!Next]_(Relay!relayStoreVars)
          /\ [Ledger!Next]_(Ledger!ledgerAllVars)
          /\ [Saga!Next]_(Saga!sagaAllVars)
  BY PartsMove DEF PartsStep
<1> QED BY <1>1, <1>2, PipelineInvariant, PTL DEF Spec, Api!Spec, Relay!Spec, Ledger!Spec, Saga!Spec

----------------------------------------------------------------------------
(* The sum over the books.  CreditSum is defined by recursion on Nat; that     *)
(* such a function exists, and what it is for one entry more, is shown by      *)
(* the least counterexample.                                               *)
Less == {ss \in Nat \X Nat : ss[1] < ss[2]}

LEMMA Least ==
    ASSUME NEW T \in SUBSET Nat, T # {}
    PROVE  \E n \in T : \A m \in Nat : m < n => m \notin T
<1>1. IsWellFoundedOn(Less, Nat)
  BY NatLessThanWellFounded DEF OpToRel, Less
<1>2. PICK n \in T : \A m \in T : <<m, n>> \notin Less
  BY <1>1, WFMin, Zenon
<1> QED BY <1>2 DEF Less

Added(t, entries, n, x) ==
    IF n = 0 THEN 0
    ELSE IF entries[n].tenant = t THEN x + entries[n].lines[2].amount ELSE x

SumUpTo(t, entries, m, s) == s = [n \in 0..m |-> Added(t, entries, n, s[n - 1])]

LEMMA SumsExist ==
    ASSUME NEW t, NEW entries, NEW m \in Nat
    PROVE  \E s : SumUpTo(t, entries, m, s)
<1> DEFINE T == {k \in Nat : ~ \E s : SumUpTo(t, entries, k, s)}
<1>1. ASSUME T # {} PROVE FALSE
  <2>1. PICK k \in T : \A j \in Nat : j < k => j \notin T
    BY <1>1, Least
  <2>2. CASE k = 0
    <3> DEFINE s == [n \in 0..k |-> 0]
    <3>1. \A n \in 0..k : n = 0 /\ Added(t, entries, n, s[n - 1]) = 0
      BY <2>2 DEF Added
    <3>2. s = [n \in 0..k |-> Added(t, entries, n, s[n - 1])]
      BY <3>1
    <3>3. SumUpTo(t, entries, k, s)
      BY <3>2 DEF SumUpTo
    <3> QED BY <3>3
  <2>3. CASE k # 0
    <3>1. k - 1 \in Nat /\ k - 1 < k
      BY <2>3
    <3>2. PICK s : SumUpTo(t, entries, k - 1, s)
      BY <2>1, <3>1
    <3> DEFINE u == [n \in 0..k |-> IF n = k THEN Added(t, entries, n, s[n - 1]) ELSE s[n]]
    <3>3. \A n \in 0..k : u[n] = Added(t, entries, n, u[n - 1])
      <4> SUFFICES ASSUME NEW n \in 0..k PROVE u[n] = Added(t, entries, n, u[n - 1])
        OBVIOUS
      <4>1. CASE n = 0
        <5>1. u[n] = s[0] /\ 0 \in 0..(k - 1)
          BY <2>3, <3>1, <4>1
        <5> QED BY <3>2, <4>1, <5>1 DEF SumUpTo, Added
      <4>2. CASE n # 0 /\ n # k
        <5>1. n \in 0..(k - 1) /\ n - 1 \in 0..k /\ n - 1 # k
          BY <4>2
        <5>2. u[n] = s[n] /\ u[n - 1] = s[n - 1]
          BY <4>2, <5>1
        <5> QED BY <3>2, <5>1, <5>2 DEF SumUpTo
      <4>3. CASE n # 0 /\ n = k
        <5>1. n - 1 \in 0..k /\ n - 1 # k
          BY <4>3
        <5>2. u[n - 1] = s[n - 1]
          BY <5>1
        <5> QED BY <4>3, <5>2
      <4> QED BY <4>1, <4>2, <4>3
    <3>4. u = [n \in 0..k |-> Added(t, entries, n, u[n - 1])]
      BY <3>3
    <3>5. SumUpTo(t, entries, k, u)
      BY <3>4 DEF SumUpTo
    <3> QED BY <3>5
  <2> QED BY <2>2, <2>3
<1> QED BY <1>1

LEMMA SumsAgree ==
    ASSUME NEW t, NEW A, NEW B, NEW k \in Nat, NEW m \in Nat, NEW r, NEW s,
           \A n \in 1..k : n \in 1..m => A[n] = B[n],
           SumUpTo(t, A, k, r), SumUpTo(t, B, m, s)
    PROVE  \A n \in 0..k : n \in 0..m => r[n] = s[n]
<1> DEFINE T == {n \in 0..k : n \in 0..m /\ r[n] # s[n]}
<1>1. ASSUME T # {} PROVE FALSE
  <2>0. T \in SUBSET Nat
    OBVIOUS
  <2>1. PICK n \in T : \A j \in Nat : j < n => j \notin T
    BY <1>1, <2>0, Least
  <2>2. r[n] = Added(t, A, n, r[n - 1]) /\ s[n] = Added(t, B, n, s[n - 1])
    BY DEF SumUpTo
  <2>3. CASE n = 0
    BY <2>2, <2>3 DEF Added
  <2>4. CASE n # 0
    <3>1. n - 1 \in Nat /\ n - 1 \in 0..k /\ n - 1 \in 0..m /\ n - 1 < n /\ n \in 1..k /\ n \in 1..m
      BY <2>4
    <3>2. r[n - 1] = s[n - 1]
      BY <2>1, <3>1
    <3> QED BY <2>2, <3>1, <3>2 DEF Added
  <2> QED BY <2>3, <2>4
<1> QED BY <1>1

SumOf(t, entries) ==
    CHOOSE s : s = [n \in Nat |-> Added(t, entries, n, s[n - 1])]

LEMMA SumDefined ==
    ASSUME NEW t, NEW entries
    PROVE  SumOf(t, entries) = [n \in Nat |-> Added(t, entries, n, SumOf(t, entries)[n - 1])]
<1> DEFINE G(m) == CHOOSE s : SumUpTo(t, entries, m, s)
           g == [n \in Nat |-> G(n)[n]]
<1>1. \A m \in Nat : SumUpTo(t, entries, m, G(m))
  BY SumsExist
<1>2. \A n \in Nat : g[n] = Added(t, entries, n, g[n - 1])
  <2> SUFFICES ASSUME NEW n \in Nat PROVE g[n] = Added(t, entries, n, g[n - 1])
    OBVIOUS
  <2>1. PICK a, b : a = G(n) /\ b = G(n - 1)
    OBVIOUS
  <2>2. SumUpTo(t, entries, n, a) /\ g[n] = a[n]
    BY <1>1, <2>1
  <2>3. a[n] = Added(t, entries, n, a[n - 1])
    BY <2>2 DEF SumUpTo
  <2>4. CASE n = 0
    BY <2>2, <2>3, <2>4 DEF Added
  <2>5. CASE n # 0
    <3>1. n - 1 \in Nat /\ n - 1 \in 0..n /\ n - 1 \in 0..(n - 1)
      BY <2>5
    <3>2. SumUpTo(t, entries, n - 1, b) /\ g[n - 1] = b[n - 1]
      BY <1>1, <2>1, <3>1
    <3>3. a[n - 1] = b[n - 1]
      BY <2>2, <3>1, <3>2, SumsAgree
    <3> QED BY <2>2, <2>3, <3>2, <3>3
  <2> QED BY <2>4, <2>5
<1>3. PICK s : s = g
  OBVIOUS
<1>4. s = [n \in Nat |-> s[n]] /\ \A n \in Nat : s[n] = Added(t, entries, n, s[n - 1])
  BY <1>2, <1>3
<1>5. s = [n \in Nat |-> Added(t, entries, n, s[n - 1])]
  <2> HIDE DEF g
  <2> QED BY <1>4
<1> QED BY <1>5 DEF SumOf

LEMMA CreditIsSum ==
    ASSUME NEW t, NEW entries
    PROVE  CreditSum(t, entries) = SumOf(t, entries)[Len(entries)]
BY DEF CreditSum, SumOf, Added

LEMMA CreditAppended ==
    ASSUME NEW t, NEW A, NEW B, Len(A) \in Nat, Len(B) = Len(A) + 1,
           \A n \in 1..Len(A) : B[n] = A[n]
    PROVE  CreditSum(t, B) =
               IF B[Len(B)].tenant = t
               THEN CreditSum(t, A) + B[Len(B)].lines[2].amount ELSE CreditSum(t, A)
<1>1. PICK k, r, s : k = Len(A) /\ r = SumOf(t, A) /\ s = SumOf(t, B)
  OBVIOUS
<1>2. /\ r = [n \in Nat |-> Added(t, A, n, r[n - 1])]
      /\ s = [n \in Nat |-> Added(t, B, n, s[n - 1])]
  BY <1>1, SumDefined
<1>3. CreditSum(t, A) = r[k] /\ CreditSum(t, B) = s[k + 1]
  BY <1>1, CreditIsSum
<1> DEFINE T == {n \in Nat : n <= k /\ r[n] # s[n]}
<1>4. ASSUME T # {} PROVE FALSE
  <2>1. PICK n \in T : \A j \in Nat : j < n => j \notin T
    BY <1>4, Least
  <2>2. r[n] = Added(t, A, n, r[n - 1]) /\ s[n] = Added(t, B, n, s[n - 1])
    BY <1>2
  <2>3. CASE n = 0
    BY <2>2, <2>3 DEF Added
  <2>4. CASE n # 0
    <3>1. n - 1 \in Nat /\ n - 1 <= k /\ n - 1 < n /\ n \in 1..k
      BY <1>1, <2>4
    <3>2. r[n - 1] = s[n - 1]
      BY <2>1, <3>1
    <3> QED BY <1>1, <2>2, <3>1, <3>2 DEF Added
  <2> QED BY <2>3, <2>4
<1>5. r[k] = s[k] /\ k \in Nat
  BY <1>1, <1>4
<1>6. s[k + 1] = Added(t, B, k + 1, s[k])
  <2>1. k + 1 \in Nat /\ (k + 1) - 1 = k
    BY <1>5
  <2> QED BY <1>2, <2>1
<1> QED BY <1>1, <1>3, <1>5, <1>6 DEF Added

LEMMA CreditNone ==
    ASSUME NEW t, NEW A, Len(A) = 0
    PROVE  CreditSum(t, A) = 0
BY SumDefined, CreditIsSum DEF Added

----------------------------------------------------------------------------
(* A rejected payment's answer, and a posted one's entry, go back to the same  *)
(* event: the payment has one outbox row.                                  *)
LEMMA RejectedEvent ==
    ASSUME JointInv, NEW p, Saga!Rejected(p)
    PROVE  \E e \in Relay!Event : Ledger!Logged(e) /\ e.payment = p /\ ~Ledger!Settles(e.body)
<1>1. PICK q \in Partitions : \E n \in DOMAIN outcomeLog[q] :
          outcomeLog[q][n].payment = p /\ outcomeLog[q][n].status = "REJECTED"
  BY DEF Saga!Rejected
<1>2. PICK n \in DOMAIN outcomeLog[q] :
          outcomeLog[q][n].payment = p /\ outcomeLog[q][n].status = "REJECTED"
  BY <1>1
<1>3. PICK e \in Relay!Event, status \in {"POSTED", "REJECTED"} :
          /\ outcomeLog[q][n] = Ledger!AnswerOf(e, status)
          /\ Ledger!Logged(e) /\ Ledger!Truthful(e, status)
  BY DEF JointInv, LedgerInv, Ledger!TruthInv, Ledger!AnswersOK
<1>4. e.payment = p /\ status = "REJECTED"
  BY <1>2, <1>3 DEF Ledger!AnswerOf
<1> QED BY <1>3, <1>4 DEF Ledger!Truthful

LEMMA EntryEvent ==
    ASSUME JointInv, NEW n \in DOMAIN journal
    PROVE  \E e \in Relay!Event :
               Ledger!Logged(e) /\ Ledger!Settles(e.body) /\ journal[n].event = e.event
<1>1. PICK e \in Relay!Event :
          Ledger!Logged(e) /\ Ledger!Settles(e.body) /\ journal[n] = Ledger!EntryOf(e)
  BY DEF JointInv, LedgerInv, Ledger!TruthInv, Ledger!BooksOK
<1> QED BY <1>1 DEF Ledger!EntryOf

LEMMA OneEventEach ==
    ASSUME JointInv, NEW e \in Relay!Event, NEW f \in Relay!Event,
           Ledger!Logged(e), Ledger!Logged(f),
           e.payment = f.payment \/ f.event \in EventsOf(e.payment)
    PROVE  e = f
<1>1. PICK i \in DOMAIN outbox :
          e = Relay!EventOf(i) /\ e.event = i /\ e.payment = outbox[i].payment
  BY LoggedIsCaptured
<1>2. PICK j \in DOMAIN outbox :
          f = Relay!EventOf(j) /\ f.event = j /\ f.payment = outbox[j].payment
  BY LoggedIsCaptured
<1>3. outbox[i].payment = outbox[j].payment
  BY <1>1, <1>2 DEF EventsOf
<1>4. i = j
  BY <1>3 DEF JointInv, ApiInv, Api!IInv, Api!OutboxMatchesState, Api!RecordedOnce
<1> QED BY <1>1, <1>2, <1>4

(* A payment is never both booked and rejected.                             *)
LEMMA NeverBoth ==
    ASSUME JointInv, NEW p
    PROVE  ~(Posted(p) /\ Saga!Rejected(p))
<1> SUFFICES ASSUME Posted(p), Saga!Rejected(p) PROVE FALSE
  OBVIOUS
<1>1. PICK e \in Relay!Event : Ledger!Logged(e) /\ e.payment = p /\ ~Ledger!Settles(e.body)
  BY RejectedEvent
<1>2. PICK n \in DOMAIN journal : journal[n].event \in EventsOf(p)
  BY DEF Posted
<1>3. PICK f \in Relay!Event :
          Ledger!Logged(f) /\ Ledger!Settles(f.body) /\ journal[n].event = f.event
  BY EntryEvent
<1>4. e = f
  BY <1>1, <1>2, <1>3, OneEventEach
<1> QED BY <1>1, <1>3, <1>4

----------------------------------------------------------------------------
(* Payment p goes from one stage to another, and no other payment moves.       *)
Goes(p, from, to) ==
    /\ Stage(p) = from /\ Stage(p)' = to
    /\ \A r \in PaymentIds \ {p} : Stage(r)' = Stage(r)

SameTerms == \A r \in PaymentIds : Terms(r)' = Terms(r)
SameBooks == \A t \in KnownTenants : Payable(t)' = Payable(t)

LEMMA GoesIsAdvance ==
    ASSUME NEW p \in PaymentIds, NEW from, NEW to, Goes(p, from, to)
    PROVE  Settle!Advance(p, from, to)
<1>1. [r \in PaymentIds |-> Stage(r)][p] = from
  BY DEF Goes
<1>2. [r \in PaymentIds |-> Stage(r)]' = [[r \in PaymentIds |-> Stage(r)] EXCEPT ![p] = to]
  BY DEF Goes
<1> QED BY <1>1, <1>2 DEF Settle!Advance

LEMMA SameIsUnchanged ==
    /\ SameTerms => UNCHANGED [r \in PaymentIds |-> Terms(r)]
    /\ SameBooks => UNCHANGED [t \in KnownTenants |-> Payable(t)]
BY DEF SameTerms, SameBooks

LEMMA NothingMoves ==
    ASSUME SameTerms, SameBooks, \A r \in PaymentIds : Stage(r)' = Stage(r)
    PROVE  UNCHANGED Settle!settlementVars
<1>1. UNCHANGED [r \in PaymentIds |-> Stage(r)]
  OBVIOUS
<1> QED BY <1>1, SameIsUnchanged DEF Settle!settlementVars

LEMMA BooksUntouched ==
    ASSUME UNCHANGED journal
    PROVE  SameBooks
BY DEF SameBooks, Payable

----------------------------------------------------------------------------
(* Steps that leave the books and the ledger's answers alone: those of web      *)
(* workers, relays and saga workers.                                       *)
StoreStep == JointInv /\ JointInv' /\ PartsStep /\ UNCHANGED <<journal, outcomeLog>>

LEMMA RejectedStays ==
    ASSUME UNCHANGED outcomeLog, NEW p
    PROVE  Saga!Rejected(p)' <=> Saga!Rejected(p)
BY DEF Saga!Rejected

LEMMA AuthorizeRefines ==
    ASSUME StoreStep, NEW p \in PaymentIds, Api!Authorizes(p)
    PROVE  Settle!Next
<1>1. PICK t \in Tenants, k \in Keys \cup {NoKey}, b \in Bodies :
          Api!Insertable(t, k) /\ Api!InsertPayment(p, t, k, b)
  BY DEF Api!Authorizes
<1>2. p \notin DOMAIN payments /\ outbox' = outbox /\ t \in KnownTenants
  BY <1>1 DEF Api!Authorizes, Api!Insertable
<1>3. /\ DOMAIN payments' = DOMAIN payments \cup {p}
      /\ payments'[p] = [tenant |-> t, key |-> k, body |-> b, status |-> "AUTHORIZED"]
      /\ \A r \in DOMAIN payments \ {p} : payments'[r] = payments[r]
  BY <1>1 DEF Api!InsertPayment
<1>4. \A r \in PaymentIds : Posted(r)' <=> Posted(r)
  BY <1>2 DEF StoreStep, Posted, EventsOf
<1>5. \A r \in PaymentIds : Saga!Rejected(r)' <=> Saga!Rejected(r)
  BY RejectedStays DEF StoreStep
<1>6. Goes(p, "absent", "authorized")
  BY <1>2, <1>3, <1>4, <1>5 DEF Goes, Stage
<1>7. Terms(p)' = [tenant |-> t, body |-> b]
  BY <1>3 DEF Terms
<1>8. \A r \in PaymentIds \ {p} : Terms(r)' = Terms(r)
  BY <1>3 DEF Terms
<1>9. [r \in PaymentIds |-> Terms(r)]'
        = [[r \in PaymentIds |-> Terms(r)] EXCEPT ![p] = [tenant |-> t, body |-> b]]
  BY <1>7, <1>8
<1>10. UNCHANGED [m \in KnownTenants |-> Payable(m)]
  BY BooksUntouched, SameIsUnchanged DEF StoreStep
<1>11. Settle!Advance(p, "absent", "authorized")
  BY <1>6, GoesIsAdvance
<1>12. Settle!Authorize(p)
  BY <1>2, <1>9, <1>10, <1>11 DEF Settle!Authorize
<1> QED BY <1>12 DEF Settle!Next

LEMMA CaptureRefines ==
    ASSUME StoreStep, NEW w \in Workers, NEW p \in PaymentIds, Api!Captures(w, p)
    PROVE  Settle!Next
<1>0. JointInv /\ Api!StoreTypeOK
  BY DEF StoreStep, JointInv, ApiInv, Api!IInv, Api!TypeOK
<1>1. /\ p \in DOMAIN payments /\ payments[p].status = "AUTHORIZED"
      /\ Api!SetStatus(p, "CAPTURED") /\ Api!WriteOutbox(p)
  BY DEF Api!Captures, Api!Owned
<1>2. /\ DOMAIN payments' = DOMAIN payments
      /\ payments'[p].status = "CAPTURED"
      /\ payments'[p].tenant = payments[p].tenant
      /\ payments'[p].body = payments[p].body
      /\ \A r \in DOMAIN payments \ {p} : payments'[r] = payments[r]
  BY <1>0, <1>1, PartAssumptions, Api!SetStatusTyped DEF Api!Statuses
<1>3. /\ DOMAIN outbox = 1..Len(outbox) /\ Len(outbox) \in Nat
      /\ DOMAIN outbox' = 1..(Len(outbox) + 1)
      /\ outbox'[Len(outbox) + 1].payment = p
      /\ \A i \in 1..Len(outbox) : outbox'[i] = outbox[i]
  BY <1>0, <1>1, PartAssumptions, Api!WriteOutboxTyped
<1>4. \A n \in DOMAIN journal : journal[n].event \in DOMAIN outbox
  BY <1>0, EntryEvent, LoggedIsCaptured
<1>5. \A r \in PaymentIds, i \in DOMAIN outbox : i \in EventsOf(r)' <=> i \in EventsOf(r)
  BY <1>3 DEF EventsOf
<1>6. \A r \in PaymentIds : Posted(r)' <=> Posted(r)
  BY <1>4, <1>5 DEF StoreStep, Posted
<1>7. \A r \in PaymentIds : Saga!Rejected(r)' <=> Saga!Rejected(r)
  BY RejectedStays DEF StoreStep
<1>8. ~Posted(p) /\ ~Saga!Rejected(p)
  <2>1. EventsOf(p) = {}
    BY <1>0, <1>1 DEF JointInv, ApiInv, Api!IInv, Api!OutboxMatchesState, Api!CapturedIffRecorded,
         Api!RowsOf, EventsOf
  <2>2. ASSUME Saga!Rejected(p) PROVE FALSE
    <3>1. PICK e \in Relay!Event : Ledger!Logged(e) /\ e.payment = p
      BY <1>0, <2>2, RejectedEvent
    <3> QED BY <1>0, <1>1, <3>1, LoggedIsCaptured
  <2> QED BY <2>1, <2>2 DEF Posted
<1>9. Goes(p, "authorized", "captured")
  BY <1>1, <1>2, <1>6, <1>7, <1>8 DEF Goes, Stage
<1>10. SameTerms
  BY <1>1, <1>2 DEF SameTerms, Terms
<1>11. Settle!Advance(p, "authorized", "captured")
  BY <1>9, GoesIsAdvance
<1>12. Settle!Capture(p)
  BY <1>10, <1>11, BooksUntouched, SameIsUnchanged DEF StoreStep, Settle!Capture
<1> QED BY <1>12 DEF Settle!Next

LEMMA VoidRefines ==
    ASSUME StoreStep, NEW p \in PaymentIds, Api!Voids(p)
    PROVE  Settle!Next
<1>0. JointInv /\ JointInv' /\ Api!StoreTypeOK
  BY DEF StoreStep, JointInv, ApiInv, Api!IInv, Api!TypeOK
<1>1. /\ p \in DOMAIN payments /\ payments[p].status # "VOIDED"
      /\ Api!RowsOf(p) # {} /\ Api!SetStatus(p, "VOIDED") /\ outbox' = outbox
  BY DEF Api!Voids
<1>2. /\ DOMAIN payments' = DOMAIN payments
      /\ payments'[p].status = "VOIDED"
      /\ payments'[p].tenant = payments[p].tenant
      /\ payments'[p].body = payments[p].body
      /\ \A r \in DOMAIN payments \ {p} : payments'[r] = payments[r]
  BY <1>0, <1>1, PartAssumptions, Api!SetStatusTyped DEF Api!Statuses
<1>3. payments[p].status # "AUTHORIZED"
  BY <1>0, <1>1 DEF JointInv, ApiInv, Api!IInv, Api!OutboxMatchesState, Api!CapturedIffRecorded
<1>4. \A r \in PaymentIds : Posted(r)' <=> Posted(r)
  BY <1>1 DEF StoreStep, Posted, EventsOf
<1>5. \A r \in PaymentIds : Saga!Rejected(r)' <=> Saga!Rejected(r)
  BY RejectedStays DEF StoreStep
<1>6. Saga!Rejected(p)
  BY <1>0, <1>1, <1>2, <1>5 DEF JointInv, SagaInv, Saga!VoidedOnRejection, Saga!Voided
<1>7. ~Posted(p)
  BY <1>0, <1>6, NeverBoth
<1>8. Goes(p, "rejected", "voided")
  BY <1>1, <1>2, <1>3, <1>4, <1>5, <1>6, <1>7 DEF Goes, Stage
<1>9. SameTerms
  BY <1>1, <1>2 DEF SameTerms, Terms
<1>10. Settle!Advance(p, "rejected", "voided")
  BY <1>8, GoesIsAdvance
<1>11. Settle!Void(p)
  BY <1>9, <1>10, BooksUntouched, SameIsUnchanged DEF StoreStep, Settle!Void
<1> QED BY <1>11 DEF Settle!Next

LEMMA StoreRefines ==
    ASSUME StoreStep
    PROVE  Settle!Next \/ UNCHANGED Settle!settlementVars
<1>1. \/ Api!Untouched
      \/ \E p \in PaymentIds : Api!Authorizes(p)
      \/ \E w \in Workers, p \in PaymentIds : Api!Captures(w, p)
      \/ \E p \in PaymentIds : Api!Voids(p)
  BY PartAssumptions, Api!StoreSteps DEF StoreStep, PartsStep, JointInv, ApiInv, Api!IInv
<1>2. ASSUME Api!Untouched PROVE UNCHANGED Settle!settlementVars
  <2>1. \A r \in PaymentIds : EventsOf(r)' = EventsOf(r)
    BY <1>2 DEF Api!Untouched, EventsOf
  <2>2. \A r \in PaymentIds : Posted(r)' <=> Posted(r)
    BY <2>1 DEF StoreStep, Posted
  <2>3. \A r \in PaymentIds : Saga!Rejected(r)' <=> Saga!Rejected(r)
    BY RejectedStays DEF StoreStep
  <2>4. \A r \in PaymentIds : Stage(r)' = Stage(r)
    BY <1>2, <2>2, <2>3 DEF Api!Untouched, Stage
  <2>5. SameTerms
    BY <1>2 DEF Api!Untouched, SameTerms, Terms
  <2> QED BY <2>4, <2>5, BooksUntouched, NothingMoves DEF StoreStep
<1> QED BY <1>1, <1>2, AuthorizeRefines, CaptureRefines, VoidRefines

----------------------------------------------------------------------------
(* The ledger's steps: it books an entry, or answers, or does neither.         *)
LEMMA LedgerKinds ==
    ASSUME Ledger!LedgerNext
    PROVE  \/ UNCHANGED <<journal, outcomeLog>>
           \/ /\ UNCHANGED outcomeLog
              /\ \E c \in Consumers : /\ Ledger!At(c, "insert")
                                      /\ Ledger!EventIdFree(Ledger!Ev(c))
                                      /\ Ledger!WriteEntry(Ledger!Ev(c))
           \/ /\ UNCHANGED journal
              /\ \E c \in Consumers : Ledger!At(c, "emit") /\ Ledger!Produced(c)
<1>1. CASE Ledger!LedgerJoin \/ Ledger!LedgerRebalance
  BY <1>1 DEF Ledger!LedgerJoin, Ledger!LedgerRebalance
<1>2. ASSUME NEW c \in Consumers, Ledger!PostInsert(c) \/ Ledger!PostFails(c)
      PROVE  /\ UNCHANGED outcomeLog
             /\ \/ UNCHANGED journal
                \/ /\ Ledger!At(c, "insert") /\ Ledger!EventIdFree(Ledger!Ev(c))
                   /\ Ledger!WriteEntry(Ledger!Ev(c))
  BY <1>2 DEF Ledger!PostInsert, Ledger!PostFails
<1>3. ASSUME NEW c \in Consumers, Ledger!Emit(c) \/ Ledger!EmitFails(c)
      PROVE  /\ UNCHANGED journal
             /\ UNCHANGED outcomeLog \/ (Ledger!At(c, "emit") /\ Ledger!Produced(c))
  BY <1>3 DEF Ledger!Emit, Ledger!EmitFails
<1>4. ASSUME NEW c \in Consumers, Ledger!LedgerStep(c) \/ Ledger!LedgerFaults(c),
             ~(Ledger!PostInsert(c) \/ Ledger!PostFails(c) \/ Ledger!Emit(c) \/ Ledger!EmitFails(c))
      PROVE  UNCHANGED <<journal, outcomeLog>>
  BY <1>4 DEF Ledger!LedgerStep, Ledger!LedgerFaults, Ledger!LedgerPoll, Ledger!Decode,
       Ledger!PostCheck, Ledger!PostConflict, Ledger!ToDlq, Ledger!CommitOffset,
       Ledger!DecodeFails, Ledger!ToDlqUndelivered, Ledger!CommitLost, Ledger!CommitRaises,
       Ledger!LedgerCrash
<1> QED BY <1>1, <1>2, <1>3, <1>4 DEF Ledger!LedgerNext

LedgerMove == JointInv /\ JointInv' /\ UNCHANGED <<payments, outbox>>

LEMMA LedgerKeepsTerms ==
    ASSUME LedgerMove
    PROVE  SameTerms /\ \A r \in PaymentIds : EventsOf(r)' = EventsOf(r)
BY DEF LedgerMove, SameTerms, Terms, EventsOf

(* The event in a busy consumer's hand.                                     *)
LEMMA HandLogged ==
    ASSUME JointInv, NEW c \in Consumers, lpc[c] \in Ledger!Handling
    PROVE  Ledger!Ev(c) \in Relay!Event /\ Ledger!Logged(Ledger!Ev(c))
<1>1. PICK q, e : q = lmsg[c].part /\ e = Ledger!Ev(c)
  OBVIOUS
<1>2. q \in Partitions /\ e \in Relay!Event /\ lmsg[c].offset + 1 \in DOMAIN eventLog[q]
  BY <1>1, PartAssumptions, Ledger!HandTyped DEF JointInv, LedgerInv
<1>3. e = eventLog[q][lmsg[c].offset + 1]
  BY <1>1 DEF Ledger!Ev
<1> QED BY <1>1, <1>2, <1>3 DEF Ledger!Logged

LEMMA PostRefines ==
    ASSUME LedgerMove, UNCHANGED outcomeLog, NEW c \in Consumers, Ledger!At(c, "insert"),
           Ledger!EventIdFree(Ledger!Ev(c)), Ledger!WriteEntry(Ledger!Ev(c))
    PROVE  Settle!Next
<1>0. JointInv /\ lpc[c] \in Ledger!Handling /\ lpc[c] = "insert"
  BY DEF LedgerMove, Ledger!At, Ledger!Handling
<1>1. PICK e : e = Ledger!Ev(c)
  OBVIOUS
<1>2. e \in Relay!Event /\ Ledger!Logged(e) /\ Ledger!Settles(e.body)
      /\ Ledger!EventIdFree(e) /\ Ledger!WriteEntry(e)
  BY <1>0, <1>1, HandLogged DEF JointInv, LedgerInv, Ledger!TruthInv, Ledger!HandOK, Ledger!At
<1>3. PICK p : p = e.payment
  OBVIOUS
<1>4. PICK i \in DOMAIN outbox :
          e = Relay!EventOf(i) /\ e.event = i /\ p = outbox[i].payment
  BY <1>0, <1>2, <1>3, LoggedIsCaptured
<1>5. p \in PaymentIds /\ p \in DOMAIN payments /\ payments[p].status # "AUTHORIZED"
  BY <1>0, <1>2, <1>3, LoggedIsCaptured
<1>6. /\ Len(journal) \in Nat
      /\ DOMAIN journal = 1..Len(journal) /\ DOMAIN journal' = 1..(Len(journal) + 1)
      /\ journal'[Len(journal) + 1] = Ledger!EntryOf(e)
      /\ \A n \in DOMAIN journal : journal'[n] = journal[n]
      /\ journal' \in Seq(Ledger!Entries)
  BY <1>0, <1>2, PartAssumptions, Ledger!EntryAppended DEF JointInv, LedgerInv
<1>7. ~Posted(p)
  <2> SUFFICES ASSUME Posted(p) PROVE FALSE
    OBVIOUS
  <2>1. PICK n \in DOMAIN journal : journal[n].event \in EventsOf(p)
    BY DEF Posted
  <2>2. PICK f \in Relay!Event : Ledger!Logged(f) /\ journal[n].event = f.event
    BY <1>0, EntryEvent
  <2>3. e = f
    BY <1>0, <1>2, <1>3, <2>1, <2>2, OneEventEach
  <2> QED BY <1>2, <2>2, <2>3 DEF Ledger!EventIdFree, Ledger!Booked
<1>8. ~Saga!Rejected(p)
  <2> SUFFICES ASSUME Saga!Rejected(p) PROVE FALSE
    OBVIOUS
  <2>1. PICK f \in Relay!Event :
            Ledger!Logged(f) /\ f.payment = p /\ ~Ledger!Settles(f.body)
    BY <1>0, RejectedEvent
  <2>2. e = f
    BY <1>0, <1>2, <1>3, <2>1, OneEventEach
  <2> QED BY <1>2, <2>1, <2>2
<1>9. payments[p].status # "VOIDED"
  BY <1>0, <1>5, <1>8 DEF JointInv, SagaInv, Saga!VoidedOnRejection, Saga!Voided
<1>10. Posted(p)'
  <2>1. Len(journal) + 1 \in DOMAIN journal' /\ journal'[Len(journal) + 1].event = i
    BY <1>4, <1>6 DEF Ledger!EntryOf
  <2>2. i \in EventsOf(p)'
    BY <1>4 DEF EventsOf, LedgerMove
  <2> QED BY <2>1, <2>2 DEF Posted
<1>11. \A r \in PaymentIds \ {p} : Posted(r)' <=> Posted(r)
  <2> SUFFICES ASSUME NEW r \in PaymentIds \ {p} PROVE Posted(r)' <=> Posted(r)
    OBVIOUS
  <2>1. EventsOf(r)' = EventsOf(r) /\ i \notin EventsOf(r)
    BY <1>4, LedgerKeepsTerms DEF EventsOf
  <2>2. journal'[Len(journal) + 1].event = i
    BY <1>4, <1>6 DEF Ledger!EntryOf
  <2>3. \A n \in DOMAIN journal : n \in DOMAIN journal'
    BY <1>6
  <2>4. \A n \in DOMAIN journal' : n = Len(journal) + 1 \/ n \in DOMAIN journal
    BY <1>6
  <2> QED BY <1>6, <2>1, <2>2, <2>3, <2>4 DEF Posted
<1>12. \A r \in PaymentIds : Saga!Rejected(r)' <=> Saga!Rejected(r)
  BY RejectedStays
<1>13. Goes(p, "captured", "posted")
  BY <1>5, <1>7, <1>8, <1>9, <1>10, <1>11, <1>12 DEF Goes, Stage, LedgerMove
<1>14. e.tenant = payments[p].tenant /\ e.body = payments[p].body
  BY <1>0, <1>4 DEF JointInv, ApiInv, Api!RowsNameTerms, Relay!EventOf
<1>15. Terms(p) = [tenant |-> e.tenant, body |-> e.body]
  BY <1>5, <1>14 DEF Terms
<1>16. \A t \in KnownTenants :
          Payable(t)' = IF e.tenant = t THEN Payable(t) + e.body.amount ELSE Payable(t)
  <2> SUFFICES ASSUME NEW t \in KnownTenants
               PROVE  Payable(t)' = IF e.tenant = t THEN Payable(t) + e.body.amount ELSE Payable(t)
    OBVIOUS
  <2>1. PICK A, B : A = journal /\ B = journal'
    OBVIOUS
  <2>2. Len(A) \in Nat /\ Len(B) = Len(A) + 1 /\ \A n \in 1..Len(A) : B[n] = A[n]
    BY <1>6, <2>1
  <2>3. B[Len(B)].tenant = e.tenant /\ B[Len(B)].lines[2].amount = e.body.amount
    BY <1>6, <2>1, <2>2 DEF Ledger!EntryOf, Ledger!DoubleEntry, Ledger!Line
  <2>4. CreditSum(t, B) = IF e.tenant = t THEN CreditSum(t, A) + e.body.amount
                          ELSE CreditSum(t, A)
    BY <2>2, <2>3, CreditAppended
  <2> QED BY <2>1, <2>4 DEF Payable
<1>17. Settle!Advance(p, "captured", "posted")
  BY <1>5, <1>13, GoesIsAdvance
<1>18. Settle!Settleable(p)
  BY <1>2, <1>5, <1>15 DEF Settle!Settleable, Ledger!Settles
<1>19. PICK d : d = [r \in PaymentIds |-> Terms(r)][p]
  OBVIOUS
<1>20. d.tenant = e.tenant /\ d.body.amount = e.body.amount
  BY <1>5, <1>15, <1>19
<1>21. [t \in KnownTenants |-> Payable(t)]'
         = [[t \in KnownTenants |-> Payable(t)] EXCEPT ![d.tenant] = @ + d.body.amount]
  BY <1>16, <1>20
<1>22. UNCHANGED [r \in PaymentIds |-> Terms(r)]
  BY LedgerKeepsTerms, SameIsUnchanged
<1>23. Settle!Post(p)
  BY <1>17, <1>18, <1>19, <1>21, <1>22 DEF Settle!Post
<1> QED BY <1>5, <1>23 DEF Settle!Next

LEMMA AnswerRefines ==
    ASSUME LedgerMove, UNCHANGED journal, NEW c \in Consumers,
           Ledger!At(c, "emit"), Ledger!Produced(c)
    PROVE  Settle!Next \/ UNCHANGED Settle!settlementVars
<1>0. JointInv /\ lpc[c] \in Ledger!Handling /\ lpc[c] = "emit"
  BY DEF LedgerMove, Ledger!At, Ledger!Handling
<1>1. PICK e, q, out, p : /\ e = Ledger!Ev(c) /\ q = lmsg[c].part
                          /\ out = Ledger!OutcomeOf(c) /\ p = e.payment
  OBVIOUS
<1>2. e \in Relay!Event /\ Ledger!Logged(e) /\ q \in Partitions
  BY <1>0, <1>1, PartAssumptions, HandLogged, Ledger!HandTyped DEF JointInv, LedgerInv
<1>3. Ledger!Truthful(e, lstatus[c])
  BY <1>0, <1>1 DEF JointInv, LedgerInv, Ledger!TruthInv, Ledger!HandOK
<1>4. out.payment = p /\ out.status = lstatus[c] /\ out \in Ledger!Answers
  BY <1>0, <1>1, PartAssumptions, Ledger!HandTyped DEF JointInv, LedgerInv, Ledger!OutcomeOf
<1>5. outcomeLog' = [outcomeLog EXCEPT ![q] = Append(@, out)]
  BY <1>1 DEF Ledger!Produced
<1>6. outcomeLog \in [Partitions -> Seq(Ledger!Answers)]
  BY <1>0 DEF JointInv, LedgerInv, Ledger!Shape, Ledger!LogsOK
<1>7. /\ DOMAIN outcomeLog'[q] = 1..(Len(outcomeLog[q]) + 1)
      /\ outcomeLog'[q][Len(outcomeLog[q]) + 1] = out
      /\ Len(outcomeLog[q]) \in Nat /\ DOMAIN outcomeLog[q] = 1..Len(outcomeLog[q])
      /\ \A n \in DOMAIN outcomeLog[q] : outcomeLog'[q][n] = outcomeLog[q][n]
      /\ \A r \in Partitions \ {q} : outcomeLog'[r] = outcomeLog[r]
  <2>1. PICK old : old = outcomeLog[q]
    OBVIOUS
  <2>2. old \in Seq(Ledger!Answers) /\ outcomeLog'[q] = Append(old, out)
        /\ \A r \in Partitions \ {q} : outcomeLog'[r] = outcomeLog[r]
    BY <1>2, <1>5, <1>6, <2>1
  <2>3. /\ DOMAIN Append(old, out) = 1..(Len(old) + 1)
        /\ Append(old, out)[Len(old) + 1] = out
        /\ Len(old) \in Nat /\ DOMAIN old = 1..Len(old)
        /\ \A n \in DOMAIN old : Append(old, out)[n] = old[n]
    BY <1>4, <2>2
  <2> QED BY <2>1, <2>2, <2>3
<1>8. \A r \in PaymentIds : Saga!Rejected(r)' <=> Saga!Rejected(r) \/ (r = p /\ lstatus[c] = "REJECTED")
  <2> SUFFICES ASSUME NEW r \in PaymentIds
               PROVE  Saga!Rejected(r)' <=> Saga!Rejected(r) \/ (r = p /\ lstatus[c] = "REJECTED")
    OBVIOUS
  <2>1. ASSUME Saga!Rejected(r) PROVE Saga!Rejected(r)'
    <3>1. PICK k \in Partitions : \E n \in DOMAIN outcomeLog[k] :
              outcomeLog[k][n].payment = r /\ outcomeLog[k][n].status = "REJECTED"
      BY <2>1 DEF Saga!Rejected
    <3>2. PICK n \in DOMAIN outcomeLog[k] :
              outcomeLog[k][n].payment = r /\ outcomeLog[k][n].status = "REJECTED"
      BY <3>1
    <3>3. n \in DOMAIN outcomeLog'[k] /\ outcomeLog'[k][n] = outcomeLog[k][n]
      BY <1>2, <1>7
    <3> QED BY <3>2, <3>3 DEF Saga!Rejected
  <2>2. ASSUME r = p, lstatus[c] = "REJECTED" PROVE Saga!Rejected(r)'
    <3>1. Len(outcomeLog[q]) + 1 \in DOMAIN outcomeLog'[q]
      BY <1>7
    <3> QED BY <1>2, <1>4, <1>7, <2>2, <3>1 DEF Saga!Rejected
  <2>3. ASSUME Saga!Rejected(r)' PROVE Saga!Rejected(r) \/ (r = p /\ lstatus[c] = "REJECTED")
    <3>1. PICK k \in Partitions : \E n \in DOMAIN outcomeLog'[k] :
              outcomeLog'[k][n].payment = r /\ outcomeLog'[k][n].status = "REJECTED"
      BY <2>3 DEF Saga!Rejected
    <3>2. PICK n \in DOMAIN outcomeLog'[k] :
              outcomeLog'[k][n].payment = r /\ outcomeLog'[k][n].status = "REJECTED"
      BY <3>1
    <3>3. CASE k = q /\ n = Len(outcomeLog[q]) + 1
      BY <1>4, <1>7, <3>2, <3>3
    <3>4. CASE ~(k = q /\ n = Len(outcomeLog[q]) + 1)
      <4>1. n \in DOMAIN outcomeLog[k] /\ outcomeLog'[k][n] = outcomeLog[k][n]
        BY <1>7, <3>4
      <4> QED BY <3>2, <4>1 DEF Saga!Rejected
    <3> QED BY <3>3, <3>4
  <2> QED BY <2>1, <2>2, <2>3
<1>9. \A r \in PaymentIds : Posted(r)' <=> Posted(r)
  BY LedgerKeepsTerms DEF Posted
<1>10. p \in PaymentIds
  BY <1>0, <1>1, <1>2, LoggedIsCaptured
<1>11. CASE lstatus[c] = "REJECTED" /\ Stage(p) = "captured"
  <2>1. Stage(p)' = "rejected"
    <3>1. Saga!Rejected(p)' /\ (Posted(p)' <=> Posted(p))
      BY <1>8, <1>9, <1>10, <1>11
    <3> QED BY <1>11, <3>1 DEF Stage, LedgerMove
  <2>2. \A r \in PaymentIds \ {p} : Stage(r)' = Stage(r)
    BY <1>8, <1>9 DEF Stage, LedgerMove
  <2>3. Settle!Advance(p, "captured", "rejected")
    BY <1>10, <1>11, <2>1, <2>2, GoesIsAdvance DEF Goes
  <2>4. PICK i \in DOMAIN outbox : e = Relay!EventOf(i) /\ p = outbox[i].payment
    BY <1>0, <1>1, <1>2, LoggedIsCaptured
  <2>5. p \in DOMAIN payments /\ e.body = payments[p].body
    BY <1>0, <2>4 DEF JointInv, ApiInv, Api!RowsNameTerms, Relay!EventOf
  <2>6. [r \in PaymentIds |-> Terms(r)][p].body = e.body
    BY <1>10, <2>5 DEF Terms
  <2>7. ~Settle!Settleable(p)
    BY <1>3, <1>11, <2>6 DEF Settle!Settleable, Ledger!Truthful, Ledger!Settles
  <2>8. Settle!Reject(p)
    BY <2>3, <2>7, LedgerKeepsTerms, BooksUntouched, SameIsUnchanged DEF Settle!Reject
  <2> QED BY <1>10, <2>8 DEF Settle!Next
<1>12. CASE ~(lstatus[c] = "REJECTED" /\ Stage(p) = "captured")
  <2>1. \A r \in PaymentIds \ {p} : Stage(r)' = Stage(r)
    BY <1>8, <1>9 DEF Stage, LedgerMove
  <2>2. Stage(p)' = Stage(p)
    BY <1>8, <1>9, <1>10, <1>12 DEF Stage, LedgerMove
  <2>3. \A r \in PaymentIds : Stage(r)' = Stage(r)
    BY <2>1, <2>2
  <2> QED BY <2>3, LedgerKeepsTerms, BooksUntouched, NothingMoves
<1> QED BY <1>11, <1>12

LEMMA LedgerRefines ==
    ASSUME JointInv, JointInv', LedgerActs
    PROVE  Settle!Next \/ UNCHANGED Settle!settlementVars
<1>1. LedgerMove
  BY DEF LedgerMove, LedgerActs, store
<1>2. ASSUME UNCHANGED <<journal, outcomeLog>> PROVE UNCHANGED Settle!settlementVars
  <2>1. \A r \in PaymentIds : Saga!Rejected(r)' <=> Saga!Rejected(r)
    BY <1>2, RejectedStays
  <2>2. \A r \in PaymentIds : Posted(r)' <=> Posted(r)
    BY <1>1, <1>2, LedgerKeepsTerms DEF Posted
  <2>3. \A r \in PaymentIds : Stage(r)' = Stage(r)
    BY <1>1, <2>1, <2>2 DEF Stage, LedgerMove
  <2> QED BY <1>1, <1>2, <2>3, LedgerKeepsTerms, BooksUntouched, NothingMoves
<1> QED BY <1>1, <1>2, LedgerKinds, PostRefines, AnswerRefines DEF LedgerActs

----------------------------------------------------------------------------
LEMMA SettlementInit ==
    ASSUME Init
    PROVE  Settle!Init
<1>1. payments = << >> /\ journal = << >>
  BY DEF Init, Api!Init, Api!StoreInit, Ledger!LedgerInit
<1>2. \A p \in PaymentIds : Stage(p) = "absent" /\ Terms(p) = NoTerms
  BY <1>1 DEF Stage, Terms
<1>3. \A t \in KnownTenants : Payable(t) = 0
  <2>1. PICK A : A = journal
    OBVIOUS
  <2>2. Len(A) = 0
    BY <1>1, <2>1
  <2> QED BY <2>1, <2>2, CreditNone DEF Payable
<1> QED BY <1>2, <1>3 DEF Settle!Init

LEMMA SettlementStep ==
    ASSUME JointInv, [Next]_vars
    PROVE  Settle!Next \/ UNCHANGED Settle!settlementVars
<1>1. JointInv' /\ PartsStep
  BY JointStep, PartsMove
<1>2. CASE LedgerActs
  BY <1>1, <1>2, LedgerRefines
<1>3. CASE ApiActs \/ RelayActs \/ UNCHANGED vars
  <2>1. UNCHANGED <<journal, outcomeLog>>
    BY <1>3 DEF ApiActs, RelayActs, vars, ledgerOwn
  <2> QED BY <1>1, <2>1, StoreRefines DEF StoreStep
<1>4. CASE SagaActs
  <2>1. UNCHANGED <<journal, outcomeLog>>
    BY <1>4, SagaStores DEF SagaActs, ledgerOwn
  <2> QED BY <1>1, <2>1, StoreRefines DEF StoreStep
<1> QED BY <1>2, <1>3, <1>4 DEF Next

(* The pipeline implements Settlement: over at-least-once delivery, duplicates *)
(* and crashes of any number of processes of every kind, a payment is booked   *)
(* at most once, for the terms it was authorized on, or rejected and voided,   *)
(* never both, and the books owe a merchant what was booked for it.          *)
THEOREM PipelineSettles == Spec => ImplementsSettlement
<1>1. JointInv /\ [Next]_vars => [Settle!Next]_(Settle!settlementVars)
  BY SettlementStep
<1> QED BY <1>1, SettlementInit, PipelineInvariant, PTL DEF Spec, ImplementsSettlement, Settle!Spec
=============================================================================

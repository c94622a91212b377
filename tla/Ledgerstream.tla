----------------------------- MODULE Ledgerstream -----------------------------
(***************************************************************************)
(* The pipeline put together: web workers capture payments and write the     *)
(* outbox, relays publish it to payments.events, ledger consumers book the   *)
(* events and answer on ledger.events, saga workers void what was rejected.  *)
(* The parts share the payment database and the two topics; everything else  *)
(* is their own.                                                           *)
(***************************************************************************)
EXTENDS Naturals, Sequences, FiniteSets

CONSTANTS
    PaymentIds, Tenants, KnownTenants, Keys, EmptyKey, NoKey, Bodies, NoProc,
    Workers, MaxBatch,
    Relays, BatchSize, Partitions, PartitionOf, MaxRelayFaults,
    Consumers, MaxRetries, NoConsumer, MaxLedgerFaults,
    Sagas, NoSaga, MaxSagaFaults,
    NoTerms,
    MaxFaults       \* bound: faults of relays, ledger and saga together

(* What the parts assume, put together.                                    *)
ASSUME PipelineAssumption ==
    /\ KnownTenants \subseteq Tenants /\ NoKey \notin Keys
    /\ NoProc \notin Workers /\ MaxBatch \in Nat
    /\ \A b \in Bodies : b.amount \in Nat
    /\ BatchSize \in Nat \ {0}
    /\ PartitionOf \in [PaymentIds -> Partitions]
    /\ NoConsumer \notin Consumers /\ NoSaga \notin Sagas
    /\ MaxRetries \in Nat
    /\ MaxRelayFaults \in Nat /\ MaxLedgerFaults \in Nat /\ MaxSagaFaults \in Nat
    /\ MaxFaults \in Nat

VARIABLES
    payments, payLock, outbox,                                  \* payment DB
    wpc, wreq, wseen, wres, replies, reported,                  \* web workers
    rpc, rrows, rlocks, rqueue, rdelivered, rfaults,            \* relays
    eventLog, outcomeLog,                                       \* topics
    lowner, lposition, lcommitted, lpc, lmsg, lattempt, lstatus,
    journal, eventDlq, dlqLost, lfaults,                        \* ledger
    sowner, sposition, scommitted, spc, smsg, sattempt,
    sagaDlq, sagaDlqLost, sfaults                               \* saga

(* The parts, each with what is proved of it.                              *)
Api == INSTANCE PaymentApiProofs
Relay == INSTANCE OutboxRelayProofs
Ledger == INSTANCE LedgerConsumerProofs WITH Events <- Relay!Event
Saga == INSTANCE SagaConsumerProofs WITH EventIds <- Nat

relayOwn == <<rpc, rrows, rlocks, rqueue, rdelivered, rfaults>>
ledgerOwn == <<lowner, lposition, lcommitted, lpc, lmsg, lattempt, lstatus,
               journal, eventDlq, dlqLost, lfaults>>
sagaOwn == <<sowner, sposition, scommitted, spc, smsg, sattempt,
             sagaDlq, sagaDlqLost, sfaults>>
store == <<payments, payLock, outbox>>
api == <<wpc, wreq, wseen, wres, replies, reported>>

vars == <<store, api, relayOwn, eventLog, outcomeLog, ledgerOwn, sagaOwn>>

Init ==
    /\ Api!Init
    /\ Relay!RelayInit
    /\ Ledger!LedgerInit
    /\ Saga!SagaInit

ApiActs == Api!ApiNext /\ UNCHANGED <<relayOwn, eventLog, outcomeLog, ledgerOwn, sagaOwn>>
RelayActs == Relay!RelayNext /\ UNCHANGED <<api, outcomeLog, ledgerOwn, sagaOwn>>
LedgerActs == Ledger!LedgerNext /\ UNCHANGED <<store, api, relayOwn, sagaOwn>>
SagaActs == Saga!SagaNext /\ UNCHANGED <<api, relayOwn, eventLog, ledgerOwn>>

WithinFaultBudget == rfaults + lfaults + sfaults <= MaxFaults

Next == (ApiActs \/ RelayActs \/ LedgerActs \/ SagaActs) /\ WithinFaultBudget'

Spec == Init /\ [][Next]_vars

(* Each process runs on; a client who was not told the outcome of a capture  *)
(* is not obliged to retry, so nothing is assumed of requests arriving.      *)
FairSpec ==
    /\ Spec
    /\ \A r \in Relays : /\ WF_vars(Relay!RelayStep(r) /\ RelayActs)
                         /\ WF_vars(Relay!Deliver(r) /\ RelayActs)
    /\ \A c \in Consumers : WF_vars(Ledger!LedgerStep(c) /\ LedgerActs)
    /\ WF_vars(Ledger!LedgerJoin /\ LedgerActs)
    /\ \A w \in Workers : WF_vars(Api!CaptureStep(w) /\ ApiActs)
    /\ \A s \in Sagas : /\ WF_vars(Saga!SagaStep(s) /\ SagaActs)
                        /\ SF_vars(Saga!Handle(s) /\ SagaActs)
    /\ WF_vars(Saga!SagaJoin /\ SagaActs)

----------------------------------------------------------------------------
EventsOf(p) == {i \in DOMAIN outbox : outbox[i].payment = p}

Posted(p) == \E n \in DOMAIN journal : journal[n].event \in EventsOf(p)

(* How far payment p has come, read off three databases and a topic.         *)
Stage(p) ==
    IF p \notin DOMAIN payments THEN "absent"
    ELSE IF payments[p].status = "AUTHORIZED" THEN "authorized"
    ELSE IF payments[p].status = "VOIDED" THEN "voided"
    ELSE IF Posted(p) THEN "posted"
    ELSE IF Saga!Rejected(p) THEN "rejected"
    ELSE "captured"

Terms(p) ==
    IF p \in DOMAIN payments
    THEN [tenant |-> payments[p].tenant, body |-> payments[p].body]
    ELSE NoTerms

(* The balance of the merchant's MERCHANT_PAYABLE account: the credit lines   *)
(* of its entries, summed.                                                 *)
CreditSum(t, entries) ==
    LET sum[n \in Nat] ==
            IF n = 0 THEN 0
            ELSE IF entries[n].tenant = t THEN sum[n - 1] + entries[n].lines[2].amount
            ELSE sum[n - 1]
    IN sum[Len(entries)]

Payable(t) == CreditSum(t, journal)

Settle == INSTANCE Settlement WITH
    Merchants <- KnownTenants,
    Settled <- Ledger!SUPPORTED_CURRENCIES,
    terms <- [p \in PaymentIds |-> Terms(p)],
    stage <- [p \in PaymentIds |-> Stage(p)],
    owed <- [t \in KnownTenants |-> Payable(t)]

(* The pipeline implements Settlement: through at-least-once delivery,       *)
(* duplicates and crashes of every process, a payment is booked at most once, *)
(* for the terms it was authorized on, and voided only if the ledger rejected *)
(* it; never both.                                                         *)
ImplementsSettlement == Settle!Spec

(* Given up on: its event or its outcome went to a dead-letter queue.        *)
Parked(p) ==
    \/ EventsOf(p) \cap (eventDlq \cup dlqLost) # {}
    \/ p \in sagaDlq \cup sagaDlqLost

(* Once faults stop, a captured payment is booked, voided, or one of the two *)
(* workers has given it up to its dead-letter queue.                        *)
CapturesSettle ==
    \A p \in PaymentIds : Stage(p) = "captured" ~> Stage(p) \in {"posted", "voided"} \/ Parked(p)
=============================================================================

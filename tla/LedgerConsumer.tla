--------------------------- MODULE LedgerConsumer ---------------------------
(***************************************************************************)
(* The Ledger service's Kafka worker: consume payments.events, post one     *)
(* balanced journal entry per event, emit a LedgerOutcome, and commit the    *)
(* offset last.  A failed attempt is retried; a message that cannot be       *)
(* decoded, or whose retries are exhausted, goes to the dead-letter topic.   *)
(***************************************************************************)
EXTENDS Naturals, Sequences, FiniteSetsExt

CONSTANTS
    Consumers,          \* processes of the group ledger-service
    Partitions,         \* partitions of payments.events, ledger.events and DLQ
    Events,             \* what the relay may publish
    MaxRetries,         \* retries after the first attempt (run_with_retry)
    NoConsumer,         \* a partition is not assigned
    MaxLedgerFaults     \* bound: failures, crashes, rebalances, lost commits

ASSUME LedgerAssumption ==
    /\ NoConsumer \notin Consumers
    /\ MaxRetries \in Nat
    /\ MaxLedgerFaults \in Nat
    /\ \A e \in Events : e.body.amount \in Nat

VARIABLES
    eventLog,           \* payments.events: partition -> sequence of events
    lowner, lposition, lcommitted,  \* the consumer group
    lpc,                \* consumer -> the step of _handle it executes next
    lmsg,               \* consumer -> [part, offset] of the message in hand
    lattempt,           \* consumer -> retries used on that message
    lstatus,            \* consumer -> status post_payment_captured returned
    journal,            \* the journal_entry table with its lines
    outcomeLog,         \* ledger.events: partition -> sequence of outcomes
    eventDlq,           \* events parked on payments.events.dlq
    dlqLost,            \* history: events whose DLQ write was not delivered
    lfaults             \* faults so far

groupState == <<lowner, lposition, lcommitted>>
workState == <<lpc, lmsg, lattempt, lstatus>>
ledgerVars == <<groupState, workState, journal, outcomeLog, eventDlq, dlqLost, lfaults>>
ledgerAllVars == <<eventLog, ledgerVars>>

Group == INSTANCE ConsumerGroup WITH
            Members <- Consumers, Nobody <- NoConsumer,
            owner <- lowner, position <- lposition, committed <- lcommitted

SUPPORTED_CURRENCIES == {"USD", "EUR"}

Settles(body) == body.currency \in SUPPORTED_CURRENCIES

NoMessage == [part |-> 0, offset |-> 0]

LedgerInit ==
    /\ Group!GroupInit
    /\ lpc = [c \in Consumers |-> "poll"]
    /\ lmsg = [c \in Consumers |-> NoMessage]
    /\ lattempt = [c \in Consumers |-> 0]
    /\ lstatus = [c \in Consumers |-> "none"]
    /\ journal = << >>
    /\ outcomeLog = [q \in Partitions |-> << >>]
    /\ eventDlq = {}
    /\ dlqLost = {}
    /\ lfaults = 0

(* The event in consumer c's hand.                                         *)
Ev(c) == eventLog[lmsg[c].part][lmsg[c].offset + 1]

At(c, step) == lpc[c] = step
GoesTo(c, step) == lpc' = [lpc EXCEPT ![c] = step]

LedgerFault == lfaults < MaxLedgerFaults /\ lfaults' = lfaults + 1

(* Back to the poll loop, the message forgotten.                           *)
LetGo(c) ==
    /\ GoesTo(c, "poll")
    /\ lmsg' = [lmsg EXCEPT ![c] = NoMessage]
    /\ lattempt' = [lattempt EXCEPT ![c] = 0]
    /\ lstatus' = [lstatus EXCEPT ![c] = "none"]

(* Entries booked for event e.                                             *)
Booked(e) == {n \in DOMAIN journal : journal[n].event = e}

----------------------------------------------------------------------------
LedgerPoll(c) ==
    /\ At(c, "poll")
    /\ \E q \in Partitions :
        /\ Group!Poll(c, q, eventLog)
        /\ lmsg' = [lmsg EXCEPT ![c] = [part |-> q, offset |-> lposition[q]]]
    /\ GoesTo(c, "decode")
    /\ UNCHANGED <<eventLog, lattempt, lstatus, journal, outcomeLog, eventDlq, dlqLost, lfaults>>

Decode(c) ==
    /\ At(c, "decode")
    /\ GoesTo(c, "check")
    /\ UNCHANGED <<eventLog, groupState, lmsg, lattempt, lstatus, journal, outcomeLog,
                   eventDlq, dlqLost, lfaults>>

(* Mutant: an undecodable message is logged and dropped.                    *)
DecodeFails_Skips(c) ==
    /\ At(c, "decode")
    /\ LedgerFault
    /\ GoesTo(c, "commitPast")
    /\ UNCHANGED <<eventLog, groupState, lmsg, lattempt, lstatus, journal, outcomeLog,
                   eventDlq, dlqLost>>

(* Any decoding error, a schema registry that does not answer included, is  *)
(* taken for poison: no retry, straight to the DLQ.                        *)
DecodeFails(c) ==
    /\ At(c, "decode")
    /\ LedgerFault
    /\ GoesTo(c, "dlq")
    /\ UNCHANGED <<eventLog, groupState, lmsg, lattempt, lstatus, journal, outcomeLog,
                   eventDlq, dlqLost>>

Returns(c, status) ==
    /\ lstatus' = [lstatus EXCEPT ![c] = status]
    /\ GoesTo(c, "emit")

(* post_payment_captured up to its first write: the business rule, then the  *)
(* fast path SELECT on event_id.                                           *)
PostCheck(c) ==
    LET e == Ev(c) IN
    /\ At(c, "check")
    /\ \/ ~Settles(e.body) /\ Returns(c, "REJECTED")
       \/ Settles(e.body) /\ Booked(e.event) # {} /\ Returns(c, "POSTED")
       \/ /\ Settles(e.body) /\ Booked(e.event) = {}
          /\ GoesTo(c, "insert")
          /\ UNCHANGED lstatus
    /\ UNCHANGED <<eventLog, groupState, lmsg, lattempt, journal, outcomeLog, eventDlq,
                   dlqLost, lfaults>>

Line(account, direction, amount) ==
    [account |-> account, direction |-> direction, amount |-> amount]

(* Mutant: the account is looked up by its code alone.                      *)
Account_ByCode(tenant, code) ==
    [tenant |-> IF journal = << >> THEN tenant ELSE journal[1].tenant, code |-> code]

(* _get_account: the tenant's account of that code, made when first needed.   *)
Account(tenant, code) == [tenant |-> tenant, code |-> code]

(* DEBIT Cash / CREDIT Merchant-Payable, both the accounts of the event's      *)
(* tenant.                                                                 *)
DoubleEntry(e) == <<Line(Account(e.tenant, "CASH"), "DEBIT", e.body.amount),
                    Line(Account(e.tenant, "MERCHANT_PAYABLE"), "CREDIT", e.body.amount)>>

WriteEntry(e) ==
    journal' = Append(journal, [event |-> e.event, payment |-> e.payment,
                                tenant |-> e.tenant, lines |-> DoubleEntry(e)])

(* Mutant: the fast-path SELECT is the only protection.                     *)
EventIdFree_NoConstraint(e) == TRUE

(* The UNIQUE event_id: an INSERT waits for a concurrent one to commit, then *)
(* fails.                                                                  *)
EventIdFree(e) == Booked(e.event) = {}

(* INSERT the entry and its lines and commit.                              *)
PostInsert(c) ==
    /\ At(c, "insert")
    /\ EventIdFree(Ev(c))
    /\ WriteEntry(Ev(c))
    /\ Returns(c, "POSTED")
    /\ UNCHANGED <<eventLog, groupState, lmsg, lattempt, outcomeLog, eventDlq, dlqLost, lfaults>>

(* Mutant: the handler takes the IntegrityError for a rejection.             *)
PostConflict_Rejects(c) ==
    /\ At(c, "insert")
    /\ ~EventIdFree(Ev(c))
    /\ Returns(c, "REJECTED")
    /\ UNCHANGED <<eventLog, groupState, lmsg, lattempt, journal, outcomeLog, eventDlq,
                   dlqLost, lfaults>>

(* IntegrityError: another consumer booked the event; the transaction rolls  *)
(* back and the answer is POSTED all the same.                             *)
PostConflict(c) ==
    /\ At(c, "insert")
    /\ ~EventIdFree(Ev(c))
    /\ Returns(c, "POSTED")
    /\ UNCHANGED <<eventLog, groupState, lmsg, lattempt, journal, outcomeLog, eventDlq,
                   dlqLost, lfaults>>

----------------------------------------------------------------------------
(* Mutants: one attempt too many; a message given up without the DLQ.        *)
Retry_OneMore(c) ==
    IF lattempt[c] <= MaxRetries
    THEN lattempt' = [lattempt EXCEPT ![c] = @ + 1] /\ GoesTo(c, "check")
    ELSE UNCHANGED lattempt /\ GoesTo(c, "dlq")
Retry_Drops(c) ==
    IF lattempt[c] < MaxRetries
    THEN lattempt' = [lattempt EXCEPT ![c] = @ + 1] /\ GoesTo(c, "check")
    ELSE UNCHANGED lattempt /\ GoesTo(c, "commitPast")

(* run_with_retry: an attempt raised.  Try the whole unit again, or give up. *)
Retry(c) ==
    IF lattempt[c] < MaxRetries
    THEN lattempt' = [lattempt EXCEPT ![c] = @ + 1] /\ GoesTo(c, "check")
    ELSE UNCHANGED lattempt /\ GoesTo(c, "dlq")

(* The database fails the transaction; at the commit the entry may have been *)
(* written all the same.                                                   *)
PostFails(c) ==
    /\ lpc[c] \in {"check", "insert"}
    /\ LedgerFault
    /\ \/ UNCHANGED journal
       \/ At(c, "insert") /\ EventIdFree(Ev(c)) /\ WriteEntry(Ev(c))
    /\ Retry(c)
    /\ UNCHANGED <<eventLog, groupState, lmsg, lstatus, outcomeLog, eventDlq, dlqLost>>

OutcomeOf(c) == [event |-> Ev(c).event, payment |-> Ev(c).payment, status |-> lstatus[c]]

(* Same key as the event, so the outcome keeps the event's partition.       *)
Produced(c) ==
    outcomeLog' = [outcomeLog EXCEPT ![lmsg[c].part] = Append(@, OutcomeOf(c))]

(* _emit_outcome: produce, flush, and the delivery report is good.          *)
Emit(c) ==
    /\ At(c, "emit")
    /\ Produced(c)
    /\ GoesTo(c, "commit")
    /\ UNCHANGED <<eventLog, groupState, lmsg, lattempt, lstatus, journal, eventDlq, dlqLost,
                   lfaults>>

(* The report is an error, though the broker may have kept the message.     *)
EmitFails(c) ==
    /\ At(c, "emit")
    /\ LedgerFault
    /\ Produced(c) \/ UNCHANGED outcomeLog
    /\ Retry(c)
    /\ UNCHANGED <<eventLog, groupState, lmsg, lstatus, journal, eventDlq, dlqLost>>

(* _to_dlq: produce and flush, with no delivery callback: whether or not the *)
(* broker took the message, the next step is the offset commit.             *)
ToDlq(c) ==
    /\ At(c, "dlq")
    /\ eventDlq' = eventDlq \cup {Ev(c).event}
    /\ GoesTo(c, "commitPast")
    /\ UNCHANGED <<eventLog, groupState, lmsg, lattempt, lstatus, journal, outcomeLog, dlqLost,
                   lfaults>>

ToDlqUndelivered(c) ==
    /\ At(c, "dlq")
    /\ LedgerFault
    /\ dlqLost' = dlqLost \cup {Ev(c).event}
    /\ GoesTo(c, "commitPast")
    /\ UNCHANGED <<eventLog, groupState, lmsg, lattempt, lstatus, journal, outcomeLog, eventDlq>>

(* consumer.commit(msg), after success or behind the DLQ write.             *)
Committing(c) == lpc[c] \in {"commit", "commitPast"}

CommitOffset(c) ==
    /\ Committing(c)
    /\ Group!Commit(c, lmsg[c].part, lmsg[c].offset)
    /\ LetGo(c)
    /\ UNCHANGED <<eventLog, journal, outcomeLog, eventDlq, dlqLost, lfaults>>

(* The asynchronous commit never reaches the broker.                       *)
CommitLost(c) ==
    /\ Committing(c)
    /\ LedgerFault
    /\ LetGo(c)
    /\ UNCHANGED <<eventLog, groupState, journal, outcomeLog, eventDlq, dlqLost>>

(* commit() itself raises inside the try: a message that was handled goes to *)
(* the DLQ as well.  (The commit behind a DLQ write ends run(): a crash.)    *)
CommitRaises(c) ==
    /\ At(c, "commit")
    /\ LedgerFault
    /\ GoesTo(c, "dlq")
    /\ UNCHANGED <<eventLog, groupState, lmsg, lattempt, lstatus, journal, outcomeLog,
                   eventDlq, dlqLost>>

----------------------------------------------------------------------------
(* The process dies, or an exception in the DLQ path ends run().            *)
LedgerCrash(c) ==
    /\ LedgerFault
    /\ LetGo(c)
    /\ Group!Leave(c)
    /\ UNCHANGED <<eventLog, journal, outcomeLog, eventDlq, dlqLost>>

Polling == {c \in Consumers : At(c, "poll")}

(* Members join the group and share out what nobody owns.                   *)
LedgerJoin ==
    /\ Group!Joinable(Polling)
    /\ Group!Rebalance(Polling)
    /\ UNCHANGED <<eventLog, workState, journal, outcomeLog, eventDlq, dlqLost, lfaults>>

(* Any other rebalance: a member comes or goes, or exceeds                  *)
(* max.poll.interval and loses its partitions in the middle of a message.   *)
LedgerRebalance ==
    /\ LedgerFault
    /\ Group!Rebalance(Polling)
    /\ UNCHANGED <<eventLog, workState, journal, outcomeLog, eventDlq, dlqLost>>

LedgerStep(c) == \/ LedgerPoll(c)
                 \/ Decode(c)
                 \/ PostCheck(c)
                 \/ PostInsert(c)
                 \/ PostConflict(c)
                 \/ Emit(c)
                 \/ ToDlq(c)
                 \/ CommitOffset(c)

LedgerFaults(c) == \/ DecodeFails(c)
                   \/ PostFails(c)
                   \/ EmitFails(c)
                   \/ ToDlqUndelivered(c)
                   \/ CommitLost(c)
                   \/ CommitRaises(c)
                   \/ LedgerCrash(c)

LedgerNext == \/ \E c \in Consumers : LedgerStep(c) \/ LedgerFaults(c)
              \/ LedgerJoin
              \/ LedgerRebalance

(* A running consumer finishes the message in hand and polls on; the group   *)
(* coordinator assigns free partitions.                                    *)
LedgerFairness == /\ \A c \in Consumers : WF_ledgerAllVars(LedgerStep(c))
                  /\ WF_ledgerAllVars(LedgerJoin)

----------------------------------------------------------------------------
(* The consumers with the relay as their environment: it publishes any event *)
(* in any partition, again and again, but an event id names one event only.   *)
Publish(q, e) ==
    /\ \A p \in Partitions : \A o \in DOMAIN eventLog[p] :
           eventLog[p][o].event = e.event => eventLog[p][o] = e
    /\ eventLog' = [eventLog EXCEPT ![q] = Append(@, e)]
    /\ UNCHANGED ledgerVars

(* Polling an empty topic returns None: the consumer polls again.           *)
PollAgain(c) == At(c, "poll") /\ UNCHANGED ledgerAllVars

Init == LedgerInit /\ eventLog = [q \in Partitions |-> << >>]

Next == \/ LedgerNext
        \/ \E q \in Partitions, e \in Events : Publish(q, e)
        \/ \E c \in Consumers : PollAgain(c)

Spec == Init /\ [][Next]_ledgerAllVars

----------------------------------------------------------------------------
Message == [part : Partitions \cup {0}, offset : Nat]

Handling == {"decode", "check", "insert", "emit", "dlq", "commit", "commitPast"}

LedgerTypeOK ==
    /\ Group!GroupTypeOK
    /\ lpc \in [Consumers -> {"poll"} \cup Handling]
    /\ lmsg \in [Consumers -> Message]
    /\ lattempt \in [Consumers -> 0..MaxRetries]
    /\ lstatus \in [Consumers -> {"none", "POSTED", "REJECTED"}]
    /\ lfaults \in 0..MaxLedgerFaults
    /\ \A c \in Consumers : lpc[c] \in Handling =>
           /\ lmsg[c].part \in Partitions
           /\ lmsg[c].offset < Len(eventLog[lmsg[c].part])

(* Exactly one journal entry per event, over redelivery, zombies of a        *)
(* rebalance and commits whose answer was lost.                            *)
OneEntryPerEvent ==
    \A m, n \in DOMAIN journal : journal[m].event = journal[n].event => m = n

(* The outcome tells the truth: POSTED is only announced for an event in the *)
(* journal, REJECTED only for one that is not and never will be.            *)
OutcomeTruthful ==
    \A q \in Partitions : \A n \in DOMAIN outcomeLog[q] :
        LET out == outcomeLog[q][n] IN
        out.status = "POSTED" <=> Booked(out.event) # {}

(* BalancesView: the sum of the lines on one side of the tenant's account.     *)
Total(tenant, code, direction) ==
    LET line(nk) == journal[nk[1]].lines[nk[2]]
        lines == {nk \in (DOMAIN journal) \X {1, 2} :
                     /\ line(nk).account.tenant = tenant
                     /\ line(nk).account.code = code
                     /\ line(nk).direction = direction}
    IN  MapThenSumSet(LAMBDA nk : line(nk).amount, lines)

Published == UNION {{eventLog[q][o] : o \in DOMAIN eventLog[q]} : q \in Partitions}

(* What a tenant is shown are its own booked captures, each counted once however *)
(* often its event was delivered: cash debits = payable credits = the amounts    *)
(* captured, nothing on the other sides, and nothing of another tenant's         *)
(* (views.py:39-60, services.py:59-86).                                     *)
BooksMatchCaptures ==
    \A t \in {e.tenant : e \in Events} :
        LET booked == {e \in Published : e.tenant = t /\ Booked(e.event) # {}}
            expected == MapThenSumSet(LAMBDA e : e.body.amount, booked)
        IN  /\ Total(t, "CASH", "DEBIT") = expected
            /\ Total(t, "MERCHANT_PAYABLE", "CREDIT") = expected
            /\ Total(t, "CASH", "CREDIT") = 0
            /\ Total(t, "MERCHANT_PAYABLE", "DEBIT") = 0

OutcomesOf(q, e) == {n \in DOMAIN outcomeLog[q] : outcomeLog[q][n].event = e}

(* No event is skipped: one behind the committed offset has its outcome in   *)
(* the topic or was sent to the DLQ, delivered there or not.                *)
AccountedFor ==
    \A q \in Partitions : \A o \in 1..lcommitted[q] :
        LET e == eventLog[q][o].event IN
        OutcomesOf(q, e) # {} \/ e \in eventDlq \cup dlqLost

(* "Park the RAW original bytes on the DLQ so nothing is lost": an event      *)
(* behind the committed offset has its outcome in the topic or is on the DLQ. *)
NothingLost ==
    \A q \in Partitions : \A o \in 1..lcommitted[q] :
        LET e == eventLog[q][o].event IN
        OutcomesOf(q, e) # {} \/ e \in eventDlq
=============================================================================

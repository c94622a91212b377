----------------------------- MODULE OutboxRelay -----------------------------
(***************************************************************************)
(* The outbox relay: any number of relay processes ship PENDING outbox rows *)
(* to the Kafka topic payments.events.  One cycle (run_once) is one database *)
(* transaction that stays open across the network I/O: claim rows with      *)
(* FOR UPDATE SKIP LOCKED, produce each, flush, mark the delivered ones.     *)
(*                                                                         *)
(* The producer object outlives the transaction.  A cycle that raises rolls *)
(* back, but what it already handed to the producer is still sent, and the   *)
(* late acknowledgement lands in the dead cycle's `delivered` list.         *)
(***************************************************************************)
EXTENDS PaymentStore

CONSTANTS
    Workers,        \* web workers, of the environment
    Relays,         \* relay processes
    BatchSize,      \* rows one cycle claims at most
    Partitions,     \* partitions of payments.events
    PartitionOf,    \* payment id -> the partition its key hashes to
    MaxRelayFaults  \* bound: crashes, broken connections and failed sends

ASSUME RelayAssumption ==
    /\ BatchSize \in Nat \ {0}
    /\ PartitionOf \in [PaymentIds -> Partitions]
    /\ MaxRelayFaults \in Nat

VARIABLES
    rpc,            \* relay -> "idle", "send", "flush" or "mark"
    rrows,          \* relay -> claimed rows still to be produced
    rlocks,         \* relay -> rows its open transaction locks
    rqueue,         \* relay -> messages in its producer: [row, live]
    rdelivered,     \* relay -> this cycle's `delivered`
    eventLog,       \* the topic: partition -> sequence of events
    rfaults         \* faults so far

relayVars == <<rpc, rrows, rlocks, rqueue, rdelivered, eventLog, rfaults>>

relayStoreVars == <<storeVars, relayVars>>

Event == [event : Nat, payment : PaymentIds, tenant : Tenants, body : Bodies]

RelayInit ==
    /\ rpc = [r \in Relays |-> "idle"]
    /\ rrows = [r \in Relays |-> {}]
    /\ rlocks = [r \in Relays |-> {}]
    /\ rqueue = [r \in Relays |-> << >>]
    /\ rdelivered = [r \in Relays |-> {}]
    /\ eventLog = [q \in Partitions |-> << >>]
    /\ rfaults = 0

(* _build_value: the outbox row id is the event_id consumers dedupe on.     *)
EventOf(i) == [event |-> i, payment |-> outbox[i].payment,
               tenant |-> outbox[i].tenant, body |-> outbox[i].body]

Fault == rfaults < MaxRelayFaults /\ rfaults' = rfaults + 1

Goes(r, step) == rpc' = [rpc EXCEPT ![r] = step]

----------------------------------------------------------------------------
(* Mutant: without row locks every PENDING row is up for grabs.             *)
Claimable_Unlocked == {i \in DOMAIN outbox : outbox[i].status = "PENDING"}

(* PENDING rows no open transaction locks; SKIP LOCKED passes over the rest. *)
Claimable == {i \in DOMAIN outbox : /\ outbox[i].status = "PENDING"
                                    /\ \A r \in Relays : i \notin rlocks[r]}

(* The oldest BatchSize of them (order_by created_at, LIMIT).               *)
Batch == {i \in Claimable : Cardinality({j \in Claimable : j < i}) < BatchSize}

(* Nothing to claim: return 0, sleep, look again.                          *)
PollNothing(r) ==
    /\ rpc[r] = "idle"
    /\ Batch = {}
    /\ UNCHANGED <<relayVars, storeVars>>

Claim(r) ==
    /\ rpc[r] = "idle"
    /\ Batch # {}
    /\ rrows' = [rrows EXCEPT ![r] = Batch]
    /\ rlocks' = [rlocks EXCEPT ![r] = Batch]
    /\ Goes(r, "send")
    /\ UNCHANGED <<rqueue, rdelivered, eventLog, rfaults, storeVars>>

(* Serialize the oldest remaining row and hand it to the producer.          *)
Produce(r) ==
    /\ rpc[r] = "send"
    /\ \E i \in rrows[r] :
        /\ \A j \in rrows[r] : i <= j
        /\ rqueue' = [rqueue EXCEPT ![r] = Append(@, [row |-> i, live |-> TRUE])]
        /\ rrows' = [rrows EXCEPT ![r] = @ \ {i}]
    /\ UNCHANGED <<rpc, rlocks, rdelivered, eventLog, rfaults, storeVars>>

StartFlush(r) ==
    /\ rpc[r] = "send"
    /\ rrows[r] = {}
    /\ Goes(r, "flush")
    /\ UNCHANGED <<rrows, rlocks, rqueue, rdelivered, eventLog, rfaults, storeVars>>

(* flush() returns when the producer holds nothing any more.               *)
FlushReturns(r) ==
    /\ rpc[r] = "flush"
    /\ rqueue[r] = << >>
    /\ Goes(r, "mark")
    /\ UNCHANGED <<rrows, rlocks, rqueue, rdelivered, eventLog, rfaults, storeVars>>

EndCycle(r) ==
    /\ Goes(r, "idle")
    /\ rrows' = [rrows EXCEPT ![r] = {}]
    /\ rlocks' = [rlocks EXCEPT ![r] = {}]
    /\ rdelivered' = [rdelivered EXCEPT ![r] = {}]

(* UPDATE ... SET status = PUBLISHED for the delivered rows, and commit.    *)
Mark(r) ==
    /\ rpc[r] = "mark"
    /\ rlocks[r] # {}
    /\ MarkPublished(rdelivered[r])
    /\ EndCycle(r)
    /\ UNCHANGED <<payments, payLock, rqueue, eventLog, rfaults>>

----------------------------------------------------------------------------
(* The producer's background thread, at any time from produce() on.         *)
AppendEvent(i) ==
    LET q == PartitionOf[outbox[i].payment] IN
    eventLog' = [eventLog EXCEPT ![q] = Append(@, EventOf(i))]

Dequeue(r) == rqueue' = [rqueue EXCEPT ![r] = Tail(@)]

(* Mutant: the callback notes the message's offset instead of the row id.    *)
Acknowledge_Offset(r, m) ==
    rdelivered' = [rdelivered EXCEPT ![r] =
                      @ \cup {Len(eventLog[PartitionOf[outbox[m.row].payment]])}]

(* The callback appends to the `delivered` list of the cycle that produced  *)
(* the message; if that cycle is dead nobody reads the list again.          *)
Acknowledge(r, m) ==
    rdelivered' = [rdelivered EXCEPT ![r] = IF m.live THEN @ \cup {m.row} ELSE @]

Deliver(r) ==
    /\ rqueue[r] # << >>
    /\ AppendEvent(Head(rqueue[r]).row)
    /\ Acknowledge(r, Head(rqueue[r]))
    /\ Dequeue(r)
    /\ UNCHANGED <<rpc, rrows, rlocks, rfaults, storeVars>>

(* Mutant: a callback that ignores its `err` argument.                      *)
DeliveryFails_ErrIgnored(r) ==
    /\ rqueue[r] # << >>
    /\ Fault
    /\ \/ AppendEvent(Head(rqueue[r]).row)
       \/ UNCHANGED eventLog
    /\ Acknowledge(r, Head(rqueue[r]))
    /\ Dequeue(r)
    /\ UNCHANGED <<rpc, rrows, rlocks, storeVars>>

(* The send fails for good: the callback gets an error.  The broker may have *)
(* written the message all the same (a timed-out acknowledgement).          *)
DeliveryFails(r) ==
    /\ rqueue[r] # << >>
    /\ Fault
    /\ \/ AppendEvent(Head(rqueue[r]).row)
       \/ UNCHANGED eventLog
    /\ Dequeue(r)
    /\ UNCHANGED <<rpc, rrows, rlocks, rdelivered, storeVars>>

(* Mutant: the error path leaves the transaction open.                      *)
CycleRaises_LeftOpen(r) ==
    /\ rpc[r] # "idle"
    /\ Fault
    /\ Goes(r, "idle")
    /\ rrows' = [rrows EXCEPT ![r] = {}]
    /\ rdelivered' = [rdelivered EXCEPT ![r] = {}]
    /\ rqueue' = [rqueue EXCEPT ![r] = [n \in DOMAIN @ |-> [@[n] EXCEPT !.live = FALSE]]]
    /\ UNCHANGED <<rlocks, eventLog, storeVars>>

(* Serializer, produce() or the database raises: the transaction rolls back, *)
(* run() logs and goes on; the producer keeps its messages.                 *)
CycleRaises(r) ==
    /\ rpc[r] # "idle"
    /\ Fault
    /\ EndCycle(r)
    /\ rqueue' = [rqueue EXCEPT ![r] = [n \in DOMAIN @ |-> [@[n] EXCEPT !.live = FALSE]]]
    /\ UNCHANGED <<eventLog, storeVars>>

(* The process dies and is restarted: locks and unsent messages are gone.   *)
RelayCrash(r) ==
    /\ Fault
    /\ EndCycle(r)
    /\ rqueue' = [rqueue EXCEPT ![r] = << >>]
    /\ UNCHANGED <<eventLog, storeVars>>

(* The server drops the session: the locks are released at once, but the     *)
(* relay notices only when it uses the connection, in the UPDATE at the end. *)
ConnectionLost(r) ==
    /\ rpc[r] # "idle"
    /\ rlocks[r] # {}
    /\ Fault
    /\ rlocks' = [rlocks EXCEPT ![r] = {}]
    /\ UNCHANGED <<rpc, rrows, rqueue, rdelivered, eventLog, storeVars>>

MarkFails(r) ==
    /\ rpc[r] = "mark"
    /\ rlocks[r] = {}
    /\ EndCycle(r)
    /\ UNCHANGED <<rqueue, eventLog, rfaults, storeVars>>

RelayStep(r) == \/ Claim(r)
                \/ PollNothing(r)
                \/ Produce(r)
                \/ StartFlush(r)
                \/ FlushReturns(r)
                \/ Mark(r)
                \/ MarkFails(r)

RelayFault(r) == DeliveryFails(r) \/ CycleRaises(r) \/ RelayCrash(r) \/ ConnectionLost(r)

RelayNext == \E r \in Relays : RelayStep(r) \/ Deliver(r) \/ RelayFault(r)

(* A relay that runs keeps stepping, its producer keeps sending.            *)
RelayFairness ==
    \A r \in Relays : /\ WF_relayStoreVars(RelayStep(r))
                      /\ WF_relayStoreVars(Deliver(r))

----------------------------------------------------------------------------
(* The relays' environment: web workers write the payment table and the       *)
(* outbox, saga workers void payments.                                      *)
WebActs(w) == WebWrites(w) /\ UNCHANGED relayVars

SagaVoids(p) == CompensatePayment(p) /\ UNCHANGED relayVars

Init == StoreInit /\ RelayInit

Next == \/ RelayNext
        \/ \E w \in Workers : WebActs(w)
        \/ \E p \in PaymentIds : SagaVoids(p)

Spec == Init /\ [][Next]_relayStoreVars

----------------------------------------------------------------------------
(* The copies of event i that the topic holds.                             *)
Copies(i) ==
    UNION {{<<q, o>> : o \in {n \in DOMAIN eventLog[q] : eventLog[q][n].event = i}} :
              q \in Partitions}

RelayTypeOK ==
    /\ rpc \in [Relays -> {"idle", "send", "flush", "mark"}]
    /\ rrows \in [Relays -> SUBSET DOMAIN outbox]
    /\ rlocks \in [Relays -> SUBSET DOMAIN outbox]
    /\ rqueue \in [Relays -> Seq([row : DOMAIN outbox, live : BOOLEAN])]
    /\ rdelivered \in [Relays -> SUBSET DOMAIN outbox]
    /\ eventLog \in [Partitions -> Seq(Event)]
    /\ rfaults \in 0..MaxRelayFaults

(* A row is marked PUBLISHED only when its event is in the topic: neither a  *)
(* crash, a lost connection nor a late callback loses an event.             *)
PublishedIsLogged ==
    \A i \in DOMAIN outbox : outbox[i].status = "PUBLISHED" => Copies(i) # {}

(* Relays running side by side never publish a row twice by themselves: each *)
(* duplicate in the topic is paid for by a fault.                          *)
DuplicatesNeedFaults ==
    \A i \in DOMAIN outbox : Cardinality(Copies(i)) <= 1 + rfaults

(* No event is ever lost: once faults stop, every outbox row is published.   *)
EveryRowPublished ==
    \A i \in 1..Cardinality(PaymentIds) :
        i \in DOMAIN outbox ~> i \in DOMAIN outbox /\ outbox[i].status = "PUBLISHED"
=============================================================================

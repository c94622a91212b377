-------------------------- MODULE OutboxRelayProofs --------------------------
(***************************************************************************)
(* Proofs about the outbox relay, for any number of relay processes,         *)
(* partitions, payments and faults, and every batch size, next to web workers *)
(* and saga workers that write the same tables.                             *)
(***************************************************************************)
EXTENDS OutboxRelay, FiniteSetTheorems, SequenceTheorems, TLAPS

(* What the relay needs of the payment table and the outbox.                *)
StoreOK ==
    /\ DOMAIN payments \subseteq PaymentIds
    /\ payments \in [DOMAIN payments -> PaymentRow]
    /\ outbox \in Seq(OutboxRow)

(* What lies where between two steps of a cycle: an idle relay holds nothing, *)
(* a message of a dead cycle is never live, and everything claimed has been   *)
(* produced before the flush.                                              *)
CycleInv ==
    \A r \in Relays :
        /\ rpc[r] = "idle" => rrows[r] = {} /\ rlocks[r] = {} /\ rdelivered[r] = {}
        /\ rpc[r] \in {"flush", "mark"} => rrows[r] = {}
        /\ rpc[r] \in {"idle", "mark"} => \A n \in DOMAIN rqueue[r] : ~rqueue[r][n].live

(* A logged event is a row of the outbox, in the partition of its payment.     *)
LogIsOutbox ==
    \A q \in Partitions : \A n \in DOMAIN eventLog[q] :
        \E i \in DOMAIN outbox : /\ eventLog[q][n] = EventOf(i)
                               /\ q = PartitionOf[outbox[i].payment]

(* A row noted as delivered is in the topic.                               *)
DeliveredIsLogged == \A r \in Relays : \A i \in rdelivered[r] : Copies(i) # {}

Shape == StoreOK /\ RelayTypeOK /\ CycleInv

----------------------------------------------------------------------------
(* The copies of an event are its places in the topic.                     *)
LEMMA CopiesAre ==
    \A i, c : c \in Copies(i) <=>
        \E q \in Partitions : \E o \in DOMAIN eventLog[q] :
            c = <<q, o>> /\ eventLog[q][o].event = i
BY DEF Copies

LEMMA CopiesAreNext ==
    \A i, c : c \in Copies(i)' <=>
        \E q \in Partitions : \E o \in DOMAIN eventLog'[q] :
            c = <<q, o>> /\ eventLog'[q][o].event = i
BY DEF Copies

(* A row of the outbox makes a well-formed event with a partition.           *)
LEMMA EventTyped ==
    ASSUME Shape, NEW i \in DOMAIN outbox
    PROVE  /\ EventOf(i) \in Event
           /\ EventOf(i).event = i
           /\ PartitionOf[outbox[i].payment] \in Partitions
<1>1. outbox[i] \in OutboxRow /\ i \in Nat
  BY DEF Shape, StoreOK
<1> QED BY <1>1, RelayAssumption DEF EventOf, Event, OutboxRow

(* The topic grows by one event of one partition.                          *)
LEMMA AppendTyped ==
    ASSUME Shape, NEW i \in DOMAIN outbox, AppendEvent(i)
    PROVE  /\ eventLog' \in [Partitions -> Seq(Event)]
           /\ \E q \in Partitions :
                /\ q = PartitionOf[outbox[i].payment]
                /\ Len(eventLog[q]) \in Nat
                /\ DOMAIN eventLog[q] = 1..Len(eventLog[q])
                /\ DOMAIN eventLog'[q] = 1..(Len(eventLog[q]) + 1)
                /\ eventLog'[q][Len(eventLog[q]) + 1] = EventOf(i)
                /\ \A o \in DOMAIN eventLog[q] : eventLog'[q][o] = eventLog[q][o]
                /\ \A p \in Partitions \ {q} : eventLog'[p] = eventLog[p]
<1> DEFINE q == PartitionOf[outbox[i].payment]
<1>1. EventOf(i) \in Event /\ q \in Partitions
  BY EventTyped
<1>2. eventLog \in [Partitions -> Seq(Event)]
  BY DEF Shape, RelayTypeOK
<1>3. eventLog[q] \in Seq(Event)
  BY <1>1, <1>2
<1>4. eventLog' = [eventLog EXCEPT ![q] = Append(eventLog[q], EventOf(i))]
  BY DEF AppendEvent
<1> DEFINE e == EventOf(i)
           new == Append(eventLog[q], e)
<1> HIDE DEF q, e
<1>5. /\ new \in Seq(Event)
      /\ Len(eventLog[q]) \in Nat
      /\ DOMAIN eventLog[q] = 1..Len(eventLog[q])
      /\ DOMAIN new = 1..(Len(eventLog[q]) + 1)
      /\ new[Len(eventLog[q]) + 1] = e
      /\ \A o \in DOMAIN eventLog[q] : new[o] = eventLog[q][o]
  BY <1>1, <1>3, AppendProperties, LenProperties DEF e
<1> HIDE DEF new
<1>6. eventLog' \in [Partitions -> Seq(Event)]
  BY <1>1, <1>2, <1>4, <1>5 DEF new, e
<1>7. /\ eventLog'[q] = new
      /\ \A p \in Partitions \ {q} : eventLog'[p] = eventLog[p]
  BY <1>1, <1>2, <1>4 DEF new, e
<1> QED BY <1>1, <1>5, <1>6, <1>7 DEF q, e

(* Taking the first message off a relay's queue.                           *)
LEMMA DequeueTyped ==
    ASSUME RelayTypeOK, NEW r \in Relays, rqueue[r] # << >>, Dequeue(r)
    PROVE  /\ Head(rqueue[r]) = rqueue[r][1]
           /\ Head(rqueue[r]) \in [row : DOMAIN outbox, live : BOOLEAN]
           /\ 1 \in DOMAIN rqueue[r]
           /\ rqueue' \in [Relays -> Seq([row : DOMAIN outbox, live : BOOLEAN])]
           /\ \A n \in DOMAIN rqueue'[r] :
                 n + 1 \in DOMAIN rqueue[r] /\ rqueue'[r][n] = rqueue[r][n + 1]
           /\ \A n \in DOMAIN rqueue[r] :
                 n = 1 \/ (n - 1 \in DOMAIN rqueue'[r] /\ rqueue'[r][n - 1] = rqueue[r][n])
           /\ \A s \in Relays \ {r} : rqueue'[s] = rqueue[s]
<1> DEFINE Messages == [row : DOMAIN outbox, live : BOOLEAN]
           q == rqueue[r]
<1>1. rqueue \in [Relays -> Seq(Messages)] /\ q \in Seq(Messages) /\ q # << >>
  BY DEF RelayTypeOK
<1>2. rqueue' = [rqueue EXCEPT ![r] = Tail(q)]
  BY DEF Dequeue
<1> HIDE DEF Messages, q
<1>3. /\ Head(q) \in Messages /\ Head(q) = q[1]
      /\ Tail(q) \in Seq(Messages)
      /\ Len(Tail(q)) = Len(q) - 1
      /\ \A n \in 1..Len(Tail(q)) : Tail(q)[n] = q[n + 1]
      /\ DOMAIN q = 1..Len(q) /\ Len(q) \in Nat \ {0}
      /\ DOMAIN Tail(q) = 1..Len(Tail(q))
  BY <1>1, HeadTailProperties, LenProperties, EmptySeq
<1>4. /\ rqueue'[r] = Tail(q)
      /\ \A s \in Relays \ {r} : rqueue'[s] = rqueue[s]
      /\ rqueue' \in [Relays -> Seq(Messages)]
  BY <1>1, <1>2, <1>3
<1> QED BY <1>3, <1>4 DEF Messages, q
----------------------------------------------------------------------------
(* Marking rows published changes their status and nothing else.             *)
LEMMA MarkTyped ==
    ASSUME StoreOK, NEW S, MarkPublished(S)
    PROVE  /\ outbox' \in Seq(OutboxRow)
           /\ DOMAIN outbox' = DOMAIN outbox
           /\ \A i \in DOMAIN outbox :
                 /\ outbox'[i].payment = outbox[i].payment
                 /\ outbox'[i].tenant = outbox[i].tenant
                 /\ outbox'[i].body = outbox[i].body
                 /\ outbox'[i].status = IF i \in S THEN "PUBLISHED" ELSE outbox[i].status
<1> DEFINE marked(i) == [outbox[i] EXCEPT !.status = "PUBLISHED"]
<1>1. /\ outbox \in Seq(OutboxRow)
      /\ DOMAIN outbox = 1..Len(outbox) /\ Len(outbox) \in Nat
      /\ \A i \in DOMAIN outbox : outbox[i] \in OutboxRow
  BY DEF StoreOK
<1>2. \A i \in DOMAIN outbox :
          /\ marked(i) \in OutboxRow
          /\ marked(i).payment = outbox[i].payment
          /\ marked(i).tenant = outbox[i].tenant
          /\ marked(i).body = outbox[i].body
          /\ marked(i).status = "PUBLISHED"
  BY <1>1 DEF OutboxRow, OutboxStatuses
<1>3. outbox' = [i \in DOMAIN outbox |-> IF i \in S THEN marked(i) ELSE outbox[i]]
  BY DEF MarkPublished
<1> HIDE DEF marked
<1> QED BY <1>1, <1>2, <1>3

(* What a capture does to the outbox: a new PENDING row behind the others.    *)
OutboxGrows ==
    /\ outbox' \in Seq(OutboxRow)
    /\ Len(outbox) \in Nat
    /\ DOMAIN outbox = 1..Len(outbox)
    /\ DOMAIN outbox' = 1..(Len(outbox) + 1)
    /\ \A i \in DOMAIN outbox : outbox'[i] = outbox[i]
    /\ outbox'[Len(outbox) + 1].status = "PENDING"

Environment == \/ \E w \in Workers : WebActs(w)
               \/ \E p \in PaymentIds : SagaVoids(p)

(* A status is written into the row of one payment.                         *)
LEMMA StatusTyped ==
    ASSUME StoreOK, NEW p \in DOMAIN payments, NEW st \in Statuses, SetStatus(p, st)
    PROVE  DOMAIN payments' = DOMAIN payments /\ payments' \in [DOMAIN payments -> PaymentRow]
<1>1. payments \in [DOMAIN payments -> PaymentRow]
  BY DEF StoreOK
<1>2. payments' = [payments EXCEPT ![p].status = st]
  BY DEF SetStatus
<1>3. payments[p] \in PaymentRow
  BY <1>1
<1>4. [payments[p] EXCEPT !.status = st] \in PaymentRow
  BY <1>3 DEF PaymentRow
<1> QED BY <1>1, <1>2, <1>4

(* The other processes of the service keep the store well-formed, leave the     *)
(* relay alone, and change the outbox by captures only.                      *)
LEMMA EnvironmentTyped ==
    ASSUME StoreOK, Environment
    PROVE  StoreOK' /\ UNCHANGED relayVars /\ (UNCHANGED outbox \/ OutboxGrows)
<1>1. UNCHANGED relayVars
  BY DEF Environment, WebActs, SagaVoids
<1>2. ASSUME NEW p \in PaymentIds, NEW w, WebCaptures(p, w)
      PROVE  StoreOK' /\ OutboxGrows
  <2>1. /\ p \in DOMAIN payments /\ SetStatus(p, "CAPTURED")
        /\ outbox' = Append(outbox, CapturedRow(p))
    BY <1>2 DEF WebCaptures, WriteOutbox
  <2>2. payments[p] \in PaymentRow /\ outbox \in Seq(OutboxRow)
    BY <2>1 DEF StoreOK
  <2>3. CapturedRow(p) \in OutboxRow /\ CapturedRow(p).status = "PENDING"
    BY <2>2 DEF CapturedRow, OutboxRow, PaymentRow, OutboxStatuses
  <2>4. OutboxGrows
    BY <2>1, <2>2, <2>3, AppendProperties, LenProperties DEF OutboxGrows
  <2>5. DOMAIN payments' = DOMAIN payments /\ payments' \in [DOMAIN payments -> PaymentRow]
    BY <2>1, StatusTyped DEF Statuses
  <2> QED BY <2>4, <2>5 DEF StoreOK, OutboxGrows
<1>3. ASSUME NEW p \in PaymentIds, NEW t \in Tenants, NEW k \in Keys \cup {NoKey},
             NEW b \in Bodies, WebAuthorizes(p, t, k, b)
      PROVE  StoreOK' /\ UNCHANGED outbox
  <2> DEFINE row == [tenant |-> t, key |-> k, body |-> b, status |-> "AUTHORIZED"]
  <2>1. payments' = [r \in DOMAIN payments \cup {p} |-> IF r = p THEN row ELSE payments[r]]
    BY <1>3 DEF WebAuthorizes, InsertPayment
  <2>2. row \in PaymentRow
    BY DEF PaymentRow, Statuses
  <2> HIDE DEF row
  <2>3. payments' \in [DOMAIN payments' -> PaymentRow] /\ DOMAIN payments' \subseteq PaymentIds
    BY <2>1, <2>2 DEF StoreOK
  <2> QED BY <1>3, <2>3 DEF StoreOK, WebAuthorizes
<1>4. ASSUME NEW p \in PaymentIds, NEW w, WebLocks(p, w) \/ WebEnds(w)
      PROVE  StoreOK' /\ UNCHANGED outbox
  BY <1>4 DEF WebLocks, WebEnds, StoreOK
<1>5. ASSUME NEW w, WebEnds(w)
      PROVE  StoreOK' /\ UNCHANGED outbox
  BY <1>5 DEF WebEnds, StoreOK
<1>6. ASSUME NEW p \in PaymentIds, CompensatePayment(p)
      PROVE  StoreOK' /\ UNCHANGED outbox
  <2>1. CASE Compensable(p)
    <3>1. SetStatus(p, "VOIDED") /\ p \in DOMAIN payments /\ UNCHANGED outbox
      BY <1>6, <2>1 DEF CompensatePayment, Compensable
    <3>2. DOMAIN payments' = DOMAIN payments /\ payments' \in [DOMAIN payments -> PaymentRow]
      BY <3>1, StatusTyped DEF Statuses
    <3> QED BY <3>1, <3>2 DEF StoreOK
  <2>2. CASE ~Compensable(p)
    BY <1>6, <2>2 DEF CompensatePayment, StoreOK
  <2> QED BY <2>1, <2>2
<1> QED BY <1>1, <1>2, <1>3, <1>4, <1>5, <1>6 DEF Environment, WebActs, WebWrites, SagaVoids

(* With more rows in the outbox every relay variable keeps its type.         *)
LEMMA RelayTypeKept ==
    ASSUME RelayTypeOK, UNCHANGED relayVars, DOMAIN outbox \subseteq DOMAIN outbox'
    PROVE  RelayTypeOK'
<1>1. \A r \in Relays : rqueue[r] \in Seq([row : DOMAIN outbox', live : BOOLEAN])
  <2> SUFFICES ASSUME NEW r \in Relays
               PROVE  rqueue[r] \in Seq([row : DOMAIN outbox', live : BOOLEAN])
    OBVIOUS
  <2>1. rqueue[r] \in Seq([row : DOMAIN outbox, live : BOOLEAN])
    BY DEF RelayTypeOK
  <2>2. [row : DOMAIN outbox, live : BOOLEAN] \subseteq [row : DOMAIN outbox', live : BOOLEAN]
    OBVIOUS
  <2> QED BY <2>1, <2>2, SeqMonotonic
<1> QED BY <1>1 DEF RelayTypeOK, relayVars

(* The end of a cycle: the relay is idle and empty-handed, its queue is not    *)
(* the cycle's any more.                                                   *)
LEMMA EndTyped ==
    ASSUME RelayTypeOK, NEW r \in Relays, EndCycle(r)
    PROVE  /\ rpc' \in [Relays -> {"idle", "send", "flush", "mark"}]
           /\ rrows' \in [Relays -> SUBSET DOMAIN outbox]
           /\ rlocks' \in [Relays -> SUBSET DOMAIN outbox]
           /\ rdelivered' \in [Relays -> SUBSET DOMAIN outbox]
           /\ rpc'[r] = "idle" /\ rrows'[r] = {} /\ rlocks'[r] = {} /\ rdelivered'[r] = {}
           /\ \A s \in Relays \ {r} :
                 /\ rpc'[s] = rpc[s] /\ rrows'[s] = rrows[s]
                 /\ rlocks'[s] = rlocks[s] /\ rdelivered'[s] = rdelivered[s]
BY DEF RelayTypeOK, EndCycle, Goes

(* A dead cycle's messages stay in the queue, none of them live.             *)
LEMMA KillTyped ==
    ASSUME RelayTypeOK, NEW r \in Relays,
           rqueue' = [rqueue EXCEPT ![r] = [n \in DOMAIN @ |-> [@[n] EXCEPT !.live = FALSE]]]
    PROVE  /\ rqueue' \in [Relays -> Seq([row : DOMAIN outbox, live : BOOLEAN])]
           /\ DOMAIN rqueue'[r] = DOMAIN rqueue[r]
           /\ \A n \in DOMAIN rqueue[r] :
                 ~rqueue'[r][n].live /\ rqueue'[r][n].row = rqueue[r][n].row
           /\ \A s \in Relays \ {r} : rqueue'[s] = rqueue[s]
<1> DEFINE Messages == [row : DOMAIN outbox, live : BOOLEAN]
           q == rqueue[r]
           dead(n) == [q[n] EXCEPT !.live = FALSE]
           new == [n \in DOMAIN q |-> dead(n)]
<1>1. rqueue \in [Relays -> Seq(Messages)] /\ q \in Seq(Messages)
  BY DEF RelayTypeOK
<1> HIDE DEF Messages, q
<1>2. DOMAIN q = 1..Len(q) /\ Len(q) \in Nat /\ \A n \in DOMAIN q : q[n] \in Messages
  BY <1>1
<1>3. \A n \in DOMAIN q : dead(n) \in Messages /\ ~dead(n).live /\ dead(n).row = q[n].row
  BY <1>2 DEF Messages
<1>4. rqueue' = [rqueue EXCEPT ![r] = new]
  BY DEF q
<1> HIDE DEF dead
<1>5. new \in Seq(Messages) /\ DOMAIN new = DOMAIN q /\ \A n \in DOMAIN q : new[n] = dead(n)
  BY <1>2, <1>3
<1> HIDE DEF new
<1>6. /\ rqueue'[r] = new
      /\ rqueue' \in [Relays -> Seq(Messages)]
      /\ \A s \in Relays \ {r} : rqueue'[s] = rqueue[s]
  BY <1>1, <1>4, <1>5
<1> QED BY <1>3, <1>5, <1>6 DEF Messages, q

(* Handing row i to the producer.                                          *)
LEMMA EnqueueTyped ==
    ASSUME RelayTypeOK, NEW r \in Relays, NEW i \in DOMAIN outbox,
           rqueue' = [rqueue EXCEPT ![r] = Append(@, [row |-> i, live |-> TRUE])]
    PROVE  /\ rqueue' \in [Relays -> Seq([row : DOMAIN outbox, live : BOOLEAN])]
           /\ Len(rqueue[r]) \in Nat
           /\ DOMAIN rqueue[r] = 1..Len(rqueue[r])
           /\ DOMAIN rqueue'[r] = 1..(Len(rqueue[r]) + 1)
           /\ \A n \in DOMAIN rqueue[r] : rqueue'[r][n] = rqueue[r][n]
           /\ rqueue'[r][Len(rqueue[r]) + 1] = [row |-> i, live |-> TRUE]
           /\ \A s \in Relays \ {r} : rqueue'[s] = rqueue[s]
<1> DEFINE Messages == [row : DOMAIN outbox, live : BOOLEAN]
           q == rqueue[r]
           m == [row |-> i, live |-> TRUE]
           new == Append(q, m)
<1>1. rqueue \in [Relays -> Seq(Messages)] /\ q \in Seq(Messages) /\ m \in Messages
  BY DEF RelayTypeOK
<1>2. rqueue' = [rqueue EXCEPT ![r] = new]
  OBVIOUS
<1> HIDE DEF Messages, q, m
<1>3. /\ new \in Seq(Messages)
      /\ DOMAIN new = 1..(Len(q) + 1) /\ DOMAIN q = 1..Len(q) /\ Len(q) \in Nat
      /\ \A n \in DOMAIN q : new[n] = q[n]
      /\ new[Len(q) + 1] = m
  BY <1>1, AppendProperties, LenProperties
<1> HIDE DEF new
<1>4. /\ rqueue'[r] = new
      /\ rqueue' \in [Relays -> Seq(Messages)]
      /\ \A s \in Relays \ {r} : rqueue'[s] = rqueue[s]
  BY <1>1, <1>2, <1>3
<1> QED BY <1>3, <1>4 DEF Messages, q, m
----------------------------------------------------------------------------
LEMMA ShapeStep ==
    ASSUME Shape, [Next]_relayStoreVars
    PROVE  Shape'
<1> USE DEF Shape
<1>0. ASSUME UNCHANGED storeVars PROVE StoreOK'
  BY <1>0 DEF StoreOK, storeVars
<1>1. ASSUME NEW r \in Relays, Claim(r)
      PROVE  Shape'
  <2>1. Batch \subseteq DOMAIN outbox
    BY DEF Batch, Claimable
  <2>2. RelayTypeOK'
    BY <1>1, <2>1 DEF Claim, Goes, RelayTypeOK, storeVars
  <2>3. CycleInv'
    BY <1>1 DEF Claim, Goes, RelayTypeOK, CycleInv
  <2> QED BY <1>0, <1>1, <2>2, <2>3 DEF Claim
<1>2. ASSUME NEW r \in Relays, Produce(r)
      PROVE  Shape'
  <2>1. PICK i \in rrows[r] :
            /\ rqueue' = [rqueue EXCEPT ![r] = Append(@, [row |-> i, live |-> TRUE])]
            /\ rrows' = [rrows EXCEPT ![r] = @ \ {i}]
    BY <1>2 DEF Produce
  <2>2. i \in DOMAIN outbox
    BY DEF RelayTypeOK
  <2>3. rqueue' \in [Relays -> Seq([row : DOMAIN outbox, live : BOOLEAN])]
    BY <2>1, <2>2, EnqueueTyped
  <2>4. RelayTypeOK'
    BY <1>2, <2>1, <2>3 DEF Produce, RelayTypeOK, storeVars
  <2>5. \A s \in Relays \ {r} : rqueue'[s] = rqueue[s] /\ rrows'[s] = rrows[s]
    BY <2>1, <2>2, EnqueueTyped DEF RelayTypeOK
  <2>6. CycleInv'
    BY <1>2, <2>5 DEF Produce, RelayTypeOK, CycleInv
  <2> QED BY <1>0, <1>2, <2>4, <2>6 DEF Produce
<1>3. ASSUME NEW r \in Relays, StartFlush(r) \/ FlushReturns(r)
      PROVE  Shape'
  <2>1. RelayTypeOK'
    BY <1>3 DEF StartFlush, FlushReturns, Goes, RelayTypeOK, storeVars
  <2>2. CycleInv'
    <3>1. rqueue[r] = << >> => DOMAIN rqueue[r] = {}
      OBVIOUS
    <3>2. rpc' = [rpc EXCEPT ![r] = IF StartFlush(r) THEN "flush" ELSE "mark"]
      BY <1>3 DEF StartFlush, FlushReturns, Goes
    <3>3. rpc \in [Relays -> {"idle", "send", "flush", "mark"}]
      BY DEF RelayTypeOK
    <3> QED BY <1>3, <3>1, <3>2, <3>3 DEF StartFlush, FlushReturns, CycleInv
  <2> QED BY <1>0, <1>3, <2>1, <2>2 DEF StartFlush, FlushReturns
<1>4. ASSUME NEW r \in Relays, Mark(r)
      PROVE  Shape'
  <2>1. /\ outbox' \in Seq(OutboxRow) /\ DOMAIN outbox' = DOMAIN outbox
        /\ StoreOK'
    BY <1>4, MarkTyped DEF Mark, StoreOK
  <2>2. /\ rqueue' \in [Relays -> Seq([row : DOMAIN outbox, live : BOOLEAN])]
        /\ UNCHANGED <<rqueue, eventLog, rfaults>>
    BY <1>4 DEF Mark, RelayTypeOK
  <2>3. RelayTypeOK'
    BY <1>4, <2>1, <2>2, EndTyped DEF Mark, RelayTypeOK
  <2>4. CycleInv'
    BY <1>4, EndTyped DEF Mark, CycleInv
  <2> QED BY <2>1, <2>3, <2>4
<1>5. ASSUME NEW r \in Relays, MarkFails(r)
      PROVE  Shape'
  <2>1. RelayTypeOK'
    BY <1>5, EndTyped DEF MarkFails, RelayTypeOK, storeVars
  <2>2. CycleInv'
    BY <1>5, EndTyped DEF MarkFails, CycleInv
  <2> QED BY <1>0, <1>5, <2>1, <2>2 DEF MarkFails
<1>6. ASSUME NEW r \in Relays, Deliver(r) \/ DeliveryFails(r)
      PROVE  Shape'
  <2> DEFINE m == Head(rqueue[r])
  <2>1. rqueue[r] # << >> /\ Dequeue(r) /\ UNCHANGED <<rpc, rrows, rlocks, storeVars>>
    BY <1>6 DEF Deliver, DeliveryFails
  <2>2. m \in [row : DOMAIN outbox, live : BOOLEAN]
    BY <2>1, DequeueTyped
  <2>3. eventLog' \in [Partitions -> Seq(Event)]
    <3>1. AppendEvent(m.row) \/ UNCHANGED eventLog
      BY <1>6 DEF Deliver, DeliveryFails
    <3> QED BY <2>2, <3>1, AppendTyped DEF RelayTypeOK
  <2>4. rqueue' \in [Relays -> Seq([row : DOMAIN outbox, live : BOOLEAN])]
    BY <2>1, DequeueTyped
  <2>5. rdelivered' \in [Relays -> SUBSET DOMAIN outbox]
    <3>1. UNCHANGED rdelivered \/ Acknowledge(r, m)
      BY <1>6 DEF Deliver, DeliveryFails
    <3>2. rdelivered \in [Relays -> SUBSET DOMAIN outbox] /\ m.row \in DOMAIN outbox
      BY <2>2 DEF RelayTypeOK
    <3> HIDE DEF m, Shape
    <3> QED BY <3>1, <3>2 DEF Acknowledge
  <2>6. rfaults' \in 0..MaxRelayFaults
    BY <1>6, RelayAssumption DEF Deliver, DeliveryFails, Fault, RelayTypeOK
  <2>7. RelayTypeOK'
    BY <2>1, <2>3, <2>4, <2>5, <2>6 DEF RelayTypeOK, storeVars
  <2>8. /\ \A n \in DOMAIN rqueue'[r] :
              n + 1 \in DOMAIN rqueue[r] /\ rqueue'[r][n] = rqueue[r][n + 1]
        /\ \A s \in Relays \ {r} : rqueue'[s] = rqueue[s]
    BY <2>1, DequeueTyped
  <2>9. \A s \in Relays : rpc[s] = "idle" => rdelivered'[s] = {}
    <3>1. rpc[r] = "idle" => ~m.live
      BY <2>1, DequeueTyped DEF CycleInv
    <3>2. Deliver(r) => Acknowledge(r, m)
      BY DEF Deliver
    <3> QED BY <1>6, <3>1, <3>2 DEF DeliveryFails, Acknowledge, CycleInv, RelayTypeOK
  <2>10. CycleInv'
    BY <2>1, <2>8, <2>9 DEF CycleInv
  <2> QED BY <1>0, <2>1, <2>7, <2>10
<1>7. ASSUME NEW r \in Relays, CycleRaises(r) \/ RelayCrash(r)
      PROVE  Shape'
  <2>1. EndCycle(r) /\ UNCHANGED <<eventLog, storeVars>>
    BY <1>7 DEF CycleRaises, RelayCrash
  <2>2. /\ rqueue' \in [Relays -> Seq([row : DOMAIN outbox, live : BOOLEAN])]
        /\ \A n \in DOMAIN rqueue'[r] : ~rqueue'[r][n].live
        /\ \A s \in Relays \ {r} : rqueue'[s] = rqueue[s]
    <3>1. CASE CycleRaises(r)
      BY <3>1, KillTyped DEF CycleRaises
    <3>2. CASE RelayCrash(r)
      <4>1. << >> \in Seq([row : DOMAIN outbox, live : BOOLEAN]) /\ DOMAIN << >> = {}
        OBVIOUS
      <4>2. rqueue' = [rqueue EXCEPT ![r] = << >>]
        BY <3>2 DEF RelayCrash
      <4>3. rqueue \in [Relays -> Seq([row : DOMAIN outbox, live : BOOLEAN])]
        BY DEF RelayTypeOK
      <4> HIDE DEF Shape
      <4> QED BY <4>1, <4>2, <4>3
    <3> QED BY <1>7, <3>1, <3>2
  <2>3. rfaults' \in 0..MaxRelayFaults
    BY <1>7, RelayAssumption DEF CycleRaises, RelayCrash, Fault, RelayTypeOK
  <2>4. RelayTypeOK'
    BY <2>1, <2>2, <2>3, EndTyped DEF RelayTypeOK, storeVars
  <2>5. CycleInv'
    BY <2>1, <2>2, EndTyped DEF CycleInv
  <2> QED BY <1>0, <2>1, <2>4, <2>5
<1>8. ASSUME NEW r \in Relays, ConnectionLost(r)
      PROVE  Shape'
  <2>1. RelayTypeOK'
    <3>1. /\ rlocks' = [rlocks EXCEPT ![r] = {}]
          /\ UNCHANGED <<rpc, rrows, rqueue, rdelivered, eventLog, outbox>>
      BY <1>8 DEF ConnectionLost, storeVars
    <3>2. rfaults' \in 0..MaxRelayFaults
      BY <1>8, RelayAssumption DEF ConnectionLost, Fault, RelayTypeOK
    <3> QED BY <3>1, <3>2 DEF RelayTypeOK
  <2>2. CycleInv'
    BY <1>8 DEF ConnectionLost, RelayTypeOK, CycleInv
  <2> QED BY <1>0, <1>8, <2>1, <2>2 DEF ConnectionLost
<1>9. ASSUME Environment
      PROVE  Shape'
  <2>1. StoreOK' /\ UNCHANGED relayVars /\ DOMAIN outbox \subseteq DOMAIN outbox'
    BY <1>9, EnvironmentTyped DEF OutboxGrows
  <2>2. RelayTypeOK'
    BY <2>1, RelayTypeKept
  <2> QED BY <2>1, <2>2 DEF CycleInv, relayVars
<1>10. CASE UNCHANGED relayStoreVars
  <2>1. RelayTypeOK' /\ CycleInv'
    BY <1>10, RelayTypeKept DEF relayStoreVars, relayVars, storeVars, CycleInv
  <2> QED BY <1>0, <1>10, <2>1 DEF relayStoreVars
<1>11. ASSUME NEW r \in Relays, PollNothing(r) PROVE Shape'
  BY <1>10, <1>11 DEF PollNothing, relayStoreVars
<1> QED BY <1>1, <1>2, <1>3, <1>4, <1>5, <1>6, <1>7, <1>8, <1>9, <1>10, <1>11
    DEF Next, RelayNext, RelayStep, RelayFault, Environment

LEMMA ShapeInit ==
    ASSUME Init
    PROVE  Shape
<1>1. StoreOK
  <2>1. payments = << >> /\ outbox = << >> /\ DOMAIN << >> = {}
    BY DEF Init, StoreInit
  <2>2. << >> \in Seq(OutboxRow) /\ << >> \in [{} -> PaymentRow]
    OBVIOUS
  <2> QED BY <2>1, <2>2 DEF StoreOK
<1>2. RelayTypeOK
  <2>1. << >> \in Seq([row : DOMAIN outbox, live : BOOLEAN]) /\ << >> \in Seq(Event)
    OBVIOUS
  <2> QED BY <2>1, RelayAssumption DEF Init, RelayInit, RelayTypeOK
<1>3. CycleInv
  BY DEF Init, RelayInit, CycleInv
<1> QED BY <1>1, <1>2, <1>3 DEF Shape

THEOREM ShapeCorrect == Spec => []Shape
BY ShapeInit, ShapeStep, PTL DEF Spec

(* The relay's variables keep their types: a claimed, locked, queued or       *)
(* delivered row is always a row of the outbox.                            *)
THEOREM RelayTypeCorrect == Spec => []RelayTypeOK
<1>1. Shape => RelayTypeOK
  BY DEF Shape
<1> QED BY <1>1, ShapeCorrect, PTL

----------------------------------------------------------------------------
(* Logging row k adds one copy of it and none of any other.                 *)
LEMMA AppendCopies ==
    ASSUME Shape, NEW k \in DOMAIN outbox, AppendEvent(k)
    PROVE  /\ \E c : Copies(k)' = Copies(k) \cup {c}
           /\ \A i : i # k => Copies(i)' = Copies(i)
<1>1. PICK q \in Partitions :
        /\ Len(eventLog[q]) \in Nat
        /\ DOMAIN eventLog[q] = 1..Len(eventLog[q])
        /\ DOMAIN eventLog'[q] = 1..(Len(eventLog[q]) + 1)
        /\ eventLog'[q][Len(eventLog[q]) + 1] = EventOf(k)
        /\ \A o \in DOMAIN eventLog[q] : eventLog'[q][o] = eventLog[q][o]
        /\ \A p \in Partitions \ {q} : eventLog'[p] = eventLog[p]
  BY AppendTyped
<1> DEFINE new == Len(eventLog[q]) + 1
<1>2. EventOf(k).event = k
  BY DEF EventOf
<1>3. /\ DOMAIN eventLog'[q] = DOMAIN eventLog[q] \cup {new}
      /\ eventLog'[q][new].event = k
  BY <1>1, <1>2
<1> HIDE DEF new
<1>4. \A i, c : c \in Copies(i)' <=> c \in Copies(i) \/ (c = <<q, new>> /\ i = k)
  <2> SUFFICES ASSUME NEW i, NEW c
               PROVE  c \in Copies(i)' <=> c \in Copies(i) \/ (c = <<q, new>> /\ i = k)
    OBVIOUS
  <2>1. ASSUME c \in Copies(i)' PROVE c \in Copies(i) \/ (c = <<q, new>> /\ i = k)
    <3>1. PICK p \in Partitions : \E o \in DOMAIN eventLog'[p] :
              c = <<p, o>> /\ eventLog'[p][o].event = i
      BY <2>1, CopiesAreNext
    <3> PICK o \in DOMAIN eventLog'[p] : c = <<p, o>> /\ eventLog'[p][o].event = i
      BY <3>1
    <3>2. CASE p = q /\ o = new
      BY <3>1, <3>2, <1>3
    <3>3. CASE p # q \/ o # new
      <4>1. o \in DOMAIN eventLog[p] /\ eventLog'[p][o] = eventLog[p][o]
        BY <1>1, <1>3, <3>3
      <4> QED BY <3>1, <4>1, CopiesAre
    <3> QED BY <3>2, <3>3
  <2>2. ASSUME c \in Copies(i) PROVE c \in Copies(i)'
    <3>1. PICK p \in Partitions : \E o \in DOMAIN eventLog[p] :
              c = <<p, o>> /\ eventLog[p][o].event = i
      BY <2>2, CopiesAre
    <3> PICK o \in DOMAIN eventLog[p] : c = <<p, o>> /\ eventLog[p][o].event = i
      BY <3>1
    <3>2. o \in DOMAIN eventLog'[p] /\ eventLog'[p][o] = eventLog[p][o]
      BY <1>1, <1>3
    <3> QED BY <3>1, <3>2, CopiesAreNext
  <2>3. <<q, new>> \in Copies(k)'
    BY <1>3, CopiesAreNext
  <2> QED BY <2>1, <2>2, <2>3
<1>5. Copies(k)' = Copies(k) \cup {<<q, new>>}
  BY <1>4
<1>6. \A i : i # k => Copies(i)' = Copies(i)
  BY <1>4
<1> QED BY <1>5, <1>6

(* With the topic unchanged so are the copies.                             *)
LEMMA CopiesUnchanged ==
    ASSUME UNCHANGED eventLog
    PROVE  \A i : Copies(i)' = Copies(i)
BY DEF Copies

(* A step either logs one row of the outbox or leaves the topic alone.         *)
LEMMA StepLogs ==
    ASSUME Shape, [Next]_relayStoreVars
    PROVE  \/ UNCHANGED eventLog
           \/ /\ UNCHANGED storeVars
              /\ \E i \in DOMAIN outbox : AppendEvent(i)
<1>1. ASSUME NEW r \in Relays, Deliver(r) \/ DeliveryFails(r)
      PROVE  \/ UNCHANGED eventLog
             \/ UNCHANGED storeVars /\ \E i \in DOMAIN outbox : AppendEvent(i)
  <2>1. rqueue[r] # << >> /\ Dequeue(r) /\ UNCHANGED storeVars
    BY <1>1 DEF Deliver, DeliveryFails
  <2>2. Head(rqueue[r]).row \in DOMAIN outbox
    BY <2>1, DequeueTyped DEF Shape
  <2> QED BY <1>1, <2>1, <2>2 DEF Deliver, DeliveryFails
<1>2. ASSUME NEW r \in Relays,
             RelayStep(r) \/ CycleRaises(r) \/ RelayCrash(r) \/ ConnectionLost(r)
      PROVE  UNCHANGED eventLog
  BY <1>2 DEF RelayStep, Claim, PollNothing, Produce, StartFlush, FlushReturns, Mark,
              MarkFails, CycleRaises, RelayCrash, ConnectionLost, relayVars
<1>3. ASSUME Environment
      PROVE  UNCHANGED eventLog
  BY <1>3, EnvironmentTyped DEF Shape, relayVars
<1> QED BY <1>1, <1>2, <1>3 DEF Next, RelayNext, RelayFault, Environment, relayStoreVars, relayVars

(* Outbox rows stay, and what their event says never changes.               *)
LEMMA RowsStay ==
    ASSUME Shape, [Next]_relayStoreVars
    PROVE  \A i \in DOMAIN outbox : /\ i \in DOMAIN outbox'
                                   /\ EventOf(i)' = EventOf(i)
                                   /\ outbox'[i].payment = outbox[i].payment
<1>1. ASSUME NEW r \in Relays, Mark(r)
      PROVE  /\ DOMAIN outbox' = DOMAIN outbox
             /\ \A i \in DOMAIN outbox : /\ outbox'[i].payment = outbox[i].payment
                                        /\ outbox'[i].tenant = outbox[i].tenant
                                        /\ outbox'[i].body = outbox[i].body
  BY <1>1, MarkTyped DEF Mark, Shape
<1>2. ASSUME Environment
      PROVE  \A i \in DOMAIN outbox : i \in DOMAIN outbox' /\ outbox'[i] = outbox[i]
  BY <1>2, EnvironmentTyped DEF OutboxGrows, Shape
<1>3. CASE UNCHANGED outbox
  BY <1>3 DEF EventOf
<1>4. ASSUME RelayNext, \A s \in Relays : ~Mark(s)
      PROVE  UNCHANGED outbox
  BY <1>4 DEF RelayNext, RelayStep, RelayFault, Deliver, DeliveryFails, Claim, PollNothing,
              Produce, StartFlush, FlushReturns, MarkFails, CycleRaises, RelayCrash,
              ConnectionLost, storeVars
<1> QED BY <1>1, <1>2, <1>3, <1>4 DEF Next, RelayNext, Environment, relayStoreVars, storeVars, EventOf

LEMMA LogIsOutboxStep ==
    ASSUME Shape, LogIsOutbox, [Next]_relayStoreVars
    PROVE  LogIsOutbox'
<1>1. \A q \in Partitions : \A n \in DOMAIN eventLog[q] :
          \E i \in DOMAIN outbox' : /\ eventLog[q][n] = EventOf(i)'
                                  /\ q = PartitionOf[outbox'[i].payment]
  BY RowsStay DEF LogIsOutbox
<1>2. CASE UNCHANGED eventLog
  BY <1>1, <1>2 DEF LogIsOutbox
<1>3. ASSUME NEW k \in DOMAIN outbox, AppendEvent(k), UNCHANGED storeVars
      PROVE  LogIsOutbox'
  <2>1. PICK q \in Partitions :
          /\ q = PartitionOf[outbox[k].payment]
          /\ Len(eventLog[q]) \in Nat
          /\ DOMAIN eventLog[q] = 1..Len(eventLog[q])
          /\ DOMAIN eventLog'[q] = 1..(Len(eventLog[q]) + 1)
          /\ eventLog'[q][Len(eventLog[q]) + 1] = EventOf(k)
          /\ \A o \in DOMAIN eventLog[q] : eventLog'[q][o] = eventLog[q][o]
          /\ \A p \in Partitions \ {q} : eventLog'[p] = eventLog[p]
    BY <1>3, AppendTyped
  <2>2. outbox' = outbox /\ EventOf(k).event = k
    BY <1>3 DEF storeVars, EventOf
  <2> SUFFICES ASSUME NEW p \in Partitions, NEW n \in DOMAIN eventLog'[p]
               PROVE  \E i \in DOMAIN outbox :
                          /\ eventLog'[p][n] = EventOf(i)
                          /\ p = PartitionOf[outbox[i].payment]
    BY <2>2 DEF LogIsOutbox, EventOf
  <2>3. CASE p = q /\ n = Len(eventLog[q]) + 1
    BY <2>1, <2>2, <2>3
  <2>4. CASE p # q \/ n # Len(eventLog[q]) + 1
    <3>1. n \in DOMAIN eventLog[p] /\ eventLog'[p][n] = eventLog[p][n]
      <4>1. CASE p = q
        BY <2>1, <2>4, <4>1
      <4>2. CASE p # q
        BY <2>1, <4>2
      <4> QED BY <4>1, <4>2
    <3> QED BY <3>1 DEF LogIsOutbox
  <2> QED BY <2>3, <2>4
<1> QED BY <1>2, <1>3, StepLogs

(* What is in the topic stays in the topic.                                 *)
LEMMA CopiesKept ==
    ASSUME Shape, [Next]_relayStoreVars
    PROVE  \A i : Copies(i) # {} => Copies(i)' # {}
<1>1. ASSUME NEW k \in DOMAIN outbox, AppendEvent(k)
      PROVE  \A i : Copies(i) # {} => Copies(i)' # {}
  <2>1. /\ \E c : Copies(k)' = Copies(k) \cup {c}
        /\ \A i : i # k => Copies(i)' = Copies(i)
    BY <1>1, AppendCopies
  <2> QED BY <2>1
<1> QED BY <1>1, StepLogs, CopiesUnchanged

LEMMA DeliveredStep ==
    ASSUME Shape, DeliveredIsLogged, [Next]_relayStoreVars
    PROVE  DeliveredIsLogged'
<1>1. ASSUME NEW r \in Relays, Deliver(r)
      PROVE  DeliveredIsLogged'
  <2>1. /\ rqueue[r] # << >> /\ Dequeue(r)
        /\ AppendEvent(Head(rqueue[r]).row) /\ Acknowledge(r, Head(rqueue[r]))
    BY <1>1 DEF Deliver
  <2>2. PICK k \in DOMAIN outbox : k = Head(rqueue[r]).row
    BY <2>1, DequeueTyped DEF Shape
  <2>3. Copies(k)' # {}
    BY <2>1, <2>2, AppendCopies
  <2>4. rdelivered \in [Relays -> SUBSET DOMAIN outbox]
    BY DEF Shape, RelayTypeOK
  <2>5. \A s \in Relays : rdelivered'[s] \subseteq rdelivered[s] \cup {k}
    BY <2>1, <2>2, <2>4 DEF Acknowledge
  <2> QED BY <2>3, <2>5, CopiesKept DEF DeliveredIsLogged
<1>2. ASSUME \A s \in Relays : rdelivered'[s] \subseteq rdelivered[s]
      PROVE  DeliveredIsLogged'
  BY <1>2, CopiesKept DEF DeliveredIsLogged
<1>3. ASSUME NEW r \in Relays, Mark(r) \/ MarkFails(r) \/ CycleRaises(r) \/ RelayCrash(r)
      PROVE  \A s \in Relays : rdelivered'[s] \subseteq rdelivered[s]
  <2>1. EndCycle(r)
    BY <1>3 DEF Mark, MarkFails, CycleRaises, RelayCrash
  <2> QED BY <2>1, EndTyped DEF Shape
<1>4. ASSUME UNCHANGED rdelivered PROVE \A s \in Relays : rdelivered'[s] \subseteq rdelivered[s]
  BY <1>4
<1>5. ASSUME NEW r \in Relays, Claim(r) \/ PollNothing(r) \/ Produce(r) \/ StartFlush(r)
               \/ FlushReturns(r) \/ DeliveryFails(r) \/ ConnectionLost(r)
      PROVE  UNCHANGED rdelivered
  BY <1>5 DEF Claim, PollNothing, Produce, StartFlush, FlushReturns, DeliveryFails,
              ConnectionLost, relayVars
<1>6. ASSUME Environment PROVE UNCHANGED rdelivered
  BY <1>6, EnvironmentTyped DEF Shape, relayVars
<1> QED BY <1>1, <1>2, <1>3, <1>4, <1>5, <1>6
    DEF Next, RelayNext, RelayStep, RelayFault, Environment, relayStoreVars, relayVars

LEMMA PublishedStep ==
    ASSUME Shape, DeliveredIsLogged, PublishedIsLogged, [Next]_relayStoreVars
    PROVE  PublishedIsLogged'
<1>1. ASSUME \A i \in DOMAIN outbox' : outbox'[i].status = "PUBLISHED" =>
                 \/ i \in DOMAIN outbox /\ outbox[i].status = "PUBLISHED"
                 \/ Copies(i) # {}
      PROVE  PublishedIsLogged'
  BY <1>1, CopiesKept DEF PublishedIsLogged
<1>2. ASSUME NEW r \in Relays, Mark(r)
      PROVE  PublishedIsLogged'
  <2>1. MarkPublished(rdelivered[r])
    BY <1>2 DEF Mark
  <2>2. /\ DOMAIN outbox' = DOMAIN outbox
        /\ \A i \in DOMAIN outbox :
              outbox'[i].status = IF i \in rdelivered[r] THEN "PUBLISHED" ELSE outbox[i].status
    BY <2>1, MarkTyped DEF Shape
  <2> QED BY <1>1, <2>2 DEF DeliveredIsLogged
<1>4. ASSUME UNCHANGED outbox PROVE PublishedIsLogged'
  BY <1>1, <1>4
<1>3. ASSUME Environment
      PROVE  PublishedIsLogged'
  <2>1. OutboxGrows \/ UNCHANGED outbox
    BY <1>3, EnvironmentTyped DEF Shape
  <2>2. CASE OutboxGrows
    BY <1>1, <2>2 DEF OutboxGrows
  <2> QED BY <1>4, <2>1, <2>2
<1>5. ASSUME RelayNext, \A s \in Relays : ~Mark(s)
      PROVE  UNCHANGED outbox
  BY <1>5 DEF RelayNext, RelayStep, RelayFault, Deliver, DeliveryFails, Claim, PollNothing,
              Produce, StartFlush, FlushReturns, MarkFails, CycleRaises, RelayCrash,
              ConnectionLost, storeVars
<1> QED BY <1>2, <1>3, <1>4, <1>5 DEF Next, Environment, relayStoreVars, storeVars

LEMMA LoggedInit ==
    ASSUME Init
    PROVE  LogIsOutbox /\ DeliveredIsLogged /\ PublishedIsLogged
BY DEF Init, StoreInit, RelayInit, LogIsOutbox, DeliveredIsLogged, PublishedIsLogged

THEOREM LogIsOutboxHolds == Spec => []LogIsOutbox
BY ShapeCorrect, LoggedInit, LogIsOutboxStep, PTL DEF Spec

(* A row marked PUBLISHED is in the topic: neither a crash, a lost connection  *)
(* nor a late callback makes the relay forget an event it has not sent.        *)
THEOREM PublishedAreLogged == Spec => []PublishedIsLogged
<1>1. Spec => []DeliveredIsLogged
  BY ShapeCorrect, LoggedInit, DeliveredStep, PTL DEF Spec
<1> QED BY <1>1, ShapeCorrect, LoggedInit, PublishedStep, PTL DEF Spec

----------------------------------------------------------------------------
(* Duplicates.  A row's copies in the topic, its messages in a producer's       *)
(* queue, the relays that have claimed it and not yet produced it, and the      *)
(* claim the next cycle may still make on it add up to one, plus one for every  *)
(* fault: only a fault opens a row that was already on its way.              *)
Queued(i) ==
    {m \in UNION {{<<r, n>> : n \in DOMAIN rqueue[r]} : r \in Relays} :
        rqueue[m[1]][m[2]].row = i}

Unsent(i) == {r \in Relays : i \in rrows[r]}

(* Relay r's open cycle still has row i to send, or has sent it and will mark   *)
(* it published.                                                           *)
Carries(r, i) ==
    /\ i \in rlocks[r]
    /\ \/ i \in rrows[r]
       \/ i \in rdelivered[r]
       \/ \E n \in DOMAIN rqueue[r] : rqueue[r][n].row = i /\ rqueue[r][n].live

Open(i) == outbox[i].status = "PENDING" /\ \A r \in Relays : ~Carries(r, i)

Spent(i) == Cardinality(Copies(i)) + Cardinality(Queued(i)) + Cardinality(Unsent(i))
            + (IF Open(i) THEN 1 ELSE 0)

BudgetInv ==
    \A i \in DOMAIN outbox :
        /\ IsFiniteSet(Copies(i)) /\ IsFiniteSet(Queued(i)) /\ IsFiniteSet(Unsent(i))
        /\ Spent(i) <= 1 + rfaults

LEMMA QueuedAre ==
    \A i, c : c \in Queued(i) <=>
        \E r \in Relays : \E n \in DOMAIN rqueue[r] :
            c = <<r, n>> /\ rqueue[r][n].row = i
BY DEF Queued

LEMMA QueuedAreNext ==
    \A i, c : c \in Queued(i)' <=>
        \E r \in Relays : \E n \in DOMAIN rqueue'[r] :
            c = <<r, n>> /\ rqueue'[r][n].row = i
BY DEF Queued

LEMMA AddOne ==
    ASSUME NEW S, NEW x, IsFiniteSet(S)
    PROVE  /\ IsFiniteSet(S \cup {x})
           /\ Cardinality(S) \in Nat /\ Cardinality(S \cup {x}) \in Nat
           /\ Cardinality(S \cup {x}) <= Cardinality(S) + 1
BY FS_AddElement, FS_CardinalityType

LEMMA DropOne ==
    ASSUME NEW S, NEW x \in S, IsFiniteSet(S)
    PROVE  /\ IsFiniteSet(S \ {x})
           /\ Cardinality(S) \in Nat /\ Cardinality(S \ {x}) \in Nat
           /\ Cardinality(S \ {x}) = Cardinality(S) - 1
BY FS_RemoveElement, FS_CardinalityType

(* A message handed to the producer is one more message of its row.           *)
LEMMA EnqueueQueued ==
    ASSUME RelayTypeOK, NEW r \in Relays, NEW k \in DOMAIN outbox,
           rqueue' = [rqueue EXCEPT ![r] = Append(@, [row |-> k, live |-> TRUE])]
    PROVE  /\ \E c : Queued(k)' = Queued(k) \cup {c}
           /\ \A i : i # k => Queued(i)' = Queued(i)
<1>1. /\ Len(rqueue[r]) \in Nat
      /\ DOMAIN rqueue[r] = 1..Len(rqueue[r])
      /\ DOMAIN rqueue'[r] = 1..(Len(rqueue[r]) + 1)
      /\ \A n \in DOMAIN rqueue[r] : rqueue'[r][n] = rqueue[r][n]
      /\ rqueue'[r][Len(rqueue[r]) + 1] = [row |-> k, live |-> TRUE]
      /\ \A s \in Relays \ {r} : rqueue'[s] = rqueue[s]
  BY EnqueueTyped
<1> DEFINE new == Len(rqueue[r]) + 1
<1>2. DOMAIN rqueue'[r] = DOMAIN rqueue[r] \cup {new} /\ rqueue'[r][new].row = k
  BY <1>1
<1> HIDE DEF new
<1>3. \A i, c : c \in Queued(i)' <=> c \in Queued(i) \/ (c = <<r, new>> /\ i = k)
  <2> SUFFICES ASSUME NEW i, NEW c
               PROVE  c \in Queued(i)' <=> c \in Queued(i) \/ (c = <<r, new>> /\ i = k)
    OBVIOUS
  <2>1. ASSUME c \in Queued(i)' PROVE c \in Queued(i) \/ (c = <<r, new>> /\ i = k)
    <3>1. PICK s \in Relays : \E n \in DOMAIN rqueue'[s] :
              c = <<s, n>> /\ rqueue'[s][n].row = i
      BY <2>1, QueuedAreNext
    <3> PICK n \in DOMAIN rqueue'[s] : c = <<s, n>> /\ rqueue'[s][n].row = i
      BY <3>1
    <3>2. CASE s = r /\ n = new
      BY <3>2, <1>2
    <3>3. CASE s # r \/ n # new
      <4>1. n \in DOMAIN rqueue[s] /\ rqueue'[s][n] = rqueue[s][n]
        BY <1>1, <1>2, <3>3
      <4> QED BY <4>1, QueuedAre
    <3> QED BY <3>2, <3>3
  <2>2. ASSUME c \in Queued(i) PROVE c \in Queued(i)'
    <3>1. PICK s \in Relays : \E n \in DOMAIN rqueue[s] :
              c = <<s, n>> /\ rqueue[s][n].row = i
      BY <2>2, QueuedAre
    <3> PICK n \in DOMAIN rqueue[s] : c = <<s, n>> /\ rqueue[s][n].row = i
      BY <3>1
    <3>2. n \in DOMAIN rqueue'[s] /\ rqueue'[s][n] = rqueue[s][n]
      BY <1>1, <1>2
    <3> QED BY <3>2, QueuedAreNext
  <2>3. <<r, new>> \in Queued(k)'
    BY <1>2, QueuedAreNext
  <2> QED BY <2>1, <2>2, <2>3
<1>4. Queued(k)' = Queued(k) \cup {<<r, new>>}
  BY <1>3
<1>5. ASSUME NEW i, i # k PROVE Queued(i)' = Queued(i)
  <2>1. \A c : c \in Queued(i)' <=> c \in Queued(i)
    BY <1>3, <1>5
  <2> QED BY <2>1
<1> QED BY <1>4, <1>5

(* A message taken off a queue is one message less of its row; those behind it  *)
(* move up, so the count of every other row stays.                          *)
LEMMA DequeueQueued ==
    ASSUME RelayTypeOK, NEW r \in Relays, rqueue[r] # << >>, Dequeue(r),
           NEW i, IsFiniteSet(Queued(i))
    PROVE  /\ IsFiniteSet(Queued(i)')
           /\ Cardinality(Queued(i)) \in Nat
           /\ Cardinality(Queued(i)') \in Nat
           /\ Cardinality(Queued(i)') <= Cardinality(Queued(i))
           /\ i = Head(rqueue[r]).row => Cardinality(Queued(i)') <= Cardinality(Queued(i)) - 1
<1>1. /\ Head(rqueue[r]) = rqueue[r][1]
      /\ 1 \in DOMAIN rqueue[r]
      /\ \A n \in DOMAIN rqueue'[r] :
             n + 1 \in DOMAIN rqueue[r] /\ rqueue'[r][n] = rqueue[r][n + 1]
      /\ \A s \in Relays \ {r} : rqueue'[s] = rqueue[s]
  BY DequeueTyped
<1>2. rqueue' \in [Relays -> Seq([row : DOMAIN outbox, live : BOOLEAN])]
  BY DequeueTyped
<1>3. \A n \in DOMAIN rqueue'[r] : n \in Nat \ {0}
  <2>1. rqueue'[r] \in Seq([row : DOMAIN outbox, live : BOOLEAN])
    BY <1>2
  <2> QED BY <2>1, LenProperties
<1> DEFINE S == Queued(i)'
           T == Queued(i) \ {<<r, 1>>}
           f == [c \in S |-> IF c[1] = r THEN <<r, c[2] + 1>> ELSE c]
<1>4. \A c \in S : f[c] \in T
  <2> SUFFICES ASSUME NEW c \in S PROVE f[c] \in T
    OBVIOUS
  <2>1. PICK s \in Relays : \E n \in DOMAIN rqueue'[s] :
            c = <<s, n>> /\ rqueue'[s][n].row = i
    BY QueuedAreNext
  <2> PICK n \in DOMAIN rqueue'[s] : c = <<s, n>> /\ rqueue'[s][n].row = i
    BY <2>1
  <2>2. CASE s = r
    <3>1. f[c] = <<r, n + 1>> /\ n + 1 # 1
      BY <2>2, <1>3
    <3>2. n + 1 \in DOMAIN rqueue[r] /\ rqueue[r][n + 1].row = i
      BY <2>2, <1>1
    <3> HIDE DEF f
    <3> QED BY <3>1, <3>2, QueuedAre
  <2>3. CASE s # r
    <3>1. f[c] = <<s, n>>
      BY <2>3
    <3>2. n \in DOMAIN rqueue[s] /\ rqueue[s][n].row = i
      BY <2>3, <1>1
    <3> HIDE DEF f
    <3> QED BY <2>3, <3>1, <3>2, QueuedAre
  <2> QED BY <2>2, <2>3
<1>5. \A c, d \in S : f[c] = f[d] => c = d
  <2> SUFFICES ASSUME NEW c \in S, NEW d \in S, f[c] = f[d] PROVE c = d
    OBVIOUS
  <2>1. PICK s \in Relays : \E n \in DOMAIN rqueue'[s] : c = <<s, n>>
    BY QueuedAreNext
  <2> PICK n \in DOMAIN rqueue'[s] : c = <<s, n>>
    BY <2>1
  <2>2. PICK u \in Relays : \E m \in DOMAIN rqueue'[u] : d = <<u, m>>
    BY QueuedAreNext
  <2> PICK m \in DOMAIN rqueue'[u] : d = <<u, m>>
    BY <2>2
  <2> QED BY <1>3
<1>6. IsFiniteSet(T) /\ Cardinality(T) \in Nat /\ Cardinality(T) <= Cardinality(Queued(i))
      /\ Cardinality(Queued(i)) \in Nat
  BY FS_Subset, FS_CardinalityType
<1>7. i = Head(rqueue[r]).row => Cardinality(T) = Cardinality(Queued(i)) - 1
  <2>1. ASSUME i = Head(rqueue[r]).row PROVE <<r, 1>> \in Queued(i)
    BY <2>1, <1>1, QueuedAre
  <2> QED BY <2>1, DropOne
<1>8. f \in Injection(S, T)
  BY <1>4, <1>5 DEF Injection, IsInjective
<1> HIDE DEF S, T, f
<1>9. IsFiniteSet(S) /\ Cardinality(S) <= Cardinality(T) /\ Cardinality(S) \in Nat
  BY <1>6, <1>8, FS_Injection, FS_CardinalityType
<1> QED BY <1>6, <1>7, <1>9 DEF S

LEMMA Fewer ==
    ASSUME NEW T, IsFiniteSet(T), NEW S \in SUBSET T
    PROVE  /\ IsFiniteSet(S)
           /\ Cardinality(S) \in Nat /\ Cardinality(T) \in Nat
           /\ Cardinality(S) <= Cardinality(T)
BY FS_Subset, FS_CardinalityType

(* The end of a cycle drops what it had not produced.                       *)
LEMMA EndUnsent ==
    ASSUME RelayTypeOK, NEW r \in Relays, EndCycle(r)
    PROVE  \A i : Unsent(i)' \subseteq Unsent(i)
BY EndTyped DEF Unsent

(* A row that stays pending and that every relay goes on carrying does not      *)
(* become open.                                                            *)
LEMMA OpenKept ==
    ASSUME NEW i,
           outbox'[i].status = "PENDING" => outbox[i].status = "PENDING",
           \A s \in Relays : Carries(s, i) => Carries(s, i)'
    PROVE  Open(i)' => Open(i)
BY DEF Open

LEMMA ClaimBudget ==
    ASSUME Shape, BudgetInv, NEW r \in Relays, Claim(r)
    PROVE  BudgetInv'
<1> SUFFICES ASSUME NEW i \in DOMAIN outbox
             PROVE  /\ IsFiniteSet(Copies(i))' /\ IsFiniteSet(Queued(i))'
                    /\ IsFiniteSet(Unsent(i))'
                    /\ Spent(i)' <= 1 + rfaults'
  BY DEF BudgetInv, Claim, storeVars
<1>1. Copies(i)' = Copies(i) /\ Queued(i)' = Queued(i) /\ rfaults' = rfaults
  BY DEF Claim, Copies, Queued
<1>2. /\ rpc[r] = "idle" /\ rrows[r] = {} /\ rlocks[r] = {}
      /\ rrows'[r] = Batch /\ rlocks'[r] = Batch
      /\ \A s \in Relays \ {r} : rrows'[s] = rrows[s] /\ rlocks'[s] = rlocks[s]
      /\ outbox' = outbox /\ rqueue' = rqueue /\ rdelivered' = rdelivered
  BY DEF Claim, Shape, CycleInv, RelayTypeOK, storeVars
<1>3. /\ IsFiniteSet(Copies(i)) /\ IsFiniteSet(Queued(i)) /\ IsFiniteSet(Unsent(i))
      /\ Spent(i) <= 1 + rfaults
      /\ rfaults \in Nat
      /\ Cardinality(Copies(i)) \in Nat /\ Cardinality(Queued(i)) \in Nat
      /\ Cardinality(Unsent(i)) \in Nat
  BY FS_CardinalityType DEF BudgetInv, Shape, RelayTypeOK
<1>4. CASE i \in Batch
  <2>1. Unsent(i)' = Unsent(i) \cup {r}
    BY <1>2, <1>4 DEF Unsent
  <2>2. /\ IsFiniteSet(Unsent(i)') /\ Cardinality(Unsent(i)') \in Nat
        /\ Cardinality(Unsent(i)') <= Cardinality(Unsent(i)) + 1
    BY <1>3, <2>1, AddOne
  <2>3. Open(i)
    BY <1>4 DEF Open, Carries, Batch, Claimable
  <2>4. ~Open(i)'
    BY <1>2, <1>4 DEF Open, Carries
  <2> QED BY <1>1, <1>3, <2>2, <2>3, <2>4 DEF Spent
<1>5. CASE i \notin Batch
  <2>1. Unsent(i)' = Unsent(i)
    BY <1>2, <1>5 DEF Unsent
  <2>2. Open(i)' => Open(i)
    BY <1>2, OpenKept DEF Carries
  <2> QED BY <1>1, <1>3, <2>1, <2>2 DEF Spent
<1> QED BY <1>4, <1>5

LEMMA ProduceBudget ==
    ASSUME Shape, BudgetInv, NEW r \in Relays, Produce(r)
    PROVE  BudgetInv'
<1>1. PICK k \in rrows[r] :
          /\ rqueue' = [rqueue EXCEPT ![r] = Append(@, [row |-> k, live |-> TRUE])]
          /\ rrows' = [rrows EXCEPT ![r] = @ \ {k}]
  BY DEF Produce
<1>2. k \in DOMAIN outbox /\ RelayTypeOK
  BY DEF Shape, RelayTypeOK
<1> SUFFICES ASSUME NEW i \in DOMAIN outbox
             PROVE  /\ IsFiniteSet(Copies(i))' /\ IsFiniteSet(Queued(i))'
                    /\ IsFiniteSet(Unsent(i))'
                    /\ Spent(i)' <= 1 + rfaults'
  BY DEF BudgetInv, Produce, storeVars
<1>3. Copies(i)' = Copies(i) /\ rfaults' = rfaults
  BY DEF Produce, Copies
<1>4. /\ rrows'[r] = rrows[r] \ {k}
      /\ \A s \in Relays \ {r} : rrows'[s] = rrows[s]
      /\ outbox' = outbox /\ rlocks' = rlocks /\ rdelivered' = rdelivered
  BY <1>1 DEF Produce, Shape, RelayTypeOK, storeVars
<1>5. /\ IsFiniteSet(Copies(i)) /\ IsFiniteSet(Queued(i)) /\ IsFiniteSet(Unsent(i))
      /\ Spent(i) <= 1 + rfaults
      /\ rfaults \in Nat
      /\ Cardinality(Copies(i)) \in Nat /\ Cardinality(Queued(i)) \in Nat
      /\ Cardinality(Unsent(i)) \in Nat
  BY FS_CardinalityType DEF BudgetInv, Shape, RelayTypeOK
<1>6. Open(i)' => Open(i)
  <2>1. /\ Len(rqueue[r]) \in Nat
        /\ DOMAIN rqueue[r] = 1..Len(rqueue[r])
        /\ DOMAIN rqueue'[r] = 1..(Len(rqueue[r]) + 1)
        /\ \A n \in DOMAIN rqueue[r] : rqueue'[r][n] = rqueue[r][n]
        /\ rqueue'[r][Len(rqueue[r]) + 1] = [row |-> k, live |-> TRUE]
        /\ \A s \in Relays \ {r} : rqueue'[s] = rqueue[s]
    BY <1>1, <1>2, EnqueueTyped
  <2>2. \A s \in Relays : \A n \in DOMAIN rqueue[s] :
            n \in DOMAIN rqueue'[s] /\ rqueue'[s][n] = rqueue[s][n]
    BY <2>1
  <2>3. \E n \in DOMAIN rqueue'[r] : rqueue'[r][n].row = k /\ rqueue'[r][n].live
    BY <2>1
  <2>4. \A s \in Relays : Carries(s, i) => Carries(s, i)'
    BY <1>4, <2>2, <2>3 DEF Carries
  <2> QED BY <1>4, <2>4, OpenKept
<1>7. CASE i = k
  <2>1. Unsent(i)' = Unsent(i) \ {r} /\ r \in Unsent(i)
    BY <1>4, <1>7 DEF Unsent
  <2>2. /\ IsFiniteSet(Unsent(i)') /\ Cardinality(Unsent(i)') \in Nat
        /\ Cardinality(Unsent(i)') = Cardinality(Unsent(i)) - 1
    BY <1>5, <2>1, DropOne
  <2>3. PICK c : Queued(i)' = Queued(i) \cup {c}
    BY <1>1, <1>2, <1>7, EnqueueQueued
  <2>4. /\ IsFiniteSet(Queued(i)') /\ Cardinality(Queued(i)') \in Nat
        /\ Cardinality(Queued(i)') <= Cardinality(Queued(i)) + 1
    BY <1>5, <2>3, AddOne
  <2> QED BY <1>3, <1>5, <1>6, <2>2, <2>4 DEF Spent
<1>8. CASE i # k
  <2>1. Unsent(i)' = Unsent(i)
    BY <1>4, <1>8 DEF Unsent
  <2>2. Queued(i)' = Queued(i)
    BY <1>1, <1>2, <1>8, EnqueueQueued
  <2> QED BY <1>3, <1>5, <1>6, <2>1, <2>2 DEF Spent
<1> QED BY <1>7, <1>8

LEMMA SendBudget ==
    ASSUME Shape, BudgetInv, NEW r \in Relays, Deliver(r) \/ DeliveryFails(r)
    PROVE  BudgetInv'
<1> DEFINE m == Head(rqueue[r])
<1>1. /\ rqueue[r] # << >> /\ Dequeue(r) /\ UNCHANGED <<rpc, rrows, rlocks, storeVars>>
      /\ AppendEvent(m.row) \/ UNCHANGED eventLog
  BY DEF Deliver, DeliveryFails
<1>2. /\ RelayTypeOK
      /\ m = rqueue[r][1]
      /\ m \in [row : DOMAIN outbox, live : BOOLEAN]
      /\ \A n \in DOMAIN rqueue[r] :
             n = 1 \/ (n - 1 \in DOMAIN rqueue'[r] /\ rqueue'[r][n - 1] = rqueue[r][n])
      /\ \A s \in Relays \ {r} : rqueue'[s] = rqueue[s]
  BY <1>1, DequeueTyped DEF Shape
<1> SUFFICES ASSUME NEW i \in DOMAIN outbox
             PROVE  /\ IsFiniteSet(Copies(i))' /\ IsFiniteSet(Queued(i))'
                    /\ IsFiniteSet(Unsent(i))'
                    /\ Spent(i)' <= 1 + rfaults'
  BY <1>1 DEF BudgetInv, storeVars
<1>3. /\ IsFiniteSet(Copies(i)) /\ IsFiniteSet(Queued(i)) /\ IsFiniteSet(Unsent(i))
      /\ Spent(i) <= 1 + rfaults
      /\ rfaults \in Nat
      /\ Cardinality(Copies(i)) \in Nat /\ Cardinality(Queued(i)) \in Nat
      /\ Cardinality(Unsent(i)) \in Nat
  BY FS_CardinalityType DEF BudgetInv, Shape, RelayTypeOK
<1>4. Unsent(i)' = Unsent(i)
  BY <1>1 DEF Unsent
<1>5. /\ IsFiniteSet(Queued(i)') /\ Cardinality(Queued(i)') \in Nat
      /\ Cardinality(Queued(i)') <= Cardinality(Queued(i))
      /\ i = m.row => Cardinality(Queued(i)') <= Cardinality(Queued(i)) - 1
  BY <1>1, <1>2, <1>3, DequeueQueued
<1>6. /\ IsFiniteSet(Copies(i)') /\ Cardinality(Copies(i)') \in Nat
      /\ Cardinality(Copies(i)') <= Cardinality(Copies(i)) + (IF i = m.row THEN 1 ELSE 0)
  <2>1. CASE UNCHANGED eventLog
    BY <1>3, <2>1, CopiesUnchanged
  <2>2. CASE AppendEvent(m.row)
    <3>0. PICK k \in DOMAIN outbox : k = m.row
      BY <1>2
    <3>1. /\ \E c : Copies(k)' = Copies(k) \cup {c}
          /\ i # k => Copies(i)' = Copies(i)
      BY <2>2, <3>0, AppendCopies
    <3>2. CASE i = m.row
      <4>1. PICK c : Copies(i)' = Copies(i) \cup {c}
        BY <3>0, <3>1, <3>2
      <4>2. /\ IsFiniteSet(Copies(i) \cup {c})
            /\ Cardinality(Copies(i) \cup {c}) \in Nat
            /\ Cardinality(Copies(i) \cup {c}) <= Cardinality(Copies(i)) + 1
        BY <1>3, AddOne
      <4>3. /\ IsFiniteSet(Copies(i)') /\ Cardinality(Copies(i)') \in Nat
            /\ Cardinality(Copies(i)') <= Cardinality(Copies(i)) + 1
        BY <4>1, <4>2, Zenon
      <4> QED BY <3>2, <4>3
    <3>3. CASE i # m.row
      BY <1>3, <3>0, <3>1, <3>3
    <3> QED BY <3>2, <3>3
  <2> QED BY <1>1, <2>1, <2>2
<1>7. CASE DeliveryFails(r)
  <2>1. rfaults' = rfaults + 1
    BY <1>7 DEF DeliveryFails, Fault
  <2> HIDE DEF m
  <2> QED BY <1>3, <1>4, <1>5, <1>6, <2>1 DEF Spent
<1>8. CASE Deliver(r)
  <2>1. rfaults' = rfaults /\ Acknowledge(r, m)
    BY <1>8 DEF Deliver
  <2>2. rdelivered \in [Relays -> SUBSET DOMAIN outbox]
    BY <1>2 DEF RelayTypeOK
  <2>3. /\ \A s \in Relays : rdelivered[s] \subseteq rdelivered'[s]
        /\ m.live => m.row \in rdelivered'[r]
    BY <2>1, <2>2 DEF Acknowledge
  <2>4. ASSUME NEW s \in Relays, NEW n \in DOMAIN rqueue[s],
               rqueue[s][n].row = i, rqueue[s][n].live
        PROVE  \/ i \in rdelivered'[s]
               \/ \E x \in DOMAIN rqueue'[s] : rqueue'[s][x].row = i /\ rqueue'[s][x].live
    <3>1. CASE s = r /\ n = 1
      BY <1>2, <2>3, <2>4, <3>1
    <3>2. CASE s = r /\ n # 1
      <4>1. n - 1 \in DOMAIN rqueue'[r] /\ rqueue'[r][n - 1] = rqueue[r][n]
        BY <1>2, <3>2
      <4> QED BY <2>4, <3>2, <4>1
    <3>3. CASE s # r
      BY <1>2, <2>4, <3>3
    <3> QED BY <3>1, <3>2, <3>3
  <2>5. \A s \in Relays : Carries(s, i) => Carries(s, i)'
    BY <1>1, <2>3, <2>4 DEF Carries
  <2>6. Open(i)' => Open(i)
    BY <1>1, <2>5, OpenKept DEF storeVars
  <2> HIDE DEF m
  <2> QED BY <1>3, <1>4, <1>5, <1>6, <2>1, <2>6 DEF Spent
<1> QED BY <1>7, <1>8

(* A cycle that dies may leave its rows open again: the fault pays for that.    *)
LEMMA FaultBudget ==
    ASSUME Shape, BudgetInv, NEW r \in Relays,
           CycleRaises(r) \/ RelayCrash(r) \/ ConnectionLost(r)
    PROVE  BudgetInv'
<1>1. UNCHANGED <<eventLog, storeVars>> /\ rfaults' = rfaults + 1
  BY DEF CycleRaises, RelayCrash, ConnectionLost, Fault
<1> SUFFICES ASSUME NEW i \in DOMAIN outbox
             PROVE  /\ IsFiniteSet(Copies(i))' /\ IsFiniteSet(Queued(i))'
                    /\ IsFiniteSet(Unsent(i))'
                    /\ Spent(i)' <= 1 + rfaults'
  BY <1>1 DEF BudgetInv, storeVars
<1>2. /\ IsFiniteSet(Copies(i)) /\ IsFiniteSet(Queued(i)) /\ IsFiniteSet(Unsent(i))
      /\ Spent(i) <= 1 + rfaults
      /\ rfaults \in Nat
      /\ Cardinality(Copies(i)) \in Nat
  BY FS_CardinalityType DEF BudgetInv, Shape, RelayTypeOK
<1>3. Copies(i)' = Copies(i)
  BY <1>1, CopiesUnchanged
<1>4. Unsent(i)' \subseteq Unsent(i)
  BY EndUnsent DEF Shape, CycleRaises, RelayCrash, ConnectionLost, Unsent
<1>5. Queued(i)' \subseteq Queued(i)
  <2>1. \A s \in Relays : \A n \in DOMAIN rqueue'[s] :
            n \in DOMAIN rqueue[s] /\ rqueue'[s][n].row = rqueue[s][n].row
    <3>1. CASE CycleRaises(r)
      <4>1. rqueue' = [rqueue EXCEPT ![r] = [n \in DOMAIN @ |-> [@[n] EXCEPT !.live = FALSE]]]
        BY <3>1 DEF CycleRaises
      <4>2. /\ DOMAIN rqueue'[r] = DOMAIN rqueue[r]
            /\ \A n \in DOMAIN rqueue[r] : rqueue'[r][n].row = rqueue[r][n].row
            /\ \A s \in Relays \ {r} : rqueue'[s] = rqueue[s]
        BY <4>1, KillTyped DEF Shape
      <4> QED BY <4>2
    <3>2. CASE RelayCrash(r)
      <4>1. rqueue' = [rqueue EXCEPT ![r] = << >>] /\ DOMAIN << >> = {}
        BY <3>2 DEF RelayCrash
      <4>2. DOMAIN rqueue = Relays
        BY DEF Shape, RelayTypeOK
      <4> HIDE DEF Shape
      <4> QED BY <4>1, <4>2
    <3>3. CASE ConnectionLost(r)
      BY <3>3 DEF ConnectionLost
    <3> QED BY <3>1, <3>2, <3>3
  <2>2. \A c \in Queued(i)' : c \in Queued(i)
    BY <2>1, QueuedAre, QueuedAreNext
  <2> QED BY <2>2
<1>6. /\ IsFiniteSet(Unsent(i)')
      /\ Cardinality(Unsent(i)') \in Nat /\ Cardinality(Unsent(i)) \in Nat
      /\ Cardinality(Unsent(i)') <= Cardinality(Unsent(i))
  BY <1>2, <1>4, Fewer
<1>7. /\ IsFiniteSet(Queued(i)')
      /\ Cardinality(Queued(i)') \in Nat /\ Cardinality(Queued(i)) \in Nat
      /\ Cardinality(Queued(i)') <= Cardinality(Queued(i))
  BY <1>2, <1>5, Fewer
<1> QED BY <1>1, <1>2, <1>3, <1>6, <1>7 DEF Spent

(* A cycle that ends by itself has nothing left to send: of the rows it locked  *)
(* the delivered ones are marked, the others were opened by a failed send.       *)
LEMMA EndBudget ==
    ASSUME Shape, BudgetInv, NEW r \in Relays, Mark(r) \/ MarkFails(r)
    PROVE  BudgetInv'
<1>1. /\ rpc[r] = "mark" /\ EndCycle(r) /\ UNCHANGED <<rqueue, eventLog, rfaults>>
      /\ MarkPublished(rdelivered[r]) \/ (rlocks[r] = {} /\ outbox' = outbox)
  BY DEF Mark, MarkFails, storeVars
<1>2. /\ DOMAIN outbox' = DOMAIN outbox
      /\ \A i \in DOMAIN outbox : outbox'[i].status = "PENDING" =>
            /\ outbox[i].status = "PENDING"
            /\ i \notin rdelivered[r] \/ rlocks[r] = {}
  BY <1>1, MarkTyped DEF Shape
<1> SUFFICES ASSUME NEW i \in DOMAIN outbox
             PROVE  /\ IsFiniteSet(Copies(i))' /\ IsFiniteSet(Queued(i))'
                    /\ IsFiniteSet(Unsent(i))'
                    /\ Spent(i)' <= 1 + rfaults'
  BY <1>2 DEF BudgetInv
<1>3. /\ IsFiniteSet(Copies(i)) /\ IsFiniteSet(Queued(i)) /\ IsFiniteSet(Unsent(i))
      /\ Spent(i) <= 1 + rfaults
      /\ rfaults \in Nat
      /\ Cardinality(Copies(i)) \in Nat /\ Cardinality(Queued(i)) \in Nat
  BY FS_CardinalityType DEF BudgetInv, Shape, RelayTypeOK
<1>4. Copies(i)' = Copies(i) /\ Queued(i)' = Queued(i)
  BY <1>1, CopiesUnchanged DEF Queued
<1>5. /\ IsFiniteSet(Unsent(i)')
      /\ Cardinality(Unsent(i)') \in Nat /\ Cardinality(Unsent(i)) \in Nat
      /\ Cardinality(Unsent(i)') <= Cardinality(Unsent(i))
  <2>1. Unsent(i)' \subseteq Unsent(i)
    BY <1>1, EndUnsent DEF Shape
  <2> QED BY <1>3, <2>1, Fewer
<1>6. ASSUME Open(i)' PROVE Open(i)
  <2>1. outbox[i].status = "PENDING" /\ (i \notin rdelivered[r] \/ rlocks[r] = {})
    BY <1>2, <1>6 DEF Open
  <2>2. ~Carries(r, i)
    BY <1>1, <2>1 DEF Carries, Shape, CycleInv
  <2>3. \A s \in Relays \ {r} : Carries(s, i) => Carries(s, i)'
    BY <1>1, EndTyped DEF Carries, Shape
  <2> QED BY <1>6, <2>1, <2>2, <2>3 DEF Open
<1> QED BY <1>1, <1>3, <1>4, <1>5, <1>6 DEF Spent

(* A new row is open, and nobody has it yet.                                *)
LEMMA CaptureBudget ==
    ASSUME Shape, LogIsOutbox, BudgetInv, OutboxGrows, UNCHANGED relayVars
    PROVE  BudgetInv'
<1>1. OutboxGrows /\ UNCHANGED relayVars
  OBVIOUS
<1>2. \A i : Copies(i)' = Copies(i) /\ Queued(i)' = Queued(i) /\ Unsent(i)' = Unsent(i)
  BY <1>1 DEF relayVars, Copies, Queued, Unsent
<1>0. PICK new \in Nat : new = Len(outbox) + 1
  BY <1>1 DEF OutboxGrows
<1>3. /\ DOMAIN outbox' = DOMAIN outbox \cup {new}
      /\ new \notin DOMAIN outbox
      /\ \A i \in DOMAIN outbox : outbox'[i] = outbox[i]
  BY <1>0, <1>1 DEF OutboxGrows
<1>4. rfaults' = rfaults /\ rfaults \in Nat
  BY <1>1 DEF relayVars, Shape, RelayTypeOK
<1>5. ASSUME NEW i \in DOMAIN outbox
      PROVE  /\ IsFiniteSet(Copies(i))' /\ IsFiniteSet(Queued(i))' /\ IsFiniteSet(Unsent(i))'
             /\ Spent(i)' <= 1 + rfaults'
  <2>1. Open(i)' <=> Open(i)
    BY <1>1, <1>3 DEF relayVars, Open, Carries
  <2> QED BY <1>2, <1>4, <2>1 DEF BudgetInv, Spent
<1>6. /\ IsFiniteSet(Copies(new))' /\ IsFiniteSet(Queued(new))' /\ IsFiniteSet(Unsent(new))'
      /\ Spent(new)' <= 1 + rfaults'
  <2>1. Copies(new) = {}
    <3>1. ASSUME NEW q \in Partitions, NEW n \in DOMAIN eventLog[q]
          PROVE  eventLog[q][n].event \in DOMAIN outbox
      <4>1. PICK i \in DOMAIN outbox : eventLog[q][n] = EventOf(i)
        BY DEF LogIsOutbox
      <4>2. EventOf(i).event = i
        BY DEF EventOf
      <4> QED BY <4>1, <4>2
    <3> QED BY <1>3, <3>1, CopiesAre
  <2>2. Queued(new) = {}
    <3>1. ASSUME NEW s \in Relays, NEW n \in DOMAIN rqueue[s]
          PROVE  rqueue[s][n].row \in DOMAIN outbox
      <4> DEFINE Messages == [row : DOMAIN outbox, live : BOOLEAN]
      <4>1. rqueue[s] \in Seq(Messages)
        BY DEF Shape, RelayTypeOK
      <4> HIDE DEF Messages
      <4>2. rqueue[s][n] \in Messages
        BY <4>1
      <4> QED BY <4>2 DEF Messages
    <3> QED BY <1>3, <3>1, QueuedAre
  <2>3. Unsent(new) = {}
    BY <1>3 DEF Unsent, Shape, RelayTypeOK
  <2>4. IsFiniteSet({}) /\ Cardinality({}) = 0
    BY FS_EmptySet
  <2> QED BY <1>2, <1>4, <2>1, <2>2, <2>3, <2>4 DEF Spent
<1> QED BY <1>3, <1>5, <1>6 DEF BudgetInv

LEMMA BudgetStep ==
    ASSUME Shape, LogIsOutbox, BudgetInv, [Next]_relayStoreVars
    PROVE  BudgetInv'
<1>1. CASE UNCHANGED <<rrows, rlocks, rqueue, rdelivered, eventLog, rfaults, outbox>>
  <2>1. \A i : Copies(i)' = Copies(i) /\ Queued(i)' = Queued(i) /\ Unsent(i)' = Unsent(i)
    BY <1>1 DEF Copies, Queued, Unsent
  <2>2. \A i : Open(i)' <=> Open(i)
    BY <1>1 DEF Open, Carries
  <2>3. \A i : Spent(i)' = Spent(i)
    BY <2>1, <2>2 DEF Spent
  <2> QED BY <1>1, <2>1, <2>3 DEF BudgetInv
<1>2. ASSUME NEW r \in Relays, StartFlush(r) \/ FlushReturns(r) \/ PollNothing(r)
      PROVE  UNCHANGED <<rrows, rlocks, rqueue, rdelivered, eventLog, rfaults, outbox>>
  BY <1>2 DEF StartFlush, FlushReturns, PollNothing, relayVars, storeVars
<1>3. ASSUME Environment
      PROVE  BudgetInv'
  <2>1. UNCHANGED relayVars /\ (UNCHANGED outbox \/ OutboxGrows)
    BY <1>3, EnvironmentTyped DEF Shape
  <2> QED BY <1>1, <2>1, CaptureBudget DEF relayVars
<1> QED BY <1>1, <1>2, <1>3, ClaimBudget, ProduceBudget, SendBudget, FaultBudget, EndBudget
    DEF Next, Environment, RelayNext, RelayStep, RelayFault, relayStoreVars, relayVars, storeVars

(* Relays side by side never publish a row twice by themselves: a row has at    *)
(* most one copy in the topic more than there were crashes, lost connections,  *)
(* rolled-back cycles and failed sends.                                     *)
THEOREM DuplicatesArePaidFor == Spec => []DuplicatesNeedFaults
<1>1. Init => BudgetInv
  <2> SUFFICES ASSUME Init PROVE BudgetInv
    OBVIOUS
  <2>1. DOMAIN outbox = {}
    BY DEF Init, StoreInit
  <2> QED BY <2>1 DEF BudgetInv
<1>2. Spec => []BudgetInv
  BY <1>1, ShapeCorrect, LogIsOutboxHolds, BudgetStep, PTL DEF Spec
<1>3. Shape /\ BudgetInv => DuplicatesNeedFaults
  <2> SUFFICES ASSUME Shape, BudgetInv, NEW i \in DOMAIN outbox
               PROVE  Cardinality(Copies(i)) <= 1 + rfaults
    BY DEF DuplicatesNeedFaults
  <2>1. /\ Cardinality(Copies(i)) \in Nat /\ Cardinality(Queued(i)) \in Nat
        /\ Cardinality(Unsent(i)) \in Nat /\ rfaults \in Nat
        /\ Spent(i) <= 1 + rfaults
    BY FS_CardinalityType DEF BudgetInv, Shape, RelayTypeOK
  <2> QED BY <2>1 DEF Spent
<1> QED BY <1>2, <1>3, ShapeCorrect, PTL
=============================================================================

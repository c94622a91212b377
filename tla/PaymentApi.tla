----------------------------- MODULE PaymentApi -----------------------------
(***************************************************************************)
(* The Payment service's web workers: authorize_payment, capture_payment   *)
(* and capture_payments_batch with the views that call them.  gunicorn runs *)
(* several worker processes, each serving one request at a time; a request  *)
(* is a sequence of database statements, and the statements of different    *)
(* workers interleave.  A worker may die, or its connection break, between  *)
(* any two of them.                                                        *)
(***************************************************************************)
EXTENDS PaymentStore

CONSTANTS
    Workers,        \* web worker processes
    MaxBatch        \* MAX_BATCH_CAPTURE: longest list a batch may carry

ASSUME ApiAssumption ==
    /\ NoProc \notin Workers
    /\ MaxBatch \in Nat

VARIABLES
    wpc,            \* worker -> the statement its request executes next
    wreq,           \* worker -> the request it serves
    wseen,          \* worker -> the status it read under the row lock
    wres,           \* worker -> results gathered for the response, in order
    replies,        \* history: [tenant, key, payment] of keyed authorize answers
    reported        \* history: payment -> answered calls with event_emitted

workerVars == <<wpc, wreq, wseen, wres>>
apiVars == <<wpc, wreq, wseen, wres, replies, reported>>

AuthRequest == [tenant : Tenants, key : Keys \cup {NoKey}, body : Bodies]

CaptureRequest == [tenant : Tenants, batch : BOOLEAN, ids : Seq(PaymentIds)]

NoRequest == [tenant |-> "none"]

Requests == {NoRequest} \cup AuthRequest \cup CaptureRequest

AuthSteps == {"lookup", "insert", "reread"}
CaptureSteps == {"find", "lock", "locked"}

Outcomes == {"captured", "already_captured", "not_found", "invalid_state"}
Result == [id : PaymentIds, outcome : Outcomes]

ApiInit ==
    /\ wpc = [w \in Workers |-> "idle"]
    /\ wreq = [w \in Workers |-> NoRequest]
    /\ wseen = [w \in Workers |-> "unread"]
    /\ wres = [w \in Workers |-> << >>]
    /\ replies = {}
    /\ reported = [p \in PaymentIds |-> 0]

Goto(w, step) == wpc' = [wpc EXCEPT ![w] = step]

Accept(w, request, step) ==
    /\ wpc[w] = "idle"
    /\ wreq' = [wreq EXCEPT ![w] = request]
    /\ Goto(w, step)
    /\ UNCHANGED <<wseen, wres, replies, reported, storeVars>>

(* The request is over, answered or not: the worker forgets it.            *)
Finish(w) ==
    /\ Goto(w, "idle")
    /\ wreq' = [wreq EXCEPT ![w] = NoRequest]
    /\ wseen' = [wseen EXCEPT ![w] = "unread"]
    /\ wres' = [wres EXCEPT ![w] = << >>]

----------------------------------------------------------------------------
(* authorize_payment.  An empty key is falsy: it skips the fast path, yet   *)
(* it is not NULL, so the UNIQUE constraint covers it.                     *)
KeyIsTruthy(k) == k \notin {NoKey, EmptyKey}

ReceiveAuthorize(w) ==
    \E request \in AuthRequest :
        Accept(w, request, IF KeyIsTruthy(request.key) THEN "lookup" ELSE "insert")

AnswerAuthorize(w, p) ==
    /\ Finish(w)
    /\ replies' = replies \cup {[tenant |-> wreq[w].tenant, key |-> k, payment |-> p] :
                                k \in {wreq[w].key} \ {NoKey}}
    /\ UNCHANGED reported

(* The fast path's SELECT: replay the existing payment, or go on to INSERT. *)
AuthorizeLookup(w) ==
    LET found == WithKey(wreq[w].tenant, wreq[w].key) IN
    /\ wpc[w] = "lookup"
    /\ \/ \E p \in found : AnswerAuthorize(w, p)
       \/ /\ found = {}
          /\ Goto(w, "insert")
          /\ UNCHANGED <<wreq, wseen, wres, replies, reported>>
    /\ UNCHANGED storeVars

(* INSERT in its own transaction: a fresh row, or IntegrityError.          *)
AuthorizeInsert(w) ==
    LET r == wreq[w] IN
    /\ wpc[w] = "insert"
    /\ Insertable(r.tenant, r.key)
    /\ \E p \in PaymentIds \ DOMAIN payments :
        /\ InsertPayment(p, r.tenant, r.key, r.body)
        /\ AnswerAuthorize(w, p)
    /\ UNCHANGED <<payLock, outbox>>

AuthorizeConflict(w) ==
    /\ wpc[w] = "insert"
    /\ ~Insertable(wreq[w].tenant, wreq[w].key)
    /\ Goto(w, "reread")
    /\ UNCHANGED <<wreq, wseen, wres, replies, reported, storeVars>>

(* The IntegrityError handler's .get(): the row that won, or, when the      *)
(* tenant itself was missing, DoesNotExist and a 500.                      *)
AuthorizeReread(w) ==
    LET found == WithKey(wreq[w].tenant, wreq[w].key) IN
    /\ wpc[w] = "reread"
    /\ \/ \E p \in found : AnswerAuthorize(w, p)
       \/ found = {} /\ Finish(w) /\ UNCHANGED <<replies, reported>>
    /\ UNCHANGED storeVars

----------------------------------------------------------------------------
(* capture_payment, alone (PaymentCaptureView) or per item of a batch.     *)
BatchLists == UNION {[1..n -> PaymentIds] : n \in 1..MaxBatch}

ReceiveCapture(w) ==
    \E t \in Tenants, p \in PaymentIds :
        Accept(w, [tenant |-> t, batch |-> FALSE, ids |-> <<p>>], "find")

ReceiveBatch(w) ==
    \E t \in Tenants, ids \in BatchLists :
        Accept(w, [tenant |-> t, batch |-> TRUE, ids |-> ids], "lock")

Current(w) == Head(wreq[w].ids)

Rest(request) == [tenant |-> request.tenant, batch |-> request.batch,
                  ids |-> Tail(request.ids)]

(* get_object_or_404 of the single-capture view.                           *)
CaptureFind(w) ==
    /\ wpc[w] = "find"
    /\ IF Owned(wreq[w].tenant, Current(w))
       THEN Goto(w, "lock") /\ UNCHANGED <<wreq, wseen, wres>>
       ELSE Finish(w)
    /\ UNCHANGED <<replies, reported, storeVars>>

(* Mutant: the locking query is not scoped to the tenant.                   *)
CaptureLock_AnyTenant(w) ==
    LET p == Current(w) IN
    /\ wpc[w] = "lock"
    /\ p \in DOMAIN payments
    /\ Free(p)
    /\ LockRow(p, w)
    /\ wseen' = [wseen EXCEPT ![w] = payments[p].status]
    /\ Goto(w, "locked")
    /\ UNCHANGED <<payments, outbox, wreq, wres, replies, reported>>

(* SELECT ... FOR UPDATE: wait for the row, lock it and read its status.    *)
CaptureLock(w) ==
    LET p == Current(w) IN
    /\ wpc[w] = "lock"
    /\ Owned(wreq[w].tenant, p)
    /\ Free(p)
    /\ LockRow(p, w)
    /\ wseen' = [wseen EXCEPT ![w] = payments[p].status]
    /\ Goto(w, "locked")
    /\ UNCHANGED <<payments, outbox, wreq, wres, replies, reported>>

(* Mutant: the outcome is noted for the last id of the list, whichever item  *)
(* it belongs to.                                                          *)
Conclude_LastId(w, outcome) ==
    LET res == Append(wres[w], [id |-> wreq[w].ids[Len(wreq[w].ids)], outcome |-> outcome]) IN
    IF Len(wreq[w].ids) > 1
    THEN /\ Goto(w, "lock")
         /\ wreq' = [wreq EXCEPT ![w] = Rest(@)]
         /\ wseen' = [wseen EXCEPT ![w] = "unread"]
         /\ wres' = [wres EXCEPT ![w] = res]
         /\ UNCHANGED <<replies, reported>>
    ELSE /\ Finish(w)
         /\ UNCHANGED <<replies, reported>>

(* One call of capture_payment is over: note its outcome and take the next  *)
(* id; after the last one the response goes out.                           *)
Conclude(w, outcome) ==
    LET res == Append(wres[w], [id |-> Current(w), outcome |-> outcome]) IN
    IF Len(wreq[w].ids) > 1
    THEN /\ Goto(w, "lock")
         /\ wreq' = [wreq EXCEPT ![w] = Rest(@)]
         /\ wseen' = [wseen EXCEPT ![w] = "unread"]
         /\ wres' = [wres EXCEPT ![w] = res]
         /\ UNCHANGED <<replies, reported>>
    ELSE /\ Finish(w)
         /\ reported' = [p \in PaymentIds |->
                 reported[p] + Cardinality({i \in DOMAIN res :
                                   res[i] = [id |-> p, outcome |-> "captured"]})]
         /\ UNCHANGED replies

(* .get() raises DoesNotExist: not this tenant's payment.                  *)
CaptureMissing(w) ==
    /\ wpc[w] = "lock"
    /\ ~Owned(wreq[w].tenant, Current(w))
    /\ Conclude(w, "not_found")
    /\ UNCHANGED storeVars

CaptureAgain(w) ==
    /\ wpc[w] = "locked"
    /\ wseen[w] = "CAPTURED"
    /\ Conclude(w, "already_captured")
    /\ UnlockRow(Current(w))
    /\ UNCHANGED <<payments, outbox>>

(* Mutant: whatever is not AUTHORIZED is refused.                           *)
CaptureRefused_NotIdempotent(w) ==
    /\ wpc[w] = "locked"
    /\ wseen[w] # "AUTHORIZED"
    /\ Conclude(w, "invalid_state")
    /\ UnlockRow(Current(w))
    /\ UNCHANGED <<payments, outbox>>

(* InvalidStateTransition rolls the transaction back.                      *)
CaptureRefused(w) ==
    /\ wpc[w] = "locked"
    /\ wseen[w] \notin {"AUTHORIZED", "CAPTURED"}
    /\ Conclude(w, "invalid_state")
    /\ UnlockRow(Current(w))
    /\ UNCHANGED <<payments, outbox>>

(* Status change and outbox row commit together.                           *)
CaptureCommit(w) ==
    /\ wpc[w] = "locked"
    /\ wseen[w] = "AUTHORIZED"
    /\ SetStatus(Current(w), "CAPTURED")
    /\ WriteOutbox(Current(w))
    /\ UnlockRow(Current(w))
    /\ Conclude(w, "captured")

(* The worker is killed, or its database connection breaks: the open        *)
(* transaction rolls back and the client gets no answer (or a 500).  After a *)
(* committed statement this is the lost reply that clients retry.          *)
WorkerFail(w) ==
    /\ wpc[w] # "idle"
    /\ Finish(w)
    /\ UnlockAll(w)
    /\ UNCHANGED <<payments, outbox, replies, reported>>

(* A commit whose acknowledgement is lost: the rows are written, the client *)
(* hears of an error.                                                      *)
AuthorizeUnacknowledged(w) ==
    LET r == wreq[w] IN
    /\ wpc[w] = "insert"
    /\ Insertable(r.tenant, r.key)
    /\ \E p \in PaymentIds \ DOMAIN payments : InsertPayment(p, r.tenant, r.key, r.body)
    /\ Finish(w)
    /\ UNCHANGED <<payLock, outbox, replies, reported>>

CaptureUnacknowledged(w) ==
    /\ wpc[w] = "locked"
    /\ wseen[w] = "AUTHORIZED"
    /\ SetStatus(Current(w), "CAPTURED")
    /\ WriteOutbox(Current(w))
    /\ UnlockRow(Current(w))
    /\ Finish(w)
    /\ UNCHANGED <<replies, reported>>

AuthorizeStep(w) == \/ AuthorizeLookup(w)
                    \/ AuthorizeInsert(w)
                    \/ AuthorizeConflict(w)
                    \/ AuthorizeReread(w)
                    \/ AuthorizeUnacknowledged(w)

CaptureStep(w) == \/ CaptureFind(w)
                  \/ CaptureLock(w)
                  \/ CaptureMissing(w)
                  \/ CaptureAgain(w)
                  \/ CaptureRefused(w)
                  \/ CaptureCommit(w)
                  \/ CaptureUnacknowledged(w)

Receive(w) == ReceiveAuthorize(w) \/ ReceiveCapture(w) \/ ReceiveBatch(w)

ApiNext == \E w \in Workers :
    Receive(w) \/ AuthorizeStep(w) \/ CaptureStep(w) \/ WorkerFail(w)

----------------------------------------------------------------------------
(* The service with its other two processes as an environment: the saga     *)
(* consumer voids payments whose capture was recorded, the relay marks      *)
(* recorded captures published.                                            *)
SagaVoids ==
    /\ \E p \in PaymentIds : RowsOf(p) # {} /\ CompensatePayment(p)
    /\ UNCHANGED apiVars

RelayMarks ==
    /\ \E S \in SUBSET DOMAIN outbox : MarkPublished(S)
    /\ UNCHANGED <<payments, payLock, apiVars>>

allVars == <<storeVars, apiVars>>

Init == StoreInit /\ ApiInit
Next == ApiNext \/ SagaVoids \/ RelayMarks
Spec == Init /\ [][Next]_allVars

(* A live worker keeps executing its request, and PostgreSQL queues the     *)
(* waiters of a row lock, so a lock that keeps being freed is granted.      *)
Fairness == \A w \in Workers : /\ WF_allVars(AuthorizeStep(w) \/ CaptureStep(w))
                              /\ SF_allVars(CaptureLock(w))

FairSpec == Spec /\ Fairness

----------------------------------------------------------------------------
StoreTypeOK ==
    /\ DOMAIN payments \subseteq PaymentIds
    /\ payments \in [DOMAIN payments -> PaymentRow]
    /\ payLock \in [PaymentIds -> Workers \cup {NoProc}]
    /\ outbox \in Seq(OutboxRow)

WorkerTypeOK ==
    /\ wpc \in [Workers -> {"idle"} \cup AuthSteps \cup CaptureSteps]
    /\ wreq \in [Workers -> Requests]
    /\ \A w \in Workers :
         /\ wpc[w] \in AuthSteps => wreq[w] \in AuthRequest
         /\ wpc[w] \in CaptureSteps => wreq[w] \in CaptureRequest /\ wreq[w].ids # << >>
    /\ wseen \in [Workers -> Statuses \cup {"unread"}]
    /\ wres \in [Workers -> Seq(Result)]

HistoryTypeOK ==
    /\ replies \subseteq [tenant : Tenants, key : Keys, payment : PaymentIds]
    /\ reported \in [PaymentIds -> Nat]

(* The shape of every variable; the steps of a request only ever run on the *)
(* kind of request they belong to.                                         *)
TypeOK == StoreTypeOK /\ WorkerTypeOK /\ HistoryTypeOK

(* The UNIQUE (tenant, key) constraint holds whatever authorizations race:  *)
(* no two payments of a tenant share a key that was sent.                  *)
UniqueKeys ==
    \A p, q \in DOMAIN payments :
        /\ payments[p].tenant = payments[q].tenant
        /\ payments[p].key = payments[q].key
        /\ payments[p].key # NoKey
        => p = q

(* authorize_payment is safe to retry: every answer a tenant ever gets for  *)
(* one key, over lost replies and racing duplicates, names the same payment, *)
(* and it is a payment of that tenant.                                     *)
IdempotentReplies ==
    /\ \A r \in replies : Owned(r.tenant, r.payment)
    /\ \A r, s \in replies :
         r.tenant = s.tenant /\ r.key = s.key => r.payment = s.payment

(* Why the replies agree: each names a payment that carries the key asked for. *)
RepliesNameKey ==
    \A r \in replies : Owned(r.tenant, r.payment) /\ payments[r.payment].key = r.key

(* The outbox pattern: a payment that left AUTHORIZED has its PaymentCaptured *)
(* row, one that did not has none, and no capture is recorded twice, however *)
(* many capture calls race, fail or are retried.                           *)
CapturedIffRecorded ==
    \A p \in PaymentIds :
        RowsOf(p) # {} <=> p \in DOMAIN payments /\ payments[p].status # "AUTHORIZED"

RecordedOnce ==
    \A i, j \in DOMAIN outbox : outbox[i].payment = outbox[j].payment => i = j

OutboxMatchesState == CapturedIffRecorded /\ RecordedOnce

(* Of all capture calls for a payment at most one is ever told that it       *)
(* emitted the event, and then the event is recorded.                      *)
ReportedOnce ==
    \A p \in PaymentIds : reported[p] > 0 => reported[p] = 1 /\ RowsOf(p) # {}

(* What makes the outbox invariant inductive: the request past its SELECT    *)
(* ... FOR UPDATE holds the row's lock, and what it read there is still so.  *)
HoldsRow(w) ==
    /\ payLock[Current(w)] = w
    /\ Owned(wreq[w].tenant, Current(w))
    /\ wseen[w] = payments[Current(w)].status

LockInv == \A w \in Workers : wpc[w] = "locked" => HoldsRow(w)

(* What a batch noted about an item stays true while it works on the others: *)
(* one failing item undoes nothing and a captured one is recorded.          *)
NotedHolds ==
    \A w \in Workers : \A i \in DOMAIN wres[w] :
        LET p == wres[w][i].id IN
        /\ wres[w][i].outcome \in {"captured", "already_captured"} =>
               Owned(wreq[w].tenant, p) /\ RowsOf(p) # {}
        /\ wres[w][i].outcome = "invalid_state" => payments[p].status = "VOIDED"

(* Capture answers can be relied on: "emitted" is said once per payment, and  *)
(* what a batch has noted as captured, already_captured or invalid_state is   *)
(* still so while it goes on.  (not_found claims nothing: a payment may be     *)
(* inserted after it was looked for.)                                      *)
OutcomesHold == ReportedOnce /\ NotedHolds

(* A payment's status only moves AUTHORIZED -> CAPTURED -> VOIDED: a capture *)
(* that read the status before a compensation cannot write over it.         *)
StatusOnlyAdvances ==
    [][\A p \in DOMAIN payments :
          payments'[p].status # payments[p].status =>
              \/ payments[p].status = "AUTHORIZED" /\ payments'[p].status = "CAPTURED"
              \/ payments[p].status = "CAPTURED" /\ payments'[p].status = "VOIDED"]_allVars

(* Tenant isolation: a payment is captured by a request of its own tenant.  *)
OnlyOwnerCaptures ==
    [][\A p \in DOMAIN payments :
          payments[p].status = "AUTHORIZED" /\ payments'[p].status = "CAPTURED" =>
              \E w \in Workers : /\ wpc[w] = "locked"
                                 /\ Current(w) = p
                                 /\ Owned(wreq[w].tenant, p)]_allVars

(* Capture requests never wait for each other in a circle: each item is a   *)
(* transaction of its own, so every capture request comes to an end.        *)
CaptureEnds == \A w \in Workers : wpc[w] \in CaptureSteps ~> wpc[w] = "idle"
=============================================================================

-------------------------- MODULE PaymentApiProofs --------------------------
(***************************************************************************)
(* Proofs about the payment service's web workers, for every set of         *)
(* payments, tenants, keys and workers and every batch length.              *)
(***************************************************************************)
EXTENDS PaymentApi, FiniteSetTheorems, SequenceTheorems, TLAPS

(* Finishing a request leaves the worker idle and the other workers alone.  *)
LEMMA FinishTyped ==
    ASSUME WorkerTypeOK, NEW w \in Workers, Finish(w)
    PROVE  WorkerTypeOK'
<1>1. << >> \in Seq(Result)
  OBVIOUS
<1>2. NoRequest \in Requests
  BY DEF Requests
<1> QED BY <1>1, <1>2 DEF WorkerTypeOK, Finish, Goto, AuthSteps, CaptureSteps

(* Taking the first element of a non-empty sequence off it.                *)
LEMMA HeadAndTail ==
    ASSUME NEW S, NEW s \in Seq(S), s # << >>
    PROVE  /\ Head(s) \in S
           /\ Tail(s) \in Seq(S)
           /\ Len(s) > 1 => Tail(s) # << >>
<1>1. Head(s) \in S /\ Tail(s) \in Seq(S) /\ Len(Tail(s)) = Len(s) - 1
  BY HeadTailProperties
<1>2. Len(s) > 1 => Len(Tail(s)) # 0
  BY <1>1, LenProperties
<1>3. Len(<< >>) = 0
  BY EmptySeq
<1> QED BY <1>1, <1>2, <1>3

(* The current id of a capture request is a payment id, and what is left     *)
(* after it is again a list of payment ids.                                *)
LEMMA CurrentTyped ==
    ASSUME WorkerTypeOK, NEW w \in Workers, wpc[w] \in CaptureSteps
    PROVE  /\ wreq[w] \in CaptureRequest
           /\ wreq[w].ids \in Seq(PaymentIds)
           /\ wreq[w].ids # << >>
           /\ Current(w) \in PaymentIds
           /\ Tail(wreq[w].ids) \in Seq(PaymentIds)
           /\ Len(wreq[w].ids) > 1 => Tail(wreq[w].ids) # << >>
<1>1. /\ wreq[w] \in CaptureRequest
      /\ wreq[w].ids \in Seq(PaymentIds)
      /\ wreq[w].ids # << >>
  BY DEF WorkerTypeOK, CaptureRequest
<1> QED BY <1>1, HeadAndTail DEF Current

(* Concluding one capture call keeps worker and history types.             *)
LEMMA ConcludeTyped ==
    ASSUME WorkerTypeOK, HistoryTypeOK, NEW w \in Workers, wpc[w] \in CaptureSteps,
           NEW o \in Outcomes, Conclude(w, o)
    PROVE  WorkerTypeOK' /\ HistoryTypeOK'
<1> DEFINE item == [id |-> Current(w), outcome |-> o]
           res == Append(wres[w], item)
<1>1. /\ wreq[w] \in CaptureRequest
      /\ Current(w) \in PaymentIds
      /\ Tail(wreq[w].ids) \in Seq(PaymentIds)
      /\ Len(wreq[w].ids) > 1 => Tail(wreq[w].ids) # << >>
  BY CurrentTyped
<1>2. res \in Seq(Result)
  <2>1. item \in Result
    BY <1>1 DEF Result
  <2>2. wres[w] \in Seq(Result)
    BY DEF WorkerTypeOK
  <2> HIDE DEF item
  <2> QED BY <2>1, <2>2, AppendProperties
<1>3. CASE Len(wreq[w].ids) > 1
  <2>1. /\ wpc' = [wpc EXCEPT ![w] = "lock"]
        /\ wreq' = [wreq EXCEPT ![w] = Rest(wreq[w])]
        /\ wseen' = [wseen EXCEPT ![w] = "unread"]
        /\ wres' = [wres EXCEPT ![w] = res]
        /\ UNCHANGED <<replies, reported>>
    BY <1>3, Zenon DEF Conclude, Goto
  <2>2. /\ Rest(wreq[w]) \in CaptureRequest
        /\ Rest(wreq[w]) \in Requests
        /\ Rest(wreq[w]).ids # << >>
    BY <1>1, <1>3, SMT DEF CaptureRequest, Requests, Rest
  <2>3. HistoryTypeOK'
    BY <2>1 DEF HistoryTypeOK
  <2>4. WorkerTypeOK'
    BY <1>2, <2>1, <2>2, SMT DEF WorkerTypeOK, CaptureSteps, AuthSteps
  <2> QED BY <2>3, <2>4
<1>4. CASE ~(Len(wreq[w].ids) > 1)
  <2>1. /\ Finish(w)
        /\ UNCHANGED replies
        /\ reported' = [p \in PaymentIds |->
               reported[p] + Cardinality({i \in DOMAIN res :
                                 res[i] = [id |-> p, outcome |-> "captured"]})]
    BY <1>4, Zenon DEF Conclude
  <2>2. ASSUME NEW p \in PaymentIds
        PROVE  Cardinality({i \in DOMAIN res :
                   res[i] = [id |-> p, outcome |-> "captured"]}) \in Nat
    <3>1. DOMAIN res = 1..Len(res) /\ Len(res) \in Nat
      BY <1>2
    <3>2. IsFiniteSet(DOMAIN res)
      BY <3>1, FS_Interval
    <3>3. IsFiniteSet({i \in DOMAIN res : res[i] = [id |-> p, outcome |-> "captured"]})
      BY <3>2, FS_Subset
    <3> QED BY <3>3, FS_CardinalityType
  <2> HIDE DEF res
  <2>3. HistoryTypeOK'
    BY <2>1, <2>2, SMT DEF HistoryTypeOK
  <2> QED BY <2>1, <2>3, FinishTyped
<1> QED BY <1>3, <1>4
----------------------------------------------------------------------------
(* What the steps of a request do to the rest of the workers' state: worker *)
(* w is not past a lock afterwards and the other workers stay as they are.  *)
Leaves(w) ==
    /\ wpc'[w] # "locked"
    /\ \A v \in Workers \ {w} :
         wpc'[v] = wpc[v] /\ wreq'[v] = wreq[v] /\ wseen'[v] = wseen[v]

LEMMA FinishLeaves ==
    ASSUME WorkerTypeOK, NEW w \in Workers, Finish(w)
    PROVE  Leaves(w)
BY DEF WorkerTypeOK, Finish, Goto, Leaves

LEMMA ConcludeLeaves ==
    ASSUME WorkerTypeOK, NEW w \in Workers, NEW o, Conclude(w, o)
    PROVE  Leaves(w)
<1>1. CASE Len(wreq[w].ids) > 1
  <2>1. /\ wpc' = [wpc EXCEPT ![w] = "lock"]
        /\ wreq' = [wreq EXCEPT ![w] = Rest(wreq[w])]
        /\ wseen' = [wseen EXCEPT ![w] = "unread"]
    BY <1>1, Zenon DEF Conclude, Goto
  <2> QED BY <2>1 DEF WorkerTypeOK, Leaves
<1>2. CASE ~(Len(wreq[w].ids) > 1)
  BY <1>2, FinishLeaves DEF Conclude
<1> QED BY <1>1, <1>2

LEMMA AcceptLeaves ==
    ASSUME WorkerTypeOK, NEW w \in Workers, NEW r, NEW step, step # "locked",
           Accept(w, r, step)
    PROVE  Leaves(w)
BY DEF WorkerTypeOK, Accept, Goto, Leaves

(* Accepting a well-formed request keeps the types.                        *)
LEMMA AcceptTyped ==
    ASSUME TypeOK, NEW w \in Workers, NEW r \in Requests, NEW step,
           \/ r \in AuthRequest /\ step \in {"lookup", "insert"}
           \/ r \in CaptureRequest /\ r.ids # << >> /\ step \in {"find", "lock"},
           Accept(w, r, step)
    PROVE  TypeOK'
<1>1. WorkerTypeOK'
  BY DEF TypeOK, WorkerTypeOK, Accept, Goto, AuthSteps, CaptureSteps
<1>2. StoreTypeOK' /\ HistoryTypeOK'
  BY DEF TypeOK, StoreTypeOK, HistoryTypeOK, Accept, storeVars
<1> QED BY <1>1, <1>2 DEF TypeOK

(* Answering an authorize request keeps the types.                         *)
LEMMA AnswerTyped ==
    ASSUME TypeOK, NEW w \in Workers, wpc[w] \in AuthSteps, NEW p \in PaymentIds,
           AnswerAuthorize(w, p)
    PROVE  WorkerTypeOK' /\ HistoryTypeOK'
<1>1. WorkerTypeOK'
  BY FinishTyped DEF TypeOK, AnswerAuthorize
<1>2. wreq[w] \in AuthRequest
  BY DEF TypeOK, WorkerTypeOK
<1>3. HistoryTypeOK'
  BY <1>2 DEF TypeOK, HistoryTypeOK, AnswerAuthorize, AuthRequest
<1> QED BY <1>1, <1>3

(* The operators on the database keep its types.                           *)
LEMMA InsertTyped ==
    ASSUME StoreTypeOK, NEW p \in PaymentIds, NEW t \in Tenants,
           NEW k \in Keys \cup {NoKey}, NEW b \in Bodies,
           InsertPayment(p, t, k, b), UNCHANGED <<payLock, outbox>>
    PROVE  StoreTypeOK'
<1> DEFINE row == [tenant |-> t, key |-> k, body |-> b, status |-> "AUTHORIZED"]
<1>1. row \in PaymentRow
  BY DEF PaymentRow, Statuses
<1>2. payments' = [q \in DOMAIN payments \cup {p} |-> IF q = p THEN row ELSE payments[q]]
  BY DEF InsertPayment
<1> HIDE DEF row
<1> QED BY <1>1, <1>2 DEF StoreTypeOK

LEMMA SetStatusTyped ==
    ASSUME StoreTypeOK, NEW p \in DOMAIN payments, NEW s \in Statuses, SetStatus(p, s)
    PROVE  /\ DOMAIN payments' = DOMAIN payments
           /\ payments' \in [DOMAIN payments -> PaymentRow]
           /\ payments'[p].status = s
           /\ payments'[p].tenant = payments[p].tenant
           /\ payments'[p].key = payments[p].key
           /\ payments'[p].body = payments[p].body
           /\ \A q \in DOMAIN payments \ {p} : payments'[q] = payments[q]
BY DEF StoreTypeOK, SetStatus, PaymentRow

LEMMA WriteOutboxTyped ==
    ASSUME StoreTypeOK, NEW p \in DOMAIN payments, WriteOutbox(p)
    PROVE  /\ outbox' \in Seq(OutboxRow)
           /\ DOMAIN outbox = 1..Len(outbox)
           /\ Len(outbox) \in Nat
           /\ DOMAIN outbox' = 1..(Len(outbox) + 1)
           /\ outbox'[Len(outbox) + 1].payment = p
           /\ outbox'[Len(outbox) + 1].tenant = payments[p].tenant
           /\ outbox'[Len(outbox) + 1].body = payments[p].body
           /\ \A i \in 1..Len(outbox) : outbox'[i] = outbox[i]
<1>1. /\ CapturedRow(p) \in OutboxRow /\ CapturedRow(p).payment = p
      /\ CapturedRow(p).tenant = payments[p].tenant
      /\ CapturedRow(p).body = payments[p].body
  BY DEF StoreTypeOK, CapturedRow, OutboxRow, PaymentRow, OutboxStatuses
<1>2. outbox \in Seq(OutboxRow) /\ outbox' = Append(outbox, CapturedRow(p))
  BY DEF StoreTypeOK, WriteOutbox
<1> QED BY <1>1, <1>2, AppendProperties, LenProperties

LEMMA MarkPublishedTyped ==
    ASSUME StoreTypeOK, NEW S, MarkPublished(S)
    PROVE  /\ outbox' \in Seq(OutboxRow)
           /\ DOMAIN outbox' = DOMAIN outbox
           /\ \A i \in DOMAIN outbox : /\ outbox'[i].payment = outbox[i].payment
                                      /\ outbox'[i].tenant = outbox[i].tenant
                                      /\ outbox'[i].body = outbox[i].body
<1> DEFINE marked(i) == [outbox[i] EXCEPT !.status = "PUBLISHED"]
<1>1. /\ outbox \in Seq(OutboxRow)
      /\ DOMAIN outbox = 1..Len(outbox) /\ Len(outbox) \in Nat
      /\ \A i \in DOMAIN outbox : outbox[i] \in OutboxRow
  BY DEF StoreTypeOK
<1>2. \A i \in DOMAIN outbox : /\ marked(i) \in OutboxRow
                              /\ marked(i).payment = outbox[i].payment
                              /\ marked(i).tenant = outbox[i].tenant
                              /\ marked(i).body = outbox[i].body
  BY <1>1 DEF OutboxRow, OutboxStatuses
<1>3. outbox' = [i \in DOMAIN outbox |-> IF i \in S THEN marked(i) ELSE outbox[i]]
  BY DEF MarkPublished
<1> HIDE DEF marked
<1> QED BY <1>1, <1>2, <1>3
----------------------------------------------------------------------------
LEMMA TypeInit == Init => TypeOK
<1> SUFFICES ASSUME Init PROVE TypeOK
  OBVIOUS
<1>1. StoreTypeOK
  BY DEF Init, StoreInit, StoreTypeOK
<1>2. WorkerTypeOK
  BY DEF Init, ApiInit, WorkerTypeOK, Requests, AuthSteps, CaptureSteps
<1>3. HistoryTypeOK
  BY DEF Init, ApiInit, HistoryTypeOK
<1> QED BY <1>1, <1>2, <1>3 DEF TypeOK

LEMMA TypeStep ==
    ASSUME TypeOK, LockInv, [Next]_allVars
    PROVE  TypeOK'
<1> USE DEF TypeOK
<1>1. ASSUME NEW w \in Workers, Receive(w)
      PROVE  TypeOK'
  <2>1. CASE ReceiveAuthorize(w)
    <3>1. PICK r \in AuthRequest :
              Accept(w, r, IF KeyIsTruthy(r.key) THEN "lookup" ELSE "insert")
      BY <2>1 DEF ReceiveAuthorize
    <3>2. r \in Requests
      BY DEF Requests
    <3> QED BY <3>1, <3>2, AcceptTyped
  <2>2. CASE ReceiveCapture(w)
    <3>1. PICK t \in Tenants, p \in PaymentIds :
              Accept(w, [tenant |-> t, batch |-> FALSE, ids |-> <<p>>], "find")
      BY <2>2 DEF ReceiveCapture
    <3> DEFINE r == [tenant |-> t, batch |-> FALSE, ids |-> <<p>>]
    <3>2. r \in CaptureRequest /\ r \in Requests /\ r.ids # << >>
      BY DEF CaptureRequest, Requests
    <3> HIDE DEF r
    <3> QED BY <3>1, <3>2, AcceptTyped DEF r
  <2>3. CASE ReceiveBatch(w)
    <3>1. PICK t \in Tenants, ids \in BatchLists :
              Accept(w, [tenant |-> t, batch |-> TRUE, ids |-> ids], "lock")
      BY <2>3 DEF ReceiveBatch
    <3>2. PICK n \in 1..MaxBatch : ids \in [1..n -> PaymentIds]
      BY DEF BatchLists
    <3>3. ids \in Seq(PaymentIds) /\ ids # << >>
      BY <3>2, ApiAssumption, EmptySeq
    <3> DEFINE r == [tenant |-> t, batch |-> TRUE, ids |-> ids]
    <3>4. r \in CaptureRequest /\ r \in Requests /\ r.ids # << >>
      BY <3>3 DEF CaptureRequest, Requests
    <3> HIDE DEF r
    <3> QED BY <3>1, <3>4, AcceptTyped DEF r
  <2> QED BY <1>1, <2>1, <2>2, <2>3 DEF Receive
<1>2. ASSUME NEW w \in Workers, AuthorizeStep(w)
      PROVE  TypeOK'
  <2>0. /\ wpc[w] \in AuthSteps
        /\ wreq[w] \in AuthRequest
        /\ wreq[w].tenant \in Tenants
        /\ wreq[w].key \in Keys \cup {NoKey}
        /\ wreq[w].body \in Bodies
    BY <1>2 DEF AuthorizeStep, AuthorizeLookup, AuthorizeInsert, AuthorizeConflict,
       AuthorizeReread, AuthorizeUnacknowledged, AuthSteps, WorkerTypeOK, AuthRequest
  <2>1. ASSUME UNCHANGED storeVars PROVE StoreTypeOK'
    BY <2>1 DEF StoreTypeOK, storeVars
  <2>2. ASSUME NEW step \in AuthSteps, Goto(w, step),
               UNCHANGED <<wreq, wseen, wres, replies, reported>>
        PROVE  WorkerTypeOK' /\ HistoryTypeOK'
    BY <2>0, <2>2 DEF Goto, WorkerTypeOK, HistoryTypeOK, AuthSteps, CaptureSteps
  <2>3. WithKey(wreq[w].tenant, wreq[w].key) \subseteq PaymentIds
    BY DEF WithKey, StoreTypeOK
  <2>4. CASE AuthorizeLookup(w)
    BY <2>0, <2>1, <2>2, <2>3, <2>4, AnswerTyped DEF AuthorizeLookup, AuthSteps
  <2>5. CASE AuthorizeInsert(w)
    <3>1. PICK p \in PaymentIds \ DOMAIN payments :
              /\ InsertPayment(p, wreq[w].tenant, wreq[w].key, wreq[w].body)
              /\ AnswerAuthorize(w, p)
      BY <2>5 DEF AuthorizeInsert
    <3>2. StoreTypeOK'
      BY <2>0, <2>5, <3>1, InsertTyped DEF AuthorizeInsert
    <3> QED BY <2>0, <3>1, <3>2, AnswerTyped
  <2>6. CASE AuthorizeConflict(w)
    BY <2>1, <2>2, <2>6 DEF AuthorizeConflict, AuthSteps
  <2>7. CASE AuthorizeReread(w)
    <3>1. CASE \E p \in WithKey(wreq[w].tenant, wreq[w].key) : AnswerAuthorize(w, p)
      BY <2>0, <2>1, <2>3, <2>7, <3>1, AnswerTyped DEF AuthorizeReread
    <3>2. CASE Finish(w) /\ UNCHANGED <<replies, reported>>
      BY <2>1, <2>7, <3>2, FinishTyped DEF AuthorizeReread, HistoryTypeOK
    <3> QED BY <2>7, <3>1, <3>2 DEF AuthorizeReread
  <2>8. CASE AuthorizeUnacknowledged(w)
    <3>1. PICK p \in PaymentIds \ DOMAIN payments :
              InsertPayment(p, wreq[w].tenant, wreq[w].key, wreq[w].body)
      BY <2>8 DEF AuthorizeUnacknowledged
    <3>2. StoreTypeOK'
      BY <2>0, <2>8, <3>1, InsertTyped DEF AuthorizeUnacknowledged
    <3> QED BY <2>8, <3>2, FinishTyped DEF AuthorizeUnacknowledged, HistoryTypeOK
  <2> QED BY <1>2, <2>4, <2>5, <2>6, <2>7, <2>8 DEF AuthorizeStep
<1>3. ASSUME NEW w \in Workers, CaptureStep(w)
      PROVE  TypeOK'
  <2>0. /\ wpc[w] \in CaptureSteps
        /\ Current(w) \in PaymentIds
    BY <1>3, CurrentTyped DEF CaptureStep, CaptureFind, CaptureLock, CaptureMissing,
       CaptureAgain, CaptureRefused, CaptureCommit, CaptureUnacknowledged, CaptureSteps
  <2>1. ASSUME UNCHANGED storeVars PROVE StoreTypeOK'
    BY <2>1 DEF StoreTypeOK, storeVars
  <2>2. ASSUME UnlockRow(Current(w)), UNCHANGED <<payments, outbox>> PROVE StoreTypeOK'
    BY <2>0, <2>2 DEF StoreTypeOK, UnlockRow
  <2>3. ASSUME wpc[w] = "locked", SetStatus(Current(w), "CAPTURED"),
               WriteOutbox(Current(w)), UnlockRow(Current(w))
        PROVE  StoreTypeOK'
    <3>1. Current(w) \in DOMAIN payments
      BY <2>3 DEF LockInv, HoldsRow, Owned
    <3>2. "CAPTURED" \in Statuses
      BY DEF Statuses
    <3>3. payLock' \in [PaymentIds -> Workers \cup {NoProc}]
      BY <2>0, <2>3 DEF UnlockRow, StoreTypeOK
    <3> QED BY <2>3, <3>1, <3>2, <3>3, SetStatusTyped, WriteOutboxTyped DEF StoreTypeOK
  <2>4. CASE CaptureFind(w)
    <3>1. WorkerTypeOK'
      BY <2>0, <2>4, FinishTyped DEF CaptureFind, Goto, WorkerTypeOK, AuthSteps, CaptureSteps
    <3> QED BY <2>1, <2>4, <3>1 DEF CaptureFind, HistoryTypeOK
  <2>5. CASE CaptureLock(w)
    <3>1. StoreTypeOK'
      BY <2>0, <2>5 DEF CaptureLock, LockRow, StoreTypeOK
    <3>2. payments[Current(w)].status \in Statuses
      BY <2>5 DEF CaptureLock, Owned, StoreTypeOK, PaymentRow
    <3>3. WorkerTypeOK'
      BY <2>0, <2>5, <3>2 DEF CaptureLock, Goto, WorkerTypeOK, AuthSteps, CaptureSteps
    <3> QED BY <2>5, <3>1, <3>3 DEF CaptureLock, HistoryTypeOK
  <2>6. CASE CaptureMissing(w)
    BY <2>0, <2>1, <2>6, ConcludeTyped DEF CaptureMissing, Outcomes
  <2>7. CASE CaptureAgain(w)
    BY <2>0, <2>2, <2>7, ConcludeTyped DEF CaptureAgain, Outcomes
  <2>8. CASE CaptureRefused(w)
    BY <2>0, <2>2, <2>8, ConcludeTyped DEF CaptureRefused, Outcomes
  <2>9. CASE CaptureCommit(w)
    BY <2>0, <2>3, <2>9, ConcludeTyped DEF CaptureCommit, Outcomes
  <2>10. CASE CaptureUnacknowledged(w)
    BY <2>3, <2>10, FinishTyped DEF CaptureUnacknowledged, HistoryTypeOK
  <2> QED BY <1>3, <2>4, <2>5, <2>6, <2>7, <2>8, <2>9, <2>10 DEF CaptureStep
<1>4. ASSUME NEW w \in Workers, WorkerFail(w)
      PROVE  TypeOK'
  BY <1>4, FinishTyped DEF WorkerFail, UnlockAll, StoreTypeOK, HistoryTypeOK
<1>5. CASE SagaVoids
  <2>1. PICK p \in PaymentIds : CompensatePayment(p)
    BY <1>5 DEF SagaVoids
  <2>2. "VOIDED" \in Statuses
    BY DEF Statuses
  <2>3. StoreTypeOK'
    BY <2>1, <2>2, SetStatusTyped DEF CompensatePayment, Compensable, StoreTypeOK
  <2> QED BY <1>5, <2>3 DEF SagaVoids, apiVars, WorkerTypeOK, HistoryTypeOK
<1>6. CASE RelayMarks
  <2>1. StoreTypeOK'
    BY <1>6, MarkPublishedTyped DEF RelayMarks, StoreTypeOK
  <2> QED BY <1>6, <2>1 DEF RelayMarks, apiVars, WorkerTypeOK, HistoryTypeOK
<1>7. CASE UNCHANGED allVars
  BY <1>7 DEF allVars, storeVars, apiVars, StoreTypeOK, WorkerTypeOK, HistoryTypeOK
<1> QED BY <1>1, <1>2, <1>3, <1>4, <1>5, <1>6, <1>7 DEF Next, ApiNext
----------------------------------------------------------------------------
(* Three ways a step leaves the claims of workers on locked rows intact.    *)
LEMMA LockKeptByLeaving ==
    ASSUME LockInv, NEW w \in Workers, Leaves(w), UNCHANGED payLock,
           \A p \in DOMAIN payments :
              /\ p \in DOMAIN payments'
              /\ payments'[p].tenant = payments[p].tenant
              /\ payments'[p].status = payments[p].status
    PROVE  LockInv'
BY DEF LockInv, HoldsRow, Current, Owned, Leaves

LEMMA LockKeptByUnlocking ==
    ASSUME TypeOK, LockInv, NEW w \in Workers, Leaves(w),
           wpc[w] = "locked",
           UnlockRow(Current(w)),
           \A p \in DOMAIN payments \ {Current(w)} :
              p \in DOMAIN payments' /\ payments'[p] = payments[p]
    PROVE  LockInv'
<1> SUFFICES ASSUME NEW v \in Workers, wpc'[v] = "locked"
             PROVE  HoldsRow(v)'
  BY DEF LockInv
<1>1. v # w /\ wpc[v] = "locked" /\ wreq'[v] = wreq[v] /\ wseen'[v] = wseen[v]
  BY DEF Leaves
<1>2. HoldsRow(v) /\ HoldsRow(w)
  BY <1>1 DEF LockInv
<1>3. Current(v) \in PaymentIds /\ Current(v) # Current(w)
  BY <1>1, <1>2 DEF HoldsRow, Owned, TypeOK, StoreTypeOK
<1>4. payLock'[Current(v)] = payLock[Current(v)]
  BY <1>3 DEF UnlockRow, TypeOK, StoreTypeOK
<1> QED BY <1>1, <1>2, <1>3, <1>4 DEF HoldsRow, Current, Owned

LEMMA LockStep ==
    ASSUME TypeOK, LockInv, [Next]_allVars
    PROVE  LockInv'
<1>0. WorkerTypeOK
  BY DEF TypeOK
<1>1. ASSUME NEW w \in Workers, Receive(w)
      PROVE  LockInv'
  <2>1. Leaves(w) /\ UNCHANGED storeVars
    BY <1>0, <1>1, AcceptLeaves
    DEF Receive, ReceiveAuthorize, ReceiveCapture, ReceiveBatch, Accept
  <2> QED BY <2>1, LockKeptByLeaving DEF storeVars
<1>2. ASSUME NEW w \in Workers, AuthorizeStep(w)
      PROVE  LockInv'
  <2>1. /\ Leaves(w)
        /\ UNCHANGED payLock
        /\ UNCHANGED payments \/ \E p \in PaymentIds \ DOMAIN payments :
              InsertPayment(p, wreq[w].tenant, wreq[w].key, wreq[w].body)
    <3>1. ASSUME NEW step \in AuthSteps, Goto(w, step), UNCHANGED <<wreq, wseen>>
          PROVE  Leaves(w)
      BY <1>0, <3>1 DEF Goto, Leaves, WorkerTypeOK, AuthSteps
    <3>2. ASSUME NEW p, AnswerAuthorize(w, p) PROVE Leaves(w)
      BY <1>0, <3>2, FinishLeaves DEF AnswerAuthorize
    <3> QED BY <1>0, <1>2, <3>1, <3>2, FinishLeaves
        DEF AuthorizeStep, AuthorizeLookup, AuthorizeInsert, AuthorizeConflict,
            AuthorizeReread, AuthorizeUnacknowledged, AuthSteps, storeVars
  <2>2. \A p \in DOMAIN payments : p \in DOMAIN payments' /\ payments'[p] = payments[p]
    BY <2>1 DEF InsertPayment
  <2> QED BY <2>1, <2>2, LockKeptByLeaving
<1>3. ASSUME NEW w \in Workers, CaptureStep(w)
      PROVE  LockInv'
  <2>1. CASE CaptureFind(w)
    <3>1. Leaves(w)
      BY <1>0, <2>1, FinishLeaves DEF CaptureFind, Goto, Leaves, WorkerTypeOK
    <3> QED BY <2>1, <3>1, LockKeptByLeaving DEF CaptureFind, storeVars
  <2>2. CASE CaptureLock(w)
    <3> SUFFICES ASSUME NEW v \in Workers, wpc'[v] = "locked"
                 PROVE  HoldsRow(v)'
      BY DEF LockInv
    <3>1. Current(w) \in PaymentIds
      BY <1>0, <2>2, CurrentTyped DEF CaptureLock, CaptureSteps
    <3>2. CASE v = w
      BY <1>0, <2>2, <3>1, <3>2
      DEF CaptureLock, LockRow, HoldsRow, Current, Owned, TypeOK, StoreTypeOK, WorkerTypeOK
    <3>3. CASE v # w
      <4>1. wpc[v] = "locked" /\ wseen'[v] = wseen[v] /\ UNCHANGED <<wreq, payments>>
        BY <1>0, <2>2, <3>3 DEF CaptureLock, Goto, WorkerTypeOK
      <4>2. HoldsRow(v) /\ Current(v) \in PaymentIds
        BY <4>1 DEF LockInv, HoldsRow, Owned, TypeOK, StoreTypeOK
      <4>3. payLock[Current(w)] \notin Workers
        BY <2>2, ApiAssumption DEF CaptureLock, Free
      <4>4. payLock'[Current(v)] = payLock[Current(v)]
        BY <2>2, <3>1, <4>2, <4>3 DEF CaptureLock, LockRow, HoldsRow, TypeOK, StoreTypeOK
      <4> QED BY <4>1, <4>2, <4>4 DEF HoldsRow, Current, Owned
    <3> QED BY <3>2, <3>3
  <2>3. CASE CaptureMissing(w)
    <3>1. Leaves(w)
      BY <1>0, <2>3, ConcludeLeaves DEF CaptureMissing
    <3> QED BY <2>3, <3>1, LockKeptByLeaving DEF CaptureMissing, storeVars
  <2>4. CASE CaptureAgain(w) \/ CaptureRefused(w)
    <3>1. Leaves(w)
      BY <1>0, <2>4, ConcludeLeaves DEF CaptureAgain, CaptureRefused
    <3> QED BY <2>4, <3>1, LockKeptByUnlocking DEF CaptureAgain, CaptureRefused
  <2>5. CASE CaptureCommit(w) \/ CaptureUnacknowledged(w)
    <3>1. Leaves(w)
      BY <1>0, <2>5, ConcludeLeaves, FinishLeaves DEF CaptureCommit, CaptureUnacknowledged
    <3>2. wpc[w] = "locked" /\ SetStatus(Current(w), "CAPTURED") /\ UnlockRow(Current(w))
      BY <2>5 DEF CaptureCommit, CaptureUnacknowledged
    <3>3. \A p \in DOMAIN payments \ {Current(w)} :
              p \in DOMAIN payments' /\ payments'[p] = payments[p]
      BY <3>2 DEF SetStatus
    <3> QED BY <3>1, <3>2, <3>3, LockKeptByUnlocking
  <2> QED BY <1>3, <2>1, <2>2, <2>3, <2>4, <2>5 DEF CaptureStep
<1>4. ASSUME NEW w \in Workers, WorkerFail(w)
      PROVE  LockInv'
  <2> SUFFICES ASSUME NEW v \in Workers, wpc'[v] = "locked"
               PROVE  HoldsRow(v)'
    BY DEF LockInv
  <2>1. Leaves(w)
    BY <1>0, <1>4, FinishLeaves DEF WorkerFail
  <2>2. v # w /\ wpc[v] = "locked" /\ wreq'[v] = wreq[v] /\ wseen'[v] = wseen[v]
    BY <2>1 DEF Leaves
  <2>3. HoldsRow(v) /\ Current(v) \in PaymentIds
    BY <2>2 DEF LockInv, HoldsRow, Owned, TypeOK, StoreTypeOK
  <2>4. payLock'[Current(v)] = payLock[Current(v)] /\ UNCHANGED payments
    BY <1>4, <2>2, <2>3 DEF WorkerFail, UnlockAll, HoldsRow
  <2> QED BY <2>2, <2>3, <2>4 DEF HoldsRow, Current, Owned
<1>5. CASE SagaVoids
  <2> SUFFICES ASSUME NEW v \in Workers, wpc'[v] = "locked"
               PROVE  HoldsRow(v)'
    BY DEF LockInv
  <2>1. PICK p \in PaymentIds : CompensatePayment(p)
    BY <1>5 DEF SagaVoids
  <2>2. UNCHANGED <<wpc, wreq, wseen, payLock>>
    BY <1>5, <2>1 DEF SagaVoids, apiVars, CompensatePayment
  <2>3. HoldsRow(v) /\ Current(v) # p
    BY <2>1, <2>2, ApiAssumption DEF LockInv, HoldsRow, CompensatePayment, Free
  <2>4. \A q \in DOMAIN payments \ {p} : q \in DOMAIN payments' /\ payments'[q] = payments[q]
    BY <2>1 DEF CompensatePayment, SetStatus
  <2> QED BY <2>2, <2>3, <2>4 DEF HoldsRow, Current, Owned
<1>6. CASE RelayMarks \/ UNCHANGED allVars
  <2>1. UNCHANGED <<payments, payLock, wpc, wreq, wseen>>
    BY <1>6 DEF RelayMarks, allVars, apiVars, storeVars
  <2> QED BY <2>1 DEF LockInv, HoldsRow, Current, Owned
<1> QED BY <1>1, <1>2, <1>3, <1>4, <1>5, <1>6 DEF Next, ApiNext
----------------------------------------------------------------------------
(* The four ways a step may change the database.                           *)
Untouched ==
    /\ UNCHANGED payments
    /\ outbox' \in Seq(OutboxRow)
    /\ DOMAIN outbox' = DOMAIN outbox
    /\ \A i \in DOMAIN outbox : /\ outbox'[i].payment = outbox[i].payment
                               /\ outbox'[i].tenant = outbox[i].tenant
                               /\ outbox'[i].body = outbox[i].body

Authorizes(p) ==
    /\ p \in PaymentIds \ DOMAIN payments
    /\ \E t \in Tenants, k \in Keys \cup {NoKey}, b \in Bodies :
          Insertable(t, k) /\ InsertPayment(p, t, k, b)
    /\ UNCHANGED outbox

Captures(w, p) ==
    /\ wpc[w] = "locked"
    /\ p = Current(w)
    /\ Owned(wreq[w].tenant, p)
    /\ payments[p].status = "AUTHORIZED"
    /\ SetStatus(p, "CAPTURED")
    /\ WriteOutbox(p)

Voids(p) ==
    /\ p \in DOMAIN payments
    /\ payments[p].status # "VOIDED"
    /\ RowsOf(p) # {}
    /\ SetStatus(p, "VOIDED")
    /\ UNCHANGED outbox

LEMMA StoreSteps ==
    ASSUME TypeOK, LockInv, [Next]_allVars
    PROVE  \/ Untouched
           \/ \E p \in PaymentIds : Authorizes(p)
           \/ \E w \in Workers, p \in PaymentIds : Captures(w, p)
           \/ \E p \in PaymentIds : Voids(p)
<1>0. ASSUME UNCHANGED <<payments, outbox>> PROVE Untouched
  BY <1>0 DEF Untouched, TypeOK, StoreTypeOK
<1>1. ASSUME NEW w \in Workers, Receive(w) \/ WorkerFail(w)
      PROVE  Untouched
  BY <1>0, <1>1
  DEF Receive, ReceiveAuthorize, ReceiveCapture, ReceiveBatch, Accept, WorkerFail, storeVars
<1>2. ASSUME NEW w \in Workers, AuthorizeStep(w)
      PROVE  Untouched \/ \E p \in PaymentIds : Authorizes(p)
  <2>1. CASE AuthorizeInsert(w) \/ AuthorizeUnacknowledged(w)
    <3>1. /\ wreq[w].tenant \in Tenants
          /\ wreq[w].key \in Keys \cup {NoKey}
          /\ wreq[w].body \in Bodies
      BY <2>1 DEF AuthorizeInsert, AuthorizeUnacknowledged, TypeOK, WorkerTypeOK,
         AuthSteps, AuthRequest
    <3> QED BY <2>1, <3>1 DEF AuthorizeInsert, AuthorizeUnacknowledged, Authorizes
  <2>2. CASE UNCHANGED storeVars
    BY <1>0, <2>2 DEF storeVars
  <2> QED BY <1>2, <2>1, <2>2
      DEF AuthorizeStep, AuthorizeLookup, AuthorizeConflict, AuthorizeReread
<1>3. ASSUME NEW w \in Workers, CaptureStep(w)
      PROVE  Untouched \/ \E p \in PaymentIds : Captures(w, p)
  <2>1. CASE CaptureCommit(w) \/ CaptureUnacknowledged(w)
    <3>1. /\ wpc[w] = "locked" /\ wseen[w] = "AUTHORIZED"
          /\ SetStatus(Current(w), "CAPTURED") /\ WriteOutbox(Current(w))
      BY <2>1 DEF CaptureCommit, CaptureUnacknowledged
    <3>2. HoldsRow(w)
      BY <3>1 DEF LockInv
    <3>3. Captures(w, Current(w)) /\ Current(w) \in PaymentIds
      BY <3>1, <3>2 DEF HoldsRow, Captures, Owned, TypeOK, StoreTypeOK
    <3> QED BY <3>3
  <2>2. CASE UNCHANGED <<payments, outbox>>
    BY <1>0, <2>2
  <2> QED BY <1>3, <2>1, <2>2
      DEF CaptureStep, CaptureFind, CaptureLock, CaptureMissing, CaptureAgain,
          CaptureRefused, storeVars
<1>4. CASE SagaVoids
  <2>1. PICK p \in PaymentIds : RowsOf(p) # {} /\ CompensatePayment(p)
    BY <1>4 DEF SagaVoids
  <2>2. CASE Compensable(p)
    <3>1. Voids(p)
      BY <2>1, <2>2 DEF CompensatePayment, Compensable, Voids
    <3> QED BY <3>1
  <2>3. CASE ~Compensable(p)
    BY <1>0, <2>1, <2>3 DEF CompensatePayment
  <2> QED BY <2>2, <2>3
<1>5. CASE RelayMarks
  BY <1>5, MarkPublishedTyped DEF RelayMarks, Untouched, TypeOK
<1>6. CASE UNCHANGED allVars
  BY <1>0, <1>6 DEF allVars, storeVars
<1> QED BY <1>1, <1>2, <1>3, <1>4, <1>5, <1>6 DEF Next, ApiNext

LEMMA OutboxStep ==
    ASSUME TypeOK, LockInv, OutboxMatchesState, [Next]_allVars
    PROVE  OutboxMatchesState'
<1> USE DEF OutboxMatchesState
<1>1. CASE Untouched
  BY <1>1 DEF Untouched, CapturedIffRecorded, RecordedOnce, RowsOf
<1>2. ASSUME NEW p \in PaymentIds, Authorizes(p)
      PROVE  OutboxMatchesState'
  <2>1. RowsOf(p) = {}
    BY <1>2 DEF Authorizes, CapturedIffRecorded
  <2>2. UNCHANGED outbox
    BY <1>2 DEF Authorizes
  <2>3. /\ DOMAIN payments' = DOMAIN payments \cup {p}
        /\ payments'[p].status = "AUTHORIZED"
        /\ \A q \in DOMAIN payments : q # p /\ payments'[q] = payments[q]
    BY <1>2 DEF Authorizes, InsertPayment
  <2> QED BY <2>1, <2>2, <2>3 DEF CapturedIffRecorded, RecordedOnce, RowsOf
<1>3. ASSUME NEW w \in Workers, NEW p \in PaymentIds, Captures(w, p)
      PROVE  OutboxMatchesState'
  <2> DEFINE n == Len(outbox) + 1
  <2>1. p \in DOMAIN payments /\ RowsOf(p) = {}
    BY <1>3 DEF Captures, Owned, CapturedIffRecorded
  <2>2. /\ DOMAIN outbox = 1..Len(outbox)
        /\ Len(outbox) \in Nat
        /\ DOMAIN outbox' = 1..n
        /\ outbox'[n].payment = p
        /\ \A i \in 1..Len(outbox) : outbox'[i] = outbox[i]
    BY <1>3, <2>1, WriteOutboxTyped DEF Captures, TypeOK
  <2>3. /\ DOMAIN payments' = DOMAIN payments
        /\ payments'[p].status = "CAPTURED"
        /\ \A q \in DOMAIN payments \ {p} : payments'[q] = payments[q]
    BY <1>3, <2>1, SetStatusTyped DEF Captures, TypeOK, Statuses
  <2>4. \A q \in PaymentIds : RowsOf(q)' = IF q = p THEN {n} ELSE RowsOf(q)
    BY <2>1, <2>2 DEF RowsOf
  <2>5. RecordedOnce'
    BY <2>1, <2>2 DEF RecordedOnce, RowsOf
  <2> HIDE DEF n
  <2>6. CapturedIffRecorded'
    BY <2>1, <2>3, <2>4 DEF CapturedIffRecorded
  <2> QED BY <2>5, <2>6
<1>4. ASSUME NEW p \in PaymentIds, Voids(p)
      PROVE  OutboxMatchesState'
  <2>1. /\ DOMAIN payments' = DOMAIN payments
        /\ payments'[p].status = "VOIDED"
        /\ \A q \in DOMAIN payments \ {p} : payments'[q] = payments[q]
    BY <1>4, SetStatusTyped DEF Voids, TypeOK, Statuses
  <2> QED BY <1>4, <2>1 DEF Voids, CapturedIffRecorded, RecordedOnce, RowsOf
<1> QED BY <1>1, <1>2, <1>3, <1>4, StoreSteps

----------------------------------------------------------------------------
(* Type correctness, the meaning of the row locks and the outbox invariant   *)
(* hold together: the lock is what lets capture_payment trust the status it *)
(* read.                                                                   *)
IInv == TypeOK /\ LockInv /\ OutboxMatchesState

THEOREM ApiInvariant == Spec => []IInv
<1>1. Init => IInv
  <2>1. Init => LockInv
    BY DEF Init, ApiInit, LockInv
  <2>2. Init => OutboxMatchesState
    BY DEF Init, StoreInit, OutboxMatchesState, CapturedIffRecorded, RecordedOnce, RowsOf
  <2> QED BY <2>1, <2>2, TypeInit DEF IInv
<1>2. IInv /\ [Next]_allVars => IInv'
  BY TypeStep, LockStep, OutboxStep DEF IInv
<1> QED BY <1>1, <1>2, PTL DEF Spec

(* Every variable keeps its shape, for all sets of requests and interleavings. *)
THEOREM ApiTypeCorrect == Spec => []TypeOK
BY ApiInvariant, PTL DEF IInv

(* The outbox pattern holds however captures, retries, failures and          *)
(* compensations interleave: a payment has a PaymentCaptured row exactly     *)
(* when it left AUTHORIZED, and never two.                                 *)
THEOREM OutboxPattern == Spec => []OutboxMatchesState
BY ApiInvariant, PTL DEF IInv

(* A payment's status only advances: no lost update between a capture and a  *)
(* compensation of the same payment.                                       *)
THEOREM NoLostUpdate == Spec => StatusOnlyAdvances
<1> DEFINE Advances ==
        \A p \in DOMAIN payments :
          payments'[p].status # payments[p].status =>
              \/ payments[p].status = "AUTHORIZED" /\ payments'[p].status = "CAPTURED"
              \/ payments[p].status = "CAPTURED" /\ payments'[p].status = "VOIDED"
<1>1. IInv /\ [Next]_allVars => Advances
  <2> SUFFICES ASSUME IInv, [Next]_allVars PROVE Advances
    OBVIOUS
  <2>0. TypeOK /\ LockInv /\ OutboxMatchesState
    BY DEF IInv
  <2>1. CASE Untouched
    BY <2>1 DEF Untouched
  <2>2. ASSUME NEW p \in PaymentIds, Authorizes(p) PROVE Advances
    BY <2>2 DEF Authorizes, InsertPayment
  <2>3. ASSUME NEW w \in Workers, NEW p \in PaymentIds, Captures(w, p) PROVE Advances
    BY <2>0, <2>3, SetStatusTyped DEF Captures, Owned, TypeOK, Statuses
  <2>4. ASSUME NEW p \in PaymentIds, Voids(p) PROVE Advances
    <3>1. payments[p].status = "CAPTURED"
      BY <2>0, <2>4 DEF Voids, OutboxMatchesState, CapturedIffRecorded, TypeOK,
         StoreTypeOK, PaymentRow, Statuses
    <3> QED BY <2>0, <2>4, <3>1, SetStatusTyped DEF Voids, TypeOK, Statuses
  <2> QED BY <2>0, <2>1, <2>2, <2>3, <2>4, StoreSteps
<1>2. IInv /\ [Next]_allVars => [Advances]_allVars
  BY <1>1
<1> QED BY <1>2, ApiInvariant, PTL DEF Spec, StatusOnlyAdvances

(* Tenant isolation: whoever races, only a request of the payment's own      *)
(* tenant captures it.                                                     *)
THEOREM CapturedByOwner == Spec => OnlyOwnerCaptures
<1> DEFINE ByOwner ==
        \A p \in DOMAIN payments :
          payments[p].status = "AUTHORIZED" /\ payments'[p].status = "CAPTURED" =>
              \E w \in Workers : /\ wpc[w] = "locked"
                                 /\ Current(w) = p
                                 /\ Owned(wreq[w].tenant, p)
<1>1. IInv /\ [Next]_allVars => ByOwner
  <2> SUFFICES ASSUME IInv, [Next]_allVars PROVE ByOwner
    OBVIOUS
  <2>0. TypeOK /\ LockInv
    BY DEF IInv
  <2>1. CASE Untouched
    BY <2>1 DEF Untouched
  <2>2. ASSUME NEW p \in PaymentIds, Authorizes(p) PROVE ByOwner
    BY <2>2 DEF Authorizes, InsertPayment
  <2>3. ASSUME NEW w \in Workers, NEW p \in PaymentIds, Captures(w, p) PROVE ByOwner
    <3>1. p \in DOMAIN payments
      BY <2>3 DEF Captures, Owned
    <3>2. \A q \in DOMAIN payments \ {p} : payments'[q] = payments[q]
      BY <2>3 DEF Captures, SetStatus
    <3> QED BY <2>3, <3>1, <3>2 DEF Captures
  <2>4. ASSUME NEW p \in PaymentIds, Voids(p) PROVE ByOwner
    BY <2>0, <2>4, SetStatusTyped DEF Voids, TypeOK, Statuses
  <2> QED BY <2>0, <2>1, <2>2, <2>3, <2>4, StoreSteps
<1>2. IInv /\ [Next]_allVars => [ByOwner]_allVars
  BY <1>1
<1> QED BY <1>2, ApiInvariant, PTL DEF Spec, OnlyOwnerCaptures

----------------------------------------------------------------------------
(* No step touches the tenant or the key of a payment that exists.          *)
LEMMA PaymentsKeepIdentity ==
    ASSUME TypeOK, LockInv, [Next]_allVars
    PROVE  \A p \in DOMAIN payments :
              /\ p \in DOMAIN payments'
              /\ payments'[p].tenant = payments[p].tenant
              /\ payments'[p].key = payments[p].key
<1> USE DEF TypeOK
<1>1. CASE Untouched
  BY <1>1 DEF Untouched
<1>2. ASSUME NEW p \in PaymentIds, Authorizes(p)
      PROVE  \A q \in DOMAIN payments : q \in DOMAIN payments' /\ payments'[q] = payments[q]
  BY <1>2 DEF Authorizes, InsertPayment
<1>3. ASSUME NEW p \in DOMAIN payments, NEW s \in Statuses, SetStatus(p, s)
      PROVE  \A q \in DOMAIN payments :
                /\ q \in DOMAIN payments'
                /\ payments'[q].tenant = payments[q].tenant
                /\ payments'[q].key = payments[q].key
  BY <1>3, SetStatusTyped
<1>4. "CAPTURED" \in Statuses /\ "VOIDED" \in Statuses
  BY DEF Statuses
<1> QED BY <1>1, <1>2, <1>3, <1>4, StoreSteps DEF Captures, Voids, Owned

LEMMA KeysStep ==
    ASSUME TypeOK, LockInv, UniqueKeys, [Next]_allVars
    PROVE  UniqueKeys'
<1>1. ASSUME NEW p \in PaymentIds, Authorizes(p) PROVE UniqueKeys'
  <2>1. PICK t \in Tenants, k \in Keys \cup {NoKey}, b \in Bodies :
            Insertable(t, k) /\ InsertPayment(p, t, k, b)
    BY <1>1 DEF Authorizes
  <2>2. /\ DOMAIN payments' = DOMAIN payments \cup {p}
        /\ payments'[p].tenant = t /\ payments'[p].key = k
        /\ \A q \in DOMAIN payments : q # p /\ payments'[q] = payments[q]
    BY <1>1, <2>1 DEF Authorizes, InsertPayment
  <2>3. k # NoKey => \A q \in DOMAIN payments : payments[q].tenant = t => payments[q].key # k
    BY <2>1 DEF Insertable, WithKey, Owned
  <2> QED BY <2>2, <2>3 DEF UniqueKeys
<1>2. CASE DOMAIN payments' = DOMAIN payments
  BY <1>2, PaymentsKeepIdentity DEF UniqueKeys
<1>3. \/ DOMAIN payments' = DOMAIN payments
      \/ \E p \in PaymentIds : Authorizes(p)
  BY StoreSteps DEF Untouched, Captures, Voids, SetStatus
<1> QED BY <1>1, <1>2, <1>3

LEMMA RepliesStep ==
    ASSUME TypeOK, LockInv, RepliesNameKey, [Next]_allVars
    PROVE  RepliesNameKey'
<1> DEFINE Fits(r) == /\ r.payment \in DOMAIN payments'
                      /\ payments'[r.payment].tenant = r.tenant
                      /\ payments'[r.payment].key = r.key
<1>1. \A r \in replies : Fits(r)
  BY PaymentsKeepIdentity DEF RepliesNameKey, Owned
<1>2. ASSUME NEW w \in Workers, NEW p, AnswerAuthorize(w, p),
             p \in DOMAIN payments',
             payments'[p].tenant = wreq[w].tenant, payments'[p].key = wreq[w].key
      PROVE  \A r \in replies' : Fits(r)
  BY <1>1, <1>2 DEF AnswerAuthorize
<1>3. CASE UNCHANGED replies
  BY <1>1, <1>3 DEF RepliesNameKey, Owned
<1>4. ASSUME NEW w \in Workers, AuthorizeStep(w) PROVE RepliesNameKey'
  <2>1. ASSUME NEW p \in WithKey(wreq[w].tenant, wreq[w].key),
               AnswerAuthorize(w, p), UNCHANGED payments
        PROVE  RepliesNameKey'
    BY <1>2, <2>1 DEF WithKey, Owned, RepliesNameKey
  <2>2. CASE AuthorizeInsert(w)
    <3>1. PICK p \in PaymentIds \ DOMAIN payments :
              /\ InsertPayment(p, wreq[w].tenant, wreq[w].key, wreq[w].body)
              /\ AnswerAuthorize(w, p)
      BY <2>2 DEF AuthorizeInsert
    <3>2. /\ p \in DOMAIN payments'
          /\ payments'[p].tenant = wreq[w].tenant /\ payments'[p].key = wreq[w].key
      BY <3>1 DEF InsertPayment
    <3> QED BY <1>2, <3>1, <3>2 DEF RepliesNameKey, Owned
  <2> QED BY <1>3, <1>4, <2>1, <2>2
      DEF AuthorizeStep, AuthorizeLookup, AuthorizeConflict, AuthorizeReread,
          AuthorizeUnacknowledged, storeVars
<1>5. UNCHANGED replies \/ \E w \in Workers : AuthorizeStep(w)
  <2>1. ASSUME NEW w \in Workers, NEW o, Conclude(w, o) PROVE UNCHANGED replies
    BY <2>1 DEF Conclude
  <2> QED BY <2>1 DEF Next, ApiNext, Receive, ReceiveAuthorize, ReceiveCapture, ReceiveBatch,
      Accept, CaptureStep, CaptureFind, CaptureLock, CaptureMissing, CaptureAgain,
      CaptureRefused, CaptureCommit, CaptureUnacknowledged, WorkerFail, SagaVoids,
      RelayMarks, allVars, apiVars
<1> QED BY <1>3, <1>4, <1>5

(* Idempotency of authorize_payment: the keys stay unique because answers and  *)
(* rows are tied to the key that was asked for.                             *)
LEMMA KeysAndReplies == Spec => [](UniqueKeys /\ IdempotentReplies)
<1>1. Init => UniqueKeys /\ RepliesNameKey
  BY DEF Init, StoreInit, ApiInit, UniqueKeys, RepliesNameKey
<1>2. IInv /\ UniqueKeys /\ RepliesNameKey /\ [Next]_allVars => (UniqueKeys /\ RepliesNameKey)'
  BY KeysStep, RepliesStep DEF IInv
<1>3. IInv /\ UniqueKeys /\ RepliesNameKey => IdempotentReplies
  <2> SUFFICES ASSUME IInv, UniqueKeys, RepliesNameKey PROVE IdempotentReplies
    OBVIOUS
  <2>1. \A r \in replies : r.key # NoKey
    BY StoreAssumption DEF IInv, TypeOK, HistoryTypeOK
  <2> QED BY <2>1 DEF UniqueKeys, RepliesNameKey, IdempotentReplies, Owned
<1> QED BY <1>1, <1>2, <1>3, ApiInvariant, PTL DEF Spec

(* Whatever authorizations race, no two payments of a tenant carry the same    *)
(* key that was sent (the UNIQUE constraint with its NULL exception).         *)
THEOREM KeysAreUnique == Spec => []UniqueKeys
BY KeysAndReplies, PTL

(* authorize_payment is idempotent: all answers a tenant ever gets for one key *)
(* name the same payment, one of that tenant.                               *)
THEOREM RepliesAgree == Spec => []IdempotentReplies
BY KeysAndReplies, PTL
----------------------------------------------------------------------------
(* What a note about one item of a batch claims of the database, now and in   *)
(* the next state.                                                         *)
NoteTrue(t, p, o) ==
    /\ o \in {"captured", "already_captured"} => Owned(t, p) /\ RowsOf(p) # {}
    /\ o = "invalid_state" => p \in DOMAIN payments /\ payments[p].status = "VOIDED"

NoteStays(t, p, o) ==
    /\ o \in {"captured", "already_captured"} =>
           /\ p \in DOMAIN payments' /\ payments'[p].tenant = t
           /\ \E i \in DOMAIN outbox' : outbox'[i].payment = p
    /\ o = "invalid_state" => p \in DOMAIN payments' /\ payments'[p].status = "VOIDED"

Told(w, i, p) == wres[w][i].outcome = "captured" /\ wres[w][i].id = p

(* The inductive invariant of the capture answers: a "captured" is noted by    *)
(* one worker for one item, or has been reported, never both.               *)
NotesInv ==
    /\ \A w \in Workers : wpc[w] = "idle" => wres[w] = << >>
    /\ \A w \in Workers : \A i \in DOMAIN wres[w] :
          NoteTrue(wreq[w].tenant, wres[w][i].id, wres[w][i].outcome)
    /\ \A p \in PaymentIds : \A w, v \in Workers :
          \A i \in DOMAIN wres[w], j \in DOMAIN wres[v] :
             Told(w, i, p) /\ Told(v, j, p) => w = v /\ i = j
    /\ \A p \in PaymentIds : \A w \in Workers : \A i \in DOMAIN wres[w] :
          Told(w, i, p) => reported[p] = 0
    /\ ReportedOnce

(* Rows, owners and voids are for good, so a true note stays true.           *)
LEMMA NotesStay ==
    ASSUME TypeOK, LockInv, OutboxMatchesState, [Next]_allVars
    PROVE  /\ \A t, p, o : NoteTrue(t, p, o) => NoteStays(t, p, o)
           /\ \A p : RowsOf(p) # {} => \E i \in DOMAIN outbox' : outbox'[i].payment = p
<1> USE DEF TypeOK
<1>1. \A p \in DOMAIN payments : p \in DOMAIN payments' /\ payments'[p].tenant = payments[p].tenant
  BY PaymentsKeepIdentity
<1>2. \A i \in DOMAIN outbox : i \in DOMAIN outbox' /\ outbox'[i].payment = outbox[i].payment
  <2>1. ASSUME NEW p \in DOMAIN payments, WriteOutbox(p)
        PROVE  \A i \in DOMAIN outbox : i \in DOMAIN outbox' /\ outbox'[i] = outbox[i]
    BY <2>1, WriteOutboxTyped
  <2> QED BY <2>1, StoreSteps DEF Untouched, Authorizes, Captures, Voids, Owned
<1>3. \A p \in DOMAIN payments :
          payments[p].status = "VOIDED" => payments'[p].status = "VOIDED"
  <2>1. ASSUME NEW p \in PaymentIds, Authorizes(p)
        PROVE  \A q \in DOMAIN payments : payments'[q] = payments[q]
    BY <2>1 DEF Authorizes, InsertPayment
  <2>2. ASSUME NEW w \in Workers, NEW p \in PaymentIds, Captures(w, p)
        PROVE  /\ payments[p].status = "AUTHORIZED"
               /\ \A q \in DOMAIN payments \ {p} : payments'[q] = payments[q]
    BY <2>2 DEF Captures, SetStatus
  <2>3. ASSUME NEW p \in PaymentIds, Voids(p)
        PROVE  /\ payments'[p].status = "VOIDED"
               /\ \A q \in DOMAIN payments \ {p} : payments'[q] = payments[q]
    BY <2>3, SetStatusTyped DEF Voids, Statuses
  <2> QED BY <2>1, <2>2, <2>3, StoreSteps DEF Untouched
<1> QED BY <1>1, <1>2, <1>3 DEF NoteTrue, NoteStays, Owned, RowsOf

(* A step that notes and reports nothing keeps the invariant.               *)
LEMMA NotesKept ==
    ASSUME TypeOK, TypeOK', NotesInv, UNCHANGED reported,
           \A t, p, o : NoteTrue(t, p, o) => NoteStays(t, p, o),
           \A p : RowsOf(p) # {} => \E i \in DOMAIN outbox' : outbox'[i].payment = p,
           \A v \in Workers :
              \/ wres'[v] = << >>
              \/ wres'[v] = wres[v] /\ wreq'[v] = wreq[v] /\ wpc'[v] # "idle"
    PROVE  NotesInv'
<1>1. \A w \in Workers : wpc'[w] = "idle" => wres'[w] = << >>
  OBVIOUS
<1>2. \A w \in Workers : \A i \in DOMAIN wres'[w] :
          /\ i \in DOMAIN wres[w] /\ wres'[w] = wres[w] /\ wreq'[w] = wreq[w]
  OBVIOUS
<1>3. \A w \in Workers : \A i \in DOMAIN wres'[w] :
          NoteStays(wreq'[w].tenant, wres'[w][i].id, wres'[w][i].outcome)
  BY <1>2 DEF NotesInv
<1>4. \A w \in Workers : \A i \in DOMAIN wres'[w] :
          NoteTrue(wreq[w].tenant, wres[w][i].id, wres[w][i].outcome)'
  BY <1>3 DEF NoteStays, NoteTrue, Owned, RowsOf
<1>5. ReportedOnce'
  BY DEF NotesInv, ReportedOnce, RowsOf
<1> QED BY <1>1, <1>2, <1>4, <1>5 DEF NotesInv, Told

(* Noting a true outcome, or reporting the notes of a finished batch, keeps the *)
(* invariant: the "captured" that is noted is the first for its payment.     *)
LEMMA NotesConclude ==
    ASSUME TypeOK, TypeOK', NotesInv,
           \A t, p, o : NoteTrue(t, p, o) => NoteStays(t, p, o),
           \A p : RowsOf(p) # {} => \E i \in DOMAIN outbox' : outbox'[i].payment = p,
           NEW w \in Workers, wpc[w] \in CaptureSteps, NEW o \in Outcomes, Conclude(w, o),
           NoteStays(wreq[w].tenant, Current(w), o),
           o = "captured" => RowsOf(Current(w)) = {}
    PROVE  NotesInv'
<1> DEFINE item == [id |-> Current(w), outcome |-> o]
           res == Append(wres[w], item)
           said(p) == {i \in DOMAIN res : res[i] = [id |-> p, outcome |-> "captured"]}
<1>1. /\ Current(w) \in PaymentIds
      /\ item \in Result /\ item.id = Current(w) /\ item.outcome = o
  BY CurrentTyped DEF Result, TypeOK
<1>2. /\ wres[w] \in Seq(Result) /\ res \in Seq(Result)
      /\ DOMAIN wres[w] = 1..Len(wres[w]) /\ Len(wres[w]) \in Nat
      /\ DOMAIN res = 1..(Len(wres[w]) + 1)
      /\ \A i \in DOMAIN wres[w] : res[i] = wres[w][i]
      /\ res[Len(wres[w]) + 1] = item
  <2>1. wres[w] \in Seq(Result)
    BY DEF TypeOK, WorkerTypeOK
  <2> HIDE DEF item
  <2> QED BY <1>1, <2>1, AppendProperties, LenProperties
<1> HIDE DEF item, res
<1>3. \A i \in DOMAIN res :
          /\ res[i] \in Result
          /\ NoteStays(wreq[w].tenant, res[i].id, res[i].outcome)
  <2>1. \A i \in DOMAIN wres[w] : NoteStays(wreq[w].tenant, wres[w][i].id, wres[w][i].outcome)
    BY DEF NotesInv
  <2> QED BY <1>1, <1>2, <2>1
(* Before this step nobody had noted or reported the capture of a payment    *)
(* without outbox rows.                                                    *)
<1>4. \A p \in PaymentIds : RowsOf(p) = {} =>
          /\ reported[p] = 0
          /\ \A v \in Workers : \A i \in DOMAIN wres[v] : ~Told(v, i, p)
  BY DEF NotesInv, ReportedOnce, NoteTrue, Told, TypeOK, HistoryTypeOK
<1>5. \A p \in PaymentIds : \A i \in DOMAIN res :
          res[i].outcome = "captured" /\ res[i].id = p =>
             /\ reported[p] = 0
             /\ \A j \in DOMAIN res : res[j].outcome = "captured" /\ res[j].id = p => j = i
             /\ \A v \in Workers \ {w} : \A j \in DOMAIN wres[v] : ~Told(v, j, p)
  <2> SUFFICES ASSUME NEW p \in PaymentIds, NEW i \in DOMAIN res,
                      res[i].outcome = "captured", res[i].id = p
               PROVE  /\ reported[p] = 0
                      /\ \A j \in DOMAIN res :
                            res[j].outcome = "captured" /\ res[j].id = p => j = i
                      /\ \A v \in Workers \ {w} : \A j \in DOMAIN wres[v] : ~Told(v, j, p)
    OBVIOUS
  <2> DEFINE n == Len(wres[w]) + 1
  <2>1. \A j \in DOMAIN res : j = n \/ (j \in DOMAIN wres[w] /\ res[j] = wres[w][j])
    BY <1>2
  <2>2. CASE o = "captured" /\ Current(w) = p
    <3>1. \A j \in DOMAIN wres[w] : ~Told(w, j, p)
      BY <1>4, <2>2
    <3>2. \A j \in DOMAIN res : res[j].outcome = "captured" /\ res[j].id = p => j = n
      BY <2>1, <3>1 DEF Told
    <3> QED BY <1>4, <2>2, <3>2
  <2>3. CASE ~(o = "captured" /\ Current(w) = p)
    <3>1. \A j \in DOMAIN res : res[j].outcome = "captured" /\ res[j].id = p =>
              j \in DOMAIN wres[w] /\ Told(w, j, p)
      BY <1>1, <1>2, <2>1, <2>3 DEF Told
    <3>2. i \in DOMAIN wres[w] /\ Told(w, i, p)
      BY <3>1
    <3> QED BY <3>1, <3>2 DEF NotesInv
  <2> QED BY <2>2, <2>3
<1>6. \A v \in Workers \ {w} :
          wpc'[v] = wpc[v] /\ wreq'[v] = wreq[v] /\ wres'[v] = wres[v]
  BY DEF Conclude, Finish, Goto, TypeOK, WorkerTypeOK
<1>7. \A v \in Workers \ {w} : \A i \in DOMAIN wres[v] :
          NoteStays(wreq[v].tenant, wres[v][i].id, wres[v][i].outcome)
  BY DEF NotesInv
<1>8. CASE Len(wreq[w].ids) > 1
  <2>1. /\ wpc'[w] = "lock" /\ wres'[w] = res /\ wreq'[w].tenant = wreq[w].tenant
        /\ UNCHANGED reported
    BY <1>8 DEF Conclude, Goto, Rest, res, item, TypeOK, WorkerTypeOK
  <2>2. \A v \in Workers : wpc'[v] = "idle" => wres'[v] = << >>
    BY <1>6, <2>1 DEF NotesInv
  <2>3. \A v \in Workers : \A i \in DOMAIN wres'[v] :
            NoteStays(wreq'[v].tenant, wres'[v][i].id, wres'[v][i].outcome)
    BY <1>3, <1>6, <1>7, <2>1
  <2>4. \A v \in Workers : \A i \in DOMAIN wres'[v] :
            NoteTrue(wreq[v].tenant, wres[v][i].id, wres[v][i].outcome)'
    BY <2>3 DEF NoteStays, NoteTrue, Owned, RowsOf
  <2>5. \A p \in PaymentIds : \A u, v \in Workers :
            \A i \in DOMAIN wres'[u], j \in DOMAIN wres'[v] :
               Told(u, i, p)' /\ Told(v, j, p)' => u = v /\ i = j
    BY <1>5, <1>6, <2>1 DEF NotesInv, Told
  <2>6. \A p \in PaymentIds : \A v \in Workers : \A i \in DOMAIN wres'[v] :
            Told(v, i, p)' => reported'[p] = 0
    BY <1>5, <1>6, <2>1 DEF NotesInv, Told
  <2>7. ReportedOnce'
    BY <2>1 DEF NotesInv, ReportedOnce, RowsOf
  <2> QED BY <2>2, <2>4, <2>5, <2>6, <2>7 DEF NotesInv
<1>9. CASE ~(Len(wreq[w].ids) > 1)
  <2>1. /\ wres'[w] = << >>
        /\ reported' = [p \in PaymentIds |-> reported[p] + Cardinality(said(p))]
    <3>1. /\ Finish(w)
          /\ reported' = [p \in PaymentIds |-> reported[p] + Cardinality(said(p))]
      BY <1>9, Zenon DEF Conclude, res, item
    <3>2. wres'[w] = << >>
      BY <3>1 DEF Finish, TypeOK, WorkerTypeOK
    <3> QED BY <3>1, <3>2
  <2>2. ASSUME NEW p \in PaymentIds
        PROVE  \/ said(p) = {} /\ reported'[p] = reported[p]
               \/ /\ reported[p] = 0 /\ reported'[p] = 1
                  /\ \E i \in DOMAIN outbox' : outbox'[i].payment = p
                  /\ \A v \in Workers \ {w} : \A j \in DOMAIN wres[v] : ~Told(v, j, p)
    <3>0. reported[p] \in Nat
      BY DEF TypeOK, HistoryTypeOK
    <3>1. CASE said(p) = {}
      BY <2>1, <3>0, <3>1, FS_EmptySet
    <3>2. CASE said(p) # {}
      <4>1. PICK i \in DOMAIN res : res[i] = [id |-> p, outcome |-> "captured"]
        BY <3>2
      <4>2. /\ res[i].outcome = "captured" /\ res[i].id = p
        BY <4>1
      <4>3. said(p) = {i}
        BY <1>5, <4>1, <4>2
      <4>4. Cardinality(said(p)) = 1
        BY <4>3, FS_Singleton
      <4>5. \E k \in DOMAIN outbox' : outbox'[k].payment = p
        BY <1>3, <4>2 DEF NoteStays
      <4> QED BY <1>5, <2>1, <4>2, <4>4, <4>5
    <3> QED BY <3>1, <3>2
  <2>3. \A v \in Workers : wpc'[v] = "idle" => wres'[v] = << >>
    BY <1>6, <2>1 DEF NotesInv
  <2>4. \A v \in Workers : \A i \in DOMAIN wres'[v] :
            v # w /\ NoteStays(wreq'[v].tenant, wres'[v][i].id, wres'[v][i].outcome)
    BY <1>6, <1>7, <2>1
  <2>5. \A v \in Workers : \A i \in DOMAIN wres'[v] :
            NoteTrue(wreq[v].tenant, wres[v][i].id, wres[v][i].outcome)'
    BY <2>4 DEF NoteStays, NoteTrue, Owned, RowsOf
  <2>6. \A p \in PaymentIds : \A u, v \in Workers :
            \A i \in DOMAIN wres'[u], j \in DOMAIN wres'[v] :
               Told(u, i, p)' /\ Told(v, j, p)' => u = v /\ i = j
    BY <1>6, <2>1 DEF NotesInv, Told
  <2>7. \A p \in PaymentIds : \A v \in Workers : \A i \in DOMAIN wres'[v] :
            Told(v, i, p)' => reported'[p] = 0
    BY <1>6, <2>1, <2>2 DEF NotesInv, Told
  <2>8. ReportedOnce'
    BY <2>2 DEF NotesInv, ReportedOnce, RowsOf
  <2> QED BY <2>3, <2>5, <2>6, <2>7, <2>8 DEF NotesInv
<1> QED BY <1>8, <1>9

LEMMA NotesStep ==
    ASSUME TypeOK, LockInv, OutboxMatchesState, NotesInv, [Next]_allVars
    PROVE  NotesInv'
<1>0. /\ TypeOK'
      /\ \A t, p, o : NoteTrue(t, p, o) => NoteStays(t, p, o)
      /\ \A p : RowsOf(p) # {} => \E i \in DOMAIN outbox' : outbox'[i].payment = p
  BY TypeStep, NotesStay
<1>1. ASSUME UNCHANGED reported,
             \A v \in Workers :
                \/ wres'[v] = << >>
                \/ wres'[v] = wres[v] /\ wreq'[v] = wreq[v] /\ wpc'[v] # "idle"
      PROVE  NotesInv'
  BY <1>0, <1>1, NotesKept
<1>2. ASSUME UNCHANGED <<reported, wres, wreq, wpc>>
      PROVE  NotesInv'
  BY <1>1, <1>2 DEF NotesInv
<1>3. ASSUME NEW w \in Workers, Finish(w), UNCHANGED reported
      PROVE  NotesInv'
  <2>1. wres'[w] = << >> /\ \A v \in Workers \ {w} :
            wpc'[v] = wpc[v] /\ wreq'[v] = wreq[v] /\ wres'[v] = wres[v]
    BY <1>3 DEF Finish, Goto, TypeOK, WorkerTypeOK
  <2> QED BY <1>1, <1>3, <2>1 DEF NotesInv
<1>4. ASSUME NEW w \in Workers, wpc[w] # "idle", NEW step \in AuthSteps \cup CaptureSteps,
             Goto(w, step), UNCHANGED <<wreq, wres, reported>>
      PROVE  NotesInv'
  <2>1. wpc'[w] # "idle" /\ \A v \in Workers \ {w} : wpc'[v] = wpc[v]
    BY <1>4 DEF Goto, TypeOK, WorkerTypeOK, AuthSteps, CaptureSteps
  <2> QED BY <1>1, <1>4, <2>1 DEF NotesInv
<1>5. ASSUME NEW w \in Workers, Receive(w)
      PROVE  NotesInv'
  <2>1. /\ wpc[w] = "idle" /\ UNCHANGED <<wres, reported>>
        /\ \A v \in Workers \ {w} : wpc'[v] = wpc[v] /\ wreq'[v] = wreq[v]
    BY <1>5 DEF Receive, ReceiveAuthorize, ReceiveCapture, ReceiveBatch, Accept, Goto,
       TypeOK, WorkerTypeOK
  <2> QED BY <1>1, <2>1 DEF NotesInv
<1>6. ASSUME NEW w \in Workers, AuthorizeStep(w)
      PROVE  NotesInv'
  <2>1. ASSUME NEW p, AnswerAuthorize(w, p) PROVE NotesInv'
    BY <1>3, <2>1 DEF AnswerAuthorize
  <2>2. wpc[w] # "idle"
    BY <1>6 DEF AuthorizeStep, AuthorizeLookup, AuthorizeInsert, AuthorizeConflict,
       AuthorizeReread, AuthorizeUnacknowledged
  <2> QED BY <1>3, <1>4, <1>6, <2>1, <2>2
      DEF AuthorizeStep, AuthorizeLookup, AuthorizeInsert, AuthorizeConflict,
          AuthorizeReread, AuthorizeUnacknowledged, AuthSteps
<1>7. ASSUME NEW w \in Workers, CaptureStep(w)
      PROVE  NotesInv'
  <2>1. CASE CaptureFind(w)
    BY <1>3, <1>4, <2>1 DEF CaptureFind, CaptureSteps
  <2>2. CASE CaptureLock(w)
    BY <1>4, <2>2 DEF CaptureLock, CaptureSteps
  <2>3. CASE CaptureMissing(w)
    <3>1. NoteStays(wreq[w].tenant, Current(w), "not_found")
      BY DEF NoteStays
    <3> QED BY <1>0, <2>3, <3>1, NotesConclude DEF CaptureMissing, CaptureSteps, Outcomes
  <2>4. ASSUME wpc[w] = "locked"
        PROVE  /\ wpc[w] \in CaptureSteps
               /\ Owned(wreq[w].tenant, Current(w))
               /\ Current(w) \in PaymentIds
               /\ Current(w) \in DOMAIN payments
               /\ wseen[w] = payments[Current(w)].status
               /\ wseen[w] \in Statuses
    BY <2>4 DEF LockInv, HoldsRow, Owned, CaptureSteps, TypeOK, StoreTypeOK, PaymentRow
  <2>5. CASE CaptureAgain(w)
    <3>1. NoteTrue(wreq[w].tenant, Current(w), "already_captured")
      BY <2>4, <2>5 DEF CaptureAgain, NoteTrue, OutboxMatchesState, CapturedIffRecorded
    <3>2. NoteStays(wreq[w].tenant, Current(w), "already_captured")
      BY <1>0, <3>1
    <3> QED BY <1>0, <2>4, <2>5, <3>2, NotesConclude DEF CaptureAgain, Outcomes
  <2>6. CASE CaptureRefused(w)
    <3>1. NoteTrue(wreq[w].tenant, Current(w), "invalid_state")
      BY <2>4, <2>6 DEF CaptureRefused, NoteTrue, Statuses
    <3>2. NoteStays(wreq[w].tenant, Current(w), "invalid_state")
      BY <1>0, <3>1
    <3> QED BY <1>0, <2>4, <2>6, <3>2, NotesConclude DEF CaptureRefused, Outcomes
  <2>7. CASE CaptureCommit(w)
    <3>1. RowsOf(Current(w)) = {}
      BY <2>4, <2>7 DEF CaptureCommit, OutboxMatchesState, CapturedIffRecorded
    <3>2. \E i \in DOMAIN outbox' : outbox'[i].payment = Current(w)
      BY <2>4, <2>7, WriteOutboxTyped DEF CaptureCommit, TypeOK
    <3>3. /\ Current(w) \in DOMAIN payments'
          /\ payments'[Current(w)].tenant = wreq[w].tenant
      BY <2>4, <2>7, PaymentsKeepIdentity DEF Owned, CaptureCommit
    <3>4. NoteStays(wreq[w].tenant, Current(w), "captured")
      BY <3>2, <3>3 DEF NoteStays
    <3> QED BY <1>0, <2>4, <2>7, <3>1, <3>4, NotesConclude DEF CaptureCommit, Outcomes
  <2>8. CASE CaptureUnacknowledged(w)
    BY <1>3, <2>8 DEF CaptureUnacknowledged
  <2> QED BY <1>7, <2>1, <2>2, <2>3, <2>5, <2>6, <2>7, <2>8 DEF CaptureStep
<1>8. ASSUME NEW w \in Workers, WorkerFail(w)
      PROVE  NotesInv'
  BY <1>3, <1>8 DEF WorkerFail
<1>9. CASE SagaVoids \/ RelayMarks \/ UNCHANGED allVars
  BY <1>2, <1>9 DEF SagaVoids, RelayMarks, allVars, apiVars
<1> QED BY <1>5, <1>6, <1>7, <1>8, <1>9 DEF Next, ApiNext

(* Capture answers can be relied on: over races, lost replies and batches that *)
(* fail half-way, "emitted" is said once per payment, and what a batch has      *)
(* noted as captured, already_captured or invalid_state is still so while it    *)
(* goes on.                                                               *)
THEOREM AnswersHold == Spec => []OutcomesHold
<1>1. Init => NotesInv
  BY DEF Init, ApiInit, NotesInv, ReportedOnce
<1>2. IInv /\ NotesInv /\ [Next]_allVars => NotesInv'
  BY NotesStep DEF IInv
<1>3. IInv /\ NotesInv => OutcomesHold
  <2> SUFFICES ASSUME IInv, NotesInv PROVE OutcomesHold
    OBVIOUS
  <2>1. NotedHolds
    BY DEF NotesInv, NoteTrue, NotedHolds
  <2> QED BY <2>1 DEF NotesInv, OutcomesHold
<1> QED BY <1>1, <1>2, <1>3, ApiInvariant, PTL DEF Spec

----------------------------------------------------------------------------
(* An outbox row says what the payment was authorized on.                    *)
RowsNameTerms ==
    \A i \in DOMAIN outbox :
        LET p == outbox[i].payment IN
        /\ p \in DOMAIN payments
        /\ outbox[i].tenant = payments[p].tenant
        /\ outbox[i].body = payments[p].body

LEMMA TermsStep ==
    ASSUME TypeOK, LockInv, RowsNameTerms, [Next]_allVars
    PROVE  RowsNameTerms'
<1>0. StoreTypeOK
  BY DEF TypeOK
<1>1. CASE Untouched
  BY <1>1 DEF Untouched, RowsNameTerms
<1>2. ASSUME NEW p \in PaymentIds, Authorizes(p)
      PROVE  RowsNameTerms'
  <2>1. /\ outbox' = outbox
        /\ \A q \in DOMAIN payments : q \in DOMAIN payments' /\ payments'[q] = payments[q]
    BY <1>2 DEF Authorizes, InsertPayment
  <2> QED BY <2>1 DEF RowsNameTerms
<1>3. ASSUME NEW p \in DOMAIN payments, NEW s \in Statuses, SetStatus(p, s)
      PROVE  \A q \in DOMAIN payments : /\ q \in DOMAIN payments'
                                        /\ payments'[q].tenant = payments[q].tenant
                                        /\ payments'[q].body = payments[q].body
  BY <1>0, <1>3, SetStatusTyped
<1>4. ASSUME NEW w \in Workers, NEW p \in PaymentIds, Captures(w, p)
      PROVE  RowsNameTerms'
  <2>1. p \in DOMAIN payments /\ SetStatus(p, "CAPTURED") /\ WriteOutbox(p)
    BY <1>4 DEF Captures, Owned
  <2>2. \A q \in DOMAIN payments : /\ q \in DOMAIN payments'
                                  /\ payments'[q].tenant = payments[q].tenant
                                  /\ payments'[q].body = payments[q].body
    BY <1>3, <2>1 DEF Statuses
  <2>3. /\ DOMAIN outbox = 1..Len(outbox) /\ Len(outbox) \in Nat
        /\ DOMAIN outbox' = 1..(Len(outbox) + 1)
        /\ outbox'[Len(outbox) + 1].payment = p
        /\ outbox'[Len(outbox) + 1].tenant = payments[p].tenant
        /\ outbox'[Len(outbox) + 1].body = payments[p].body
        /\ \A i \in 1..Len(outbox) : outbox'[i] = outbox[i]
    BY <1>0, <2>1, WriteOutboxTyped
  <2> QED BY <2>1, <2>2, <2>3 DEF RowsNameTerms
<1>5. ASSUME NEW p \in PaymentIds, Voids(p)
      PROVE  RowsNameTerms'
  BY <1>3, <1>5 DEF Voids, RowsNameTerms, Statuses
<1> QED BY <1>1, <1>2, <1>4, <1>5, StoreSteps

(* The event a capture announces is the payment's own: its tenant, its amount   *)
(* and its currency, whatever happened to it since.                         *)
THEOREM EventsNameTerms == Spec => []RowsNameTerms
<1>1. Init => RowsNameTerms
  BY DEF Init, StoreInit, RowsNameTerms
<1>2. IInv /\ RowsNameTerms /\ [Next]_allVars => RowsNameTerms'
  BY TermsStep DEF IInv
<1> QED BY <1>1, <1>2, ApiInvariant, PTL DEF Spec

(* To the other processes a web worker is no more than the environment their    *)
(* modules assume: it writes the store as WebWrites says, or not at all.      *)
LEMMA WorkersWriteStore ==
    ASSUME TypeOK, LockInv, ApiNext
    PROVE  UNCHANGED storeVars \/ \E w \in Workers : WebWrites(w)
<1>1. ASSUME NEW w \in Workers, Receive(w) PROVE UNCHANGED storeVars
  BY <1>1 DEF Receive, ReceiveAuthorize, ReceiveCapture, ReceiveBatch, Accept
<1>2. ASSUME NEW w \in Workers, AuthorizeStep(w)
      PROVE  UNCHANGED storeVars \/ WebWrites(w)
  <2>1. CASE AuthorizeInsert(w) \/ AuthorizeUnacknowledged(w)
    <3>1. /\ wreq[w].tenant \in Tenants
          /\ wreq[w].key \in Keys \cup {NoKey}
          /\ wreq[w].body \in Bodies
      BY <2>1 DEF AuthorizeInsert, AuthorizeUnacknowledged, TypeOK, WorkerTypeOK,
         AuthSteps, AuthRequest
    <3>2. PICK p \in PaymentIds \ DOMAIN payments :
              /\ Insertable(wreq[w].tenant, wreq[w].key)
              /\ InsertPayment(p, wreq[w].tenant, wreq[w].key, wreq[w].body)
              /\ UNCHANGED <<payLock, outbox>>
      BY <2>1 DEF AuthorizeInsert, AuthorizeUnacknowledged
    <3>3. WebAuthorizes(p, wreq[w].tenant, wreq[w].key, wreq[w].body)
      BY <3>2 DEF WebAuthorizes
    <3> QED BY <3>1, <3>3 DEF WebWrites
  <2>2. CASE AuthorizeLookup(w) \/ AuthorizeConflict(w) \/ AuthorizeReread(w)
    BY <2>2 DEF AuthorizeLookup, AuthorizeConflict, AuthorizeReread
  <2> QED BY <1>2, <2>1, <2>2 DEF AuthorizeStep
<1>3. ASSUME NEW w \in Workers, CaptureStep(w)
      PROVE  UNCHANGED storeVars \/ WebWrites(w)
  <2>1. CASE CaptureLock(w)
    <3>1. Current(w) \in PaymentIds
      BY <2>1 DEF CaptureLock, Owned, TypeOK, StoreTypeOK
    <3>2. WebLocks(Current(w), w)
      BY <2>1 DEF CaptureLock, Owned, WebLocks
    <3> QED BY <3>1, <3>2 DEF WebWrites
  <2>2. ASSUME wpc[w] = "locked"
        PROVE  /\ Current(w) \in PaymentIds /\ Current(w) \in DOMAIN payments
               /\ payLock[Current(w)] = w /\ wseen[w] = payments[Current(w)].status
    BY <2>2 DEF LockInv, HoldsRow, Owned, TypeOK, StoreTypeOK
  <2>3. CASE CaptureAgain(w) \/ CaptureRefused(w)
    <3>1. wpc[w] = "locked" /\ UnlockRow(Current(w)) /\ UNCHANGED <<payments, outbox>>
      BY <2>3 DEF CaptureAgain, CaptureRefused
    <3>2. WebEnds(w)
      BY <2>2, <3>1 DEF WebEnds
    <3> QED BY <3>2 DEF WebWrites
  <2>4. CASE CaptureCommit(w) \/ CaptureUnacknowledged(w)
    <3>1. /\ wpc[w] = "locked" /\ wseen[w] = "AUTHORIZED"
          /\ SetStatus(Current(w), "CAPTURED") /\ WriteOutbox(Current(w))
          /\ UnlockRow(Current(w))
      BY <2>4 DEF CaptureCommit, CaptureUnacknowledged
    <3>2. WebCaptures(Current(w), w)
      BY <2>2, <3>1 DEF WebCaptures
    <3> QED BY <2>2, <3>1, <3>2 DEF WebWrites
  <2>5. CASE CaptureFind(w) \/ CaptureMissing(w)
    BY <2>5 DEF CaptureFind, CaptureMissing
  <2> QED BY <1>3, <2>1, <2>3, <2>4, <2>5 DEF CaptureStep
<1>4. ASSUME NEW w \in Workers, WorkerFail(w) PROVE WebWrites(w)
  BY <1>4 DEF WorkerFail, WebWrites, WebEnds
<1> QED BY <1>1, <1>2, <1>3, <1>4 DEF ApiNext
=============================================================================

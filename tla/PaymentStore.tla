---------------------------- MODULE PaymentStore ----------------------------
(***************************************************************************)
(* The Payment service's database: the payment table, the row locks that   *)
(* SELECT ... FOR UPDATE takes, and the transactional outbox.  Every        *)
(* process of the service (web workers, relay, saga consumer) changes it    *)
(* through the operators below.                                            *)
(*                                                                         *)
(* A transaction's own writes are invisible to others until it commits     *)
(* (READ COMMITTED) and the rows it wrote are locked, so "write and commit" *)
(* is one step; what a transaction reads and when it takes a lock are       *)
(* steps of their own in the modules that use this one.                     *)
(***************************************************************************)
EXTENDS Naturals, Sequences, FiniteSets

CONSTANTS
    PaymentIds,     \* the UUIDs that Payment rows may get
    Tenants,        \* tenant_id claims a validated JWT may carry
    KnownTenants,   \* those with a row in the tenant table (foreign key)
    Keys,           \* Idempotency-Key header values clients send
    EmptyKey,       \* the header sent with an empty value
    NoKey,          \* the header not sent: the column is NULL
    Bodies,         \* request bodies: [amount, currency]
    NoProc          \* no transaction holds the row lock

ASSUME StoreAssumption ==
    /\ KnownTenants \subseteq Tenants
    /\ NoKey \notin Keys

VARIABLES
    payments,       \* the payment table: payment id -> row
    payLock,        \* payment id -> process whose transaction locks the row
    outbox          \* the outbox table, in created_at order; index = row id

storeVars == <<payments, payLock, outbox>>

Statuses == {"AUTHORIZED", "CAPTURED", "VOIDED"}

PaymentRow == [tenant : Tenants, key : Keys \cup {NoKey}, body : Bodies,
               status : Statuses]

OutboxStatuses == {"PENDING", "PUBLISHED"}

OutboxRow == [payment : PaymentIds, tenant : Tenants, body : Bodies,
              status : OutboxStatuses]

StoreInit ==
    /\ payments = << >>
    /\ payLock = [p \in PaymentIds |-> NoProc]
    /\ outbox = << >>

----------------------------------------------------------------------------
(* Payment.objects.for_tenant(t).get(id=p) finds a row.                    *)
Owned(t, p) == p \in DOMAIN payments /\ payments[p].tenant = t

(* Mutant: the lookup by key forgets the tenant scope.                     *)
WithKey_AnyTenant(t, k) == {p \in DOMAIN payments : payments[p].key = k}

(* Rows of the tenant that carry this idempotency key.                     *)
WithKey(t, k) == {p \in DOMAIN payments : Owned(t, p) /\ payments[p].key = k}

(* Mutant: the table has no uniqueness constraint.                         *)
Insertable_NoConstraint(t, k) == t \in KnownTenants

(* The UNIQUE (tenant, key) constraint, enforced for non-null keys only,   *)
(* and the foreign key to the tenant table.                                *)
Insertable(t, k) ==
    /\ t \in KnownTenants
    /\ k = NoKey \/ WithKey(t, k) = {}

InsertPayment(p, t, k, b) ==
    payments' = [q \in DOMAIN payments \cup {p} |->
                    IF q = p
                    THEN [tenant |-> t, key |-> k, body |-> b, status |-> "AUTHORIZED"]
                    ELSE payments[q]]

(* Mutant: a status the enum has but the code never writes.                *)
SetStatus_Failed(p, s) == payments' = [payments EXCEPT ![p].status = "FAILED"]

SetStatus(p, s) == payments' = [payments EXCEPT ![p].status = s]

----------------------------------------------------------------------------
(* Row locks: taken by SELECT ... FOR UPDATE, dropped by commit or rollback. *)
Free(p) == payLock[p] = NoProc

(* Mutants: a plain SELECT instead of FOR UPDATE; a transaction left open.   *)
LockRow_PlainSelect(p, proc) == UNCHANGED payLock
UnlockRow_LeftOpen(p) == UNCHANGED payLock

LockRow(p, proc) == payLock' = [payLock EXCEPT ![p] = proc]

UnlockRow(p) == payLock' = [payLock EXCEPT ![p] = NoProc]

UnlockAll(proc) ==
    payLock' = [p \in PaymentIds |-> IF payLock[p] = proc THEN NoProc ELSE payLock[p]]

----------------------------------------------------------------------------
(* The PaymentCaptured row that capture_payment inserts.                   *)
CapturedRow(p) == [payment |-> p, tenant |-> payments[p].tenant,
                   body |-> payments[p].body, status |-> "PENDING"]

(* Mutant: the status changes without the event.                           *)
WriteOutbox_Forgotten(p) == UNCHANGED outbox

WriteOutbox(p) == outbox' = Append(outbox, CapturedRow(p))

(* The relay's UPDATE of the rows that were delivered.                     *)
MarkPublished(S) ==
    outbox' = [i \in DOMAIN outbox |->
                  IF i \in S THEN [outbox[i] EXCEPT !.status = "PUBLISHED"] ELSE outbox[i]]

RowsOf(p) == {i \in DOMAIN outbox : outbox[i].payment = p}

(* compensate_payment: lock the row by id, no tenant scope; an unknown or  *)
(* already VOIDED payment is a no-op, any other is voided.  The lock is     *)
(* taken and released inside the step, so the step waits for a free row.    *)
Compensable(p) == p \in DOMAIN payments /\ payments[p].status # "VOIDED"

CompensatePayment(p) ==
    /\ Free(p)
    /\ IF Compensable(p) THEN SetStatus(p, "VOIDED") ELSE UNCHANGED payments
    /\ UNCHANGED <<payLock, outbox>>

----------------------------------------------------------------------------
(* A web worker as the other processes see it: the INSERT of an              *)
(* authorization, the lock and the commit of a capture that has something to *)
(* do, and the end of a transaction that has not, or that fails.             *)
WebAuthorizes(p, t, k, b) ==
    /\ p \notin DOMAIN payments
    /\ Insertable(t, k)
    /\ InsertPayment(p, t, k, b)
    /\ UNCHANGED <<payLock, outbox>>

WebLocks(p, w) ==
    /\ p \in DOMAIN payments
    /\ Free(p)
    /\ LockRow(p, w)
    /\ UNCHANGED <<payments, outbox>>

WebCaptures(p, w) ==
    /\ payLock[p] = w
    /\ p \in DOMAIN payments
    /\ payments[p].status = "AUTHORIZED"
    /\ SetStatus(p, "CAPTURED")
    /\ WriteOutbox(p)
    /\ UnlockRow(p)

WebEnds(w) ==
    /\ \/ \E p \in PaymentIds : payLock[p] = w /\ UnlockRow(p)
       \/ UnlockAll(w)
    /\ UNCHANGED <<payments, outbox>>

WebWrites(w) ==
    \/ \E p \in PaymentIds, t \in Tenants, k \in Keys \cup {NoKey}, b \in Bodies :
           WebAuthorizes(p, t, k, b)
    \/ \E p \in PaymentIds : WebLocks(p, w) \/ WebCaptures(p, w)
    \/ WebEnds(w)
=============================================================================

------------------------------ MODULE SeedCommand ------------------------------
(***************************************************************************)
(* The seed command on top of the payment functions it calls: per username a    *)
(* tenant, then a fixed list of payments with stable idempotency keys, captured  *)
(* on request.  Operators run it again and again, also two at a time, kill it,   *)
(* and the saga voids what it captured.  Each running command is a process of    *)
(* the payment database like a web worker.                                  *)
(***************************************************************************)
EXTENDS Sequences, TenantAccess

CONSTANTS
    PaymentIds, Keys, EmptyKey, NoKey, Bodies, NoProc,
    Seeds,              \* processes that run the command
    SeedUsers,          \* usernames of --tenants and --user-prefix, in order
    PerTenant,          \* --payments
    Capture,            \* --capture
    MaxRuns             \* bound: times the command is started

(* The idempotency key seed-<tenant>-<i>.                                   *)
SeedKey(t, i) == <<t, i>>

ASSUME SeedAssumption ==
    /\ PerTenant \in Nat \ {0} /\ MaxRuns \in Nat /\ Capture \in BOOLEAN
    /\ SeedUsers \in Seq(Users) \ {<< >>}
    /\ \A t \in TenantIds, i \in 1..PerTenant : SeedKey(t, i) \in Keys
    /\ NoKey \notin Keys /\ NoProc \notin Seeds

VARIABLES
    payments, payLock, outbox,                                  \* payment DB
    wpc, wreq, wseen, wres, replies, reported,                  \* its processes
    sstep,              \* seed -> where handle() is
    suser,              \* seed -> position in SeedUsers
    sitem,              \* seed -> number of the payment
    stenant,            \* seed -> the tenant it seeds, once it has it
    runs                \* commands started so far

Pay == INSTANCE PaymentApiProofs WITH
          Workers <- Seeds, MaxBatch <- 0, Tenants <- TenantIds, KnownTenants <- TenantIds

payVars == <<payments, payLock, outbox, wpc, wreq, wseen, wres, replies, reported>>
seedVars == <<sstep, suser, sitem, stenant, runs>>
vars == <<payVars, accessVars, seedVars>>

Init ==
    /\ Pay!Init
    /\ AccessInit
    /\ sstep = [s \in Seeds |-> "off"]
    /\ suser = [s \in Seeds |-> 1]
    /\ sitem = [s \in Seeds |-> 1]
    /\ stenant = [s \in Seeds |-> NoTenant]
    /\ runs = 0

At(s, step) == sstep[s] = step
Goto(s, step) == sstep' = [sstep EXCEPT ![s] = step]
User(s) == SeedUsers[suser[s]]

----------------------------------------------------------------------------
Start(s) ==
    /\ sstep[s] \in {"off", "done", "stopped"}
    /\ runs < MaxRuns
    /\ runs' = runs + 1
    /\ Goto(s, "tenant")
    /\ suser' = [suser EXCEPT ![s] = 1]
    /\ sitem' = [sitem EXCEPT ![s] = 1]
    /\ UNCHANGED <<payVars, accessVars, stenant>>

(* Whose payments come next: the tenant of the user's membership.             *)
Owning(s, t) ==
    /\ stenant' = [stenant EXCEPT ![s] = t]
    /\ Goto(s, "authorize")
    /\ UNCHANGED <<payVars, suser, sitem, runs>>

(* get_or_create, and the membership of a user that has one already.           *)
NewUser(s) ==
    /\ At(s, "tenant")
    /\ SeedNewUser(User(s))
    /\ Owning(s, member'[User(s)])

KnownMember(s) ==
    /\ At(s, "tenant")
    /\ User(s) \in DOMAIN member
    /\ Owning(s, member[User(s)])
    /\ UNCHANGED accessVars

FoundWithout(s) ==
    /\ At(s, "tenant")
    /\ User(s) \in users \ DOMAIN member
    /\ Goto(s, "join")
    /\ UNCHANGED <<payVars, accessVars, suser, sitem, stenant, runs>>

(* The IntegrityError of a membership made meanwhile ends the command.         *)
Join(s) ==
    /\ At(s, "join")
    /\ SeedJoin(User(s))
    /\ IF User(s) \in DOMAIN member
       THEN Goto(s, "off") /\ UNCHANGED <<payVars, suser, sitem, stenant, runs>>
       ELSE Owning(s, member'[User(s)])

(* Mutant: range(tenants - 1).                                             *)
Advance_SkipsLast(s) ==
    IF sitem[s] < PerTenant
    THEN Goto(s, "authorize") /\ sitem' = [sitem EXCEPT ![s] = @ + 1] /\ UNCHANGED suser
    ELSE /\ sitem' = [sitem EXCEPT ![s] = 1]
         /\ IF suser[s] + 1 < Len(SeedUsers)
            THEN Goto(s, "tenant") /\ suser' = [suser EXCEPT ![s] = @ + 1]
            ELSE Goto(s, "done") /\ UNCHANGED suser

(* The next payment, the next tenant, or the end.                            *)
Advance(s) ==
    IF sitem[s] < PerTenant
    THEN Goto(s, "authorize") /\ sitem' = [sitem EXCEPT ![s] = @ + 1] /\ UNCHANGED suser
    ELSE /\ sitem' = [sitem EXCEPT ![s] = 1]
         /\ IF suser[s] < Len(SeedUsers)
            THEN Goto(s, "tenant") /\ suser' = [suser EXCEPT ![s] = @ + 1]
            ELSE Goto(s, "done") /\ UNCHANGED suser

(* authorize_payment(...) with the stable key.                               *)
CallAuthorize(s) ==
    /\ At(s, "authorize")
    /\ \E b \in Bodies :
         Pay!Accept(s, [tenant |-> stenant[s], key |-> SeedKey(stenant[s], sitem[s]), body |-> b],
                    "lookup")
    /\ Goto(s, "authorizing")
    /\ UNCHANGED <<accessVars, suser, sitem, stenant, runs>>

Authorizing(s) ==
    /\ At(s, "authorizing")
    /\ \/ Pay!AuthorizeLookup(s)
       \/ Pay!AuthorizeInsert(s)
       \/ Pay!AuthorizeConflict(s)
       \/ Pay!AuthorizeReread(s)
    /\ IF wpc'[s] # "idle" THEN UNCHANGED <<sstep, suser, sitem>>
       ELSE IF Capture THEN Goto(s, "capture") /\ UNCHANGED <<suser, sitem>>
       ELSE Advance(s)
    /\ UNCHANGED <<accessVars, stenant, runs>>

(* The payment authorize_payment returned.                                   *)
Payment(s) == CHOOSE p \in DOMAIN payments :
                payments[p].tenant = stenant[s] /\ payments[p].key = SeedKey(stenant[s], sitem[s])

CallCapture(s) ==
    /\ At(s, "capture")
    /\ Pay!Accept(s, [tenant |-> stenant[s], batch |-> FALSE, ids |-> <<Payment(s)>>], "lock")
    /\ Goto(s, "capturing")
    /\ UNCHANGED <<accessVars, suser, sitem, stenant, runs>>

Capturing(s) ==
    /\ At(s, "capturing")
    /\ \/ Pay!CaptureLock(s) /\ UNCHANGED <<sstep, suser, sitem>>
       \/ (Pay!CaptureAgain(s) \/ Pay!CaptureCommit(s)) /\ Advance(s)
    /\ UNCHANGED <<accessVars, stenant, runs>>

(* InvalidStateTransition is not caught: the command is over.                *)
CaptureRaises(s) ==
    /\ At(s, "capturing")
    /\ Pay!CaptureRefused(s)
    /\ Goto(s, "stopped")
    /\ UNCHANGED <<accessVars, suser, sitem, stenant, runs>>

(* Ctrl-C, a crash, or a commit whose acknowledgement is lost.                *)
SeedDies(s) ==
    /\ sstep[s] \notin {"off", "done", "stopped"}
    /\ \/ Pay!WorkerFail(s)
       \/ Pay!AuthorizeUnacknowledged(s)
       \/ Pay!CaptureUnacknowledged(s)
       \/ wpc[s] = "idle" /\ UNCHANGED payVars
    /\ Goto(s, "off")
    /\ UNCHANGED <<accessVars, suser, sitem, stenant, runs>>

SeedStep(s) ==
    \/ NewUser(s)
    \/ KnownMember(s)
    \/ FoundWithout(s)
    \/ Join(s)
    \/ CallAuthorize(s)
    \/ Authorizing(s)
    \/ CallCapture(s)
    \/ Capturing(s)
    \/ CaptureRaises(s)

Next ==
    \/ \E s \in Seeds : Start(s) \/ SeedStep(s) \/ SeedDies(s)
    \/ Pay!SagaVoids /\ UNCHANGED <<accessVars, seedVars>>
    \/ AccessNext /\ UNCHANGED <<payVars, seedVars>>

Spec == Init /\ [][Next]_vars

----------------------------------------------------------------------------
Seeded(u, i) ==
    {p \in DOMAIN payments : payments[p].key = SeedKey(member[u], i)}

ToppedUp(u, i) ==
    /\ u \in DOMAIN member
    /\ Cardinality(Seeded(u, i)) = 1
    /\ Capture => \A p \in Seeded(u, i) : payments[p].status # "AUTHORIZED"

(* "Re-running tops up rather than duplicating" (seed.py:8-10): however often    *)
(* the command was started, killed, raced by another or stopped, it never makes  *)
(* more payments than asked for, and once it gets to its end each of them is     *)
(* there, once, and captured if that was asked.                             *)
SeedTopsUp ==
    /\ Cardinality(DOMAIN payments) <= Len(SeedUsers) * PerTenant
    /\ \A s \in Seeds : sstep[s] = "done" =>
         \A n \in DOMAIN SeedUsers, i \in 1..PerTenant : ToppedUp(SeedUsers[n], i)

(* What ends the command early is a payment that the saga voided since it was     *)
(* captured; all the work before that payment is done, what comes after it need   *)
(* not be (seed.py:68-70, services.py:91-95).                               *)
StopsAtVoided ==
    \A s \in Seeds : sstep[s] = "stopped" =>
        /\ \A p \in Seeded(User(s), sitem[s]) : payments[p].status = "VOIDED"
        /\ \A i \in 1..sitem[s] : ToppedUp(User(s), i)
        /\ \A n \in 1..(suser[s] - 1), i \in 1..PerTenant : ToppedUp(SeedUsers[n], i)
=============================================================================

--------------------------- MODULE SeedCommandProofs ---------------------------
(***************************************************************************)
(* Proofs about the seed command and the tenants it shares with everybody     *)
(* else, for any number of commands, usernames, payments and tenants.  What   *)
(* was proved of the payment functions is used as it is: a command is one of   *)
(* their workers.                                                          *)
(***************************************************************************)
EXTENDS SeedCommand, FiniteSetTheorems, SequenceTheorems, TLAPS

(* Why a tenant has one owner: memberships do not share a tenant, and a tenant  *)
(* comes with one.                                                         *)
MembersApart ==
    /\ \A u, v \in DOMAIN member : member[u] = member[v] => u = v
    /\ \A t \in tenants : \E u \in DOMAIN member : member[u] = t

AccessInv == AccessTypeOK /\ OwnTenantOnly /\ MembersApart

PayInv == Pay!TypeOK /\ Pay!LockInv /\ Pay!UniqueKeys

SeedSteps == {"off", "tenant", "join", "authorize", "authorizing", "capture", "capturing",
              "done", "stopped"}

SeedTypeOK ==
    /\ sstep \in [Seeds -> SeedSteps]
    /\ suser \in [Seeds -> 1..Len(SeedUsers)]
    /\ sitem \in [Seeds -> 1..PerTenant]
    /\ stenant \in [Seeds -> TenantIds \cup {NoTenant}]

(* Where a command has the tenant of its current user.                       *)
Seeding == {"authorize", "authorizing", "capture", "capturing", "stopped"}

(* Payment p is item i of tenant t.                                         *)
Carries(p, t, i) ==
    /\ p \in DOMAIN payments
    /\ payments[p].tenant = t
    /\ payments[p].key = SeedKey(t, i)

Present(t, i) == \E p \in DOMAIN payments : Carries(p, t, i)

(* Item i of user u is there, and captured if that was asked.                 *)
Supplied(u, i) ==
    /\ u \in DOMAIN member
    /\ \E p \in DOMAIN payments :
         Carries(p, member[u], i) /\ (Capture => payments[p].status # "AUTHORIZED")

(* The tenant in hand is the user's, and the call in hand is for the item.     *)
CursorOK(s) ==
    sstep[s] \in Seeding => User(s) \in DOMAIN member /\ stenant[s] = member[User(s)]

CallOK(s) ==
    /\ sstep[s] \notin {"authorizing", "capturing"} => wpc[s] = "idle"
    /\ sstep[s] = "authorizing" =>
         /\ wpc[s] \in Pay!AuthSteps
         /\ wreq[s].tenant = stenant[s]
         /\ wreq[s].key = SeedKey(stenant[s], sitem[s])
         /\ wpc[s] = "reread" => Present(stenant[s], sitem[s])
    /\ sstep[s] = "capture" => Present(stenant[s], sitem[s])
    /\ sstep[s] = "capturing" =>
         /\ wpc[s] \in {"lock", "locked"}
         /\ wreq[s].tenant = stenant[s]
         /\ wreq[s].ids # << >> /\ Len(wreq[s].ids) = 1
         /\ Carries(Head(wreq[s].ids), stenant[s], sitem[s])

(* Every payment is one that was asked for.                                 *)
RowsOK ==
    \A p \in DOMAIN payments : \E n \in 1..Len(SeedUsers), i \in 1..PerTenant :
        SeedUsers[n] \in DOMAIN member /\ Carries(p, member[SeedUsers[n]], i)

(* All the work before the command's place in the lists is done.              *)
ProgressOK(s) ==
    /\ sstep[s] # "off" =>
         \A n \in 1..(suser[s] - 1), i \in 1..PerTenant : Supplied(SeedUsers[n], i)
    /\ sstep[s] \in {"tenant", "join"} => sitem[s] = 1
    /\ sstep[s] \in Seeding => \A i \in 1..(sitem[s] - 1) : Supplied(User(s), i)
    /\ sstep[s] = "done" =>
         \A n \in 1..Len(SeedUsers), i \in 1..PerTenant : Supplied(SeedUsers[n], i)
    /\ sstep[s] = "stopped" =>
         \E p \in DOMAIN payments :
            Carries(p, stenant[s], sitem[s]) /\ payments[p].status = "VOIDED"

CommandsOK == \A s \in Seeds : CursorOK(s) /\ CallOK(s) /\ ProgressOK(s)

SeedInv == PayInv /\ AccessInv /\ SeedTypeOK /\ RowsOK /\ CommandsOK
----------------------------------------------------------------------------
(* Users, tenants and tokens.                                              *)

(* The breaker's functions return breakers.                                 *)
LEMMA BreakerTypes ==
    ASSUME NEW b \in Breakers, NEW t \in Nat
    PROVE  /\ NewBreaker \in Breakers
           /\ Allowed(b) \in Breakers
           /\ Succeeded(b) \in Breakers
           /\ Failed(b, t) \in Breakers
<1>1. /\ b \in [state : BreakerStates, failures : 0..Threshold, openedAt : Nat]
      /\ b.state = "closed" => b.failures < Threshold
  BY DEF Breakers
<1>2. Threshold \in Nat \ {0}
  BY BreakerAssumption
<1>3. NewBreaker \in Breakers /\ Succeeded(b) \in Breakers
  BY <1>1, <1>2 DEF NewBreaker, Succeeded, Breakers, BreakerStates
<1>4. Allowed(b) \in Breakers
  BY <1>1, <1>2 DEF Allowed, Breakers, BreakerStates
<1>5. Failed(b, t) \in Breakers
  <2> DEFINE n == IF b.failures < Threshold THEN b.failures + 1 ELSE Threshold
  <2>1. n \in 0..Threshold
    BY <1>1, <1>2
  <2>2. CASE b.state = "half_open" \/ n >= Threshold
    <3>1. Failed(b, t) = [state |-> "open", failures |-> n, openedAt |-> t]
      BY <2>2 DEF Failed
    <3> HIDE DEF n
    <3> QED BY <2>1, <3>1 DEF Breakers, BreakerStates
  <2>3. CASE ~(b.state = "half_open" \/ n >= Threshold)
    <3>1. Failed(b, t) = [b EXCEPT !.failures = n]
      BY <2>3 DEF Failed
    <3>2. n < Threshold
      BY <2>1, <2>3, <1>2
    <3> HIDE DEF n
    <3> QED BY <1>1, <2>1, <3>1, <3>2 DEF Breakers
  <2> QED BY <2>2, <2>3
<1> QED BY <1>3, <1>4, <1>5

LEMMA AccessInitially == AccessInit => AccessInv
<1> SUFFICES ASSUME AccessInit PROVE AccessInv
  OBVIOUS
<1>1. NewBreaker \in Breakers
  BY BreakerAssumption DEF NewBreaker, Breakers, BreakerStates
<1>2. DOMAIN member = {} /\ DOMAIN session = {}
  BY DEF AccessInit
<1>3. AccessTypeOK
  BY <1>1, <1>2, BreakerAssumption DEF AccessInit, AccessTypeOK
<1>4. OwnTenantOnly /\ MembersApart
  BY <1>2 DEF AccessInit, OwnTenantOnly, MembersApart
<1> QED BY <1>3, <1>4 DEF AccessInv

(* No membership is taken back or changed.                                   *)
MembersStay ==
    \A u \in DOMAIN member : u \in DOMAIN member' /\ member'[u] = member[u]

(* A tenant that is founded has a fresh id and one member.                    *)
LEMMA FoundKeeps ==
    ASSUME AccessInv, NEW u \in Users \ DOMAIN member, NEW t \in TenantIds \ tenants,
           Found(u, t), u \in users', users \subseteq users', users' \subseteq Users,
           UNCHANGED served
    PROVE  /\ MembersStay /\ MembersApart'
           /\ tenants' \subseteq TenantIds
           /\ DOMAIN member' \subseteq users'
           /\ \A v \in DOMAIN member' : member'[v] \in tenants'
           /\ u \in DOMAIN member' /\ member'[u] = t
           /\ \A w \in served' : w[1] \in DOMAIN member' /\ w[2] = member'[w[1]]
<1>1. /\ DOMAIN member' = DOMAIN member \cup {u}
      /\ member'[u] = t
      /\ \A v \in DOMAIN member : member'[v] = member[v]
      /\ tenants' = tenants \cup {t}
  BY DEF Found, With
<1>2. /\ tenants \subseteq TenantIds
      /\ DOMAIN member \subseteq users
      /\ \A v \in DOMAIN member : member[v] \in tenants
      /\ \A v, w \in DOMAIN member : member[v] = member[w] => v = w
      /\ \A x \in tenants : \E v \in DOMAIN member : member[v] = x
      /\ \A w \in served : w[1] \in DOMAIN member /\ w[2] = member[w[1]]
  BY DEF AccessInv, AccessTypeOK, MembersApart, OwnTenantOnly
<1>3. MembersStay
  BY <1>1 DEF MembersStay
<1>4. MembersApart'
  <2>1. \A v, w \in DOMAIN member' : member'[v] = member'[w] => v = w
    BY <1>1, <1>2
  <2>2. \A x \in tenants' : \E v \in DOMAIN member' : member'[v] = x
    BY <1>1, <1>2
  <2> QED BY <2>1, <2>2 DEF MembersApart
<1>5. \A w \in served' : w[1] \in DOMAIN member' /\ w[2] = member'[w[1]]
  BY <1>1, <1>2
<1> QED BY <1>1, <1>2, <1>3, <1>4, <1>5

(* The seed command's two ways to give a user a tenant.                       *)
LEMMA SeedingKeeps ==
    ASSUME AccessInv, NEW u \in Users, SeedNewUser(u) \/ SeedJoin(u)
    PROVE  /\ AccessInv' /\ MembersStay
           /\ u \in DOMAIN member' /\ member'[u] \in TenantIds
<1>0. /\ AccessTypeOK /\ OwnTenantOnly /\ MembersApart
      /\ users' \subseteq Users /\ users \subseteq users' /\ u \in users'
      /\ UNCHANGED <<aclock, session, edge, served>>
  BY DEF AccessInv, AccessTypeOK, SeedNewUser, SeedJoin
<1>1. CASE u \in DOMAIN member
  <2>1. UNCHANGED <<users, tenants, member>>
    BY <1>0, <1>1 DEF SeedNewUser, SeedJoin, AccessTypeOK
  <2>2. AccessInv'
    BY <1>0, <2>1 DEF AccessInv, AccessTypeOK, OwnTenantOnly, MembersApart
  <2> QED BY <1>0, <1>1, <2>1, <2>2 DEF MembersStay, AccessTypeOK
<1>2. CASE u \notin DOMAIN member
  <2>1. PICK t \in TenantIds \ tenants : Found(u, t)
    BY <1>2 DEF SeedNewUser, SeedJoin
  <2>2. /\ MembersStay /\ MembersApart'
        /\ tenants' \subseteq TenantIds
        /\ DOMAIN member' \subseteq users'
        /\ \A v \in DOMAIN member' : member'[v] \in tenants'
        /\ u \in DOMAIN member' /\ member'[u] = t
        /\ \A w \in served' : w[1] \in DOMAIN member' /\ w[2] = member'[w[1]]
    BY <1>0, <1>2, <2>1, FoundKeeps
  <2>3. AccessTypeOK'
    BY <1>0, <2>2 DEF AccessTypeOK
  <2>4. OwnTenantOnly'
    BY <1>0, <2>2 DEF OwnTenantOnly, MembersStay
  <2> QED BY <2>1, <2>2, <2>3, <2>4 DEF AccessInv
<1> QED BY <1>1, <1>2
(* A client's tokens: it has them for its user, with its user's tenant.         *)
LEMMA TokensKeep ==
    ASSUME AccessInv, NEW u \in users, NEW x,
           x \in [claim : TenantIds \cup {NoTenant}, access : Nat, refresh : Nat],
           x.claim # NoTenant => u \in DOMAIN member' /\ x.claim = member'[u],
           session' = With(session, u, x),
           MembersStay, users \subseteq users', UNCHANGED aclock
    PROVE  /\ DOMAIN session' \subseteq users'
           /\ \A v \in DOMAIN session' :
                /\ session'[v] \in [claim : TenantIds \cup {NoTenant}, access : Nat, refresh : Nat]
                /\ session'[v].claim # NoTenant =>
                      v \in DOMAIN member' /\ session'[v].claim = member'[v]
<1>1. /\ DOMAIN session' = DOMAIN session \cup {u}
      /\ session'[u] = x
      /\ \A v \in DOMAIN session \ {u} : session'[v] = session[v]
  BY DEF With
<1>2. /\ DOMAIN session \subseteq users
      /\ \A v \in DOMAIN session :
           /\ session[v] \in [claim : TenantIds \cup {NoTenant}, access : Nat, refresh : Nat]
           /\ session[v].claim # NoTenant => v \in DOMAIN member /\ session[v].claim = member[v]
  BY DEF AccessInv, AccessTypeOK, OwnTenantOnly
<1> QED BY <1>1, <1>2 DEF MembersStay

(* What else people do with tokens and tenants.                              *)
LEMMA AccessStep ==
    ASSUME AccessInv, AccessNext
    PROVE  AccessInv' /\ MembersStay
<1> DEFINE Session == [claim : TenantIds \cup {NoTenant}, access : Nat, refresh : Nat]
<1>0. /\ AccessTypeOK /\ OwnTenantOnly /\ MembersApart
      /\ aclock \in Nat /\ AccessLifetime \in Nat /\ RefreshLifetime \in Nat
      /\ NoTenant \notin TenantIds
  BY AccessAssumption DEF AccessInv, AccessTypeOK
<1>1. ASSUME AccessTick PROVE AccessInv' /\ MembersStay
  <2>1. aclock' \in Nat /\ UNCHANGED <<users, tenants, member, session, edge, served>>
    BY <1>0, <1>1 DEF AccessTick, identity
  <2> QED BY <1>0, <2>1 DEF AccessInv, AccessTypeOK, OwnTenantOnly, MembersApart, MembersStay
<1>2. ASSUME NEW u \in Users, CreateSuperuser(u) PROVE AccessInv' /\ MembersStay
  <2>1. /\ users' = users \cup {u}
        /\ UNCHANGED <<aclock, tenants, member, session, edge, served>>
    BY <1>2 DEF CreateSuperuser
  <2> QED BY <1>0, <2>1 DEF AccessInv, AccessTypeOK, OwnTenantOnly, MembersApart, MembersStay
<1>3. ASSUME NEW u \in Users, CreateTenant(u) PROVE AccessInv' /\ MembersStay
  <2>1. PICK t \in TenantIds \ tenants : Found(u, t) /\ session' = With(session, u, Tokens(t))
    BY <1>3 DEF CreateTenant
  <2>2. u \notin users /\ users' = users \cup {u} /\ UNCHANGED <<aclock, edge, served>>
    BY <1>3 DEF CreateTenant
  <2>3. /\ MembersStay /\ MembersApart'
        /\ tenants' \subseteq TenantIds
        /\ DOMAIN member' \subseteq users'
        /\ \A v \in DOMAIN member' : member'[v] \in tenants'
        /\ u \in DOMAIN member' /\ member'[u] = t
        /\ \A w \in served' : w[1] \in DOMAIN member' /\ w[2] = member'[w[1]]
    <3>1. u \in Users \ DOMAIN member /\ users \subseteq users' /\ users' \subseteq Users /\ u \in users'
      BY <1>0, <2>2 DEF AccessTypeOK
    <3> QED BY <2>1, <2>2, <3>1, FoundKeeps
  <2>4. /\ DOMAIN session' = DOMAIN session \cup {u}
        /\ session'[u] = Tokens(t)
        /\ \A v \in DOMAIN session \ {u} : session'[v] = session[v]
    BY <2>1 DEF With
  <2>5. Tokens(t) \in Session /\ Tokens(t).claim = t
    BY <1>0 DEF Tokens
  <2>6. /\ DOMAIN session' \subseteq users'
        /\ \A v \in DOMAIN session' :
             /\ session'[v] \in Session
             /\ session'[v].claim # NoTenant => v \in DOMAIN member' /\ session'[v].claim = member'[v]
    BY <1>0, <2>2, <2>3, <2>4, <2>5 DEF AccessTypeOK, OwnTenantOnly, MembersStay
  <2>7. AccessTypeOK'
    BY <1>0, <2>2, <2>3, <2>6 DEF AccessTypeOK
  <2>8. OwnTenantOnly'
    BY <2>3, <2>6 DEF OwnTenantOnly
  <2> QED BY <2>3, <2>7, <2>8 DEF AccessInv
<1>4. ASSUME NEW u \in Users, NEW x \in Session, u \in users,
             x.claim # NoTenant => u \in DOMAIN member /\ x.claim = member[u],
             session' = With(session, u, x),
             UNCHANGED <<aclock, identity, edge, ledgerFaulted, served>>
      PROVE  AccessInv' /\ MembersStay
  <2>1. MembersStay /\ UNCHANGED <<users, tenants, member>>
    BY <1>4 DEF MembersStay, identity
  <2>2. /\ DOMAIN session' \subseteq users'
        /\ \A v \in DOMAIN session' :
             /\ session'[v] \in Session
             /\ session'[v].claim # NoTenant => v \in DOMAIN member' /\ session'[v].claim = member'[v]
    BY <1>4, <2>1, TokensKeep
  <2> QED BY <1>0, <1>4, <2>1, <2>2 DEF AccessInv, AccessTypeOK, OwnTenantOnly, MembersApart
<1>5. ASSUME NEW u \in Users, Login(u) PROVE AccessInv' /\ MembersStay
  <2>1. PICK c : c = ClaimOf(u)
    OBVIOUS
  <2>2. c \in TenantIds \cup {NoTenant} /\ (c # NoTenant => u \in DOMAIN member /\ c = member[u])
    BY <1>0, <2>1 DEF ClaimOf, AccessTypeOK
  <2>3. Tokens(c) \in Session /\ Tokens(c).claim = c
    BY <1>0, <2>2 DEF Tokens
  <2> QED BY <1>4, <1>5, <2>1, <2>2, <2>3 DEF Login
<1>6. ASSUME NEW u \in Users, Refresh(u) PROVE AccessInv' /\ MembersStay
  <2>1. u \in DOMAIN session /\ session' = [session EXCEPT ![u].access = aclock + AccessLifetime]
        /\ UNCHANGED <<aclock, users, tenants, member, edge, served>>
    BY <1>6 DEF Refresh, identity
  <2>2. /\ DOMAIN session' = DOMAIN session
        /\ \A v \in DOMAIN session' : session'[v] \in Session /\ session'[v].claim = session[v].claim
    BY <1>0, <2>1 DEF AccessTypeOK
  <2> QED BY <1>0, <2>1, <2>2 DEF AccessInv, AccessTypeOK, OwnTenantOnly, MembersApart, MembersStay
<1>7. ASSUME NEW u \in Users, NEW status, u \in DOMAIN session, Shown(u, status),
             status = 200 => session[u].claim # NoTenant,
             edge' \in Breakers,
             UNCHANGED <<aclock, identity, session>>
      PROVE  AccessInv' /\ MembersStay
  <2>1. UNCHANGED <<users, tenants, member>>
    BY <1>7 DEF identity
  <2>2. PICK c : c = session[u].claim
    OBVIOUS
  <2>3. u \in users /\ c \in TenantIds \cup {NoTenant}
        /\ (c # NoTenant => u \in DOMAIN member /\ c = member[u])
    BY <1>0, <1>7, <2>2 DEF AccessTypeOK, OwnTenantOnly
  <2>4. served' = served \/ (served' = served \cup {<<u, c>>} /\ c # NoTenant)
    BY <1>7, <2>2 DEF Shown
  <2>5. served' \subseteq users \X TenantIds
        /\ \A w \in served' : w[1] \in DOMAIN member /\ w[2] = member[w[1]]
    BY <1>0, <2>3, <2>4 DEF AccessTypeOK, OwnTenantOnly
  <2> QED BY <1>0, <1>7, <2>1, <2>5 DEF AccessInv, AccessTypeOK, OwnTenantOnly, MembersApart, MembersStay
<1>8. ASSUME NEW u \in Users, AskPayment(u) \/ AskAi(u) PROVE AccessInv' /\ MembersStay
  <2>1. edge' \in Breakers
    BY <1>0, <1>8 DEF AskPayment, AskAi, AccessTypeOK
  <2>2. u \in DOMAIN session
    BY <1>8 DEF AskPayment, AskAi, Valid, Unexpired
  <2> QED BY <1>7, <1>8, <2>1, <2>2 DEF AskPayment, AskAi, PaymentStatus, AiStatus
<1>9. ASSUME NEW n PROVE Recorded(n) \in Breakers
  <2>1. Allowed(edge) \in Breakers
    BY <1>0, BreakerTypes DEF AccessTypeOK
  <2> QED BY <1>0, <2>1, BreakerTypes DEF Recorded
<1>10. ASSUME NEW u \in Users, AskLedger(u) PROVE AccessInv' /\ MembersStay
  <2>1. PICK n : n = LedgerStatus(session[u].claim)
    OBVIOUS
  <2>2. n = 200 => session[u].claim # NoTenant
    BY <2>1 DEF LedgerStatus
  <2>3. edge' \in Breakers
    BY <1>9, <1>10 DEF AskLedger
  <2>4. u \in DOMAIN session
    BY <1>10 DEF AskLedger, Valid
  <2> QED BY <1>7, <1>10, <2>1, <2>2, <2>3, <2>4 DEF AskLedger
<1>11. ASSUME NEW u \in Users, LedgerFails(u) PROVE AccessInv' /\ MembersStay
  <2>1. edge' \in Breakers
    BY <1>9, <1>11 DEF LedgerFails
  <2>2. UNCHANGED <<aclock, users, tenants, member, session, served>>
    BY <1>11 DEF LedgerFails, identity
  <2> QED BY <1>0, <2>1, <2>2 DEF AccessInv, AccessTypeOK, OwnTenantOnly, MembersApart, MembersStay
<1> QED BY <1>1, <1>2, <1>3, <1>5, <1>6, <1>8, <1>10, <1>11 DEF AccessNext

(* AccessInv over any step of the system.                                    *)
LEMMA AccessKept ==
    ASSUME AccessInv,
           UNCHANGED accessVars \/ AccessNext \/ \E u \in Users : SeedNewUser(u) \/ SeedJoin(u)
    PROVE  AccessInv' /\ MembersStay
<1>1. CASE UNCHANGED accessVars
  BY <1>1 DEF AccessInv, AccessTypeOK, OwnTenantOnly, MembersApart, MembersStay, accessVars, identity
<1> QED BY <1>1, AccessStep, SeedingKeeps
----------------------------------------------------------------------------
(* Payments.                                                               *)
LEMMA PayAssumptions == Pay!StoreAssumption /\ Pay!ApiAssumption
BY SeedAssumption DEF Pay!StoreAssumption, Pay!ApiAssumption

(* No payment goes, changes its key, or goes back to AUTHORIZED or out of VOIDED. *)
RowsStay ==
    \A p \in DOMAIN payments :
        /\ p \in DOMAIN payments'
        /\ payments'[p].tenant = payments[p].tenant
        /\ payments'[p].key = payments[p].key
        /\ payments[p].status # "AUTHORIZED" => payments'[p].status # "AUTHORIZED"
        /\ payments[p].status = "VOIDED" => payments'[p].status = "VOIDED"

LEMMA PayStep ==
    ASSUME PayInv, [Pay!Next]_(Pay!allVars)
    PROVE  PayInv' /\ RowsStay
<1>0. Pay!TypeOK /\ Pay!LockInv /\ Pay!UniqueKeys
  BY DEF PayInv
<1>1. Pay!TypeOK' /\ Pay!LockInv' /\ Pay!UniqueKeys'
  BY <1>0, PayAssumptions, Pay!TypeStep, Pay!LockStep, Pay!KeysStep
<1>2. \A p \in DOMAIN payments :
         /\ p \in DOMAIN payments'
         /\ payments'[p].tenant = payments[p].tenant
         /\ payments'[p].key = payments[p].key
  BY <1>0, PayAssumptions, Pay!PaymentsKeepIdentity
<1>3. \A p \in DOMAIN payments :
         /\ payments[p].status # "AUTHORIZED" => payments'[p].status # "AUTHORIZED"
         /\ payments[p].status = "VOIDED" => payments'[p].status = "VOIDED"
  <2>0. payments \in [DOMAIN payments -> Pay!PaymentRow]
    BY <1>0 DEF Pay!TypeOK, Pay!StoreTypeOK
  <2>1. \/ Pay!Untouched
        \/ \E p \in PaymentIds : Pay!Authorizes(p)
        \/ \E w \in Seeds, p \in PaymentIds : Pay!Captures(w, p)
        \/ \E p \in PaymentIds : Pay!Voids(p)
    BY <1>0, PayAssumptions, Pay!StoreSteps
  <2>2. CASE Pay!Untouched
    BY <2>2 DEF Pay!Untouched
  <2>3. ASSUME NEW p \in PaymentIds, Pay!Authorizes(p)
        PROVE  \A q \in DOMAIN payments : payments'[q] = payments[q]
    BY <2>3 DEF Pay!Authorizes, Pay!InsertPayment
  <2>4. ASSUME NEW w \in Seeds, NEW p \in PaymentIds, Pay!Captures(w, p), NEW q \in DOMAIN payments
        PROVE  \/ payments'[q] = payments[q]
               \/ payments[q].status = "AUTHORIZED" /\ payments'[q].status = "CAPTURED"
    BY <2>0, <2>4 DEF Pay!Captures, Pay!SetStatus, Pay!PaymentRow
  <2>5. ASSUME NEW p \in PaymentIds, Pay!Voids(p), NEW q \in DOMAIN payments
        PROVE  payments'[q] = payments[q] \/ payments'[q].status = "VOIDED"
    BY <2>0, <2>5 DEF Pay!Voids, Pay!SetStatus, Pay!PaymentRow
  <2> QED BY <2>1, <2>2, <2>3, <2>4, <2>5
<1> QED BY <1>1, <1>2, <1>3 DEF PayInv, RowsStay

(* A command makes a call.                                                  *)
LEMMA PayAccept ==
    ASSUME PayInv, NEW s \in Seeds, NEW r \in Pay!Requests, NEW step,
           \/ r \in Pay!AuthRequest /\ step \in {"lookup", "insert"}
           \/ r \in Pay!CaptureRequest /\ r.ids # << >> /\ step \in {"find", "lock"},
           Pay!Accept(s, r, step)
    PROVE  /\ PayInv' /\ RowsStay /\ UNCHANGED payments
           /\ wpc'[s] = step /\ wreq'[s] = r
           /\ \A v \in Seeds \ {s} : wpc'[v] = wpc[v] /\ wreq'[v] = wreq[v]
<1>0. Pay!TypeOK /\ Pay!LockInv /\ Pay!UniqueKeys /\ Pay!WorkerTypeOK
  BY DEF PayInv, Pay!TypeOK
<1>1. UNCHANGED payments /\ UNCHANGED payLock
  BY DEF Pay!Accept, Pay!storeVars
<1>2. Pay!TypeOK'
  BY <1>0, PayAssumptions, Pay!AcceptTyped
<1>3. Pay!Leaves(s)
  BY <1>0, PayAssumptions, Pay!AcceptLeaves
<1>4. Pay!LockInv'
  BY <1>0, <1>1, <1>3, PayAssumptions, Pay!LockKeptByLeaving
<1>5. Pay!UniqueKeys'
  BY <1>0, <1>1 DEF Pay!UniqueKeys
<1>6. wpc'[s] = step /\ wreq'[s] = r
  BY <1>0 DEF Pay!Accept, Pay!Goto, Pay!WorkerTypeOK
<1> QED BY <1>1, <1>2, <1>3, <1>4, <1>5, <1>6 DEF PayInv, RowsStay, Pay!Leaves

(* The other commands' calls stay where they are.                             *)
OthersStay(s) == \A v \in Seeds \ {s} : wpc'[v] = wpc[v] /\ wreq'[v] = wreq[v]

LEMMA FinishFrame ==
    ASSUME PayInv, NEW s \in Seeds, Pay!Finish(s)
    PROVE  OthersStay(s) /\ wpc'[s] = "idle"
BY DEF PayInv, Pay!TypeOK, Pay!WorkerTypeOK, Pay!Finish, Pay!Goto, OthersStay

LEMMA ConcludeFrame ==
    ASSUME PayInv, NEW s \in Seeds, NEW o, ~(Len(wreq[s].ids) > 1), Pay!Conclude(s, o)
    PROVE  OthersStay(s) /\ wpc'[s] = "idle"
<1>1. Pay!Finish(s)
  BY Zenon DEF Pay!Conclude
<1> QED BY <1>1, FinishFrame
(* authorize_payment for item i of tenant t: when the call is over the payment is *)
(* there, and it has added no other.                                         *)
LEMMA AuthorizeMoves ==
    ASSUME PayInv, NEW s \in Seeds, NEW t \in TenantIds, NEW i,
           wpc[s] \in Pay!AuthSteps, wreq[s].tenant = t, wreq[s].key = SeedKey(t, i),
           wpc[s] = "reread" => Present(t, i),
           Pay!AuthorizeStep(s)
    PROVE  /\ PayInv' /\ RowsStay /\ OthersStay(s)
           /\ \A p \in DOMAIN payments' : p \in DOMAIN payments \/ Carries(p, t, i)'
           /\ \/ wpc'[s] = "idle" /\ Present(t, i)'
              \/ /\ wpc'[s] \in Pay!AuthSteps /\ wreq'[s] = wreq[s]
                 /\ wpc'[s] = "reread" => Present(t, i)'
<1>1. PayInv' /\ RowsStay
  BY PayStep DEF Pay!Next, Pay!ApiNext
<1>2. wpc \in [Seeds -> {"idle"} \cup Pay!AuthSteps \cup Pay!CaptureSteps]
  BY DEF PayInv, Pay!TypeOK, Pay!WorkerTypeOK
<1>3. ASSUME NEW p, p \in Pay!WithKey(wreq[s].tenant, wreq[s].key) PROVE Carries(p, t, i)
  BY <1>3 DEF Pay!WithKey, Pay!Owned, Carries
<1>4. ASSUME NEW p, Carries(p, t, i), UNCHANGED payments PROVE Present(t, i)'
  BY <1>4 DEF Carries, Present
<1>5. CASE Pay!AuthorizeLookup(s)
  <2>1. UNCHANGED payments
    BY <1>5 DEF Pay!AuthorizeLookup, Pay!storeVars
  <2>2. CASE \E p \in Pay!WithKey(wreq[s].tenant, wreq[s].key) : Pay!AnswerAuthorize(s, p)
    <3>1. PICK p \in Pay!WithKey(wreq[s].tenant, wreq[s].key) : Pay!AnswerAuthorize(s, p)
      BY <2>2
    <3>2. OthersStay(s) /\ wpc'[s] = "idle"
      BY <3>1, FinishFrame DEF Pay!AnswerAuthorize
    <3> QED BY <1>1, <1>3, <1>4, <2>1, <3>1, <3>2
  <2>3. CASE Pay!Goto(s, "insert") /\ UNCHANGED wreq
    <3>1. wpc'[s] = "insert" /\ OthersStay(s) /\ wreq'[s] = wreq[s]
      BY <1>2, <2>3 DEF Pay!Goto, OthersStay
    <3> QED BY <1>1, <2>1, <3>1 DEF Pay!AuthSteps
  <2> QED BY <1>5, <2>2, <2>3 DEF Pay!AuthorizeLookup
<1>6. ASSUME NEW p \in PaymentIds, NEW b, Pay!InsertPayment(p, wreq[s].tenant, wreq[s].key, b), Pay!Finish(s)
      PROVE  /\ OthersStay(s) /\ wpc'[s] = "idle" /\ Present(t, i)'
             /\ \A q \in DOMAIN payments' : q \in DOMAIN payments \/ Carries(q, t, i)'
  <2>1. DOMAIN payments' = DOMAIN payments \cup {p}
        /\ payments'[p].tenant = t /\ payments'[p].key = SeedKey(t, i)
    BY <1>6 DEF Pay!InsertPayment
  <2>2. Carries(p, t, i)'
    BY <2>1 DEF Carries
  <2> QED BY <1>6, <2>1, <2>2, FinishFrame DEF Present
<1>7. CASE Pay!AuthorizeInsert(s) \/ Pay!AuthorizeUnacknowledged(s)
  <2>1. \E p \in PaymentIds : Pay!InsertPayment(p, wreq[s].tenant, wreq[s].key, wreq[s].body) /\ Pay!Finish(s)
    BY <1>7 DEF Pay!AuthorizeInsert, Pay!AuthorizeUnacknowledged, Pay!AnswerAuthorize
  <2> QED BY <1>1, <1>6, <2>1
<1>8. CASE Pay!AuthorizeConflict(s)
  <2>1. UNCHANGED payments /\ wreq' = wreq /\ wpc'[s] = "reread" /\ OthersStay(s)
    BY <1>2, <1>8 DEF Pay!AuthorizeConflict, Pay!storeVars, Pay!Goto, OthersStay
  <2>2. Pay!WithKey(wreq[s].tenant, wreq[s].key) # {}
    BY <1>8 DEF Pay!AuthorizeConflict, Pay!Insertable
  <2>3. Present(t, i)'
    BY <1>3, <1>4, <2>1, <2>2
  <2> QED BY <1>1, <2>1, <2>3 DEF Pay!AuthSteps
<1>9. CASE Pay!AuthorizeReread(s)
  <2>1. UNCHANGED payments /\ Pay!Finish(s) /\ wpc[s] = "reread"
    BY <1>9 DEF Pay!AuthorizeReread, Pay!AnswerAuthorize, Pay!storeVars
  <2>2. Present(t, i)'
    BY <1>4, <2>1 DEF Present
  <2> QED BY <1>1, <2>1, <2>2, FinishFrame
<1> QED BY <1>5, <1>7, <1>8, <1>9 DEF Pay!AuthorizeStep

(* capture_payment for payment p: it answers once p is captured or was voided.   *)
LEMMA CaptureMoves ==
    ASSUME PayInv, NEW s \in Seeds, NEW p \in DOMAIN payments,
           wpc[s] \in {"lock", "locked"},
           wreq[s].ids # << >>, Len(wreq[s].ids) = 1, Head(wreq[s].ids) = p
    PROVE  /\ Pay!CaptureLock(s) =>
                /\ PayInv' /\ RowsStay /\ OthersStay(s) /\ UNCHANGED payments
                /\ wpc'[s] = "locked" /\ wreq'[s] = wreq[s]
           /\ Pay!CaptureAgain(s) \/ Pay!CaptureCommit(s) \/ Pay!CaptureUnacknowledged(s) =>
                /\ PayInv' /\ RowsStay /\ OthersStay(s) /\ wpc'[s] = "idle"
                /\ DOMAIN payments' = DOMAIN payments /\ payments'[p].status = "CAPTURED"
           /\ Pay!CaptureRefused(s) =>
                /\ PayInv' /\ RowsStay /\ OthersStay(s) /\ wpc'[s] = "idle"
                /\ UNCHANGED payments /\ payments[p].status = "VOIDED"
<1>0. /\ wpc \in [Seeds -> {"idle"} \cup Pay!AuthSteps \cup Pay!CaptureSteps]
      /\ wseen[s] \in Pay!Statuses \cup {"unread"}
      /\ payments \in [DOMAIN payments -> Pay!PaymentRow]
      /\ wpc[s] = "locked" => wseen[s] = payments[p].status
  BY DEF PayInv, Pay!TypeOK, Pay!WorkerTypeOK, Pay!StoreTypeOK, Pay!LockInv, Pay!HoldsRow, Pay!Current
<1>1. Pay!CaptureStep(s) => PayInv' /\ RowsStay
  BY PayStep DEF Pay!Next, Pay!ApiNext
<1>2. p = Pay!Current(s) /\ ~(Len(wreq[s].ids) > 1)
  BY DEF Pay!Current
<1>3. ASSUME Pay!CaptureLock(s)
      PROVE  OthersStay(s) /\ UNCHANGED payments /\ wpc'[s] = "locked" /\ wreq'[s] = wreq[s]
  BY <1>0, <1>3 DEF Pay!CaptureLock, Pay!Goto, OthersStay
<1>4. ASSUME Pay!CaptureAgain(s)
      PROVE  /\ OthersStay(s) /\ wpc'[s] = "idle"
             /\ DOMAIN payments' = DOMAIN payments /\ payments'[p].status = "CAPTURED"
  <2>1. UNCHANGED payments /\ payments[p].status = "CAPTURED" /\ Pay!Conclude(s, "already_captured")
    BY <1>0, <1>4 DEF Pay!CaptureAgain
  <2> QED BY <1>2, <2>1, ConcludeFrame
<1>5. ASSUME Pay!SetStatus(Pay!Current(s), "CAPTURED")
      PROVE  DOMAIN payments' = DOMAIN payments /\ payments'[p].status = "CAPTURED"
  <2>1. payments' = [payments EXCEPT ![p].status = "CAPTURED"]
    BY <1>2, <1>5 DEF Pay!SetStatus
  <2> QED BY <1>0, <2>1 DEF Pay!PaymentRow
<1>6. ASSUME Pay!CaptureCommit(s)
      PROVE  /\ OthersStay(s) /\ wpc'[s] = "idle"
             /\ DOMAIN payments' = DOMAIN payments /\ payments'[p].status = "CAPTURED"
  <2>1. Pay!SetStatus(Pay!Current(s), "CAPTURED") /\ Pay!Conclude(s, "captured")
    BY <1>6 DEF Pay!CaptureCommit
  <2> QED BY <1>5, <1>2, <2>1, ConcludeFrame
<1>7. ASSUME Pay!CaptureUnacknowledged(s)
      PROVE  /\ OthersStay(s) /\ wpc'[s] = "idle"
             /\ DOMAIN payments' = DOMAIN payments /\ payments'[p].status = "CAPTURED"
  <2>1. Pay!SetStatus(Pay!Current(s), "CAPTURED") /\ Pay!Finish(s)
    BY <1>7 DEF Pay!CaptureUnacknowledged
  <2> QED BY <1>5, <2>1, FinishFrame
<1>8. ASSUME Pay!CaptureRefused(s)
      PROVE  /\ OthersStay(s) /\ wpc'[s] = "idle"
             /\ UNCHANGED payments /\ payments[p].status = "VOIDED"
  <2>1. UNCHANGED payments /\ payments[p].status \notin {"AUTHORIZED", "CAPTURED"}
        /\ Pay!Conclude(s, "invalid_state")
    BY <1>0, <1>8 DEF Pay!CaptureRefused
  <2>2. payments[p].status \in Pay!Statuses
    BY <1>0 DEF Pay!PaymentRow
  <2>3. payments[p].status = "VOIDED"
    BY <2>1, <2>2 DEF Pay!Statuses
  <2> QED BY <2>1, <2>3, <1>2, ConcludeFrame
<1> QED BY <1>1, <1>3, <1>4, <1>6, <1>7, <1>8 DEF Pay!CaptureStep
----------------------------------------------------------------------------
(* What is done stays done.                                                *)
CommandOK(s) == CursorOK(s) /\ CallOK(s) /\ ProgressOK(s)

LEMMA ItemsStay ==
    ASSUME RowsStay, MembersStay, NEW i
    PROVE  /\ \A p, t : Carries(p, t, i) => Carries(p, t, i)'
           /\ \A t : Present(t, i) => Present(t, i)'
           /\ \A u : Supplied(u, i) => Supplied(u, i)'
<1>1. ASSUME NEW p, NEW t, Carries(p, t, i) PROVE Carries(p, t, i)'
  BY <1>1 DEF Carries, RowsStay
<1>2. ASSUME NEW t, Present(t, i) PROVE Present(t, i)'
  BY <1>1, <1>2 DEF Present, RowsStay
<1>3. ASSUME NEW u, Supplied(u, i) PROVE Supplied(u, i)'
  <2>1. PICK p \in DOMAIN payments :
           Carries(p, member[u], i) /\ (Capture => payments[p].status # "AUTHORIZED")
    BY <1>3 DEF Supplied
  <2>2. u \in DOMAIN member' /\ member'[u] = member[u]
    BY <1>3 DEF Supplied, MembersStay
  <2>3. p \in DOMAIN payments' /\ (Capture => payments'[p].status # "AUTHORIZED")
    BY <2>1 DEF RowsStay
  <2>4. Carries(p, member[u], i) => p \in DOMAIN payments' /\ payments'[p].tenant = member'[u]
                                     /\ payments'[p].key = SeedKey(member'[u], i)
    BY <2>2 DEF Carries, RowsStay
  <2> QED BY <2>1, <2>2, <2>3, <2>4 DEF Supplied, Carries
<1> QED BY <1>1, <1>2, <1>3

(* A command that takes no step is as it was, whatever others do.              *)
LEMMA CommandStays ==
    ASSUME RowsStay, MembersStay, NEW v \in Seeds, CommandOK(v),
           sstep'[v] = sstep[v], suser'[v] = suser[v], sitem'[v] = sitem[v],
           stenant'[v] = stenant[v], wpc'[v] = wpc[v], wreq'[v] = wreq[v]
    PROVE  CommandOK(v)'
<1> PICK n, i, t, r : n = suser[v] /\ i = sitem[v] /\ t = stenant[v] /\ r = wreq[v]
  OBVIOUS
<1>0. /\ n = suser'[v] /\ i = sitem'[v] /\ t = stenant'[v] /\ r = wreq'[v]
      /\ CursorOK(v) /\ CallOK(v) /\ ProgressOK(v)
  BY DEF CommandOK
<1>1. CursorOK(v)'
  BY <1>0 DEF CursorOK, User, MembersStay
<1>2. CallOK(v)'
  <2>1. Present(t, i) => Present(t, i)'
    BY ItemsStay
  <2>2. Carries(Head(r.ids), t, i) => Carries(Head(r.ids), t, i)'
    BY ItemsStay
  <2> QED BY <1>0, <2>1, <2>2 DEF CallOK
<1>3. ProgressOK(v)'
  <2>1. \A j, u : Supplied(u, j) => Supplied(u, j)'
    BY ItemsStay
  <2>2. ASSUME NEW p \in DOMAIN payments, Carries(p, t, i) /\ payments[p].status = "VOIDED"
        PROVE  p \in DOMAIN payments' /\ Carries(p, t, i)' /\ payments'[p].status = "VOIDED"
    BY <2>2, ItemsStay DEF RowsStay
  <2> QED BY <1>0, <2>1, <2>2 DEF ProgressOK, User
<1> QED BY <1>1, <1>2, <1>3 DEF CommandOK

LEMMA RowsKept ==
    ASSUME RowsOK, RowsStay, MembersStay, NEW t, NEW n \in 1..Len(SeedUsers), NEW i \in 1..PerTenant,
           SeedUsers[n] \in DOMAIN member', t = member'[SeedUsers[n]],
           \A p \in DOMAIN payments' : p \in DOMAIN payments \/ Carries(p, t, i)'
    PROVE  RowsOK'
<1> SUFFICES ASSUME NEW p \in DOMAIN payments'
             PROVE  \E m \in 1..Len(SeedUsers), j \in 1..PerTenant :
                        /\ SeedUsers[m] \in DOMAIN member'
                        /\ p \in DOMAIN payments' /\ payments'[p].tenant = member'[SeedUsers[m]]
                        /\ payments'[p].key = SeedKey(member'[SeedUsers[m]], j)
  BY DEF RowsOK, Carries
<1>1. CASE p \in DOMAIN payments
  <2>1. PICK m \in 1..Len(SeedUsers), j \in 1..PerTenant :
           SeedUsers[m] \in DOMAIN member /\ Carries(p, member[SeedUsers[m]], j)
    BY <1>1 DEF RowsOK
  <2> QED BY <1>1, <2>1 DEF Carries, RowsStay, MembersStay
<1>2. CASE Carries(p, t, i)'
  BY <1>2 DEF Carries
<1> QED BY <1>1, <1>2

LEMMA RowsSame ==
    ASSUME RowsOK, RowsStay, MembersStay, DOMAIN payments' = DOMAIN payments
    PROVE  RowsOK'
<1> SUFFICES ASSUME NEW p \in DOMAIN payments
             PROVE  \E m \in 1..Len(SeedUsers), j \in 1..PerTenant :
                        /\ SeedUsers[m] \in DOMAIN member'
                        /\ p \in DOMAIN payments' /\ payments'[p].tenant = member'[SeedUsers[m]]
                        /\ payments'[p].key = SeedKey(member'[SeedUsers[m]], j)
  BY DEF RowsOK, Carries
<1>1. PICK m \in 1..Len(SeedUsers), j \in 1..PerTenant :
         SeedUsers[m] \in DOMAIN member /\ Carries(p, member[SeedUsers[m]], j)
  BY DEF RowsOK
<1> QED BY <1>1 DEF Carries, RowsStay, MembersStay

(* The other commands' places stay what they were.                           *)
OthersPlaced(s) ==
    \A v \in Seeds \ {s} : /\ sstep'[v] = sstep[v] /\ suser'[v] = suser[v]
                           /\ sitem'[v] = sitem[v] /\ stenant'[v] = stenant[v]

LEMMA OneCommandMoves ==
    ASSUME SeedInv, NEW s \in Seeds,
           PayInv', RowsStay, AccessInv', MembersStay, SeedTypeOK', RowsOK',
           OthersStay(s), OthersPlaced(s), CommandOK(s)'
    PROVE  SeedInv'
<1>1. ASSUME NEW v \in Seeds PROVE CommandOK(v)'
  <2>1. CASE v # s
    <3>1. CommandOK(v)
      BY DEF SeedInv, CommandsOK, CommandOK
    <3>2. /\ sstep'[v] = sstep[v] /\ suser'[v] = suser[v] /\ sitem'[v] = sitem[v]
          /\ stenant'[v] = stenant[v] /\ wpc'[v] = wpc[v] /\ wreq'[v] = wreq[v]
      BY <2>1 DEF OthersStay, OthersPlaced
    <3> QED BY <3>1, <3>2, CommandStays
  <2> QED BY <2>1
<1>2. CommandsOK'
  BY <1>1 DEF CommandsOK, CommandOK
<1> QED BY <1>2 DEF SeedInv
----------------------------------------------------------------------------
(* The parts of SeedInv that a step of command s is shown from, by name.        *)
LEMMA CommandFacts ==
    ASSUME SeedInv, NEW s \in Seeds
    PROVE  /\ PayInv /\ AccessInv /\ SeedTypeOK /\ RowsOK
           /\ CursorOK(s) /\ CallOK(s) /\ ProgressOK(s)
           /\ sstep \in [Seeds -> SeedSteps]
           /\ suser \in [Seeds -> 1..Len(SeedUsers)]
           /\ sitem \in [Seeds -> 1..PerTenant]
           /\ stenant \in [Seeds -> TenantIds \cup {NoTenant}]
           /\ User(s) \in Users
           /\ SeedUsers \in Seq(Users) /\ Len(SeedUsers) \in Nat \ {0} /\ PerTenant \in Nat \ {0}
<1>1. SeedUsers \in Seq(Users) /\ Len(SeedUsers) \in Nat \ {0} /\ PerTenant \in Nat \ {0}
  <2>1. Len(SeedUsers) \in Nat
    BY SeedAssumption
  <2>2. Len(SeedUsers) # 0
    BY SeedAssumption, EmptySeq
  <2> QED BY <2>1, <2>2, SeedAssumption
<1>2. suser[s] \in 1..Len(SeedUsers)
  BY DEF SeedInv, SeedTypeOK
<1>3. User(s) \in Users
  BY <1>1, <1>2 DEF User
<1> QED BY <1>1, <1>3 DEF SeedInv, CommandsOK, SeedTypeOK

(* A step that leaves the payment functions alone.                           *)
LEMMA PayIdle ==
    ASSUME PayInv, UNCHANGED payVars
    PROVE  PayInv' /\ RowsStay /\ UNCHANGED payments /\ (\A s \in Seeds : OthersStay(s) /\ wpc'[s] = wpc[s] /\ wreq'[s] = wreq[s])
<1>1. UNCHANGED Pay!allVars
  BY DEF payVars, Pay!allVars, Pay!storeVars, Pay!apiVars
<1>2. UNCHANGED <<payments, wpc, wreq>>
  BY DEF payVars
<1> QED BY <1>1, <1>2, PayStep DEF OthersStay

(* The command is over, or killed: off.                                      *)
LEMMA GoesOff ==
    ASSUME SeedInv, NEW s \in Seeds, Goto(s, "off"), UNCHANGED <<suser, sitem, stenant>>,
           PayInv', RowsStay, AccessInv', MembersStay, RowsOK', OthersStay(s), wpc'[s] = "idle"
    PROVE  SeedInv'
<1>1. /\ sstep \in [Seeds -> SeedSteps] /\ SeedTypeOK
  BY CommandFacts
<1>2. sstep' = [sstep EXCEPT ![s] = "off"]
  BY DEF Goto
<1>3. SeedTypeOK' /\ OthersPlaced(s)
  BY <1>1, <1>2 DEF SeedTypeOK, SeedSteps, OthersPlaced
<1>4. sstep'[s] = "off"
  BY <1>1, <1>2
<1>5. CommandOK(s)'
  BY <1>4 DEF CommandOK, CursorOK, CallOK, ProgressOK, Seeding
<1> QED BY <1>3, <1>5, OneCommandMoves

LEMMA StartKeeps ==
    ASSUME SeedInv, NEW s \in Seeds, Start(s)
    PROVE  SeedInv'
<1>0. /\ PayInv /\ AccessInv /\ SeedTypeOK /\ RowsOK /\ CallOK(s)
      /\ sstep \in [Seeds -> SeedSteps] /\ suser \in [Seeds -> 1..Len(SeedUsers)]
      /\ sitem \in [Seeds -> 1..PerTenant]
      /\ Len(SeedUsers) \in Nat \ {0} /\ PerTenant \in Nat \ {0}
  BY CommandFacts
<1>1. /\ sstep' = [sstep EXCEPT ![s] = "tenant"] /\ suser' = [suser EXCEPT ![s] = 1]
      /\ sitem' = [sitem EXCEPT ![s] = 1] /\ UNCHANGED stenant
      /\ UNCHANGED payVars /\ UNCHANGED accessVars
      /\ sstep[s] \in {"off", "done", "stopped"}
  BY DEF Start, Goto
<1>2. PayInv' /\ RowsStay /\ UNCHANGED payments /\ OthersStay(s) /\ wpc'[s] = wpc[s]
  BY <1>0, <1>1, PayIdle
<1>3. AccessInv' /\ MembersStay
  BY <1>0, <1>1, AccessKept
<1>4. RowsOK'
  BY <1>0, <1>2, <1>3, RowsSame
<1>5. SeedTypeOK' /\ OthersPlaced(s)
  BY <1>0, <1>1 DEF SeedTypeOK, SeedSteps, OthersPlaced
<1>6. sstep'[s] = "tenant" /\ suser'[s] = 1 /\ sitem'[s] = 1
  BY <1>0, <1>1
<1>7. wpc'[s] = "idle"
  BY <1>0, <1>1, <1>2 DEF CallOK
<1>8. CommandOK(s)'
  <2>1. 1..(1 - 1) = {}
    OBVIOUS
  <2> QED BY <1>6, <1>7, <2>1 DEF CommandOK, CursorOK, CallOK, ProgressOK, Seeding
<1> QED BY <1>2, <1>3, <1>4, <1>5, <1>8, OneCommandMoves

(* A command that has found or made its user's tenant.                         *)
LEMMA OwningKeeps ==
    ASSUME SeedInv, NEW s \in Seeds, sstep[s] \in {"tenant", "join"},
           NEW t \in TenantIds, Owning(s, t), AccessInv', MembersStay,
           User(s) \in DOMAIN member', t = member'[User(s)]
    PROVE  SeedInv'
<1>0. /\ PayInv /\ SeedTypeOK /\ RowsOK /\ CallOK(s) /\ ProgressOK(s)
      /\ sstep \in [Seeds -> SeedSteps] /\ stenant \in [Seeds -> TenantIds \cup {NoTenant}]
  BY CommandFacts
<1>1. /\ sstep' = [sstep EXCEPT ![s] = "authorize"] /\ stenant' = [stenant EXCEPT ![s] = t]
      /\ UNCHANGED <<suser, sitem>> /\ UNCHANGED payVars
  BY DEF Owning, Goto
<1>2. PayInv' /\ RowsStay /\ UNCHANGED payments /\ OthersStay(s) /\ wpc'[s] = wpc[s]
  BY <1>0, <1>1, PayIdle
<1>3. RowsOK'
  BY <1>0, <1>2, RowsSame
<1>4. SeedTypeOK' /\ OthersPlaced(s)
  BY <1>0, <1>1 DEF SeedTypeOK, SeedSteps, OthersPlaced
<1>5. sstep'[s] = "authorize" /\ stenant'[s] = t /\ suser'[s] = suser[s] /\ sitem'[s] = sitem[s]
  BY <1>0, <1>1
<1>6. CursorOK(s)' /\ CallOK(s)'
  BY <1>0, <1>2, <1>5 DEF CursorOK, CallOK, User
<1>7. ProgressOK(s)'
  <2>1. PICK n : n = suser[s] /\ n = suser'[s]
    BY <1>5
  <2>2. sitem'[s] = 1 /\ \A m \in 1..(n - 1), i \in 1..PerTenant : Supplied(SeedUsers[m], i)
    BY <1>0, <1>5, <2>1 DEF ProgressOK
  <2>3. \A u, i : Supplied(u, i) => Supplied(u, i)'
    BY <1>2, ItemsStay
  <2>4. 1..(1 - 1) = {}
    OBVIOUS
  <2> QED BY <1>5, <2>1, <2>2, <2>3, <2>4 DEF ProgressOK
<1> QED BY <1>2, <1>3, <1>4, <1>6, <1>7, OneCommandMoves DEF CommandOK

LEMMA TenantKeeps ==
    ASSUME SeedInv, NEW s \in Seeds, NewUser(s) \/ KnownMember(s) \/ FoundWithout(s) \/ Join(s)
    PROVE  SeedInv'
<1>0. /\ PayInv /\ AccessInv /\ SeedTypeOK /\ RowsOK /\ CallOK(s) /\ ProgressOK(s)
      /\ User(s) \in Users /\ sstep \in [Seeds -> SeedSteps]
  BY CommandFacts
<1>1. ASSUME SeedNewUser(User(s)) \/ SeedJoin(User(s))
      PROVE  /\ AccessInv' /\ MembersStay
             /\ User(s) \in DOMAIN member' /\ member'[User(s)] \in TenantIds
  <2>1. PICK u \in Users : u = User(s)
    BY <1>0
  <2>2. SeedNewUser(u) \/ SeedJoin(u)
    BY <1>1, <2>1
  <2> QED BY <1>0, <2>1, <2>2, SeedingKeeps
<1>2. CASE NewUser(s)
  BY <1>0, <1>1, <1>2, OwningKeeps DEF NewUser, At
<1>3. CASE KnownMember(s)
  <2>1. AccessInv' /\ MembersStay
    BY <1>0, <1>3, AccessKept DEF KnownMember
  <2>2. PICK t : t = member[User(s)]
    OBVIOUS
  <2>3. t \in TenantIds /\ User(s) \in DOMAIN member' /\ t = member'[User(s)]
    BY <1>0, <1>3, <2>1, <2>2 DEF KnownMember, AccessInv, AccessTypeOK, MembersStay
  <2>4. Owning(s, t) /\ sstep[s] = "tenant"
    BY <1>3, <2>2 DEF KnownMember, At
  <2> QED BY <2>1, <2>3, <2>4, OwningKeeps
<1>4. CASE FoundWithout(s)
  <2>1. /\ sstep' = [sstep EXCEPT ![s] = "join"] /\ UNCHANGED <<suser, sitem, stenant>>
        /\ UNCHANGED payVars /\ UNCHANGED accessVars /\ sstep[s] = "tenant"
    BY <1>4 DEF FoundWithout, Goto, At
  <2>2. PayInv' /\ RowsStay /\ UNCHANGED payments /\ OthersStay(s) /\ wpc'[s] = wpc[s]
    BY <1>0, <2>1, PayIdle
  <2>3. AccessInv' /\ MembersStay
    BY <1>0, <2>1, AccessKept
  <2>4. RowsOK'
    BY <1>0, <2>2, <2>3, RowsSame
  <2>5. SeedTypeOK' /\ OthersPlaced(s) /\ sstep'[s] = "join" /\ suser'[s] = suser[s] /\ sitem'[s] = sitem[s]
    BY <1>0, <2>1 DEF SeedTypeOK, SeedSteps, OthersPlaced
  <2>6. CursorOK(s)' /\ CallOK(s)'
    BY <1>0, <2>1, <2>2, <2>5 DEF CursorOK, CallOK, Seeding
  <2>7. ProgressOK(s)'
    <3>1. \A u, i : Supplied(u, i) => Supplied(u, i)'
      BY <2>2, <2>3, ItemsStay
    <3> QED BY <1>0, <2>1, <2>5, <3>1 DEF ProgressOK, Seeding
  <2> QED BY <2>2, <2>3, <2>4, <2>5, <2>6, <2>7, OneCommandMoves DEF CommandOK
<1>5. CASE Join(s)
  <2>1. /\ AccessInv' /\ MembersStay
        /\ User(s) \in DOMAIN member' /\ member'[User(s)] \in TenantIds
    BY <1>1, <1>5 DEF Join
  <2>2. CASE User(s) \in DOMAIN member
    <3>1. Goto(s, "off") /\ UNCHANGED payVars /\ UNCHANGED <<suser, sitem, stenant>> /\ sstep[s] = "join"
      BY <1>5, <2>2 DEF Join, At
    <3>2. PayInv' /\ RowsStay /\ UNCHANGED payments /\ OthersStay(s) /\ wpc'[s] = wpc[s]
      BY <1>0, <3>1, PayIdle
    <3>3. RowsOK' /\ wpc'[s] = "idle"
      BY <1>0, <2>1, <3>1, <3>2, RowsSame DEF CallOK
    <3> QED BY <2>1, <3>1, <3>2, <3>3, GoesOff
  <2>3. CASE User(s) \notin DOMAIN member
    BY <1>5, <2>1, <2>3, OwningKeeps DEF Join, At
  <2> QED BY <2>2, <2>3
<1> QED BY <1>2, <1>3, <1>4, <1>5
(* Going on to the next item once this one is done.                           *)
LEMMA AdvanceKeeps ==
    ASSUME SeedInv, NEW s \in Seeds, sstep[s] \in {"authorizing", "capturing"},
           Advance(s), UNCHANGED stenant,
           PayInv', RowsStay, AccessInv', MembersStay, RowsOK', OthersStay(s), wpc'[s] = "idle",
           NEW u, u = User(s), NEW i, i = sitem[s], Supplied(u, i)'
    PROVE  SeedInv'
<1>0. /\ SeedTypeOK /\ CursorOK(s) /\ ProgressOK(s)
      /\ sstep \in [Seeds -> SeedSteps] /\ suser \in [Seeds -> 1..Len(SeedUsers)]
      /\ sitem \in [Seeds -> 1..PerTenant] /\ stenant'[s] = stenant[s]
      /\ Len(SeedUsers) \in Nat \ {0} /\ PerTenant \in Nat \ {0}
  BY CommandFacts
<1>1. PICK n \in 1..Len(SeedUsers) : n = suser[s]
  BY <1>0
<1>2. u = SeedUsers[n] /\ i \in 1..PerTenant
  BY <1>0, <1>1 DEF User
<1>3. /\ \A m \in 1..(n - 1), j \in 1..PerTenant : Supplied(SeedUsers[m], j)
      /\ \A j \in 1..(i - 1) : Supplied(u, j)
      /\ u \in DOMAIN member /\ stenant[s] = member[u]
  BY <1>0, <1>1, <1>2 DEF ProgressOK, CursorOK, Seeding, User
<1>4. \A v, j : Supplied(v, j) => Supplied(v, j)'
  BY ItemsStay
<1>5. u \in DOMAIN member' /\ stenant'[s] = member'[u]
  BY <1>0, <1>3 DEF MembersStay
<1>6. /\ \A m \in 1..(n - 1), j \in 1..PerTenant : Supplied(SeedUsers[m], j)'
      /\ \A j \in 1..i : Supplied(u, j)'
  <2>1. \A j \in 1..i : j = i \/ j \in 1..(i - 1)
    BY <1>2
  <2> QED BY <1>3, <1>4, <2>1
<1>7. CASE i < PerTenant
  <2>1. /\ sstep' = [sstep EXCEPT ![s] = "authorize"] /\ sitem' = [sitem EXCEPT ![s] = i + 1]
        /\ UNCHANGED suser
    BY <1>7 DEF Advance, Goto
  <2>2. i + 1 \in 1..PerTenant
    BY <1>2, <1>7, SeedAssumption
  <2>3. SeedTypeOK' /\ OthersPlaced(s)
    BY <1>0, <2>1, <2>2 DEF SeedTypeOK, SeedSteps, OthersPlaced
  <2>4. sstep'[s] = "authorize" /\ sitem'[s] = i + 1 /\ suser'[s] = n /\ (i + 1) - 1 = i
    BY <1>0, <1>1, <1>2, <2>1
  <2>5. CursorOK(s)' /\ CallOK(s)'
    BY <1>2, <1>5, <2>4 DEF CursorOK, CallOK, User
  <2>6. ProgressOK(s)'
    BY <1>2, <1>6, <2>4 DEF ProgressOK, User
  <2> QED BY <2>3, <2>5, <2>6, OneCommandMoves DEF CommandOK
<1>8. CASE ~(i < PerTenant)
  <2>1. i = PerTenant /\ sitem' = [sitem EXCEPT ![s] = 1]
    BY <1>0, <1>2, <1>8 DEF Advance
  <2>2. sitem'[s] = 1 /\ \A v \in Seeds \ {s} : sitem'[v] = sitem[v]
    BY <1>0, <2>1
  <2>3. \A m \in 1..n, j \in 1..PerTenant : Supplied(SeedUsers[m], j)'
    <3>1. \A m \in 1..n : m = n \/ m \in 1..(n - 1)
      BY <1>1
    <3> QED BY <1>2, <1>6, <2>1, <3>1
  <2>4. CASE n < Len(SeedUsers)
    <3>1. sstep' = [sstep EXCEPT ![s] = "tenant"] /\ suser' = [suser EXCEPT ![s] = n + 1]
      BY <1>1, <1>8, <2>4 DEF Advance, Goto
    <3>2. n + 1 \in 1..Len(SeedUsers) /\ (n + 1) - 1 = n
      BY <1>1, <2>4
    <3>3. SeedTypeOK' /\ OthersPlaced(s)
      BY <1>0, <2>1, <3>1, <3>2 DEF SeedTypeOK, SeedSteps, OthersPlaced
    <3>4. sstep'[s] = "tenant" /\ suser'[s] = n + 1
      BY <1>0, <3>1
    <3>5. CursorOK(s)' /\ CallOK(s)'
      BY <3>4 DEF CursorOK, CallOK, Seeding
    <3>6. ProgressOK(s)'
      BY <2>2, <2>3, <3>2, <3>4 DEF ProgressOK, Seeding
    <3> QED BY <3>3, <3>5, <3>6, OneCommandMoves DEF CommandOK
  <2>5. CASE ~(n < Len(SeedUsers))
    <3>1. sstep' = [sstep EXCEPT ![s] = "done"] /\ UNCHANGED suser /\ n = Len(SeedUsers)
      BY <1>1, <1>8, <2>5 DEF Advance, Goto
    <3>2. SeedTypeOK' /\ OthersPlaced(s)
      BY <1>0, <2>1, <3>1 DEF SeedTypeOK, SeedSteps, OthersPlaced
    <3>3. sstep'[s] = "done" /\ suser'[s] = n
      BY <1>0, <1>1, <3>1
    <3>4. CursorOK(s)' /\ CallOK(s)'
      BY <3>3 DEF CursorOK, CallOK, Seeding
    <3>5. ProgressOK(s)'
      <4>1. \A m \in 1..(n - 1) : m \in 1..n
        OBVIOUS
      <4> QED BY <2>2, <2>3, <3>1, <3>3, <4>1 DEF ProgressOK, Seeding
    <3> QED BY <3>2, <3>4, <3>5, OneCommandMoves DEF CommandOK
  <2> QED BY <2>4, <2>5
<1> QED BY <1>7, <1>8

(* A step inside a call of the command: it moves to `step` with the same item.    *)
LEMMA StepKeeps ==
    ASSUME SeedInv, NEW s \in Seeds, sstep[s] \in {"authorize", "authorizing", "capture", "capturing"},
           NEW step \in {"authorizing", "capture", "capturing"},
           sstep' = [sstep EXCEPT ![s] = step], UNCHANGED <<suser, sitem, stenant>>,
           PayInv', RowsStay, AccessInv', MembersStay, RowsOK', OthersStay(s), CallOK(s)'
    PROVE  SeedInv'
<1>0. /\ SeedTypeOK /\ CursorOK(s) /\ ProgressOK(s) /\ sstep \in [Seeds -> SeedSteps]
  BY CommandFacts
<1>1. SeedTypeOK' /\ OthersPlaced(s)
  BY <1>0 DEF SeedTypeOK, SeedSteps, OthersPlaced
<1>2. PICK n, i, t, u : n = suser[s] /\ i = sitem[s] /\ t = stenant[s] /\ u = SeedUsers[n]
  OBVIOUS
<1>3. sstep'[s] = step /\ suser'[s] = n /\ sitem'[s] = i /\ stenant'[s] = t
  BY <1>0, <1>2
<1>4. CursorOK(s)'
  BY <1>0, <1>2, <1>3 DEF CursorOK, User, Seeding, MembersStay
<1>5. ProgressOK(s)'
  <2>1. /\ \A m \in 1..(n - 1), j \in 1..PerTenant : Supplied(SeedUsers[m], j)
        /\ \A j \in 1..(i - 1) : Supplied(u, j)
    BY <1>0, <1>2 DEF ProgressOK, Seeding, User
  <2>2. /\ \A m \in 1..(n - 1), j \in 1..PerTenant : Supplied(SeedUsers[m], j)'
        /\ \A j \in 1..(i - 1) : Supplied(u, j)'
    BY <2>1, ItemsStay
  <2> QED BY <1>2, <1>3, <2>2 DEF ProgressOK, Seeding, User
<1> QED BY <1>1, <1>4, <1>5, OneCommandMoves DEF CommandOK

LEMMA CallAuthorizeKeeps ==
    ASSUME SeedInv, NEW s \in Seeds, CallAuthorize(s)
    PROVE  SeedInv'
<1>0. /\ PayInv /\ AccessInv /\ SeedTypeOK /\ RowsOK /\ CursorOK(s)
      /\ sitem \in [Seeds -> 1..PerTenant] /\ sstep \in [Seeds -> SeedSteps]
  BY CommandFacts
<1>1. sstep[s] = "authorize" /\ sstep' = [sstep EXCEPT ![s] = "authorizing"]
      /\ UNCHANGED <<suser, sitem, stenant>> /\ UNCHANGED accessVars
  BY DEF CallAuthorize, At, Goto
<1>2. PICK t \in TenantIds, i \in 1..PerTenant : t = stenant[s] /\ i = sitem[s]
  BY <1>0, <1>1 DEF CursorOK, Seeding, AccessInv, AccessTypeOK
<1>3. PICK b \in Bodies : Pay!Accept(s, [tenant |-> t, key |-> SeedKey(t, i), body |-> b], "lookup")
  BY <1>2 DEF CallAuthorize
<1>4. PICK r : r = [tenant |-> t, key |-> SeedKey(t, i), body |-> b]
  OBVIOUS
<1>5. r \in Pay!AuthRequest /\ r \in Pay!Requests
  BY <1>2, <1>4, SeedAssumption DEF Pay!AuthRequest, Pay!Requests
<1>6. /\ PayInv' /\ RowsStay /\ UNCHANGED payments
      /\ wpc'[s] = "lookup" /\ wreq'[s] = r /\ OthersStay(s)
  BY <1>0, <1>3, <1>4, <1>5, PayAccept DEF OthersStay
<1>7. AccessInv' /\ MembersStay
  BY <1>0, <1>1, AccessKept
<1>8. RowsOK'
  BY <1>0, <1>6, <1>7, RowsSame
<1>9. CallOK(s)'
  <2>1. sstep'[s] = "authorizing" /\ stenant'[s] = t /\ sitem'[s] = i
    BY <1>0, <1>1, <1>2
  <2>2. r.tenant = t /\ r.key = SeedKey(t, i)
    BY <1>4
  <2> QED BY <1>6, <2>1, <2>2 DEF CallOK, Pay!AuthSteps
<1> QED BY <1>1, <1>6, <1>7, <1>8, <1>9, StepKeeps
LEMMA AuthorizingKeeps ==
    ASSUME SeedInv, NEW s \in Seeds, Authorizing(s)
    PROVE  SeedInv'
<1>0. /\ PayInv /\ AccessInv /\ SeedTypeOK /\ RowsOK /\ CursorOK(s) /\ CallOK(s)
      /\ sitem \in [Seeds -> 1..PerTenant] /\ sstep \in [Seeds -> SeedSteps]
      /\ suser \in [Seeds -> 1..Len(SeedUsers)]
  BY CommandFacts
<1>1. /\ sstep[s] = "authorizing" /\ UNCHANGED accessVars /\ UNCHANGED stenant
      /\ Pay!AuthorizeStep(s)
  BY DEF Authorizing, At, Pay!AuthorizeStep
<1>2. AccessInv' /\ MembersStay
  BY <1>0, <1>1, AccessKept
<1>3. PICK t \in TenantIds, i \in 1..PerTenant, n \in 1..Len(SeedUsers), u \in DOMAIN member :
         /\ t = stenant[s] /\ i = sitem[s] /\ n = suser[s] /\ u = SeedUsers[n] /\ u = User(s)
         /\ t = member[u]
  BY <1>0, <1>1 DEF CursorOK, Seeding, AccessInv, AccessTypeOK, User
<1>4. /\ wpc[s] \in Pay!AuthSteps /\ wreq[s].tenant = t /\ wreq[s].key = SeedKey(t, i)
      /\ wpc[s] = "reread" => Present(t, i)
  BY <1>0, <1>1, <1>3 DEF CallOK
<1>5. /\ PayInv' /\ RowsStay /\ OthersStay(s)
      /\ \A p \in DOMAIN payments' : p \in DOMAIN payments \/ Carries(p, t, i)'
      /\ \/ wpc'[s] = "idle" /\ Present(t, i)'
         \/ /\ wpc'[s] \in Pay!AuthSteps /\ wreq'[s] = wreq[s]
            /\ wpc'[s] = "reread" => Present(t, i)'
  BY <1>0, <1>1, <1>4, AuthorizeMoves
<1>6. u \in DOMAIN member' /\ t = member'[u]
  BY <1>2, <1>3 DEF MembersStay
<1>7. RowsOK'
  BY <1>0, <1>2, <1>3, <1>5, <1>6, RowsKept
<1>8. CASE wpc'[s] # "idle"
  <2>1. UNCHANGED <<sstep, suser, sitem>>
    BY <1>8 DEF Authorizing
  <2>2. sstep' = [sstep EXCEPT ![s] = "authorizing"]
    BY <1>0, <1>1, <2>1
  <2>3. sstep'[s] = "authorizing" /\ stenant'[s] = t /\ sitem'[s] = i
    BY <1>1, <1>3, <2>1
  <2>4. CallOK(s)'
    BY <1>4, <1>5, <1>8, <2>3 DEF CallOK
  <2> QED BY <1>1, <1>2, <1>5, <1>7, <2>1, <2>2, <2>4, StepKeeps
<1>9. CASE wpc'[s] = "idle" /\ Capture
  <2>1. sstep' = [sstep EXCEPT ![s] = "capture"] /\ UNCHANGED <<suser, sitem>>
    BY <1>9 DEF Authorizing, Goto
  <2>2. sstep'[s] = "capture" /\ stenant'[s] = t /\ sitem'[s] = i
    BY <1>0, <1>1, <1>3, <2>1
  <2>3. Present(t, i)'
    BY <1>5, <1>9 DEF Pay!AuthSteps
  <2>4. CallOK(s)'
    BY <1>9, <2>2, <2>3 DEF CallOK
  <2> QED BY <1>1, <1>2, <1>5, <1>7, <2>1, <2>4, StepKeeps
<1>10. CASE wpc'[s] = "idle" /\ ~Capture
  <2>1. Advance(s)
    BY <1>10 DEF Authorizing
  <2>2. Present(t, i)'
    BY <1>5, <1>10 DEF Pay!AuthSteps
  <2>3. Supplied(u, i)'
    BY <1>6, <1>10, <2>2 DEF Supplied, Present
  <2> QED BY <1>1, <1>2, <1>3, <1>5, <1>7, <1>10, <2>1, <2>3, AdvanceKeeps
<1> QED BY <1>8, <1>9, <1>10

LEMMA CallCaptureKeeps ==
    ASSUME SeedInv, NEW s \in Seeds, CallCapture(s)
    PROVE  SeedInv'
<1>0. /\ PayInv /\ AccessInv /\ SeedTypeOK /\ RowsOK /\ CursorOK(s) /\ CallOK(s)
      /\ sitem \in [Seeds -> 1..PerTenant] /\ sstep \in [Seeds -> SeedSteps]
  BY CommandFacts
<1>1. sstep[s] = "capture" /\ sstep' = [sstep EXCEPT ![s] = "capturing"]
      /\ UNCHANGED <<suser, sitem, stenant>> /\ UNCHANGED accessVars
  BY DEF CallCapture, At, Goto
<1>2. PICK t \in TenantIds, i \in 1..PerTenant : t = stenant[s] /\ i = sitem[s]
  BY <1>0, <1>1 DEF CursorOK, Seeding, AccessInv, AccessTypeOK
<1>3. PICK p : p = Payment(s)
  OBVIOUS
<1>4. Carries(p, t, i) /\ p \in PaymentIds
  <2>1. \E q \in DOMAIN payments : Carries(q, t, i)
    BY <1>0, <1>1, <1>2 DEF CallOK, Present
  <2>2. p = CHOOSE q \in DOMAIN payments :
               payments[q].tenant = t /\ payments[q].key = SeedKey(t, i)
    BY <1>2, <1>3 DEF Payment
  <2>3. p \in DOMAIN payments /\ payments[p].tenant = t /\ payments[p].key = SeedKey(t, i)
    BY <2>1, <2>2, Zenon DEF Carries
  <2>4. DOMAIN payments \subseteq PaymentIds
    BY <1>0 DEF PayInv, Pay!TypeOK, Pay!StoreTypeOK
  <2> QED BY <2>3, <2>4 DEF Carries
<1>5. PICK r : r = [tenant |-> t, batch |-> FALSE, ids |-> <<p>>]
  OBVIOUS
<1>6. r.tenant = t /\ r.ids = <<p>> /\ r.ids # << >> /\ Len(r.ids) = 1 /\ Head(r.ids) = p
  BY <1>5
<1>7. r \in Pay!CaptureRequest /\ r \in Pay!Requests
  <2>1. <<p>> \in Seq(PaymentIds)
    BY <1>4
  <2> QED BY <1>2, <1>5, <2>1 DEF Pay!CaptureRequest, Pay!Requests
<1>8. /\ PayInv' /\ RowsStay /\ UNCHANGED payments
      /\ wpc'[s] = "lock" /\ wreq'[s] = r /\ OthersStay(s)
  <2>1. Pay!Accept(s, r, "lock")
    BY <1>2, <1>3, <1>5 DEF CallCapture
  <2> QED BY <1>0, <1>6, <1>7, <2>1, PayAccept DEF OthersStay
<1>9. AccessInv' /\ MembersStay
  BY <1>0, <1>1, AccessKept
<1>10. RowsOK'
  BY <1>0, <1>8, <1>9, RowsSame
<1>11. CallOK(s)'
  <2>1. sstep'[s] = "capturing" /\ stenant'[s] = t /\ sitem'[s] = i
    BY <1>0, <1>1, <1>2
  <2>2. Carries(p, t, i)'
    BY <1>4, <1>8 DEF Carries
  <2> QED BY <1>6, <1>8, <2>1, <2>2 DEF CallOK
<1> QED BY <1>1, <1>8, <1>9, <1>10, <1>11, StepKeeps

(* What every step of the capture call is shown from.                         *)
LEMMA CaptureFacts ==
    ASSUME SeedInv, NEW s \in Seeds, sstep[s] = "capturing"
    PROVE  \E t \in TenantIds, i \in 1..PerTenant, p \in DOMAIN payments, u \in DOMAIN member :
              /\ t = stenant[s] /\ i = sitem[s] /\ u = User(s) /\ t = member[u]
              /\ Carries(p, t, i) /\ p = Head(wreq[s].ids)
              /\ wpc[s] \in {"lock", "locked"} /\ wreq[s].tenant = t
              /\ wreq[s].ids # << >> /\ Len(wreq[s].ids) = 1
<1>0. AccessInv /\ CursorOK(s) /\ CallOK(s) /\ sitem \in [Seeds -> 1..PerTenant]
  BY CommandFacts
<1>1. PICK t \in TenantIds, i \in 1..PerTenant, u \in DOMAIN member :
         t = stenant[s] /\ i = sitem[s] /\ u = User(s) /\ t = member[u]
  BY <1>0 DEF CursorOK, Seeding, AccessInv, AccessTypeOK
<1>2. /\ wpc[s] \in {"lock", "locked"} /\ wreq[s].tenant = t
      /\ wreq[s].ids # << >> /\ Len(wreq[s].ids) = 1
      /\ Carries(Head(wreq[s].ids), t, i)
  BY <1>0, <1>1 DEF CallOK
<1> QED BY <1>1, <1>2 DEF Carries

LEMMA CapturingKeeps ==
    ASSUME SeedInv, NEW s \in Seeds, Capturing(s)
    PROVE  SeedInv'
<1>0. /\ PayInv /\ AccessInv /\ RowsOK /\ sstep \in [Seeds -> SeedSteps]
  BY CommandFacts
<1>1. sstep[s] = "capturing" /\ UNCHANGED accessVars /\ UNCHANGED stenant
  BY DEF Capturing, At
<1>2. PICK t \in TenantIds, i \in 1..PerTenant, p \in DOMAIN payments, u \in DOMAIN member :
         /\ t = stenant[s] /\ i = sitem[s] /\ u = User(s) /\ t = member[u]
         /\ Carries(p, t, i) /\ p = Head(wreq[s].ids)
         /\ wpc[s] \in {"lock", "locked"} /\ wreq[s].tenant = t
         /\ wreq[s].ids # << >> /\ Len(wreq[s].ids) = 1
  BY <1>1, CaptureFacts
<1>3. AccessInv' /\ MembersStay
  BY <1>0, <1>1, AccessKept
<1>4. u \in DOMAIN member' /\ t = member'[u]
  BY <1>2, <1>3 DEF MembersStay
<1>5. CASE Pay!CaptureLock(s) /\ UNCHANGED <<sstep, suser, sitem>>
  <2>1. /\ PayInv' /\ RowsStay /\ OthersStay(s) /\ UNCHANGED payments
        /\ wpc'[s] = "locked" /\ wreq'[s] = wreq[s]
    BY <1>0, <1>2, <1>5, CaptureMoves
  <2>2. RowsOK'
    BY <1>0, <1>3, <2>1, RowsSame
  <2>3. sstep' = [sstep EXCEPT ![s] = "capturing"]
    BY <1>0, <1>1, <1>5
  <2>4. sstep'[s] = "capturing" /\ stenant'[s] = t /\ sitem'[s] = i
    BY <1>1, <1>2, <1>5
  <2>5. PICK r : r = wreq[s] /\ r = wreq'[s]
    BY <2>1
  <2>6. /\ r.tenant = t /\ r.ids # << >> /\ Len(r.ids) = 1 /\ Head(r.ids) = p
    BY <1>2, <2>5
  <2>7. Carries(p, t, i)'
    BY <1>2, <2>1, <1>3, ItemsStay
  <2>8. CallOK(s)'
    BY <2>1, <2>4, <2>5, <2>6, <2>7 DEF CallOK
  <2> QED BY <1>1, <1>3, <1>5, <2>1, <2>2, <2>3, <2>8, StepKeeps
<1>6. CASE (Pay!CaptureAgain(s) \/ Pay!CaptureCommit(s)) /\ Advance(s)
  <2>1. /\ PayInv' /\ RowsStay /\ OthersStay(s) /\ wpc'[s] = "idle"
        /\ DOMAIN payments' = DOMAIN payments /\ payments'[p].status = "CAPTURED"
    BY <1>0, <1>2, <1>6, CaptureMoves
  <2>2. RowsOK'
    BY <1>0, <1>3, <2>1, RowsSame
  <2>3. Carries(p, t, i)'
    BY <1>2, <2>1, <1>3, ItemsStay
  <2>4. Supplied(u, i)'
    <3>1. p \in DOMAIN payments' /\ payments'[p].status # "AUTHORIZED"
      BY <2>1
    <3> QED BY <1>4, <2>3, <3>1 DEF Supplied
  <2> QED BY <1>1, <1>2, <1>3, <1>6, <2>1, <2>2, <2>4, AdvanceKeeps
<1> QED BY <1>5, <1>6 DEF Capturing

(* The transition is refused because the saga voided the payment.              *)
LEMMA CaptureRaisesKeeps ==
    ASSUME SeedInv, NEW s \in Seeds, CaptureRaises(s)
    PROVE  SeedInv'
<1>0. /\ PayInv /\ AccessInv /\ RowsOK /\ sstep \in [Seeds -> SeedSteps] /\ SeedTypeOK
      /\ CursorOK(s) /\ ProgressOK(s)
  BY CommandFacts
<1>1. /\ sstep[s] = "capturing" /\ sstep' = [sstep EXCEPT ![s] = "stopped"]
      /\ UNCHANGED accessVars /\ UNCHANGED <<suser, sitem, stenant>>
  BY DEF CaptureRaises, At, Goto
<1>2. PICK t \in TenantIds, i \in 1..PerTenant, p \in DOMAIN payments, u \in DOMAIN member :
         /\ t = stenant[s] /\ i = sitem[s] /\ u = User(s) /\ t = member[u]
         /\ Carries(p, t, i) /\ p = Head(wreq[s].ids)
         /\ wpc[s] \in {"lock", "locked"} /\ wreq[s].tenant = t
         /\ wreq[s].ids # << >> /\ Len(wreq[s].ids) = 1
  BY <1>1, CaptureFacts
<1>3. AccessInv' /\ MembersStay
  BY <1>0, <1>1, AccessKept
<1>4. /\ PayInv' /\ RowsStay /\ OthersStay(s) /\ wpc'[s] = "idle"
      /\ UNCHANGED payments /\ payments[p].status = "VOIDED"
  BY <1>0, <1>2, CaptureMoves DEF CaptureRaises
<1>5. RowsOK'
  BY <1>0, <1>3, <1>4, RowsSame
<1>6. SeedTypeOK' /\ OthersPlaced(s)
  BY <1>0, <1>1 DEF SeedTypeOK, SeedSteps, OthersPlaced
<1>7. PICK n : n = suser[s]
  OBVIOUS
<1>8. sstep'[s] = "stopped" /\ suser'[s] = n /\ sitem'[s] = i /\ stenant'[s] = t /\ u = SeedUsers[n]
  BY <1>0, <1>1, <1>2, <1>7 DEF User
<1>9. CursorOK(s)' /\ CallOK(s)'
  BY <1>2, <1>3, <1>4, <1>8 DEF CursorOK, CallOK, User, MembersStay
<1>10. ProgressOK(s)'
  <2>1. /\ \A m \in 1..(n - 1), j \in 1..PerTenant : Supplied(SeedUsers[m], j)
        /\ \A j \in 1..(i - 1) : Supplied(u, j)
    BY <1>0, <1>1, <1>2, <1>7 DEF ProgressOK, Seeding
  <2>2. /\ \A m \in 1..(n - 1), j \in 1..PerTenant : Supplied(SeedUsers[m], j)'
        /\ \A j \in 1..(i - 1) : Supplied(u, j)'
    BY <1>3, <1>4, <2>1, ItemsStay
  <2>3. p \in DOMAIN payments' /\ Carries(p, t, i)' /\ payments'[p].status = "VOIDED"
    BY <1>2, <1>3, <1>4, ItemsStay
  <2> QED BY <1>8, <2>2, <2>3 DEF ProgressOK, User
<1> QED BY <1>3, <1>4, <1>5, <1>6, <1>9, <1>10, OneCommandMoves DEF CommandOK

LEMMA SeedDiesKeeps ==
    ASSUME SeedInv, NEW s \in Seeds, SeedDies(s)
    PROVE  SeedInv'
<1>0. /\ PayInv /\ AccessInv /\ RowsOK /\ sstep \in [Seeds -> SeedSteps] /\ SeedTypeOK
      /\ CallOK(s) /\ CursorOK(s) /\ sitem \in [Seeds -> 1..PerTenant]
      /\ suser \in [Seeds -> 1..Len(SeedUsers)]
  BY CommandFacts
<1>1. /\ Goto(s, "off") /\ UNCHANGED accessVars /\ UNCHANGED <<suser, sitem, stenant>>
      /\ sstep[s] \notin {"off", "done", "stopped"}
  BY DEF SeedDies
<1>2. AccessInv' /\ MembersStay
  BY <1>0, <1>1, AccessKept
<1>3. SUFFICES PayInv' /\ RowsStay /\ RowsOK' /\ OthersStay(s) /\ wpc'[s] = "idle"
  BY <1>1, <1>2, <1>3, GoesOff
<1>4. CASE wpc[s] = "idle" /\ UNCHANGED payVars
  <2>1. PayInv' /\ RowsStay /\ UNCHANGED payments /\ OthersStay(s) /\ wpc'[s] = wpc[s]
    BY <1>0, <1>4, PayIdle
  <2> QED BY <1>0, <1>2, <1>4, <2>1, RowsSame
<1>5. CASE Pay!WorkerFail(s)
  <2>1. PayInv' /\ RowsStay
    BY <1>0, <1>5, PayStep DEF Pay!Next, Pay!ApiNext
  <2>2. UNCHANGED payments /\ Pay!Finish(s)
    BY <1>5 DEF Pay!WorkerFail
  <2>3. OthersStay(s) /\ wpc'[s] = "idle"
    BY <1>0, <2>2, FinishFrame
  <2> QED BY <1>0, <1>2, <2>1, <2>2, <2>3, RowsSame
<1>6. CASE Pay!AuthorizeUnacknowledged(s)
  <2>1. wpc[s] = "insert" /\ Pay!Finish(s) /\ Pay!AuthorizeStep(s)
    BY <1>6 DEF Pay!AuthorizeUnacknowledged, Pay!AuthorizeStep
  <2>2. sstep[s] = "authorizing"
    BY <1>0, <2>1 DEF CallOK
  <2>3. PICK t \in TenantIds, i \in 1..PerTenant, n \in 1..Len(SeedUsers), u \in DOMAIN member :
           t = stenant[s] /\ i = sitem[s] /\ n = suser[s] /\ u = SeedUsers[n] /\ t = member[u]
    BY <1>0, <2>2 DEF CursorOK, Seeding, AccessInv, AccessTypeOK, User
  <2>4. /\ wpc[s] \in Pay!AuthSteps /\ wreq[s].tenant = t /\ wreq[s].key = SeedKey(t, i)
        /\ wpc[s] = "reread" => Present(t, i)
    BY <1>0, <2>2, <2>3 DEF CallOK
  <2>5. /\ PayInv' /\ RowsStay /\ OthersStay(s)
        /\ \A p \in DOMAIN payments' : p \in DOMAIN payments \/ Carries(p, t, i)'
    BY <1>0, <2>1, <2>4, AuthorizeMoves
  <2>6. wpc'[s] = "idle"
    BY <1>0, <2>1, FinishFrame
  <2>7. u \in DOMAIN member' /\ t = member'[u]
    BY <1>2, <2>3 DEF MembersStay
  <2>8. RowsOK'
    BY <1>0, <1>2, <2>3, <2>5, <2>7, RowsKept
  <2> QED BY <2>5, <2>6, <2>8
<1>7. CASE Pay!CaptureUnacknowledged(s)
  <2>1. sstep[s] = "capturing"
    BY <1>0, <1>7 DEF CallOK, Pay!CaptureUnacknowledged, Pay!AuthSteps
  <2>2. PICK p \in DOMAIN payments :
           /\ p = Head(wreq[s].ids) /\ wpc[s] \in {"lock", "locked"}
           /\ wreq[s].ids # << >> /\ Len(wreq[s].ids) = 1
    BY <2>1, CaptureFacts
  <2>3. /\ PayInv' /\ RowsStay /\ OthersStay(s) /\ wpc'[s] = "idle"
        /\ DOMAIN payments' = DOMAIN payments
    BY <1>0, <1>7, <2>2, CaptureMoves
  <2> QED BY <1>0, <1>2, <2>3, RowsSame
<1> QED BY <1>4, <1>5, <1>6, <1>7 DEF SeedDies

(* What is not a command's step: the saga's, and what people do with their       *)
(* tenants.                                                                *)
LEMMA OthersKeep ==
    ASSUME SeedInv, PayInv', RowsStay, DOMAIN payments' = DOMAIN payments,
           AccessInv', MembersStay, UNCHANGED seedVars, UNCHANGED <<wpc, wreq>>
    PROVE  SeedInv'
<1>0. SeedTypeOK /\ RowsOK
  BY DEF SeedInv
<1>1. UNCHANGED <<sstep, suser, sitem, stenant>>
  BY DEF seedVars
<1>2. SeedTypeOK'
  BY <1>0, <1>1 DEF SeedTypeOK
<1>3. RowsOK'
  BY <1>0, RowsSame
<1>4. ASSUME NEW v \in Seeds PROVE CommandOK(v)'
  <2>1. CommandOK(v)
    BY DEF SeedInv, CommandsOK, CommandOK
  <2> QED BY <1>1, <2>1, CommandStays
<1>5. CommandsOK'
  BY <1>4 DEF CommandsOK, CommandOK
<1> QED BY <1>2, <1>3, <1>5 DEF SeedInv

LEMMA SagaKeeps ==
    ASSUME SeedInv, Pay!SagaVoids, UNCHANGED <<accessVars, seedVars>>
    PROVE  SeedInv' /\ MembersStay /\ RowsStay
<1>0. PayInv /\ AccessInv
  BY DEF SeedInv
<1>1. PayInv' /\ RowsStay
  BY <1>0, PayStep DEF Pay!Next
<1>2. AccessInv' /\ MembersStay
  BY <1>0, AccessKept
<1>3. UNCHANGED <<wpc, wreq>>
  BY DEF Pay!SagaVoids, Pay!apiVars
<1>4. DOMAIN payments' = DOMAIN payments
  <2>1. payments \in [DOMAIN payments -> Pay!PaymentRow]
    BY <1>0 DEF PayInv, Pay!TypeOK, Pay!StoreTypeOK
  <2> QED BY <2>1 DEF Pay!SagaVoids, Pay!CompensatePayment, Pay!SetStatus
<1> QED BY <1>1, <1>2, <1>3, <1>4, OthersKeep

LEMMA PeopleKeep ==
    ASSUME SeedInv, AccessNext \/ UNCHANGED accessVars, UNCHANGED <<payVars, seedVars>>
    PROVE  SeedInv' /\ MembersStay /\ RowsStay
<1>0. PayInv /\ AccessInv
  BY DEF SeedInv
<1>1. PayInv' /\ RowsStay /\ UNCHANGED payments
  BY <1>0, PayIdle
<1>2. AccessInv' /\ MembersStay
  BY <1>0, AccessKept
<1>3. UNCHANGED <<wpc, wreq>>
  BY DEF payVars
<1> QED BY <1>1, <1>2, <1>3, OthersKeep

LEMMA CommandKeeps ==
    ASSUME SeedInv, NEW s \in Seeds, Start(s) \/ SeedStep(s) \/ SeedDies(s)
    PROVE  SeedInv'
BY StartKeeps, TenantKeeps, CallAuthorizeKeeps, AuthorizingKeeps, CallCaptureKeeps, CapturingKeeps,
   CaptureRaisesKeeps, SeedDiesKeeps DEF SeedStep

LEMMA SeedInvKept == SeedInv /\ [Next]_vars => SeedInv'
<1> SUFFICES ASSUME SeedInv, [Next]_vars PROVE SeedInv'
  OBVIOUS
<1>1. CASE UNCHANGED vars
  <2>1. UNCHANGED accessVars /\ UNCHANGED <<payVars, seedVars>>
    BY <1>1 DEF vars
  <2> QED BY <2>1, PeopleKeep
<1>2. CASE Next
  BY <1>2, CommandKeeps, SagaKeeps, PeopleKeep DEF Next
<1> QED BY <1>1, <1>2

LEMMA SeedInitially == Init => SeedInv
<1> SUFFICES ASSUME Init PROVE SeedInv
  OBVIOUS
<1>0. /\ Pay!Init /\ AccessInit
      /\ sstep = [s \in Seeds |-> "off"] /\ suser = [s \in Seeds |-> 1]
      /\ sitem = [s \in Seeds |-> 1] /\ stenant = [s \in Seeds |-> NoTenant]
  BY DEF Init
<1>1. DOMAIN payments = {} /\ wpc = [s \in Seeds |-> "idle"]
  BY <1>0 DEF Pay!Init, Pay!StoreInit, Pay!ApiInit
<1>2. PayInv
  <2>1. Pay!TypeOK
    BY <1>0, PayAssumptions, Pay!TypeInit
  <2> QED BY <1>1, <2>1 DEF PayInv, Pay!LockInv, Pay!UniqueKeys
<1>3. AccessInv
  BY <1>0, AccessInitially
<1>4. SeedTypeOK
  <2>1. Len(SeedUsers) \in Nat /\ Len(SeedUsers) # 0
    BY SeedAssumption, EmptySeq
  <2>2. 1 \in 1..Len(SeedUsers) /\ 1 \in 1..PerTenant
    BY <2>1, SeedAssumption
  <2> QED BY <1>0, <2>2 DEF SeedTypeOK, SeedSteps
<1>5. RowsOK
  BY <1>1 DEF RowsOK
<1>6. CommandsOK
  BY <1>0, <1>1 DEF CommandsOK, CursorOK, CallOK, ProgressOK, Seeding
<1> QED BY <1>2, <1>3, <1>4, <1>5, <1>6 DEF SeedInv

(* Every reachable state of any number of seed commands, payments, usernames and  *)
(* tenants satisfies SeedInv: the payment table's locks and keys, the tenants,    *)
(* and where each command is in its work (seed.py, services.py, access).         *)
THEOREM SeedInvariant == Spec => []SeedInv
<1>1. Init => SeedInv
  BY SeedInitially
<1>2. SeedInv /\ [Next]_vars => SeedInv'
  BY SeedInvKept
<1> QED BY <1>1, <1>2, PTL DEF Spec
----------------------------------------------------------------------------
(* Users, memberships and tokens are what the tables and the tokens hold: ids of   *)
(* known tenants, memberships of known users, breakers within their bounds.       *)
THEOREM AccessTypeCorrect == Spec => []AccessTypeOK
<1>1. SeedInv => AccessTypeOK
  BY DEF SeedInv, AccessInv
<1> QED BY <1>1, SeedInvariant, PTL

(* A token only ever names the tenant of its user's membership, and nobody is      *)
(* shown another tenant's data.                                             *)
THEOREM TenantsIsolated == Spec => []OwnTenantOnly
<1>1. SeedInv => OwnTenantOnly
  BY DEF SeedInv, AccessInv
<1> QED BY <1>1, SeedInvariant, PTL

(* A tenant has exactly one owner, whoever founded it.                         *)
THEOREM OwnersAreOne == Spec => []OneOwnerEach
<1>1. SeedInv => OneOwnerEach
  <2> SUFFICES ASSUME SeedInv, NEW t \in tenants
               PROVE  Cardinality({u \in DOMAIN member : member[u] = t}) = 1
    BY DEF OneOwnerEach
  <2>1. /\ \A u, v \in DOMAIN member : member[u] = member[v] => u = v
        /\ \E u \in DOMAIN member : member[u] = t
    BY DEF SeedInv, AccessInv, MembersApart
  <2>2. PICK u \in DOMAIN member : member[u] = t
    BY <2>1
  <2>3. {v \in DOMAIN member : member[v] = t} = {u}
    BY <2>1, <2>2
  <2> QED BY <2>3, FS_Singleton
<1> QED BY <1>1, SeedInvariant, PTL
----------------------------------------------------------------------------
(* What a user is seeded with.                                              *)

(* Two payments for one item are one: the key tells the tenant and the number,    *)
(* and the payment table does not repeat it.                                   *)
LEMMA CarriersAreOne ==
    ASSUME SeedInv, NEW t \in TenantIds, NEW i \in 1..PerTenant, NEW p, NEW q,
           Carries(p, t, i), q \in DOMAIN payments, payments[q].key = SeedKey(t, i)
    PROVE  p = q
<1>1. PICK n \in 1..Len(SeedUsers), j \in 1..PerTenant :
         SeedUsers[n] \in DOMAIN member /\ Carries(q, member[SeedUsers[n]], j)
  BY DEF SeedInv, RowsOK
<1>2. payments[q].tenant = t
  BY <1>1 DEF Carries, SeedKey
<1>3. SeedKey(t, i) # NoKey
  BY SeedAssumption
<1> QED BY <1>2, <1>3 DEF Carries, SeedInv, PayInv, Pay!UniqueKeys

LEMMA SuppliedOnce ==
    ASSUME SeedInv, NEW u, NEW i \in 1..PerTenant, Supplied(u, i)
    PROVE  ToppedUp(u, i) /\ \A p : Carries(p, member[u], i) => Seeded(u, i) = {p}
<1>1. PICK t \in TenantIds : u \in DOMAIN member /\ t = member[u]
  BY DEF SeedInv, AccessInv, AccessTypeOK, Supplied
<1>2. ASSUME NEW p, Carries(p, t, i) PROVE Seeded(u, i) = {p}
  <2>1. p \in Seeded(u, i)
    BY <1>1, <1>2 DEF Seeded, Carries
  <2>2. ASSUME NEW q \in Seeded(u, i) PROVE p = q
    BY <1>1, <1>2, <2>2, CarriersAreOne DEF Seeded
  <2> QED BY <2>1, <2>2
<1>3. PICK p : Carries(p, t, i) /\ (Capture => payments[p].status # "AUTHORIZED")
  BY <1>1 DEF Supplied
<1>4. Seeded(u, i) = {p} /\ Cardinality(Seeded(u, i)) = 1
  BY <1>2, <1>3, FS_Singleton
<1> QED BY <1>1, <1>2, <1>3, <1>4 DEF ToppedUp

(* A payment is for one of the items asked for, no two for the same one.          *)
LEMMA NotMoreThanAsked ==
    ASSUME SeedInv
    PROVE  Cardinality(DOMAIN payments) <= Len(SeedUsers) * PerTenant
<1> DEFINE Asked == (1..Len(SeedUsers)) \X (1..PerTenant)
           For(p, n, i) == SeedUsers[n] \in DOMAIN member /\ Carries(p, member[SeedUsers[n]], i)
           item == [p \in DOMAIN payments |-> CHOOSE a \in Asked : For(p, a[1], a[2])]
<1>0. Len(SeedUsers) \in Nat /\ PerTenant \in Nat
  BY SeedAssumption
<1>1. IsFiniteSet(Asked) /\ Cardinality(Asked) = Len(SeedUsers) * PerTenant
  <2>1. ASSUME NEW n \in Nat PROVE IsFiniteSet(1..n) /\ Cardinality(1..n) = n
    <3>1. 1 \in Int /\ n \in Int
      OBVIOUS
    <3>2. IsFiniteSet(1..n) /\ Cardinality(1..n) = IF 1 > n THEN 0 ELSE n - 1 + 1
      BY <3>1, FS_Interval
    <3> QED BY <3>2
  <2>2. PICK S, T : S = 1..Len(SeedUsers) /\ T = 1..PerTenant
    OBVIOUS
  <2>3. /\ IsFiniteSet(S) /\ Cardinality(S) = Len(SeedUsers)
        /\ IsFiniteSet(T) /\ Cardinality(T) = PerTenant
    BY <1>0, <2>1, <2>2
  <2>4. IsFiniteSet(S \X T) /\ Cardinality(S \X T) = Cardinality(S) * Cardinality(T)
    BY <2>3, FS_Product
  <2> QED BY <2>2, <2>3, <2>4
<1>2. ASSUME NEW p \in DOMAIN payments
      PROVE  item[p] \in Asked /\ For(p, item[p][1], item[p][2])
  <2>1. PICK n \in 1..Len(SeedUsers), i \in 1..PerTenant : For(p, n, i)
    BY DEF SeedInv, RowsOK
  <2>2. <<n, i>> \in Asked /\ For(p, <<n, i>>[1], <<n, i>>[2])
    BY <2>1
  <2> HIDE DEF Asked, For
  <2> QED BY <2>2
<1>3. ASSUME NEW p \in DOMAIN payments, NEW q \in DOMAIN payments, item[p] = item[q]
      PROVE  p = q
  <2>1. PICK n \in 1..Len(SeedUsers), i \in 1..PerTenant : n = item[p][1] /\ i = item[p][2]
    BY <1>2
  <2>2. For(p, n, i) /\ For(q, n, i)
    BY <1>2, <1>3, <2>1
  <2>3. PICK t \in TenantIds : t = member[SeedUsers[n]]
    BY <2>2 DEF SeedInv, AccessInv, AccessTypeOK
  <2>4. Carries(p, t, i) /\ payments[q].key = SeedKey(t, i)
    BY <2>2, <2>3 DEF Carries
  <2> QED BY <2>4, CarriersAreOne
<1>4. item \in Injection(DOMAIN payments, Asked)
  <2> HIDE DEF Asked, For
  <2>1. item \in [DOMAIN payments -> Asked]
    BY <1>2
  <2> HIDE DEF item
  <2> QED BY <1>3, <2>1 DEF Injection, IsInjective
<1> HIDE DEF Asked, item
<1> QED BY <1>1, <1>4, FS_Injection

(* "Re-running tops up rather than duplicating" (seed.py:8-10): any number of      *)
(* commands, started any number of times, make no more payments than asked for,   *)
(* and one that comes to its end leaves each item once, captured if asked.         *)
THEOREM SeedingTopsUp == Spec => []SeedTopsUp
<1>1. SeedInv => SeedTopsUp
  <2> SUFFICES ASSUME SeedInv PROVE SeedTopsUp
    OBVIOUS
  <2>1. ASSUME NEW s \in Seeds, sstep[s] = "done", NEW n \in DOMAIN SeedUsers, NEW i \in 1..PerTenant
        PROVE  ToppedUp(SeedUsers[n], i)
    <3>1. n \in 1..Len(SeedUsers)
      BY SeedAssumption
    <3>2. Supplied(SeedUsers[n], i)
      BY <2>1, <3>1 DEF SeedInv, CommandsOK, ProgressOK
    <3> QED BY <3>2, SuppliedOnce
  <2> QED BY <2>1, NotMoreThanAsked DEF SeedTopsUp
<1> QED BY <1>1, SeedInvariant, PTL

(* A command is only stopped by a payment that was voided since it was captured;    *)
(* all the work before that payment is done (seed.py:68-70, services.py:91-95).     *)
THEOREM StopsAreVoided == Spec => []StopsAtVoided
<1>1. SeedInv => StopsAtVoided
  <2> SUFFICES ASSUME SeedInv, NEW s \in Seeds, sstep[s] = "stopped"
               PROVE  /\ \A p \in Seeded(User(s), sitem[s]) : payments[p].status = "VOIDED"
                      /\ \A i \in 1..sitem[s] : ToppedUp(User(s), i)
                      /\ \A n \in 1..(suser[s] - 1), i \in 1..PerTenant : ToppedUp(SeedUsers[n], i)
    BY DEF StopsAtVoided
  <2>1. PICK i \in 1..PerTenant : i = sitem[s]
    BY DEF SeedInv, SeedTypeOK
  <2>2. PICK u \in DOMAIN member : u = User(s) /\ stenant[s] = member[u]
    BY DEF SeedInv, CommandsOK, CursorOK, Seeding
  <2>3. /\ \A n \in 1..(suser[s] - 1), j \in 1..PerTenant : Supplied(SeedUsers[n], j)
        /\ \A j \in 1..(i - 1) : Supplied(u, j)
        /\ \E p \in DOMAIN payments : Carries(p, member[u], i) /\ payments[p].status = "VOIDED"
    BY <2>1, <2>2 DEF SeedInv, CommandsOK, ProgressOK, Seeding
  <2>4. PICK p \in DOMAIN payments : Carries(p, member[u], i) /\ payments[p].status = "VOIDED"
    BY <2>3
  <2>5. Supplied(u, i)
    BY <2>4 DEF Supplied
  <2>6. ASSUME NEW j \in 1..i PROVE ToppedUp(u, j)
    <3>1. j \in 1..PerTenant /\ (j = i \/ j \in 1..(i - 1))
      BY <2>1, SeedAssumption
    <3>2. Supplied(u, j)
      BY <2>3, <2>5, <3>1
    <3> QED BY <3>1, <3>2, SuppliedOnce
  <2>7. Seeded(u, i) = {p}
    BY <2>4, <2>5, SuppliedOnce
  <2>8. \A n \in 1..(suser[s] - 1), j \in 1..PerTenant : ToppedUp(SeedUsers[n], j)
    BY <2>3, SuppliedOnce
  <2> QED BY <2>1, <2>2, <2>4, <2>6, <2>7, <2>8
<1> QED BY <1>1, SeedInvariant, PTL

(* A payment made for an item stays it: no run, death or race of the command takes  *)
(* a payment away, moves it to another tenant or key, makes a captured one only       *)
(* authorized again or revives a voided one, and no membership is moved.             *)
THEOREM NothingTakenBack == Spec => [][RowsStay /\ MembersStay]_vars
<1>1. SeedInv /\ [Next]_vars => [RowsStay /\ MembersStay]_vars
  <2> SUFFICES ASSUME SeedInv, Next PROVE RowsStay /\ MembersStay
    BY DEF vars
  <2>0. PayInv /\ AccessInv
    BY DEF SeedInv
  <2>1. ASSUME NEW s \in Seeds, Start(s) \/ SeedStep(s) \/ SeedDies(s)
        PROVE  RowsStay /\ MembersStay
    <3>1. MembersStay
      <4>1. User(s) \in Users
        BY CommandFacts
      <4>2. PICK u \in Users : u = User(s)
        BY <4>1
      <4>3. UNCHANGED accessVars \/ SeedNewUser(u) \/ SeedJoin(u)
        BY <2>1, <4>2 DEF Start, SeedStep, SeedDies, NewUser, KnownMember, FoundWithout, Join,
           CallAuthorize, Authorizing, CallCapture, Capturing, CaptureRaises
      <4> QED BY <2>0, <4>3, AccessKept
    <3>2. UNCHANGED payments => RowsStay
      BY DEF RowsStay
    <3>3. \/ UNCHANGED payments
          \/ Pay!AuthorizeStep(s) \/ Pay!CaptureStep(s) \/ Pay!WorkerFail(s)
      BY <2>1 DEF Start, SeedStep, SeedDies, NewUser, KnownMember, FoundWithout, Join, Owning,
         CallAuthorize, Authorizing, CallCapture, Capturing, CaptureRaises, payVars,
         Pay!Accept, Pay!storeVars, Pay!AuthorizeStep, Pay!CaptureStep
    <3>4. Pay!AuthorizeStep(s) \/ Pay!CaptureStep(s) \/ Pay!WorkerFail(s) => RowsStay
      BY <2>0, PayStep DEF Pay!Next, Pay!ApiNext
    <3> QED BY <3>1, <3>2, <3>3, <3>4
  <2>2. CASE Pay!SagaVoids /\ UNCHANGED <<accessVars, seedVars>>
    BY <2>2, SagaKeeps
  <2>3. CASE AccessNext /\ UNCHANGED <<payVars, seedVars>>
    BY <2>3, PeopleKeep
  <2> QED BY <2>1, <2>2, <2>3 DEF Next
<1> QED BY <1>1, SeedInvariant, PTL DEF Spec
=============================================================================

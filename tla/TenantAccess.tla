----------------------------- MODULE TenantAccess -----------------------------
(***************************************************************************)
(* Who may see what: the Payment service's users, tenants and memberships,    *)
(* the tokens its login issues with the tenant claim baked in, and what the    *)
(* gateway and the services behind it answer to a token.  The gateway's        *)
(* breaker for the ledger is part of the answer.                            *)
(***************************************************************************)
EXTENDS CircuitBreaker, FiniteSets

CONSTANTS
    Users,              \* usernames
    TenantIds,          \* UUIDs that tenants may get
    NoTenant,           \* a token without the tenant claim
    AccessLifetime,     \* ACCESS_TOKEN_LIFETIME
    RefreshLifetime,    \* REFRESH_TOKEN_LIFETIME
    AccessMaxTime       \* bound: clock ticks

ASSUME AccessAssumption ==
    /\ NoTenant \notin TenantIds
    /\ AccessLifetime \in Nat /\ RefreshLifetime \in Nat /\ AccessMaxTime \in Nat

VARIABLES
    aclock,             \* the time that tokens are checked against
    users,              \* rows of the user table
    tenants,            \* rows of the tenant table
    member,             \* the membership table: user -> tenant
    session,            \* user -> the tokens of its client, once logged in
    edge,               \* the gateway's breaker for the ledger
    ledgerFaulted,      \* history: the ledger itself has failed
    served              \* history: <<user, tenant whose data it was shown>>

identity == <<users, tenants, member>>
accessVars == <<aclock, identity, session, edge, ledgerFaulted, served>>

AccessInit ==
    /\ aclock = Cooldown
    /\ users = {}
    /\ tenants = {}
    /\ member = << >>
    /\ session = << >>
    /\ edge = NewBreaker
    /\ ledgerFaulted = FALSE
    /\ served = {}

With(f, u, x) == [v \in DOMAIN f \cup {u} |-> IF v = u THEN x ELSE f[v]]

----------------------------------------------------------------------------
(* Users and tenants.  A superuser has no membership.                        *)
CreateSuperuser(u) ==
    /\ u \notin users
    /\ users' = users \cup {u}
    /\ UNCHANGED <<aclock, tenants, member, session, edge, ledgerFaulted, served>>

Found(u, t) ==
    /\ tenants' = tenants \cup {t}
    /\ member' = With(member, u, t)

(* The claims of a login, valid from now on.                                *)
ClaimOf(u) == IF u \in DOMAIN member THEN member[u] ELSE NoTenant

Tokens(claim) == [claim |-> claim, access |-> aclock + AccessLifetime,
                  refresh |-> aclock + RefreshLifetime]

(* create_tenant: all of it or, for a username that is taken, nothing.         *)
CreateTenant(u) ==
    /\ u \notin users
    /\ users' = users \cup {u}
    /\ \E t \in TenantIds \ tenants :
         /\ Found(u, t)
         /\ session' = With(session, u, Tokens(t))
    /\ UNCHANGED <<aclock, edge, ledgerFaulted, served>>

(* seed's transaction for a new username: the row it inserts makes everybody    *)
(* else who wants the name wait for the commit.                              *)
SeedNewUser(u) ==
    /\ u \notin users
    /\ users' = users \cup {u}
    /\ \E t \in TenantIds \ tenants : Found(u, t)
    /\ UNCHANGED <<aclock, session, edge, ledgerFaulted, served>>

(* Mutants: the tenant stays when the membership is refused; the membership is   *)
(* overwritten.                                                            *)
SeedJoin_NotAtomic(u) ==
    /\ u \in users
    /\ \E t \in TenantIds \ tenants :
         IF u \in DOMAIN member THEN tenants' = tenants \cup {t} /\ UNCHANGED member ELSE Found(u, t)
    /\ UNCHANGED <<aclock, users, session, edge, ledgerFaulted, served>>
SeedJoin_Overwrites(u) ==
    /\ u \in users
    /\ \E t \in TenantIds \ tenants : Found(u, t)
    /\ UNCHANGED <<aclock, users, session, edge, ledgerFaulted, served>>

(* ... and for a user without a membership: a second one meanwhile breaks the    *)
(* one-to-one constraint and rolls the tenant back.                          *)
SeedJoin(u) ==
    /\ u \in users
    /\ IF u \in DOMAIN member
       THEN UNCHANGED <<tenants, member>>
       ELSE \E t \in TenantIds \ tenants : Found(u, t)
    /\ UNCHANGED <<aclock, users, session, edge, ledgerFaulted, served>>

----------------------------------------------------------------------------
(* Tokens.  A refreshed access token repeats the claims of the refresh token.   *)
Login(u) ==
    /\ u \in users
    /\ session' = With(session, u, Tokens(ClaimOf(u)))
    /\ UNCHANGED <<aclock, identity, edge, ledgerFaulted, served>>

Refresh(u) ==
    /\ u \in DOMAIN session
    /\ aclock < session[u].refresh
    /\ session' = [session EXCEPT ![u].access = aclock + AccessLifetime]
    /\ UNCHANGED <<aclock, identity, edge, ledgerFaulted, served>>

Valid(u) == u \in DOMAIN session /\ aclock < session[u].access

(* The AI service takes any unexpired token signed with the key, a refresh token  *)
(* too: it does not look at the token's type.                               *)
Unexpired(u) == u \in DOMAIN session /\ (Valid(u) \/ aclock < session[u].refresh)

----------------------------------------------------------------------------
(* Answers.  The Payment and AI services refuse a token without a tenant (403);  *)
(* the ledger looks the claim up with token["tenant_id"], a KeyError: a 500.    *)
PaymentStatus(claim) == IF claim = NoTenant THEN 403 ELSE 200
AiStatus(claim) == IF claim = NoTenant THEN 403 ELSE 200
LedgerStatus(claim) == IF claim = NoTenant THEN 500 ELSE 200

Shown(u, status) ==
    served' = IF status = 200 THEN served \cup {<<u, session[u].claim>>} ELSE served

AskPayment(u) ==
    /\ Valid(u)
    /\ Shown(u, PaymentStatus(session[u].claim))
    /\ UNCHANGED <<aclock, identity, session, edge, ledgerFaulted>>

AskAi(u) ==
    /\ Unexpired(u)
    /\ Shown(u, AiStatus(session[u].claim))
    /\ UNCHANGED <<aclock, identity, session, edge, ledgerFaulted>>

(* forward(): a 5xx or no answer is a failure of the ledger, anything else a     *)
(* success.                                                                *)
Recorded(status) ==
    IF status >= 500 THEN Failed(Allowed(edge), aclock) ELSE Succeeded(Allowed(edge))

AskLedger(u) ==
    LET status == LedgerStatus(session[u].claim) IN
    /\ Valid(u)
    /\ Allows(edge, aclock)
    /\ edge' = Recorded(status)
    /\ Shown(u, status)
    /\ UNCHANGED <<aclock, identity, session, ledgerFaulted>>

LedgerFails(u) ==
    /\ Valid(u)
    /\ Allows(edge, aclock)
    /\ edge' = Recorded(503)
    /\ ledgerFaulted' = TRUE
    /\ UNCHANGED <<aclock, identity, session, served>>

AccessTick ==
    /\ aclock < AccessMaxTime
    /\ aclock' = aclock + 1
    /\ UNCHANGED <<identity, session, edge, ledgerFaulted, served>>

AccessNext ==
    \/ AccessTick
    \/ \E u \in Users :
         \/ CreateSuperuser(u)
         \/ CreateTenant(u)
         \/ Login(u)
         \/ Refresh(u)
         \/ AskPayment(u)
         \/ AskAi(u)
         \/ AskLedger(u)
         \/ LedgerFails(u)

----------------------------------------------------------------------------
(* The shape of every variable.                                            *)
AccessTypeOK ==
    /\ aclock \in Nat
    /\ users \subseteq Users
    /\ tenants \subseteq TenantIds
    /\ DOMAIN member \subseteq users
    /\ \A u \in DOMAIN member : member[u] \in tenants
    /\ DOMAIN session \subseteq users
    /\ \A u \in DOMAIN session :
         session[u] \in [claim : TenantIds \cup {NoTenant}, access : Nat, refresh : Nat]
    /\ edge \in Breakers
    /\ served \subseteq users \X TenantIds

(* Tenant isolation from login to answer: whatever a user was ever shown, with   *)
(* tokens old, refreshed or issued while its membership was being made, belongs  *)
(* to the tenant it is a member of (tokens.py:18-23, tenancy.py:30-39).        *)
OwnTenantOnly ==
    /\ \A s \in served : s[1] \in DOMAIN member /\ s[2] = member[s[1]]
    /\ \A u \in DOMAIN session :
         session[u].claim # NoTenant => u \in DOMAIN member /\ session[u].claim = member[u]

(* Commands that race, fail or are repeated leave no tenant without its owner,   *)
(* nor with two (seed.py:47-57, create_tenant.py:27-38).                      *)
OneOwnerEach ==
    \A t \in tenants : Cardinality({u \in DOMAIN member : member[u] = t}) = 1

(* client.py:53-55: "a 4xx is the client's fault, not the backend's, so it must   *)
(* not trip the breaker"; while the ledger is healthy its breaker stays closed.  *)
ClientFaultsDontTrip == ~ledgerFaulted => edge.state = "closed"
=============================================================================

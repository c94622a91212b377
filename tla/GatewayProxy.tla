----------------------------- MODULE GatewayProxy -----------------------------
(***************************************************************************)
(* The API gateway: ProxyView._proxy in several gunicorn worker processes,    *)
(* each serving one request at a time.  The balances cache is in Redis and    *)
(* shared; a worker's breakers are its own.  A request is here from the moment *)
(* the rate limiter let it through (RateLimiter): a denied one changes nothing. *)
(* The Payment service and the ledger behind it are reduced to their answers. *)
(* One tenant's traffic: every key in Redis is per tenant.                   *)
(***************************************************************************)
EXTENDS CircuitBreaker, FiniteSets

CONSTANTS
    Gateways,           \* worker processes
    CacheTtl,           \* CACHE_TTL
    WorkerTimeout,      \* gunicorn kills a worker silent for longer
    MaxTime,            \* bound: clock ticks
    MaxDrops,           \* bound: captures that invalidate the cache
    MaxFailures         \* bound: calls that fail

ASSUME GatewayAssumption ==
    /\ IsFiniteSet(Gateways)
    /\ CacheTtl \in Nat \ {0} /\ WorkerTimeout \in Nat
    /\ MaxTime \in Nat /\ MaxDrops \in Nat /\ MaxFailures \in Nat

VARIABLES
    clock,              \* time.time()
    cache,              \* cache:balances:<tenant> in Redis, or NoEntry
    breakers,           \* worker -> service -> its breaker
    gpc,                \* worker -> the step of _proxy it executes next
    greq,               \* worker -> the request it serves
    gresp,              \* worker -> the downstream response
    drops,              \* invalidations of the cache so far (for MaxDrops)
    droppedAt,          \* history: when the cache was last invalidated
    failing,            \* history: worker -> service -> its last failed calls
    failures            \* failed calls so far

gatewayVars == <<clock, cache, breakers, gpc, greq, gresp, drops, droppedAt, failing,
                 failures>>

Services == {"payment", "ledger"}

(* urls.py: balances is cached, a payment write invalidates balances.        *)
Routes == [balances |-> [service |-> "ledger", cached |-> TRUE],
           capture |-> [service |-> "payment", cached |-> FALSE]]

NoEntry == [readAt |-> 0, expires |-> 0]
NoRequest == [route |-> "none", now |-> 0]
NoResponse == [status |-> "none", readAt |-> 0]

GatewayInit ==
    /\ clock = 0
    /\ cache = NoEntry
    /\ breakers = [g \in Gateways |-> [s \in Services |-> NewBreaker]]
    /\ gpc = [g \in Gateways |-> "idle"]
    /\ greq = [g \in Gateways |-> NoRequest]
    /\ gresp = [g \in Gateways |-> NoResponse]
    /\ drops = 0
    /\ droppedAt = 0
    /\ failures = 0
    /\ failing = [g \in Gateways |-> [s \in Services |-> [run |-> 0, last |-> 0]]]

Route(g) == Routes[greq[g].route]
Service(g) == Route(g).service

(* A worker acts on its request at one of its steps while gunicorn lets it.   *)
At(g, step) == gpc[g] = step /\ clock <= greq[g].now + WorkerTimeout

Goes(g, step) == gpc' = [gpc EXCEPT ![g] = step]

Answer(g) ==
    /\ Goes(g, "idle")
    /\ greq' = [greq EXCEPT ![g] = NoRequest]
    /\ gresp' = [gresp EXCEPT ![g] = NoResponse]

cacheVars == <<cache, drops, droppedAt>>
breakerVars == <<breakers, failing, failures>>

----------------------------------------------------------------------------
Capturing == {g \in Gateways : greq[g].route = "capture"}

Receive(g) ==
    /\ gpc[g] = "idle"
    /\ \E r \in DOMAIN Routes :
           /\ r = "capture" => drops + Cardinality(Capturing) < MaxDrops
           /\ greq' = [greq EXCEPT ![g] = [route |-> r, now |-> clock]]
    /\ Goes(g, IF Routes[greq'[g].route].cached THEN "lookup" ELSE "allow")
    /\ UNCHANGED <<clock, cacheVars, breakerVars, gresp>>

Live(entry) == clock < entry.expires

(* A hit is answered at once, a miss goes to the backend.                   *)
CacheGet(g) ==
    /\ At(g, "lookup")
    /\ \/ Live(cache) /\ Answer(g)
       \/ ~Live(cache) /\ Goes(g, "allow") /\ UNCHANGED <<greq, gresp>>
    /\ UNCHANGED <<clock, cacheVars, breakerVars>>

(* forward(): the breaker lets the call out or answers 503 itself.           *)
Forward(g) ==
    LET b == breakers[g][Service(g)] IN
    /\ At(g, "allow")
    /\ IF Allows(b, clock)
       THEN /\ breakers' = [breakers EXCEPT ![g][Service(g)] = Allowed(b)]
            /\ Goes(g, "sent")
            /\ UNCHANGED <<greq, gresp>>
       ELSE Answer(g) /\ UNCHANGED breakers
    /\ UNCHANGED <<clock, cacheVars, failing, failures>>

----------------------------------------------------------------------------
(* The backend answers: a success, the client's error or its own fault.        *)
BackendServes(g) ==
    /\ gpc[g] = "sent"
    /\ \E s \in {"ok", "4xx", "5xx"} :
           gresp' = [gresp EXCEPT ![g] = [status |-> s, readAt |-> clock]]
    /\ Goes(g, "served")
    /\ UNCHANGED <<clock, cacheVars, breakerVars, greq>>

----------------------------------------------------------------------------
RecordSuccess(g) ==
    /\ breakers' = [breakers EXCEPT ![g][Service(g)] = Succeeded(@)]
    /\ failing' = [failing EXCEPT ![g][Service(g)] = [run |-> 0, last |-> 0]]
    /\ UNCHANGED failures

RecordFailure(g) ==
    /\ failures < MaxFailures
    /\ failures' = failures + 1
    /\ breakers' = [breakers EXCEPT ![g][Service(g)] = Failed(@, clock)]
    /\ failing' = [failing EXCEPT ![g][Service(g)] =
                      [run |-> IF @.run < Threshold THEN @.run + 1 ELSE Threshold,
                       last |-> clock]]

(* A response below 500 counts as a success, be it the client's error.       *)
Respond(g) ==
    /\ At(g, "served")
    /\ gresp[g].status # "5xx"
    /\ RecordSuccess(g)
    /\ IF gresp[g].status = "ok"
       THEN Goes(g, IF Route(g).cached THEN "store" ELSE "drop") /\ UNCHANGED <<greq, gresp>>
       ELSE Answer(g)
    /\ UNCHANGED <<clock, cacheVars>>

RespondError(g) ==
    /\ At(g, "served")
    /\ gresp[g].status = "5xx"
    /\ RecordFailure(g)
    /\ Answer(g)
    /\ UNCHANGED <<clock, cacheVars>>

(* The connection breaks or times out, before or after the backend acted:     *)
(* a 503, and nothing is invalidated.                                      *)
CallFails(g) ==
    /\ At(g, "sent") \/ At(g, "served")
    /\ RecordFailure(g)
    /\ Answer(g)
    /\ UNCHANGED <<clock, cacheVars>>

(* Mutant: the entry's life is renewed from what is stored, without an end.     *)
Entry_NoTtl(r) == [readAt |-> r.readAt, expires |-> MaxTime + 1]

(* The body as the backend read it, and the TTL from now on.                 *)
Entry(r) == [readAt |-> r.readAt, expires |-> clock + CacheTtl]

CacheSet(g) ==
    /\ At(g, "store")
    /\ cache' = Entry(gresp[g])
    /\ Answer(g)
    /\ UNCHANGED <<clock, drops, droppedAt, breakerVars>>

(* Mutant: the key that is deleted is not the one that is cached.             *)
Invalidate_OtherKey(g) ==
    /\ At(g, "drop")
    /\ drops' = drops + 1
    /\ droppedAt' = clock
    /\ Answer(g)
    /\ UNCHANGED <<clock, cache, breakerVars>>

Invalidate(g) ==
    /\ At(g, "drop")
    /\ drops' = drops + 1
    /\ droppedAt' = clock
    /\ cache' = NoEntry
    /\ Answer(g)
    /\ UNCHANGED <<clock, breakerVars>>

(* Redis does not answer: the request ends in a 500 where it stands.          *)
RedisFails(g) ==
    /\ gpc[g] \in {"lookup", "store", "drop"}
    /\ Answer(g)
    /\ UNCHANGED <<clock, cacheVars, breakerVars>>

(* gunicorn kills a worker that is silent for too long and forks a new one,   *)
(* with new breakers.                                                      *)
WorkerKilled(g) ==
    /\ gpc[g] # "idle"
    /\ clock > greq[g].now + WorkerTimeout
    /\ Answer(g)
    /\ breakers' = [breakers EXCEPT ![g] = [s \in Services |-> NewBreaker]]
    /\ failing' = [failing EXCEPT ![g] = [s \in Services |-> [run |-> 0, last |-> 0]]]
    /\ UNCHANGED <<clock, cacheVars, failures>>

Tick ==
    /\ clock < MaxTime
    /\ clock' = clock + 1
    /\ UNCHANGED <<cacheVars, breakerVars, gpc, greq, gresp>>

GatewayStep(g) == \/ Receive(g)
                  \/ CacheGet(g)
                  \/ Forward(g)
                  \/ BackendServes(g)
                  \/ Respond(g)
                  \/ RespondError(g)
                  \/ CallFails(g)
                  \/ CacheSet(g)
                  \/ Invalidate(g)
                  \/ RedisFails(g)
                  \/ WorkerKilled(g)

GatewayNext == (\E g \in Gateways : GatewayStep(g)) \/ Tick

Spec == GatewayInit /\ [][GatewayNext]_gatewayVars

----------------------------------------------------------------------------
(* Every variable has its type (views.py:68-107).                           *)
GatewayTypeOK ==
    /\ clock \in 0..MaxTime
    /\ cache \in [readAt : 0..MaxTime, expires : Nat]
    /\ breakers \in [Gateways -> [Services -> Breakers]]
    /\ gpc \in [Gateways -> {"idle", "lookup", "allow", "sent", "served", "store", "drop"}]
    /\ greq \in [Gateways -> [route : DOMAIN Routes \cup {"none"}, now : 0..MaxTime]]
    /\ gresp \in [Gateways -> [status : {"none", "ok", "4xx", "5xx"}, readAt : 0..MaxTime]]
    /\ drops \in 0..MaxDrops
    /\ droppedAt \in 0..MaxTime
    /\ failures \in 0..MaxFailures
    /\ failing \in [Gateways -> [Services -> [run : 0..Threshold, last : 0..MaxTime]]]

(* A worker refuses to call a service exactly while its last Threshold calls   *)
(* to it, or the probe after them, failed and the cooldown since the last of  *)
(* them runs: neither a 4xx nor the other service's faults trip it, and it    *)
(* never stays open (breaker.py:49-72, client.py:41-82).                     *)
BreakerTripsExactly ==
    \A g \in Gateways, s \in Services :
        LET f == failing[g][s] IN
        Allows(breakers[g][s], clock) <=> (f.run < Threshold \/ clock >= f.last + Cooldown)

(* A cached balance is served for at most the TTL after it was stored, and    *)
(* it was read from the ledger within one request of that (cache.py:7-8,      *)
(* views.py:73-96): the bound is the TTL plus the life of a request.          *)
StalenessBounded == Live(cache) => clock - cache.readAt < CacheTtl + WorkerTimeout

(* An invalidation drops every copy read before it but the one a GET in flight  *)
(* has in hand: what is served after it was read from the ledger within one      *)
(* request's life before it or later (views.py:96-99, cache.py:46-53).          *)
InvalidationHolds == Live(cache) => droppedAt <= cache.readAt + WorkerTimeout
=============================================================================

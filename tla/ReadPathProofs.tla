---------------------------- MODULE ReadPathProofs ----------------------------
(***************************************************************************)
(* Proofs about what a client's read meets: the gateway's workers with their    *)
(* cache and breakers, for any number of them and every threshold, cooldown,   *)
(* TTL and timeout; the token bucket they spend from; and, last, the pages of   *)
(* the ledger's history.  The three share no state.                          *)
(***************************************************************************)
EXTENDS GatewayProxy, RateLimiter, JournalPages, SequenceTheorems, FiniteSetTheorems, TLAPS

Steps == {"idle", "lookup", "allow", "sent", "served", "store", "drop"}
Requests == [route : {"balances", "capture", "none"}, now : 0..MaxTime]
Responses == [status : {"none", "ok", "4xx", "5xx"}, readAt : 0..MaxTime]
Histories == [run : 0..Threshold, last : 0..MaxTime]

(* A request in hand: it came in before now, and what the backend read for it  *)
(* was read after it came in.                                              *)
Good(step, req, resp) ==
    /\ step # "idle" => req.route # "none"
    /\ step = "drop" => req.route = "capture"
    /\ req.now <= clock
    /\ step \in {"served", "store"} => req.now <= resp.readAt
    /\ resp.readAt <= clock

RequestsOK == \A g \in Gateways : Good(gpc[g], greq[g], gresp[g])

(* Invalidations made and those that captures in hand may still make.          *)
DropsOK == drops + Cardinality(Capturing) <= MaxDrops

(* An entry was stored by a request that was still alive, so it expires within  *)
(* the TTL and a request's life of its being read, and any invalidation it has   *)
(* survived was before it was stored.                                       *)
CacheOK ==
    /\ cache.readAt <= clock
    /\ cache.expires <= cache.readAt + WorkerTimeout + CacheTtl
    /\ droppedAt <= clock
    /\ cache.expires > 0 => droppedAt <= cache.readAt + WorkerTimeout

(* A breaker counts the failures in a row and remembers when the last one was,  *)
(* until the probe that follows the cooldown.                                *)
Matches(b, f, now) ==
    /\ b.failures = f.run
    /\ b.state = "closed" <=> f.run < Threshold
    /\ b.state = "open" => b.openedAt = f.last
    /\ b.state = "half_open" => f.last + Cooldown <= now
    /\ f.last <= now

BreakersOK == \A g \in Gateways, s \in Services : Matches(breakers[g][s], failing[g][s], clock)

GatewayInv == GatewayTypeOK /\ RequestsOK /\ DropsOK /\ CacheOK /\ BreakersOK

----------------------------------------------------------------------------
(* What the breaker's operations make of a breaker and its history.           *)
LEMMA NewMatches ==
    ASSUME NEW now \in Nat
    PROVE  /\ NewBreaker \in Breakers /\ [run |-> 0, last |-> 0] \in Histories
           /\ Matches(NewBreaker, [run |-> 0, last |-> 0], now)
BY BreakerAssumption, GatewayAssumption DEF NewBreaker, Breakers, BreakerStates, Matches, Histories

LEMMA AllowedMatches ==
    ASSUME NEW now \in Nat, NEW b \in Breakers, NEW f \in Histories, Matches(b, f, now), Allows(b, now)
    PROVE  Allowed(b) \in Breakers /\ Matches(Allowed(b), f, now)
<1>1. /\ b \in [state : BreakerStates, failures : 0..Threshold, openedAt : Nat]
      /\ f.run \in 0..Threshold /\ f.last \in Nat
  BY DEF Breakers, Histories
<1>2. CASE b.state = "open"
  <2>1. now >= f.last + Cooldown
    BY <1>1, <1>2, BreakerAssumption DEF Matches, Allows, CoolingDown
  <2>2. Allowed(b) = [b EXCEPT !.state = "half_open"]
    BY <1>2 DEF Allowed
  <2>3. /\ Allowed(b) \in [state : BreakerStates, failures : 0..Threshold, openedAt : Nat]
        /\ Allowed(b).state = "half_open" /\ Allowed(b).failures = b.failures
    BY <1>1, <2>2 DEF BreakerStates
  <2> QED BY <1>1, <1>2, <2>1, <2>3, BreakerAssumption DEF Breakers, Matches
<1>3. CASE b.state # "open"
  BY <1>3 DEF Allowed
<1> QED BY <1>2, <1>3

LEMMA SucceededMatches ==
    ASSUME NEW now \in Nat, NEW b \in Breakers
    PROVE  Succeeded(b) \in Breakers /\ Matches(Succeeded(b), [run |-> 0, last |-> 0], now)
<1>1. b \in [state : BreakerStates, failures : 0..Threshold, openedAt : Nat]
  BY DEF Breakers
<1>2. Succeeded(b) = [state |-> "closed", failures |-> 0, openedAt |-> b.openedAt]
  BY DEF Succeeded
<1>3. Succeeded(b) \in [state : BreakerStates, failures : 0..Threshold, openedAt : Nat]
  BY <1>1, <1>2, BreakerAssumption DEF BreakerStates
<1> QED BY <1>2, <1>3, BreakerAssumption DEF Breakers, Matches

LEMMA FailedMatches ==
    ASSUME NEW now \in 0..MaxTime, NEW b \in Breakers, NEW f \in Histories, Matches(b, f, now),
           NEW h, h = [run |-> IF f.run < Threshold THEN f.run + 1 ELSE Threshold, last |-> now]
    PROVE  Failed(b, now) \in Breakers /\ h \in Histories /\ Matches(Failed(b, now), h, now)
<1>1. /\ b \in [state : BreakerStates, failures : 0..Threshold, openedAt : Nat]
      /\ f.run \in 0..Threshold /\ f.last \in Nat /\ b.failures = f.run
  BY DEF Breakers, Histories, Matches
<1>2. /\ h.run = (IF b.failures < Threshold THEN b.failures + 1 ELSE Threshold) /\ h.last = now
      /\ h.run \in 0..Threshold /\ h \in Histories
  BY <1>1, BreakerAssumption DEF Histories
<1>3. CASE b.state = "half_open" \/ h.run >= Threshold
  <2>1. Failed(b, now) = [state |-> "open", failures |-> h.run, openedAt |-> now]
    BY <1>2, <1>3 DEF Failed
  <2>2. h.run = Threshold
    BY <1>1, <1>2, <1>3, BreakerAssumption DEF Matches
  <2> QED BY <1>2, <2>1, <2>2, GatewayAssumption, BreakerAssumption DEF Breakers, BreakerStates, Matches
<1>4. CASE ~(b.state = "half_open" \/ h.run >= Threshold)
  <2>1. Failed(b, now) = [b EXCEPT !.failures = h.run]
    BY <1>2, <1>4 DEF Failed
  <2>2. /\ Failed(b, now) \in [state : BreakerStates, failures : 0..Threshold, openedAt : Nat]
        /\ Failed(b, now).failures = h.run /\ Failed(b, now).state = b.state
    BY <1>1, <1>2, <2>1
  <2>3. h.run < Threshold /\ b.failures < Threshold
    BY <1>1, <1>2, <1>4, BreakerAssumption
  <2>4. b.state = "closed"
    BY <1>1, <2>3 DEF Matches
  <2> QED BY <1>2, <2>2, <2>3, <2>4, GatewayAssumption DEF Breakers, Matches
<1> QED BY <1>2, <1>3, <1>4
----------------------------------------------------------------------------
LEMMA RoutesAre ==
    /\ DOMAIN Routes = {"balances", "capture"}
    /\ Routes["balances"] = [service |-> "ledger", cached |-> TRUE]
    /\ Routes["capture"] = [service |-> "payment", cached |-> FALSE]
BY DEF Routes

(* The workers' requests.                                                  *)
LEMMA Typed ==
    ASSUME GatewayInv
    PROVE  /\ gpc \in [Gateways -> Steps]
           /\ greq \in [Gateways -> Requests]
           /\ gresp \in [Gateways -> Responses]
           /\ clock \in 0..MaxTime /\ MaxTime \in Nat
           /\ \A g \in Gateways : Good(gpc[g], greq[g], gresp[g])
<1>1. DOMAIN Routes \cup {"none"} = {"balances", "capture", "none"}
  BY RoutesAre
<1> QED BY <1>1, GatewayAssumption
    DEF GatewayInv, GatewayTypeOK, RequestsOK, Steps, Requests, Responses

(* The service behind the route of a request in hand.                       *)
LEMMA ServiceTyped ==
    ASSUME GatewayInv, NEW g \in Gateways, gpc[g] # "idle"
    PROVE  /\ Service(g) \in Services
           /\ greq[g].route \in {"balances", "capture"}
           /\ Route(g).cached <=> greq[g].route = "balances"
<1>1. greq[g].route \in {"balances", "capture"}
  BY Typed DEF Good, Requests
<1> QED BY <1>1, RoutesAre DEF Service, Route, Services

(* One worker goes to another step with a request and a response.             *)
Turns(g, step, req, resp) ==
    /\ gpc' = [gpc EXCEPT ![g] = step]
    /\ greq' = [greq EXCEPT ![g] = req]
    /\ gresp' = [gresp EXCEPT ![g] = resp]
    /\ Good(step, req, resp)

LEMMA AnswerTurns ==
    ASSUME GatewayInv, NEW g \in Gateways, Answer(g)
    PROVE  Turns(g, "idle", NoRequest, NoResponse)
<1>1. Good("idle", NoRequest, NoResponse)
  BY Typed DEF Good, NoRequest, NoResponse
<1> QED BY <1>1 DEF Answer, Goes, Turns

LEMMA GoesTurns ==
    ASSUME GatewayInv, NEW g \in Gateways, gpc[g] # "idle", NEW step, Goes(g, step),
           UNCHANGED <<greq, gresp>>,
           step = "drop" => greq[g].route = "capture",
           step \in {"served", "store"} => gpc[g] = "served"
    PROVE  Turns(g, step, greq[g], gresp[g])
BY Typed DEF Goes, Turns, Good

LEMMA WorkerStep ==
    ASSUME GatewayInv, NEW g \in Gateways, GatewayStep(g)
    PROVE  \E step \in Steps, req \in Requests, resp \in Responses : Turns(g, step, req, resp)
<1>0. /\ NoRequest \in Requests /\ NoResponse \in Responses /\ "idle" \in Steps
      /\ greq[g] \in Requests /\ gresp[g] \in Responses
  BY Typed, GatewayAssumption DEF NoRequest, NoResponse, Requests, Responses, Steps
<1>1. CASE Receive(g)
  <2>1. PICK r \in {"balances", "capture"} : greq' = [greq EXCEPT ![g] = [route |-> r, now |-> clock]]
    BY <1>1, RoutesAre DEF Receive
  <2>2. /\ [route |-> r, now |-> clock] \in Requests
        /\ gresp' = [gresp EXCEPT ![g] = gresp[g]]
    BY <1>1, Typed DEF Receive, Requests
  <2>3. PICK step \in {"lookup", "allow"} : gpc' = [gpc EXCEPT ![g] = step]
    BY <1>1 DEF Receive, Goes
  <2>4. Good(step, [route |-> r, now |-> clock], gresp[g])
    BY Typed DEF Good
  <2> QED BY <1>0, <2>1, <2>2, <2>3, <2>4 DEF Turns, Steps
<1>2. CASE Answer(g)
  BY <1>0, <1>2, AnswerTurns
<1>3. CASE CacheGet(g) \/ Forward(g)
  <2>1. /\ gpc[g] # "idle"
        /\ Answer(g) \/ (\E step \in {"allow", "sent"} : Goes(g, step) /\ UNCHANGED <<greq, gresp>>)
    BY <1>3 DEF CacheGet, Forward, At
  <2> QED BY <1>0, <1>2, <2>1, GoesTurns DEF Steps
<1>4. CASE BackendServes(g)
  <2>1. PICK s \in {"ok", "4xx", "5xx"} : gresp' = [gresp EXCEPT ![g] = [status |-> s, readAt |-> clock]]
    BY <1>4 DEF BackendServes
  <2>2. [status |-> s, readAt |-> clock] \in Responses
    BY Typed DEF Responses
  <2>3. /\ gpc[g] = "sent" /\ gpc' = [gpc EXCEPT ![g] = "served"]
        /\ greq' = [greq EXCEPT ![g] = greq[g]]
    BY <1>4, Typed DEF BackendServes, Goes
  <2>4. Good("served", greq[g], [status |-> s, readAt |-> clock])
    BY <2>3, Typed DEF Good
  <2> QED BY <1>0, <2>1, <2>2, <2>3, <2>4 DEF Turns, Steps
<1>5. CASE Respond(g)
  <2>1. gpc[g] = "served" /\ (Route(g).cached <=> greq[g].route = "balances")
        /\ greq[g].route \in {"balances", "capture"}
    BY <1>5, ServiceTyped DEF Respond, At
  <2>2. \/ Answer(g)
        \/ Goes(g, IF Route(g).cached THEN "store" ELSE "drop") /\ UNCHANGED <<greq, gresp>>
    BY <1>5 DEF Respond
  <2>3. CASE Goes(g, "store") /\ UNCHANGED <<greq, gresp>>
    BY <1>0, <2>1, <2>3, GoesTurns DEF Steps
  <2>4. CASE Goes(g, "drop") /\ UNCHANGED <<greq, gresp>> /\ greq[g].route = "capture"
    BY <1>0, <2>1, <2>4, GoesTurns DEF Steps
  <2> QED BY <1>2, <2>1, <2>2, <2>3, <2>4
<1>6. CASE \/ RespondError(g) \/ CallFails(g) \/ CacheSet(g) \/ Invalidate(g) \/ RedisFails(g)
          \/ WorkerKilled(g)
  BY <1>2, <1>6 DEF RespondError, CallFails, CacheSet, Invalidate, RedisFails, WorkerKilled
<1> QED BY <1>1, <1>3, <1>4, <1>5, <1>6 DEF GatewayStep

(* A step of the workers or the clock keeps every request good.               *)
LEMMA RequestsStep ==
    ASSUME GatewayInv, [GatewayNext]_gatewayVars
    PROVE  /\ RequestsOK'
           /\ gpc' \in [Gateways -> Steps]
           /\ greq' \in [Gateways -> Requests]
           /\ gresp' \in [Gateways -> Responses]
<1>1. ASSUME NEW g \in Gateways, GatewayStep(g)
      PROVE  /\ RequestsOK'
             /\ gpc' \in [Gateways -> Steps]
             /\ greq' \in [Gateways -> Requests]
             /\ gresp' \in [Gateways -> Responses]
  <2>1. PICK step \in Steps, req \in Requests, resp \in Responses : Turns(g, step, req, resp)
    BY <1>1, WorkerStep
  <2>2. clock' = clock
    BY <1>1 DEF GatewayStep, Receive, CacheGet, Forward, BackendServes, Respond, RespondError,
         CallFails, CacheSet, Invalidate, RedisFails, WorkerKilled
  <2>3. /\ gpc' \in [Gateways -> Steps] /\ greq' \in [Gateways -> Requests]
        /\ gresp' \in [Gateways -> Responses]
        /\ gpc'[g] = step /\ greq'[g] = req /\ gresp'[g] = resp
        /\ \A h \in Gateways \ {g} : gpc'[h] = gpc[h] /\ greq'[h] = greq[h] /\ gresp'[h] = gresp[h]
    BY <2>1, Typed DEF Turns
  <2> QED BY <2>1, <2>2, <2>3, Typed DEF RequestsOK, Turns, Good
<1>2. ASSUME Tick \/ UNCHANGED gatewayVars
      PROVE  /\ RequestsOK'
             /\ gpc' \in [Gateways -> Steps]
             /\ greq' \in [Gateways -> Requests]
             /\ gresp' \in [Gateways -> Responses]
  <2>1. gpc' = gpc /\ greq' = greq /\ gresp' = gresp /\ clock' \in Nat /\ clock <= clock'
    BY <1>2, Typed DEF Tick, gatewayVars
  <2>2. \A g \in Gateways : greq[g].now \in Nat /\ gresp[g].readAt \in Nat
    BY Typed DEF Requests, Responses
  <2> QED BY <2>1, <2>2, Typed DEF RequestsOK, Good
<1> QED BY <1>1, <1>2 DEF GatewayNext
----------------------------------------------------------------------------
LEMMA BreakersTyped ==
    ASSUME GatewayInv
    PROVE  /\ breakers \in [Gateways -> [Services -> Breakers]]
           /\ failing \in [Gateways -> [Services -> Histories]]
           /\ \A g \in Gateways, s \in Services : Matches(breakers[g][s], failing[g][s], clock)
BY DEF GatewayInv, GatewayTypeOK, BreakersOK, Histories

BreakersGood ==
    /\ breakers \in [Gateways -> [Services -> Breakers]]
    /\ failing \in [Gateways -> [Services -> Histories]]
    /\ BreakersOK

(* One breaker and its history change together.                             *)
LEMMA BreakerSet ==
    ASSUME GatewayInv, UNCHANGED clock, NEW g \in Gateways, NEW s \in Services,
           NEW b \in Breakers, NEW h \in Histories, Matches(b, h, clock),
           breakers' = [breakers EXCEPT ![g][s] = b],
           failing' = [failing EXCEPT ![g][s] = h]
    PROVE  BreakersGood'
<1>1. breakers' \in [Gateways -> [Services -> Breakers]]
  BY BreakersTyped
<1>2. failing' \in [Gateways -> [Services -> Histories]]
  BY BreakersTyped
<1>3. ASSUME NEW k \in Gateways, NEW t \in Services
      PROVE  Matches(breakers'[k][t], failing'[k][t], clock)
  <2>1. CASE k = g /\ t = s
    BY <2>1, BreakersTyped
  <2>2. CASE ~(k = g /\ t = s)
    <3>1. breakers'[k][t] = breakers[k][t] /\ failing'[k][t] = failing[k][t]
      BY <2>2, BreakersTyped
    <3> QED BY <3>1, BreakersTyped
  <2> QED BY <2>1, <2>2
<1> QED BY <1>1, <1>2, <1>3 DEF BreakersGood, BreakersOK

LEMMA BreakersStep ==
    ASSUME GatewayInv, [GatewayNext]_gatewayVars
    PROVE  BreakersGood'
<1>1. ASSUME UNCHANGED breakers, UNCHANGED failing, clock' \in Nat, clock <= clock'
      PROVE  BreakersGood'
  <2>1. ASSUME NEW b \in Breakers, NEW f \in Histories, Matches(b, f, clock)
        PROVE  Matches(b, f, clock')
    BY <1>1, <2>1, Typed, BreakerAssumption DEF Matches, Histories
  <2> QED BY <1>1, <2>1, BreakersTyped DEF BreakersGood, BreakersOK
<1>2. ASSUME Tick \/ UNCHANGED gatewayVars PROVE BreakersGood'
  BY <1>1, <1>2, Typed DEF Tick, gatewayVars, breakerVars
<1>3. ASSUME NEW g \in Gateways,
             \/ Receive(g) \/ CacheGet(g) \/ BackendServes(g) \/ CacheSet(g) \/ Invalidate(g)
             \/ RedisFails(g)
      PROVE  BreakersGood'
  BY <1>1, <1>3, Typed DEF Receive, CacheGet, BackendServes, CacheSet, Invalidate, RedisFails, breakerVars
<1>4. ASSUME NEW g \in Gateways, Forward(g) PROVE BreakersGood'
  <2>1. PICK s \in Services : s = Service(g)
    BY <1>4, ServiceTyped DEF Forward, At
  <2>2. CASE UNCHANGED breakers
    BY <1>1, <1>4, <2>2, Typed DEF Forward
  <2>3. CASE Allows(breakers[g][s], clock) /\ breakers' = [breakers EXCEPT ![g][s] = Allowed(breakers[g][s])]
    <3>1. breakers[g][s] \in Breakers /\ failing[g][s] \in Histories
      BY BreakersTyped
    <3>2. /\ Allowed(breakers[g][s]) \in Breakers
          /\ Matches(Allowed(breakers[g][s]), failing[g][s], clock)
      BY <2>3, <3>1, AllowedMatches, BreakersTyped, Typed
    <3>3. failing' = [failing EXCEPT ![g][s] = failing[g][s]]
      BY <1>4, BreakersTyped DEF Forward
    <3> QED BY <1>4, <2>3, <3>1, <3>2, <3>3, BreakerSet DEF Forward
  <2> QED BY <1>4, <2>1, <2>2, <2>3 DEF Forward
<1>5. ASSUME NEW g \in Gateways, gpc[g] # "idle", RecordSuccess(g), UNCHANGED clock PROVE BreakersGood'
  <2>1. PICK s \in Services : s = Service(g)
    BY <1>5, ServiceTyped
  <2>2. /\ breakers' = [breakers EXCEPT ![g][s] = Succeeded(breakers[g][s])]
        /\ failing' = [failing EXCEPT ![g][s] = [run |-> 0, last |-> 0]]
    BY <1>5, <2>1, BreakersTyped DEF RecordSuccess
  <2>3. /\ Succeeded(breakers[g][s]) \in Breakers
        /\ Matches(Succeeded(breakers[g][s]), [run |-> 0, last |-> 0], clock)
    BY SucceededMatches, BreakersTyped, Typed
  <2>4. [run |-> 0, last |-> 0] \in Histories
    BY NewMatches, Typed
  <2> QED BY <1>5, <2>2, <2>3, <2>4, BreakerSet
<1>6. ASSUME NEW g \in Gateways, gpc[g] # "idle", RecordFailure(g), UNCHANGED clock PROVE BreakersGood'
  <2>1. PICK s \in Services : s = Service(g)
    BY <1>6, ServiceTyped
  <2>2. PICK f \in Histories : f = failing[g][s]
    BY BreakersTyped
  <2>3. PICK h : h = [run |-> IF f.run < Threshold THEN f.run + 1 ELSE Threshold, last |-> clock]
    OBVIOUS
  <2>4. /\ breakers' = [breakers EXCEPT ![g][s] = Failed(breakers[g][s], clock)]
        /\ failing' = [failing EXCEPT ![g][s] = h]
    BY <1>6, <2>1, <2>2, <2>3, BreakersTyped DEF RecordFailure
  <2>5. /\ Failed(breakers[g][s], clock) \in Breakers /\ h \in Histories
        /\ Matches(Failed(breakers[g][s], clock), h, clock)
    BY <2>2, <2>3, FailedMatches, BreakersTyped, Typed
  <2> QED BY <1>6, <2>4, <2>5, BreakerSet
<1>7. ASSUME NEW g \in Gateways, WorkerKilled(g) PROVE BreakersGood'
  <2>1. PICK b \in Breakers, h \in Histories :
            b = NewBreaker /\ h = [run |-> 0, last |-> 0] /\ Matches(b, h, clock)
    BY NewMatches, Typed
  <2>2. /\ breakers' = [breakers EXCEPT ![g] = [s \in Services |-> b]]
        /\ failing' = [failing EXCEPT ![g] = [s \in Services |-> h]]
        /\ clock' = clock
    BY <1>7, <2>1 DEF WorkerKilled
  <2>3. /\ breakers' \in [Gateways -> [Services -> Breakers]]
        /\ failing' \in [Gateways -> [Services -> Histories]]
    BY <2>2, BreakersTyped
  <2>4. ASSUME NEW k \in Gateways, NEW t \in Services
        PROVE  Matches(breakers'[k][t], failing'[k][t], clock)
    <3>1. CASE k = g
      BY <2>1, <2>2, <3>1, BreakersTyped
    <3>2. CASE k # g
      BY <2>2, <3>2, BreakersTyped
    <3> QED BY <3>1, <3>2
  <2> QED BY <2>2, <2>3, <2>4 DEF BreakersGood, BreakersOK
<1>8. ASSUME NEW g \in Gateways, Respond(g) \/ RespondError(g) \/ CallFails(g)
      PROVE  BreakersGood'
  <2>1. gpc[g] # "idle" /\ UNCHANGED clock /\ (RecordSuccess(g) \/ RecordFailure(g))
    BY <1>8 DEF Respond, RespondError, CallFails, At
  <2> QED BY <1>5, <1>6, <2>1
<1> QED BY <1>2, <1>3, <1>4, <1>7, <1>8 DEF GatewayNext, GatewayStep
----------------------------------------------------------------------------
(* Only a store fills the cache, and only with a body read by a request that    *)
(* is still alive.                                                         *)
LEMMA CacheStep ==
    ASSUME GatewayInv, [GatewayNext]_gatewayVars
    PROVE  /\ clock' \in 0..MaxTime /\ clock <= clock'
           /\ cache' \in [readAt : 0..MaxTime, expires : Nat]
           /\ droppedAt' \in 0..MaxTime
           /\ CacheOK'
<1>0. /\ cache \in [readAt : 0..MaxTime, expires : Nat] /\ CacheOK
      /\ CacheTtl \in Nat /\ WorkerTimeout \in Nat /\ MaxTime \in Nat
      /\ clock \in 0..MaxTime /\ droppedAt \in 0..MaxTime
  BY GatewayAssumption DEF GatewayInv, GatewayTypeOK
<1>1. CASE Tick \/ UNCHANGED gatewayVars
  <2>1. cache' = cache /\ droppedAt' = droppedAt /\ clock' \in 0..MaxTime /\ clock <= clock'
    BY <1>0, <1>1 DEF Tick, cacheVars, gatewayVars
  <2> QED BY <1>0, <2>1 DEF CacheOK
<1>2. ASSUME NEW g \in Gateways, CacheSet(g)
      PROVE  /\ UNCHANGED clock /\ cache' \in [readAt : 0..MaxTime, expires : Nat]
             /\ droppedAt' \in 0..MaxTime /\ CacheOK'
  <2>1. /\ gpc[g] = "store" /\ clock <= greq[g].now + WorkerTimeout
        /\ cache' = [readAt |-> gresp[g].readAt, expires |-> clock + CacheTtl] /\ clock' = clock
        /\ droppedAt' = droppedAt
    BY <1>2 DEF CacheSet, At, Entry
  <2>2. /\ greq[g].now \in 0..MaxTime /\ gresp[g].readAt \in 0..MaxTime
        /\ greq[g].now <= gresp[g].readAt /\ gresp[g].readAt <= clock
    BY <2>1, Typed DEF Good, Requests, Responses
  <2> QED BY <1>0, <2>1, <2>2 DEF CacheOK
<1>3. ASSUME NEW g \in Gateways, Invalidate(g)
      PROVE  /\ UNCHANGED clock /\ cache' \in [readAt : 0..MaxTime, expires : Nat]
             /\ droppedAt' \in 0..MaxTime /\ CacheOK'
  BY <1>0, <1>3 DEF Invalidate, NoEntry, CacheOK
<1>4. ASSUME NEW g \in Gateways,
             \/ Receive(g) \/ CacheGet(g) \/ Forward(g) \/ BackendServes(g) \/ Respond(g)
             \/ RespondError(g) \/ CallFails(g) \/ RedisFails(g) \/ WorkerKilled(g)
      PROVE  UNCHANGED <<clock, cache, droppedAt>>
  BY <1>4 DEF Receive, CacheGet, Forward, BackendServes, Respond, RespondError, CallFails,
       RedisFails, WorkerKilled, cacheVars
<1>5. UNCHANGED <<clock, cache, droppedAt>> => CacheOK'
  BY <1>0 DEF CacheOK
<1> QED BY <1>0, <1>1, <1>2, <1>3, <1>4, <1>5 DEF GatewayNext, GatewayStep

(* A capture takes one of the invalidations when it comes in and makes it at     *)
(* most once.                                                              *)
LEMMA DropsStep ==
    ASSUME GatewayInv, [GatewayNext]_gatewayVars
    PROVE  DropsOK' /\ drops' \in 0..MaxDrops /\ failures' \in 0..MaxFailures
<1>0. /\ drops \in 0..MaxDrops /\ failures \in 0..MaxFailures /\ DropsOK
      /\ MaxDrops \in Nat /\ MaxFailures \in Nat
  BY GatewayAssumption DEF GatewayInv, GatewayTypeOK
<1>1. IsFiniteSet(Capturing) /\ Cardinality(Capturing) \in Nat
  BY GatewayAssumption, FS_Subset, FS_CardinalityType DEF Capturing
<1> PICK C : C = Capturing
  OBVIOUS
<1> PICK D : D = Capturing'
  OBVIOUS
<1>2. C = Capturing /\ D = Capturing' /\ IsFiniteSet(C) /\ C \subseteq Gateways
  BY <1>1 DEF Capturing
<1>3. D \subseteq Gateways /\ IsFiniteSet(D)
  BY <1>2, GatewayAssumption, FS_Subset DEF Capturing
<1>4. Cardinality(C) \in Nat /\ Cardinality(D) \in Nat
  BY <1>2, <1>3, FS_CardinalityType
<1>5. ASSUME drops' = drops, D \subseteq C PROVE DropsOK' /\ drops' \in 0..MaxDrops
  <2>1. Cardinality(D) <= Cardinality(C)
    BY <1>2, <1>5, FS_Subset
  <2> QED BY <1>0, <1>2, <1>4, <1>5, <2>1 DEF DropsOK
<1>6. ASSUME NEW g \in Gateways, Answer(g) PROVE D = C \ {g}
  BY <1>2, <1>6, Typed DEF Answer, Capturing, NoRequest
<1>7. ASSUME greq' = greq PROVE D = C
  BY <1>2, <1>7 DEF Capturing
<1>8. ASSUME NEW g \in Gateways, Receive(g) PROVE DropsOK' /\ drops' \in 0..MaxDrops
  <2>1. PICK r \in {"balances", "capture"} :
            /\ r = "capture" => drops + Cardinality(C) < MaxDrops
            /\ greq' = [greq EXCEPT ![g] = [route |-> r, now |-> clock]]
    BY <1>2, <1>8, RoutesAre DEF Receive
  <2>2. drops' = drops
    BY <1>8 DEF Receive, cacheVars
  <2>3. CASE r = "balances"
    <3>1. D \subseteq C
      BY <1>2, <2>1, <2>3, Typed DEF Capturing
    <3> QED BY <1>5, <2>2, <3>1
  <2>4. CASE r = "capture"
    <3>1. D \subseteq C \cup {g}
      BY <1>2, <2>1, <2>4, Typed DEF Capturing
    <3>2. IsFiniteSet(C \cup {g}) /\ Cardinality(C \cup {g}) <= Cardinality(C) + 1
      <4>1. /\ IsFiniteSet(C \cup {g})
            /\ Cardinality(C \cup {g}) = IF g \in C THEN Cardinality(C) ELSE Cardinality(C) + 1
        BY <1>2, FS_AddElement
      <4> QED BY <1>4, <4>1
    <3>3. Cardinality(D) <= Cardinality(C \cup {g}) /\ Cardinality(C \cup {g}) \in Nat
      BY <3>1, <3>2, FS_Subset, FS_CardinalityType
    <3> QED BY <1>0, <1>2, <1>4, <2>1, <2>2, <2>4, <3>2, <3>3 DEF DropsOK
  <2> QED BY <2>1, <2>3, <2>4
<1>9. ASSUME NEW g \in Gateways, Invalidate(g) PROVE DropsOK' /\ drops' \in 0..MaxDrops
  <2>1. greq[g].route = "capture" /\ drops' = drops + 1 /\ D = C \ {g}
    BY <1>6, <1>9, Typed DEF Invalidate, At, Good
  <2>2. g \in C
    BY <1>2, <2>1 DEF Capturing
  <2>3. Cardinality(D) = Cardinality(C) - 1
    BY <1>2, <2>1, <2>2, FS_RemoveElement
  <2> QED BY <1>0, <1>2, <1>4, <2>1, <2>3 DEF DropsOK
<1>10. ASSUME NEW g \in Gateways,
              \/ CacheGet(g) \/ Forward(g) \/ BackendServes(g) \/ Respond(g) \/ RespondError(g)
              \/ CallFails(g) \/ CacheSet(g) \/ RedisFails(g) \/ WorkerKilled(g)
       PROVE  DropsOK' /\ drops' \in 0..MaxDrops
  <2>1. drops' = drops /\ (Answer(g) \/ greq' = greq)
    BY <1>10 DEF CacheGet, Forward, BackendServes, Respond, RespondError, CallFails, CacheSet,
         RedisFails, WorkerKilled, cacheVars
  <2> QED BY <1>5, <1>6, <1>7, <2>1
<1>11. ASSUME Tick \/ UNCHANGED gatewayVars PROVE DropsOK' /\ drops' \in 0..MaxDrops
  BY <1>5, <1>7, <1>11 DEF Tick, cacheVars, gatewayVars
<1>12. failures' \in 0..MaxFailures
  <2>1. failures' = failures \/ (failures < MaxFailures /\ failures' = failures + 1)
    BY DEF GatewayNext, GatewayStep, Receive, CacheGet, Forward, BackendServes, Respond,
       RespondError, CallFails, CacheSet, Invalidate, RedisFails, WorkerKilled, Tick, gatewayVars,
       breakerVars, RecordSuccess, RecordFailure
  <2> QED BY <1>0, <2>1
<1> QED BY <1>8, <1>9, <1>10, <1>11, <1>12 DEF GatewayNext, GatewayStep

----------------------------------------------------------------------------
LEMMA InvInit ==
    ASSUME GatewayInit
    PROVE  GatewayInv
<1>1. GatewayTypeOK /\ BreakersOK
  <2>1. /\ NewBreaker \in Breakers /\ [run |-> 0, last |-> 0] \in Histories
        /\ Matches(NewBreaker, [run |-> 0, last |-> 0], 0)
    BY NewMatches
  <2> QED BY <2>1, RoutesAre, GatewayAssumption
      DEF GatewayInit, GatewayTypeOK, BreakersOK, Histories, NoEntry, NoRequest, NoResponse
<1>2. RequestsOK
  BY DEF GatewayInit, RequestsOK, Good, NoRequest, NoResponse
<1>3. DropsOK
  <2>1. Capturing = {}
    BY DEF GatewayInit, Capturing, NoRequest
  <2> QED BY <2>1, FS_EmptySet, GatewayAssumption DEF GatewayInit, DropsOK
<1>4. CacheOK
  BY GatewayAssumption DEF GatewayInit, CacheOK, NoEntry
<1> QED BY <1>1, <1>2, <1>3, <1>4 DEF GatewayInv

LEMMA InvStep ==
    ASSUME GatewayInv, [GatewayNext]_gatewayVars
    PROVE  GatewayInv'
<1>1. GatewayTypeOK'
  <2>1. DOMAIN Routes \cup {"none"} = {"balances", "capture", "none"}
    BY RoutesAre
  <2> QED BY <2>1, RequestsStep, BreakersStep, CacheStep, DropsStep
      DEF GatewayTypeOK, BreakersGood, Steps, Requests, Responses, Histories
<1> QED BY <1>1, RequestsStep, BreakersStep, CacheStep, DropsStep DEF GatewayInv, BreakersGood

THEOREM InvCorrect == Spec => []GatewayInv
BY InvInit, InvStep, PTL DEF Spec

(* The gateway's variables keep their types, and no more invalidations are made  *)
(* than captures came in.                                                   *)
THEOREM GatewayTypeCorrect == Spec => []GatewayTypeOK
<1>1. GatewayInv => GatewayTypeOK
  BY DEF GatewayInv
<1> QED BY <1>1, InvCorrect, PTL

(* A breaker is open exactly while it should be: after Threshold failures in a   *)
(* row, or the failed probe after them, for the cooldown since the last.         *)
THEOREM BreakersTripExactly == Spec => []BreakerTripsExactly
<1>1. GatewayInv => BreakerTripsExactly
  <2> SUFFICES ASSUME GatewayInv, NEW g \in Gateways, NEW s \in Services
               PROVE  Allows(breakers[g][s], clock) <=>
                          (failing[g][s].run < Threshold \/ clock >= failing[g][s].last + Cooldown)
    BY DEF BreakerTripsExactly
  <2>1. PICK b \in Breakers, f \in Histories :
            b = breakers[g][s] /\ f = failing[g][s] /\ Matches(b, f, clock)
    BY BreakersTyped
  <2>2. b.state \in BreakerStates /\ f.last \in Nat /\ clock \in Nat /\ Cooldown \in Nat
    BY Typed, BreakerAssumption DEF Breakers, Histories
  <2> QED BY <2>1, <2>2 DEF Allows, CoolingDown, Matches, BreakerStates
<1> QED BY <1>1, InvCorrect, PTL

(* However requests overlap, invalidations included, a cached balance is never   *)
(* older than the TTL and the life of one request.                            *)
THEOREM CacheIsFresh == Spec => []StalenessBounded
<1>1. GatewayInv => StalenessBounded
  <2> SUFFICES ASSUME GatewayInv, Live(cache) PROVE clock - cache.readAt < CacheTtl + WorkerTimeout
    BY DEF StalenessBounded
  <2>1. /\ cache.readAt \in Nat /\ cache.expires \in Nat /\ clock \in Nat
        /\ CacheTtl \in Nat /\ WorkerTimeout \in Nat /\ clock < cache.expires
        /\ cache.expires <= cache.readAt + WorkerTimeout + CacheTtl
    BY GatewayAssumption DEF GatewayInv, GatewayTypeOK, CacheOK, Live
  <2> QED BY <2>1
<1> QED BY <1>1, InvCorrect, PTL

(* After a capture's invalidation a copy read before it is served only if it was   *)
(* read within one request's life before: an older one cannot come back.         *)
THEOREM InvalidationsHold == Spec => []InvalidationHolds
<1>1. GatewayInv => InvalidationHolds
  <2> SUFFICES ASSUME GatewayInv, Live(cache) PROVE droppedAt <= cache.readAt + WorkerTimeout
    BY DEF InvalidationHolds
  <2>1. cache.expires \in Nat /\ clock \in Nat /\ clock < cache.expires
    BY DEF GatewayInv, GatewayTypeOK, Live
  <2> QED BY <2>1 DEF GatewayInv, CacheOK
<1> QED BY <1>1, InvCorrect, PTL
----------------------------------------------------------------------------
(* The rate limiter.  RateBounded holds for any number of workers, any capacity  *)
(* and any refill.  What makes it inductive is an account of the bucket itself:   *)
(* the tokens still in it and those granted were all in the first bucket or were  *)
(* refilled, the latter up to the bucket's time stamp and for the time counted    *)
(* twice.                                                                  *)

(* The bucket's account, and its time stamp is a reading of the clock.        *)
Account == granted + bucket.tokens <= Capacity + Refill * (bucket.ts + twice)

ClockStamps == bucket.ts <= lclock /\ \A g \in Callers : Calling(g) => calls[g] <= lclock

LimiterInv == LimiterTypeOK /\ ClockStamps /\ Account

----------------------------------------------------------------------------
(* In FillTime an empty bucket is full again (ratelimit.py:58).              *)
LEMMA FillTimeFills == FillTime \in Nat /\ Capacity <= Refill * FillTime
<1> DEFINE n == Capacity + Refill - 1
<1>1. n \in Nat /\ Refill \in Nat \ {0} /\ Capacity \in Nat
  BY LimiterAssumption
<1>2. n = Refill * (n \div Refill) + (n % Refill) /\ n % Refill \in 0..(Refill - 1)
      /\ n \div Refill \in Nat
  BY <1>1, SMTT(30)
<1> QED
  BY <1>1, <1>2 DEF FillTime

(* Refills add up.                                                         *)
LEMMA RefillDistributes ==
    ASSUME NEW a \in Nat, NEW b \in Nat
    PROVE  /\ Refill * a \in Nat
           /\ Refill * (a + b) = Refill * a + Refill * b
           /\ b <= a => Refill * b <= Refill * a
<1>1. Refill \in Nat
  BY LimiterAssumption
<1> QED
  BY <1>1, SMTT(30)

(* What a bucket refilled for `now` holds stays within the account that the     *)
(* script's write leaves behind.                                           *)
LEMMA RefillKeepsAccount ==
    ASSUME LimiterInv, NEW now \in 0..MaxTicks
    PROVE  /\ Refilled(bucket, now) \in 0..Capacity
           /\ CountedTwice(bucket, now) \in Nat
           /\ granted + Refilled(bucket, now) <=
                  Capacity + Refill * (now + (twice + CountedTwice(bucket, now)))
<1> DEFINE ts == bucket.ts
           tokens == bucket.tokens
           counted == CountedTwice(bucket, now)
<1>1. /\ Capacity \in Nat /\ Refill \in Nat \ {0} /\ MaxTicks \in Nat
      /\ ts \in Nat /\ tokens \in 0..Capacity /\ now \in Nat
      /\ granted \in Nat /\ twice \in Nat
      /\ granted + tokens <= Capacity + Refill * (ts + twice)
  BY LimiterAssumption DEF LimiterInv, LimiterTypeOK, Account
<1>2. /\ Refill * (ts + twice) = Refill * ts + Refill * twice
      /\ Refill * ts \in Nat /\ Refill * twice \in Nat
  BY <1>1, RefillDistributes
<1>3. CASE LiveBucket(bucket) /\ now > ts
  <2>1. bucket # NoBucket
    BY <1>3, LimiterAssumption DEF LiveBucket, NoBucket, LimiterInv, LimiterTypeOK
  <2>2. counted = 0 /\ Elapsed(ts, now) = now - ts /\ now - ts \in Nat
    BY <1>1, <1>3, <2>1 DEF CountedTwice, Elapsed
  <2>3. /\ Refill * now = Refill * ts + Refill * (now - ts)
        /\ Refill * (now + twice) = Refill * now + Refill * twice
        /\ Refill * (now - ts) \in Nat /\ Refill * now \in Nat
    <3>1. ts + (now - ts) = now
      BY <1>1
    <3> QED
      BY <1>1, <2>2, <3>1, RefillDistributes
  <2>4. (now - ts) * Refill = Refill * (now - ts)
    BY <1>1, <2>2
  <2>5. Refilled(bucket, now) = IF tokens + Refill * (now - ts) < Capacity
                                THEN tokens + Refill * (now - ts) ELSE Capacity
    BY <1>3, <2>2, <2>4 DEF Refilled
  <2>6. twice + counted = twice
    BY <1>1, <2>2
  <2> QED
    BY <1>1, <1>2, <2>2, <2>3, <2>5, <2>6
<1>4. CASE LiveBucket(bucket) /\ ~(now > ts)
  <2>1. bucket # NoBucket
    BY <1>4, LimiterAssumption DEF LiveBucket, NoBucket, LimiterInv, LimiterTypeOK
  <2>2. counted = ts - now /\ counted \in Nat /\ Elapsed(ts, now) = 0
    BY <1>1, <1>4, <2>1 DEF CountedTwice, Elapsed
  <2>3. Refilled(bucket, now) = tokens
    <3>1. 0 * Refill = 0
      BY <1>1
    <3> QED
      BY <1>1, <1>4, <2>2, <3>1 DEF Refilled
  <2>4. now + (twice + counted) = ts + twice
    BY <1>1, <2>2
  <2> QED
    BY <1>1, <2>2, <2>3, <2>4
<1>5. CASE ~LiveBucket(bucket)
  <2>1. Refilled(bucket, now) = Capacity
    BY <1>5 DEF Refilled
  <2>2. CASE bucket = NoBucket
    <3>1. counted = 0 /\ ts = 0 /\ tokens = Capacity
      BY <2>2 DEF CountedTwice, NoBucket
    <3>2. ts + twice = twice /\ twice + counted = twice
      BY <1>1, <3>1
    <3>3. /\ Refill * (now + twice) = Refill * now + Refill * twice
          /\ Refill * now \in Nat
      BY <1>1, RefillDistributes
    <3> QED
      BY <1>1, <2>1, <3>1, <3>2, <3>3
  <2>3. CASE bucket # NoBucket
    <3> DEFINE full == ts + FillTime
    <3>1. /\ FillTime \in Nat /\ Capacity <= Refill * FillTime
          /\ Refill * FillTime \in Nat
      BY <1>1, FillTimeFills, RefillDistributes
    <3>2. counted = (IF full > now THEN full - now ELSE 0) /\ counted \in Nat /\ full \in Nat
      BY <1>1, <1>5, <2>3, <3>1 DEF CountedTwice, Elapsed
    <3>3. full + twice <= now + (twice + counted)
      BY <1>1, <3>2
    <3>4. /\ Refill * (full + twice) <= Refill * (now + (twice + counted))
          /\ Refill * (full + twice) = Refill * full + Refill * twice
          /\ Refill * full = Refill * ts + Refill * FillTime
          /\ Refill * (now + (twice + counted)) \in Nat
      <4>1. full + twice \in Nat /\ now + (twice + counted) \in Nat
        BY <1>1, <3>2
      <4>2. Refill * (full + twice) <= Refill * (now + (twice + counted))
        BY <3>3, <4>1, RefillDistributes
      <4>3. Refill * (full + twice) = Refill * full + Refill * twice
        BY <1>1, <3>2, RefillDistributes
      <4>4. Refill * full = Refill * ts + Refill * FillTime
        BY <1>1, <3>1, RefillDistributes
      <4>5. Refill * (now + (twice + counted)) \in Nat
        BY <4>1, RefillDistributes
      <4> QED
        BY <4>2, <4>3, <4>4, <4>5
    <3>5. granted <= Capacity + (Refill * ts + Refill * twice)
      BY <1>1, <1>2
    <3>6. Refill * full \in Nat
      BY <1>2, <3>1, <3>4
    <3> QED
      BY <1>1, <1>2, <2>1, <3>1, <3>2, <3>4, <3>5, <3>6
  <2> QED
    BY <2>2, <2>3
<1> QED
  BY <1>3, <1>4, <1>5

(* The worker's step: the script spends one of the refilled tokens or none.     *)
LEMMA RunScriptKeepsInv ==
    ASSUME LimiterInv, NEW g \in Callers, RunScript(g)
    PROVE  LimiterInv'
<1> DEFINE now == calls[g]
           held == Refilled(bucket, now)
           spent == IF held >= 1 THEN 1 ELSE 0
<1>1. now \in 0..MaxTicks /\ now <= lclock
  BY LimiterAssumption DEF LimiterInv, LimiterTypeOK, ClockStamps, RunScript, Calling, NoCall
<1>2. /\ held \in 0..Capacity /\ CountedTwice(bucket, now) \in Nat
      /\ granted + held <= Capacity + Refill * (now + (twice + CountedTwice(bucket, now)))
  BY <1>1, RefillKeepsAccount
<1>3. spent \in {0, 1} /\ held - spent \in 0..Capacity
  BY <1>2, LimiterAssumption
<1>4. /\ bucket' = Written(held - spent, now)
      /\ granted' = granted + spent
      /\ twice' = twice + CountedTwice(bucket, now)
      /\ calls' = [calls EXCEPT ![g] = NoCall]
      /\ lclock' = lclock
  BY DEF RunScript
<1>5. bucket' = [tokens |-> held - spent, ts |-> now, expires |-> lclock + FillTime + 1]
  BY <1>4 DEF Written
<1>6. LimiterTypeOK'
  <2>1. lclock + FillTime + 1 \in Nat
    BY FillTimeFills, LimiterAssumption DEF LimiterInv, LimiterTypeOK
  <2>2. bucket' \in [tokens : 0..Capacity, ts : 0..MaxTicks, expires : Nat]
    BY <1>1, <1>3, <1>5, <2>1
  <2>3. calls' \in [Callers -> 0..NoCall]
    BY <1>4, LimiterAssumption DEF LimiterInv, LimiterTypeOK, NoCall
  <2>4. granted' \in Nat /\ twice' \in Nat
    BY <1>2, <1>3, <1>4 DEF LimiterInv, LimiterTypeOK
  <2> QED
    BY <1>4, <2>2, <2>3, <2>4 DEF LimiterInv, LimiterTypeOK
<1>7. ClockStamps'
  <2>1. bucket'.ts <= lclock'
    BY <1>1, <1>4, <1>5
  <2>2. ASSUME NEW h \in Callers, Calling(h)' PROVE calls'[h] <= lclock'
    BY <1>4, <2>2 DEF LimiterInv, LimiterTypeOK, ClockStamps, Calling
  <2> QED
    BY <2>1, <2>2 DEF ClockStamps
<1>8. Account'
  <2>1. bucket'.tokens = held - spent /\ bucket'.ts = now
    BY <1>5
  <2>2. (granted + spent) + (held - spent) = granted + held
    BY <1>2, <1>3 DEF LimiterInv, LimiterTypeOK
  <2> QED
    BY <1>2, <1>4, <2>1, <2>2 DEF Account
<1> QED
  BY <1>6, <1>7, <1>8 DEF LimiterInv

(* The invariant holds in every reachable state of ratelimit.py's bucket.      *)
THEOREM LimiterInvariant == LimiterSpec => []LimiterInv
<1>1. LimiterInit => LimiterInv
  <2> SUFFICES ASSUME LimiterInit PROVE LimiterInv
    OBVIOUS
  <2>1. LimiterTypeOK /\ ClockStamps
    BY LimiterAssumption DEF LimiterInit, LimiterTypeOK, ClockStamps, NoBucket, NoCall, Calling
  <2>2. Refill * (0 + 0) = 0
    BY LimiterAssumption
  <2>3. Account
    BY <2>2, LimiterAssumption DEF LimiterInit, Account, NoBucket
  <2> QED
    BY <2>1, <2>3 DEF LimiterInv
<1>2. LimiterInv /\ [LimiterNext]_limiterVars => LimiterInv'
  <2> SUFFICES ASSUME LimiterInv, [LimiterNext]_limiterVars PROVE LimiterInv'
    OBVIOUS
  <2>1. ASSUME NEW g \in Callers, ReadClock(g) PROVE LimiterInv'
    <3>1. LimiterTypeOK'
      BY <2>1, LimiterAssumption DEF LimiterInv, LimiterTypeOK, ReadClock, NoCall
    <3>2. ClockStamps'
      BY <2>1 DEF LimiterInv, LimiterTypeOK, ClockStamps, ReadClock, Calling
    <3> QED
      BY <2>1, <3>1, <3>2 DEF LimiterInv, Account, ReadClock
  <2>2. ASSUME NEW g \in Callers, RunScript(g) PROVE LimiterInv'
    BY <2>2, RunScriptKeepsInv
  <2>3. ASSUME NEW g \in Callers, ScriptFails(g) PROVE LimiterInv'
    <3>1. LimiterTypeOK'
      BY <2>3, LimiterAssumption DEF LimiterInv, LimiterTypeOK, ScriptFails, NoCall
    <3>2. ClockStamps'
      BY <2>3 DEF LimiterInv, LimiterTypeOK, ClockStamps, ScriptFails, Calling
    <3> QED
      BY <2>3, <3>1, <3>2 DEF LimiterInv, Account, ScriptFails
  <2>4. CASE LimiterTick
    <3>1. LimiterTypeOK'
      BY <2>4, LimiterAssumption DEF LimiterInv, LimiterTypeOK, LimiterTick
    <3>2. ClockStamps'
      BY <2>4, LimiterAssumption DEF LimiterInv, LimiterTypeOK, ClockStamps, LimiterTick, Calling, NoCall
    <3> QED
      BY <2>4, <3>1, <3>2 DEF LimiterInv, Account, LimiterTick
  <2>5. CASE UNCHANGED limiterVars
    BY <2>5 DEF LimiterInv, LimiterTypeOK, ClockStamps, Account, Calling, limiterVars
  <2> QED
    BY <2>1, <2>2, <2>3, <2>4, <2>5 DEF LimiterNext
<1> QED
  BY <1>1, <1>2, PTL DEF LimiterSpec

(* The types: in particular the script never leaves more tokens than the       *)
(* capacity or fewer than none (ratelimit.py:45-54).                        *)
THEOREM LimiterTypeCorrect == LimiterSpec => []LimiterTypeOK
BY LimiterInvariant, PTL DEF LimiterInv

(* The workers together let through no more than the burst, the refill, and    *)
(* the refill of the time counted twice (ratelimit.py:37-59).                *)
THEOREM RateIsBounded == LimiterSpec => []RateBounded
<1>1. LimiterInv => RateBounded
  <2> SUFFICES ASSUME LimiterInv PROVE RateBounded
    OBVIOUS
  <2>1. /\ bucket.ts \in Nat /\ bucket.tokens \in Nat /\ lclock \in Nat
        /\ granted \in Nat /\ twice \in Nat /\ Capacity \in Nat
    BY LimiterAssumption DEF LimiterInv, LimiterTypeOK
  <2>2. /\ Refill * (bucket.ts + twice) <= Refill * (lclock + twice)
        /\ Refill * (bucket.ts + twice) \in Nat
        /\ Refill * (lclock + twice) \in Nat
    <3>1. bucket.ts + twice <= lclock + twice
      BY <2>1 DEF LimiterInv, ClockStamps
    <3>2. bucket.ts + twice \in Nat /\ lclock + twice \in Nat
      BY <2>1
    <3>3. ASSUME NEW a \in Nat, NEW b \in Nat, b <= a
          PROVE  Refill * b <= Refill * a /\ Refill * a \in Nat /\ Refill * b \in Nat
      BY <3>3, RefillDistributes
    <3> QED
      BY <3>1, <3>2, <3>3
  <2> QED
    BY <2>1, <2>2 DEF LimiterInv, Account, RateBounded
<1> QED
  BY <1>1, LimiterInvariant, PTL
----------------------------------------------------------------------------
(* The pages of the history.  What a client that has met no split page can rely on: *)
(* all it has been shown is newer than its cursor or at it, and what it has not      *)
(* been shown, of what was there at the start, is older.                        *)
HistoryShape ==
    /\ entries \in Seq([tenant : Tenants, stamp : Stamps])
    /\ walk \in {"fresh", "reading", "ended"}
    /\ began \in 0..Len(entries)
    /\ split \in BOOLEAN
    /\ walk = "fresh" => shown = << >> /\ cursor.position = NoPosition

InOrder ==
    /\ \A i \in DOMAIN shown : entries[shown[i]].tenant = Reader
    /\ \A i, j \in DOMAIN shown :
          i < j => shown[i] # shown[j] /\ StampOf(shown[i]) >= StampOf(shown[j])

ShownDown(position) ==
    /\ \A i \in DOMAIN shown : StampOf(shown[i]) >= position
    /\ \A n \in AtStart : StampOf(n) < position \/ \E i \in DOMAIN shown : shown[i] = n

WholePages ==
    ~split =>
        /\ shown \in Seq(1..Len(entries))
        /\ cursor.offset = 0
        /\ InOrder
        /\ walk = "reading" => cursor.position \in Nat /\ ShownDown(cursor.position)
        /\ walk = "ended" => \A n \in AtStart : \E i \in DOMAIN shown : shown[i] = n

LEMMA ListingIs ==
    ASSUME PagesAssumption, HistoryShape, NEW l \in Listings(Matching)
    PROVE  /\ l \in Seq(1..Len(entries))
           /\ \A i \in 1..Len(l) : l[i] \in Matching
           /\ \A i, j \in 1..Len(l) : i < j => l[i] # l[j] /\ StampOf(l[i]) >= StampOf(l[j])
           /\ \A n \in Matching : \E i \in 1..Len(l) : l[i] = n
<1> DEFINE k == Cardinality(Matching)
<1>1. Matching \subseteq 1..Len(entries)
  BY DEF Matching, HistoryShape
<1>2. IsFiniteSet(Matching) /\ k \in Nat
  <2>1. Len(entries) \in Nat
    BY DEF HistoryShape
  <2>2. IsFiniteSet(1..Len(entries))
    BY <2>1, FS_Interval
  <2> QED BY <1>1, <2>2, FS_Subset, FS_CardinalityType
<1>3. /\ l \in [1..k -> Matching]
      /\ \A i, j \in 1..k : l[i] = l[j] => i = j
      /\ \A n \in Matching : \E i \in 1..k : l[i] = n
  BY DEF Listings, Bijection, Injection, Surjection, IsInjective
<1>4. \A i, j \in DOMAIN l : i < j => StampOf(l[i]) >= StampOf(l[j])
  BY DEF Listings
<1> HIDE DEF k
<1>5. l \in Seq(1..Len(entries)) /\ Len(l) = k
  <2>1. \A i \in 1..k : l[i] \in 1..Len(entries)
    BY <1>1, <1>3
  <2>2. l \in [1..k -> 1..Len(entries)]
    BY <1>3, <2>1
  <2> QED BY <1>2, <2>2
<1> QED
  <2>1. DOMAIN l = 1..k
    BY <1>3
  <2>2. \A i, j \in 1..k : i < j => l[i] # l[j]
    BY <1>2, <1>3
  <2> QED BY <1>3, <1>4, <1>5, <2>1, <2>2

LEMMA PageIs ==
    ASSUME PagesAssumption, HistoryShape, cursor.offset = 0, NEW l \in Seq(1..Len(entries)),
           NEW m, m = IF Len(l) > PageSize THEN PageSize ELSE Len(l)
    PROVE  /\ Page(l) \in Seq(1..Len(entries))
           /\ Len(Page(l)) = m
           /\ \A i \in 1..m : Page(l)[i] = l[i]
<1>1. m \in Nat /\ m <= Len(l) /\ m <= PageSize /\ (m = PageSize \/ m = Len(l))
  BY DEF PagesAssumption
<1>2. Min({0 + PageSize, Len(l)}) = m
  <2>1. m \in {PageSize, Len(l)} /\ \A y \in {PageSize, Len(l)} : m =< y
    BY <1>1 DEF PagesAssumption
  <2>2. \A x \in {PageSize, Len(l)} : (\A y \in {PageSize, Len(l)} : x =< y) => x = m
    BY <1>1, <2>1 DEF PagesAssumption
  <2>3. 0 + PageSize = PageSize
    BY DEF PagesAssumption
  <2> QED BY <2>1, <2>2, <2>3 DEF Min
<1>3. Page(l) = SubSeq(l, 1, m)
  <2>1. Page(l) = SubSeq(l, 0 + 1, Min({0 + PageSize, Len(l)}))
    BY DEF Page
  <2>2. 0 + 1 = 1
    OBVIOUS
  <2> QED BY <1>2, <2>1, <2>2
<1>4. \A i \in 1..m : l[i] \in 1..Len(entries)
  BY <1>1
<1> QED BY <1>1, <1>3, <1>4, SubSeqProperties

(* A page that ends between two stamps leaves a position and no offset.         *)
LEMMA NextCursorIs ==
    ASSUME PagesAssumption, HistoryShape, cursor.offset = 0, NEW l,
           StampOf(l[PageSize]) # StampOf(l[PageSize + 1])
    PROVE  NextCursor(l) = [position |-> StampOf(l[PageSize]), offset |-> 0]
<1> DEFINE apart == {k \in 1..PageSize : StampOf(l[cursor.offset + k]) # Following(l)}
<1>1. 0 + PageSize = PageSize /\ PageSize \in 1..PageSize /\ PageSize - PageSize = 0
  BY DEF PagesAssumption
<1>2. Following(l) = StampOf(l[PageSize + 1])
  BY <1>1 DEF Following
<1>3. PageSize \in apart /\ apart \subseteq 1..PageSize
  BY <1>1, <1>2
<1> HIDE DEF apart
<1>4. Max(apart) = PageSize
  <2>1. \A y \in apart : y \in Nat /\ PageSize >= y
    BY <1>3 DEF PagesAssumption
  <2>2. \A x \in apart : (\A y \in apart : x >= y) => x = PageSize
    BY <1>3, <2>1 DEF PagesAssumption
  <2> QED BY <1>3, <2>1, <2>2 DEF Max
<1>5. apart # {}
  BY <1>3
<1>6. NextCursor(l) = IF apart = {}
                      THEN [cursor EXCEPT !.offset = @ + PageSize]
                      ELSE [position |-> StampOf(l[cursor.offset + Max(apart)]),
                            offset |-> PageSize - Max(apart)]
  BY DEF NextCursor, apart
<1> QED BY <1>1, <1>4, <1>5, <1>6
LEMMA ShapeStarts == PagesAssumption /\ HistoryInit => HistoryShape /\ WholePages
<1> SUFFICES ASSUME PagesAssumption, HistoryInit PROVE HistoryShape /\ WholePages
  OBVIOUS
<1>1. HistoryShape
  <2>1. Len(entries) = 0 /\ entries \in Seq([tenant : Tenants, stamp : Stamps])
    BY DEF HistoryInit
  <2>2. began \in 0..Len(entries)
    BY <2>1 DEF HistoryInit
  <2> QED BY <2>1, <2>2 DEF HistoryInit, HistoryShape
<1>2. WholePages
  BY DEF HistoryInit, WholePages, InOrder
<1> QED BY <1>1, <1>2

LEMMA CommitKeepsPages ==
    ASSUME PagesAssumption, HistoryShape, WholePages,
           NEW t \in Tenants, NEW s \in Stamps, CommitEntry(t, s)
    PROVE  HistoryShape' /\ WholePages'
<1>1. UNCHANGED <<cursor, shown, walk, began, split>>
  BY DEF CommitEntry
<1>2. /\ entries' \in Seq([tenant : Tenants, stamp : Stamps])
      /\ Len(entries') = Len(entries) + 1
      /\ \A n \in 1..Len(entries) : entries'[n] = entries[n]
  BY DEF CommitEntry, HistoryShape
<1>3. HistoryShape'
  <2>1. Len(entries) \in Nat
    BY DEF HistoryShape
  <2>3. began' \in 0..Len(entries')
    BY <1>1, <1>2, <2>1 DEF HistoryShape
  <2> QED BY <1>1, <1>2, <2>3 DEF HistoryShape
<1>4. \A n \in 1..Len(entries) : StampOf(n)' = StampOf(n) /\ entries'[n].tenant = entries[n].tenant
  BY <1>2 DEF StampOf
<1>5. ~split => \A i \in DOMAIN shown : shown[i] \in 1..Len(entries)
  BY DEF WholePages
<1>6. AtStart' = AtStart /\ \A n \in AtStart : n \in 1..Len(entries)
  <2>1. \A n \in 1..began : n \in 1..Len(entries)
    BY DEF HistoryShape
  <2> QED BY <1>1, <1>4, <2>1 DEF AtStart
<1>7. WholePages'
  <2> SUFFICES ASSUME ~split PROVE
                 /\ shown' \in Seq(1..Len(entries'))
                 /\ cursor'.offset = 0
                 /\ InOrder'
                 /\ walk' = "reading" => cursor'.position \in Nat /\ ShownDown(cursor.position)'
                 /\ walk' = "ended" => \A n \in AtStart' : \E i \in DOMAIN shown' : shown'[i] = n
    BY <1>1 DEF WholePages
  <2>1. shown' \in Seq(1..Len(entries')) /\ cursor'.offset = 0
    <3>1. shown \in Seq(1..Len(entries)) /\ Len(entries) \in Nat
      BY DEF WholePages, HistoryShape
    <3>2. \A i \in 1..Len(shown) : shown[i] \in 1..(Len(entries) + 1)
      BY <3>1
    <3>3. shown \in Seq(1..(Len(entries) + 1))
      BY <3>1, <3>2
    <3> QED BY <1>1, <1>2, <3>3 DEF WholePages
  <2>2. InOrder'
    <3>1. InOrder
      BY DEF WholePages
    <3>2. \A i \in DOMAIN shown : entries'[shown[i]].tenant = Reader
      BY <1>4, <1>5, <3>1 DEF InOrder
    <3>3. \A i, j \in DOMAIN shown :
             i < j => shown[i] # shown[j] /\ StampOf(shown[i])' >= StampOf(shown[j])'
      <4>1. \A i \in DOMAIN shown : StampOf(shown[i])' = StampOf(shown[i])
        BY <1>1, <1>2, <1>5 DEF StampOf
      <4> QED BY <3>1, <4>1 DEF InOrder
    <3> QED BY <1>1, <3>2, <3>3 DEF InOrder
  <2>3. walk' = "reading" => cursor'.position \in Nat /\ ShownDown(cursor.position)'
    <3> SUFFICES ASSUME walk = "reading" PROVE cursor.position \in Nat /\ ShownDown(cursor.position)'
      BY <1>1
    <3>1. cursor.position \in Nat /\ ShownDown(cursor.position)
      BY DEF WholePages
    <3>2. \A i \in DOMAIN shown : StampOf(shown[i])' >= cursor.position
      <4>1. \A i \in DOMAIN shown : StampOf(shown[i])' = StampOf(shown[i])
        BY <1>1, <1>2, <1>5 DEF StampOf
      <4> QED BY <3>1, <4>1 DEF ShownDown
    <3>3. \A n \in AtStart' : StampOf(n)' < cursor.position \/ \E i \in DOMAIN shown : shown[i] = n
      BY <1>4, <1>6, <3>1 DEF ShownDown
    <3> QED BY <1>1, <3>1, <3>2, <3>3 DEF ShownDown
  <2>4. walk' = "ended" => \A n \in AtStart' : \E i \in DOMAIN shown' : shown'[i] = n
    BY <1>1, <1>6 DEF WholePages
  <2> QED BY <2>1, <2>2, <2>3, <2>4
<1> QED BY <1>3, <1>7

LEMMA ReadKeepsPages ==
    ASSUME PagesAssumption, HistoryShape, WholePages, walk # "ended",
           NEW l \in Listings(Matching), ReadPage(l)
    PROVE  WholePages'
<1> SUFFICES ASSUME ~split' PROVE
               /\ shown' \in Seq(1..Len(entries'))
               /\ cursor'.offset = 0
               /\ InOrder'
               /\ walk' = "reading" => cursor'.position \in Nat /\ ShownDown(cursor.position)'
               /\ walk' = "ended" => \A n \in AtStart' : \E i \in DOMAIN shown' : shown'[i] = n
  BY DEF WholePages
<1> DEFINE m == IF Len(l) > PageSize THEN PageSize ELSE Len(l)
           N == Len(shown)
<1>1. ~split /\ cursor.offset = 0 /\ InOrder
  BY DEF ReadPage, WholePages
<1>2. /\ walk = "fresh" => shown = << >> /\ cursor.position = NoPosition
      /\ walk = "reading" => cursor.position \in Nat /\ ShownDown(cursor.position)
      /\ walk \in {"fresh", "reading"}
  BY <1>1 DEF HistoryShape, WholePages, ReadPage
<1>3. /\ l \in Seq(1..Len(entries))
      /\ \A i \in 1..Len(l) : l[i] \in Matching
      /\ \A i, j \in 1..Len(l) : i < j => l[i] # l[j] /\ StampOf(l[i]) >= StampOf(l[j])
      /\ \A n \in Matching : \E i \in 1..Len(l) : l[i] = n
  BY ListingIs
<1>4. m \in Nat /\ m <= Len(l) /\ m <= PageSize /\ PageSize \in Nat /\ PageSize > 0 /\ Len(l) \in Nat
  BY <1>3 DEF PagesAssumption
<1>5. entries' = entries /\ shown' = shown \o Page(l)
  BY DEF ReadPage
<1>6. \A n : StampOf(n)' = StampOf(n)
  BY <1>5 DEF StampOf
<1>7. N \in Nat /\ shown \in Seq(1..Len(entries)) /\ DOMAIN shown = 1..N
  BY <1>1 DEF WholePages
<1>8. \A n \in 1..Len(entries) : StampOf(n) \in Nat
  <2>1. entries \in Seq([tenant : Tenants, stamp : Stamps])
    BY DEF HistoryShape
  <2>2. \A n \in 1..Len(entries) : entries[n] \in [tenant : Tenants, stamp : Stamps]
    <3>1. \A R : entries \in Seq(R) => \A n \in 1..Len(entries) : entries[n] \in R
      OBVIOUS
    <3> QED BY <2>1, <3>1
  <2>3. \A n \in 1..Len(entries) : entries[n].stamp \in Stamps
    BY <2>2
  <2> QED BY <2>3 DEF StampOf, PagesAssumption
<1> DEFINE later == Len(l) > PageSize
<1>9. later <=> HasNext(l)
  BY <1>1, <1>4 DEF HasNext
<1>10. /\ shown' \in Seq(1..Len(entries))
       /\ DOMAIN shown' = 1..(N + m)
       /\ \A i \in 1..N : shown'[i] = shown[i]
       /\ \A i \in 1..m : shown'[N + i] = l[i]
  <2>1. /\ Page(l) \in Seq(1..Len(entries))
        /\ Len(Page(l)) = m
        /\ \A i \in 1..m : Page(l)[i] = l[i]
    BY <1>1, <1>3, PageIs
  <2>2. PICK p : p = Page(l)
    OBVIOUS
  <2> HIDE DEF m, N
  <2>3. /\ p \in Seq(1..Len(entries)) /\ Len(p) = m /\ shown' = shown \o p
        /\ \A i \in 1..m : p[i] = l[i]
    BY <1>5, <2>1, <2>2
  <2>4. /\ shown \o p \in Seq(1..Len(entries))
        /\ Len(shown \o p) = N + m
        /\ \A i \in 1..(N + m) : (shown \o p)[i] = IF i <= N THEN shown[i] ELSE p[i - N]
    BY <1>7, <2>3, ConcatProperties DEF N
  <2>5. \A i \in 1..N : i \in 1..(N + m) /\ i <= N
    BY <1>4, <1>7
  <2>6. \A i \in 1..m : N + i \in 1..(N + m) /\ ~(N + i <= N) /\ N + i - N = i
    BY <1>4, <1>7
  <2>7. \A i \in 1..N : shown'[i] = shown[i]
    BY <2>3, <2>4, <2>5
  <2>8. \A i \in 1..m : shown'[N + i] = l[i]
    <3> SUFFICES ASSUME NEW i \in 1..m PROVE shown'[N + i] = l[i]
      OBVIOUS
    <3>1. PICK k : k = N + i
      OBVIOUS
    <3>2. k \in 1..(N + m) /\ ~(k <= N) /\ k - N = i
      BY <1>4, <1>7, <3>1
    <3>3. (shown \o p)[k] = p[k - N]
      BY <2>4, <3>2
    <3> QED BY <2>3, <3>1, <3>2, <3>3
  <2>9. shown' \in Seq(1..Len(entries)) /\ DOMAIN shown' = 1..(N + m)
    BY <2>3, <2>4
  <2> QED BY <2>7, <2>8, <2>9
<1> HIDE DEF m, N, later
<1>11. \A i \in 1..m : l[i] \in Matching /\ i \in 1..Len(l)
  BY <1>3, <1>4
<1>12. \A i \in 1..N, j \in 1..m :
          StampOf(shown[i]) > StampOf(l[j]) /\ shown[i] # l[j]
  <2> SUFFICES ASSUME NEW i \in 1..N, NEW j \in 1..m
               PROVE  StampOf(shown[i]) > StampOf(l[j])
    <3>1. ASSUME NEW i \in 1..N, NEW j \in 1..m PROVE StampOf(shown[i]) \in Nat
      BY <1>7, <1>8
    <3>2. \A x \in Nat : ~(x > x)
      OBVIOUS
    <3> QED BY <3>1, <3>2
  <2>1. walk = "reading"
    <3>1. ASSUME walk = "fresh" PROVE FALSE
      <4>1. N = 0
        BY <1>2, <3>1 DEF N
      <4> QED BY <4>1
    <3> QED BY <1>2, <3>1
  <2>2. cursor.position \in Nat /\ StampOf(shown[i]) >= cursor.position
    BY <1>2, <1>7, <2>1 DEF ShownDown
  <2>3. StampOf(l[j]) < cursor.position
    BY <1>11, <2>2 DEF Matching, PagesAssumption
  <2>4. StampOf(shown[i]) \in Nat /\ StampOf(l[j]) \in Nat
    BY <1>3, <1>7, <1>8, <1>11
  <2> QED BY <2>2, <2>3, <2>4
<1>13. \A k \in 1..(N + m) : k \in 1..N \/ \E i \in 1..m : k = N + i
  <2> SUFFICES ASSUME NEW k \in 1..(N + m), k \notin 1..N PROVE \E i \in 1..m : k = N + i
    OBVIOUS
  <2>1. k - N \in 1..m /\ k = N + (k - N)
    BY <1>4, <1>7
  <2> QED BY <2>1
<1>14. InOrder'
  <2>1. ASSUME NEW k \in DOMAIN shown' PROVE entries[shown'[k]].tenant = Reader
    <3>1. CASE k \in 1..N
      BY <1>1, <1>7, <1>10, <3>1 DEF InOrder
    <3>2. CASE \E i \in 1..m : k = N + i
      BY <1>10, <1>11, <3>2 DEF Matching
    <3> QED BY <1>10, <1>13, <3>1, <3>2
  <2>2. ASSUME NEW k \in DOMAIN shown', NEW h \in DOMAIN shown', k < h
        PROVE  shown'[k] # shown'[h] /\ StampOf(shown'[k]) >= StampOf(shown'[h])
    <3>1. CASE k \in 1..N /\ h \in 1..N
      BY <1>1, <1>7, <1>10, <3>1, <2>2 DEF InOrder
    <3>2. CASE k \in 1..N /\ \E i \in 1..m : h = N + i
      <4>1. PICK i \in 1..m : h = N + i
        BY <3>2
      <4>2. StampOf(shown[k]) \in Nat /\ StampOf(l[i]) \in Nat
        BY <1>3, <1>7, <1>8, <1>11, <3>2
      <4>3. shown'[k] = shown[k] /\ shown'[h] = l[i]
        BY <1>10, <3>2, <4>1
      <4>4. StampOf(shown[k]) > StampOf(l[i]) /\ shown[k] # l[i]
        BY <1>12, <3>2
      <4> QED BY <4>2, <4>3, <4>4
    <3>3. CASE (\E i \in 1..m : k = N + i) /\ (\E i \in 1..m : h = N + i)
      <4>1. PICK i \in 1..m : k = N + i
        BY <3>3
      <4>2. PICK j \in 1..m : h = N + j
        BY <3>3
      <4>3. i < j
        BY <1>4, <1>7, <2>2, <4>1, <4>2
      <4>4. shown'[k] = l[i] /\ shown'[h] = l[j]
        BY <1>10, <4>1, <4>2
      <4> QED BY <1>3, <1>11, <4>3, <4>4
    <3>4. ~((\E i \in 1..m : k = N + i) /\ h \in 1..N)
      BY <1>4, <1>7, <2>2
    <3> QED BY <1>10, <1>13, <3>1, <3>2, <3>3, <3>4
  <2> QED BY <1>5, <1>6, <2>1, <2>2 DEF InOrder
<1>15. AtStart' = IF walk = "fresh" THEN {n \in 1..Len(entries) : entries[n].tenant = Reader} ELSE AtStart
  BY <1>5 DEF AtStart, ReadPage
<1>16. \A n \in AtStart' : n \in Matching \/ \E i \in 1..N : shown[i] = n
  <2> SUFFICES ASSUME NEW n \in AtStart' PROVE n \in Matching \/ \E i \in 1..N : shown[i] = n
    OBVIOUS
  <2>1. CASE walk = "fresh"
    <3>1. n \in 1..Len(entries) /\ entries[n].tenant = Reader
      BY <1>15, <2>1
    <3>2. cursor.position = NoPosition
      BY <1>2, <2>1
    <3>3. DOMAIN entries = 1..Len(entries)
      BY DEF HistoryShape
    <3> QED BY <3>1, <3>2, <3>3 DEF Matching
  <2>2. CASE walk = "reading"
    <3>1. n \in AtStart
      BY <1>15, <2>2
    <3>2. n \in 1..Len(entries) /\ entries[n].tenant = Reader
      BY <3>1 DEF AtStart, HistoryShape
    <3>3. StampOf(n) < cursor.position \/ \E i \in 1..N : shown[i] = n
      BY <1>2, <1>7, <2>2, <3>1 DEF ShownDown
    <3>4. DOMAIN entries = 1..Len(entries)
      BY DEF HistoryShape
    <3> QED BY <3>2, <3>3, <3>4 DEF Matching
  <2> QED BY <1>2, <2>1, <2>2
<1>17. \A n \in Matching : (\E i \in 1..m : l[i] = n) => \E i \in 1..(N + m) : shown'[i] = n
  <2> SUFFICES ASSUME NEW n \in Matching, NEW i \in 1..m, l[i] = n
               PROVE  \E k \in 1..(N + m) : shown'[k] = n
    OBVIOUS
  <2>1. N + i \in 1..(N + m) /\ shown'[N + i] = n
    BY <1>4, <1>7, <1>10
  <2> QED BY <2>1
<1>18. \A i \in 1..N : i \in 1..(N + m) /\ shown'[i] = shown[i]
  BY <1>4, <1>7, <1>10
<1>19. CASE later
  <2>1. m = PageSize /\ PageSize \in 1..Len(l) /\ PageSize + 1 \in 1..Len(l)
    BY <1>4, <1>19 DEF m, later
  <2>2. StampOf(l[PageSize]) # StampOf(l[PageSize + 1])
    <3>1. 0 + PageSize = PageSize
      BY <1>4
    <3>2. HasNext(l) /\ ~(HasNext(l) /\ StampOf(l[0 + PageSize]) = StampOf(l[0 + PageSize + 1]))
      BY <1>1, <1>9, <1>19 DEF ReadPage, Following
    <3> QED BY <3>1, <3>2
  <2>3. cursor' = [position |-> StampOf(l[PageSize]), offset |-> 0] /\ walk' = "reading"
    <3>1. NextCursor(l) = [position |-> StampOf(l[PageSize]), offset |-> 0]
      BY <1>1, <2>2, NextCursorIs
    <3> QED BY <1>9, <1>19, <3>1 DEF ReadPage
  <2>4. StampOf(l[PageSize]) \in Nat /\ \A i \in 1..Len(l) : StampOf(l[i]) \in Nat
    BY <1>3, <1>8, <2>1
  <2>5. \A i \in 1..m : StampOf(l[i]) >= StampOf(l[PageSize])
    <3> SUFFICES ASSUME NEW i \in 1..m PROVE StampOf(l[i]) >= StampOf(l[PageSize])
      OBVIOUS
    <3>1. i = PageSize \/ i < PageSize
      BY <1>4, <2>1
    <3> QED BY <1>3, <1>11, <2>1, <2>4, <3>1
  <2>6. \A i \in 1..Len(l) : i \notin 1..m => StampOf(l[i]) < StampOf(l[PageSize])
    <3> SUFFICES ASSUME NEW i \in 1..Len(l), i \notin 1..m PROVE StampOf(l[i]) < StampOf(l[PageSize])
      OBVIOUS
    <3>1. i = PageSize + 1 \/ PageSize + 1 < i
      BY <1>4, <2>1
    <3>2. StampOf(l[PageSize + 1]) >= StampOf(l[i])
      BY <1>3, <2>1, <2>4, <3>1
    <3>3. StampOf(l[PageSize]) >= StampOf(l[PageSize + 1])
      <4>1. PageSize < PageSize + 1
        BY <1>4
      <4> QED BY <1>3, <2>1, <4>1
    <3> QED BY <2>1, <2>2, <2>4, <3>2, <3>3
  <2>7. \A k \in 1..(N + m) : StampOf(shown'[k]) >= StampOf(l[PageSize])
    <3> SUFFICES ASSUME NEW k \in 1..(N + m) PROVE StampOf(shown'[k]) >= StampOf(l[PageSize])
      OBVIOUS
    <3>1. CASE k \in 1..N
      <4>1. StampOf(shown[k]) > StampOf(l[PageSize])
        BY <1>4, <1>12, <2>1, <3>1
      <4>2. StampOf(shown[k]) \in Nat
        BY <1>7, <1>8, <3>1
      <4> QED BY <1>10, <2>4, <3>1, <4>1, <4>2
    <3>2. CASE \E i \in 1..m : k = N + i
      BY <1>10, <2>5, <3>2
    <3> QED BY <1>13, <3>1, <3>2
  <2>8. \A n \in AtStart' : StampOf(n) < StampOf(l[PageSize]) \/ \E i \in 1..(N + m) : shown'[i] = n
    <3> SUFFICES ASSUME NEW n \in AtStart', n \in Matching
                 PROVE  StampOf(n) < StampOf(l[PageSize]) \/ \E i \in 1..(N + m) : shown'[i] = n
      BY <1>16, <1>18
    <3>1. PICK i \in 1..Len(l) : l[i] = n
      BY <1>3
    <3> QED BY <1>17, <2>6, <3>1
  <2>9. ShownDown(cursor.position)'
    <3>1. cursor'.position = StampOf(l[PageSize])
      BY <2>3
    <3> QED BY <1>6, <1>10, <2>7, <2>8, <3>1 DEF ShownDown
  <2> QED BY <1>5, <1>10, <1>14, <2>3, <2>4, <2>9
<1>20. CASE ~later
  <2>1. m = Len(l)
    BY <1>20 DEF m, later
  <2>2. cursor' = cursor /\ walk' = "ended"
    BY <1>9, <1>20 DEF ReadPage
  <2>3. \A n \in AtStart' : \E i \in 1..(N + m) : shown'[i] = n
    BY <1>3, <1>16, <1>17, <1>18, <2>1
  <2> QED BY <1>1, <1>5, <1>10, <1>14, <2>2, <2>3
<1> QED BY <1>19, <1>20

LEMMA ReadKeepsShape ==
    ASSUME HistoryShape, NEW l \in Listings(Matching), ReadPage(l)
    PROVE  HistoryShape'
<1>1. entries' = entries /\ began' \in {began, Len(entries)}
  BY DEF ReadPage
<1>2. walk' \in {"reading", "ended"} /\ split' \in BOOLEAN
  BY DEF ReadPage, HistoryShape
<1> QED BY <1>1, <1>2 DEF HistoryShape

(* "Stable under inserts" holds for every page size, any number of entries, tenants   *)
(* and stamps, and every order the database may list equal stamps in, as long as no   *)
(* page has ended between two entries of one stamp (ledger/views.py:22-36,63-75).     *)
THEOREM PagesAreStable == HistorySpec => []PagesStable
<1> USE PagesAssumption
<1>1. HistoryInit => HistoryShape /\ WholePages
  BY ShapeStarts
<1>2. HistoryShape /\ WholePages /\ [HistoryNext]_historyVars => (HistoryShape /\ WholePages)'
  <2> SUFFICES ASSUME HistoryShape, WholePages, [HistoryNext]_historyVars
               PROVE  HistoryShape' /\ WholePages'
    OBVIOUS
  <2>1. CASE \E t \in Tenants, s \in Stamps : CommitEntry(t, s)
    BY <2>1, CommitKeepsPages
  <2>2. CASE walk # "ended" /\ \E l \in Listings(Matching) : ReadPage(l)
    BY <2>2, ReadKeepsPages, ReadKeepsShape
  <2>3. CASE UNCHANGED historyVars
    <3>1. UNCHANGED <<entries, cursor, shown, walk, began, split>>
      BY <2>3 DEF historyVars
    <3> QED BY <3>1 DEF HistoryShape, WholePages, InOrder, ShownDown, AtStart, StampOf
  <2> QED BY <2>1, <2>2, <2>3 DEF HistoryNext
<1>3. HistoryShape /\ WholePages => PagesStable
  BY DEF WholePages, InOrder, PagesStable
<1> QED BY <1>1, <1>2, <1>3, PTL DEF HistorySpec
=============================================================================

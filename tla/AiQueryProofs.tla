----------------------------- MODULE AiQueryProofs -----------------------------
(***************************************************************************)
(* Proofs about the AI service's threads, for any number of them, any chain of *)
(* providers and every capacity, refill, threshold and cooldown: what the       *)
(* unlocked buckets and breakers can still promise.                         *)
(***************************************************************************)
EXTENDS AiQuery, FiniteSetTheorems, SequenceTheorems, WellFoundedInduction, TLAPS

Requests == [tenant : Tenants \cup {NoRequest.tenant}, question : Questions \cup {NoRequest.question},
             began : 0..MaxTime]

(* The variables that AiTypeOK leaves out.                                  *)
Shape ==
    /\ AiTypeOK
    /\ qreq \in [Threads -> Requests]
    /\ qbucket \in [Threads -> [tokens : 0..Capacity, ts : 0..MaxTime]]
    /\ spent \in [Tenants -> Nat]
    /\ undone \in [Tenants -> Nat]
    /\ spentThen \in [Threads -> Nat]
    /\ failedAt \in [Providers -> (-1)..MaxTime]

(* What a thread read from the clock lies behind its query's arrival.         *)
ClocksOK ==
    /\ \A t \in Threads : qclock[t] <= now
    /\ \A t \in Threads : qpc[t] # "idle" =>
            Cooldown <= qreq[t].began /\ qreq[t].began <= qclock[t]

(* s queries let through and the tokens of bucket b are paid for by the burst,   *)
(* the refill up to b's time stamp and what was undone.                      *)
Paid(s, b, a) ==
    /\ Cooldown <= b.ts /\ b.ts <= now
    /\ s + b.tokens <= Capacity + Refill * (b.ts - Cooldown) + undone[a]

BucketsOK ==
    /\ \A a \in Tenants : a \notin DOMAIN buckets => spent[a] = 0
    /\ \A a \in DOMAIN buckets : Paid(spent[a], buckets[a], a)

(* So was the copy of it that a thread holds, when the thread read it.          *)
CopiesOK ==
    \A t \in Threads : qpc[t] = "spend" =>
        /\ spentThen[t] <= spent[qreq[t].tenant]
        /\ Paid(spentThen[t], qbucket[t], qreq[t].tenant)

(* A breaker was never opened later than its provider last failed.             *)
StampsOK ==
    /\ \A p \in Providers : failedAt[p] <= now
    /\ \A p \in Providers : breakers[p].openedAt = 0 \/ breakers[p].openedAt <= failedAt[p]
    /\ \A t \in Threads : qpc[t] = "stamp" => qclock[t] <= failedAt[Provider(t)]

(* The provider failed during a query that began then, or shortly before.       *)
OutFor(p, began) == failedAt[p] >= 0 /\ failedAt[p] + Cooldown >= began

(* Every provider a thread has left behind was out for its query.              *)
ChainOK ==
    /\ \A t \in Threads : qpc[t] \in {"idle", "limit", "spend"} => qnth[t] = 1
    /\ \A t \in Threads : \A n \in DOMAIN Chain :
            n < qnth[t] \/ qpc[t] = "failed" => OutFor(Chain[n], qreq[t].began)

AiInv == Shape /\ ClocksOK /\ BucketsOK /\ CopiesOK /\ StampsOK /\ ChainOK

----------------------------------------------------------------------------
(* The chain is never empty: _build_providers falls back to the mock.          *)
LEMMA ChainShape ==
    /\ Len(Chain) \in Nat \ {0}
    /\ DOMAIN Chain = 1..Len(Chain)
    /\ \A n \in DOMAIN Chain : Chain[n] \in Providers
<1> DEFINE usable == {n \in DOMAIN ProviderOrder :
                          ProviderOrder[n] \in {"mock"} \cup (ProviderKeys \cap {"claude", "openai"})}
           place(k) == CHOOSE n \in usable : Cardinality({m \in usable : m < n}) = k - 1
           picked == [k \in 1..Cardinality(usable) |-> ProviderOrder[place(k)]]
<1>1. Cardinality(usable) \in Nat /\ (Cardinality(usable) = 0 <=> usable = {})
  <2>1. DOMAIN ProviderOrder = 1..Len(ProviderOrder) /\ Len(ProviderOrder) \in Nat
    BY AiAssumption
  <2>2. IsFiniteSet(1..Len(ProviderOrder))
    BY <2>1, FS_Interval
  <2>3. IsFiniteSet(usable)
    <3>1. usable \subseteq DOMAIN ProviderOrder
      OBVIOUS
    <3> HIDE DEF usable
    <3> QED BY <2>1, <2>2, <3>1, FS_Subset
  <2> HIDE DEF usable
  <2> QED BY <2>3, FS_CardinalityType, FS_EmptySet
<1>2. Chain = IF usable = {} THEN <<"mock">> ELSE picked
  BY DEF Chain
<1>3. Len(Chain) \in Nat \ {0} /\ DOMAIN Chain = 1..Len(Chain)
  <2>1. CASE usable = {}
    <3>1. Chain = <<"mock">>
      BY <1>2, <2>1
    <3> HIDE DEF usable, picked
    <3> QED BY <3>1
  <2>2. CASE usable # {}
    <3> DEFINE c == Cardinality(usable)
    <3>1. Chain = picked /\ c \in Nat \ {0} /\ DOMAIN picked = 1..c
      BY <1>1, <1>2, <2>2
    <3>2. Len(picked) = c
      <4> DEFINE S == {picked[k] : k \in 1..c}
      <4>1. picked \in [1..c -> S]
        BY <3>1
      <4> HIDE DEF picked, c, S
      <4>2. picked \in Seq(S)
        BY <3>1, <4>1
      <4>3. Len(picked) \in Nat /\ DOMAIN picked = 1..Len(picked)
        BY <4>2, LenProperties
      <4> QED BY <3>1, <4>3
    <3> HIDE DEF picked, c
    <3> QED BY <3>1, <3>2
  <2> QED BY <2>1, <2>2
<1>4. \A n \in DOMAIN Chain : Chain[n] \in Providers
  BY DEF Providers
<1> QED BY <1>3, <1>4

LEMMA InitInv == AiInit => AiInv
<1> SUFFICES ASSUME AiInit PROVE AiInv
  OBVIOUS
<1>1. Shape
  <2>1. NewBreaker \in Breakers
    BY BreakerAssumption DEF NewBreaker, Breakers, BreakerStates
  <2>2. AiTypeOK
    BY <2>1, ChainShape, AiAssumption, BreakerAssumption DEF AiInit, AiTypeOK, Steps
  <2>3. FullBucket(0) \in [tokens : 0..Capacity, ts : 0..MaxTime] /\ NoRequest \in Requests
    BY AiAssumption DEF FullBucket, NoRequest, Requests
  <2> QED BY <2>2, <2>3, AiAssumption DEF AiInit, Shape
<1>2. ClocksOK
  BY AiAssumption, BreakerAssumption DEF AiInit, ClocksOK
<1>3. BucketsOK /\ CopiesOK
  BY DEF AiInit, BucketsOK, CopiesOK
<1>4. StampsOK
  BY BreakerAssumption DEF AiInit, StampsOK, NewBreaker
<1>5. ChainOK
  BY ChainShape DEF AiInit, ChainOK
<1> QED BY <1>1, <1>2, <1>3, <1>4, <1>5 DEF AiInv

(* What the breaker's operations make of a breaker.                          *)
LEMMA BreakerTypes ==
    ASSUME NEW b \in Breakers
    PROVE  /\ Succeeded(b) \in Breakers /\ Succeeded(b).openedAt = b.openedAt
           /\ [b EXCEPT !.state = "half_open"] \in Breakers
           /\ [b EXCEPT !.state = "half_open"].openedAt = b.openedAt
           /\ \A c \in Nat : /\ [b EXCEPT !.openedAt = c] \in Breakers
                             /\ [b EXCEPT !.openedAt = c].openedAt = c
           /\ \A c \in Nat : Failed(b, c) \in Breakers
           /\ b.openedAt \in Nat
<1>1. /\ b \in [state : BreakerStates, failures : 0..Threshold, openedAt : Nat]
      /\ b.state = "closed" => b.failures < Threshold
      /\ Threshold \in Nat \ {0}
  BY BreakerAssumption DEF Breakers
<1>2. Succeeded(b) \in Breakers /\ Succeeded(b).openedAt = b.openedAt
  BY <1>1 DEF Succeeded, Breakers, BreakerStates
<1>3. /\ [b EXCEPT !.state = "half_open"] \in Breakers
      /\ [b EXCEPT !.state = "half_open"].openedAt = b.openedAt
  BY <1>1 DEF Breakers, BreakerStates
<1>4. ASSUME NEW c \in Nat
      PROVE  [b EXCEPT !.openedAt = c] \in Breakers /\ [b EXCEPT !.openedAt = c].openedAt = c
  BY <1>1 DEF Breakers
<1>5. ASSUME NEW c \in Nat PROVE Failed(b, c) \in Breakers
  BY <1>1 DEF Failed, Breakers, BreakerStates
<1> QED BY <1>1, <1>2, <1>3, <1>4, <1>5

----------------------------------------------------------------------------
(* Time passes: what was read stays behind the clock.                        *)
LEMMA TickKeeps == ASSUME AiInv, Tick PROVE AiInv'
<1>1. /\ now \in Cooldown..MaxTime /\ now < MaxTime /\ now' = now + 1
      /\ Cooldown \in Nat /\ MaxTime \in Nat
      /\ UNCHANGED <<qpc, qreq, qclock, received, buckets, qbucket, spent, undone, spentThen,
                     breakers, qnth, history, failedAt>>
  BY AiAssumption, BreakerAssumption DEF AiInv, Shape, AiTypeOK, Tick, limitVars, chainVars
<1>2. Shape'
  BY <1>1 DEF AiInv, Shape, AiTypeOK
<1>3. ClocksOK'
  BY <1>1 DEF AiInv, Shape, AiTypeOK, ClocksOK
<1>4. BucketsOK' /\ CopiesOK'
  BY <1>1 DEF AiInv, Shape, AiTypeOK, BucketsOK, CopiesOK, Paid
<1>5. StampsOK'
  BY <1>1 DEF AiInv, Shape, AiTypeOK, StampsOK, Provider
<1>6. ChainOK'
  BY <1>1 DEF AiInv, ChainOK, OutFor
<1> QED BY <1>2, <1>3, <1>4, <1>5, <1>6 DEF AiInv

(* A query comes in: nothing is behind it yet.                              *)
LEMMA ReceiveKeeps == ASSUME AiInv, NEW t \in Threads, Receive(t) PROVE AiInv'
<1>1. PICK a \in Tenants, q \in Questions :
           qreq' = [qreq EXCEPT ![t] = [tenant |-> a, question |-> q, began |-> now]]
  BY DEF Receive
<1>2. /\ qpc[t] = "idle" /\ received < MaxQueries /\ received' = received + 1
      /\ qclock' = [qclock EXCEPT ![t] = now] /\ qpc' = [qpc EXCEPT ![t] = "limit"]
      /\ UNCHANGED <<now, buckets, qbucket, spent, undone, spentThen,
                     breakers, qnth, history, failedAt>>
  BY DEF Receive, At, Goto, ReadTime, limitVars, chainVars
<1>3. /\ now \in Cooldown..MaxTime /\ Cooldown \in Nat /\ MaxTime \in Nat
      /\ qpc \in [Threads -> Steps] /\ qclock \in [Threads -> 0..MaxTime]
      /\ qreq \in [Threads -> Requests] /\ received \in 0..MaxQueries /\ MaxQueries \in Nat
  BY AiAssumption, BreakerAssumption DEF AiInv, Shape, AiTypeOK
<1>4. Shape'
  <2>1. [tenant |-> a, question |-> q, began |-> now] \in Requests
    BY <1>3 DEF Requests
  <2>2. AiTypeOK'
    BY <1>1, <1>2, <1>3 DEF AiInv, Shape, AiTypeOK, Steps
  <2> QED BY <1>1, <1>2, <1>3, <2>1, <2>2 DEF AiInv, Shape
<1>5. ClocksOK'
  BY <1>1, <1>2, <1>3 DEF AiInv, ClocksOK
<1>6. BucketsOK' /\ CopiesOK'
  BY <1>1, <1>2, <1>3 DEF AiInv, BucketsOK, CopiesOK, Paid
<1>7. StampsOK'
  BY <1>1, <1>2, <1>3 DEF AiInv, StampsOK, Provider
<1>8. ChainOK'
  BY <1>1, <1>2, <1>3, ChainShape DEF AiInv, ChainOK, OutFor
<1> QED BY <1>4, <1>5, <1>6, <1>7, <1>8 DEF AiInv

----------------------------------------------------------------------------
(* Refills add up, also over a time that is negative.                         *)
LEMMA RefillAdds ==
    ASSUME NEW a \in Int, NEW b \in Int
    PROVE  /\ Refill * a \in Int
           /\ Refill * (a + b) = Refill * a + Refill * b
           /\ a >= 0 => Refill * a \in Nat
           /\ a <= b => Refill * a <= Refill * b
<1>1. Refill \in Nat
  BY AiAssumption
<1> QED
  BY <1>1, SMTT(30)

(* The copy that a thread reads is paid for: a bucket that nobody stored is       *)
(* full, and nothing was spent from it.                                     *)
LEMMA ReadBucketKeeps == ASSUME AiInv, NEW t \in Threads, ReadBucket(t) PROVE AiInv'
<1> DEFINE a == qreq[t].tenant
           b == IF a \in DOMAIN buckets THEN buckets[a] ELSE FullBucket(qclock[t])
<1>1. /\ qpc[t] = "limit" /\ qpc' = [qpc EXCEPT ![t] = "spend"]
      /\ qbucket' = [qbucket EXCEPT ![t] = b]
      /\ spentThen' = [spentThen EXCEPT ![t] = spent[a]]
      /\ UNCHANGED <<now, qreq, qclock, received, buckets, spent, undone,
                     breakers, qnth, history, failedAt>>
  BY DEF ReadBucket, At, Goto, chainVars
<1>2. /\ a \in Tenants /\ now \in Cooldown..MaxTime /\ Cooldown \in Nat /\ MaxTime \in Nat
      /\ Capacity \in Nat /\ Refill \in Nat
      /\ qpc \in [Threads -> Steps] /\ qclock[t] \in 0..MaxTime
      /\ spent \in [Tenants -> Nat] /\ undone \in [Tenants -> Nat]
      /\ spentThen \in [Threads -> Nat]
      /\ qbucket \in [Threads -> [tokens : 0..Capacity, ts : 0..MaxTime]]
  BY <1>1, AiAssumption, BreakerAssumption DEF AiInv, Shape, AiTypeOK
<1>3. Cooldown <= qclock[t] /\ qclock[t] <= now
  BY <1>1, <1>2 DEF AiInv, ClocksOK, Shape, AiTypeOK, Requests
<1>4. b \in [tokens : 0..Capacity, ts : 0..MaxTime] /\ Paid(spent[a], b, a)
  <2>1. CASE a \in DOMAIN buckets
    BY <1>2, <2>1 DEF AiInv, Shape, AiTypeOK, BucketsOK
  <2>2. CASE a \notin DOMAIN buckets
    <3>1. b = [tokens |-> Capacity, ts |-> qclock[t]] /\ spent[a] = 0
      BY <1>2, <2>2 DEF FullBucket, AiInv, BucketsOK
    <3>2. Refill * (qclock[t] - Cooldown) \in Nat
      <4>1. qclock[t] - Cooldown \in Int /\ qclock[t] - Cooldown >= 0
        BY <1>2, <1>3
      <4> QED BY <4>1, RefillAdds
    <3>3. b.tokens = Capacity /\ b.ts = qclock[t] /\ b \in [tokens : 0..Capacity, ts : 0..MaxTime]
      BY <1>2, <3>1
    <3>4. undone[a] \in Nat
      BY <1>2
    <3> HIDE DEF b
    <3> QED BY <1>2, <1>3, <3>1, <3>2, <3>3, <3>4 DEF Paid
  <2> QED BY <2>1, <2>2
<1> HIDE DEF b
<1>5. Shape'
  <2>1. AiTypeOK'
    BY <1>1, <1>2 DEF AiInv, Shape, AiTypeOK, Steps
  <2> QED BY <1>1, <1>2, <1>4, <2>1 DEF AiInv, Shape
<1>6. ClocksOK'
  BY <1>1, <1>2 DEF AiInv, ClocksOK
<1>7. BucketsOK'
  BY <1>1 DEF AiInv, BucketsOK, Paid
<1>8. CopiesOK'
  <2>1. ASSUME NEW u \in Threads, qpc'[u] = "spend"
        PROVE  /\ spentThen'[u] <= spent[qreq[u].tenant]
               /\ Paid(spentThen'[u], qbucket'[u], qreq[u].tenant)
    BY <1>1, <1>2, <1>4, <2>1 DEF AiInv, CopiesOK
  <2> QED BY <1>1, <2>1 DEF CopiesOK, Paid
<1>9. StampsOK'
  BY <1>1, <1>2 DEF AiInv, StampsOK, Provider
<1>10. ChainOK'
  BY <1>1, <1>2 DEF AiInv, ChainOK, OutFor
<1> QED BY <1>5, <1>6, <1>7, <1>8, <1>9, <1>10 DEF AiInv

(* What the refilled copy holds is paid for by the time that passed since.      *)
LEMMA TokensPaid ==
    ASSUME NEW s \in Nat, NEW u \in Nat, NEW clk \in Nat,
           NEW b \in [tokens : 0..Capacity, ts : 0..MaxTime],
           s + b.tokens <= Capacity + Refill * (b.ts - Cooldown) + u
    PROVE  /\ Tokens(b, clk) \in Int /\ Tokens(b, clk) <= Capacity
           /\ s + Tokens(b, clk) <= Capacity + Refill * (clk - Cooldown) + u
<1> DEFINE full == b.tokens + (clk - b.ts) * Refill
<1>1. /\ Capacity \in Nat /\ Refill \in Nat /\ Cooldown \in Nat /\ MaxTime \in Nat
      /\ b.tokens \in Nat /\ b.ts \in Nat
  BY AiAssumption, BreakerAssumption
<1>2. (clk - b.ts) * Refill = Refill * (clk - b.ts) /\ Refill * (clk - b.ts) \in Int
  BY <1>1, RefillAdds
<1>3. (b.ts - Cooldown) + (clk - b.ts) = clk - Cooldown
  BY <1>1
<1>4. /\ Refill * (clk - Cooldown) = Refill * (b.ts - Cooldown) + Refill * (clk - b.ts)
      /\ Refill * (b.ts - Cooldown) \in Int
  <2>1. b.ts - Cooldown \in Int /\ clk - b.ts \in Int
    BY <1>1
  <2> QED BY <1>3, <2>1, RefillAdds
<1>5. full \in Int /\ s + full <= Capacity + Refill * (clk - Cooldown) + u
  BY <1>1, <1>2, <1>4
<1>6. Tokens(b, clk) = IF full < Capacity THEN full ELSE Capacity
  BY DEF Tokens
<1> HIDE DEF full
<1> QED BY <1>1, <1>2, <1>4, <1>5, <1>6

----------------------------------------------------------------------------
(* The response is out: nothing of the thread's is left.                      *)
LEMMA ForgetKeeps ==
    ASSUME AiInv, NEW t \in Threads, Forget(t), UNCHANGED <<now, received, failedAt>>
    PROVE  /\ qpc' \in [Threads -> Steps]
           /\ \A u \in Threads : qpc'[u] # "idle" =>
                 /\ u # t /\ qpc'[u] = qpc[u]
                 /\ qreq'[u] = qreq[u] /\ qclock'[u] = qclock[u] /\ qnth'[u] = qnth[u]
           /\ qreq' \in [Threads -> Requests]
           /\ qclock' \in [Threads -> 0..MaxTime]
           /\ qnth' \in [Threads -> DOMAIN Chain]
           /\ ClocksOK' /\ ChainOK'
<1>1. /\ qpc' = [qpc EXCEPT ![t] = "idle"] /\ qreq' = [qreq EXCEPT ![t] = NoRequest]
      /\ qclock' = [qclock EXCEPT ![t] = 0] /\ qnth' = [qnth EXCEPT ![t] = 1]
      /\ now' = now /\ failedAt' = failedAt
  BY DEF Forget, Goto
<1>2. /\ qpc \in [Threads -> Steps] /\ qreq \in [Threads -> Requests]
      /\ qclock \in [Threads -> 0..MaxTime] /\ qnth \in [Threads -> DOMAIN Chain]
      /\ now \in Nat /\ MaxTime \in Nat
  BY AiAssumption, BreakerAssumption DEF AiInv, Shape, AiTypeOK
<1>3. NoRequest \in Requests /\ "idle" \in Steps /\ 1 \in DOMAIN Chain /\ 0 \in 0..MaxTime
  BY <1>2, ChainShape DEF NoRequest, Requests, Steps
<1>4. /\ qpc' \in [Threads -> Steps] /\ qreq' \in [Threads -> Requests]
      /\ qclock' \in [Threads -> 0..MaxTime] /\ qnth' \in [Threads -> DOMAIN Chain]
  BY <1>1, <1>2, <1>3
<1>5. \A u \in Threads : qpc'[u] # "idle" =>
           /\ u # t /\ qpc'[u] = qpc[u]
           /\ qreq'[u] = qreq[u] /\ qclock'[u] = qclock[u] /\ qnth'[u] = qnth[u]
  BY <1>1, <1>2
<1>6. ClocksOK'
  BY <1>1, <1>2 DEF AiInv, ClocksOK
<1>7. ChainOK'
  BY <1>1, <1>2, ChainShape DEF AiInv, ChainOK, OutFor
<1> QED BY <1>4, <1>5, <1>6, <1>7

(* The token is spent and paid for, whatever other threads wrote since the bucket  *)
(* was read; what they spent is undone.                                      *)
LEMMA SpendTokenKeeps == ASSUME AiInv, NEW t \in Threads, SpendToken(t) PROVE AiInv'
<1> DEFINE a == qreq[t].tenant
           tokens == Tokens(qbucket[t], qclock[t])
<1>1. /\ qpc[t] = "spend"
      /\ qbucket' = [qbucket EXCEPT ![t] = FullBucket(0)]
      /\ spentThen' = [spentThen EXCEPT ![t] = 0]
      /\ UNCHANGED <<now, received, breakers, failedAt>>
  BY DEF SpendToken, At
<1>2. /\ a \in Tenants /\ now \in Cooldown..MaxTime /\ Cooldown \in Nat /\ MaxTime \in Nat
      /\ Capacity \in Nat \ {0}
      /\ qpc \in [Threads -> Steps] /\ qclock[t] \in 0..MaxTime
      /\ spent \in [Tenants -> Nat] /\ undone \in [Tenants -> Nat]
      /\ spentThen \in [Threads -> Nat]
      /\ qbucket \in [Threads -> [tokens : 0..Capacity, ts : 0..MaxTime]]
  BY <1>1, AiAssumption, BreakerAssumption DEF AiInv, Shape, AiTypeOK
<1>3. /\ qbucket' \in [Threads -> [tokens : 0..Capacity, ts : 0..MaxTime]]
      /\ spentThen' \in [Threads -> Nat]
  BY <1>1, <1>2 DEF FullBucket
<1>4. Cooldown <= qclock[t] /\ qclock[t] <= now
  BY <1>1, <1>2 DEF AiInv, ClocksOK, Shape, Requests
<1>5. /\ tokens \in Int /\ tokens <= Capacity
      /\ spentThen[t] + tokens <= Capacity + Refill * (qclock[t] - Cooldown) + undone[a]
      /\ spentThen[t] <= spent[a]
  <2>1. /\ spentThen[t] <= spent[a]
        /\ spentThen[t] + qbucket[t].tokens
              <= Capacity + Refill * (qbucket[t].ts - Cooldown) + undone[a]
    BY <1>1 DEF AiInv, CopiesOK, Paid
  <2> QED BY <1>2, <2>1, TokensPaid
<1> HIDE DEF tokens
<1>6. CASE tokens < 1
  <2>1. Forget(t) /\ UNCHANGED <<buckets, spent, undone>>
    BY <1>6 DEF SpendToken, tokens
  <2>2. Shape' /\ ClocksOK' /\ ChainOK'
    BY <1>1, <1>2, <1>3, <2>1, ForgetKeeps DEF AiInv, Shape, AiTypeOK, ClocksOK
  <2>3. BucketsOK'
    BY <1>1, <2>1 DEF AiInv, BucketsOK, Paid
  <2>4. CopiesOK'
    <3>1. ASSUME NEW u \in Threads, qpc'[u] = "spend"
          PROVE  /\ u # t /\ qpc[u] = "spend" /\ qreq'[u] = qreq[u]
                 /\ spentThen'[u] = spentThen[u] /\ qbucket'[u] = qbucket[u]
      BY <1>1, <1>2, <2>1, <3>1, ForgetKeeps
    <3> QED BY <1>1, <2>1, <3>1 DEF AiInv, CopiesOK, Paid
  <2>5. StampsOK'
    <3>1. ASSUME NEW u \in Threads, qpc'[u] = "stamp"
          PROVE  qpc[u] = "stamp" /\ qclock'[u] = qclock[u] /\ qnth'[u] = qnth[u]
      BY <1>1, <2>1, <3>1, ForgetKeeps
    <3> QED BY <1>1, <3>1 DEF AiInv, StampsOK, Provider
  <2> QED BY <2>2, <2>3, <2>4, <2>5 DEF AiInv
<1>7. CASE ~(tokens < 1)
  <2> DEFINE b == [tokens |-> tokens - 1, ts |-> qclock[t]]
  <2>1. /\ buckets' = Put(a, b)
        /\ spent' = [spent EXCEPT ![a] = spent[a] + 1]
        /\ undone' = [undone EXCEPT ![a] = undone[a] + spent[a] - spentThen[t]]
        /\ qpc' = [qpc EXCEPT ![t] = "allow"]
        /\ UNCHANGED <<qreq, qclock, qnth, history>>
    BY <1>7 DEF SpendToken, tokens, Goto
  <2>2. /\ DOMAIN buckets' = DOMAIN buckets \cup {a} /\ buckets'[a] = b
        /\ \A x \in DOMAIN buckets : x # a => buckets'[x] = buckets[x]
    BY <2>1 DEF Put
  <2>3. b \in [tokens : 0..(Capacity - 1), ts : 0..MaxTime]
    BY <1>2, <1>5, <1>7
  <2>4. /\ spent' \in [Tenants -> Nat] /\ undone' \in [Tenants -> Nat]
        /\ \A x \in Tenants : spent[x] <= spent'[x] /\ undone[x] <= undone'[x]
        /\ \A x \in Tenants : x # a => spent'[x] = spent[x] /\ undone'[x] = undone[x]
        /\ spent'[a] = spent[a] + 1 /\ undone'[a] = undone[a] + spent[a] - spentThen[t]
    BY <1>2, <1>5, <2>1
  <2>5. Shape'
    <3>1. \A x \in DOMAIN buckets' : buckets'[x] \in [tokens : 0..(Capacity - 1), ts : 0..MaxTime]
      BY <2>2, <2>3 DEF AiInv, Shape, AiTypeOK
    <3>2. AiTypeOK'
      <4>1. DOMAIN buckets' \subseteq Tenants
        BY <1>2, <2>2 DEF AiInv, Shape, AiTypeOK
      <4>2. qpc' \in [Threads -> Steps]
        BY <1>2, <2>1 DEF Steps
      <4>3. \A u \in Threads : qpc'[u] # "idle" => qpc[u] # "idle"
        BY <1>1, <1>2, <2>1
      <4> QED BY <1>1, <2>1, <3>1, <4>1, <4>2, <4>3 DEF AiInv, Shape, AiTypeOK
    <3> QED BY <1>1, <1>3, <2>1, <2>4, <3>2 DEF AiInv, Shape
  <2>6. ClocksOK'
    BY <1>1, <1>2, <2>1 DEF AiInv, ClocksOK
  <2>7. BucketsOK'
    <3>1. Refill * (qclock[t] - Cooldown) \in Nat
      <4>1. qclock[t] - Cooldown \in Int /\ qclock[t] - Cooldown >= 0
        BY <1>2, <1>4
      <4> QED BY <4>1, RefillAdds
    <3>2. spent'[a] + b.tokens <= Capacity + Refill * (b.ts - Cooldown) + undone'[a]
      <4>1. spent'[a] + b.tokens = spent[a] + tokens
        BY <1>2, <1>5, <2>4
      <4>2. spent[a] \in Nat /\ spentThen[t] \in Nat /\ undone[a] \in Nat
        BY <1>2
      <4> QED BY <1>2, <1>5, <2>4, <3>1, <4>1, <4>2
    <3>3. ASSUME NEW x \in DOMAIN buckets'
          PROVE  /\ Cooldown <= buckets'[x].ts /\ buckets'[x].ts <= now
                 /\ spent'[x] + buckets'[x].tokens
                       <= Capacity + Refill * (buckets'[x].ts - Cooldown) + undone'[x]
      <4>1. CASE x = a
        BY <1>2, <1>4, <2>2, <3>2, <4>1
      <4>2. CASE x # a
        <5>1. x \in DOMAIN buckets /\ x \in Tenants /\ buckets'[x] = buckets[x]
          BY <2>2, <4>2 DEF AiInv, Shape, AiTypeOK
        <5>2. spent'[x] = spent[x] /\ undone'[x] = undone[x]
          BY <2>4, <4>2, <5>1
        <5>3. Paid(spent[x], buckets[x], x)
          BY <5>1 DEF AiInv, BucketsOK
        <5> QED BY <5>1, <5>2, <5>3 DEF Paid
      <4> QED BY <4>1, <4>2
    <3>4. ASSUME NEW x \in Tenants, x \notin DOMAIN buckets' PROVE spent'[x] = 0
      BY <2>2, <2>4, <3>4 DEF AiInv, BucketsOK
    <3> QED BY <1>1, <3>3, <3>4 DEF BucketsOK, Paid
  <2>8. CopiesOK'
    <3>1. ASSUME NEW u \in Threads, qpc'[u] = "spend"
          PROVE  /\ spentThen'[u] <= spent'[qreq[u].tenant]
                 /\ Cooldown <= qbucket'[u].ts /\ qbucket'[u].ts <= now
                 /\ spentThen'[u] + qbucket'[u].tokens
                       <= Capacity + Refill * (qbucket'[u].ts - Cooldown) + undone'[qreq[u].tenant]
      <4> DEFINE x == qreq[u].tenant
      <4>1. /\ u # t /\ qpc[u] = "spend"
            /\ spentThen'[u] = spentThen[u] /\ qbucket'[u] = qbucket[u]
        BY <1>1, <1>2, <2>1, <3>1
      <4>2. /\ x \in Tenants /\ qbucket[u] \in [tokens : 0..Capacity, ts : 0..MaxTime]
            /\ spentThen[u] \in Nat
        BY <1>2, <4>1 DEF AiInv, Shape, AiTypeOK
      <4>3. /\ spentThen[u] <= spent[x]
            /\ Cooldown <= qbucket[u].ts /\ qbucket[u].ts <= now
            /\ spentThen[u] + qbucket[u].tokens
                  <= Capacity + Refill * (qbucket[u].ts - Cooldown) + undone[x]
        BY <4>1 DEF AiInv, CopiesOK, Paid
      <4>4. Refill * (qbucket[u].ts - Cooldown) \in Int
        <5>1. qbucket[u].ts - Cooldown \in Int
          BY <1>2, <4>2
        <5> QED BY <5>1, RefillAdds
      <4>5. /\ spent[x] <= spent'[x] /\ undone[x] <= undone'[x]
            /\ spent[x] \in Nat /\ spent'[x] \in Nat /\ undone[x] \in Nat /\ undone'[x] \in Nat
        BY <1>2, <2>4, <4>2
      <4> HIDE DEF x
      <4>6. qbucket[u].tokens \in Nat /\ qbucket[u].ts \in Nat
        BY <1>2, <4>2
      <4>7. /\ spentThen'[u] <= spent'[x]
            /\ spentThen'[u] + qbucket'[u].tokens
                  <= Capacity + Refill * (qbucket'[u].ts - Cooldown) + undone'[x]
        BY <1>2, <4>1, <4>2, <4>3, <4>4, <4>5, <4>6
      <4> QED BY <4>1, <4>3, <4>7 DEF x
    <3> QED BY <1>1, <2>1, <3>1 DEF CopiesOK, Paid
  <2>9. StampsOK'
    BY <1>1, <1>2, <2>1 DEF AiInv, StampsOK, Provider
  <2>10. ChainOK'
    BY <1>1, <1>2, <2>1, ChainShape DEF AiInv, ChainOK, OutFor
  <2> QED BY <2>5, <2>6, <2>7, <2>8, <2>9, <2>10 DEF AiInv
<1> QED BY <1>5, <1>6, <1>7

----------------------------------------------------------------------------
(* The steps after the token is spent leave the buckets alone.                *)
LEMMA LimitsKept ==
    ASSUME AiInv, NEW t \in Threads, UNCHANGED <<now, limitVars>>, qpc'[t] # "spend",
           \A u \in Threads \ {t} : qpc'[u] = qpc[u],
           \A u \in Threads \ {t} : qreq'[u] = qreq[u]
    PROVE  BucketsOK' /\ CopiesOK'
<1>1. UNCHANGED <<now, buckets, qbucket, spent, undone, spentThen>>
  BY DEF limitVars
<1>2. BucketsOK'
  BY <1>1 DEF AiInv, BucketsOK, Paid
<1>3. CopiesOK'
  <2>1. ASSUME NEW u \in Threads, qpc'[u] = "spend"
        PROVE  u # t /\ qpc[u] = "spend" /\ qreq'[u] = qreq[u]
    BY <2>1
  <2> QED BY <1>1, <2>1 DEF AiInv, CopiesOK, Paid
<1> QED BY <1>2, <1>3

(* A query that ends, whatever becomes of the state of its last breaker.         *)
LEMMA ForgottenKeeps ==
    ASSUME AiInv, NEW t \in Threads, Forget(t), UNCHANGED <<now, received, limitVars, failedAt>>,
           breakers' \in [Providers -> Breakers],
           \A p \in Providers : breakers'[p].openedAt = breakers[p].openedAt
    PROVE  AiInv'
<1>1. /\ qpc' \in [Threads -> Steps]
      /\ \A u \in Threads : qpc'[u] # "idle" =>
            /\ u # t /\ qpc'[u] = qpc[u]
            /\ qreq'[u] = qreq[u] /\ qclock'[u] = qclock[u] /\ qnth'[u] = qnth[u]
      /\ qreq' \in [Threads -> Requests]
      /\ qclock' \in [Threads -> 0..MaxTime]
      /\ qnth' \in [Threads -> DOMAIN Chain]
      /\ ClocksOK' /\ ChainOK'
  BY ForgetKeeps
<1>2. UNCHANGED <<now, received, buckets, qbucket, spent, undone, spentThen, failedAt>>
  BY DEF limitVars
<1>3. Shape'
  BY <1>1, <1>2 DEF AiInv, Shape, AiTypeOK
<1>4. BucketsOK'
  BY <1>2 DEF AiInv, BucketsOK, Paid
<1>5. CopiesOK'
  <2>1. ASSUME NEW u \in Threads, qpc'[u] = "spend"
        PROVE  qpc[u] = "spend" /\ qreq'[u] = qreq[u]
    BY <1>1, <2>1
  <2> QED BY <1>2, <2>1 DEF AiInv, CopiesOK, Paid
<1>6. StampsOK'
  <2>1. ASSUME NEW u \in Threads, qpc'[u] = "stamp"
        PROVE  qpc[u] = "stamp" /\ qclock'[u] = qclock[u] /\ qnth'[u] = qnth[u]
    BY <1>1, <2>1
  <2> QED BY <1>2, <2>1 DEF AiInv, StampsOK, Provider
<1> QED BY <1>1, <1>3, <1>4, <1>5, <1>6 DEF AiInv

(* On with the chain: the provider left behind was out for the query.          *)
LEMMA NextProviderKeeps ==
    ASSUME AiInv, NEW t \in Threads, NextProvider(t), UNCHANGED qreq,
           failedAt' \in [Providers -> (-1)..MaxTime],
           \A p \in Providers : failedAt[p] <= failedAt'[p],
           failedAt'[Provider(t)] >= 0,
           failedAt'[Provider(t)] + Cooldown >= qreq[t].began
    PROVE  /\ qpc' \in [Threads -> Steps] /\ qpc'[t] \in {"allow", "failed"}
           /\ \A u \in Threads \ {t} : qpc'[u] = qpc[u] /\ qnth'[u] = qnth[u]
           /\ qnth' \in [Threads -> DOMAIN Chain]
           /\ ChainOK'
<1>1. /\ qpc \in [Threads -> Steps] /\ qnth \in [Threads -> DOMAIN Chain]
      /\ failedAt \in [Providers -> (-1)..MaxTime]
      /\ qreq \in [Threads -> Requests]
      /\ DOMAIN Chain = 1..Len(Chain) /\ Len(Chain) \in Nat \ {0}
      /\ \A n \in DOMAIN Chain : Chain[n] \in Providers
      /\ Cooldown \in Nat /\ MaxTime \in Nat
  BY ChainShape, AiAssumption, BreakerAssumption DEF AiInv, Shape, AiTypeOK
<1>2. \/ /\ qnth[t] < Len(Chain) /\ qpc' = [qpc EXCEPT ![t] = "allow"]
         /\ qnth' = [qnth EXCEPT ![t] = qnth[t] + 1]
      \/ /\ ~(qnth[t] < Len(Chain)) /\ qpc' = [qpc EXCEPT ![t] = "failed"]
         /\ qnth' = qnth
  BY DEF NextProvider, Goto
<1>3. /\ qpc' \in [Threads -> Steps] /\ qpc'[t] \in {"allow", "failed"}
      /\ \A u \in Threads \ {t} : qpc'[u] = qpc[u] /\ qnth'[u] = qnth[u]
  BY <1>1, <1>2 DEF Steps
<1>4. qnth' \in [Threads -> DOMAIN Chain]
  <2>1. qnth[t] \in 1..Len(Chain)
    BY <1>1
  <2>2. qnth[t] < Len(Chain) => qnth[t] + 1 \in 1..Len(Chain)
    BY <1>1, <2>1
  <2> QED BY <1>1, <1>2, <2>2
<1>5. \A u \in Threads : qpc'[u] \in {"idle", "limit", "spend"} => qnth'[u] = 1
  BY <1>3 DEF AiInv, ChainOK
<1>6. ASSUME NEW u \in Threads, NEW n \in DOMAIN Chain, n < qnth'[u] \/ qpc'[u] = "failed"
      PROVE  failedAt'[Chain[n]] >= 0 /\ failedAt'[Chain[n]] + Cooldown >= qreq[u].began
  <2>1. ASSUME n < qnth[u] \/ qpc[u] = "failed"
        PROVE  failedAt'[Chain[n]] >= 0 /\ failedAt'[Chain[n]] + Cooldown >= qreq[u].began
    <3>1. PICK p \in Providers : p = Chain[n]
      BY <1>1
    <3>2. failedAt[p] >= 0 /\ failedAt[p] + Cooldown >= qreq[u].began
      BY <2>1, <3>1 DEF AiInv, ChainOK, OutFor
    <3>3. failedAt[p] <= failedAt'[p]
      OBVIOUS
    <3>4. failedAt[p] \in Int /\ failedAt'[p] \in Int /\ qreq[u].began \in Int /\ Cooldown \in Int
      BY <1>1 DEF Requests
    <3> QED BY <3>1, <3>2, <3>3, <3>4
  <2>2. CASE u # t
    BY <1>3, <1>6, <2>1, <2>2
  <2>3. CASE u = t
    <3>1. n < qnth[t] \/ n = qnth[t]
      BY <1>1, <1>2, <1>6, <2>3
    <3>2. CASE n = qnth[t]
      BY <2>3, <3>2 DEF Provider
    <3> QED BY <2>1, <2>3, <3>1, <3>2
  <2> QED BY <2>2, <2>3
<1>7. ChainOK'
  BY <1>5, <1>6 DEF ChainOK, OutFor
<1> QED BY <1>3, <1>4, <1>7

----------------------------------------------------------------------------
(* Steps that only move the thread on in its conversation.                    *)
LEMMA MoveKeeps ==
    ASSUME AiInv, NEW t \in Threads, NEW step \in {"cooling", "generate", "tools"},
           qpc[t] \in {"allow", "generate", "tools"}, qpc' = [qpc EXCEPT ![t] = step],
           qclock' = qclock \/ qclock' = [qclock EXCEPT ![t] = now],
           UNCHANGED <<now, qreq, received, limitVars, breakers, qnth, failedAt>>
    PROVE  AiInv'
<1>1. /\ qpc \in [Threads -> Steps] /\ qclock \in [Threads -> 0..MaxTime]
      /\ now \in 0..MaxTime /\ qreq \in [Threads -> Requests]
      /\ qpc' \in [Threads -> Steps] /\ qpc'[t] = step
      /\ \A u \in Threads \ {t} : qpc'[u] = qpc[u] /\ qclock'[u] = qclock[u]
      /\ qclock' \in [Threads -> 0..MaxTime] /\ (qclock'[t] = qclock[t] \/ qclock'[t] = now)
  <2>1. Cooldown \in Nat /\ MaxTime \in Nat
    BY AiAssumption, BreakerAssumption
  <2> QED BY <2>1 DEF AiInv, Shape, AiTypeOK, Steps
<1>2. Shape'
  BY <1>1 DEF AiInv, Shape, AiTypeOK, limitVars
<1>3. ClocksOK'
  BY <1>1 DEF AiInv, ClocksOK, Requests
<1>4. BucketsOK' /\ CopiesOK'
  BY <1>1, LimitsKept
<1>5. StampsOK'
  BY <1>1 DEF AiInv, StampsOK, Provider
<1>6. ChainOK'
  BY <1>1 DEF AiInv, ChainOK, OutFor
<1> QED BY <1>2, <1>3, <1>4, <1>5, <1>6 DEF AiInv

LEMMA AllowKeeps == ASSUME AiInv, NEW t \in Threads, Allow(t) PROVE AiInv'
<1>1. /\ qpc[t] = "allow"
      /\ UNCHANGED <<now, qreq, received, limitVars, breakers, failedAt>>
      /\ \/ qclock' = [qclock EXCEPT ![t] = now] /\ qpc' = [qpc EXCEPT ![t] = "cooling"] /\ qnth' = qnth
         \/ qclock' = qclock /\ qpc' = [qpc EXCEPT ![t] = "generate"] /\ qnth' = qnth
  BY DEF Allow, At, Goto, ReadTime, Converse
<1>2. \E step \in {"cooling", "generate"} : qpc' = [qpc EXCEPT ![t] = step]
  BY <1>1
<1> QED BY <1>1, <1>2, MoveKeeps

(* After the cooldown the breaker is half-open.  Before it, its provider failed    *)
(* less than a cooldown before the query began; a breaker that never opened is     *)
(* past its cooldown.                                                       *)
LEMMA AllowCooledKeeps == ASSUME AiInv, NEW t \in Threads, AllowCooled(t) PROVE AiInv'
<1>1. PICK p \in Providers : p = Provider(t)
  BY ChainShape DEF AiInv, Shape, AiTypeOK, Provider
<1>2. /\ qpc[t] = "cooling" /\ UNCHANGED <<now, qreq, qclock, received, limitVars, failedAt>>
  BY DEF AllowCooled, At
<1>3. /\ qpc \in [Threads -> Steps] /\ breakers \in [Providers -> Breakers]
      /\ qclock[t] \in Nat /\ qreq[t].began \in Nat /\ Cooldown \in Nat
      /\ Cooldown <= qreq[t].began /\ qreq[t].began <= qclock[t]
      /\ breakers[p].openedAt \in Nat
      /\ failedAt \in [Providers -> (-1)..MaxTime] /\ failedAt[p] \in Int
  <2>1. /\ qpc \in [Threads -> Steps] /\ breakers \in [Providers -> Breakers]
        /\ qclock[t] \in Nat /\ qreq[t].began \in Nat /\ Cooldown \in Nat /\ MaxTime \in Nat
        /\ failedAt \in [Providers -> (-1)..MaxTime]
    BY AiAssumption, BreakerAssumption DEF AiInv, Shape, AiTypeOK, Requests
  <2>2. Cooldown <= qreq[t].began /\ qreq[t].began <= qclock[t]
    BY <1>2 DEF AiInv, ClocksOK
  <2>3. breakers[p].openedAt \in Nat
    <3>1. breakers[p] \in Breakers
      BY <2>1
    <3> QED BY <3>1, BreakerTypes
  <2>4. failedAt[p] \in Int
    BY <2>1
  <2> QED BY <2>1, <2>2, <2>3, <2>4
<1>4. CASE CooledDown(t)
  <2>1. /\ breakers' = [breakers EXCEPT ![p].state = "half_open"]
        /\ qpc' = [qpc EXCEPT ![t] = "generate"] /\ qnth' = qnth
    BY <1>1, <1>4 DEF AllowCooled, Converse, Goto
  <2>2. /\ breakers' \in [Providers -> Breakers]
        /\ \A q \in Providers : breakers'[q].openedAt = breakers[q].openedAt
    <3>1. PICK b \in Breakers : b = [breakers[p] EXCEPT !.state = "half_open"]
      BY <1>3, BreakerTypes
    <3>2. breakers' = [breakers EXCEPT ![p] = b] /\ b.openedAt = breakers[p].openedAt
      BY <1>3, <2>1, <3>1, BreakerTypes
    <3> QED BY <1>3, <3>2
  <2>3. Shape'
    BY <1>2, <1>3, <2>1, <2>2 DEF AiInv, Shape, AiTypeOK, limitVars, Steps
  <2>4. ClocksOK'
    BY <1>2, <1>3, <2>1 DEF AiInv, ClocksOK
  <2>5. BucketsOK' /\ CopiesOK'
    BY <1>2, <1>3, <2>1, LimitsKept
  <2>6. StampsOK'
    BY <1>2, <1>3, <2>1, <2>2 DEF AiInv, StampsOK, Provider
  <2>7. ChainOK'
    BY <1>2, <1>3, <2>1 DEF AiInv, ChainOK, OutFor
  <2> QED BY <2>3, <2>4, <2>5, <2>6, <2>7 DEF AiInv
<1>5. CASE ~CooledDown(t)
  <2>1. NextProvider(t) /\ breakers' = breakers
    BY <1>5 DEF AllowCooled
  <2>2. qclock[t] < breakers[p].openedAt + Cooldown
    BY <1>1, <1>3, <1>5 DEF CooledDown, Breaker
  <2>3. failedAt[p] >= 0 /\ failedAt[p] + Cooldown >= qreq[t].began
    <3>1. breakers[p].openedAt # 0
      BY <1>3, <2>2
    <3>2. breakers[p].openedAt <= failedAt[p]
      BY <3>1 DEF AiInv, StampsOK
    <3> QED BY <1>3, <2>2, <3>2
  <2>4. /\ failedAt' \in [Providers -> (-1)..MaxTime]
        /\ \A q \in Providers : failedAt[q] <= failedAt'[q]
        /\ failedAt'[Provider(t)] >= 0 /\ failedAt'[Provider(t)] + Cooldown >= qreq[t].began
    BY <1>1, <1>2, <1>3, <2>3
  <2>5. /\ qpc' \in [Threads -> Steps] /\ qpc'[t] \in {"allow", "failed"}
        /\ \A u \in Threads \ {t} : qpc'[u] = qpc[u] /\ qnth'[u] = qnth[u]
        /\ qnth' \in [Threads -> DOMAIN Chain]
        /\ ChainOK'
    BY <1>2, <2>1, <2>4, NextProviderKeeps
  <2>6. Shape'
    BY <1>2, <2>1, <2>5 DEF AiInv, Shape, AiTypeOK, limitVars
  <2>7. ClocksOK'
    BY <1>2, <2>5 DEF AiInv, ClocksOK
  <2>8. BucketsOK' /\ CopiesOK'
    BY <1>2, <2>5, LimitsKept
  <2>9. StampsOK'
    BY <1>2, <2>1, <2>5 DEF AiInv, StampsOK, Provider
  <2> QED BY <2>5, <2>6, <2>7, <2>8, <2>9 DEF AiInv
<1> QED BY <1>4, <1>5

(* record_success(): an open or half-open breaker closes, opened_at stays.      *)
LEMMA SucceedKeeps ==
    ASSUME AiInv, NEW t \in Threads, qpc[t] = "generate", Succeed(t)
    PROVE  AiInv'
<1>1. PICK p \in Providers : p = Provider(t)
  BY ChainShape DEF AiInv, Shape, AiTypeOK, Provider
<1>2. /\ Forget(t) /\ UNCHANGED <<now, received, limitVars, failedAt>>
      /\ breakers' = [breakers EXCEPT ![p] = Succeeded(breakers[p])]
  BY <1>1 DEF Succeed
<1>3. /\ breakers' \in [Providers -> Breakers]
      /\ \A q \in Providers : breakers'[q].openedAt = breakers[q].openedAt
  <2>1. breakers \in [Providers -> Breakers] /\ breakers[p] \in Breakers
    BY DEF AiInv, Shape, AiTypeOK
  <2>2. Succeeded(breakers[p]) \in Breakers /\ Succeeded(breakers[p]).openedAt = breakers[p].openedAt
    BY <2>1, BreakerTypes
  <2> QED BY <1>2, <2>1, <2>2
<1> QED BY <1>2, <1>3, ForgottenKeeps

LEMMA AllFailedKeeps == ASSUME AiInv, NEW t \in Threads, AllFailed(t) PROVE AiInv'
<1>1. Forget(t) /\ UNCHANGED <<now, received, limitVars, breakers, failedAt>>
  BY DEF AllFailed
<1>2. breakers' \in [Providers -> Breakers]
  BY <1>1 DEF AiInv, Shape, AiTypeOK
<1> QED BY <1>1, <1>2, ForgottenKeeps

(* record_failure(): the provider has failed now, after the query began; a         *)
(* breaker that trips has its old opened_at until it is stamped.               *)
LEMMA RecordFailureKeeps ==
    ASSUME AiInv, NEW t \in Threads, qpc[t] \in {"generate", "tools"}, RecordFailure(t)
    PROVE  AiInv'
<1>1. PICK p \in Providers : p = Provider(t)
  BY ChainShape DEF AiInv, Shape, AiTypeOK, Provider
<1> DEFINE b == [Failed(breakers[p], now) EXCEPT !.openedAt = breakers[p].openedAt]
<1>2. /\ breakers' = [breakers EXCEPT ![p] = b]
      /\ failedAt' = [failedAt EXCEPT ![p] = now]
      /\ UNCHANGED <<now, qreq, received, limitVars>>
      /\ \/ /\ qclock' = [qclock EXCEPT ![t] = now] /\ qpc' = [qpc EXCEPT ![t] = "stamp"]
            /\ qnth' = qnth
         \/ NextProvider(t) /\ qclock' = qclock
  BY <1>1 DEF RecordFailure, Breaker, ReadTime, Goto
<1>3. /\ qpc \in [Threads -> Steps] /\ breakers \in [Providers -> Breakers]
      /\ qclock \in [Threads -> 0..MaxTime] /\ qnth \in [Threads -> DOMAIN Chain]
      /\ qreq \in [Threads -> Requests] /\ failedAt \in [Providers -> (-1)..MaxTime]
      /\ now \in 0..MaxTime /\ Cooldown \in Nat /\ MaxTime \in Nat
      /\ qreq[t].began \in 0..MaxTime
  BY AiAssumption, BreakerAssumption DEF AiInv, Shape, AiTypeOK, Requests
<1>4. qreq[t].began <= now
  BY <1>3 DEF AiInv, ClocksOK
<1>5. b \in Breakers /\ b.openedAt = breakers[p].openedAt
  <2>1. breakers[p] \in Breakers /\ now \in Nat
    BY <1>3
  <2>2. Failed(breakers[p], now) \in Breakers /\ breakers[p].openedAt \in Nat
    BY <2>1, BreakerTypes
  <2> QED BY <2>2, BreakerTypes
<1> HIDE DEF b
<1>6. /\ breakers' \in [Providers -> Breakers]
      /\ \A q \in Providers : breakers'[q].openedAt = breakers[q].openedAt
  BY <1>2, <1>3, <1>5
<1>7. /\ failedAt' \in [Providers -> (-1)..MaxTime]
      /\ \A q \in Providers : failedAt[q] <= failedAt'[q] /\ failedAt'[q] <= now
      /\ failedAt'[p] = now
  BY <1>2, <1>3 DEF AiInv, StampsOK
<1>8. \A q \in Providers : breakers'[q].openedAt = 0 \/ breakers'[q].openedAt <= failedAt'[q]
  <2>1. ASSUME NEW q \in Providers
        PROVE  breakers'[q].openedAt = 0 \/ breakers'[q].openedAt <= failedAt'[q]
    <3>1. breakers[q].openedAt = 0 \/ breakers[q].openedAt <= failedAt[q]
      BY DEF AiInv, StampsOK
    <3>2. breakers[q] \in Breakers
      BY <1>3
    <3>3. breakers[q].openedAt \in Nat
      BY <3>2, BreakerTypes
    <3>4. failedAt[q] \in Int /\ failedAt'[q] \in Int
      BY <1>3, <1>7
    <3> QED BY <1>6, <1>7, <3>1, <3>3, <3>4
  <2> QED BY <2>1
<1>9. \A u \in Threads : qpc[u] = "stamp" => qclock[u] <= failedAt'[Provider(u)]
  <2>1. ASSUME NEW u \in Threads, qpc[u] = "stamp" PROVE qclock[u] <= failedAt'[Provider(u)]
    <3>1. PICK q \in Providers : q = Provider(u)
      BY ChainShape DEF AiInv, Shape, AiTypeOK, Provider
    <3>2. qclock[u] <= failedAt[q]
      BY <2>1, <3>1 DEF AiInv, StampsOK
    <3>3. qclock[u] \in Int /\ failedAt[q] \in Int /\ failedAt'[q] \in Int /\ failedAt[q] <= failedAt'[q]
      BY <1>3, <1>7
    <3> QED BY <3>1, <3>2, <3>3
  <2> QED BY <2>1
<1>10. CASE /\ qclock' = [qclock EXCEPT ![t] = now] /\ qpc' = [qpc EXCEPT ![t] = "stamp"]
            /\ qnth' = qnth
  <2>1. Shape'
    BY <1>2, <1>3, <1>6, <1>7, <1>10 DEF AiInv, Shape, AiTypeOK, limitVars, Steps
  <2>2. ClocksOK'
    BY <1>2, <1>3, <1>4, <1>10 DEF AiInv, ClocksOK
  <2>3. BucketsOK' /\ CopiesOK'
    BY <1>2, <1>3, <1>10, LimitsKept
  <2>4. StampsOK'
    <3>1. ASSUME NEW u \in Threads, qpc'[u] = "stamp"
          PROVE  qclock'[u] <= failedAt'[Chain[qnth'[u]]]
      <4>1. CASE u = t
        BY <1>1, <1>3, <1>7, <1>10, <4>1 DEF Provider
      <4>2. CASE u # t
        BY <1>3, <1>9, <1>10, <3>1, <4>2 DEF Provider
      <4> QED BY <4>1, <4>2
    <3> QED BY <1>2, <1>7, <1>8, <3>1 DEF StampsOK, Provider
  <2>5. ChainOK'
    <3>1. ASSUME NEW u \in Threads, NEW n \in DOMAIN Chain, n < qnth[u] \/ qpc[u] = "failed"
          PROVE  failedAt'[Chain[n]] >= 0 /\ failedAt'[Chain[n]] + Cooldown >= qreq[u].began
      <4>1. PICK q \in Providers : q = Chain[n]
        BY ChainShape
      <4>2. failedAt[q] >= 0 /\ failedAt[q] + Cooldown >= qreq[u].began
        BY <3>1, <4>1 DEF AiInv, ChainOK, OutFor
      <4>3. /\ failedAt[q] <= failedAt'[q] /\ failedAt[q] \in Int /\ failedAt'[q] \in Int
            /\ qreq[u].began \in Int
        BY <1>3, <1>7 DEF Requests
      <4> QED BY <1>3, <4>1, <4>2, <4>3
    <3>2. ASSUME NEW u \in Threads, qpc'[u] \in {"idle", "limit", "spend"} PROVE qnth'[u] = 1
      BY <1>3, <1>10, <3>2 DEF AiInv, ChainOK
    <3>3. \A u \in Threads : qpc'[u] = "failed" => qpc[u] = "failed"
      BY <1>3, <1>10
    <3> QED BY <1>2, <1>10, <3>1, <3>2, <3>3 DEF ChainOK, OutFor
  <2> QED BY <2>1, <2>2, <2>3, <2>4, <2>5 DEF AiInv
<1>11. CASE NextProvider(t) /\ qclock' = qclock
  <2>1. failedAt'[Provider(t)] >= 0 /\ failedAt'[Provider(t)] + Cooldown >= qreq[t].began
    BY <1>1, <1>3, <1>4, <1>7
  <2>2. /\ qpc' \in [Threads -> Steps] /\ qpc'[t] \in {"allow", "failed"}
        /\ \A u \in Threads \ {t} : qpc'[u] = qpc[u] /\ qnth'[u] = qnth[u]
        /\ qnth' \in [Threads -> DOMAIN Chain]
        /\ ChainOK'
    BY <1>2, <1>7, <1>11, <2>1, NextProviderKeeps
  <2>3. Shape'
    BY <1>2, <1>6, <1>7, <1>11, <2>2 DEF AiInv, Shape, AiTypeOK, limitVars
  <2>4. ClocksOK'
    BY <1>2, <1>11, <2>2 DEF AiInv, ClocksOK
  <2>5. BucketsOK' /\ CopiesOK'
    BY <1>2, <2>2, LimitsKept
  <2>6. StampsOK'
    BY <1>2, <1>7, <1>8, <1>9, <1>11, <2>2 DEF StampsOK, Provider
  <2> QED BY <2>2, <2>3, <2>4, <2>5, <2>6 DEF AiInv
<1> QED BY <1>2, <1>10, <1>11

(* opened_at is assigned what the clock said before, when the provider failed.    *)
LEMMA StampKeeps == ASSUME AiInv, NEW t \in Threads, Stamp(t) PROVE AiInv'
<1>1. PICK p \in Providers : p = Provider(t)
  BY ChainShape DEF AiInv, Shape, AiTypeOK, Provider
<1>2. PICK c \in Nat : c = qclock[t]
  BY AiAssumption DEF AiInv, Shape, AiTypeOK
<1>3. /\ qpc[t] = "stamp" /\ NextProvider(t)
      /\ breakers' = [breakers EXCEPT ![p].openedAt = c]
      /\ UNCHANGED <<now, qreq, qclock, received, limitVars, failedAt>>
  BY <1>1, <1>2 DEF Stamp, At
<1>4. /\ qpc \in [Threads -> Steps] /\ breakers \in [Providers -> Breakers]
      /\ qreq \in [Threads -> Requests] /\ failedAt \in [Providers -> (-1)..MaxTime]
      /\ failedAt[p] \in Int /\ qreq[t].began \in Nat /\ Cooldown \in Nat /\ MaxTime \in Nat
  BY AiAssumption, BreakerAssumption DEF AiInv, Shape, AiTypeOK, Requests
<1>5. c <= failedAt[p] /\ qreq[t].began <= c
  BY <1>1, <1>2, <1>3 DEF AiInv, StampsOK, ClocksOK
<1>6. /\ breakers' \in [Providers -> Breakers] /\ breakers'[p].openedAt = c
      /\ \A q \in Providers \ {p} : breakers'[q] = breakers[q]
  <2>1. breakers[p] \in Breakers
    BY <1>4
  <2>2. PICK b \in Breakers : b = [breakers[p] EXCEPT !.openedAt = c]
    BY <2>1, BreakerTypes
  <2>3. b.openedAt = c
    BY <2>1, <2>2, BreakerTypes
  <2>4. breakers' = [breakers EXCEPT ![p] = b]
    BY <1>3, <2>2
  <2> QED BY <1>4, <2>3, <2>4
<1>7. /\ failedAt' \in [Providers -> (-1)..MaxTime]
      /\ \A q \in Providers : failedAt[q] <= failedAt'[q]
      /\ failedAt'[Provider(t)] >= 0 /\ failedAt'[Provider(t)] + Cooldown >= qreq[t].began
  BY <1>1, <1>3, <1>4, <1>5
<1>8. /\ qpc' \in [Threads -> Steps] /\ qpc'[t] \in {"allow", "failed"}
      /\ \A u \in Threads \ {t} : qpc'[u] = qpc[u] /\ qnth'[u] = qnth[u]
      /\ qnth' \in [Threads -> DOMAIN Chain]
      /\ ChainOK'
  BY <1>3, <1>7, NextProviderKeeps
<1>9. Shape'
  BY <1>3, <1>6, <1>8 DEF AiInv, Shape, AiTypeOK, limitVars
<1>10. ClocksOK'
  BY <1>3, <1>8 DEF AiInv, ClocksOK
<1>11. BucketsOK' /\ CopiesOK'
  BY <1>3, <1>8, LimitsKept
<1>12. StampsOK'
  <2>1. ASSUME NEW q \in Providers
        PROVE  breakers'[q].openedAt = 0 \/ breakers'[q].openedAt <= failedAt[q]
    BY <1>5, <1>6 DEF AiInv, StampsOK
  <2> QED BY <1>3, <1>8, <2>1 DEF AiInv, StampsOK, Provider
<1> QED BY <1>8, <1>9, <1>10, <1>11, <1>12 DEF AiInv

(* A turn of the loop: more tools to run, an end, or a failure.                 *)
LEMMA GenerateKeeps == ASSUME AiInv, NEW t \in Threads, Generate(t) PROVE AiInv'
<1>1. qpc[t] = "generate"
  BY DEF Generate, At
<1>2. \/ Succeed(t)
      \/ /\ qpc' = [qpc EXCEPT ![t] = "tools"]
         /\ UNCHANGED <<now, qreq, qclock, received, limitVars, breakers, qnth, failedAt>>
  BY DEF Generate, Goto
<1>3. CASE Succeed(t)
  BY <1>1, <1>3, SucceedKeeps
<1>4. CASE /\ qpc' = [qpc EXCEPT ![t] = "tools"]
           /\ UNCHANGED <<now, qreq, qclock, received, limitVars, breakers, qnth, failedAt>>
  BY <1>1, <1>4, MoveKeeps
<1> QED BY <1>2, <1>3, <1>4

LEMMA ExecuteToolsKeeps == ASSUME AiInv, NEW t \in Threads, ExecuteTools(t) PROVE AiInv'
<1>1. /\ qpc[t] = "tools" /\ qpc' = [qpc EXCEPT ![t] = "generate"]
      /\ UNCHANGED <<now, qreq, qclock, received, limitVars, breakers, qnth, failedAt>>
  BY DEF ExecuteTools, At, Goto
<1> QED BY <1>1, MoveKeeps

LEMMA StutterKeeps == ASSUME AiInv, UNCHANGED aiVars PROVE AiInv'
<1>1. UNCHANGED <<now, qpc, qreq, qclock, received, buckets, qbucket, spent, undone, spentThen,
                  breakers, qnth, history, failedAt>>
  BY DEF aiVars, limitVars, chainVars
<1>2. Shape'
  BY <1>1 DEF AiInv, Shape, AiTypeOK
<1>3. ClocksOK'
  BY <1>1 DEF AiInv, ClocksOK
<1>4. BucketsOK' /\ CopiesOK'
  BY <1>1 DEF AiInv, BucketsOK, CopiesOK, Paid
<1>5. StampsOK'
  BY <1>1 DEF AiInv, StampsOK, Provider
<1>6. ChainOK'
  BY <1>1 DEF AiInv, ChainOK, OutFor
<1> QED BY <1>2, <1>3, <1>4, <1>5, <1>6 DEF AiInv

----------------------------------------------------------------------------
(* The invariant holds in every reachable state, however the threads are           *)
(* preempted between what they read and what they write.                       *)
THEOREM AiInvariant == Spec => []AiInv
<1>1. AiInit => AiInv
  BY InitInv
<1>2. AiInv /\ [AiNext]_aiVars => AiInv'
  <2> SUFFICES ASSUME AiInv, [AiNext]_aiVars PROVE AiInv'
    OBVIOUS
  <2>1. CASE Tick
    BY <2>1, TickKeeps
  <2>2. ASSUME NEW t \in Threads, Receive(t) PROVE AiInv'
    BY <2>2, ReceiveKeeps
  <2>3. ASSUME NEW t \in Threads, QueryStep(t) PROVE AiInv'
    <3>1. CASE ReadBucket(t)
      BY <3>1, ReadBucketKeeps
    <3>2. CASE SpendToken(t)
      BY <3>2, SpendTokenKeeps
    <3>3. CASE Allow(t)
      BY <3>3, AllowKeeps
    <3>4. CASE AllowCooled(t)
      BY <3>4, AllowCooledKeeps
    <3>5. CASE Stamp(t)
      BY <3>5, StampKeeps
    <3>6. CASE Generate(t)
      BY <3>6, GenerateKeeps
    <3>7. CASE OutOfBudget(t)
      BY <3>7, SucceedKeeps DEF OutOfBudget, At
    <3>8. CASE GenerateRaises(t)
      BY <3>8, RecordFailureKeeps DEF GenerateRaises, At
    <3>9. CASE ExecuteTools(t)
      BY <3>9, ExecuteToolsKeeps
    <3>10. CASE ToolRaises(t)
      BY <3>10, RecordFailureKeeps DEF ToolRaises, At
    <3>11. CASE AllFailed(t)
      BY <3>11, AllFailedKeeps
    <3> QED BY <2>3, <3>1, <3>2, <3>3, <3>4, <3>5, <3>6, <3>7, <3>8, <3>9, <3>10, <3>11
            DEF QueryStep
  <2>4. CASE UNCHANGED aiVars
    BY <2>4, StutterKeeps
  <2> QED BY <2>1, <2>2, <2>3, <2>4 DEF AiNext
<1> QED BY <1>1, <1>2, PTL DEF Spec

(* The types; in particular no thread stores a bucket that is overdrawn or more     *)
(* than full, whatever copy it computed it from (guardrails.py:35-44).           *)
THEOREM AiTypeCorrect == Spec => []AiTypeOK
<1>1. AiInv => AiTypeOK
  BY DEF AiInv, Shape
<1> QED BY <1>1, AiInvariant, PTL

(* A tenant gets its burst, the refill for the time that passed, and one query      *)
(* more for every spend that a write from an older copy undid                 *)
(* (guardrails.py:34-44).                                                   *)
THEOREM SpendingIsBounded == Spec => []SpendingBounded
<1>1. AiInv => SpendingBounded
  <2> SUFFICES ASSUME AiInv, NEW a \in Tenants
               PROVE  spent[a] <= Capacity + Refill * (now - Cooldown) + undone[a]
    BY DEF SpendingBounded
  <2>1. /\ Capacity \in Nat /\ now \in Cooldown..MaxTime /\ Cooldown \in Nat /\ MaxTime \in Nat
        /\ spent[a] \in Nat /\ undone[a] \in Nat
    BY AiAssumption, BreakerAssumption DEF AiInv, Shape, AiTypeOK
  <2>2. Refill * (now - Cooldown) \in Nat
    <3>1. now - Cooldown \in Int /\ now - Cooldown >= 0
      BY <2>1
    <3> QED BY <3>1, RefillAdds
  <2>3. CASE a \notin DOMAIN buckets
    BY <2>1, <2>2, <2>3 DEF AiInv, BucketsOK
  <2>4. CASE a \in DOMAIN buckets
    <3>1. /\ buckets[a].tokens \in Nat /\ buckets[a].ts \in Nat /\ buckets[a].ts <= now
          /\ spent[a] + buckets[a].tokens <= Capacity + Refill * (buckets[a].ts - Cooldown) + undone[a]
      BY <2>1, <2>4 DEF AiInv, Shape, AiTypeOK, BucketsOK, Paid
    <3>2. /\ Refill * (buckets[a].ts - Cooldown) <= Refill * (now - Cooldown)
          /\ Refill * (buckets[a].ts - Cooldown) \in Int
      <4>1. /\ buckets[a].ts - Cooldown \in Int /\ now - Cooldown \in Int
            /\ buckets[a].ts - Cooldown <= now - Cooldown
        BY <2>1, <3>1
      <4> QED BY <4>1, RefillAdds
    <3> QED BY <2>1, <2>2, <3>1, <3>2
  <2> QED BY <2>3, <2>4
<1> QED BY <1>1, AiInvariant, PTL

(* A query is given up only in an outage: every provider of the chain failed        *)
(* during it or within the cooldown before it (gateway.py:67-79).              *)
THEOREM OutagesAreRecent == Spec => []OutageIsRecent
<1>1. AiInv => OutageIsRecent
  <2> SUFFICES ASSUME AiInv, NEW t \in Threads, qpc[t] = "failed", NEW p \in Providers
               PROVE  failedAt[p] >= 0 /\ failedAt[p] + Cooldown >= qreq[t].began
    BY DEF OutageIsRecent
  <2>1. PICK n \in DOMAIN Chain : p = Chain[n]
    BY DEF Providers
  <2> QED BY <2>1 DEF AiInv, ChainOK, OutFor
<1> QED BY <1>1, AiInvariant, PTL
----------------------------------------------------------------------------
(* The conversations.  The wire format is flattened item by item; that the        *)
(* flattening of one item more is the old one and that item's messages is shown    *)
(* by the least counterexample.                                              *)
Less == {ss \in Nat \X Nat : ss[1] < ss[2]}

LEMMA Least ==
    ASSUME NEW T \in SUBSET Nat, T # {}
    PROVE  \E n \in T : \A m \in Nat : m < n => m \notin T
<1>1. IsWellFoundedOn(Less, Nat)
  BY NatLessThanWellFounded DEF OpToRel, Less
<1>2. PICK n \in T : \A m \in T : <<m, n>> \notin Less
  BY <1>1, WFMin, Zenon
<1> QED BY <1>2 DEF Less

FlatUpTo(seqs, m, f) == f = [i \in 1..m |-> IF i = 1 THEN seqs[i] ELSE f[i - 1] \o seqs[i]]

LEMMA FlatsExist ==
    ASSUME NEW seqs, NEW m \in Nat
    PROVE  \E f : FlatUpTo(seqs, m, f)
<1> DEFINE T == {k \in Nat : ~ \E f : FlatUpTo(seqs, k, f)}
<1>1. ASSUME T # {} PROVE FALSE
  <2>1. PICK k \in T : \A j \in Nat : j < k => j \notin T
    BY <1>1, Least
  <2>2. CASE k = 0
    <3> DEFINE f == [i \in 1..k |-> << >>]
    <3>1. \A i \in 1..k : FALSE
      BY <2>2
    <3>2. f = [i \in 1..k |-> IF i = 1 THEN seqs[i] ELSE f[i - 1] \o seqs[i]]
      BY <3>1
    <3>3. FlatUpTo(seqs, k, f)
      BY <3>2 DEF FlatUpTo
    <3> QED BY <3>3
  <2>3. CASE k # 0
    <3>1. k - 1 \in Nat /\ k - 1 < k
      BY <2>3
    <3>2. PICK g : FlatUpTo(seqs, k - 1, g)
      BY <2>1, <3>1
    <3> DEFINE last == IF k = 1 THEN seqs[k] ELSE g[k - 1] \o seqs[k]
               f == [i \in 1..k |-> IF i = k THEN last ELSE g[i]]
    <3>3. \A i \in 1..k : f[i] = IF i = 1 THEN seqs[i] ELSE f[i - 1] \o seqs[i]
      <4> SUFFICES ASSUME NEW i \in 1..k PROVE f[i] = IF i = 1 THEN seqs[i] ELSE f[i - 1] \o seqs[i]
        OBVIOUS
      <4>1. CASE i = k
        <5>1. f[i] = last
          BY <4>1
        <5>2. i # 1 => f[i - 1] = g[i - 1]
          BY <4>1, <3>1
        <5> QED BY <4>1, <5>1, <5>2
      <4>2. CASE i # k
        <5>1. i \in 1..(k - 1) /\ f[i] = g[i]
          BY <4>2
        <5>2. i # 1 => f[i - 1] = g[i - 1]
          BY <5>1
        <5>3. g[i] = IF i = 1 THEN seqs[i] ELSE g[i - 1] \o seqs[i]
          BY <3>2, <5>1 DEF FlatUpTo
        <5> HIDE DEF f
        <5> QED BY <5>1, <5>2, <5>3
      <4> QED BY <4>1, <4>2
    <3>4. f = [i \in 1..k |-> f[i]]
      OBVIOUS
    <3>5. f = [i \in 1..k |-> IF i = 1 THEN seqs[i] ELSE f[i - 1] \o seqs[i]]
      <4> HIDE DEF f
      <4> QED BY <3>3, <3>4
    <3>6. FlatUpTo(seqs, k, f)
      BY <3>5 DEF FlatUpTo
    <3> QED BY <3>6
  <2> QED BY <2>2, <2>3
<1> QED BY <1>1

LEMMA FlatsAgree ==
    ASSUME NEW A, NEW B, NEW k \in Nat, NEW m \in Nat, k <= m, NEW f, NEW g,
           \A i \in 1..k : A[i] = B[i], FlatUpTo(A, k, f), FlatUpTo(B, m, g)
    PROVE  \A i \in 1..k : f[i] = g[i]
<1> DEFINE T == {i \in 1..k : f[i] # g[i]}
<1>1. ASSUME T # {} PROVE FALSE
  <2>0. T \in SUBSET Nat
    OBVIOUS
  <2>1. PICK i \in T : \A j \in Nat : j < i => j \notin T
    BY <1>1, <2>0, Least
  <2>2. i \in 1..k /\ i \in 1..m /\ A[i] = B[i] /\ f[i] # g[i]
    OBVIOUS
  <2>3. /\ f[i] = IF i = 1 THEN A[i] ELSE f[i - 1] \o A[i]
        /\ g[i] = IF i = 1 THEN B[i] ELSE g[i - 1] \o B[i]
    BY <2>2 DEF FlatUpTo
  <2>4. i # 1 => f[i - 1] = g[i - 1]
    <3>1. i # 1 => i - 1 \in Nat /\ i - 1 \in 1..k /\ i - 1 < i
      BY <2>2
    <3> QED BY <2>1, <3>1
  <2> QED BY <2>2, <2>3, <2>4
<1> QED BY <1>1

LEMMA FlattenIs ==
    ASSUME NEW seqs, Len(seqs) \in Nat \ {0}
    PROVE  \E f : FlatUpTo(seqs, Len(seqs), f) /\ FlattenSeq(seqs) = f[Len(seqs)]
<1>1. \E f : FlatUpTo(seqs, Len(seqs), f)
  BY FlatsExist
<1>2. PICK f : f = CHOOSE h : FlatUpTo(seqs, Len(seqs), h)
  OBVIOUS
<1>3. FlatUpTo(seqs, Len(seqs), f)
  BY <1>1, <1>2
<1>4. FlattenSeq(seqs) = f[Len(seqs)]
  BY <1>2 DEF FlattenSeq, FlatUpTo
<1> QED BY <1>3, <1>4

LEMMA FlattenOne ==
    ASSUME NEW seqs, Len(seqs) = 1
    PROVE  FlattenSeq(seqs) = seqs[1]
<1>1. PICK f : FlatUpTo(seqs, 1, f) /\ FlattenSeq(seqs) = f[1]
  <2>1. Len(seqs) \in Nat \ {0}
    OBVIOUS
  <2> QED BY <2>1, FlattenIs
<1>2. 1 \in 1..1
  OBVIOUS
<1> QED BY <1>1, <1>2 DEF FlatUpTo

LEMMA FlattenAppended ==
    ASSUME NEW A, NEW B, NEW k \in Nat \ {0}, Len(A) = k, Len(B) = k + 1,
           \A i \in 1..k : A[i] = B[i]
    PROVE  FlattenSeq(B) = FlattenSeq(A) \o B[k + 1]
<1>1. PICK f : FlatUpTo(A, k, f) /\ FlattenSeq(A) = f[k]
  BY FlattenIs
<1>2. PICK g : FlatUpTo(B, k + 1, g) /\ FlattenSeq(B) = g[k + 1]
  <2>1. k + 1 \in Nat \ {0}
    OBVIOUS
  <2> QED BY <2>1, FlattenIs
<1>3. k \in 1..k /\ k + 1 \in 1..(k + 1) /\ k + 1 # 1 /\ (k + 1) - 1 = k /\ k <= k + 1 /\ k + 1 \in Nat
  OBVIOUS
<1>4. f[k] = g[k]
  BY <1>1, <1>2, <1>3, FlatsAgree
<1>5. g[k + 1] = g[(k + 1) - 1] \o B[k + 1]
  BY <1>2, <1>3 DEF FlatUpTo
<1> QED BY <1>1, <1>2, <1>3, <1>4, <1>5

(* Tool calls, their results, and the items of a history.                       *)
Names == STRING \cup Allowlist
Outputs == {"ledger data", "not permitted"}
ToolCalls == Seq([id : Nat, name : Names])
ToolOutputs == Seq([id : Nat, output : Outputs])
Items == [role : {"user"}, text : Questions] \cup [role : {"tool_use"}, calls : ToolCalls]
             \cup [role : {"tool_result"}, results : ToolOutputs]

(* OpenAI's messages, and those of a history behind the system prompt.            *)
WireMessages == [role : {"system", "user", "assistant"}, calls : ToolCalls]
                    \cup [role : {"tool"}, id : Nat]
Prompt == [role |-> "system", calls |-> << >>]
WireItems(h) == [n \in DOMAIN h |-> OpenAiItem(h[n])]
Wire(h) == FlattenSeq(WireItems(h))

(* A history that both vendors' APIs accept.                                  *)
Conversation(h) ==
    /\ h \in Seq(Items) /\ h # << >>
    /\ Wire(h) \in Seq(WireMessages)
    /\ ClaudeAccepts(ClaudeMessages(h))
    /\ OpenAiAccepts(OpenAiMessages(h))

LEMMA FunctionIsSeq ==
    ASSUME NEW S, NEW n \in Nat, NEW f \in [1..n -> S]
    PROVE  f \in Seq(S) /\ Len(f) = n
<1>1. f \in Seq(S)
  OBVIOUS
<1>2. Len(f) \in Nat /\ DOMAIN f = 1..Len(f)
  BY <1>1, LenProperties
<1> QED BY <1>1, <1>2

LEMMA SingletonIsSeq == ASSUME NEW S, NEW w \in S PROVE <<w>> \in Seq(S)
OBVIOUS

LEMMA WireIs == ASSUME NEW h PROVE OpenAiMessages(h) = <<Prompt>> \o Wire(h)
BY DEF OpenAiMessages, Wire, WireItems, Prompt

(* One item more on the wire: its messages behind those of the others.           *)
LEMMA WireAppended ==
    ASSUME NEW h \in Seq(Items), h # << >>, NEW x \in Items
    PROVE  Wire(Append(h, x)) = Wire(h) \o OpenAiItem(x)
<1> DEFINE S == {OpenAiItem(y) : y \in Items}
           A == WireItems(h)
           B == WireItems(Append(h, x))
<1>1. PICK k \in Nat \ {0} : k = Len(h)
  BY LenProperties, EmptySeq
<1>2. /\ DOMAIN h = 1..k /\ \A n \in 1..k : h[n] \in Items /\ Append(h, x)[n] = h[n]
      /\ DOMAIN Append(h, x) = 1..(k + 1) /\ Append(h, x)[k + 1] = x
  BY <1>1
<1>3. A \in [1..k -> S] /\ B \in [1..(k + 1) -> S]
  <2>1. \A n \in 1..k : A[n] = OpenAiItem(h[n]) /\ A[n] \in S
    BY <1>2 DEF WireItems
  <2>2. \A n \in 1..(k + 1) : B[n] = OpenAiItem(Append(h, x)[n]) /\ Append(h, x)[n] \in Items
    BY <1>1, <1>2 DEF WireItems
  <2>3. \A n \in 1..(k + 1) : B[n] \in S
    BY <2>2
  <2>4. A = [n \in 1..k |-> A[n]] /\ B = [n \in 1..(k + 1) |-> B[n]]
    BY <1>2 DEF WireItems
  <2> HIDE DEF A, B, S
  <2> QED BY <2>1, <2>3, <2>4
<1>4. Len(A) = k /\ Len(B) = k + 1
  <2> HIDE DEF A, B, S
  <2>1. k + 1 \in Nat
    OBVIOUS
  <2> QED BY <1>3, <2>1, FunctionIsSeq
<1>5. (\A n \in 1..k : A[n] = B[n]) /\ B[k + 1] = OpenAiItem(x)
  BY <1>1, <1>2 DEF WireItems
<1>6. FlattenSeq(B) = FlattenSeq(A) \o B[k + 1]
  <2> HIDE DEF A, B
  <2> QED BY <1>4, <1>5, FlattenAppended
<1> QED BY <1>5, <1>6 DEF Wire

(* The question alone is a conversation.                                      *)
LEMMA QuestionAsked ==
    ASSUME NEW q \in Questions
    PROVE  Conversation(<<UserItem(q)>>)
<1> DEFINE h == <<UserItem(q)>>
           c == ClaudeMessages(h)
           user == [role |-> "user", calls |-> << >>]
<1>1. /\ UserItem(q) \in Items /\ UserItem(q).role = "user"
      /\ DOMAIN h = 1..1 /\ h[1] = UserItem(q) /\ Len(h) = 1
  BY DEF UserItem, Items
<1>2. h \in Seq(Items) /\ h # << >>
  BY <1>1
<1>3. Wire(h) = <<user>>
  <2>1. OpenAiItem(UserItem(q)) = <<user>>
    BY <1>1 DEF OpenAiItem
  <2>2. WireItems(h) = [n \in 1..1 |-> <<user>>]
    BY <1>1, <2>1 DEF WireItems
  <2>3. [n \in 1..1 |-> <<user>>] \in [1..1 -> {<<user>>}]
    OBVIOUS
  <2>4. Len(WireItems(h)) = 1 /\ WireItems(h)[1] = <<user>>
    <3>1. 1 \in Nat
      OBVIOUS
    <3>2. WireItems(h) \in [1..1 -> {<<user>>}]
      BY <2>2, <2>3
    <3> HIDE DEF h, user
    <3> QED BY <2>2, <3>1, <3>2, FunctionIsSeq
  <2> QED BY <2>4, FlattenOne DEF Wire
<1>4. user \in WireMessages /\ Wire(h) \in Seq(WireMessages)
  <2>1. << >> \in ToolCalls
    BY DEF ToolCalls
  <2>2. user \in WireMessages
    BY <2>1 DEF WireMessages
  <2> HIDE DEF h, user
  <2> QED BY <1>3, <2>2, SingletonIsSeq
<1>5. ClaudeAccepts(c)
  <2>1. c = [n \in 1..1 |-> ClaudeMessage(UserItem(q))]
    BY <1>1 DEF ClaudeMessages
  <2>2. ClaudeMessage(UserItem(q)) = [role |-> "user", uses |-> << >>, results |-> << >>]
    BY <1>1 DEF ClaudeMessage
  <2>3. Len(c) = 1 /\ DOMAIN c = 1..1
    <3>1. 1 \in Nat /\ c \in [1..1 -> {ClaudeMessage(UserItem(q))}]
      BY <2>1
    <3> HIDE DEF c
    <3> QED BY <3>1, FunctionIsSeq
  <2>4. c[1].role = "user" /\ c[1].results = << >> /\ Ids(<< >>) = << >>
    BY <2>1, <2>2 DEF Ids
  <2> HIDE DEF c
  <2> QED BY <2>3, <2>4 DEF ClaudeAccepts
<1>6. OpenAiAccepts(OpenAiMessages(h))
  <2>1. OpenAiMessages(h) = <<Prompt, user>>
    <3>1. OpenAiMessages(h) = <<Prompt>> \o <<user>>
      BY <1>3, WireIs
    <3> HIDE DEF user
    <3> QED BY <3>1
  <2>2. /\ DOMAIN OpenAiMessages(h) = 1..2 /\ Len(OpenAiMessages(h)) = 2
        /\ OpenAiMessages(h)[1].role = "system" /\ OpenAiMessages(h)[2].role = "user"
    BY <2>1 DEF Prompt
  <2>3. PICK m : m = OpenAiMessages(h)
    OBVIOUS
  <2>4. \A n \in DOMAIN m : m[n].role \in {"system", "user"}
    BY <2>2, <2>3
  <2> QED BY <2>2, <2>3, <2>4 DEF OpenAiAccepts
<1> QED BY <1>2, <1>4, <1>5, <1>6 DEF Conversation

(* A round behind accepted messages, for OpenAI: the calls and a message for each.  *)
LEMMA OpenAiRound ==
    ASSUME NEW m \in Seq(WireMessages), m # << >>, OpenAiAccepts(m),
           NEW c \in ToolCalls, c # << >>,
           NEW d \in Seq(WireMessages), Len(d) = Len(c),
           \A k \in 1..Len(c) : d[k].role = "tool" /\ d[k].id = c[k].id
    PROVE  OpenAiAccepts((m \o <<[role |-> "assistant", calls |-> c]>>) \o d)
<1> DEFINE a == [role |-> "assistant", calls |-> c]
           M == (m \o <<a>>) \o d
<1>1. PICK L \in Nat \ {0}, K \in Nat \ {0} : L = Len(m) /\ K = Len(c)
  BY LenProperties, EmptySeq DEF ToolCalls
<1>2. a \in WireMessages /\ a.role = "assistant" /\ a.calls = c
  BY DEF WireMessages
<1>3. /\ Len(M) = L + 1 + K /\ DOMAIN M = 1..(L + 1 + K)
      /\ \A n \in 1..L : M[n] = m[n]
      /\ M[L + 1] = a
      /\ \A k \in 1..K : M[L + 1 + k] = d[k]
  <2>1. <<a>> \in Seq(WireMessages) /\ Len(<<a>>) = 1 /\ <<a>>[1] = a
    BY <1>2
  <2>2. PICK b : b = <<a>>
    OBVIOUS
  <2>3. PICK e : e = m \o b
    OBVIOUS
  <2>4. /\ e \in Seq(WireMessages) /\ Len(e) = L + 1
        /\ (\A n \in 1..L : e[n] = m[n]) /\ e[L + 1] = a
    BY <1>1, <2>1, <2>2, <2>3
  <2>5. /\ (e \o d) \in Seq(WireMessages) /\ Len(e \o d) = L + 1 + K
        /\ (\A n \in 1..(L + 1) : (e \o d)[n] = e[n]) /\ (\A k \in 1..K : (e \o d)[L + 1 + k] = d[k])
    <3>1. /\ Len(e \o d) = Len(e) + Len(d)
          /\ \A n \in 1..(Len(e) + Len(d)) :
               (e \o d)[n] = IF n <= Len(e) THEN e[n] ELSE d[n - Len(e)]
          /\ (e \o d) \in Seq(WireMessages)
      <4>1. e \in Seq(WireMessages) /\ d \in Seq(WireMessages)
        BY <2>4
      <4> HIDE DEF a, M
      <4> QED BY <4>1, ConcatProperties, Zenon
    <3>2. Len(e) = L + 1 /\ Len(d) = K
      BY <1>1, <2>4
    <3>3. \A k \in 1..K : /\ L + 1 + k \in 1..((L + 1) + K) /\ ~(L + 1 + k <= L + 1)
                          /\ (L + 1 + k) - (L + 1) = k
      OBVIOUS
    <3>4. \A n \in 1..(L + 1) : n \in 1..((L + 1) + K) /\ n <= L + 1
      OBVIOUS
    <3> QED BY <3>1, <3>2, <3>3, <3>4
  <2>6. DOMAIN (e \o d) = 1..(L + 1 + K)
    BY <2>5, LenProperties
  <2> QED BY <2>2, <2>3, <2>4, <2>5, <2>6
<1>4. DOMAIN m = 1..L /\ DOMAIN c = 1..K
  BY <1>1 DEF ToolCalls
<1>5. /\ m[1].role = "system"
      /\ \A n \in 1..L : m[n].role = "assistant" => Answered(m, n)
      /\ \A n \in 1..L : m[n].role = "tool" => m[n - 1].role \in {"assistant", "tool"}
  BY <1>4 DEF OpenAiAccepts
<1>6. \A n \in 1..(L + 1 + K) : n \in 1..L \/ n = L + 1 \/ \E k \in 1..K : n = L + 1 + k
  <2> SUFFICES ASSUME NEW n \in 1..(L + 1 + K), n \notin 1..L, n # L + 1
               PROVE  \E k \in 1..K : n = L + 1 + k
    OBVIOUS
  <2>1. n - (L + 1) \in 1..K /\ n = L + 1 + (n - (L + 1))
    BY <1>1
  <2> QED BY <2>1
<1> HIDE DEF a, M
<1>7. \A k \in 1..K : M[L + 1 + k].role = "tool" /\ M[L + 1 + k].id = c[k].id
  BY <1>1, <1>3
<1>8. M[1].role = "system" /\ M[Len(M)].role = "tool"
  <2>1. 1 \in 1..L /\ K \in 1..K
    OBVIOUS
  <2> QED BY <1>3, <1>5, <1>7, <2>1
<1>9. ASSUME NEW n \in DOMAIN M, M[n].role = "assistant" PROVE Answered(M, n)
  <2>1. CASE n \in 1..L
    <3>1. Answered(m, n) /\ m[n] = M[n] /\ m[n].role = "assistant"
      BY <1>3, <1>5, <1>9, <2>1
    <3>2. m[n].calls \in ToolCalls
      <4>1. m[n] \in WireMessages
        BY <1>4, <2>1
      <4> QED BY <3>1, <4>1 DEF WireMessages
    <3>3. PICK b \in ToolCalls, J \in Nat :
             b = m[n].calls /\ b = M[n].calls /\ J = Len(b) /\ DOMAIN b = 1..J
      BY <3>1, <3>2, LenProperties DEF ToolCalls
    <3>4. /\ \A k \in 1..J : n + k \in 1..L /\ m[n + k].role = "tool" /\ m[n + k].id = b[k].id
          /\ n + J + 1 \in 1..L => m[n + J + 1].role # "tool"
      <4>1. /\ \A k \in DOMAIN m[n].calls : /\ n + k \in DOMAIN m
                                            /\ m[n + k].role = "tool"
                                            /\ m[n + k].id = m[n].calls[k].id
            /\ n + Len(m[n].calls) + 1 \in DOMAIN m => m[n + Len(m[n].calls) + 1].role # "tool"
        BY <3>1, Zenon DEF Answered
      <4>2. m[n].calls = b /\ DOMAIN b = 1..J /\ Len(b) = J
        BY <3>3
      <4>3. /\ \A k \in DOMAIN b : n + k \in DOMAIN m /\ m[n + k].role = "tool" /\ m[n + k].id = b[k].id
            /\ n + Len(b) + 1 \in DOMAIN m => m[n + Len(b) + 1].role # "tool"
        BY <4>1, <4>2, Zenon
      <4>4. \A k \in 1..J : n + k \in 1..L /\ m[n + k].role = "tool" /\ m[n + k].id = b[k].id
        BY <1>4, <4>2, <4>3, Zenon
      <4>5. n + J + 1 \in 1..L => m[n + J + 1].role # "tool"
        BY <1>4, <4>2, <4>3, Zenon
      <4> QED BY <4>4, <4>5
    <3>5. \A k \in 1..J : n + k \in DOMAIN M /\ M[n + k].role = "tool" /\ M[n + k].id = b[k].id
      <4>1. \A i \in 1..L : i \in DOMAIN M /\ M[i] = m[i]
        BY <1>3
      <4> QED BY <3>4, <4>1, Zenon
    <3>6. n + J + 1 \in DOMAIN M => M[n + J + 1].role # "tool"
      <4>1. CASE n + J + 1 \in 1..L
        BY <1>3, <3>4, <4>1
      <4>2. CASE n + J + 1 \notin 1..L
        <5>1. n + J <= L
          <6>1. CASE J = 0
            BY <2>1, <6>1
          <6>2. CASE J # 0
            <7>1. J \in 1..J
              BY <6>2
            <7> QED BY <3>4, <7>1
          <6> QED BY <6>1, <6>2
        <5>2. n + J + 1 = L + 1
          BY <2>1, <4>2, <5>1
        <5> QED BY <1>2, <1>3, <5>2
      <4> QED BY <4>1, <4>2
    <3> QED BY <3>3, <3>5, <3>6 DEF Answered
  <2>2. CASE n = L + 1
    <3>1. M[n].calls = c
      BY <1>2, <1>3, <2>2
    <3>2. \A k \in 1..K : n + k \in DOMAIN M /\ M[n + k].role = "tool" /\ M[n + k].id = c[k].id
      BY <1>3, <1>7, <2>2
    <3>3. n + K + 1 \notin DOMAIN M
      BY <1>3, <2>2
    <3> QED BY <1>1, <1>4, <3>1, <3>2, <3>3 DEF Answered
  <2>3. CASE \E k \in 1..K : n = L + 1 + k
    BY <1>7, <1>9, <2>3
  <2> QED BY <1>3, <1>6, <2>1, <2>2, <2>3
<1>10. ASSUME NEW n \in DOMAIN M, M[n].role = "tool" PROVE M[n - 1].role \in {"assistant", "tool"}
  <2>1. CASE n \in 1..L
    <3>1. n # 1
      BY <1>3, <1>5, <1>10, <2>1
    <3>2. n - 1 \in 1..L
      BY <2>1, <3>1
    <3> QED BY <1>3, <1>5, <1>10, <2>1, <3>2
  <2>2. CASE n = L + 1
    BY <1>2, <1>3, <1>10, <2>2
  <2>3. ASSUME NEW k \in 1..K, n = L + 1 + k PROVE M[n - 1].role \in {"assistant", "tool"}
    <3>1. CASE k = 1
      <4>1. n - 1 = L + 1
        BY <2>3, <3>1
      <4> QED BY <1>2, <1>3, <4>1
    <3>2. CASE k # 1
      <4>1. k - 1 \in 1..K /\ n - 1 = L + 1 + (k - 1)
        BY <2>3, <3>2
      <4> QED BY <1>7, <4>1
    <3> QED BY <3>1, <3>2
  <2> QED BY <1>3, <1>6, <2>1, <2>2, <2>3
<1>11. OpenAiAccepts(M)
  BY <1>8, <1>9, <1>10 DEF OpenAiAccepts
<1> QED BY <1>11 DEF M, a

(* A round behind an accepted history, for Claude: an assistant turn, and a user     *)
(* turn with its results.                                                     *)
LEMMA ClaudeRound ==
    ASSUME NEW g \in Seq(Items), g # << >>, ClaudeAccepts(ClaudeMessages(g)),
           NEW c \in ToolCalls, NEW r \in ToolOutputs, Ids(r) = Ids(c)
    PROVE  ClaudeAccepts(ClaudeMessages(Append(Append(g, ToolUse(c)), ToolResult(r))))
<1> DEFINE h == Append(g, ToolUse(c))
           G == Append(h, ToolResult(r))
           S == {ClaudeMessage(x) : x \in Items}
<1>1. PICK L \in Nat \ {0} : L = Len(g)
  BY LenProperties, EmptySeq
<1>2. ToolUse(c) \in Items /\ ToolResult(r) \in Items
  BY DEF ToolUse, ToolResult, Items
<1>3. /\ DOMAIN g = 1..L /\ DOMAIN G = 1..(L + 2)
      /\ \A n \in 1..L : g[n] \in Items /\ G[n] = g[n]
      /\ G[L + 1] = ToolUse(c) /\ G[L + 2] = ToolResult(r)
  <2>1. /\ h \in Seq(Items) /\ Len(h) = L + 1
        /\ (\A n \in 1..L : h[n] = g[n]) /\ h[L + 1] = ToolUse(c)
    BY <1>1, <1>2
  <2>2. PICK e : e = h
    OBVIOUS
  <2>3. PICK x : x = ToolResult(r)
    OBVIOUS
  <2>4. /\ Append(e, x) \in Seq(Items) /\ Len(Append(e, x)) = L + 2
        /\ (\A n \in 1..(L + 1) : Append(e, x)[n] = e[n]) /\ Append(e, x)[L + 2] = x
    <3>1. e \in Seq(Items) /\ Len(e) = L + 1 /\ x \in Items
      BY <1>2, <2>1, <2>2, <2>3
    <3> HIDE DEF h, G
    <3> QED BY <3>1
  <2>5. DOMAIN Append(e, x) = 1..(L + 2)
    BY <2>4, LenProperties
  <2>6. G = Append(e, x)
    BY <2>2, <2>3
  <2>7. \A n \in 1..L : g[n] \in Items /\ n \in 1..(L + 1)
    BY <1>1
  <2>8. DOMAIN g = 1..L /\ L + 1 \in 1..(L + 1)
    BY <1>1, LenProperties
  <2> HIDE DEF h, G
  <2> QED BY <2>1, <2>2, <2>3, <2>4, <2>5, <2>6, <2>7, <2>8
<1>4. PICK p : p = ClaudeMessages(g)
  OBVIOUS
<1>5. PICK P : P = ClaudeMessages(G)
  OBVIOUS
<1> HIDE DEF h, G
<1>6. /\ p = [n \in 1..L |-> ClaudeMessage(g[n])]
      /\ P = [n \in 1..(L + 2) |-> ClaudeMessage(G[n])]
  BY <1>3, <1>4, <1>5 DEF ClaudeMessages
<1>7. Len(p) = L /\ DOMAIN p = 1..L
  <2>1. p \in [1..L -> {ClaudeMessage(g[n]) : n \in 1..L}] /\ L \in Nat
    BY <1>6
  <2> QED BY <2>1, FunctionIsSeq
<1>8. Len(P) = L + 2 /\ DOMAIN P = 1..(L + 2)
  <2>1. P \in [1..(L + 2) -> {ClaudeMessage(G[n]) : n \in 1..(L + 2)}] /\ L + 2 \in Nat
    BY <1>6
  <2> QED BY <2>1, FunctionIsSeq
<1>9. /\ \A n \in 1..L : P[n] = p[n]
      /\ P[L + 1] = [role |-> "assistant", uses |-> c, results |-> << >>]
      /\ P[L + 2] = [role |-> "user", uses |-> << >>, results |-> r]
  <2>1. /\ ClaudeMessage(ToolUse(c)) = [role |-> "assistant", uses |-> c, results |-> << >>]
        /\ ClaudeMessage(ToolResult(r)) = [role |-> "user", uses |-> << >>, results |-> r]
    BY DEF ClaudeMessage, ToolUse, ToolResult
  <2>2. L + 1 \in 1..(L + 2) /\ L + 2 \in 1..(L + 2) /\ \A n \in 1..L : n \in 1..(L + 2)
    OBVIOUS
  <2>3. P[L + 1] = ClaudeMessage(G[L + 1]) /\ P[L + 2] = ClaudeMessage(G[L + 2])
    BY <1>6, <2>2
  <2>4. \A n \in 1..L : P[n] = ClaudeMessage(g[n]) /\ p[n] = ClaudeMessage(g[n])
    BY <1>3, <1>6, <2>2
  <2> QED BY <1>3, <2>1, <2>3, <2>4
<1>10. /\ \A n \in 1..L : p[n].role = (IF n % 2 = 1 THEN "user" ELSE "assistant")
       /\ p[L].role = "user"
       /\ \A n \in 1..L : Ids(p[n].results) = IF n = 1 THEN << >> ELSE Ids(p[n - 1].uses)
  BY <1>4, <1>7 DEF ClaudeAccepts
<1>11. L \in 1..L /\ L % 2 = 1
  BY <1>10
<1>12. (L + 1) % 2 # 1 /\ (L + 2) % 2 = 1
  BY <1>11
<1>13. p[L].uses = << >>
  <2>1. p[L] = ClaudeMessage(g[L]) /\ g[L] \in Items /\ p[L].role = "user"
    BY <1>3, <1>6, <1>10, <1>11
  <2>2. ASSUME NEW x \in Items, ClaudeMessage(x).role = "user" PROVE ClaudeMessage(x).uses = << >>
    BY <2>2 DEF ClaudeMessage, Items
  <2> QED BY <2>1, <2>2
<1>14. \A n \in DOMAIN P : n \in 1..L \/ n = L + 1 \/ n = L + 2
  BY <1>8
<1>15. \A n \in DOMAIN P : P[n].role = (IF n % 2 = 1 THEN "user" ELSE "assistant")
  <2> SUFFICES ASSUME NEW n \in DOMAIN P
               PROVE  P[n].role = (IF n % 2 = 1 THEN "user" ELSE "assistant")
    OBVIOUS
  <2>1. CASE n \in 1..L
    BY <1>9, <1>10, <2>1, Zenon
  <2>2. CASE n = L + 1
    <3>1. P[n].role = "assistant" /\ n % 2 # 1
      BY <1>9, <1>12, <2>2
    <3> QED BY <3>1
  <2>3. CASE n = L + 2
    <3>1. P[n].role = "user" /\ n % 2 = 1
      BY <1>9, <1>12, <2>3
    <3> QED BY <3>1
  <2> QED BY <1>14, <2>1, <2>2, <2>3
<1>16. P[Len(P)].role = "user"
  BY <1>8, <1>9
<1>17. ASSUME NEW n \in DOMAIN P
       PROVE  Ids(P[n].results) = IF n = 1 THEN << >> ELSE Ids(P[n - 1].uses)
  <2>1. CASE n \in 1..L
    <3>1. n # 1 => n - 1 \in 1..L
      BY <2>1
    <3> QED BY <1>9, <1>10, <2>1, <3>1
  <2>2. CASE n = L + 1
    <3>1. n # 1 /\ n - 1 = L
      BY <2>2
    <3>2. P[n].results = << >> /\ P[n - 1].uses = << >>
      BY <1>9, <1>11, <1>13, <2>2, <3>1
    <3> QED BY <3>1, <3>2
  <2>3. CASE n = L + 2
    <3>1. n # 1 /\ n - 1 = L + 1
      BY <2>3
    <3>2. P[n].results = r /\ P[n - 1].uses = c
      BY <1>9, <2>3, <3>1
    <3> QED BY <3>1, <3>2
  <2> QED BY <1>14, <2>1, <2>2, <2>3
<1>18. ClaudeAccepts(P)
  BY <1>15, <1>16, <1>17 DEF ClaudeAccepts
<1> QED BY <1>5, <1>18 DEF G, h

(* The results of calls: one for each, with its id.                             *)
LEMMA ExecuteAnswers ==
    ASSUME NEW c \in ToolCalls
    PROVE  /\ Execute(c) \in ToolOutputs /\ Len(Execute(c)) = Len(c)
           /\ DOMAIN Execute(c) = 1..Len(c)
           /\ \A k \in 1..Len(c) : Execute(c)[k].id = c[k].id
           /\ Ids(Execute(c)) = Ids(c)
<1> DEFINE r == Execute(c)
<1>1. PICK K \in Nat : K = Len(c) /\ DOMAIN c = 1..K
  BY LenProperties DEF ToolCalls
<1>2. \A k \in 1..K : c[k] \in [id : Nat, name : Names]
  <2>1. \A T, n : c \in Seq(T) /\ n \in 1..Len(c) => c[n] \in T
    BY ElementOfSeq
  <2> QED BY <1>1, <2>1, Zenon DEF ToolCalls
<1>3. r = [n \in 1..K |-> [id |-> c[n].id,
                           output |-> IF c[n].name \in Allowlist THEN "ledger data" ELSE "not permitted"]]
  BY <1>1 DEF Execute
<1>4. r \in [1..K -> [id : Nat, output : Outputs]]
  <2>1. \A n \in 1..K : [id |-> c[n].id,
                          output |-> IF c[n].name \in Allowlist THEN "ledger data" ELSE "not permitted"]
                             \in [id : Nat, output : Outputs]
    <3> TAKE n \in 1..K
    <3>1. c[n].id \in Nat
      BY <1>2
    <3>2. (IF c[n].name \in Allowlist THEN "ledger data" ELSE "not permitted") \in Outputs
      BY DEF Outputs
    <3> QED BY <3>1, <3>2
  <2> HIDE DEF r
  <2> QED BY <1>3, <2>1
<1> HIDE DEF r
<1>5. \A k \in 1..K : r[k].id = c[k].id
  BY <1>3
<1>6. r \in ToolOutputs /\ Len(r) = K /\ DOMAIN r = 1..K
  BY <1>4, FunctionIsSeq DEF ToolOutputs
<1>7. Ids(r) = Ids(c)
  BY <1>1, <1>5, <1>6 DEF Ids
<1> QED BY <1>1, <1>5, <1>6, <1>7 DEF r

(* A round more is a conversation still.                                      *)
LEMMA RoundKeeps ==
    ASSUME NEW g, Conversation(g), NEW c \in ToolCalls, c # << >>
    PROVE  Conversation(Append(Append(g, ToolUse(c)), ToolResult(Execute(c))))
<1> DEFINE h == Append(g, ToolUse(c))
           G == Append(h, ToolResult(Execute(c)))
           a == [role |-> "assistant", calls |-> c]
<1>1. /\ g \in Seq(Items) /\ g # << >> /\ Wire(g) \in Seq(WireMessages)
      /\ ClaudeAccepts(ClaudeMessages(g)) /\ OpenAiAccepts(OpenAiMessages(g))
  BY DEF Conversation
<1>2. PICK r : r = Execute(c) /\ r \in ToolOutputs
  BY ExecuteAnswers
<1>3. /\ Len(r) = Len(c) /\ DOMAIN r = 1..Len(c) /\ Ids(r) = Ids(c)
      /\ \A k \in 1..Len(c) : r[k].id = c[k].id
  BY <1>2, ExecuteAnswers
<1>4. PICK d : d = [n \in 1..Len(c) |-> [role |-> "tool", id |-> r[n].id]]
  OBVIOUS
<1>5. d \in Seq(WireMessages) /\ Len(d) = Len(c) /\ \A k \in 1..Len(c) : d[k].role = "tool" /\ d[k].id = c[k].id
  <2>1. Len(c) \in Nat
    BY LenProperties DEF ToolCalls
  <2>2. \A k \in 1..Len(c) : c[k].id \in Nat
    <3>1. \A T, n : c \in Seq(T) /\ n \in 1..Len(c) => c[n] \in T
      BY ElementOfSeq
    <3>2. \A k \in 1..Len(c) : c[k] \in [id : Nat, name : Names]
      BY <3>1, Zenon DEF ToolCalls
    <3> QED BY <3>2
  <2>3. \A k \in 1..Len(c) : [role |-> "tool", id |-> r[k].id] \in WireMessages
    BY <1>3, <2>2 DEF WireMessages
  <2>4. d \in [1..Len(c) -> WireMessages]
    BY <1>4, <2>3
  <2>5. d \in Seq(WireMessages) /\ Len(d) = Len(c)
    BY <2>1, <2>4, FunctionIsSeq
  <2> QED BY <1>3, <1>4, <2>5
<1>6. ToolUse(c) \in Items /\ ToolResult(r) \in Items
  BY <1>2 DEF ToolUse, ToolResult, Items
<1>7. OpenAiItem(ToolUse(c)) = <<a>> /\ OpenAiItem(ToolResult(r)) = d
  <2>1. OpenAiItem(ToolResult(r)) = [n \in DOMAIN r |-> [role |-> "tool", id |-> r[n].id]]
    BY DEF OpenAiItem, ToolResult
  <2> QED BY <1>3, <1>4, <2>1 DEF OpenAiItem, ToolUse
<1>8. h \in Seq(Items) /\ h # << >> /\ G \in Seq(Items) /\ G # << >>
  <2>1. \A T, s, x : s \in Seq(T) /\ x \in T => Append(s, x) \in Seq(T) /\ Append(s, x) # << >>
    BY AppendProperties
  <2>2. h \in Seq(Items) /\ h # << >>
    BY <1>1, <1>6, <2>1
  <2>3. ToolResult(Execute(c)) \in Items
    BY <1>2, <1>6
  <2> QED BY <2>1, <2>2, <2>3
<1>9. Wire(G) = (Wire(g) \o <<a>>) \o d
  <2>1. Wire(h) = Wire(g) \o OpenAiItem(ToolUse(c))
    BY <1>1, <1>6, WireAppended
  <2>2. ToolResult(Execute(c)) \in Items /\ OpenAiItem(ToolResult(Execute(c))) = d
    BY <1>2, <1>6, <1>7
  <2>3. Wire(G) = Wire(h) \o d
    <3> HIDE DEF h
    <3> QED BY <1>8, <2>2, WireAppended
  <2> QED BY <1>7, <2>1, <2>3
<1>10. PICK b : b = <<a>> /\ b \in Seq(WireMessages)
  <2>1. a \in WireMessages
    BY DEF WireMessages
  <2> HIDE DEF a
  <2> QED BY <2>1, SingletonIsSeq
<1>11. PICK w : w = Wire(g) /\ w \in Seq(WireMessages)
  BY <1>1
<1>12. PICK s : s = <<Prompt>> /\ s \in Seq(WireMessages)
  <2>1. << >> \in ToolCalls
    BY DEF ToolCalls
  <2>2. Prompt \in WireMessages
    BY <2>1 DEF WireMessages, Prompt
  <2> QED BY <2>2, SingletonIsSeq
<1> HIDE DEF h, G, a
<1>13. (w \o b) \o d \in Seq(WireMessages) /\ w \o b \in Seq(WireMessages) /\ s \o w \in Seq(WireMessages)
  <2>1. w \o b \in Seq(WireMessages) /\ s \o w \in Seq(WireMessages)
    BY <1>10, <1>11, <1>12, ConcatProperties
  <2> QED BY <1>5, <2>1, ConcatProperties
<1>14. OpenAiMessages(g) = s \o w /\ OpenAiMessages(G) = ((s \o w) \o b) \o d
  <2>1. OpenAiMessages(g) = s \o w
    BY <1>11, <1>12, WireIs
  <2>2. OpenAiMessages(G) = s \o ((w \o b) \o d)
    BY <1>9, <1>10, <1>11, <1>12, WireIs
  <2>3. s \o ((w \o b) \o d) = (s \o (w \o b)) \o d
    BY <1>5, <1>12, <1>13, ConcatAssociative
  <2>4. s \o (w \o b) = (s \o w) \o b
    BY <1>10, <1>11, <1>12, ConcatAssociative
  <2> QED BY <2>1, <2>2, <2>3, <2>4
<1>15. OpenAiAccepts(OpenAiMessages(G))
  <2>1. s \o w # << >>
    <3>1. Len(s) = 1
      BY <1>12
    <3>2. Len(s \o w) = Len(s) + Len(w) /\ Len(w) \in Nat
      BY <1>11, <1>12, ConcatProperties, LenProperties
    <3>3. Len(s \o w) # 0
      BY <3>1, <3>2
    <3> QED BY <1>13, <3>3, EmptySeq
  <2>2. OpenAiAccepts(s \o w)
    BY <1>1, <1>14
  <2>3. PICK m : m = s \o w
    OBVIOUS
  <2>4. OpenAiAccepts((m \o <<[role |-> "assistant", calls |-> c]>>) \o d)
    BY <1>5, <1>13, <2>1, <2>2, <2>3, OpenAiRound
  <2> QED BY <1>10, <1>14, <2>3, <2>4 DEF a
<1>16. ClaudeAccepts(ClaudeMessages(G))
  BY <1>1, <1>2, <1>3, ClaudeRound DEF G, h
<1>17. Wire(G) \in Seq(WireMessages)
  BY <1>9, <1>10, <1>11, <1>13
<1> QED BY <1>8, <1>15, <1>16, <1>17 DEF Conversation, G, h

(* The k-th of a finite set of numbers, and so a place of the chain, exists.         *)
LEMMA PlaceExists ==
    ASSUME NEW U \in SUBSET Nat, IsFiniteSet(U), NEW k \in 1..Cardinality(U)
    PROVE  \E n \in U : Cardinality({m \in U : m < n}) = k - 1
<1> DEFINE Below(n) == {m \in U : m < n}
           UpTo(n) == {m \in U : m <= n}
           T == {j \in 1..Cardinality(U) : ~ \E n \in U : Cardinality(Below(n)) = j - 1}
<1>1. PICK C \in Nat : C = Cardinality(U)
  BY FS_CardinalityType
<1>2. ASSUME T # {} PROVE FALSE
  <2>1. T \in SUBSET Nat
    BY <1>1
  <2>2. PICK j \in T : \A i \in Nat : i < j => i \notin T
    BY <1>2, <2>1, Least
  <2>3. j \in 1..C /\ ~ \E n \in U : Cardinality(Below(n)) = j - 1
    BY <1>1
  <2>4. CASE j = 1
    <3>1. U # {}
      BY <1>1, <2>3, FS_EmptySet
    <3>2. PICK n \in U : \A m \in Nat : m < n => m \notin U
      BY <3>1, Least
    <3>3. Below(n) = {}
      BY <3>2
    <3>4. Cardinality(Below(n)) = 0
      BY <3>3, FS_EmptySet
    <3> HIDE DEF Below
    <3> QED BY <2>3, <2>4, <3>4
  <2>5. CASE j # 1
    <3>1. j - 1 \in 1..C /\ j - 1 < j /\ j - 1 \in Nat
      BY <2>3, <2>5
    <3>2. PICK n \in U : Cardinality(Below(n)) = (j - 1) - 1
      BY <1>1, <2>2, <3>1
    <3>3. UpTo(n) = Below(n) \cup {n} /\ n \notin Below(n)
      <4>1. \A m \in U : m <= n <=> m < n \/ m = n
        OBVIOUS
      <4>2. ~(n < n)
        OBVIOUS
      <4> QED BY <4>1, <4>2, Zenon
    <3>4. IsFiniteSet(Below(n)) /\ Below(n) \subseteq U
      BY FS_Subset
    <3>5. Cardinality(UpTo(n)) = j - 1
      <4> HIDE DEF Below, UpTo, T
      <4>1. Cardinality(UpTo(n)) = Cardinality(Below(n)) + 1
        BY <3>3, <3>4, FS_AddElement
      <4> QED BY <2>3, <3>2, <4>1
    <3>6. U \ UpTo(n) # {}
      <4>1. ASSUME U \ UpTo(n) = {} PROVE FALSE
        <5>1. UpTo(n) = U
          BY <4>1
        <5> HIDE DEF UpTo, T, Below
        <5> QED BY <1>1, <2>3, <3>5, <5>1
      <4> QED BY <4>1
    <3>7. PICK o \in U \ UpTo(n) : \A m \in Nat : m < o => m \notin U \ UpTo(n)
      BY <3>6, Least
    <3>8. Below(o) = UpTo(n)
      <4>1. o \in U /\ o > n
        BY <3>7
      <4>2. \A m \in U : m < o => m <= n
        BY <3>7
      <4>3. \A m \in U : m <= n => m < o
        BY <4>1
      <4> QED BY <4>2, <4>3, Zenon
    <3>9. o \in U /\ Cardinality(Below(o)) = j - 1
      <4> HIDE DEF Below, UpTo, T
      <4> QED BY <3>5, <3>7, <3>8
    <3> QED BY <2>3, <3>9
  <2> QED BY <2>4, <2>5
<1> QED BY <1>2

(* The chain holds nothing but the names that _build_providers knows.             *)
LEMMA ChainNames == \A n \in DOMAIN Chain : Chain[n] \in {"mock", "claude", "openai"}
<1> DEFINE usable == {n \in DOMAIN ProviderOrder :
                          ProviderOrder[n] \in {"mock"} \cup (ProviderKeys \cap {"claude", "openai"})}
           place(k) == CHOOSE n \in usable : Cardinality({m \in usable : m < n}) = k - 1
           picked == [k \in 1..Cardinality(usable) |-> ProviderOrder[place(k)]]
<1>1. usable \in SUBSET Nat /\ IsFiniteSet(usable)
  <2>1. DOMAIN ProviderOrder = 1..Len(ProviderOrder) /\ Len(ProviderOrder) \in Nat
    BY AiAssumption
  <2>2. IsFiniteSet(1..Len(ProviderOrder)) /\ 1..Len(ProviderOrder) \subseteq Nat
    BY <2>1, FS_Interval
  <2>3. usable \subseteq DOMAIN ProviderOrder
    OBVIOUS
  <2> HIDE DEF usable
  <2> QED BY <2>1, <2>2, <2>3, FS_Subset
<1>2. Chain = IF usable = {} THEN <<"mock">> ELSE picked
  BY DEF Chain
<1>3. ASSUME NEW k \in 1..Cardinality(usable) PROVE picked[k] \in {"mock", "claude", "openai"}
  <2>1. \E n \in usable : Cardinality({m \in usable : m < n}) = k - 1
    <3> HIDE DEF usable
    <3> QED BY <1>1, PlaceExists
  <2>2. place(k) \in usable
    <3> HIDE DEF usable
    <3> QED BY <2>1
  <2>3. \A n \in usable : ProviderOrder[n] \in {"mock", "claude", "openai"}
    OBVIOUS
  <2>4. picked[k] = ProviderOrder[place(k)]
    OBVIOUS
  <2> HIDE DEF usable, place, picked
  <2> QED BY <2>2, <2>3, <2>4
<1>4. CASE usable = {}
  <2>1. Chain = <<"mock">>
    BY <1>2, <1>4
  <2> HIDE DEF usable, place, picked
  <2> QED BY <2>1
<1>5. CASE usable # {}
  <2>1. Chain = picked /\ DOMAIN picked = 1..Cardinality(usable)
    BY <1>2, <1>5
  <2> HIDE DEF usable, place, picked
  <2> QED BY <1>3, <2>1
<1> QED BY <1>4, <1>5

(* A thread goes to its provider with a conversation, and runs the calls of one.      *)
Asked(h) ==
    \E g, c : Conversation(g) /\ c \in ToolCalls /\ c # << >> /\ h = Append(g, ToolUse(c))

Fits(step, h) ==
    /\ h \in Seq(Items)
    /\ step = "generate" => Conversation(h)
    /\ step = "tools" => Asked(h)

HistoryOK ==
    /\ history \in [Threads -> Seq(Items)]
    /\ \A t \in Threads : Fits(qpc[t], history[t])

(* A thread's step and history change together, and nobody else's does.             *)
StepsTo(t, step, h) ==
    /\ qpc' = [qpc EXCEPT ![t] = step]
    /\ history' = [history EXCEPT ![t] = h]

LEMMA StepFits ==
    ASSUME AiInv, HistoryOK, NEW t \in Threads, NEW step, NEW h, Fits(step, h), StepsTo(t, step, h)
    PROVE  HistoryOK'
<1>1. qpc \in [Threads -> Steps] /\ history \in [Threads -> Seq(Items)] /\ h \in Seq(Items)
  BY DEF AiInv, Shape, AiTypeOK, HistoryOK, Fits
<1>2. /\ history' \in [Threads -> Seq(Items)]
      /\ \A u \in Threads \ {t} : qpc'[u] = qpc[u] /\ history'[u] = history[u]
      /\ qpc'[t] = step /\ history'[t] = h
  BY <1>1 DEF StepsTo
<1>3. ASSUME NEW u \in Threads PROVE Fits(qpc'[u], history'[u])
  <2>1. CASE u = t
    BY <1>2, <2>1
  <2>2. CASE u # t
    <3>1. Fits(qpc[u], history[u])
      BY DEF HistoryOK
    <3>2. qpc'[u] = qpc[u] /\ history'[u] = history[u]
      BY <1>2, <2>2
    <3> QED BY <3>1, <3>2
  <2> QED BY <2>1, <2>2
<1> QED BY <1>2, <1>3 DEF HistoryOK

(* Steps on the way to the loop, or out of it.                                 *)
LEMMA EmptyFits == ASSUME NEW step, step \notin {"generate", "tools"} PROVE Fits(step, << >>)
BY DEF Fits

LEMMA ForgetFits == ASSUME AiInv, HistoryOK, NEW t \in Threads, Forget(t) PROVE HistoryOK'
<1>1. StepsTo(t, "idle", << >>)
  BY DEF Forget, Goto, StepsTo
<1>2. Fits("idle", << >>)
  BY EmptyFits
<1> QED BY <1>1, <1>2, StepFits

LEMMA NextProviderFits == ASSUME AiInv, HistoryOK, NEW t \in Threads, NextProvider(t) PROVE HistoryOK'
<1>1. StepsTo(t, "allow", << >>) \/ StepsTo(t, "failed", << >>)
  BY DEF NextProvider, Goto, StepsTo
<1>2. Fits("allow", << >>) /\ Fits("failed", << >>)
  BY EmptyFits
<1> QED BY <1>1, <1>2, StepFits

LEMMA RecordFailureFits == ASSUME AiInv, HistoryOK, NEW t \in Threads, RecordFailure(t) PROVE HistoryOK'
<1>1. StepsTo(t, "stamp", << >>) \/ NextProvider(t)
  BY DEF RecordFailure, Goto, StepsTo
<1>2. Fits("stamp", << >>)
  BY EmptyFits
<1> QED BY <1>1, <1>2, StepFits, NextProviderFits

LEMMA SucceedFits == ASSUME AiInv, HistoryOK, NEW t \in Threads, Succeed(t) PROVE HistoryOK'
BY ForgetFits DEF Succeed

(* The question is one of those that are asked, as the thread is not idle.           *)
LEMMA ConverseFits ==
    ASSUME AiInv, HistoryOK, NEW t \in Threads, qpc[t] # "idle", Converse(t)
    PROVE  HistoryOK'
<1>1. PICK q \in Questions : q = qreq[t].question
  BY DEF AiInv, Shape, AiTypeOK
<1>2. StepsTo(t, "generate", <<UserItem(q)>>)
  BY <1>1 DEF Converse, Goto, Question, StepsTo
<1>3. Fits("generate", <<UserItem(q)>>)
  BY QuestionAsked DEF Fits, Conversation
<1> QED BY <1>2, <1>3, StepFits

(* A step that leaves the history alone, on the way to the loop.                    *)
LEMMA MoveFits ==
    ASSUME AiInv, HistoryOK, NEW t \in Threads, NEW step, step \notin {"generate", "tools"},
           qpc' = [qpc EXCEPT ![t] = step], history' = history
    PROVE  HistoryOK'
<1>1. history' = [history EXCEPT ![t] = history[t]]
  BY DEF HistoryOK
<1>2. Fits(step, history[t])
  BY DEF HistoryOK, Fits
<1> QED BY <1>1, <1>2, StepFits DEF StepsTo

LEMMA NumberedCalls ==
    ASSUME NEW names \in Seq(STRING)
    PROVE  Numbered(names) \in ToolCalls
<1>1. PICK K \in Nat : K = Len(names) /\ DOMAIN names = 1..K
  BY LenProperties
<1>2. \A n \in 1..K : names[n] \in STRING
  BY <1>1, ElementOfSeq
<1>3. Numbered(names) = [n \in 1..K |-> [id |-> n, name |-> names[n]]]
  BY <1>1 DEF Numbered
<1>4. \A n \in 1..K : [id |-> n, name |-> names[n]] \in [id : Nat, name : Names]
  BY <1>2 DEF Names
<1>5. Numbered(names) \in [1..K -> [id : Nat, name : Names]]
  BY <1>3, <1>4
<1> QED BY <1>5, FunctionIsSeq DEF ToolCalls

(* Whichever provider it is, a reply that is taken for tool calls has some.          *)
LEMMA RepliesHaveCalls ==
    ASSUME AiInv, NEW t \in Threads, NEW result \in Results(t), result.kind = "tools"
    PROVE  result.calls \in ToolCalls /\ result.calls # << >>
<1>1. Provider(t) \in {"mock", "claude", "openai"}
  BY ChainNames DEF Provider, AiInv, Shape, AiTypeOK
<1>2. \A c \in CallLists \cup {<< >>} : Numbered(c) \in ToolCalls
  <2>1. \A c \in CallLists \cup {<< >>} : c \in Seq(STRING)
    <3>1. CallLists \subseteq Seq(STRING)
      BY AiAssumption, Zenon
    <3>2. << >> \in Seq(STRING)
      OBVIOUS
    <3> QED BY <3>1, <3>2, Zenon
  <2> QED BY <2>1, NumberedCalls
<1>3. /\ \A c : Tools(c).kind = "tools" /\ Tools(c).calls = c
      /\ \A a : Final(a).kind # "tools"
      /\ Refusal.kind # "tools"
  BY DEF Tools, Final, Refusal
<1>4. CASE Provider(t) = "mock"
  <2>1. result = MockResult(history[t])
    BY <1>4 DEF Results
  <2>2. \A k : k \in {"get_balances", "get_transactions"} =>
          <<[id |-> 1, name |-> k]>> \in ToolCalls /\ <<[id |-> 1, name |-> k]>> # << >>
    <3> SUFFICES ASSUME NEW k, k \in {"get_balances", "get_transactions"}
                 PROVE  <<[id |-> 1, name |-> k]>> \in ToolCalls /\ <<[id |-> 1, name |-> k]>> # << >>
      OBVIOUS
    <3>1. PICK x : x = [id |-> 1, name |-> k]
      OBVIOUS
    <3>2. x \in [id : Nat, name : Names]
      BY <3>1 DEF Names, Allowlist
    <3>3. <<x>> \in ToolCalls /\ <<x>> # << >>
      BY <3>2, SingletonIsSeq DEF ToolCalls
    <3> QED BY <3>1, <3>3
  <2>3. \E k \in {"get_balances", "get_transactions"} : result = Tools(<<[id |-> 1, name |-> k]>>)
    BY <1>3, <2>1 DEF MockResult
  <2> QED BY <1>3, <2>2, <2>3
<1>5. CASE Provider(t) = "claude"
  <2>1. PICK r \in BOOLEAN, c \in CallLists \cup {<< >>} :
           result = ClaudeResult([refused |-> r, calls |-> Numbered(c)])
    BY <1>5 DEF Results
  <2>2. result = Tools(Numbered(c)) /\ Numbered(c) # << >>
    BY <1>3, <2>1 DEF ClaudeResult
  <2> QED BY <1>2, <1>3, <2>2
<1>6. CASE Provider(t) = "openai"
  <2>1. PICK c \in CallLists \cup {<< >>} : result = OpenAiResult([calls |-> Numbered(c)])
    BY <1>6 DEF Results
  <2>2. result = Tools(Numbered(c)) /\ Numbered(c) # << >>
    BY <1>3, <2>1 DEF OpenAiResult
  <2> QED BY <1>2, <1>3, <2>2
<1> QED BY <1>1, <1>4, <1>5, <1>6

(* The calls follow a conversation.                                            *)
LEMMA GenerateFits == ASSUME AiInv, HistoryOK, NEW t \in Threads, Generate(t) PROVE HistoryOK'
<1>1. qpc[t] = "generate"
  BY DEF Generate, At
<1>2. Conversation(history[t])
  BY <1>1 DEF HistoryOK, Fits
<1>3. PICK result \in Results(t) :
          \/ Succeed(t)
          \/ /\ result.kind = "tools"
             /\ history' = [history EXCEPT ![t] = Append(@, ToolUse(result.calls))]
             /\ qpc' = [qpc EXCEPT ![t] = "tools"]
  BY DEF Generate, Goto
<1>4. CASE Succeed(t)
  BY <1>4, SucceedFits
<1>5. CASE /\ result.kind = "tools"
           /\ history' = [history EXCEPT ![t] = Append(@, ToolUse(result.calls))]
           /\ qpc' = [qpc EXCEPT ![t] = "tools"]
  <2>1. PICK c \in ToolCalls : c = result.calls /\ c # << >>
    BY <1>5, RepliesHaveCalls
  <2>2. PICK h : h = Append(history[t], ToolUse(c))
    OBVIOUS
  <2>3. Asked(h)
    BY <1>2, <2>1, <2>2 DEF Asked
  <2>4. h \in Seq(Items)
    <3>1. history[t] \in Seq(Items) /\ ToolUse(c) \in Items
      BY <1>2 DEF Conversation, ToolUse, Items
    <3> QED BY <2>2, <3>1, AppendProperties
  <2>5. Fits("tools", h)
    BY <2>3, <2>4 DEF Fits
  <2>6. StepsTo(t, "tools", h)
    BY <1>5, <2>1, <2>2 DEF StepsTo, HistoryOK
  <2> QED BY <2>5, <2>6, StepFits
<1> QED BY <1>3, <1>4, <1>5

(* The results of the last calls complete the round.                            *)
LEMMA ExecuteToolsFits == ASSUME AiInv, HistoryOK, NEW t \in Threads, ExecuteTools(t) PROVE HistoryOK'
<1>1. Asked(history[t])
  BY DEF ExecuteTools, At, HistoryOK, Fits
<1>2. PICK g, c : Conversation(g) /\ c \in ToolCalls /\ c # << >> /\ history[t] = Append(g, ToolUse(c))
  BY <1>1 DEF Asked
<1>3. Requested(t) = c
  <2>1. ToolUse(c) \in Items /\ g \in Seq(Items)
    BY <1>2 DEF ToolUse, Items, Conversation
  <2>2. Last(history[t]) = ToolUse(c)
    BY <1>2, <2>1 DEF Last
  <2> QED BY <2>2 DEF Requested, ToolUse
<1>4. PICK h : h = Append(Append(g, ToolUse(c)), ToolResult(Execute(c)))
  OBVIOUS
<1>5. Conversation(h)
  BY <1>2, <1>4, RoundKeeps
<1>6. Fits("generate", h)
  BY <1>5 DEF Fits, Conversation
<1>7. StepsTo(t, "generate", h)
  BY <1>2, <1>3, <1>4 DEF ExecuteTools, Goto, StepsTo, HistoryOK
<1> QED BY <1>6, <1>7, StepFits

LEMMA HistoryKept == AiInv /\ HistoryOK /\ [AiNext]_aiVars => HistoryOK'
<1> SUFFICES ASSUME AiInv, HistoryOK, [AiNext]_aiVars PROVE HistoryOK'
  OBVIOUS
<1>1. CASE UNCHANGED <<qpc, history>>
  BY <1>1 DEF HistoryOK
<1>2. Tick \/ UNCHANGED aiVars => UNCHANGED <<qpc, history>>
  BY DEF Tick, aiVars, chainVars
<1>3. ASSUME NEW t \in Threads, Receive(t) PROVE HistoryOK'
  <2>1. qpc' = [qpc EXCEPT ![t] = "limit"] /\ history' = history
    BY <1>3 DEF Receive, Goto, chainVars
  <2> QED BY <2>1, MoveFits
<1>4. ASSUME NEW t \in Threads, QueryStep(t) PROVE HistoryOK'
  <2>1. CASE ReadBucket(t)
    <3>1. qpc' = [qpc EXCEPT ![t] = "spend"] /\ history' = history
      BY <2>1 DEF ReadBucket, Goto, chainVars
    <3> QED BY <3>1, MoveFits
  <2>2. CASE SpendToken(t)
    <3>1. Forget(t) \/ (qpc' = [qpc EXCEPT ![t] = "allow"] /\ history' = history)
      BY <2>2 DEF SpendToken, Goto
    <3> QED BY <3>1, ForgetFits, MoveFits
  <2>3. CASE Allow(t)
    <3>1. \/ qpc' = [qpc EXCEPT ![t] = "cooling"] /\ history' = history
          \/ qpc[t] # "idle" /\ Converse(t)
      BY <2>3 DEF Allow, At, Goto
    <3> QED BY <3>1, MoveFits, ConverseFits
  <2>4. CASE AllowCooled(t)
    <3>1. (qpc[t] # "idle" /\ Converse(t)) \/ NextProvider(t)
      BY <2>4 DEF AllowCooled, At
    <3> QED BY <3>1, ConverseFits, NextProviderFits
  <2>5. CASE Stamp(t)
    BY <2>5, NextProviderFits DEF Stamp
  <2>6. CASE Generate(t)
    BY <2>6, GenerateFits
  <2>7. CASE OutOfBudget(t)
    BY <2>7, SucceedFits DEF OutOfBudget
  <2>8. CASE GenerateRaises(t)
    BY <2>8, RecordFailureFits DEF GenerateRaises
  <2>9. CASE ExecuteTools(t)
    BY <2>9, ExecuteToolsFits
  <2>10. CASE ToolRaises(t)
    BY <2>10, RecordFailureFits DEF ToolRaises
  <2>11. CASE AllFailed(t)
    BY <2>11, ForgetFits DEF AllFailed
  <2> QED BY <1>4, <2>1, <2>2, <2>3, <2>4, <2>5, <2>6, <2>7, <2>8, <2>9, <2>10, <2>11 DEF QueryStep
<1> QED BY <1>1, <1>2, <1>3, <1>4 DEF AiNext

(* Whatever rounds of tools a thread has behind it, and whichever provider it       *)
(* failed over to, the history it goes on with is one that Claude's and OpenAI's     *)
(* APIs both accept (gateway.py:84-99, claude.py:39-54, openai_provider.py:42-57).    *)
THEOREM HistoriesReplay == Spec => []HistoryReplayable
<1>1. AiInit => HistoryOK
  <2> SUFFICES ASSUME AiInit PROVE HistoryOK
    OBVIOUS
  <2>1. \A t \in Threads : qpc[t] = "idle" /\ history[t] = << >>
    BY DEF AiInit
  <2>2. history \in [Threads -> Seq(Items)]
    BY DEF AiInit
  <2>3. Fits("idle", << >>)
    BY EmptyFits
  <2> QED BY <2>1, <2>2, <2>3 DEF HistoryOK
<1>2. HistoryOK => HistoryReplayable
  BY DEF HistoryOK, Fits, Conversation, HistoryReplayable
<1> QED BY <1>1, <1>2, HistoryKept, AiInvariant, PTL DEF Spec
=============================================================================

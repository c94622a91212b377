-------------------------------- MODULE AiQuery --------------------------------
(***************************************************************************)
(* The AI service's query endpoint.  uvicorn runs the synchronous handler in a *)
(* pool of threads that share the module globals: the token buckets and the    *)
(* providers' circuit breakers, neither of them locked.  A thread can be       *)
(* preempted wherever it calls out (time.time(), dict.get(), any I/O), so what  *)
(* it read before such a call may be old when it is used after it; what lies   *)
(* between two calls is one step.                                          *)
(***************************************************************************)
EXTENDS Integers, FiniteSets, CircuitBreaker, LlmMessages

CONSTANTS
    Threads,            \* the server's thread pool
    Tenants,            \* tenants of the verified tokens
    Questions,          \* "balance", "activity" or anything else
    ProviderOrder,      \* LLM_PROVIDER_ORDER
    ProviderKeys,       \* the vendors whose API key is set
    CallLists,          \* what a vendor's model may ask for in one turn
    MaxToolIterations,  \* _MAX_TOOL_ITERATIONS
    Capacity, Refill,   \* RATE_CAPACITY, RATE_REFILL_PER_SEC per clock tick
    MaxTime,            \* bound: clock ticks
    MaxQueries          \* bound: queries received

ASSUME AiAssumption ==
    /\ ProviderOrder \in Seq(STRING) /\ CallLists \subseteq Seq(STRING)
    /\ MaxToolIterations \in Nat \ {0}
    /\ Capacity \in Nat \ {0} /\ Refill \in Nat
    /\ MaxTime \in Nat /\ Cooldown <= MaxTime /\ MaxQueries \in Nat

VARIABLES
    now,                \* time.time()
    buckets,            \* _buckets: tenant -> [tokens, ts], once it has one
    breakers,           \* _breakers: provider -> its breaker
    qpc,                \* thread -> the step of its query it executes next
    qreq,               \* thread -> [tenant, question, began]
    qclock,             \* thread -> the time it read last
    qbucket,            \* thread -> the bucket it read
    qnth,               \* thread -> position in the chain of providers
    history,            \* thread -> the conversation with that provider
    received,           \* queries so far
    spent,              \* history: tenant -> queries let through
    undone,             \* history: tenant -> spends that a later write undid
    spentThen,          \* history: thread -> spent when it read the bucket
    failedAt            \* history: provider -> time of its last failure, or -1

limitVars == <<buckets, qbucket, spent, undone, spentThen>>
chainVars == <<breakers, qnth, history, failedAt>>
aiVars == <<now, qpc, qreq, qclock, received, limitVars, chainVars>>

(* _build_providers: the order's known names whose key is set, in the order; the *)
(* mock if nothing is left.                                                 *)
Chain ==
    LET usable == {n \in DOMAIN ProviderOrder :
                      ProviderOrder[n] \in {"mock"} \cup (ProviderKeys \cap {"claude", "openai"})}
        place(k) == CHOOSE n \in usable : Cardinality({m \in usable : m < n}) = k - 1
    IN IF usable = {} THEN <<"mock">>
       ELSE [k \in 1..Cardinality(usable) |-> ProviderOrder[place(k)]]

Providers == {Chain[n] : n \in DOMAIN Chain}

NoRequest == [tenant |-> "none", question |-> "none", began |-> 0]
FullBucket(t) == [tokens |-> Capacity, ts |-> t]

(* A breaker's opened_at starts as 0.0, a cooldown ago and more.              *)
AiInit ==
    /\ now = Cooldown
    /\ buckets = << >>
    /\ breakers = [p \in Providers |-> NewBreaker]
    /\ qpc = [t \in Threads |-> "idle"]
    /\ qreq = [t \in Threads |-> NoRequest]
    /\ qclock = [t \in Threads |-> 0]
    /\ qbucket = [t \in Threads |-> FullBucket(0)]
    /\ qnth = [t \in Threads |-> 1]
    /\ history = [t \in Threads |-> << >>]
    /\ received = 0
    /\ spent = [a \in Tenants |-> 0]
    /\ undone = [a \in Tenants |-> 0]
    /\ spentThen = [t \in Threads |-> 0]
    /\ failedAt = [p \in Providers |-> -1]

At(t, step) == qpc[t] = step
Goto(t, step) == qpc' = [qpc EXCEPT ![t] = step]
ReadTime(t) == qclock' = [qclock EXCEPT ![t] = now]

(* The response is out, and the handler's locals are gone.                   *)
Forget(t) ==
    /\ Goto(t, "idle")
    /\ qreq' = [qreq EXCEPT ![t] = NoRequest]
    /\ qclock' = [qclock EXCEPT ![t] = 0]
    /\ qnth' = [qnth EXCEPT ![t] = 1]
    /\ history' = [history EXCEPT ![t] = << >>]

----------------------------------------------------------------------------
(* check_rate_limit, first call: now = time.time().                          *)
Receive(t) ==
    /\ At(t, "idle")
    /\ received < MaxQueries
    /\ received' = received + 1
    /\ \E a \in Tenants, q \in Questions :
         qreq' = [qreq EXCEPT ![t] = [tenant |-> a, question |-> q, began |-> now]]
    /\ ReadTime(t)
    /\ Goto(t, "limit")
    /\ UNCHANGED <<now, limitVars, chainVars>>

(* _buckets.get(tenant_id, (capacity, now)).                                *)
ReadBucket(t) ==
    LET a == qreq[t].tenant IN
    /\ At(t, "limit")
    /\ qbucket' = [qbucket EXCEPT ![t] =
            IF a \in DOMAIN buckets THEN buckets[a] ELSE FullBucket(qclock[t])]
    /\ spentThen' = [spentThen EXCEPT ![t] = spent[a]]
    /\ Goto(t, "spend")
    /\ UNCHANGED <<now, qreq, qclock, received, buckets, spent, undone, chainVars>>

(* Mutant: the refill is not capped at the capacity.                         *)
Tokens_Uncapped(b, t) == b.tokens + (t - b.ts) * Refill

(* The elapsed time is negative when the bucket was written meanwhile.         *)
Tokens(b, t) ==
    LET full == b.tokens + (t - b.ts) * Refill IN
    IF full < Capacity THEN full ELSE Capacity

(* Mutant: the bucket keeps the time stamp of its first query.               *)
Put_FirstTs(a, b) ==
    [x \in DOMAIN buckets \cup {a} |->
        IF x # a THEN buckets[x]
        ELSE IF a \in DOMAIN buckets THEN [b EXCEPT !.ts = buckets[a].ts] ELSE b]

(* _buckets[tenant_id] = (tokens - 1, now).                                  *)
Put(a, b) == [x \in DOMAIN buckets \cup {a} |-> IF x = a THEN b ELSE buckets[x]]

(* The token is spent, or there is none: a 429.                              *)
SpendToken(t) ==
    LET a == qreq[t].tenant
        tokens == Tokens(qbucket[t], qclock[t])
    IN
    /\ At(t, "spend")
    /\ qbucket' = [qbucket EXCEPT ![t] = FullBucket(0)]
    /\ spentThen' = [spentThen EXCEPT ![t] = 0]
    /\ IF tokens < 1
       THEN /\ Forget(t)
            /\ UNCHANGED <<buckets, spent, undone>>
       ELSE /\ buckets' = Put(a, [tokens |-> tokens - 1, ts |-> qclock[t]])
            /\ spent' = [spent EXCEPT ![a] = @ + 1]
            /\ undone' = [undone EXCEPT ![a] = @ + spent[a] - spentThen[t]]
            /\ Goto(t, "allow")
            /\ UNCHANGED <<qreq, qclock, qnth, history>>
    /\ UNCHANGED <<now, received, breakers, failedAt>>

----------------------------------------------------------------------------
(* answer(): the providers in order.                                       *)
Provider(t) == Chain[qnth[t]]
Breaker(t) == breakers[Provider(t)]

Question(t) == <<UserItem(qreq[t].question)>>

Converse(t) ==
    /\ Goto(t, "generate")
    /\ history' = [history EXCEPT ![t] = Question(t)]
    /\ UNCHANGED qnth

(* Mutant: the provider is tried again instead of the next one.               *)
NextProvider_Same(t) ==
    /\ Goto(t, "allow")
    /\ history' = [history EXCEPT ![t] = << >>]
    /\ UNCHANGED qnth

NextProvider(t) ==
    /\ history' = [history EXCEPT ![t] = << >>]
    /\ IF qnth[t] < Len(Chain)
       THEN Goto(t, "allow") /\ qnth' = [qnth EXCEPT ![t] = @ + 1]
       ELSE Goto(t, "failed") /\ UNCHANGED qnth

(* breaker.allow() of a breaker that is not open; of an open one the time is     *)
(* read before opened_at is.                                               *)
Allow(t) ==
    /\ At(t, "allow")
    /\ IF Breaker(t).state = "open"
       THEN ReadTime(t) /\ Goto(t, "cooling") /\ UNCHANGED <<qnth, history>>
       ELSE Converse(t) /\ UNCHANGED qclock
    /\ UNCHANGED <<now, qreq, received, limitVars, breakers, failedAt>>

(* Mutant: the cooldown is counted from the start of the query.               *)
CooledDown_Began(t) == qclock[t] >= qreq[t].began + Cooldown

CooledDown(t) == qclock[t] >= Breaker(t).openedAt + Cooldown

(* The rest of allow(): by now the breaker may have closed; it is made         *)
(* half-open all the same.                                                 *)
AllowCooled(t) ==
    /\ At(t, "cooling")
    /\ IF CooledDown(t)
       THEN /\ breakers' = [breakers EXCEPT ![Provider(t)].state = "half_open"]
            /\ Converse(t)
       ELSE NextProvider(t) /\ UNCHANGED breakers
    /\ UNCHANGED <<now, qreq, qclock, received, limitVars, failedAt>>

(* record_success(), and the answer goes out.                               *)
Succeed(t) ==
    /\ breakers' = [breakers EXCEPT ![Provider(t)] = Succeeded(@)]
    /\ Forget(t)
    /\ UNCHANGED <<now, received, limitVars, failedAt>>

(* record_failure(): when it trips, opened_at is assigned only after the time   *)
(* was read.                                                               *)
RecordFailure(t) ==
    LET b == Failed(Breaker(t), now) IN
    /\ breakers' = [breakers EXCEPT ![Provider(t)] = [b EXCEPT !.openedAt = Breaker(t).openedAt]]
    /\ failedAt' = [failedAt EXCEPT ![Provider(t)] = now]
    /\ IF b.state = "open"
       THEN /\ ReadTime(t)
            /\ Goto(t, "stamp")
            /\ history' = [history EXCEPT ![t] = << >>]
            /\ UNCHANGED qnth
       ELSE NextProvider(t) /\ UNCHANGED qclock
    /\ UNCHANGED <<now, qreq, received, limitVars>>

Stamp(t) ==
    /\ At(t, "stamp")
    /\ breakers' = [breakers EXCEPT ![Provider(t)].openedAt = qclock[t]]
    /\ NextProvider(t)
    /\ UNCHANGED <<now, qreq, qclock, received, limitVars, failedAt>>

----------------------------------------------------------------------------
(* _run_loop.  A round is a tool_use and its tool_result.                     *)
Rounds(t) == Len(history[t]) \div 2

Numbered(names) == [n \in DOMAIN names |-> [id |-> n, name |-> names[n]]]

(* What generate() may return; the mock is a function of the history.          *)
Results(t) ==
    CASE Provider(t) = "mock" -> {MockResult(history[t])}
      [] Provider(t) = "claude" ->
            {ClaudeResult([refused |-> r, calls |-> Numbered(c)]) : r \in BOOLEAN, c \in CallLists \cup {<< >>}}
      [] Provider(t) = "openai" ->
            {OpenAiResult([calls |-> Numbered(c)]) : c \in CallLists \cup {<< >>}}

Generate(t) ==
    /\ At(t, "generate")
    /\ Rounds(t) < MaxToolIterations
    /\ \E result \in Results(t) :
         \/ result.kind \in {"final", "refusal"} /\ Succeed(t)
         \/ /\ result.kind = "tools"
            /\ history' = [history EXCEPT ![t] = Append(@, ToolUse(result.calls))]
            /\ Goto(t, "tools")
            /\ UNCHANGED <<now, qreq, qclock, received, limitVars, breakers, qnth, failedAt>>

(* The tool budget is spent: an apology, and a success of the provider.        *)
OutOfBudget(t) ==
    /\ At(t, "generate")
    /\ Rounds(t) >= MaxToolIterations
    /\ Succeed(t)

(* The vendor's API fails or times out, or its reply does not parse.           *)
GenerateRaises(t) ==
    /\ At(t, "generate")
    /\ Rounds(t) < MaxToolIterations
    /\ Provider(t) # "mock"
    /\ RecordFailure(t)

Allowlist == {"get_balances", "get_transactions"}

Requested(t) == Last(history[t]).calls

(* Mutant: a tool that is not allowed gets no result.                        *)
Execute_SkipsBlocked(calls) ==
    LET allowed == SelectSeq(calls, LAMBDA c : c.name \in Allowlist)
    IN [n \in DOMAIN allowed |-> [id |-> allowed[n].id, output |-> "ledger data"]]

(* ToolRegistry.execute of every call: ledger data through the gateway, or a     *)
(* refusal as the result.                                                  *)
Execute(calls) ==
    [n \in DOMAIN calls |->
        [id |-> calls[n].id,
         output |-> IF calls[n].name \in Allowlist THEN "ledger data" ELSE "not permitted"]]

ExecuteTools(t) ==
    /\ At(t, "tools")
    /\ history' = [history EXCEPT ![t] = Append(@, ToolResult(Execute(Requested(t))))]
    /\ Goto(t, "generate")
    /\ UNCHANGED <<now, qreq, qclock, received, limitVars, breakers, qnth, failedAt>>

(* The gateway does not answer, or answers 401, 429 or 503: raise_for_status     *)
(* ends the loop, and the provider gets the blame.                          *)
ToolRaises(t) ==
    /\ At(t, "tools")
    /\ \E n \in DOMAIN Requested(t) : Requested(t)[n].name \in Allowlist
    /\ RecordFailure(t)

(* RuntimeError("all LLM providers failed"): a 500.                          *)
AllFailed(t) ==
    /\ At(t, "failed")
    /\ Forget(t)
    /\ UNCHANGED <<now, received, limitVars, breakers, failedAt>>

Tick ==
    /\ now < MaxTime
    /\ now' = now + 1
    /\ UNCHANGED <<qpc, qreq, qclock, received, limitVars, chainVars>>

QueryStep(t) ==
    \/ ReadBucket(t)
    \/ SpendToken(t)
    \/ Allow(t)
    \/ AllowCooled(t)
    \/ Stamp(t)
    \/ Generate(t)
    \/ OutOfBudget(t)
    \/ GenerateRaises(t)
    \/ ExecuteTools(t)
    \/ ToolRaises(t)
    \/ AllFailed(t)

AiNext == Tick \/ \E t \in Threads : Receive(t) \/ QueryStep(t)

Spec == AiInit /\ [][AiNext]_aiVars

(* The pool's threads are scheduled, and calls out have time limits.           *)
FairSpec == Spec /\ \A t \in Threads : WF_aiVars(QueryStep(t))

----------------------------------------------------------------------------
Steps == {"idle", "limit", "spend", "allow", "cooling", "generate", "tools", "stamp", "failed"}

(* The shape of every variable; a stored bucket is never overdrawn and never     *)
(* full.                                                                   *)
AiTypeOK ==
    /\ now \in Cooldown..MaxTime
    /\ DOMAIN buckets \subseteq Tenants
    /\ \A a \in DOMAIN buckets : buckets[a] \in [tokens : 0..(Capacity - 1), ts : 0..MaxTime]
    /\ breakers \in [Providers -> Breakers]
    /\ qpc \in [Threads -> Steps]
    /\ \A t \in Threads : qpc[t] # "idle" => qreq[t].tenant \in Tenants /\ qreq[t].question \in Questions
    /\ qclock \in [Threads -> 0..MaxTime]
    /\ qnth \in [Threads -> DOMAIN Chain]
    /\ received \in 0..MaxQueries

(* What the unlocked bucket costs: a tenant gets its burst, the refill for the   *)
(* time that passed, and one query more for every spend that a thread with an   *)
(* older copy of the bucket wrote over; never more (guardrails.py:34-44).      *)
SpendingBounded ==
    \A a \in Tenants : spent[a] <= Capacity + Refill * (now - Cooldown) + undone[a]

(* A query is given up only when every provider of the chain failed during it    *)
(* or within the cooldown before it, whatever other threads did to the breakers  *)
(* between its reads (gateway.py:67-79, breaker.py:27-32).                    *)
OutageIsRecent ==
    \A t \in Threads : qpc[t] = "failed" =>
        \A p \in Providers : failedAt[p] >= 0 /\ failedAt[p] + Cooldown >= qreq[t].began

(* What the code says of the last of the chain: the mock "is the always-available  *)
(* failover" (mock.py:5-6,17-19), so no query is given up without the mock having   *)
(* been asked meanwhile.                                                    *)
MockAvailable ==
    \A t \in Threads : qpc[t] = "failed" =>
        "mock" \in Providers /\ failedAt["mock"] >= qreq[t].began

(* The history a thread goes to its provider with is one that both vendors'      *)
(* APIs accept: after tool rounds, blocked tools and a failover every tool call  *)
(* is answered once, in place (gateway.py:84-99, claude.py:39-54,            *)
(* openai_provider.py:42-57).                                              *)
HistoryReplayable ==
    \A t \in Threads : qpc[t] = "generate" =>
        /\ ClaudeAccepts(ClaudeMessages(history[t]))
        /\ OpenAiAccepts(OpenAiMessages(history[t]))

(* Every query is answered or given up: the chain and the tool budget are finite. *)
QueryEnds == \A t \in Threads : qpc[t] # "idle" ~> qpc[t] = "idle"
=============================================================================

------------------------------ MODULE RateLimiter ------------------------------
(***************************************************************************)
(* The gateway's token bucket: one tenant's hash in Redis, spent by requests  *)
(* in several worker processes.  A request reads the clock in Python and runs  *)
(* the Lua script later; the script itself is one step on the server.        *)
(***************************************************************************)
EXTENDS Naturals

CONSTANTS
    Callers,            \* worker processes, one request at a time each
    Capacity, Refill,   \* the burst, and the tokens per clock tick
    CallTimeout,        \* gunicorn kills a worker silent for longer
    MaxTicks            \* bound: clock ticks

ASSUME LimiterAssumption ==
    /\ Capacity \in Nat \ {0} /\ Refill \in Nat \ {0}
    /\ CallTimeout \in Nat /\ MaxTicks \in Nat

VARIABLES
    lclock,             \* time.time()
    bucket,             \* rl:tenant:<tenant>, or NoBucket
    calls,              \* worker -> the `now` its call to the script carries, or NoCall
    granted,            \* history: requests let through
    twice               \* history: time that was refilled more than once

limiterVars == <<lclock, bucket, calls, granted, twice>>

NoCall == MaxTicks + 1
NoBucket == [tokens |-> Capacity, ts |-> 0, expires |-> 0]

LimiterInit ==
    /\ lclock = 0
    /\ bucket = NoBucket
    /\ calls = [g \in Callers |-> NoCall]
    /\ granted = 0
    /\ twice = 0

Calling(g) == calls[g] # NoCall

----------------------------------------------------------------------------
(* check(): time.time() becomes an argument of the script.                   *)
ReadClock(g) ==
    /\ ~Calling(g)
    /\ calls' = [calls EXCEPT ![g] = lclock]
    /\ UNCHANGED <<lclock, bucket, granted, twice>>

Elapsed(from, to) == IF to > from THEN to - from ELSE 0

(* EXPIRE drops a bucket that nobody spends from.                           *)
LiveBucket(b) == lclock < b.expires
FillTime == (Capacity + Refill - 1) \div Refill

(* Mutant: the time since the bucket was written is not capped at its size.    *)
Refilled_Uncapped(b, now) ==
    IF LiveBucket(b) THEN b.tokens + Elapsed(b.ts, now) * Refill ELSE Capacity

(* The script refills up to the capacity, spends a token if there is one ...  *)
Refilled(b, now) ==
    LET full == b.tokens + Elapsed(b.ts, now) * Refill IN
    IF LiveBucket(b) /\ full < Capacity THEN full ELSE Capacity

(* Mutant: the bucket keeps the time stamp of its first request.             *)
Written_FirstTs(tokens, now) ==
    [tokens |-> tokens, ts |-> bucket.ts, expires |-> lclock + FillTime + 1]

(* ... and writes the bucket with the caller's `now`, later than the stored   *)
(* time stamp or not.                                                      *)
Written(tokens, now) == [tokens |-> tokens, ts |-> now, expires |-> lclock + FillTime + 1]

(* What a bucket written with `now` will refill again.                       *)
CountedTwice(b, now) ==
    IF b = NoBucket THEN 0 ELSE Elapsed(now, IF LiveBucket(b) THEN b.ts ELSE b.ts + FillTime)

RunScript(g) ==
    LET now == calls[g]
        tokens == Refilled(bucket, now)
        spent == IF tokens >= 1 THEN 1 ELSE 0
    IN
    /\ Calling(g)
    /\ bucket' = Written(tokens - spent, now)
    /\ granted' = granted + spent
    /\ twice' = twice + CountedTwice(bucket, now)
    /\ calls' = [calls EXCEPT ![g] = NoCall]
    /\ UNCHANGED lclock

(* Redis does not answer, and the request ends in a 500.                     *)
ScriptFails(g) ==
    /\ Calling(g)
    /\ calls' = [calls EXCEPT ![g] = NoCall]
    /\ UNCHANGED <<lclock, bucket, granted, twice>>

(* A call that waits for Redis is over, or its worker killed, in time.         *)
LimiterTick ==
    /\ lclock < MaxTicks
    /\ \A g \in Callers : Calling(g) => lclock < calls[g] + CallTimeout
    /\ lclock' = lclock + 1
    /\ UNCHANGED <<bucket, calls, granted, twice>>

LimiterNext ==
    \/ \E g \in Callers : \/ ReadClock(g)
                           \/ RunScript(g)
                           \/ ScriptFails(g)
    \/ LimiterTick

LimiterSpec == LimiterInit /\ [][LimiterNext]_limiterVars

----------------------------------------------------------------------------
(* Every variable has its type; the tokens stay between none and the burst    *)
(* (ratelimit.py:45-54).                                                    *)
LimiterTypeOK ==
    /\ lclock \in 0..MaxTicks
    /\ bucket \in [tokens : 0..Capacity, ts : 0..MaxTicks, expires : Nat]
    /\ calls \in [Callers -> 0..NoCall]
    /\ granted \in Nat
    /\ twice \in Nat

(* All workers together let through no more than the burst, the refill for    *)
(* the time that passed, and the refill for the time that callers with an     *)
(* older clock made the bucket count again; an idle bucket's expiry gives      *)
(* nothing away (ratelimit.py:37-59).                                       *)
RateBounded == granted <= Capacity + Refill * (lclock + twice)
=============================================================================

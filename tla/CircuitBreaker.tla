---------------------------- MODULE CircuitBreaker ----------------------------
(***************************************************************************)
(* The circuit breaker as functions of its record, the clock and the outcome *)
(* of a call.  The gateway keeps one per downstream service and the AI       *)
(* service one per provider, both in process memory.                        *)
(***************************************************************************)
EXTENDS Naturals

CONSTANTS
    Threshold,      \* BREAKER_THRESHOLD
    Cooldown        \* BREAKER_COOLDOWN

ASSUME BreakerAssumption == Threshold \in Nat \ {0} /\ Cooldown \in Nat

BreakerStates == {"closed", "open", "half_open"}

(* A closed breaker is below the threshold; failures beyond it are as good    *)
(* as the threshold.                                                       *)
Breakers == {b \in [state : BreakerStates, failures : 0..Threshold, openedAt : Nat] :
                b.state = "closed" => b.failures < Threshold}

NewBreaker == [state |-> "closed", failures |-> 0, openedAt |-> 0]

CoolingDown(b, now) == b.state = "open" /\ now < b.openedAt + Cooldown

(* allow() as seen by the caller, and what it does to the breaker.           *)
Allows(b, now) == ~CoolingDown(b, now)

Allowed(b) == IF b.state = "open" THEN [b EXCEPT !.state = "half_open"] ELSE b

Succeeded(b) == [state |-> "closed", failures |-> 0, openedAt |-> b.openedAt]

(* Mutant: a failed probe must reach the threshold again before it reopens.  *)
Failed_NoReopen(b, now) ==
    LET n == IF b.failures < Threshold THEN b.failures + 1 ELSE 0 IN
    IF n >= Threshold
    THEN [state |-> "open", failures |-> n, openedAt |-> now]
    ELSE [b EXCEPT !.failures = n]

(* Mutant: it takes one failure too many to trip.                           *)
Failed_Late(b, now) ==
    LET n == IF b.failures < Threshold THEN b.failures + 1 ELSE Threshold IN
    IF b.state = "half_open" \/ b.failures >= Threshold
    THEN [state |-> "open", failures |-> n, openedAt |-> now]
    ELSE [b EXCEPT !.failures = n]

Failed(b, now) ==
    LET n == IF b.failures < Threshold THEN b.failures + 1 ELSE Threshold IN
    IF b.state = "half_open" \/ n >= Threshold
    THEN [state |-> "open", failures |-> n, openedAt |-> now]
    ELSE [b EXCEPT !.failures = n]
=============================================================================

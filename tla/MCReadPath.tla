------------------------------- MODULE MCReadPath -------------------------------
(***************************************************************************)
(* What a client's read meets on its way: the gateway's token bucket, its       *)
(* cache and breakers, and the ledger's history page by page.  The three share  *)
(* no variable and no property speaks of two of them, so interleaving them      *)
(* would only multiply the states: in a behaviour one of them moves.           *)
(***************************************************************************)
EXTENDS GatewayProxy, RateLimiter, JournalPages, TLC

CONSTANTS g1, g2, t1, t2

const_Stamps == 1..3

AllIdle == GatewayInit /\ LimiterInit /\ HistoryInit

ReadNext ==
    \/ GatewayInit /\ HistoryInit /\ LimiterNext /\ UNCHANGED <<gatewayVars, historyVars>>
    \/ LimiterInit /\ HistoryInit /\ GatewayNext /\ UNCHANGED <<limiterVars, historyVars>>
    \/ GatewayInit /\ LimiterInit /\ HistoryNext /\ UNCHANGED <<gatewayVars, limiterVars>>

ReadSpec == AllIdle /\ [][ReadNext]_<<gatewayVars, limiterVars, historyVars>>

Symmetry == Permutations(Gateways)
=============================================================================

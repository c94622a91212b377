---------------------------- MODULE ConsumerGroup ----------------------------
(***************************************************************************)
(* One Kafka consumer group as its members see it (external: the broker and *)
(* librdkafka, modelled from how the two workers use them: subscribe, poll,  *)
(* commit(msg), enable.auto.commit = False, auto.offset.reset = earliest).   *)
(*                                                                         *)
(* A member learns of a rebalance only inside poll().  A member that is busy *)
(* with a message when the group rebalances is left out; it finishes the     *)
(* message as a zombie, and its commit is fenced because it owns nothing.    *)
(***************************************************************************)
EXTENDS Naturals, Sequences

CONSTANTS
    Members,        \* consumer processes of the group
    Partitions,     \* partitions of the topic
    Nobody          \* the partition is not assigned

VARIABLES
    owner,          \* partition -> member it is assigned to
    position,       \* partition -> offset its owner polls next
    committed       \* partition -> the group's committed offset

groupVars == <<owner, position, committed>>

GroupInit ==
    /\ owner = [q \in Partitions |-> Nobody]
    /\ position = [q \in Partitions |-> 0]
    /\ committed = [q \in Partitions |-> 0]

GroupTypeOK ==
    /\ owner \in [Partitions -> Members \cup {Nobody}]
    /\ position \in [Partitions -> Nat]
    /\ committed \in [Partitions -> Nat]

(* poll() hands out the message at the position; offset o is log[o + 1].     *)
Available(m, q, log) == owner[q] = m /\ position[q] < Len(log[q])

Poll(m, q, log) ==
    /\ Available(m, q, log)
    /\ position' = [position EXCEPT ![q] = @ + 1]
    /\ UNCHANGED <<owner, committed>>

(* commit(msg) stores offset + 1.  It is asynchronous: the owner's commit is *)
(* applied, or lost with the connection; a zombie's is rejected.            *)
Commit(m, q, offset) ==
    /\ \/ owner[q] = m /\ committed' = [committed EXCEPT ![q] = offset + 1]
       \/ owner[q] # m /\ UNCHANGED committed
    /\ UNCHANGED <<owner, position>>

(* The group rebalances: partitions go to members that are polling, and each *)
(* new assignment starts at the committed offset.                          *)
Rebalance(polling) ==
    /\ owner' \in [Partitions -> IF polling = {} THEN {Nobody} ELSE polling]
    /\ owner' # owner
    /\ position' = committed
    /\ UNCHANGED committed

(* A partition has no owner and every present owner is polling, so all join. *)
Joinable(polling) ==
    /\ \E q \in Partitions : owner[q] = Nobody
    /\ \A q \in Partitions : owner[q] \in polling \cup {Nobody}

(* A member dies or leaves: its partitions are nobody's until a rebalance.   *)
Leave(m) ==
    /\ owner' = [q \in Partitions |-> IF owner[q] = m THEN Nobody ELSE owner[q]]
    /\ UNCHANGED <<position, committed>>
=============================================================================

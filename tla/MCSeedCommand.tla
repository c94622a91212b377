----------------------------- MODULE MCSeedCommand -----------------------------
(* Two commands for the same two usernames, and room for one payment too many.   *)
EXTENDS SeedCommand, TLC

CONSTANTS p1, p2, p3, t1, t2, s1, s2, load0, load1

const_Keys == TenantIds \X (1..PerTenant)
const_Bodies == {[amount |-> 5, currency |-> "USD"]}
const_SeedUsers == <<load0, load1>>

Symmetry == Permutations(PaymentIds) \cup Permutations(Seeds) \cup Permutations(TenantIds)
=============================================================================

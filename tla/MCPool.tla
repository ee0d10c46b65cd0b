------------------------------- MODULE MCPool -------------------------------
(* Pooled connections alone, for TLC. *)
EXTENDS TenantPool, TLC

CONSTANT MaxOpen

vars == <<limit, poolVars>>

Init == limit \in 1..MaxOpen /\ PoolInit

Spec == Init /\ [][PoolNext]_vars

Interchangeable ==
  Permutations(Tenants) \cup Permutations(AsyncSessions) \cup Permutations(Connections)
=============================================================================

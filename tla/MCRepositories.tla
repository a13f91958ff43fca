--------------------------- MODULE MCRepositories ---------------------------
(***************************************************************************)
(* Instances of Repositories with two keys besides tracking and locks, the *)
(* mappings of the two orders: one expires, the other is set without TTL,  *)
(* the way last_sync and the pre-warm flag are.                            *)
(***************************************************************************)
EXTENDS Repositories, TLC

CONSTANTS o1, o2, mapping1, mapping2

MCMappingKey == (o1 :> mapping1) @@ (o2 :> mapping2)
MCKeyTTL == (mapping1 :> 1) @@ (mapping2 :> 0)

Symmetry == Permutations(Values) \cup Permutations(Pods)
=============================================================================

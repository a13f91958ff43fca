-------------------------- MODULE MCLeaderElection --------------------------
(***************************************************************************)
(* LeaderElection for TLC: two instances of the service; instance IDs are  *)
(* interchangeable in the runs that check no liveness.                     *)
(***************************************************************************)
EXTENDS LeaderElection, TLC

PodSymmetry == Permutations(Pods)

\* The runs that rely on the lease choose their times under this condition.
ASSUME TimelyAssumption == Timely
=============================================================================

----------------------------- MODULE Leadership -----------------------------
(***************************************************************************)
(* What leader election promises the rest of the system                    *)
(* (src/internal/worker/poller_worker.go): among the pods that are not     *)
(* shutting down at most one leads, and leadership passes from one pod to  *)
(* another only through a moment without a leader.                         *)
(***************************************************************************)
CONSTANT Pods

VARIABLE leaders

Init == leaders = {}

Elect(p) == leaders = {} /\ leaders' = {p}

Resign(p) == p \in leaders /\ leaders' = leaders \ {p}

Next == \E p \in Pods : Elect(p) \/ Resign(p)

Spec == Init /\ [][Next]_leaders
=============================================================================

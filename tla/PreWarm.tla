------------------------------ MODULE PreWarm ------------------------------
(***************************************************************************)
(* Cache pre-warming when the pods start (src/cmd/server/main.go,          *)
(* PreWarmCache in src/internal/service/poller_service.go, PreWarmOrders   *)
(* and the flag in src/internal/repository/cache/redis_cache.go).          *)
(*                                                                         *)
(* Every Redis call is a step; the pods run them interleaved, any call may *)
(* fail (in particular once the 30 s of prewarmCtx are over), pods crash   *)
(* and restart, and the keys with a TTL expire.  The flag has none.        *)
(***************************************************************************)
EXTENDS Integers

CONSTANTS
    Pods,
    Orders,    \* the orders of orders.yml
    MaxFaults  \* bound on failed Redis calls and crashes in a behaviour

ASSUME PreWarmAssumption == Orders # {} /\ MaxFaults \in Nat

VARIABLES
    prewarmed,   \* courier_poller:prewarmed
    registered,  \* orders in the active set, with heartbeat and mapping
    located,     \* orders with a cached location
    phase,       \* control point of each pod's start-up
    faults,      \* failed Redis calls and crashes so far
    seen         \* history: orders that have been registered at some time

vars == <<prewarmed, registered, located, phase, faults, seen>>

TypeOK ==
    /\ prewarmed \in BOOLEAN
    /\ phase \in [Pods -> {"down", "check", "register", "locate", "flag", "serving"}]
    /\ faults \in 0..MaxFaults
    /\ seen \subseteq Orders
    /\ registered \cup located \subseteq seen

Init ==
    /\ prewarmed = FALSE
    /\ registered = {} /\ located = {} /\ seen = {}
    /\ phase = [p \in Pods |-> "down"]
    /\ faults = 0

Goto(p, point) == phase' = [phase EXCEPT ![p] = point]
Fault == faults < MaxFaults /\ faults' = faults + 1
-----------------------------------------------------------------------------
Start(p) ==
    /\ phase[p] = "down"
    /\ Goto(p, "check")
    /\ UNCHANGED <<prewarmed, registered, located, faults, seen>>

CheckWaits(p) ==
    /\ phase[p] = "check"
    /\ prewarmed \/ \A q \in Pods \ {p} : phase[q] = "down"
    /\ Goto(p, IF prewarmed THEN "serving" ELSE "register")
    /\ UNCHANGED <<prewarmed, registered, located, faults, seen>>

\* IsPreWarmed; if it fails the pod goes ahead.
Check(p) ==
    /\ phase[p] = "check"
    /\ \/ Goto(p, IF prewarmed THEN "serving" ELSE "register") /\ UNCHANGED faults
       \/ Fault /\ Goto(p, "register")
    /\ UNCHANGED <<prewarmed, registered, located, seen>>

RegisterIgnoringError(p) ==
    /\ phase[p] = "register"
    /\ \/ /\ registered' = Orders
          /\ UNCHANGED faults
       \/ /\ Fault
          /\ UNCHANGED registered
    /\ Goto(p, "locate")
    /\ seen' = seen \cup registered'
    /\ UNCHANGED <<prewarmed, located>>

\* PreWarmOrders, one pipeline; a failing one may have done part of its work
\* and ends the pre-warming without the flag.
Register(p) ==
    /\ phase[p] = "register"
    /\ \/ /\ registered' = Orders
          /\ Goto(p, "locate")
          /\ UNCHANGED faults
       \/ /\ Fault
          /\ \E part \in SUBSET Orders : registered' = registered \cup part
          /\ Goto(p, "serving")
    /\ seen' = seen \cup registered'
    /\ UNCHANGED <<prewarmed, located>>

LocateOrRetreat(p) ==
    /\ phase[p] = "locate"
    /\ \E found \in SUBSET Orders :
          /\ located' = located \cup found
          /\ Goto(p, IF found = Orders THEN "flag" ELSE "serving")
    /\ UNCHANGED <<prewarmed, registered, faults, seen>>

\* Fetch the couriers and SetOrderLocationsBatch: any of the orders may be
\* located, also none; only a failing batch ends without the flag.
Locate(p) ==
    /\ phase[p] = "locate"
    /\ \E found \in SUBSET Orders :
          /\ located' = located \cup found
          /\ \/ Goto(p, "flag") /\ UNCHANGED faults
             \/ Fault /\ Goto(p, "serving")
    /\ UNCHANGED <<prewarmed, registered, seen>>

\* SetPreWarmed; its error is logged only.
SetFlag(p) ==
    /\ phase[p] = "flag"
    /\ \/ prewarmed' = TRUE /\ UNCHANGED faults
       \/ Fault /\ UNCHANGED prewarmed
    /\ Goto(p, "serving")
    /\ UNCHANGED <<registered, located, seen>>

\* A pod crashes, or is shut down once it serves.
Crash(p) ==
    /\ phase[p] # "down"
    /\ IF phase[p] = "serving" THEN UNCHANGED faults ELSE Fault
    /\ Goto(p, "down")
    /\ UNCHANGED <<prewarmed, registered, located, seen>>

\* Orders nobody reads: their keys expire and the cleaner drops them.
Expire(o) ==
    /\ \/ registered' = registered \ {o} /\ UNCHANGED located
       \/ located' = located \ {o} /\ UNCHANGED registered
    /\ UNCHANGED <<prewarmed, phase, faults, seen>>

StartUp(p) == Check(p) \/ Register(p) \/ Locate(p) \/ SetFlag(p)

Next ==
    \/ \E p \in Pods : Start(p) \/ StartUp(p) \/ Crash(p)
    \/ \E o \in Orders : Expire(o)

Spec == Init /\ [][Next]_vars

\* Pods are restarted and get on with starting up.
FairSpec == Spec /\ \A p \in Pods : WF_vars(Start(p)) /\ WF_vars(StartUp(p))
-----------------------------------------------------------------------------
(***************************************************************************)
(* The flag is set only if all orders have been registered: a pod that     *)
(* crashes or fails half way leaves the work to the next one               *)
(* (main.go:148-157, "else" of the error).                                 *)
(***************************************************************************)
FlagMeansRegistered == prewarmed => seen = Orders

(***************************************************************************)
(* As long as pods are restarted the pre-warming gets done, however many   *)
(* of the first ones fail or crash (finitely often) and even if no courier *)
(* can be located (main.go:143-160).                                       *)
(***************************************************************************)
RestartsPreWarm == (\A p \in Pods : []<>(phase[p] = "down")) => <>prewarmed

\* Pre-warming never keeps a pod from serving (main.go:151, 171).
PodServes == \A p \in Pods : phase[p] = "check" ~> phase[p] \in {"serving", "down"}
=============================================================================

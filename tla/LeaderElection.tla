--------------------------- MODULE LeaderElection ---------------------------
(***************************************************************************)
(* Distributed leader election of the poller                               *)
(* (src/internal/worker/poller_worker.go over the leader lock of           *)
(* src/internal/repository/cache/redis_cache.go).                          *)
(*                                                                         *)
(* Every instance of the service runs an election goroutine that acquires  *)
(* (SET NX with a TTL) or renews (compare owner, PEXPIRE) one Redis key,   *)
(* and a periodic goroutine that starts a synchronisation cycle whenever   *)
(* its own isLeader flag is set.  Calls to Redis are split into sending,   *)
(* execution and reply; a call may fail before or after it was executed,   *)
(* and a command whose caller gave up may still be executed later.         *)
(*                                                                         *)
(* Time is discrete.  The lock carries its remaining TTL, a ticker the     *)
(* time to its next tick, a call its age.  MaxDelay bounds how long an     *)
(* attempt may take from the tick that triggers it to its reply: the code  *)
(* sets no such bound, so each theorem and run says what it assumes of it. *)
(***************************************************************************)
EXTENDS Integers

CONSTANTS
    Pods,           \* instance IDs (uuid.New() in NewPollerWorker): one process life each
    NoPod,          \* the lock key does not exist
    LockTTL,        \* cfg.LeaderLockTTL
    RenewInterval,  \* cfg.LeaderRenewInterval
    MaxDelay,       \* longest time from a tick to the reply of the attempt it triggers
    MaxFaults       \* bound on failed Redis calls in a behaviour

ASSUME PodsAssumption == NoPod \notin Pods
ASSUME TimesAssumption ==
    /\ LockTTL \in Nat \ {0}
    /\ RenewInterval \in Nat \ {0}
    /\ MaxDelay \in Nat
    /\ MaxFaults \in Nat

(***************************************************************************)
(* The timing condition under which the flag can be trusted: the last      *)
(* execution of SET or PEXPIRE may precede its reply by MaxDelay, the      *)
(* ticker adds RenewInterval, the next attempt another MaxDelay.           *)
(***************************************************************************)
Timely == RenewInterval + 2 * MaxDelay < LockTTL

VARIABLES
    owner,      \* value of the key courier_poller:leader, NoPod when absent
    ttl,        \* its remaining time to live
    phase,      \* life of each instance, from Start to the return of Stop
    elector,    \* control point of runLeaderElection
    isLeader,   \* PollerWorker.isLeader
    timer,      \* time to the next tick of the renew ticker, 0 before it is created
    tick,       \* the ticker's channel holds a tick
    age,        \* time since the current attempt became due
    poller,     \* control point of runPeriodicSync
    late,       \* commands of failed calls that Redis may still execute
    faults      \* failed calls so far

lockVars == <<owner, ttl>>
electVars == <<elector, isLeader, timer, tick, age>>
vars == <<owner, ttl, phase, elector, isLeader, timer, tick, age, poller, late, faults>>

Commands == {"acquire", "renew", "release"}

\* "closed": Stop has closed stopChan but not yet read isLeader.
Phases == {"new", "running", "closed", "releasing", "waiting", "stopped", "crashed"}
Stopping == {"closed", "releasing", "waiting"}

Alive(p) == phase[p] \in {"running"} \cup Stopping
StopClosed(p) == phase[p] \in Stopping   \* stopChan is closed

TypeOK ==
    /\ owner \in Pods \cup {NoPod}
    /\ ttl \in 0..LockTTL
    /\ phase \in [Pods -> Phases]
    /\ elector \in [Pods -> {"off", "start", "sent", "granted", "refused", "wait", "exited"}]
    /\ isLeader \in [Pods -> BOOLEAN]
    /\ timer \in [Pods -> 0..RenewInterval]
    /\ tick \in [Pods -> BOOLEAN]
    /\ age \in [Pods -> 0..MaxDelay]
    /\ poller \in [Pods -> {"off", "first", "idle", "syncing", "exited"}]
    /\ late \in [Pods -> SUBSET Commands]
    /\ faults \in 0..MaxFaults

Init ==
    /\ owner = NoPod
    /\ ttl = 0
    /\ phase = [p \in Pods |-> "new"]
    /\ elector = [p \in Pods |-> "off"]
    /\ isLeader = [p \in Pods |-> FALSE]
    /\ timer = [p \in Pods |-> 0]
    /\ tick = [p \in Pods |-> FALSE]
    /\ age = [p \in Pods |-> 0]
    /\ poller = [p \in Pods |-> "off"]
    /\ late = [p \in Pods |-> {}]
    /\ faults = 0
-----------------------------------------------------------------------------
(***************************************************************************)
(* The lock in Redis.  SET NX succeeds when the key is absent, even the    *)
(* owner is refused; the renew and release scripts compare the owner.      *)
(***************************************************************************)
SetWithoutNX(c, p) == c = "acquire" \/ owner = p
DelWithoutOwner(c, p) == c = "release" \/ owner = (IF c = "acquire" THEN NoPod ELSE p)

Accepts(c, p) == owner = (IF c = "acquire" THEN NoPod ELSE p)

ExecuteExtending(c, p) ==
    IF ~Accepts(c, p) THEN UNCHANGED lockVars
    ELSE IF c = "release" THEN owner' = NoPod /\ ttl' = 0
    ELSE owner' = p /\ ttl' = ttl + LockTTL

Execute(c, p) ==
    IF ~Accepts(c, p) THEN UNCHANGED lockVars
    ELSE IF c = "release" THEN owner' = NoPod /\ ttl' = 0
    ELSE owner' = p /\ ttl' = LockTTL

AlwaysAcquire(p) == "acquire"

\* The call tryLeaderElection makes: a leader renews, a standby acquires.
Call(p) == IF isLeader[p] THEN "renew" ELSE "acquire"
-----------------------------------------------------------------------------
\* Start: spawns the election and the periodic goroutine.
Start(p) ==
    /\ phase[p] = "new"
    /\ phase' = [phase EXCEPT ![p] = "running"]
    /\ elector' = [elector EXCEPT ![p] = "start"]
    /\ poller' = [poller EXCEPT ![p] = "first"]
    /\ UNCHANGED <<owner, ttl, isLeader, timer, tick, age, late, faults>>

\* tryLeaderElection sends its command, at start or on a tick; the select
\* may take a ready tick although stopChan is already closed.
TryLeaderElection(p) ==
    /\ \/ elector[p] = "start" /\ age' = [age EXCEPT ![p] = 0]
       \/ elector[p] = "wait" /\ tick[p] /\ UNCHANGED age
    /\ elector' = [elector EXCEPT ![p] = "sent"]
    /\ tick' = [tick EXCEPT ![p] = FALSE]
    /\ UNCHANGED <<owner, ttl, phase, isLeader, timer, poller, late, faults>>

\* Redis executes the command.
Serve(p) ==
    /\ elector[p] = "sent"
    /\ Execute(Call(p), p)
    /\ elector' = [elector EXCEPT ![p] = IF Accepts(Call(p), p) THEN "granted" ELSE "refused"]
    /\ UNCHANGED <<phase, isLeader, timer, tick, age, poller, late, faults>>

\* The attempt ends: the loop goes back to its select.  The ticker is created
\* after the first attempt; a tick that fired meanwhile is due at once.
Resume(p) ==
    /\ elector' = [elector EXCEPT ![p] = "wait"]
    /\ timer' = [timer EXCEPT ![p] = IF @ = 0 THEN RenewInterval ELSE @]
    /\ age' = [age EXCEPT ![p] = 0]
    /\ UNCHANGED tick

\* The reply arrives: granted sets or keeps the flag, a refusal clears it.
Reply(p) ==
    /\ elector[p] \in {"granted", "refused"}
    /\ isLeader' = [isLeader EXCEPT ![p] = elector[p] = "granted"]
    /\ Resume(p)
    /\ UNCHANGED <<owner, ttl, phase, poller, late, faults>>

\* A failed renewal gives leadership up, a failed acquisition changes nothing.
FlagKeptOnError(p) == isLeader[p]

FlagAfterError(p) == FALSE

\* The call fails: before Redis executed it (the command may still arrive
\* later, or never) or after, the reply being lost.
Fail(p) ==
    /\ elector[p] \in {"sent", "granted", "refused"}
    /\ faults < MaxFaults
    /\ faults' = faults + 1
    /\ \/ UNCHANGED late
       \/ elector[p] = "sent" /\ late' = [late EXCEPT ![p] = @ \cup {Call(p)}]
    /\ isLeader' = [isLeader EXCEPT ![p] = FlagAfterError(p)]
    /\ Resume(p)
    /\ UNCHANGED <<owner, ttl, phase, poller>>

\* Redis executes a command whose caller no longer waits for it.
ServeLate(p, c) ==
    /\ c \in late[p]
    /\ Execute(c, p)
    /\ late' = [late EXCEPT ![p] = @ \ {c}]
    /\ UNCHANGED <<phase, elector, isLeader, timer, tick, age, poller, faults>>

\* The select of runLeaderElection takes stopChan; the ticker is stopped.
ElectorExit(p) ==
    /\ elector[p] = "wait"
    /\ StopClosed(p)
    /\ elector' = [elector EXCEPT ![p] = "exited"]
    /\ timer' = [timer EXCEPT ![p] = 0]
    /\ tick' = [tick EXCEPT ![p] = FALSE]
    /\ UNCHANGED <<owner, ttl, phase, isLeader, age, poller, late, faults>>
-----------------------------------------------------------------------------
\* runPeriodicSync enters SyncActiveOrders, at its start or on a poll tick,
\* when the flag is set.  The poll period is left open: a tick may come at
\* any time.
SyncBegin(p) ==
    /\ poller[p] \in {"first", "idle"}
    /\ isLeader[p]
    /\ poller' = [poller EXCEPT ![p] = "syncing"]
    /\ UNCHANGED <<owner, ttl, phase, elector, isLeader, timer, tick, age, late, faults>>

\* A standby has no initial cycle.
SyncSkipFirst(p) ==
    /\ poller[p] = "first"
    /\ ~isLeader[p]
    /\ poller' = [poller EXCEPT ![p] = "idle"]
    /\ UNCHANGED <<owner, ttl, phase, elector, isLeader, timer, tick, age, late, faults>>

\* What runPeriodicSync does before its loop.
SyncFirst(p) == poller[p] = "first" /\ (SyncBegin(p) \/ SyncSkipFirst(p))

\* SyncActiveOrders returns; nothing bounds how long it took.
SyncEnd(p) ==
    /\ poller[p] = "syncing"
    /\ poller' = [poller EXCEPT ![p] = "idle"]
    /\ UNCHANGED <<owner, ttl, phase, elector, isLeader, timer, tick, age, late, faults>>

PollerExitOnCtx(p) ==
    /\ poller[p] = "idle"
    /\ phase[p] = "stopped"
    /\ poller' = [poller EXCEPT ![p] = "exited"]
    /\ UNCHANGED <<owner, ttl, phase, elector, isLeader, timer, tick, age, late, faults>>

\* The select of runPeriodicSync takes stopChan.
PollerExit(p) ==
    /\ poller[p] = "idle"
    /\ StopClosed(p)
    /\ poller' = [poller EXCEPT ![p] = "exited"]
    /\ UNCHANGED <<owner, ttl, phase, elector, isLeader, timer, tick, age, late, faults>>
-----------------------------------------------------------------------------
\* Stop closes stopChan.
StopClose(p) ==
    /\ phase[p] = "running"
    /\ phase' = [phase EXCEPT ![p] = "closed"]
    /\ UNCHANGED <<owner, ttl, electVars, poller, late, faults>>

\* Stop reads isLeader, once.
StopCheck(p) ==
    /\ phase[p] = "closed"
    /\ phase' = [phase EXCEPT ![p] = IF isLeader[p] THEN "releasing" ELSE "waiting"]
    /\ UNCHANGED <<owner, ttl, electVars, poller, late, faults>>

\* ReleaseLeaderLock; isLeader stays set.
StopRelease(p) ==
    /\ phase[p] = "releasing"
    /\ Execute("release", p)
    /\ phase' = [phase EXCEPT ![p] = "waiting"]
    /\ UNCHANGED <<electVars, poller, late, faults>>

\* The release fails or runs into its 2 s timeout; the error is only logged.
StopReleaseFail(p) ==
    /\ phase[p] = "releasing"
    /\ faults < MaxFaults
    /\ faults' = faults + 1
    /\ \/ UNCHANGED <<owner, ttl, late>>
       \/ Execute("release", p) /\ UNCHANGED late
       \/ late' = [late EXCEPT ![p] = @ \cup {"release"}] /\ UNCHANGED lockVars
    /\ phase' = [phase EXCEPT ![p] = "waiting"]
    /\ UNCHANGED <<electVars, poller>>

\* wg.Wait returns, the process exits.
StopReturn(p) ==
    /\ phase[p] = "waiting"
    /\ elector[p] = "exited"
    /\ poller[p] = "exited"
    /\ phase' = [phase EXCEPT ![p] = "stopped"]
    /\ UNCHANGED <<owner, ttl, electVars, poller, late, faults>>

\* The process dies with its memory; a command it had sent may still be executed.
Crash(p) ==
    /\ Alive(p)
    /\ phase' = [phase EXCEPT ![p] = "crashed"]
    /\ elector' = [elector EXCEPT ![p] = "exited"]
    /\ poller' = [poller EXCEPT ![p] = "exited"]
    /\ \/ UNCHANGED late
       \/ elector[p] = "sent" /\ late' = [late EXCEPT ![p] = @ \cup {Call(p)}]
       \/ phase[p] = "releasing" /\ late' = [late EXCEPT ![p] = @ \cup {"release"}]
    /\ isLeader' = [isLeader EXCEPT ![p] = FALSE]
    /\ timer' = [timer EXCEPT ![p] = 0]
    /\ tick' = [tick EXCEPT ![p] = FALSE]
    /\ age' = [age EXCEPT ![p] = 0]
    /\ UNCHANGED <<owner, ttl, faults>>
-----------------------------------------------------------------------------
\* An attempt is due or under way.
Pending(p) ==
    \/ elector[p] \in {"sent", "granted", "refused"}
    \/ elector[p] = "wait" /\ tick[p]

\* The ticker runs from its creation to the exit of the goroutine.
Ticking(p) == timer[p] > 0

\* Redis expires the key when its TTL has run out.
Expire == IF ttl <= 1 THEN owner' = NoPod /\ ttl' = 0 ELSE ttl' = ttl - 1 /\ UNCHANGED owner

\* One unit of time passes: the key may expire, tickers may fire (a tick that
\* finds the channel full is dropped).
Tick ==
    /\ \A p \in Pods : Pending(p) => age[p] < MaxDelay
    /\ Expire
    /\ timer' = [p \in Pods |-> IF ~Ticking(p) THEN timer[p]
                                ELSE IF timer[p] = 1 THEN RenewInterval ELSE timer[p] - 1]
    /\ tick' = [p \in Pods |-> IF Ticking(p) /\ timer[p] = 1 THEN TRUE ELSE tick[p]]
    /\ age' = [p \in Pods |-> IF Pending(p) THEN age[p] + 1 ELSE age[p]]
    /\ UNCHANGED <<phase, elector, isLeader, poller, late, faults>>

Next ==
    \/ Tick
    \/ \E p \in Pods :
          \/ Start(p) \/ TryLeaderElection(p) \/ Serve(p) \/ Reply(p) \/ Fail(p)
          \/ \E c \in Commands : ServeLate(p, c)
          \/ ElectorExit(p)
          \/ SyncBegin(p) \/ SyncSkipFirst(p) \/ SyncEnd(p) \/ PollerExit(p)
          \/ StopClose(p) \/ StopCheck(p) \/ StopRelease(p) \/ StopReleaseFail(p) \/ StopReturn(p)
          \/ Crash(p)

Spec == Init /\ [][Next]_vars

(***************************************************************************)
(* Fairness.  For election: time passes, the election goroutine moves when *)
(* it can, Redis answers a call that is not one of the MaxFaults failing   *)
(* ones.  For stopping: so do the other goroutines, SyncActiveOrders       *)
(* returns, and the two selects are strongly fair to stopChan, since Go    *)
(* chooses at random among the ready cases.  Nothing forces a Stop, a      *)
(* crash, a failure or a late command.                                     *)
(***************************************************************************)
ElectionFairness ==
    /\ WF_vars(Tick)
    /\ \A p \in Pods :
          /\ WF_vars(TryLeaderElection(p) \/ Serve(p) \/ Reply(p))
          /\ SF_vars(ElectorExit(p))

StopFairness ==
    \A p \in Pods :
       /\ SF_vars(PollerExit(p))
       /\ WF_vars(SyncFirst(p) \/ SyncEnd(p))
       /\ WF_vars(StopCheck(p) \/ StopRelease(p) \/ StopReturn(p))

FairSpec == Spec /\ ElectionFairness /\ StopFairness
-----------------------------------------------------------------------------
\* A pod acts as leader until it is told to stop.
Leading(p) == phase[p] = "running" /\ isLeader[p]

(***************************************************************************)
(* The lease covers the flag: whenever a running pod believes it leads, it *)
(* owns the key and the key outlives the moment at which the pod's next    *)
(* attempt must have ended - so it learns of a lost renewal before anyone  *)
(* else can take over.  The same holds of a grant that is on its way back. *)
(* Holds under Timely (tryLeaderElection, poller_worker.go:148-177).       *)
(***************************************************************************)
LeaseCoversFlag ==
    \A p \in Pods : phase[p] = "running" =>
        /\ elector[p] = "granted" => owner = p /\ ttl + age[p] >= LockTTL
        /\ isLeader[p] =>
              /\ owner = p
              /\ elector[p] \in {"wait", "sent", "granted"}
              /\ elector[p] = "wait" /\ ~tick[p] => ttl > timer[p] + MaxDelay
              /\ elector[p] = "sent" \/ tick[p] => ttl + age[p] > MaxDelay

(***************************************************************************)
(* No two running pods believe they lead: "only one leader pod" of         *)
(* poller_worker.go:5-6, for pods that are not shutting down.              *)
(***************************************************************************)
AtMostOneLeader == \A p, q \in Pods : Leading(p) /\ Leading(q) => p = q

(***************************************************************************)
(* A lock held by a running pod is never deleted or stolen: it goes away   *)
(* only by expiry, whatever late release, retry or shutdown is under way   *)
(* elsewhere (the owner checks of the scripts, redis_cache.go:283-306).    *)
(***************************************************************************)
LeaseEndsOnlyByExpiry ==
    [][\A p \in Pods : owner = p /\ phase[p] = "running" /\ owner' # p
          => ttl <= 1 /\ owner' = NoPod]_vars

(***************************************************************************)
(* Leadership recovers: once failures, crashes and stops have ceased, some *)
(* running pod leads for ever, also when a crash or a lost reply left the  *)
(* lock in the hands of nobody who uses it (the key has a TTL and SET NX   *)
(* is retried every renew interval, poller_worker.go:124-143).             *)
(***************************************************************************)
EventuallyStableLeader ==
    <>[]((\E p \in Pods : phase[p] = "running") => \E q \in Pods : Leading(q))

(***************************************************************************)
(* Stop terminates, even though either loop may prefer a ready tick to the *)
(* closed stopChan and start another attempt or cycle: as a pod is stopped *)
(* at most once, in the end none is stopping (poller_worker.go:104-121).   *)
(***************************************************************************)
StopTerminates == <>[](\A p \in Pods : phase[p] \notin Stopping)

(***************************************************************************)
(* What the package comment promises of the cycles themselves: only one    *)
(* pod runs the periodic poll (poller_worker.go:5-6).  Violated: Stop      *)
(* releases the lock before it waits for the running cycle.                *)
(***************************************************************************)
OneCycleAtATime ==
    \A p, q \in Pods : poller[p] = "syncing" /\ poller[q] = "syncing" => p = q

(***************************************************************************)
(* What the comment on Stop promises: after a graceful stop a standby need *)
(* not wait for the TTL (poller_worker.go:102).  Violated: an acquisition  *)
(* in flight, or a tick taken after stopChan was closed, takes the lock    *)
(* after Stop has looked at isLeader.                                      *)
(***************************************************************************)
StoppedPodHoldsNoLock == \A p \in Pods : phase[p] = "stopped" => owner # p

(***************************************************************************)
(* The abstract specification this module implements.                      *)
(***************************************************************************)
Abstract == INSTANCE Leadership WITH leaders <- {p \in Pods : Leading(p)}
AbstractSpec == Abstract!Spec
=============================================================================

----------------------- MODULE LeaderElection_proofs -----------------------
(***************************************************************************)
(* Proofs about LeaderElection, for every set of pods and all times.       *)
(*                                                                         *)
(* TypeOK and the control invariant below hold without any timing          *)
(* assumption; they give LeaseEndsOnlyByExpiry.  Under Timely the lease    *)
(* covers the flag, hence at most one running pod leads, and the module    *)
(* implements Leadership.                                                  *)
(***************************************************************************)
EXTENDS LeaderElection, TLAPS

(***************************************************************************)
(* Control facts the timing argument relies on: an instance that has not   *)
(* started holds no flag, a release is issued only after Stop, the ticker  *)
(* runs whenever the election loop is in its select.                       *)
(***************************************************************************)
ControlInv ==
    \A p \in Pods :
        /\ phase[p] = "new" => ~isLeader[p] /\ elector[p] = "off"
        /\ phase[p] \in {"new", "running", "closed", "releasing"} => "release" \notin late[p]
        /\ elector[p] = "wait" => timer[p] > 0

\* Any value of the variables is typed after a step from typed values.
THEOREM TypeCorrect == Spec => []TypeOK
<1>1. Init => TypeOK
  BY TimesAssumption DEF Init, TypeOK, Phases
<1>2. TypeOK /\ [Next]_vars => TypeOK'
  <2> SUFFICES ASSUME TypeOK, [Next]_vars
               PROVE  TypeOK'
    OBVIOUS
  <2> USE TimesAssumption DEF TypeOK, Phases, Commands
  <2>1. CASE Tick
    <3>1. owner' \in Pods \cup {NoPod} /\ ttl' \in 0..LockTTL
      BY <2>1 DEF Tick, Expire
    <3>2. timer' \in [Pods -> 0..RenewInterval]
      BY <2>1 DEF Tick, Ticking
    <3>3. tick' \in [Pods -> BOOLEAN]
      BY <2>1 DEF Tick
    <3>4. age' \in [Pods -> 0..MaxDelay]
      BY <2>1 DEF Tick
    <3>5. QED
      BY <2>1, <3>1, <3>2, <3>3, <3>4 DEF Tick
  <2>2. ASSUME NEW p \in Pods, Start(p)
        PROVE  TypeOK'
    BY <2>2 DEF Start
  <2>3. ASSUME NEW p \in Pods, TryLeaderElection(p)
        PROVE  TypeOK'
    BY <2>3 DEF TryLeaderElection
  <2>4. ASSUME NEW p \in Pods, Serve(p)
        PROVE  TypeOK'
    BY <2>4 DEF Serve, Execute, lockVars
  <2>5. ASSUME NEW p \in Pods, Reply(p)
        PROVE  TypeOK'
    BY <2>5 DEF Reply, Resume
  <2>6. ASSUME NEW p \in Pods, Fail(p)
        PROVE  TypeOK'
    BY <2>6 DEF Fail, Resume, FlagAfterError, Call
  <2>7. ASSUME NEW p \in Pods, NEW c \in Commands, ServeLate(p, c)
        PROVE  TypeOK'
    BY <2>7 DEF ServeLate, Execute, lockVars
  <2>8a. ASSUME NEW p \in Pods, ElectorExit(p)
         PROVE  TypeOK'
    BY <2>8a DEF ElectorExit
  <2>8. ASSUME NEW p \in Pods, SyncBegin(p) \/ SyncSkipFirst(p) \/ SyncEnd(p) \/ PollerExit(p)
        PROVE  TypeOK'
    BY <2>8 DEF SyncBegin, SyncSkipFirst, SyncEnd, PollerExit
  <2>9. ASSUME NEW p \in Pods, StopClose(p) \/ StopCheck(p) \/ StopReturn(p)
        PROVE  TypeOK'
    BY <2>9 DEF StopClose, StopCheck, StopReturn, electVars
  <2>10. ASSUME NEW p \in Pods, StopRelease(p) \/ StopReleaseFail(p)
         PROVE  TypeOK'
    BY <2>10 DEF StopRelease, StopReleaseFail, Execute, electVars, lockVars
  <2>11. ASSUME NEW p \in Pods, Crash(p)
         PROVE  TypeOK'
    BY <2>11 DEF Crash, Call
  <2>12. CASE UNCHANGED vars
    BY <2>12 DEF vars
  <2>13. QED
    BY <2>1, <2>2, <2>3, <2>4, <2>5, <2>6, <2>7, <2>8, <2>8a, <2>9, <2>10, <2>11, <2>12 DEF Next
<1>3. QED
  BY <1>1, <1>2, PTL DEF Spec

\* The control invariant needs only typed values.
LEMMA ControlCorrect == Spec => []ControlInv
<1>1. Init => ControlInv
  BY DEF Init, ControlInv
<1>2. TypeOK /\ ControlInv /\ [Next]_vars => ControlInv'
  <2> SUFFICES ASSUME TypeOK, ControlInv, [Next]_vars
               PROVE  ControlInv'
    OBVIOUS
  <2> USE TimesAssumption DEF TypeOK, Phases, ControlInv
  <2>1. CASE Tick
    BY <2>1 DEF Tick, Ticking
  <2>2. ASSUME NEW p \in Pods, Start(p) \/ TryLeaderElection(p) \/ Serve(p)
        PROVE  ControlInv'
    BY <2>2 DEF Start, TryLeaderElection, Serve
  <2>3. ASSUME NEW p \in Pods, Reply(p) \/ Fail(p)
        PROVE  ControlInv'
    BY <2>3 DEF Reply, Fail, Resume, FlagAfterError, Call
  <2>4. ASSUME NEW p \in Pods, NEW c \in Commands, ServeLate(p, c)
        PROVE  ControlInv'
    BY <2>4 DEF ServeLate
  <2>5. ASSUME NEW p \in Pods, ElectorExit(p) \/ SyncBegin(p) \/ SyncSkipFirst(p)
                                 \/ SyncEnd(p) \/ PollerExit(p)
        PROVE  ControlInv'
    BY <2>5 DEF ElectorExit, SyncBegin, SyncSkipFirst, SyncEnd, PollerExit
  <2>6. ASSUME NEW p \in Pods, StopClose(p) \/ StopCheck(p) \/ StopRelease(p)
                                 \/ StopReleaseFail(p) \/ StopReturn(p)
        PROVE  ControlInv'
    BY <2>6 DEF StopClose, StopCheck, StopRelease, StopReleaseFail, StopReturn, electVars
  <2>7. ASSUME NEW p \in Pods, Crash(p)
        PROVE  ControlInv'
    BY <2>7 DEF Crash
  <2>8. CASE UNCHANGED vars
    BY <2>8 DEF vars
  <2>9. QED
    BY <2>1, <2>2, <2>3, <2>4, <2>5, <2>6, <2>7, <2>8 DEF Next
<1>3. QED
  BY <1>1, <1>2, TypeCorrect, PTL DEF Spec

-----------------------------------------------------------------------------
(***************************************************************************)
(* A lock held by a running pod goes away only by expiry.  No timing       *)
(* assumption: the owner checks of the scripts are enough, because a       *)
(* release of a running pod cannot be under way.                           *)
(***************************************************************************)
THEOREM LeaseEndsOnlyByExpiryCorrect == Spec => LeaseEndsOnlyByExpiry
<1>1. ASSUME TypeOK, ControlInv, [Next]_vars,
             NEW p \in Pods, owner = p, phase[p] = "running", owner' # p
      PROVE  ttl <= 1 /\ owner' = NoPod
  <2> USE <1>1, PodsAssumption
  <2>1. CASE Tick
    BY <2>1 DEF Tick, Expire
  <2>2. ASSUME NEW q \in Pods, Serve(q)
        PROVE  FALSE
    BY <2>2 DEF Serve, Execute, Accepts, Call, lockVars
  <2>3. ASSUME NEW q \in Pods, NEW c \in Commands, ServeLate(q, c)
        PROVE  FALSE
    BY <2>3 DEF ServeLate, Execute, Accepts, ControlInv, lockVars
  <2>4. ASSUME NEW q \in Pods, StopRelease(q) \/ StopReleaseFail(q)
        PROVE  FALSE
    BY <2>4 DEF StopRelease, StopReleaseFail, Execute, Accepts, lockVars
  <2>5. ASSUME NEW q \in Pods,
               \/ Start(q) \/ TryLeaderElection(q) \/ Reply(q) \/ Fail(q) \/ ElectorExit(q)
               \/ SyncBegin(q) \/ SyncSkipFirst(q) \/ SyncEnd(q) \/ PollerExit(q)
               \/ StopClose(q) \/ StopCheck(q) \/ StopReturn(q) \/ Crash(q)
        PROVE  FALSE
    BY <2>5 DEF Start, TryLeaderElection, Reply, Fail, ElectorExit, SyncBegin, SyncSkipFirst,
                SyncEnd, PollerExit, StopClose, StopCheck, StopReturn, Crash
  <2>6. CASE UNCHANGED vars
    BY <2>6 DEF vars
  <2>7. QED
    BY <2>1, <2>2, <2>3, <2>4, <2>5, <2>6 DEF Next
<1>2. TypeOK /\ ControlInv /\ [Next]_vars
        => [\A p \in Pods : owner = p /\ phase[p] = "running" /\ owner' # p
              => ttl <= 1 /\ owner' = NoPod]_vars
  BY <1>1
<1>3. QED
  BY <1>2, TypeCorrect, ControlCorrect, PTL DEF Spec, LeaseEndsOnlyByExpiry
-----------------------------------------------------------------------------
(***************************************************************************)
(* LeaseCoversFlag for one pod: what each action must preserve.            *)
(***************************************************************************)
Covered(p) ==
    phase[p] = "running" =>
        /\ elector[p] = "granted" => owner = p /\ ttl + age[p] >= LockTTL
        /\ isLeader[p] =>
              /\ owner = p
              /\ elector[p] \in {"wait", "sent", "granted"}
              /\ elector[p] = "wait" /\ ~tick[p] => ttl > timer[p] + MaxDelay
              /\ elector[p] = "sent" \/ tick[p] => ttl + age[p] > MaxDelay

\* A covered pod that holds the lock keeps it over the next unit of time.
LEMMA TickCovered ==
    ASSUME Timely, TypeOK, ControlInv, Tick, NEW p \in Pods, Covered(p)
    PROVE  Covered(p)'
<1> USE TimesAssumption DEF TypeOK, Phases, Covered, Timely
<1>1. phase'[p] = phase[p] /\ elector'[p] = elector[p] /\ isLeader'[p] = isLeader[p]
  BY DEF Tick
<1>2. CASE phase[p] = "running" /\ elector[p] = "granted"
  <2>1. age[p] < MaxDelay /\ age'[p] = age[p] + 1
    BY <1>2 DEF Tick, Pending
  <2>2. ttl > 1 /\ ttl' = ttl - 1 /\ owner' = owner
    BY <1>2, <2>1 DEF Tick, Expire
  <2>3. QED
    BY <1>1, <1>2, <2>1, <2>2
<1>3. CASE phase[p] = "running" /\ isLeader[p] /\ elector[p] # "granted" /\ Pending(p)
  <2>1. age[p] < MaxDelay /\ age'[p] = age[p] + 1
    BY <1>3 DEF Tick
  <2>2. ttl + age[p] > MaxDelay /\ owner = p
    BY <1>3 DEF Pending
  <2>3. ttl > 1 /\ ttl' = ttl - 1 /\ owner' = owner
    BY <1>3, <2>1, <2>2 DEF Tick, Expire
  <2>4. elector[p] = "wait" => tick'[p] = TRUE
    BY <1>3 DEF Tick, Pending
  <2>5. QED
    BY <1>1, <1>3, <2>1, <2>2, <2>3, <2>4
<1>4. CASE phase[p] = "running" /\ isLeader[p] /\ ~Pending(p)
  <2>1. elector[p] = "wait" /\ ~tick[p]
    BY <1>4 DEF Pending
  <2>2. timer[p] > 0 /\ ttl > timer[p] + MaxDelay /\ owner = p
    BY <1>4, <2>1 DEF ControlInv
  <2>3. ttl > 1 /\ ttl' = ttl - 1 /\ owner' = owner
    BY <2>2 DEF Tick, Expire
  <2>4. age'[p] = age[p] /\ age[p] >= 0
    BY <1>4 DEF Tick
  <2>5. CASE timer[p] = 1
    <3>1. tick'[p] = TRUE
      BY <2>5 DEF Tick, Ticking
    <3>2. QED
      BY <1>1, <1>4, <2>1, <2>2, <2>3, <2>4, <2>5, <3>1
  <2>6. CASE timer[p] # 1
    <3>1. timer'[p] = timer[p] - 1 /\ tick'[p] = tick[p]
      BY <1>4, <2>2, <2>6 DEF Tick, Ticking
    <3>2. QED
      BY <1>1, <1>4, <2>1, <2>2, <2>3, <2>4, <3>1
  <2>7. QED
    BY <2>5, <2>6
<1>5. CASE phase[p] # "running" \/ (~isLeader[p] /\ elector[p] # "granted")
  BY <1>1, <1>5
<1>6. QED
  BY <1>2, <1>3, <1>4, <1>5

\* The pod's own election steps.
LEMMA ElectionCovered ==
    ASSUME Timely, TypeOK, ControlInv, NEW p \in Pods, Covered(p),
           TryLeaderElection(p) \/ Serve(p) \/ Reply(p) \/ Fail(p) \/ ElectorExit(p)
    PROVE  Covered(p)'
<1> USE TimesAssumption, PodsAssumption DEF TypeOK, Phases, Covered, Timely
<1>1. CASE TryLeaderElection(p)
  BY <1>1 DEF TryLeaderElection
<1>2. CASE Serve(p)
  <2>1. elector'[p] = "granted" => owner' = p /\ ttl' = LockTTL
    BY <1>2 DEF Serve, Execute, Accepts, Call
  <2>2. phase'[p] = phase[p] /\ isLeader'[p] = isLeader[p] /\ age'[p] = age[p] /\ tick' = tick
    BY <1>2 DEF Serve
  <2>3. phase[p] = "running" /\ isLeader[p] => elector'[p] = "granted"
    BY <1>2 DEF Serve, Accepts, Call
  <2>4. elector'[p] \in {"granted", "refused"}
    BY <1>2 DEF Serve
  <2>5. QED
    BY <2>1, <2>2, <2>3, <2>4
<1>3. CASE Reply(p)
  <2>1. /\ elector'[p] = "wait" /\ age'[p] = 0 /\ tick' = tick
        /\ phase' = phase /\ owner' = owner /\ ttl' = ttl
        /\ timer'[p] <= RenewInterval /\ timer'[p] \in Int
    BY <1>3 DEF Reply, Resume
  <2>2. isLeader'[p] => elector[p] = "granted"
    BY <1>3 DEF Reply
  <2>3. QED
    BY <2>1, <2>2
<1>4. CASE Fail(p)
  <2>1. elector'[p] = "wait" /\ ~isLeader'[p] /\ phase' = phase
    BY <1>4 DEF Fail, Resume, FlagAfterError
  <2>2. QED
    BY <2>1
<1>5. CASE ElectorExit(p)
  BY <1>5 DEF ElectorExit, StopClosed, Stopping
<1>6. QED
  BY <1>1, <1>2, <1>3, <1>4, <1>5

\* The pod's start, stop and crash, and its periodic goroutine.
LEMMA LifeCovered ==
    ASSUME TypeOK, ControlInv, NEW p \in Pods, Covered(p),
           \/ Start(p) \/ SyncBegin(p) \/ SyncSkipFirst(p) \/ SyncEnd(p) \/ PollerExit(p)
           \/ StopClose(p) \/ StopCheck(p) \/ StopReturn(p) \/ Crash(p)
    PROVE  Covered(p)'
<1> USE DEF TypeOK, Phases, Covered
<1>1. CASE Start(p)
  BY <1>1 DEF Start, ControlInv
<1>2. CASE SyncBegin(p) \/ SyncSkipFirst(p) \/ SyncEnd(p) \/ PollerExit(p)
  BY <1>2 DEF SyncBegin, SyncSkipFirst, SyncEnd, PollerExit
<1>3. CASE StopClose(p) \/ StopCheck(p) \/ StopReturn(p) \/ Crash(p)
  BY <1>3 DEF StopClose, StopCheck, StopReturn, Crash
<1>4. QED
  BY <1>1, <1>2, <1>3

\* Commands that Redis executes for a shutdown or for a caller that gave up.
LEMMA LateCovered ==
    ASSUME Timely, TypeOK, ControlInv, NEW p \in Pods, Covered(p), NEW q \in Pods,
           \/ \E c \in Commands : ServeLate(q, c)
           \/ StopRelease(q) \/ StopReleaseFail(q)
    PROVE  Covered(p)'
<1> USE TimesAssumption, PodsAssumption DEF TypeOK, Phases, Covered, Timely
<1>1. phase'[p] = "running" => phase[p] = "running"
  BY DEF ServeLate, StopRelease, StopReleaseFail
<1>2. /\ elector' = elector /\ isLeader' = isLeader /\ timer' = timer
      /\ tick' = tick /\ age' = age
  BY DEF ServeLate, StopRelease, StopReleaseFail, electVars
<1>3. phase[p] = "running" /\ owner = p => owner' = p /\ ttl' \in Int /\ ttl' >= ttl
  BY DEF ServeLate, StopRelease, StopReleaseFail, Execute, Accepts, ControlInv, lockVars
<1>4. QED
  BY <1>1, <1>2, <1>3

\* The steps of another pod: it is refused the lock while p holds it.
LEMMA OthersCovered ==
    ASSUME TypeOK, ControlInv, NEW p \in Pods, Covered(p), NEW q \in Pods, q # p,
           \/ Start(q) \/ TryLeaderElection(q) \/ Serve(q) \/ Reply(q) \/ Fail(q) \/ ElectorExit(q)
           \/ SyncBegin(q) \/ SyncSkipFirst(q) \/ SyncEnd(q) \/ PollerExit(q)
           \/ StopClose(q) \/ StopCheck(q) \/ StopReturn(q) \/ Crash(q)
    PROVE  Covered(p)'
<1> USE PodsAssumption DEF TypeOK, Phases, Covered
<1>1. /\ phase'[p] = phase[p] /\ elector'[p] = elector[p] /\ isLeader'[p] = isLeader[p]
      /\ timer'[p] = timer[p] /\ tick'[p] = tick[p] /\ age'[p] = age[p]
  BY DEF Start, TryLeaderElection, Serve, Reply, Fail, Resume, ElectorExit, SyncBegin,
         SyncSkipFirst, SyncEnd, PollerExit, StopClose, StopCheck, StopReturn, Crash, electVars
<1>2. owner = p => owner' = p /\ ttl' = ttl
  BY DEF Start, TryLeaderElection, Serve, Execute, Accepts, Call, Reply, Fail, ElectorExit,
         SyncBegin, SyncSkipFirst, SyncEnd, PollerExit, StopClose, StopCheck, StopReturn, Crash,
         lockVars
<1>3. QED
  BY <1>1, <1>2

(***************************************************************************)
(* If calls are timely, a running pod that believes it leads owns a lock   *)
(* that outlives its next chance to learn otherwise.                       *)
(***************************************************************************)
THEOREM LeaseCoversFlagCorrect == ASSUME Timely PROVE Spec => []LeaseCoversFlag
<1>1. Init => LeaseCoversFlag
  BY DEF Init, LeaseCoversFlag
<1>2. TypeOK /\ ControlInv /\ LeaseCoversFlag /\ [Next]_vars => LeaseCoversFlag'
  <2> SUFFICES ASSUME TypeOK, ControlInv, LeaseCoversFlag, [Next]_vars, NEW p \in Pods
               PROVE  Covered(p)'
    BY DEF LeaseCoversFlag, Covered
  <2>1. Covered(p)
    BY DEF LeaseCoversFlag, Covered
  <2>2. CASE Tick
    BY <2>1, <2>2, TickCovered
  <2>3. CASE UNCHANGED vars
    BY <2>1, <2>3 DEF vars, Covered
  <2>4. ASSUME NEW q \in Pods,
               \/ \E c \in Commands : ServeLate(q, c)
               \/ StopRelease(q) \/ StopReleaseFail(q)
        PROVE  Covered(p)'
    BY <2>1, <2>4, LateCovered
  <2>5. ASSUME NEW q \in Pods,
               \/ Start(q) \/ TryLeaderElection(q) \/ Serve(q) \/ Reply(q) \/ Fail(q) \/ ElectorExit(q)
               \/ SyncBegin(q) \/ SyncSkipFirst(q) \/ SyncEnd(q) \/ PollerExit(q)
               \/ StopClose(q) \/ StopCheck(q) \/ StopReturn(q) \/ Crash(q)
        PROVE  Covered(p)'
    <3>1. CASE q = p
      BY <2>1, <2>5, <3>1, ElectionCovered, LifeCovered
    <3>2. CASE q # p
      BY <2>1, <2>5, <3>2, OthersCovered
    <3>3. QED
      BY <3>1, <3>2
  <2>6. QED
    BY <2>2, <2>3, <2>4, <2>5 DEF Next
<1>3. QED
  BY <1>1, <1>2, TypeCorrect, ControlCorrect, PTL DEF Spec

\* If calls are timely, at most one running pod believes it leads.
THEOREM AtMostOneLeaderCorrect == ASSUME Timely PROVE Spec => []AtMostOneLeader
<1>1. LeaseCoversFlag => AtMostOneLeader
  BY DEF LeaseCoversFlag, AtMostOneLeader, Leading
<1>2. QED
  BY <1>1, LeaseCoversFlagCorrect, PTL

\* If calls are timely, leader election implements Leadership.
THEOREM ImplementsLeadership == ASSUME Timely PROVE Spec => AbstractSpec
<1> DEFINE Leaders == {p \in Pods : Leading(p)}
<1>1. Init => Abstract!Init
  BY DEF Init, Abstract!Init, Leading
<1>2. ASSUME TypeOK, ControlInv, LeaseCoversFlag, [Next]_vars
      PROVE  [Abstract!Next]_Leaders
  <2> USE <1>2 DEF TypeOK, Phases
  <2>1. ASSUME NEW p \in Pods, \A q \in Pods \ {p} : Leading(q)' = Leading(q)
        PROVE  \/ Leaders' = Leaders
               \/ p \notin Leaders /\ Leaders' = Leaders \cup {p} /\ Leading(p)'
               \/ p \in Leaders /\ Leaders' = Leaders \ {p}
    BY <2>1
  <2>2. ASSUME NEW p \in Pods, ~Leading(p), Leading(p)', \A q \in Pods \ {p} : Leading(q)' = Leading(q),
               Reply(p)
        PROVE  Abstract!Elect(p)
    <3>1. phase[p] = "running" /\ elector[p] = "granted" /\ owner = p
      BY <2>2 DEF Reply, Leading, LeaseCoversFlag
    <3>2. \A q \in Pods : ~Leading(q)
      BY <2>2, <3>1 DEF Leading, LeaseCoversFlag
    <3>3. QED
      BY <2>2, <3>2 DEF Abstract!Elect
  <2>3. ASSUME NEW p \in Pods, Reply(p)
        PROVE  [Abstract!Next]_Leaders
    <3>1. \A q \in Pods \ {p} : Leading(q)' = Leading(q)
      BY <2>3 DEF Reply, Leading
    <3>2. CASE Leading(p) = Leading(p)'
      BY <2>1, <3>1, <3>2
    <3>3. CASE ~Leading(p) /\ Leading(p)'
      BY <2>2, <2>3, <3>1, <3>3 DEF Abstract!Next
    <3>4. CASE Leading(p) /\ ~Leading(p)'
      BY <2>1, <3>1, <3>4 DEF Abstract!Next, Abstract!Resign
    <3>5. QED
      BY <3>2, <3>3, <3>4 DEF Leading
  <2>4. ASSUME NEW p \in Pods,
               \/ Start(p) \/ TryLeaderElection(p) \/ Serve(p) \/ Fail(p) \/ ElectorExit(p)
               \/ SyncBegin(p) \/ SyncSkipFirst(p) \/ SyncEnd(p) \/ PollerExit(p)
               \/ StopClose(p) \/ StopCheck(p) \/ StopRelease(p) \/ StopReleaseFail(p)
               \/ StopReturn(p) \/ Crash(p) \/ \E c \in Commands : ServeLate(p, c)
        PROVE  [Abstract!Next]_Leaders
    <3>1. \A q \in Pods \ {p} : Leading(q)' = Leading(q)
      BY <2>4 DEF Leading, Start, TryLeaderElection, Serve, Fail, ElectorExit, SyncBegin,
           SyncSkipFirst, SyncEnd, PollerExit, StopClose, StopCheck, StopRelease,
           StopReleaseFail, StopReturn, Crash, ServeLate, electVars
    <3>2. Leading(p)' => Leading(p)
      BY <2>4 DEF ControlInv, Leading, Start, TryLeaderElection, Serve, Fail, FlagAfterError,
           ElectorExit, SyncBegin, SyncSkipFirst, SyncEnd, PollerExit, StopClose, StopCheck,
           StopRelease, StopReleaseFail, StopReturn, Crash, ServeLate, electVars
    <3>3. QED
      BY <2>1, <3>1, <3>2 DEF Abstract!Next, Abstract!Resign
  <2>5. CASE Tick \/ UNCHANGED vars
    BY <2>5 DEF Tick, vars, Leading
  <2>6. QED
    BY <2>3, <2>4, <2>5 DEF Next
<1>3. QED
  BY <1>1, <1>2, TypeCorrect, ControlCorrect, LeaseCoversFlagCorrect, PTL
     DEF Spec, AbstractSpec, Abstract!Spec

\* If calls are timely, a running pod begins a cycle only while the key is its
\* own and no other running pod leads: cycles overlap only if one was begun by
\* a pod being stopped, or goes on after its pod has lost the key
\* (runPeriodicSync, poller_worker.go:181-212).
THEOREM CycleBeginsUnderLease ==
    ASSUME Timely
    PROVE  Spec => [][\A p \in Pods :
                        phase[p] = "running" /\ poller[p] # "syncing" /\ poller'[p] = "syncing"
                          => owner = p /\ \A q \in Pods \ {p} : ~Leading(q)]_vars
<1>1. ASSUME TypeOK, LeaseCoversFlag, AtMostOneLeader, [Next]_vars,
             NEW p \in Pods, phase[p] = "running", poller[p] # "syncing", poller'[p] = "syncing"
      PROVE  owner = p /\ \A q \in Pods \ {p} : ~Leading(q)
  <2>1. ASSUME NEW q \in Pods, SyncBegin(q)
        PROVE  Leading(p)
    <3>1. /\ poller' = [poller EXCEPT ![q] = "syncing"]
          /\ poller \in [Pods -> {"off", "first", "idle", "syncing", "exited"}]
      BY <1>1, <2>1 DEF SyncBegin, TypeOK
    <3>2. p = q
      BY <1>1, <3>1
    <3>3. QED
      BY <1>1, <2>1, <3>2 DEF SyncBegin, Leading
  <2>2. ASSUME NEW q \in Pods,
               \/ Start(q) \/ TryLeaderElection(q) \/ Serve(q) \/ Reply(q) \/ Fail(q) \/ ElectorExit(q)
               \/ SyncSkipFirst(q) \/ SyncEnd(q) \/ PollerExit(q)
               \/ StopClose(q) \/ StopCheck(q) \/ StopRelease(q) \/ StopReleaseFail(q)
               \/ StopReturn(q) \/ Crash(q) \/ \E c \in Commands : ServeLate(q, c)
        PROVE  FALSE
    BY <1>1, <2>2 DEF Start, TryLeaderElection, Serve, Reply, Fail, ElectorExit, SyncSkipFirst, SyncEnd,
       PollerExit, StopClose, StopCheck, StopRelease, StopReleaseFail, StopReturn, Crash, ServeLate,
       TypeOK
  <2>3. ~Tick /\ ~UNCHANGED vars
    BY <1>1 DEF Tick, vars
  <2>4. Leading(p)
    BY <1>1, <2>1, <2>2, <2>3 DEF Next
  <2>5. QED
    BY <1>1, <2>4 DEF LeaseCoversFlag, AtMostOneLeader, Leading
<1>2. TypeOK /\ LeaseCoversFlag /\ AtMostOneLeader /\ [Next]_vars =>
        [\A p \in Pods :
           phase[p] = "running" /\ poller[p] # "syncing" /\ poller'[p] = "syncing"
             => owner = p /\ \A q \in Pods \ {p} : ~Leading(q)]_vars
  BY <1>1
<1>3. QED
  BY <1>2, TypeCorrect, LeaseCoversFlagCorrect, AtMostOneLeaderCorrect, PTL DEF Spec
=============================================================================

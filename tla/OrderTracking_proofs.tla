------------------------ MODULE OrderTracking_proofs ------------------------
(***************************************************************************)
(* Proofs about OrderTracking.  TypeOK holds without conditions; in the    *)
(* regular regime a watched order is tracked for ever once it is tracked,  *)
(* and its cache stays warm, for all TTLs and intervals and any number of  *)
(* orders.                                                                 *)
(***************************************************************************)
EXTENDS OrderTracking, TLAPS

\* A step on behalf of one order, or one of the cycle.
OrderStep(o) ==
    \/ Get(o) \/ GetFail(o) \/ Refresh(o)
    \/ Register(o) \/ RegisterBeat(o) \/ RegisterFail(o) \/ UrgentSync(o)

\* Whose step a step is.
LEMMA NextSteps ==
    ASSUME Next
    PROVE  \/ Tick
           \/ \E o \in Orders : OrderStep(o) \/ CheckHeartbeat(o)
           \/ CycleBegin \/ RemoveDoomed \/ RemoveFail \/ ListActive \/ ListFail
           \/ \E located \in SUBSET Orders : WriteBatch(located)
BY DEF Next, OrderStep
-----------------------------------------------------------------------------
(***************************************************************************)
(* The type invariant, which holds in the first state.                     *)
(***************************************************************************)
LEMMA TypeInit == Init => TypeOK
<1> SUFFICES ASSUME Init
             PROVE  TypeOK
  OBVIOUS
<1>1. /\ {HeartbeatTTL, LocationTTL, PollInterval, WatchGap} \subseteq Nat
      /\ PollInterval \in 1..PollInterval
      /\ {CycleTime, MaxMisses, MaxFaults, MaxReads} \subseteq Nat
  BY TimesAssumption
<1>2. due \in BOOLEAN
  BY DEF Init
<1>3. QED
  BY <1>1, <1>2 DEF Init, TypeOK

\* Every action keeps the types; the TTLs only ever fall or are set anew.
LEMMA TypeStep == TypeOK /\ [Next]_vars => TypeOK'
<1> SUFFICES ASSUME TypeOK, [Next]_vars
             PROVE  TypeOK'
  OBVIOUS
<1> USE OrdersAssumption, TimesAssumption DEF TypeOK, redis, readPath, cyclePath
<1>1. ASSUME NEW o \in Orders, Get(o)
      PROVE  TypeOK'
  BY <1>1 DEF Get, ReadArrives
<1>2. ASSUME NEW o \in Orders, GetFail(o)
      PROVE  TypeOK'
  BY <1>2 DEF GetFail, ReadArrives, RedisFails
<1>3. ASSUME NEW o \in Orders, Refresh(o)
      PROVE  TypeOK'
  BY <1>3 DEF Refresh, RedisFails
<1>4. ASSUME NEW o \in Orders, Register(o) \/ RegisterBeat(o)
      PROVE  TypeOK'
  BY <1>4 DEF Register, RegisterBeat, Trigger
<1>5. ASSUME NEW o \in Orders, RegisterFail(o)
      PROVE  TypeOK'
  BY <1>5 DEF RegisterFail, RedisFails
<1>6. ASSUME NEW o \in Orders, UrgentSync(o)
      PROVE  TypeOK'
  BY <1>6 DEF UrgentSync
<1>7. ASSUME NEW o \in Orders, CheckHeartbeat(o)
      PROVE  TypeOK'
  BY <1>7 DEF CheckHeartbeat
<1>8. CASE CycleBegin
  BY <1>8 DEF CycleBegin
<1>9. CASE RemoveDoomed \/ RemoveFail
  BY <1>9 DEF RemoveDoomed, RemoveFail, RedisFails
<1>10. CASE ListActive \/ ListFail
  BY <1>10 DEF ListActive, ListFail, RedisFails
<1>11. ASSUME NEW located \in SUBSET Orders, WriteBatch(located)
       PROVE  TypeOK'
  <2>1. misses' \in [Orders -> 0..MaxMisses]
    BY <1>11 DEF WriteBatch
  <2>2. location' \in [Orders -> 0..LocationTTL]
    BY <1>11 DEF WriteBatch
  <2>3. QED
    BY <1>11, <2>1, <2>2 DEF WriteBatch
<1>12. CASE Tick
  <2>1. since' \in [Orders -> 0..WatchGap]
    BY <1>12 DEF Tick
  <2>2. heartbeat' \in [Orders -> 0..HeartbeatTTL] /\ location' \in [Orders -> 0..LocationTTL]
    BY <1>12 DEF Tick, Elapse
  <2>3. timer' \in 1..PollInterval /\ age' \in 0..CycleTime
    BY <1>12 DEF Tick
  <2>4. due' \in BOOLEAN
    <3>1. CASE timer = 1
      BY <1>12, <3>1 DEF Tick
    <3>2. CASE timer # 1
      BY <1>12, <3>2 DEF Tick
    <3>3. QED
      BY <3>1, <3>2
  <2>5. QED
    BY <1>12, <2>1, <2>2, <2>3, <2>4 DEF Tick
<1>13. CASE UNCHANGED vars
  BY <1>13 DEF vars
<1> HIDE DEF TypeOK
<1>14. QED
  BY <1>1, <1>2, <1>3, <1>4, <1>5, <1>6, <1>7, <1>8, <1>9, <1>10, <1>11, <1>12, <1>13,
     NextSteps DEF OrderStep

\* The types of all variables, with every TTL within its bound.
THEOREM TypeCorrect == Spec => []TypeOK
BY TypeInit, TypeStep, PTL DEF Spec
-----------------------------------------------------------------------------
(***************************************************************************)
(* A watched order once tracked stays tracked.  The heartbeat is long      *)
(* enough for every refresh that fails: each costs one more WatchGap.      *)
(***************************************************************************)
Overdue(o) == IF client[o] = "idle" THEN since[o] ELSE WatchGap

Beating(o) == o \in active => HeartbeatTTL <= heartbeat[o] + faults * WatchGap + Overdue(o)

\* Whatever may give the order a heartbeat or a place in a cycle.
Known(o) == HasHeartbeat(o) \/ Cached(o) \/ client[o] = "hit" \/ o \in urgent \cup ids \cup unchecked

Tracked(o) ==
    /\ client[o] # "added" /\ o \notin doomed
    /\ Known(o) => o \in active
    /\ Beating(o)

TrackInv == \A o \in Watched : Tracked(o)

\* Multiples of a gap or a period.
LEMMA Multiples ==
    ASSUME NEW k \in Nat, NEW m \in Nat, NEW n \in Nat, m <= n
    PROVE  /\ m * k \in Nat /\ m * k <= n * k
           /\ (m + 1) * k = m * k + k
<1>1. PICK d \in Nat : n = m + d
  BY n - m \in Nat
<1>2. d * k \in Nat /\ m * k \in Nat
  OBVIOUS
<1>3. (m + d) * k = m * k + d * k
  OBVIOUS
<1>4. (m + 1) * k = m * k + k
  OBVIOUS
<1>5. QED
  BY <1>1, <1>2, <1>3, <1>4

\* The heartbeat of a tracked watched order is alive.
LEMMA AliveHeartbeat ==
    ASSUME Regular, TypeOK, NEW o \in Watched, Tracked(o), o \in active
    PROVE  HasHeartbeat(o)
<1> USE OrdersAssumption, TimesAssumption DEF TypeOK
<1>1. faults * WatchGap <= MaxFaults * WatchGap /\ faults * WatchGap \in Nat
      /\ (MaxFaults + 1) * WatchGap = MaxFaults * WatchGap + WatchGap
  BY Multiples
<1>2. MaxFaults * WatchGap + WatchGap < HeartbeatTTL
  BY <1>1 DEF Regular
<1>3. Overdue(o) \in 0..WatchGap
  BY DEF Overdue
<1>4. HeartbeatTTL <= heartbeat[o] + faults * WatchGap + Overdue(o)
  BY DEF Tracked, Beating
<1>5. MaxFaults * WatchGap \in Nat /\ heartbeat[o] \in Nat
  BY Multiples
<1>6. QED
  BY <1>1, <1>2, <1>3, <1>4, <1>5 DEF HasHeartbeat

\* One more failed call pays for one more gap.
LEMMA FaultPays ==
    ASSUME TypeOK, NEW o \in Watched, Beating(o), RedisFails,
           o \in active' => o \in active, heartbeat'[o] = heartbeat[o],
           client'[o] = "idle" => since'[o] \in Nat, client'[o] # "idle" => client[o] # "idle"
    PROVE  Beating(o)'
<1> USE OrdersAssumption, TimesAssumption DEF TypeOK
<1>1. faults' * WatchGap = faults * WatchGap + WatchGap /\ faults * WatchGap \in Nat
  BY Multiples DEF RedisFails
<1>2. Overdue(o) <= WatchGap /\ Overdue(o)' \in Nat /\ Overdue(o) \in Nat
  BY DEF Overdue
<1>3. heartbeat[o] \in Nat /\ HeartbeatTTL \in Nat
  OBVIOUS
<1>4. QED
  BY <1>1, <1>2, <1>3 DEF Beating

\* A step that leaves the order alone, but perhaps takes a fault away.
LEMMA LeftAlone ==
    ASSUME TypeOK, NEW o \in Watched, Tracked(o), faults' \in {faults, faults + 1},
           o \in active' <=> o \in active, heartbeat'[o] = heartbeat[o],
           client'[o] = client[o], since'[o] = since[o],
           Known(o)' => Known(o) \/ o \in active, o \notin doomed'
    PROVE  Tracked(o)'
<1> USE OrdersAssumption, TimesAssumption DEF TypeOK
<1>1. faults * WatchGap <= faults' * WatchGap /\ faults * WatchGap \in Nat /\ faults' * WatchGap \in Nat
  BY Multiples
<1>2. Overdue(o)' = Overdue(o) /\ Overdue(o) \in Nat
  BY DEF Overdue
<1>3. heartbeat[o] \in Nat /\ HeartbeatTTL \in Nat
  OBVIOUS
<1>4. Beating(o)'
  BY <1>1, <1>2, <1>3 DEF Tracked, Beating
<1>5. QED
  BY <1>4 DEF Tracked

\* The order's own reads and its urgent sync.
LEMMA OwnStep ==
    ASSUME Regular, TypeOK, NEW o \in Watched, Tracked(o), OrderStep(o)
    PROVE  Tracked(o)'
<1> USE OrdersAssumption, TimesAssumption DEF Regular, TypeOK, redis, readPath, cyclePath
<1>1. o \in Orders /\ o \notin Split
  OBVIOUS
<1>2. ASSUME heartbeat'[o] = HeartbeatTTL
      PROVE  Beating(o)'
  <2>1. faults' \in Nat /\ Overdue(o)' \in Nat
    BY <1>1, TypeStep DEF OrderStep, Overdue, Next
  <2>2. faults' * WatchGap \in Nat
    BY <2>1, Multiples
  <2>3. QED
    BY <1>2, <2>1, <2>2 DEF Beating
<1>3. CASE Get(o)
  <2>1. Beating(o)'
    <3>1. Overdue(o) <= Overdue(o)' /\ Overdue(o) \in Nat /\ Overdue(o)' \in Nat
      BY <1>3 DEF Get, ReadArrives, Overdue
    <3>2. faults * WatchGap \in Nat /\ faults' = faults /\ heartbeat' = heartbeat /\ active' = active
      BY <1>3, Multiples DEF Get
    <3>3. QED
      BY <3>1, <3>2 DEF Tracked, Beating
  <2>2. QED
    BY <1>1, <1>3, <2>1 DEF Get, ReadArrives, Tracked, Known, HasHeartbeat, Cached
<1>4. CASE GetFail(o)
  <2>1. Beating(o)'
    <3>1. RedisFails /\ since'[o] = 0 /\ client'[o] = client[o]
      BY <1>1, <1>4 DEF GetFail, ReadArrives
    <3>2. active' = active /\ heartbeat' = heartbeat
      BY <1>4 DEF GetFail
    <3>3. QED
      BY <3>1, <3>2, FaultPays DEF Tracked
  <2>2. QED
    BY <1>4, <2>1 DEF GetFail, Tracked, Known, HasHeartbeat, Cached
<1>5. CASE Refresh(o)
  <2>1. Beating(o)'
    <3>1. CASE heartbeat' = [heartbeat EXCEPT ![o] = HeartbeatTTL]
      BY <1>2, <3>1
    <3>2. CASE RedisFails /\ UNCHANGED heartbeat
      BY <1>5, <3>2, FaultPays DEF Refresh, Tracked
    <3>3. QED
      BY <1>5, <3>1, <3>2 DEF Refresh
  <2>2. QED
    BY <1>5, <2>1 DEF Refresh, Tracked, Known, HasHeartbeat, Cached
<1>6. CASE Register(o)
  BY <1>1, <1>2, <1>6 DEF Register, Trigger, Tracked, Known
<1>7. CASE RegisterBeat(o)
  BY <1>7 DEF RegisterBeat, Tracked
<1>8. CASE RegisterFail(o)
  <2>1. CASE UNCHANGED <<active, heartbeat>>
    <3>1. Beating(o)'
      BY <1>8, <2>1, FaultPays DEF RegisterFail, Tracked
    <3>2. QED
      BY <1>8, <2>1, <3>1 DEF RegisterFail, Tracked, Known, HasHeartbeat, Cached
  <2>2. CASE active' = active \cup {o} /\ heartbeat' = [heartbeat EXCEPT ![o] = HeartbeatTTL]
    BY <1>2, <1>8, <2>2 DEF RegisterFail, Tracked, Known
  <2>3. QED
    BY <1>1, <1>8, <2>1, <2>2 DEF RegisterFail
<1>9. CASE UrgentSync(o)
  <2>1. UNCHANGED <<active, heartbeat, client, since, faults, doomed>>
    BY <1>9 DEF UrgentSync
  <2>2. o \in active
    BY <1>9 DEF UrgentSync, Tracked, Known
  <2>3. QED
    BY <2>1, <2>2, LeftAlone DEF Tracked
<1>10. QED
  BY <1>3, <1>4, <1>5, <1>6, <1>7, <1>8, <1>9 DEF OrderStep

\* Steps on behalf of another order.
LEMMA OtherStep ==
    ASSUME TypeOK, NEW o \in Watched, Tracked(o), NEW x \in Orders \ {o}, OrderStep(x) \/ CheckHeartbeat(x)
    PROVE  Tracked(o)'
<1> USE OrdersAssumption DEF TypeOK, redis, readPath, cyclePath
<1>1. faults' \in {faults, faults + 1} /\ ids' = ids
  BY DEF OrderStep, Get, GetFail, Refresh, Register, RegisterBeat, RegisterFail, UrgentSync,
         CheckHeartbeat, RedisFails
<1>2. /\ o \in active' <=> o \in active
      /\ heartbeat'[o] = heartbeat[o] /\ client'[o] = client[o] /\ since'[o] = since[o]
  BY DEF OrderStep, Get, GetFail, ReadArrives, Refresh, Register, RegisterBeat, RegisterFail,
         UrgentSync, CheckHeartbeat
<1>3. /\ location'[o] = location[o]
      /\ o \in urgent' => o \in urgent
      /\ o \in unchecked' => o \in unchecked
      /\ o \in doomed' => o \in doomed
  BY DEF OrderStep, Get, GetFail, Refresh, Register, RegisterBeat, RegisterFail, Trigger,
         UrgentSync, CheckHeartbeat
<1>4. QED
  BY <1>1, <1>2, <1>3, LeftAlone DEF Tracked, Known, HasHeartbeat, Cached

\* The cycle dooms and removes only orders without a heartbeat.
LEMMA CycleStep ==
    ASSUME Regular, TypeOK, NEW o \in Watched, Tracked(o),
           \/ CheckHeartbeat(o) \/ CycleBegin \/ RemoveDoomed \/ RemoveFail \/ ListActive \/ ListFail
           \/ \E located \in SUBSET Orders : WriteBatch(located)
    PROVE  Tracked(o)'
<1> USE OrdersAssumption DEF TypeOK, redis, readPath, cyclePath
<1>1. CASE CheckHeartbeat(o)
  <2>1. o \in active
    BY <1>1 DEF CheckHeartbeat, Tracked, Known
  <2>2. o \notin doomed'
    BY <1>1, <2>1, AliveHeartbeat DEF CheckHeartbeat, Tracked
  <2>3. QED
    BY <1>1, <2>1, <2>2, LeftAlone DEF CheckHeartbeat
<1>2. CASE CycleBegin
  BY <1>2, LeftAlone DEF CycleBegin, Tracked, Known, HasHeartbeat, Cached
<1>3. CASE RemoveDoomed
  BY <1>3, LeftAlone DEF RemoveDoomed, Tracked, Known, HasHeartbeat, Cached
<1>4. CASE RemoveFail
  <2>1. faults' = faults + 1 /\ (o \in active' <=> o \in active)
    BY <1>4 DEF RemoveFail, RedisFails, Tracked
  <2>2. QED
    BY <1>4, <2>1, LeftAlone DEF RemoveFail, Tracked, Known, HasHeartbeat, Cached
<1>5. CASE ListActive
  BY <1>5, LeftAlone DEF ListActive, Tracked, Known, HasHeartbeat, Cached
<1>6. CASE ListFail
  BY <1>6, LeftAlone DEF ListFail, RedisFails, Tracked, Known, HasHeartbeat, Cached
<1>7. CASE \E located \in SUBSET Orders : WriteBatch(located)
  <2>1. PICK located \in SUBSET Orders : WriteBatch(located)
    BY <1>7
  <2>2. o \in located => o \in ids
    BY <2>1 DEF WriteBatch
  <2>3. location'[o] # location[o] => o \in active
    BY <2>1, <2>2 DEF WriteBatch, Tracked, Known
  <2>4. UNCHANGED <<active, heartbeat, client, since, urgent, unchecked, doomed, faults>> /\ ids' = {}
    BY <2>1 DEF WriteBatch
  <2>5. QED
    BY <2>3, <2>4, LeftAlone DEF Tracked, Known, HasHeartbeat, Cached
<1>8. QED
  BY <1>1, <1>2, <1>3, <1>4, <1>5, <1>6, <1>7

\* Time costs a heartbeat what it adds to the time since the last read.
LEMMA TickTracked ==
    ASSUME TypeOK, NEW o \in Watched, Tracked(o), Tick
    PROVE  Tracked(o)'
<1> USE OrdersAssumption, TimesAssumption DEF TypeOK
<1>1. /\ heartbeat'[o] = Elapse(heartbeat[o]) /\ location'[o] = Elapse(location[o])
      /\ client[o] = "idle" /\ since'[o] = since[o] + 1
      /\ UNCHANGED <<active, client, urgent, ids, unchecked, doomed, faults>>
  BY DEF Tick
<1>2. faults * WatchGap \in Nat
  BY Multiples
<1>3. Beating(o)'
  BY <1>1, <1>2 DEF Tracked, Beating, Overdue, Elapse
<1>4. Known(o)' => Known(o)
  BY <1>1 DEF Known, HasHeartbeat, Cached, Elapse
<1>5. QED
  BY <1>1, <1>3, <1>4 DEF Tracked

\* Every step keeps a watched order tracked, whoever takes it.
LEMMA TrackStep == Regular /\ TypeOK /\ TrackInv /\ [Next]_vars => TrackInv'
<1> SUFFICES ASSUME Regular, TypeOK, [Next]_vars, NEW o \in Watched, Tracked(o)
             PROVE  Tracked(o)'
  BY DEF TrackInv
<1>1. CASE UNCHANGED vars
  BY <1>1 DEF vars, redis, readPath, cyclePath, Tracked, Known, HasHeartbeat, Cached, Beating, Overdue
<1>2. CASE Next
  <2>1. ASSUME NEW x \in Orders, OrderStep(x) \/ CheckHeartbeat(x)
        PROVE  Tracked(o)'
    BY <2>1, OwnStep, OtherStep, CycleStep
  <2>2. QED
    BY <1>2, <2>1, NextSteps, CycleStep, TickTracked
<1>3. QED
  BY <1>1, <1>2

\* In the regular regime TrackInv holds always.
LEMMA TrackInvCorrect == ASSUME Regular PROVE Spec => []TrackInv
<1>1. Init => TrackInv
  BY OrdersAssumption DEF Init, TrackInv, Tracked, Known, HasHeartbeat, Cached, Beating
<1>2. QED
  BY <1>1, TrackStep, TypeCorrect, PTL DEF Spec

\* Under Regular the cleaner never takes a watched order out of the set.
THEOREM LiveIsTrackedCorrect == ASSUME Regular PROVE Spec => []LiveIsTracked
<1>1. TrackInv => LiveIsTracked
  BY DEF TrackInv, Tracked, Known, LiveIsTracked
<1>2. QED
  BY <1>1, TrackInvCorrect, PTL
-----------------------------------------------------------------------------
(***************************************************************************)
(* The cache of a watched order stays warm.  Until the next cycle can      *)
(* write its location UntilWrite passes, and every cycle that may still    *)
(* fail before adds a Period; a cached location outlives their sum.        *)
(***************************************************************************)
Reserve(o) == (MaxMisses - misses[o]) + (MaxFaults - faults)

\* The order is in the batch of the running cycle, or in that of the next.
UntilWrite(o) ==
    IF cycle = "fetch"
      THEN IF o \in ids THEN CycleTime - age ELSE (Period - age) + CycleTime
      ELSE (IF cycle = "idle" /\ ~due THEN timer ELSE 0) + CycleTime

Warm(o) == Cached(o) => Reserve(o) * Period + UntilWrite(o) < location[o]

\* A cycle begins when its tick is there; the next tick comes a poll interval later.
PaceInv ==
    /\ cycle \in {"check", "list"} => ~due
    /\ cycle = "fetch" /\ ~due => timer + age <= PollInterval

WarmInv == PaceInv /\ \A o \in Watched : Warm(o)

\* A Period is as long as a cycle and as the poll interval.
LEMMA PeriodBounds == Period \in Nat /\ PollInterval <= Period /\ CycleTime <= Period
BY TimesAssumption DEF Period

Bounded(o) ==
    /\ Reserve(o) \in Nat /\ Reserve(o) <= MaxMisses + MaxFaults
    /\ UntilWrite(o) \in Nat /\ UntilWrite(o) <= Period + CycleTime

\* What may still fail, and how long the write may take, is bounded.
LEMMA BoundsAlways == TypeOK => \A o \in Watched : Bounded(o)
<1> SUFFICES ASSUME TypeOK, NEW o \in Watched
             PROVE  Bounded(o)
  OBVIOUS
<1> USE OrdersAssumption, TimesAssumption, PeriodBounds DEF TypeOK
<1>1. Reserve(o) \in Nat /\ Reserve(o) <= MaxMisses + MaxFaults
  BY DEF Reserve
<1>2. UntilWrite(o) \in Nat /\ UntilWrite(o) <= Period + CycleTime
  BY DEF UntilWrite
<1>3. QED
  BY <1>1, <1>2 DEF Bounded

\* The same of the next state.
LEMMA BoundsNext == (TypeOK => \A o \in Watched : Bounded(o))'
BY BoundsAlways, PTL

\* The ticker: one tick at a time, and the next one not before its interval.
LEMMA PaceStep ==
    ASSUME TypeOK, PaceInv, [Next]_vars
    PROVE  PaceInv'
<1> USE TimesAssumption DEF TypeOK, PaceInv, redis, readPath, cyclePath
<1>1. ASSUME NEW o \in Orders, OrderStep(o) \/ CheckHeartbeat(o)
      PROVE  PaceInv'
  BY <1>1
  DEF OrderStep, Get, GetFail, Refresh, Register, RegisterBeat, RegisterFail, UrgentSync,
      CheckHeartbeat
<1>2. CASE CycleBegin \/ RemoveDoomed \/ RemoveFail \/ ListFail
  BY <1>2 DEF CycleBegin, RemoveDoomed, RemoveFail, ListFail
<1>3. CASE ListActive
  BY <1>3 DEF ListActive
<1>4. ASSUME NEW located \in SUBSET Orders, WriteBatch(located)
      PROVE  PaceInv'
  BY <1>4 DEF WriteBatch
<1>5. CASE Tick
  <2>1. CASE timer = 1
    BY <1>5, <2>1 DEF Tick
  <2>2. CASE timer # 1
    BY <1>5, <2>2 DEF Tick
  <2>3. QED
    BY <2>1, <2>2
<1>6. CASE UNCHANGED vars
  BY <1>6 DEF vars
<1> HIDE DEF PaceInv, TypeOK
<1>7. QED
  BY <1>1, <1>2, <1>3, <1>4, <1>5, <1>6, NextSteps

\* A location just written outlives all cycles that may fail.
LEMMA WarmOnWrite ==
    ASSUME Regular, TypeOK, NEW o \in Watched, location[o] = LocationTTL
    PROVE  Warm(o)
<1> USE TimesAssumption, PeriodBounds
<1> DEFINE failures == MaxMisses + MaxFaults
<1>1. failures \in Nat
  OBVIOUS
<1>2. Reserve(o) * Period <= failures * Period /\ Reserve(o) * Period \in Nat
  BY <1>1, BoundsAlways, Multiples DEF Bounded
<1>3. (failures + 1) * Period = failures * Period + Period /\ failures * Period \in Nat
  BY <1>1, Multiples
<1>4. failures * Period + Period + CycleTime < LocationTTL
  BY <1>3 DEF Regular
<1>5. QED
  BY <1>2, <1>3, <1>4, BoundsAlways DEF Bounded, Warm

\* A step that leaves the location alone keeps it warm if it brings the write
\* nearer, or fails a cycle and puts it off by at most a Period.
LEMMA WarmKept ==
    ASSUME TypeOK, TypeOK', NEW o \in Watched, Warm(o), location'[o] = location[o],
           Cached(o) => \/ Reserve(o)' <= Reserve(o) /\ UntilWrite(o)' <= UntilWrite(o)
                        \/ Reserve(o)' + 1 <= Reserve(o) /\ UntilWrite(o)' <= UntilWrite(o) + Period
    PROVE  Warm(o)'
<1> SUFFICES ASSUME Cached(o)
             PROVE  Reserve(o)' * Period + UntilWrite(o)' < location[o]
  BY DEF Warm, Cached
<1>1. Reserve(o) * Period + UntilWrite(o) < location[o]
  BY DEF Warm
<1>2. location[o] \in Nat /\ UntilWrite(o) \in Nat /\ Reserve(o) \in Nat
  BY OrdersAssumption, TimesAssumption, BoundsAlways DEF TypeOK, Bounded
<1>3. UntilWrite(o)' \in Nat /\ Reserve(o)' \in Nat
  BY BoundsNext DEF Bounded
<1>4. CASE Reserve(o)' <= Reserve(o) /\ UntilWrite(o)' <= UntilWrite(o)
  <2>1. /\ Reserve(o)' * Period <= Reserve(o) * Period
        /\ Reserve(o)' * Period \in Nat /\ Reserve(o) * Period \in Nat
    BY <1>2, <1>3, <1>4, Multiples, PeriodBounds
  <2>2. QED
    BY <1>1, <1>2, <1>3, <1>4, <2>1
<1>5. CASE Reserve(o)' + 1 <= Reserve(o) /\ UntilWrite(o)' <= UntilWrite(o) + Period
  <2>1. (Reserve(o)' + 1) * Period <= Reserve(o) * Period /\ Reserve(o) * Period \in Nat
    BY <1>2, <1>3, <1>5, Multiples, PeriodBounds
  <2>2. (Reserve(o)' + 1) * Period = Reserve(o)' * Period + Period /\ Reserve(o)' * Period \in Nat
    BY <1>3, Multiples, PeriodBounds
  <2>3. QED
    BY <1>1, <1>2, <1>3, <1>5, <2>1, <2>2, PeriodBounds
<1>6. QED
  BY <1>4, <1>5

\* The reads and urgent syncs of any order.
LEMMA OrderStepWarm ==
    ASSUME TypeOK, TypeOK', NEW o \in Watched, Warm(o), NEW x \in Orders, OrderStep(x)
    PROVE  (location'[o] = location[o] /\ Warm(o)') \/ location'[o] = LocationTTL
<1>1. UNCHANGED cyclePath
  BY DEF OrderStep, Get, GetFail, Refresh, Register, RegisterBeat, RegisterFail, UrgentSync
<1>2. location'[o] = location[o] \/ location'[o] = LocationTTL
  BY OrdersAssumption
  DEF OrderStep, Get, GetFail, Refresh, Register, RegisterBeat, RegisterFail, UrgentSync,
      redis, TypeOK
<1>3. faults' \in {faults, faults + 1}
  BY DEF OrderStep, Get, GetFail, Refresh, Register, RegisterBeat, RegisterFail, UrgentSync, RedisFails
<1>4. UntilWrite(o)' = UntilWrite(o) /\ UntilWrite(o) \in Nat
  BY <1>1, BoundsAlways DEF Bounded, UntilWrite, cyclePath
<1>5. Reserve(o)' <= Reserve(o)
  BY <1>1, <1>3, OrdersAssumption, TimesAssumption DEF Reserve, cyclePath, TypeOK
<1>6. QED
  BY <1>2, <1>4, <1>5, WarmKept

\* The steps of the cycle before it writes.
LEMMA CycleStepWarm ==
    ASSUME TypeOK, TypeOK', NEW o \in Watched, PaceInv, Tracked(o), Warm(o),
           \/ \E x \in Orders : CheckHeartbeat(x)
           \/ CycleBegin \/ RemoveDoomed \/ RemoveFail \/ ListActive \/ ListFail
    PROVE  location'[o] = location[o] /\ Warm(o)'
<1> USE OrdersAssumption, TimesAssumption, PeriodBounds DEF TypeOK, Reserve, UntilWrite, redis
<1>1. CASE \E x \in Orders : CheckHeartbeat(x)
  BY <1>1, WarmKept DEF CheckHeartbeat
<1>2. CASE CycleBegin
  BY <1>2, WarmKept DEF CycleBegin
<1>3. CASE RemoveDoomed
  BY <1>3, WarmKept DEF RemoveDoomed
<1>4. CASE RemoveFail
  BY <1>4, WarmKept DEF RemoveFail, RedisFails
<1>5. CASE ListActive
  <2>1. Cached(o) => o \in active
    BY DEF Tracked, Known
  <2>2. Cached(o) => cycle' = "fetch" /\ o \in ids' /\ age' = 0 /\ cycle = "list"
    BY <1>5, <2>1 DEF ListActive
  <2>3. UNCHANGED <<location, misses, faults>>
    BY <1>5 DEF ListActive
  <2>4. QED
    BY <2>2, <2>3, WarmKept
<1>6. CASE ListFail
  BY <1>6, WarmKept DEF ListFail, RedisFails
<1>7. QED
  BY <1>1, <1>2, <1>3, <1>4, <1>5, <1>6

\* The batch: the order is in it, its lookup failed, or it was not asked for.
LEMMA WriteBatchWarm ==
    ASSUME TypeOK, TypeOK', NEW o \in Watched, PaceInv, Warm(o),
           NEW located \in SUBSET Orders, WriteBatch(located)
    PROVE  (location'[o] = location[o] /\ Warm(o)') \/ location'[o] = LocationTTL
<1> USE OrdersAssumption, TimesAssumption, PeriodBounds DEF TypeOK
<1>1. /\ cycle = "fetch" /\ cycle' = "idle"
      /\ UNCHANGED <<timer, due, age, faults>>
  BY DEF WriteBatch
<1>2. CASE o \in located
  BY <1>2 DEF WriteBatch
<1>3. CASE o \in ids \ located
  <2>1. misses'[o] = misses[o] + 1 /\ location'[o] = location[o]
    BY <1>3 DEF WriteBatch
  <2>2. Reserve(o)' + 1 <= Reserve(o)
    BY <1>1, <2>1 DEF Reserve
  <2>3. UntilWrite(o)' <= UntilWrite(o) + Period
    BY <1>1, <1>3 DEF UntilWrite, PaceInv
  <2>4. QED
    BY <2>1, <2>2, <2>3, WarmKept
<1>4. CASE o \notin ids
  <2>1. misses'[o] = misses[o] /\ location'[o] = location[o]
    BY <1>4 DEF WriteBatch
  <2>2. Reserve(o)' <= Reserve(o)
    BY <1>1, <2>1 DEF Reserve
  <2>3. UntilWrite(o)' <= UntilWrite(o)
    BY <1>1, <1>4 DEF UntilWrite, PaceInv
  <2>4. QED
    BY <2>1, <2>2, <2>3, WarmKept
<1>5. QED
  BY <1>2, <1>3, <1>4

\* Time brings the write nearer by as much as it takes from the location.
LEMMA TickWarm ==
    ASSUME TypeOK, NEW o \in Watched, PaceInv, Warm(o), Tick
    PROVE  Warm(o)' /\ (Cached(o) => Cached(o)')
<1> USE OrdersAssumption, TimesAssumption, PeriodBounds DEF TypeOK
<1>1. location'[o] = Elapse(location[o]) /\ Reserve(o)' = Reserve(o)
  BY DEF Tick, Reserve
<1>2. UntilWrite(o) >= 1 /\ UntilWrite(o)' = UntilWrite(o) - 1
  <2>1. CASE timer = 1
    BY <2>1 DEF Tick, UntilWrite
  <2>2. CASE timer # 1
    BY <2>2 DEF Tick, UntilWrite
  <2>3. QED
    BY <2>1, <2>2
<1>3. Reserve(o) * Period \in Nat /\ UntilWrite(o) \in Nat /\ location[o] \in Nat
  BY BoundsAlways, Multiples DEF Bounded
<1>4. CASE Cached(o)
  <2>1. Reserve(o) * Period + UntilWrite(o) < location[o]
    BY <1>4 DEF Warm
  <2>2. location'[o] = location[o] - 1
    BY <1>1, <1>4 DEF Elapse, Cached
  <2>3. QED
    BY <1>1, <1>2, <1>3, <2>1, <2>2 DEF Warm, Cached
<1>5. CASE ~Cached(o)
  <2>1. ~Cached(o)'
    BY <1>1, <1>3, <1>5 DEF Elapse, Cached
  <2>2. QED
    BY <1>5, <2>1 DEF Warm
<1>6. QED
  BY <1>4, <1>5

\* WarmOnWrite, of the next state.
LEMMA WarmOnWriteNext == (Regular /\ TypeOK => \A o \in Watched : location[o] = LocationTTL => Warm(o))'
<1>1. Regular /\ TypeOK => \A o \in Watched : location[o] = LocationTTL => Warm(o)
  BY WarmOnWrite
<1>2. QED
  BY <1>1, PTL

\* No step but a tick shortens a location, and a warm one survives the tick.
LEMMA WarmStep ==
    ASSUME Regular, TypeOK, TypeOK', TrackInv, WarmInv, [Next]_vars
    PROVE  WarmInv' /\ \A o \in Watched : Cached(o) => Cached(o)'
<1>1. PaceInv'
  BY PaceStep DEF WarmInv
<1>2. ASSUME NEW o \in Watched
      PROVE  Warm(o)' /\ (Cached(o) => Cached(o)')
  <2>1. PaceInv /\ Warm(o) /\ Tracked(o)
    BY DEF WarmInv, TrackInv
  <2>2. location'[o] = location[o] /\ Warm(o)' => Warm(o)' /\ (Cached(o) => Cached(o)')
    BY DEF Cached
  <2>3. location'[o] = LocationTTL => Warm(o)' /\ (Cached(o) => Cached(o)')
    BY WarmOnWriteNext, TimesAssumption DEF Cached, Regular, Period
  <2>4. CASE \E x \in Orders : OrderStep(x)
    BY <2>1, <2>2, <2>3, <2>4, OrderStepWarm
  <2>5. CASE \/ \E x \in Orders : CheckHeartbeat(x)
             \/ CycleBegin \/ RemoveDoomed \/ RemoveFail \/ ListActive \/ ListFail
    BY <2>1, <2>2, <2>5, CycleStepWarm
  <2>6. CASE \E located \in SUBSET Orders : WriteBatch(located)
    BY <2>1, <2>2, <2>3, <2>6, WriteBatchWarm
  <2>7. CASE Tick
    BY <2>1, <2>7, TickWarm
  <2>8. CASE UNCHANGED vars
    BY <2>1, <2>8 DEF vars, redis, readPath, cyclePath, Warm, Cached, Reserve, UntilWrite
  <2>9. QED
    BY <2>4, <2>5, <2>6, <2>7, <2>8, NextSteps
<1>3. QED
  BY <1>1, <1>2 DEF WarmInv

\* In the regular regime WarmInv holds always.
LEMMA WarmInvCorrect == ASSUME Regular PROVE Spec => []WarmInv
<1>1. Init => WarmInv
  BY OrdersAssumption DEF Init, WarmInv, PaceInv, Warm, Cached
<1>2. TypeOK /\ TypeOK' /\ TrackInv /\ WarmInv /\ [Next]_vars => WarmInv'
  BY WarmStep
<1>3. QED
  BY <1>1, <1>2, TypeCorrect, TrackInvCorrect, PTL DEF Spec

\* Under Regular no step of anybody lets a watched order's location expire.
THEOREM WarmStaysWarmCorrect == ASSUME Regular PROVE Spec => WarmStaysWarm
<1>1. TypeOK /\ TypeOK' /\ TrackInv /\ WarmInv /\ [Next]_vars
        => [\A o \in Watched : Cached(o) => Cached(o)']_vars
  BY WarmStep
<1>2. QED
  BY <1>1, TypeCorrect, TrackInvCorrect, WarmInvCorrect, PTL DEF Spec, WarmStaysWarm
=============================================================================

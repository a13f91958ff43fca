----------------------- MODULE CircuitBreaker_proofs -----------------------
(***************************************************************************)
(* Proofs about CircuitBreaker, for any set of callers, threshold and      *)
(* timeout: its type invariant, the single probe, that an open breaker     *)
(* lets nothing through, and when a closed one is past tripping.           *)
(***************************************************************************)
EXTENDS CircuitBreaker, FiniteSetTheorems, TLAPS

\* The types of all variables; a closed breaker never keeps MaxFailures
\* failures without tripping (ReadyToTrip, circuit_breaker.go:46-48, 95-97).
THEOREM TypeCorrect == Spec => []TypeOK
<1>1. Init => TypeOK
  <2>1. 0 \in 0..MaxFailures-1 /\ 0 \in 0..Cooldown
    BY BreakerAssumption
  <2>2. QED
    BY <2>1 DEF Init, TypeOK
<1>2. TypeOK /\ [Next]_vars => TypeOK'
  <2> SUFFICES ASSUME TypeOK, [Next]_vars
               PROVE  TypeOK'
    OBVIOUS
  <2> USE BreakerAssumption DEF TypeOK, machine, upstream
  <2>1. ASSUME NEW c \in Callers, Call(c)
        PROVE  TypeOK'
    BY <2>1 DEF Call, CurrentState, MaxRequests
  <2>2. ASSUME NEW c \in Callers, Return(c)
        PROVE  TypeOK'
    <3> 0 \in 0..MaxFailures-1 /\ Cooldown \in 0..Cooldown
      OBVIOUS
    <3> Outdated \in [Callers -> {"idle", "current", "stale"}]
      BY DEF Outdated
    <3>1. CASE OnSuccess(c)
      BY <2>2, <3>1 DEF Return, OnSuccess, Stay, Close, Over
    <3>2. CASE OnFailure(c)
      BY <2>2, <3>2 DEF Return, OnFailure, Stay, Trip, ReadyToTrip, Over
    <3>3. QED
      BY <2>2, <3>1, <3>2 DEF Return
  <2>3. ASSUME NEW c \in Callers, ReturnStale(c)
        PROVE  TypeOK'
    BY <2>3 DEF ReturnStale, CurrentState, Over
  <2>4. CASE Tick
    BY <2>4 DEF Tick
  <2>5. CASE Recover
    BY <2>5 DEF Recover
  <2>6. CASE UNCHANGED vars \/ \E c \in Callers : Reject(c)
    BY <2>6 DEF vars, Reject
  <2>7. QED
    BY <2>1, <2>2, <2>3, <2>4, <2>5, <2>6 DEF Next
<1>3. QED
  BY <1>1, <1>2, PTL DEF Spec

\* A breaker that is not half-open has no probe counted: without this a
\* breaker could become half-open with its probe already spent.
ProbesInv == state # "half" => probes = 0

\* After a trip or a close no call is current.
LEMMA NoneCurrent ==
    ASSUME TypeOK, NEW c \in Callers, call' = [Outdated EXCEPT ![c] = "idle"]
    PROVE  Current' = {}
BY DEF TypeOK, Outdated, Current

\* A half-open breaker has one probe under way exactly if it has counted one;
\* an open one has none (circuit_breaker.go:42-56, 91-105).
THEOREM OneProbeCorrect == Spec => []OneProbe
<1> DEFINE Inv == OneProbe /\ ProbesInv
<1>1. Init => Inv
  BY DEF Init, OneProbe, ProbesInv
<1>2. TypeOK /\ Inv /\ [Next]_vars => Inv'
  <2> SUFFICES ASSUME TypeOK, OneProbe, ProbesInv, [Next]_vars
               PROVE  Inv'
    OBVIOUS
  <2>1. ASSUME NEW c \in Callers, Call(c)
        PROVE  Inv'
    <3>1. Current' = Current \cup {c}
      BY <2>1 DEF Call, Current, TypeOK
    <3>2. CASE CurrentState = "closed"
      BY <2>1, <3>2 DEF Call, CurrentState, OneProbe, ProbesInv, TypeOK
    <3>3. CASE CurrentState = "half"
      <4>1. probes = 0 /\ probes' = 1 /\ state' = "half"
        BY <2>1, <3>3 DEF Call, MaxRequests, TypeOK
      <4>2. Current = {}
        BY <3>3, <4>1 DEF CurrentState, OneProbe
      <4>3. QED
        BY <3>1, <4>1, <4>2 DEF OneProbe, ProbesInv
    <3>4. QED
      BY <2>1, <3>2, <3>3 DEF Call
  <2>2. ASSUME NEW c \in Callers, Return(c)
        PROVE  Inv'
    <3>1. CASE Trip(c) \/ Close(c)
      BY <3>1, NoneCurrent DEF Trip, Close, OneProbe, ProbesInv
    <3>2. CASE state = "closed" /\ Stay(c)
      BY <3>2 DEF Stay, OneProbe, ProbesInv
    <3>3. QED
      BY <2>2, <3>1, <3>2 DEF Return, OnSuccess, OnFailure
  <2>3. ASSUME NEW c \in Callers, ReturnStale(c)
        PROVE  Inv'
    <3>1. Current' = Current
      BY <2>3 DEF ReturnStale, Current, TypeOK
    <3>2. QED
      BY <2>3, <3>1 DEF ReturnStale, CurrentState, OneProbe, ProbesInv
  <2>4. CASE Tick \/ Recover \/ UNCHANGED vars \/ \E c \in Callers : Reject(c)
    BY <2>4 DEF Tick, Recover, Reject, machine, vars, Current, OneProbe, ProbesInv
  <2>5. QED
    BY <2>1, <2>2, <2>3, <2>4 DEF Next
<1>3. QED
  BY <1>1, <1>2, TypeCorrect, PTL DEF Spec

\* An open breaker whose timeout has not passed lets no call through and stays
\* open (circuit_breaker.go:8-9).
THEOREM OpenRejectsCorrect == Spec => OpenRejects
<1>1. TypeOK /\ OneProbe /\ [Next]_vars
        => (state = "open" /\ expiry > 0 => Current' = {} /\ state' = "open")
  <2> SUFFICES ASSUME TypeOK, [Next]_vars, state = "open", expiry > 0, Current = {}
               PROVE  Current' = {} /\ state' = "open"
    BY DEF OneProbe
  <2>1. \A c \in Callers : ~Call(c) /\ ~Return(c)
    BY DEF Call, CurrentState, Return, Current
  <2>2. ASSUME NEW c \in Callers, ReturnStale(c)
        PROVE  Current' = {} /\ state' = "open"
    BY <2>2 DEF ReturnStale, CurrentState, Current, TypeOK
  <2>3. CASE Tick \/ Recover \/ UNCHANGED vars \/ \E c \in Callers : Reject(c)
    BY <2>3 DEF Tick, Recover, Reject, machine, vars, Current
  <2>4. QED
    BY <2>1, <2>2, <2>3 DEF Next
<1>2. QED
  BY <1>1, TypeCorrect, OneProbeCorrect, PTL DEF Spec, OpenRejects

\* An open breaker never closes but by way of half-open, and half-open ends
\* with the return of the probe: the late result of a call from before the
\* trip decides nothing (circuit_breaker.go:10-11).
THEOREM OnlyProbeDecidesCorrect == Spec => OnlyProbeDecides
<1>1. ASSUME TypeOK, OneProbe, [Next]_vars
      PROVE  /\ state = "open" => state' # "closed"
             /\ state = "half" /\ state' # "half" => \E c \in Current : call'[c] = "idle"
  <2>1. ASSUME NEW c \in Callers, Return(c)
        PROVE  state # "open" /\ c \in Current /\ call'[c] = "idle"
    <3>1. c \in Current /\ state # "open"
      BY <1>1, <2>1 DEF Return, Current, OneProbe
    <3>2. Outdated \in [Callers -> {"idle", "current", "stale"}]
      BY <1>1 DEF Outdated, TypeOK
    <3>3. call'[c] = "idle"
      BY <1>1, <2>1, <3>2 DEF Return, OnSuccess, OnFailure, Stay, Close, Trip, TypeOK
    <3>4. QED
      BY <3>1, <3>3
  <2>2. CASE \E c \in Callers : Call(c) \/ ReturnStale(c)
    BY <2>2 DEF Call, ReturnStale, CurrentState
  <2>3. CASE Tick \/ Recover \/ UNCHANGED vars \/ \E c \in Callers : Reject(c)
    BY <2>3 DEF Tick, Recover, Reject, machine, vars
  <2>4. QED
    BY <1>1, <2>1, <2>2, <2>3 DEF Next
<1>2. TypeOK /\ OneProbe /\ [Next]_vars =>
        [/\ state = "open" => state' # "closed"
         /\ state = "half" /\ state' # "half" =>
              \E c \in Current : call'[c] = "idle"]_vars
  BY <1>1
<1>3. QED
  BY <1>2, TypeCorrect, OneProbeCorrect, PTL DEF Spec, OnlyProbeDecides

-----------------------------------------------------------------------------
(***************************************************************************)
(* A breaker that is settled has closed for good.                          *)
(***************************************************************************)
\* A call from before the recovery is still under way.
OldInv == \A c \in old : call[c] # "idle"

\* OldInv holds always.
LEMMA OldInvCorrect == Spec => []OldInv
<1>1. Init => OldInv
  BY DEF Init, OldInv
<1>2. TypeOK /\ OldInv /\ [Next]_vars => OldInv'
  <2> SUFFICES ASSUME TypeOK, OldInv, [Next]_vars
               PROVE  OldInv'
    OBVIOUS
  <2>1. ASSUME NEW c \in Callers, Call(c)
        PROVE  OldInv'
    BY <2>1 DEF Call, upstream, OldInv, TypeOK
  <2>2. ASSUME NEW c \in Callers, Return(c) \/ ReturnStale(c)
        PROVE  OldInv'
    <3>1. old' = old \ {c}
      BY <2>2 DEF Return, ReturnStale, Over
    <3>2. \A d \in Callers \ {c} : call[d] # "idle" => call'[d] # "idle"
      BY <2>2 DEF Return, OnSuccess, OnFailure, ReturnStale, Trip, Close, Stay, Outdated, TypeOK
    <3>3. QED
      BY <3>1, <3>2 DEF OldInv, TypeOK
  <2>3. CASE Tick \/ Recover \/ UNCHANGED vars \/ \E c \in Callers : Reject(c)
    BY <2>3 DEF Tick, Recover, Reject, machine, upstream, vars, OldInv
  <2>4. QED
    BY <2>1, <2>2, <2>3 DEF Next
<1>3. QED
  BY <1>1, <1>2, TypeCorrect, PTL DEF Spec

\* Calls from before the recovery that the closed breaker still counts.
Outstanding == old \cap Current

\* They are finitely many, and one that returns is one less.
LEMMA OutstandingCount ==
    ASSUME TypeOK
    PROVE  /\ Cardinality(Outstanding) \in Nat
           /\ \A c \in Callers :
                 /\ Cardinality(Outstanding \ {c}) \in Nat
                 /\ Cardinality(Outstanding \ {c}) <= Cardinality(Outstanding)
                 /\ c \in Outstanding => Cardinality(Outstanding \ {c}) = Cardinality(Outstanding) - 1
<1>1. IsFiniteSet(Outstanding)
  BY FS_Subset, BreakerAssumption DEF Outstanding, Current
<1>2. ASSUME NEW c \in Callers
      PROVE  /\ Cardinality(Outstanding \ {c}) \in Nat
             /\ Cardinality(Outstanding \ {c}) <= Cardinality(Outstanding)
             /\ c \in Outstanding => Cardinality(Outstanding \ {c}) = Cardinality(Outstanding) - 1
  <2>1. IsFiniteSet(Outstanding \ {c}) /\ Cardinality(Outstanding \ {c}) <= Cardinality(Outstanding)
    BY <1>1, FS_Subset
  <2>2. Cardinality(Outstanding \ {c}) \in Nat
    BY <2>1, FS_CardinalityType
  <2>3. c \in Outstanding => Cardinality(Outstanding \ {c}) = Cardinality(Outstanding) - 1
    BY <1>1, FS_RemoveElement
  <2>4. QED
    BY <2>1, <2>2, <2>3
<1>3. QED
  BY <1>1, <1>2, FS_CardinalityType

\* A call that fails takes one from the outstanding calls for the failure it
\* adds; nothing else adds failures, and without MaxFailures nothing trips.
LEMMA SettledStep ==
    ASSUME TypeOK, OldInv, Settled, [Next]_vars
    PROVE  Settled'
<1> USE DEF Settled, Outstanding
<1>1. failures \in Nat /\ MaxFailures \in Nat
  BY BreakerAssumption DEF TypeOK
<1>2. ASSUME NEW c \in Callers, Call(c)
      PROVE  Settled'
  <2>1. UNCHANGED <<state, failures, recovered, old>>
    BY <1>2 DEF Call, CurrentState, upstream
  <2>2. Outstanding' = Outstanding
    BY <1>2, <2>1 DEF Call, Current, OldInv, TypeOK
  <2>3. QED
    BY <2>1, <2>2
<1>3. ASSUME NEW c \in Callers, Return(c)
      PROVE  Settled'
  <2>1. recovered' /\ old' = old \ {c}
    BY <1>3 DEF Return, Over
  <2>2. ASSUME Stay(c)
        PROVE  state' = "closed" /\ Outstanding' = Outstanding \ {c}
    BY <2>1, <2>2 DEF Stay, Current, TypeOK
  <2>3. CASE OnSuccess(c)
    <3>1. failures' = 0 /\ Stay(c)
      BY <2>3 DEF OnSuccess
    <3>2. QED
      BY <1>1, <2>1, <2>2, <3>1, OutstandingCount
  <2>4. CASE c \in old /\ OnFailure(c)
    <3>1. c \in Outstanding
      BY <1>3, <2>4 DEF Return, Current
    <3>2. /\ Cardinality(Outstanding) \in Nat /\ Cardinality(Outstanding \ {c}) \in Nat
          /\ Cardinality(Outstanding \ {c}) = Cardinality(Outstanding) - 1
      BY <3>1, OutstandingCount
    <3>3. failures + 1 + Cardinality(Outstanding \ {c}) < MaxFailures
      BY <1>1, <3>2
    <3>4. ~ReadyToTrip(failures + 1)
      BY <1>1, <3>2, <3>3 DEF ReadyToTrip
    <3>5. failures' = failures + 1 /\ Stay(c)
      BY <2>4, <3>4 DEF OnFailure
    <3>6. QED
      BY <2>1, <2>2, <3>3, <3>5
  <2>5. QED
    BY <1>3, <2>3, <2>4 DEF Return
<1>4. ASSUME NEW c \in Callers, ReturnStale(c)
      PROVE  Settled'
  <2>1. state' = "closed" /\ failures' = failures /\ recovered' /\ old' = old \ {c}
    BY <1>4 DEF ReturnStale, CurrentState, Over
  <2>2. Outstanding' = Outstanding
    BY <1>4, <2>1 DEF ReturnStale, Current, TypeOK
  <2>3. QED
    BY <2>1, <2>2
<1>5. CASE Tick \/ UNCHANGED vars \/ \E c \in Callers : Reject(c)
  <2>1. UNCHANGED <<state, failures, recovered, old, call>>
    BY <1>5 DEF Tick, Reject, machine, upstream, vars
  <2>2. QED
    BY <2>1 DEF Current
<1>6. ~Recover
  BY DEF Recover
<1>7. QED
  BY <1>2, <1>3, <1>4, <1>5, <1>6 DEF Next

\* The safety half of Recovers: once the upstream has recovered, a closed
\* breaker that has too few failures, counted or still to come from calls of
\* before, never trips again; calls of earlier generations do not matter
\* (circuit_breaker.go:9-11, 46-48).
THEOREM SettledForGood == Spec => [](Settled => []Settled)
<1>1. TypeOK /\ OldInv /\ Settled /\ [Next]_vars => Settled'
  BY SettledStep
<1>2. QED
  BY <1>1, TypeCorrect, OldInvCorrect, PTL DEF Spec
=============================================================================

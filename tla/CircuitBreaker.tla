--------------------------- MODULE CircuitBreaker ---------------------------
(***************************************************************************)
(* The circuit breaker around an upstream service                          *)
(* (src/internal/repository/external/circuit_breaker.go).  The wrappers of *)
(* the Order Service and of the Courier Service are the same machine.  The *)
(* state machine itself is the library gobreaker, as the settings          *)
(* configure it: no Interval, MaxRequests 1, ReadyToTrip on consecutive    *)
(* failures, and every error is a failure: ErrOrderNotFound, the answer of *)
(* a healthy service, and a cancelled context too.                         *)
(*                                                                         *)
(* gobreaker counts generations and ignores the result of a call admitted  *)
(* in an earlier one: such a call is "stale" here.                         *)
(***************************************************************************)
EXTENDS Integers, FiniteSets

CONSTANTS
    Callers,      \* goroutines that call the service
    MaxFailures,  \* cfg.CircuitBreakerMaxFailures
    Cooldown      \* cfg.CircuitBreakerTimeout

ASSUME BreakerAssumption ==
    /\ IsFiniteSet(Callers)
    /\ MaxFailures \in Nat \ {0}
    /\ Cooldown \in Nat \ {0}

VARIABLES
    state,     \* "closed", "open" or "half"
    failures,  \* consecutive failures counted while closed
    probes,    \* requests counted while half-open
    expiry,    \* time left until an open breaker may probe
    call,      \* each caller's call
    recovered, \* every call that starts from now on succeeds
    old        \* calls that were under way at that moment: they may still fail

machine == <<state, failures, probes, expiry>>
upstream == <<recovered, old>>
vars == <<machine, call, upstream>>

TypeOK ==
    /\ state \in {"closed", "open", "half"}
    /\ failures \in 0..MaxFailures-1
    /\ probes \in {0, 1}
    /\ expiry \in 0..Cooldown
    /\ call \in [Callers -> {"idle", "current", "stale"}]
    /\ recovered \in BOOLEAN
    /\ old \subseteq Callers

Init ==
    /\ state = "closed"
    /\ failures = 0
    /\ probes = 0
    /\ expiry = 0
    /\ call = [c \in Callers |-> "idle"]
    /\ recovered = FALSE
    /\ old = {}
-----------------------------------------------------------------------------
MaxRequests == 1
ReadyToTripLate(count) == count > MaxFailures
ReadyToTrip(count) == count >= MaxFailures

\* currentState: an open breaker whose timeout has passed becomes half-open.
CurrentState == IF state = "open" /\ expiry = 0 THEN "half" ELSE state

\* A new generation: the calls under way no longer count.
Outdated == [c \in Callers |-> IF call[c] = "current" THEN "stale" ELSE call[c]]

CallWithoutLimit(c) ==
    /\ call[c] = "idle"
    /\ CurrentState # "open"
    /\ state' = CurrentState
    /\ probes' = IF CurrentState = "half" THEN 1 ELSE 0
    /\ call' = [call EXCEPT ![c] = "current"]
    /\ UNCHANGED <<failures, expiry, upstream>>

CallIgnoringTimeout(c) ==
    /\ call[c] = "idle"
    /\ \/ state = "closed" /\ UNCHANGED <<state, probes>>
       \/ state = "open" /\ state' = "half" /\ probes' = 1
       \/ state = "half" /\ probes = 0 /\ state' = "half" /\ probes' = 1
    /\ call' = [call EXCEPT ![c] = "current"]
    /\ UNCHANGED <<failures, expiry, upstream>>

\* Execute admits the call: a closed breaker any, a half-open one MaxRequests.
Call(c) ==
    /\ call[c] = "idle"
    /\ \/ CurrentState = "closed" /\ UNCHANGED probes
       \/ /\ CurrentState = "half"
          /\ probes < MaxRequests
          /\ probes' = probes + 1
    /\ state' = CurrentState
    /\ call' = [call EXCEPT ![c] = "current"]
    /\ UNCHANGED <<failures, expiry, upstream>>

\* It rejects the call, which returns ErrCircuitBreakerOpen at once.
Reject(c) ==
    /\ call[c] = "idle"
    /\ CurrentState = "open" \/ (CurrentState = "half" /\ probes >= MaxRequests)
    /\ UNCHANGED vars

Trip(c) ==
    /\ state' = "open"
    /\ expiry' = Cooldown
    /\ failures' = 0
    /\ probes' = 0
    /\ call' = [Outdated EXCEPT ![c] = "idle"]

Close(c) ==
    /\ state' = "closed"
    /\ failures' = 0
    /\ probes' = 0
    /\ call' = [Outdated EXCEPT ![c] = "idle"]
    /\ UNCHANGED expiry

Stay(c) ==
    /\ call' = [call EXCEPT ![c] = "idle"]
    /\ UNCHANGED <<state, probes, expiry>>

FailureKeepsProbe(c) ==
    \/ state = "closed" /\ ReadyToTrip(failures + 1) /\ Trip(c)
    \/ state = "closed" /\ ~ReadyToTrip(failures + 1) /\ failures' = failures + 1 /\ Stay(c)
    \/ state = "half" /\ UNCHANGED failures /\ Stay(c)

\* A call of the current generation fails.
OnFailure(c) ==
    \/ state = "closed" /\ ReadyToTrip(failures + 1) /\ Trip(c)
    \/ state = "closed" /\ ~ReadyToTrip(failures + 1) /\ failures' = failures + 1 /\ Stay(c)
    \/ state = "half" /\ Trip(c)

\* It succeeds: one success is enough to close a half-open breaker.
OnSuccess(c) ==
    \/ state = "closed" /\ failures' = 0 /\ Stay(c)
    \/ state = "half" /\ Close(c)

\* The call is over.
Over(c) == old' = old \ {c} /\ UNCHANGED recovered

Return(c) ==
    /\ call[c] = "current"
    /\ \/ OnSuccess(c)
       \/ (recovered => c \in old) /\ OnFailure(c)
    /\ Over(c)

StaleCounts(c) ==
    /\ call[c] = "stale"
    /\ \/ state = "half" /\ (Close(c) \/ Trip(c))
       \/ state # "half" /\ failures' = failures /\ Stay(c)
    /\ Over(c)

\* The result of a stale call is dropped, but looking at the state may move an
\* open breaker to half-open.
ReturnStale(c) ==
    /\ call[c] = "stale"
    /\ state' = CurrentState
    /\ call' = [call EXCEPT ![c] = "idle"]
    /\ Over(c)
    /\ UNCHANGED <<failures, probes, expiry>>

Tick ==
    /\ expiry > 0
    /\ expiry' = expiry - 1
    /\ UNCHANGED <<state, failures, probes, call, upstream>>

\* The upstream has recovered, and nobody asks any more for what it does not
\* know; what is under way may end either way.
Recover ==
    /\ ~recovered
    /\ recovered' = TRUE
    /\ old' = {c \in Callers : call[c] # "idle"}
    /\ UNCHANGED <<machine, call>>

Next ==
    \/ \E c \in Callers : Call(c) \/ Reject(c) \/ Return(c) \/ ReturnStale(c)
    \/ Tick
    \/ Recover

Spec == Init /\ [][Next]_vars

(***************************************************************************)
(* Time passes, calls end (the upstream clients give up by themselves),    *)
(* and the polling goes on: some caller that can get through calls.        *)
(***************************************************************************)
FairSpec ==
    /\ Spec
    /\ WF_vars(Tick)
    /\ WF_vars(\E c \in Callers : Call(c))
    /\ \A c \in Callers : WF_vars(Return(c)) /\ WF_vars(ReturnStale(c))
-----------------------------------------------------------------------------
Current == {c \in Callers : call[c] = "current"}

(***************************************************************************)
(* A half-open breaker has at most one probe under way, and counts one     *)
(* exactly while it is: a probe that is counted but gone would make it     *)
(* reject every call for ever (MaxRequests, circuit_breaker.go:44, 93).    *)
(***************************************************************************)
OneProbe ==
    /\ state = "half" => \A c, d \in Current : c = d
    /\ state = "half" => (probes = 1 <=> Current # {})
    /\ state = "open" => Current = {}

(***************************************************************************)
(* No call reaches the upstream before the timeout of an open breaker has  *)
(* passed, however late the results of earlier calls come in               *)
(* (circuit_breaker.go:8-9, 114).                                          *)
(***************************************************************************)
OpenRejects ==
    [][state = "open" /\ expiry > 0 => Current' = {} /\ state' = "open"]_vars

(***************************************************************************)
(* A tripped breaker closes again only through half-open, by the result of *)
(* the probe; the late result of a call from before the trip neither       *)
(* closes nor re-opens it (circuit_breaker.go:10-11).                      *)
(***************************************************************************)
OnlyProbeDecides ==
    [][/\ state = "open" => state' # "closed"
       /\ state = "half" /\ state' # "half" =>
            \E c \in Current : call'[c] = "idle"]_vars

(***************************************************************************)
(* Once the upstream has recovered the breaker closes for good, whatever   *)
(* state it was in and however many calls from before still fail: these    *)
(* may trip it once more, but not for ever (circuit_breaker.go:9-11).      *)
(***************************************************************************)
Recovers == recovered ~> [](state = "closed")

(***************************************************************************)
(* The upstream has recovered and the breaker is closed; the failures it   *)
(* has counted and those that calls from before may still add are together *)
(* below the threshold (ReadyToTrip, circuit_breaker.go:46-48, 95-97).     *)
(***************************************************************************)
Settled ==
    /\ recovered
    /\ state = "closed"
    /\ failures + Cardinality(old \cap Current) < MaxFailures
=============================================================================

----------------------------- MODULE UrgentSync -----------------------------
(***************************************************************************)
(* The urgent queue of one pod: TriggerUrgentSync                          *)
(* (src/internal/service/poller_service.go) feeds a bounded channel that   *)
(* runUrgentQueueConsumer (src/internal/worker/poller_worker.go) drains    *)
(* into at most WorkerConcurrency goroutines, one per order, while Stop    *)
(* closes stopChan and waits for all of them.                              *)
(*                                                                         *)
(* The consumer's receive, its look at inFlight and its wait for a slot    *)
(* are separate steps, and so are the end of SyncOrder and the deferred    *)
(* calls that follow it.  What SyncOrder does is in SyncCycle; here it     *)
(* only begins and, since its context expires after 5 s, ends.             *)
(***************************************************************************)
EXTENDS Integers, SequencesExt

CONSTANTS
    Orders,
    NoOrder,
    QueueSize,  \* cfg.UrgentQueueSize
    Slots       \* tokens of the semaphore: cfg.WorkerConcurrency of them

ASSUME OrdersAssumption == NoOrder \notin Orders
ASSUME SizesAssumption == QueueSize \in Nat \ {0} /\ Slots # {}

VARIABLES
    queue,     \* the urgentQueue channel
    consumer,  \* control point of runUrgentQueueConsumer
    held,      \* the order it has received
    inFlight,  \* PollerWorker.inFlight
    job,       \* order of the goroutine that holds the slot
    stage,     \* control point of that goroutine
    worker     \* PollerWorker: running, Stop called, Stop returned

vars == <<queue, consumer, held, inFlight, job, stage, worker>>
Busy == {s \in Slots : stage[s] \in {"syncing", "synced"}}

TypeOK ==
    /\ queue \in Seq(Orders)
    /\ Len(queue) <= QueueSize
    /\ consumer \in {"select", "dedup", "acquire", "exited"}
    /\ held \in Orders \cup {NoOrder}
    /\ inFlight \subseteq Orders
    /\ job \in [Slots -> Orders \cup {NoOrder}]
    /\ stage \in [Slots -> {"free", "syncing", "synced", "unmarked"}]
    /\ worker \in {"running", "stopping", "stopped"}

Init ==
    /\ queue = <<>>
    /\ consumer = "select"
    /\ held = NoOrder
    /\ inFlight = {}
    /\ job = [s \in Slots |-> NoOrder]
    /\ stage = [s \in Slots |-> "free"]
    /\ worker = "running"
-----------------------------------------------------------------------------
TriggerWithoutLimit(o) ==
    /\ queue' = Append(queue, o)
    /\ UNCHANGED <<consumer, held, inFlight, job, stage, worker>>

\* TriggerUrgentSync: a non-blocking send.  HTTP handlers that server.Shutdown
\* gave up on still call it during and after Stop.
Trigger(o) ==
    /\ queue' = IF Len(queue) < QueueSize THEN Append(queue, o) ELSE queue
    /\ UNCHANGED <<consumer, held, inFlight, job, stage, worker>>

Receive ==
    /\ consumer = "select"
    /\ queue # <<>>
    /\ held' = Head(queue)
    /\ queue' = Tail(queue)
    /\ consumer' = "dedup"
    /\ UNCHANGED <<inFlight, job, stage, worker>>

DedupWithoutCheck ==
    /\ consumer = "dedup"
    /\ consumer' = "acquire"
    /\ inFlight' = inFlight \cup {held}
    /\ UNCHANGED <<queue, held, job, stage, worker>>

\* Under inFlightMu: drop the order if it is marked, mark it otherwise.
Dedup ==
    /\ consumer = "dedup"
    /\ IF held \in inFlight
         THEN /\ consumer' = "select"
              /\ held' = NoOrder
              /\ UNCHANGED inFlight
         ELSE /\ consumer' = "acquire"
              /\ inFlight' = inFlight \cup {held}
              /\ UNCHANGED held
    /\ UNCHANGED <<queue, job, stage, worker>>

\* A slot is free: the goroutine starts.
Acquire(s) ==
    /\ consumer = "acquire"
    /\ stage[s] = "free"
    /\ job' = [job EXCEPT ![s] = held]
    /\ stage' = [stage EXCEPT ![s] = "syncing"]
    /\ held' = NoOrder
    /\ consumer' = "select"
    /\ UNCHANGED <<queue, inFlight, worker>>

\* Both selects watch stopChan; a mark set before the second one stays.
ConsumerExit ==
    /\ worker # "running"
    /\ consumer \in {"select", "acquire"}
    /\ consumer' = "exited"
    /\ UNCHANGED <<queue, held, inFlight, job, stage, worker>>

\* SyncOrder returns, whatever its result.
SyncReturns(s) ==
    /\ stage[s] = "syncing"
    /\ stage' = [stage EXCEPT ![s] = "synced"]
    /\ UNCHANGED <<queue, consumer, held, inFlight, job, worker>>

KeepMark(s) ==
    /\ stage[s] = "synced"
    /\ stage' = [stage EXCEPT ![s] = "unmarked"]
    /\ UNCHANGED <<queue, consumer, held, inFlight, job, worker>>

\* The deferred calls, last one first: delete the mark, ...
Unmark(s) ==
    /\ stage[s] = "synced"
    /\ inFlight' = inFlight \ {job[s]}
    /\ stage' = [stage EXCEPT ![s] = "unmarked"]
    /\ UNCHANGED <<queue, consumer, held, job, worker>>

\* ... give the slot back and tell the wait group.
Release(s) ==
    /\ stage[s] = "unmarked"
    /\ stage' = [stage EXCEPT ![s] = "free"]
    /\ job' = [job EXCEPT ![s] = NoOrder]
    /\ UNCHANGED <<queue, consumer, held, inFlight, worker>>

Stop ==
    /\ worker = "running"
    /\ worker' = "stopping"
    /\ UNCHANGED <<queue, consumer, held, inFlight, job, stage>>

\* wg.Wait returns.
StopReturn ==
    /\ worker = "stopping"
    /\ consumer = "exited"
    /\ \A s \in Slots : stage[s] = "free"
    /\ worker' = "stopped"
    /\ UNCHANGED <<queue, consumer, held, inFlight, job, stage>>

Goroutine(s) == SyncReturns(s) \/ Unmark(s) \/ Release(s)

Next ==
    \/ \E o \in Orders : Trigger(o)
    \/ Receive \/ Dedup \/ ConsumerExit
    \/ \E s \in Slots : Acquire(s) \/ Goroutine(s)
    \/ Stop \/ StopReturn

Spec == Init /\ [][Next]_vars
-----------------------------------------------------------------------------
SyncedOrders == {job[s] : s \in Busy}

(***************************************************************************)
(* The pod never runs two goroutines for the same order (the deduplication *)
(* at poller_worker.go:233-240 against the deferred delete at 255-259).    *)
(***************************************************************************)
OneSyncPerOrder == \A s, t \in Busy : job[s] = job[t] => s = t

(***************************************************************************)
(* An order is marked exactly while the consumer wants a slot for it or a  *)
(* goroutine works on it: no mark is left behind that would keep the order *)
(* from being synced ever again, and none is deleted too early.            *)
(***************************************************************************)
MarkedIffBusy ==
    inFlight = SyncedOrders \cup (IF consumer \in {"acquire", "exited"} THEN {held} \ {NoOrder} ELSE {})

(***************************************************************************)
(* An order that got into the queue is synced, or was just being synced    *)
(* when its turn came; unless the worker is stopped first.                 *)
(***************************************************************************)
QueuedIsServed ==
    \A o \in Orders : Contains(queue, o) ~> (o \in SyncedOrders \/ worker # "running")
=============================================================================

--------------------------- MODULE Serving_proofs ---------------------------
(***************************************************************************)
(* Proofs about UrgentSync and Serving, for every set of orders,           *)
(* connections and slots and every queue size.  Of the queue: its type     *)
(* invariant, that no order is synced twice at a time and that marks and   *)
(* work in progress agree.  Of the pod: it uses the queue only by the      *)
(* actions of UrgentSync, so that what is proved of the queue holds of the *)
(* pod, and it goes down in order.                                         *)
(***************************************************************************)
EXTENDS Serving, TLAPS

(***************************************************************************)
(* Neither property is inductive alone: a goroutine's delete is harmless   *)
(* because no other goroutine and not the consumer own that mark, and the  *)
(* consumer may own one only because the mark was absent when it looked.   *)
(***************************************************************************)
HeldTyped == consumer \in {"dedup", "acquire"} => held \in Orders

HeldInv ==
    /\ HeldTyped
    /\ consumer = "select" => held = NoOrder
    /\ consumer \in {"acquire", "exited"} => held \notin SyncedOrders

WorkInv == \A s \in Busy : job[s] \in Orders

MarkInv == HeldInv /\ WorkInv /\ MarkedIffBusy /\ OneSyncPerOrder

\* The types of all variables, in particular the queue's bound (make(chan
\* int64, cfg.UrgentQueueSize), poller_service.go:67).
THEOREM TypeCorrect == Spec => []TypeOK
<1>1. Init => TypeOK /\ HeldTyped
  BY SizesAssumption DEF Init, TypeOK, HeldTyped
<1>2. TypeOK /\ HeldTyped /\ [Next]_vars => TypeOK' /\ HeldTyped'
  <2> SUFFICES ASSUME TypeOK, HeldTyped, [Next]_vars
               PROVE  TypeOK' /\ HeldTyped'
    OBVIOUS
  <2> USE SizesAssumption DEF TypeOK, HeldTyped
  <2>1. ASSUME NEW o \in Orders, Trigger(o)
        PROVE  TypeOK' /\ HeldTyped'
    <3>1. queue' \in Seq(Orders) /\ Len(queue') <= QueueSize
      <4>1. CASE Len(queue) < QueueSize
        BY <2>1, <4>1 DEF Trigger
      <4>2. CASE ~(Len(queue) < QueueSize)
        BY <2>1, <4>2 DEF Trigger
      <4>3. QED
        BY <4>1, <4>2
    <3>2. QED
      BY <2>1, <3>1 DEF Trigger
  <2>2. CASE Receive
    <3>1. Head(queue) \in Orders /\ Tail(queue) \in Seq(Orders) /\ Len(Tail(queue)) <= QueueSize
      BY <2>2 DEF Receive
    <3>2. QED
      BY <2>2, <3>1 DEF Receive
  <2>3. CASE Dedup
    BY <2>3 DEF Dedup
  <2>4. CASE ConsumerExit
    BY <2>4 DEF ConsumerExit
  <2>5. ASSUME NEW s \in Slots, Acquire(s)
        PROVE  TypeOK' /\ HeldTyped'
    BY <2>5 DEF Acquire
  <2>6. ASSUME NEW s \in Slots, Goroutine(s)
        PROVE  TypeOK' /\ HeldTyped'
    BY <2>6 DEF Goroutine, SyncReturns, Unmark, Release
  <2>7. CASE Stop \/ StopReturn
    BY <2>7 DEF Stop, StopReturn
  <2>8. CASE UNCHANGED vars
    BY <2>8 DEF vars
  <2>9. QED
    BY <2>1, <2>2, <2>3, <2>4, <2>5, <2>6, <2>7, <2>8 DEF Next
<1>3. QED
  BY <1>1, <1>2, PTL DEF Spec

\* The steps that touch neither marks nor work keep MarkInv.
LEMMA MarkStable ==
    ASSUME MarkInv, UNCHANGED <<consumer, held, inFlight, job, stage>>
    PROVE  MarkInv'
<1>1. Busy' = Busy /\ SyncedOrders' = SyncedOrders
  BY DEF Busy, SyncedOrders
<1>2. QED
  BY <1>1 DEF MarkInv, HeldInv, HeldTyped, WorkInv, MarkedIffBusy, OneSyncPerOrder

\* The marks, the consumer's order and the goroutines agree in every state.
LEMMA MarkCorrect == Spec => []MarkInv
<1>1. Init => MarkInv
  BY OrdersAssumption DEF Init, MarkInv, HeldInv, HeldTyped, WorkInv, MarkedIffBusy, OneSyncPerOrder,
     Busy, SyncedOrders
<1>2. TypeOK /\ MarkInv /\ [Next]_vars => MarkInv'
  <2> SUFFICES ASSUME TypeOK, MarkInv, [Next]_vars
               PROVE  MarkInv'
    OBVIOUS
  <2> USE DEF MarkInv, HeldTyped
  <2>1. ASSUME NEW o \in Orders, Trigger(o)
        PROVE  MarkInv'
    BY <2>1, MarkStable DEF Trigger
  <2>2. CASE Receive
    <3>1. Head(queue) \in Orders
      BY <2>2 DEF Receive, TypeOK
    <3>2. Busy' = Busy /\ SyncedOrders' = SyncedOrders
      BY <2>2 DEF Receive, Busy, SyncedOrders
    <3>3. QED
      BY <2>2, <3>1, <3>2 DEF Receive, HeldInv, WorkInv, MarkedIffBusy, OneSyncPerOrder
  <2>3. CASE Dedup
    <3>1. Busy' = Busy /\ SyncedOrders' = SyncedOrders
      BY <2>3 DEF Dedup, Busy, SyncedOrders
    <3>2. held \in Orders /\ inFlight = SyncedOrders
      BY <2>3, OrdersAssumption DEF Dedup, HeldInv, MarkedIffBusy
    <3>3. CASE held \in inFlight
      BY <2>3, <3>1, <3>2, <3>3 DEF Dedup, HeldInv, WorkInv, MarkedIffBusy, OneSyncPerOrder
    <3>4. CASE held \notin inFlight
      BY <2>3, <3>1, <3>2, <3>4, OrdersAssumption
      DEF Dedup, HeldInv, WorkInv, MarkedIffBusy, OneSyncPerOrder
    <3>5. QED
      BY <3>3, <3>4
  <2>4. ASSUME NEW s \in Slots, Acquire(s)
        PROVE  MarkInv'
    <3>1. /\ held \in Orders
          /\ held \notin SyncedOrders
          /\ inFlight = SyncedOrders \cup {held}
      BY <2>4, OrdersAssumption DEF Acquire, HeldInv, MarkedIffBusy
    <3>2. s \notin Busy /\ Busy' = Busy \cup {s}
      BY <2>4 DEF Acquire, Busy, TypeOK
    <3>3. job'[s] = held /\ \A t \in Busy : job'[t] = job[t]
      BY <2>4, <3>2 DEF Acquire, TypeOK, Busy
    <3>4. SyncedOrders' = SyncedOrders \cup {held}
      BY <3>2, <3>3 DEF SyncedOrders
    <3>5. HeldInv'
      BY <2>4 DEF Acquire, HeldInv
    <3>6. WorkInv'
      BY <3>1, <3>2, <3>3 DEF WorkInv
    <3>7. MarkedIffBusy'
      BY <2>4, <3>1, <3>4 DEF Acquire, MarkedIffBusy
    <3>8. OneSyncPerOrder'
      BY <3>1, <3>2, <3>3 DEF OneSyncPerOrder, SyncedOrders
    <3>9. QED
      BY <3>5, <3>6, <3>7, <3>8
  <2>5. CASE ConsumerExit
    <3>1. Busy' = Busy /\ SyncedOrders' = SyncedOrders
      BY <2>5 DEF ConsumerExit, Busy, SyncedOrders
    <3>2. NoOrder \notin SyncedOrders
      BY OrdersAssumption DEF SyncedOrders, WorkInv
    <3>3. QED
      BY <2>5, <3>1, <3>2 DEF ConsumerExit, HeldInv, WorkInv, MarkedIffBusy, OneSyncPerOrder
  <2>6. ASSUME NEW s \in Slots, SyncReturns(s)
        PROVE  MarkInv'
    <3>1. Busy' = Busy
      BY <2>6 DEF SyncReturns, Busy, TypeOK
    <3>2. SyncedOrders' = SyncedOrders
      BY <2>6, <3>1 DEF SyncReturns, SyncedOrders
    <3>3. QED
      BY <2>6, <3>1, <3>2 DEF SyncReturns, HeldInv, WorkInv, MarkedIffBusy, OneSyncPerOrder
  <2>7. ASSUME NEW s \in Slots, Unmark(s)
        PROVE  MarkInv'
    <3>1. s \in Busy /\ Busy' = Busy \ {s}
      BY <2>7 DEF Unmark, Busy, TypeOK
    <3>2. SyncedOrders' = SyncedOrders \ {job[s]}
      BY <2>7, <3>1 DEF Unmark, SyncedOrders, OneSyncPerOrder
    <3>3. job[s] \in SyncedOrders
      BY <3>1 DEF SyncedOrders
    <3>4. HeldInv'
      BY <2>7, <3>2 DEF Unmark, HeldInv
    <3>5. WorkInv' /\ OneSyncPerOrder'
      BY <2>7, <3>1 DEF Unmark, WorkInv, OneSyncPerOrder
    <3>6. MarkedIffBusy'
      BY <2>7, <3>2, <3>3 DEF Unmark, MarkedIffBusy, HeldInv
    <3>7. QED
      BY <3>4, <3>5, <3>6
  <2>8. ASSUME NEW s \in Slots, Release(s)
        PROVE  MarkInv'
    <3>1. s \notin Busy /\ Busy' = Busy
      BY <2>8 DEF Release, Busy, TypeOK
    <3>2. \A t \in Busy : job'[t] = job[t]
      BY <2>8, <3>1 DEF Release, TypeOK, Busy
    <3>3. SyncedOrders' = SyncedOrders
      BY <3>1, <3>2 DEF SyncedOrders
    <3>4. QED
      BY <2>8, <3>1, <3>2, <3>3 DEF Release, HeldInv, WorkInv, MarkedIffBusy, OneSyncPerOrder
  <2>9. CASE Stop \/ StopReturn \/ UNCHANGED vars
    BY <2>9, MarkStable DEF Stop, StopReturn, vars
  <2>10. QED
    BY <2>1, <2>2, <2>3, <2>4, <2>5, <2>6, <2>7, <2>8, <2>9 DEF Next, Goroutine
<1>3. QED
  BY <1>1, <1>2, TypeCorrect, PTL DEF Spec

\* At no time do two goroutines of a pod sync the same order
\* (runUrgentQueueConsumer, poller_worker.go:216-270).
THEOREM OneSyncPerOrderCorrect == Spec => []OneSyncPerOrder
<1>1. MarkInv => OneSyncPerOrder
  BY DEF MarkInv
<1>2. QED
  BY <1>1, MarkCorrect, PTL

\* No mark of inFlight is left behind or deleted early (poller_worker.go:233-259).
THEOREM MarkedIffBusyCorrect == Spec => []MarkedIffBusy
<1>1. MarkInv => MarkedIffBusy
  BY DEF MarkInv
<1>2. QED
  BY <1>1, MarkCorrect, PTL
-----------------------------------------------------------------------------
\* What a handler triggers is an order, never a probe.
AsksForOrder == \A h \in Handlers : step[h] \in {"register", "trigger"} => request[h] \in Orders

HandlerInv == ServerTypeOK /\ AsksForOrder

\* A handler touches the queue by Trigger only, with the order of its request.
LEMMA HandlerStep ==
    ASSUME HandlerInv, NEW h \in Handlers, Handler(h)
    PROVE  HandlerInv' /\ [Next]_vars
<1> USE DEF HandlerInv, ServerTypeOK, AsksForOrder, Goto, Finish
<1>1. CASE Arrive(h)
  BY <1>1 DEF Arrive, server
<1>2. CASE Ping(h)
  BY <1>2 DEF Ping, server
<1>3. CASE Read(h)
  BY <1>3 DEF Read, server
<1>4. CASE Register(h)
  BY <1>4 DEF Register, server
<1>5. CASE TriggerUrgentSync(h)
  <2>1. HandlerInv'
    BY <1>5 DEF TriggerUrgentSync, server
  <2>2. request[h] \in Orders /\ Trigger(request[h])
    BY <1>5 DEF TriggerUrgentSync
  <2>3. QED
    BY <2>1, <2>2 DEF Next
<1>6. CASE Answer(h)
  BY <1>6 DEF Answer, server
<1>7. QED
  BY <1>1, <1>2, <1>3, <1>4, <1>5, <1>6 DEF Handler

\* main touches the worker by Stop only.
LEMMA MainStep ==
    ASSUME HandlerInv, Main
    PROVE  HandlerInv' /\ [Next]_vars
<1>1. CASE Listen \/ Signal \/ CloseRedis \/ Return
  BY <1>1 DEF Listen, Signal, CloseRedis, Return, Proceed, handlers, HandlerInv, ServerTypeOK,
     AsksForOrder
<1>2. CASE Shutdown
  BY <1>2 DEF Shutdown, handlers, HandlerInv, ServerTypeOK, AsksForOrder
<1>3. CASE StopWorker
  BY <1>3 DEF StopWorker, server, handlers, HandlerInv, ServerTypeOK, AsksForOrder, Next
<1>4. QED
  BY <1>1, <1>2, <1>3 DEF Main

\* Every step of the pod is one of the urgent queue or leaves it alone.
LEMMA ServingStep ==
    ASSUME HandlerInv, [ServingNext]_servingVars
    PROVE  HandlerInv' /\ [Next]_vars
<1>1. CASE Worker
  BY <1>1 DEF Worker, Next, server, handlers, HandlerInv, ServerTypeOK, AsksForOrder
<1>2. CASE UNCHANGED servingVars
  BY <1>2 DEF servingVars, server, handlers, HandlerInv, ServerTypeOK, AsksForOrder
<1>3. QED
  BY <1>1, <1>2, HandlerStep, MainStep DEF ServingNext, Exited

\* The pod starts with an empty queue.
LEMMA ServingStart ==
    ASSUME ServingInit
    PROVE  HandlerInv /\ Init
BY DEF ServingInit, HandlerInv, ServerTypeOK, AsksForOrder

\* The handlers' invariant holds always.
LEMMA HandlerCorrect == ServingSpec => []HandlerInv
BY ServingStart, ServingStep, PTL DEF ServingSpec

\* The composition implements UrgentSync: handlers, main and the worker reach
\* the queue by its own actions only (main.go:169-241).
THEOREM ServingImplementsUrgentSync == ServingSpec => Spec
BY ServingStart, ServingStep, HandlerCorrect, PTL DEF ServingSpec, Spec

\* The types of all variables of the pod.
THEOREM ServingTypeCorrect == ServingSpec => []ServingTypeOK
<1>1. TypeOK /\ HandlerInv => ServingTypeOK
  BY DEF ServingTypeOK, HandlerInv
<1>2. QED
  BY <1>1, TypeCorrect, ServingImplementsUrgentSync, HandlerCorrect, PTL

\* No order is synced twice at a time by the pod, whatever its clients ask for
\* and whenever it is shut down (poller_worker.go:216-270).
THEOREM ServingOneSyncPerOrder == ServingSpec => []OneSyncPerOrder
BY OneSyncPerOrderCorrect, ServingImplementsUrgentSync, PTL

\* The marks of inFlight are those of the orders being worked on.
THEOREM ServingMarkedIffBusy == ServingSpec => []MarkedIffBusy
BY MarkedIffBusyCorrect, ServingImplementsUrgentSync, PTL

(***************************************************************************)
(* ShutdownInOrder is not inductive: that a returned Stop has left nobody  *)
(* behind must be known before Redis is closed.                            *)
(***************************************************************************)
Quiet == worker = "stopped" => consumer = "exited" /\ \A s \in Slots : stage[s] = "free"

\* Stop returns when neither the consumer nor a goroutine of the worker is left.
LEMMA QuietCorrect == Spec => []Quiet
<1>1. Init => Quiet
  BY DEF Init, Quiet
<1>2. Quiet /\ [Next]_vars => Quiet'
  <2> SUFFICES ASSUME Quiet, [Next]_vars
               PROVE  Quiet'
    OBVIOUS
  <2> USE DEF Quiet
  <2>1. ASSUME NEW o \in Orders, Trigger(o)
        PROVE  Quiet'
    BY <2>1 DEF Trigger
  <2>2. CASE Receive \/ Dedup \/ ConsumerExit
    BY <2>2 DEF Receive, Dedup, ConsumerExit
  <2>3. ASSUME NEW s \in Slots, Acquire(s) \/ Goroutine(s)
        PROVE  Quiet'
    BY <2>3 DEF Acquire, Goroutine, SyncReturns, Unmark, Release
  <2>4. CASE Stop \/ StopReturn \/ UNCHANGED vars
    BY <2>4 DEF Stop, StopReturn, vars
  <2>5. QED
    BY <2>1, <2>2, <2>3, <2>4 DEF Next
<1>3. QED
  BY <1>1, <1>2, PTL DEF Spec

\* Redis is closed after the last goroutine of the worker, and after a clean
\* Shutdown nobody is left to meet it (main.go:225-241).
THEOREM ShutdownInOrderCorrect == ServingSpec => []ShutdownInOrder
<1>1. ServingInit => ShutdownInOrder
  BY DEF ServingInit, Init, ShutdownInOrder
<1>2. ShutdownInOrder /\ Quiet /\ [ServingNext]_servingVars => ShutdownInOrder'
  <2> SUFFICES ASSUME ShutdownInOrder, Quiet, [ServingNext]_servingVars
               PROVE  ShutdownInOrder'
    OBVIOUS
  <2> USE DEF ShutdownInOrder, Busy, Idle
  <2>1. ASSUME NEW h \in Handlers, Handler(h)
        PROVE  ShutdownInOrder'
    <3>1. UNCHANGED <<worker, consumer, stage, main, drained>>
      BY <2>1 DEF Handler, Arrive, Ping, Read, Register, TriggerUrgentSync, Answer, Trigger, vars, server
    <3>2. ~drained
      BY <2>1 DEF Handler, Arrive, Ping, Read, Register, TriggerUrgentSync, Answer
    <3>3. QED
      BY <3>1, <3>2
  <2>2. CASE Listen \/ Signal
    BY <2>2 DEF Listen, Signal, Proceed, vars, handlers
  <2>3. CASE Shutdown
    BY <2>3 DEF Shutdown, vars, handlers
  <2>4. CASE StopWorker
    BY <2>4 DEF StopWorker, Stop, server, handlers
  <2>5. CASE CloseRedis
    BY <2>5 DEF CloseRedis, Proceed, vars, handlers, Quiet
  <2>6. CASE Return
    BY <2>6 DEF Return, Proceed, vars, handlers
  <2>7. CASE Worker
    <3>1. UNCHANGED <<main, drained, step>>
      BY <2>7 DEF Worker, server, handlers, Receive, Dedup, ConsumerExit, Acquire, Goroutine, SyncReturns,
         Unmark, Release, StopReturn
    <3>2. worker' # "running" => worker # "running"
      BY <2>7 DEF Worker, Receive, Dedup, ConsumerExit, Acquire, Goroutine, SyncReturns, Unmark, Release,
         StopReturn
    <3>3. main # "closed"
      <4>1. SUFFICES ASSUME main = "closed"
                     PROVE  FALSE
        OBVIOUS
      <4>2. worker = "stopped" /\ consumer = "exited" /\ \A s \in Slots : stage[s] = "free"
        BY <4>1 DEF Quiet
      <4>3. QED
        BY <2>7, <4>2 DEF Worker, Receive, Dedup, ConsumerExit, Acquire, Goroutine, SyncReturns, Unmark,
           Release, StopReturn
    <3>4. QED
      BY <3>1, <3>2, <3>3
  <2>8. CASE UNCHANGED servingVars
    BY <2>8 DEF servingVars, vars, server, handlers
  <2>9. QED
    BY <2>1, <2>2, <2>3, <2>4, <2>5, <2>6, <2>7, <2>8 DEF ServingNext, Main, Exited
<1>3. QED
  BY <1>1, <1>2, QuietCorrect, ServingImplementsUrgentSync, PTL DEF ServingSpec
=============================================================================

------------------------------ MODULE Serving ------------------------------
(***************************************************************************)
(* One pod from the side of its clients: the goroutines net/http runs for  *)
(* requests (router.go, location_handler.go, health_handler.go and the     *)
(* read path of location_service.go) feed the urgent queue of UrgentSync,  *)
(* while main (src/cmd/server/main.go) waits for a signal and takes the    *)
(* pod down: HTTP server, worker, Redis client, in that order.             *)
(*                                                                         *)
(* Bodies, headers and counters are left out; what a request leaves in     *)
(* Redis is in OrderTracking, the worker's other loops are in              *)
(* LeaderElection.  Here any Redis call may fail, and every one fails once *)
(* the client is closed.                                                   *)
(***************************************************************************)
EXTENDS UrgentSync

CONSTANTS
    Handlers,  \* connections with a request at a time
    Probe      \* a request that is not about an order: health, metrics, ...

ASSUME ProbeAssumption == Probe \notin Orders \cup {NoOrder}

VARIABLES
    main,     \* control point of main
    drained,  \* server.Shutdown has returned without error
    request,  \* what each connection asks for, NoOrder between requests
    step      \* where its handler is

server == <<main, drained>>
handlers == <<request, step>>
servingVars == <<vars, server, handlers>>

Idle == {h \in Handlers : step[h] = "idle"}

ServerTypeOK ==
    /\ main \in {"starting", "serving", "draining", "stopping", "closed", "exited"}
    /\ drained \in BOOLEAN
    /\ request \in [Handlers -> Orders \cup {NoOrder, Probe}]
    /\ step \in [Handlers -> {"idle", "read", "register", "trigger", "answer"}]

ServingTypeOK == TypeOK /\ ServerTypeOK

ServingInit ==
    /\ Init
    /\ main = "starting"
    /\ drained = FALSE
    /\ request = [h \in Handlers |-> NoOrder]
    /\ step = [h \in Handlers |-> "idle"]

RedisOpen == main \notin {"closed", "exited"}

Goto(h, next) == step' = [step EXCEPT ![h] = next]
-----------------------------------------------------------------------------
(***************************************************************************)
(* A request.                                                              *)
(***************************************************************************)

\* The listener is closed by Shutdown, but a connection accepted before may
\* still send its request.
Arrive(h) ==
    /\ main \notin {"starting", "exited"}
    /\ ~drained
    /\ step[h] = "idle"
    /\ \E r \in Orders \cup {Probe} : request' = [request EXCEPT ![h] = r]
    /\ Goto(h, "read")
    /\ UNCHANGED <<vars, server>>

\* What was asked for matters no more.
Finish(h) ==
    /\ Goto(h, "answer")
    /\ request' = [request EXCEPT ![h] = NoOrder]

\* The health pages answer whether their Ping succeeds or not.
Ping(h) ==
    /\ step[h] = "read"
    /\ request[h] = Probe
    /\ Finish(h)
    /\ UNCHANGED <<vars, server>>

\* A miss, or straight to the answer: a hit with its refresh, a Redis error, an
\* order id that is not valid.
Read(h) ==
    /\ step[h] = "read"
    /\ request[h] \in Orders
    /\ (RedisOpen /\ Goto(h, "register") /\ UNCHANGED request) \/ Finish(h)
    /\ UNCHANGED <<vars, server>>

\* Only a registered order is triggered; an error is answered with 500.
Register(h) ==
    /\ step[h] = "register"
    /\ (RedisOpen /\ Goto(h, "trigger") /\ UNCHANGED request) \/ Finish(h)
    /\ UNCHANGED <<vars, server>>

TriggerUrgentSync(h) ==
    /\ step[h] = "trigger"
    /\ Trigger(request[h])
    /\ Finish(h)
    /\ UNCHANGED server

\* The handler writes the answer, LatencyLogger records it.
Answer(h) ==
    /\ step[h] = "answer"
    /\ Goto(h, "idle")
    /\ UNCHANGED <<vars, server, request>>

Handler(h) ==
    Arrive(h) \/ Ping(h) \/ Read(h) \/ Register(h) \/ TriggerUrgentSync(h) \/ Answer(h)
-----------------------------------------------------------------------------
(***************************************************************************)
(* main, once the worker is started.                                       *)
(***************************************************************************)
Proceed(from, to) == main = from /\ main' = to /\ UNCHANGED <<drained, handlers>>

\* ListenAndServe binds the port, or fails and exits on the spot: no Stop.
Listen == (Proceed("starting", "serving") \/ Proceed("starting", "exited")) /\ UNCHANGED vars

Signal == (Proceed("starting", "draining") \/ Proceed("serving", "draining")) /\ UNCHANGED vars

ShutdownUnbounded ==
    /\ main = "draining"
    /\ main' = "stopping"
    /\ Idle = Handlers
    /\ drained' = TRUE
    /\ UNCHANGED <<vars, handlers>>

\* server.Shutdown returns when no handler is left, or with an error after 10 s.
Shutdown ==
    /\ main = "draining"
    /\ main' = "stopping"
    /\ (Idle = Handlers /\ drained' = TRUE) \/ UNCHANGED drained
    /\ UNCHANGED <<vars, handlers>>

\* pollerWorker.Stop is called.
StopWorker ==
    /\ main = "stopping"
    /\ Stop
    /\ UNCHANGED <<server, handlers>>

CloseWithoutWaiting == Proceed("stopping", "closed") /\ worker # "running" /\ UNCHANGED vars

\* Stop has returned; redisClient.Close.
CloseRedis == Proceed("stopping", "closed") /\ worker = "stopped" /\ UNCHANGED vars

\* main returns.
Return == Proceed("closed", "exited") /\ UNCHANGED vars

Main == Listen \/ Signal \/ Shutdown \/ StopWorker \/ CloseRedis \/ Return
-----------------------------------------------------------------------------
\* The consumer and its goroutines; Stop's wait for them.
Worker ==
    /\ \/ Receive \/ Dedup \/ ConsumerExit
       \/ \E s \in Slots : Acquire(s) \/ Goroutine(s)
       \/ StopReturn
    /\ UNCHANGED <<server, handlers>>

Exited == main = "exited" /\ UNCHANGED servingVars

ServingNext ==
    \/ main # "exited" /\ ((\E h \in Handlers : Handler(h)) \/ Main \/ Worker)
    \/ Exited

ServingSpec == ServingInit /\ [][ServingNext]_servingVars

(***************************************************************************)
(* The consumer and the goroutines run and SyncOrder ends.  The consumer's *)
(* exit is strongly fair: Go's select chooses at random among the ready    *)
(* cases, so a closed stopChan is not passed over for ever.  Shutdown has  *)
(* its deadline.  Nothing is assumed of the handlers, whose Redis calls    *)
(* have none, and nobody has to send a signal.                             *)
(***************************************************************************)
Running(A) == main # "exited" /\ A /\ UNCHANGED <<server, handlers>>

FairServing ==
    /\ ServingSpec
    /\ WF_servingVars(Running(Receive \/ Dedup \/ \E s \in Slots : Acquire(s)))
    /\ \A s \in Slots : WF_servingVars(Running(Goroutine(s)))
    /\ SF_servingVars(Running(ConsumerExit))
    /\ WF_servingVars(Running(StopReturn))
    /\ WF_servingVars(Shutdown \/ StopWorker \/ CloseRedis \/ Return)
-----------------------------------------------------------------------------
(***************************************************************************)
(* The pod goes down in order.  Redis is closed only when the consumer and *)
(* all its goroutines have ended, though handlers may go on triggering;    *)
(* and after a clean Shutdown no handler runs any more, so that none meets *)
(* a stopped worker or a closed Redis (main.go:225-241).                   *)
(***************************************************************************)
ShutdownInOrder ==
    /\ worker # "running" => main \in {"stopping", "closed", "exited"}
    /\ main = "closed" => worker = "stopped" /\ consumer = "exited" /\ Busy = {}
    /\ drained => Idle = Handlers

(***************************************************************************)
(* After a signal the process ends, whatever the handlers, the queue and   *)
(* the consumer are busy with: a handler that hangs costs 10 s, an order   *)
(* under way its 5 s (main.go:222-243, poller_worker.go:104-121).          *)
(***************************************************************************)
ShutdownTerminates == main = "draining" ~> main = "exited"
=============================================================================

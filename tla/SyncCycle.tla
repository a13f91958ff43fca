----------------------------- MODULE SyncCycle -----------------------------
(***************************************************************************)
(* How positions get into the cache (src/internal/service/                 *)
(* poller_service.go): the periodic cycle SyncActiveOrders with its two    *)
(* pools of fetching goroutines, and SyncOrder, which the urgent queue     *)
(* runs for single orders at the same time.                                *)
(*                                                                         *)
(* Upstream calls begin and end on their own, and every Redis round trip   *)
(* is a step of its own, but for the mappings a cycle stores one by one in *)
(* OrdersEnd, which are one step.  A courier's positions are numbered in   *)
(* the order it takes them; 0 is no position.  Which orders are active, is *)
(* OrderTracking; that one SyncOrder runs per order, UrgentSync; which     *)
(* calls the breakers let through, CircuitBreaker: here a call succeeds or *)
(* fails.                                                                  *)
(***************************************************************************)
EXTENDS Integers, FiniteSets

CONSTANTS
    Orders,
    Couriers,
    CourierOf,          \* the courier of each order; it does not change
    Urgent,             \* orders the urgent queue may hold
    Reliable,           \* orders and couriers whose lookups never fail
    WorkerConcurrency,  \* cfg.WorkerConcurrency
    MaxPosition,        \* bound on the positions of a courier
    MaxFaults           \* bound on failed Redis calls in a behaviour

ASSUME CourierAssumption ==
    /\ CourierOf \in [Orders -> Couriers]
    /\ Urgent \subseteq Orders
    /\ Orders \cap Couriers = {}
ASSUME NumbersAssumption ==
    /\ {WorkerConcurrency, MaxPosition} \subseteq Nat \ {0}
    /\ MaxFaults \in Nat

VARIABLES
    position,  \* where each courier is
    mapping,   \* orders with an order:%d:courier_id key
    location,  \* order:%d:location
    lastSync,  \* whether the running or last cycle has set last_sync
    cycle,     \* control point of SyncActiveOrders
    ids,       \* orders of the cycle
    todo,      \* orders or couriers a loop has still to handle
    fetching,  \* orders or couriers with a call under way
    missing,   \* orders without mapping
    known,     \* orders whose courier the cycle knows: orderToCourier
    answer,    \* positions the cycle has fetched: courierCoordinates
    sync,      \* control point of SyncOrder for each order
    got,       \* position it has fetched
    faults,    \* failed Redis calls so far
    began      \* history: positions when the cycle began

cache == <<mapping, location, lastSync>>
cycleVars == <<cycle, ids, todo, fetching, missing, known, answer, began>>
syncVars == <<sync, got>>
vars == <<position, cache, cycleVars, syncVars, faults>>

Positions == 1..MaxPosition

TypeOK ==
    /\ position \in [Couriers -> Positions]
    /\ mapping \subseteq Orders
    /\ location \in [Orders -> 0..MaxPosition]
    /\ lastSync \in BOOLEAN
    /\ cycle \in {"idle", "map", "orders", "couriers", "write", "stamp"}
    /\ ids \subseteq Orders
    /\ todo \subseteq Orders \cup Couriers
    /\ fetching \subseteq Orders \cup Couriers
    /\ missing \subseteq ids
    /\ known \subseteq ids
    /\ Cardinality(fetching) <= WorkerConcurrency
    /\ answer \in [Couriers -> 0..MaxPosition]
    /\ sync \in [Orders -> {"idle", "mapping", "order", "courier", "write"}]
    /\ got \in [Orders -> 0..MaxPosition]
    /\ faults \in 0..MaxFaults
    /\ began \in [Couriers -> Positions]

NoAnswer == [c \in Couriers |-> 0]

Init ==
    /\ position = [c \in Couriers |-> 1]
    /\ mapping = {}
    /\ location = [o \in Orders |-> 0]
    /\ lastSync = FALSE
    /\ cycle = "idle"
    /\ ids = {} /\ todo = {} /\ fetching = {} /\ missing = {} /\ known = {}
    /\ answer = NoAnswer
    /\ sync = [o \in Orders |-> "idle"]
    /\ got = [o \in Orders |-> 0]
    /\ faults = 0
    /\ began = position

RedisFails == faults < MaxFaults /\ faults' = faults + 1
RedisWorks == UNCHANGED faults
-----------------------------------------------------------------------------
\* A courier moves; keys reach the end of their TTL.
Move(c) ==
    /\ position[c] < MaxPosition
    /\ position' = [position EXCEPT ![c] = @ + 1]
    /\ UNCHANGED <<cache, cycleVars, syncVars, faults>>

ExpireMapping(o) ==
    /\ o \in mapping
    /\ mapping' = mapping \ {o}
    /\ UNCHANGED <<position, location, lastSync, cycleVars, syncVars, faults>>

ExpireLocation(o) ==
    /\ location[o] > 0
    /\ location' = [location EXCEPT ![o] = 0]
    /\ UNCHANGED <<position, mapping, lastSync, cycleVars, syncVars, faults>>
-----------------------------------------------------------------------------
(***************************************************************************)
(* SyncActiveOrders.                                                       *)
(***************************************************************************)
CycleKeepsAnswers(active) ==
    /\ cycle = "idle"
    /\ Reliable \cap Orders \subseteq active
    /\ ids' = active
    /\ todo' = active
    /\ cycle' = IF active = {} THEN "stamp" ELSE "map"
    /\ lastSync' = FALSE
    /\ fetching' = {} /\ missing' = {} /\ known' = {}
    /\ began' = position
    /\ UNCHANGED <<position, mapping, location, answer, syncVars, faults>>

\* A tick of the poll ticker at the leader; GetActiveOrderIDs returns the
\* active orders, the reliable ones among them.
CycleBegin(active) ==
    /\ cycle = "idle"
    /\ Reliable \cap Orders \subseteq active
    /\ ids' = active
    /\ todo' = active
    /\ cycle' = IF active = {} THEN "stamp" ELSE "map"
    /\ lastSync' = FALSE
    /\ fetching' = {} /\ missing' = {} /\ known' = {}
    /\ answer' = NoAnswer
    /\ began' = position
    /\ UNCHANGED <<position, mapping, location, syncVars, faults>>

\* GetOrderCourierMapping of one order; a failed GET is like a miss.
MapOrder(o) ==
    /\ cycle = "map"
    /\ o \in todo
    /\ todo' = todo \ {o}
    /\ \/ o \in mapping /\ RedisWorks /\ known' = known \cup {o} /\ UNCHANGED missing
       \/ o \notin mapping /\ RedisWorks /\ missing' = missing \cup {o} /\ UNCHANGED known
       \/ RedisFails /\ missing' = missing \cup {o} /\ UNCHANGED known
    /\ UNCHANGED <<position, cache, cycle, ids, fetching, answer, began, syncVars>>

CouriersOf(orders) == {CourierOf[o] : o \in orders}

\* fetchMissingOrderCouriers, unless no order misses its courier.
MapEnd ==
    /\ cycle = "map"
    /\ todo = {}
    /\ cycle' = "orders"
    /\ todo' = missing
    /\ UNCHANGED <<position, cache, ids, fetching, missing, known, answer, began, syncVars, faults>>

DispatchWithoutToken(x) ==
    /\ cycle \in {"orders", "couriers"}
    /\ x \in todo
    /\ todo' = todo \ {x}
    /\ fetching' = fetching \cup {x}
    /\ UNCHANGED <<position, cache, cycle, ids, missing, known, answer, began, syncVars, faults>>

\* Both fetch loops: take a token of the semaphore, start the goroutine.
Dispatch(x) ==
    /\ cycle \in {"orders", "couriers"}
    /\ x \in todo
    /\ Cardinality(fetching) < WorkerConcurrency
    /\ todo' = todo \ {x}
    /\ fetching' = fetching \cup {x}
    /\ UNCHANGED <<position, cache, cycle, ids, missing, known, answer, began, syncVars, faults>>

\* The Order Service answers or not.  SetOrderCourierMapping of the resolved
\* orders follows once all calls are back; its errors are ignored.
OrderReturns(o) ==
    /\ cycle = "orders"
    /\ o \in fetching
    /\ fetching' = fetching \ {o}
    /\ \/ known' = known \cup {o}
       \/ o \notin Reliable /\ UNCHANGED known
    /\ UNCHANGED <<position, cache, cycle, ids, todo, missing, answer, began, syncVars, faults>>

\* The mappings found are stored, any of them may fail.  With no courier known
\* the cycle is over; otherwise each courier of the known orders is fetched once.
OrdersEnd ==
    /\ cycle = "orders"
    /\ todo = {} /\ fetching = {}
    /\ \/ RedisWorks /\ mapping' = mapping \cup (missing \cap known)
       \/ /\ missing \cap known # {}
          /\ RedisFails
          /\ \E lost \in SUBSET (missing \cap known) :
                mapping' = mapping \cup ((missing \cap known) \ lost)
    /\ cycle' = IF known = {} THEN "stamp" ELSE "couriers"
    /\ todo' = CouriersOf(known)
    /\ UNCHANGED <<position, location, lastSync, ids, fetching, missing, known, answer, began, syncVars>>

\* The Courier Service answers with the courier's position or fails.
CourierReturns(c) ==
    /\ cycle = "couriers"
    /\ c \in fetching
    /\ fetching' = fetching \ {c}
    /\ \/ answer' = [answer EXCEPT ![c] = position[c]]
       \/ c \notin Reliable /\ UNCHANGED answer
    /\ UNCHANGED <<position, cache, cycle, ids, todo, missing, known, began, syncVars, faults>>

CouriersEndOnlyIfAll ==
    /\ cycle = "couriers"
    /\ todo = {} /\ fetching = {}
    /\ cycle' = IF \A c \in CouriersOf(known) : answer[c] > 0 THEN "write" ELSE "idle"
    /\ UNCHANGED <<position, cache, ids, todo, fetching, missing, known, answer, began, syncVars, faults>>

CouriersEndWhenAllAnswered ==
    /\ cycle = "couriers"
    /\ todo = {} /\ fetching = {}
    /\ \A c \in CouriersOf(known) : answer[c] > 0
    /\ cycle' = "write"
    /\ UNCHANGED <<position, cache, ids, todo, fetching, missing, known, answer, began, syncVars, faults>>

\* wg.Wait returns: the results are those that arrived.
CouriersEnd ==
    /\ cycle = "couriers"
    /\ todo = {} /\ fetching = {}
    /\ cycle' = "write"
    /\ UNCHANGED <<position, cache, ids, todo, fetching, missing, known, answer, began, syncVars, faults>>

Located == {o \in known : answer[CourierOf[o]] > 0}

\* The maps of the cycle lead from an order to its courier (CourierOf, which
\* does not change) and from the courier to its answer.
Stored(orders) ==
    [o \in Orders |-> IF o \in orders THEN answer[CourierOf[o]] ELSE location[o]]

\* SetOrderLocationsBatch, a pipeline, not sent at all without locations; a
\* failing one may have done part of its work and ends the cycle.
WriteBatch ==
    /\ cycle = "write"
    /\ \/ RedisWorks /\ location' = Stored(Located) /\ cycle' = "stamp"
       \/ /\ Located # {}
          /\ RedisFails
          /\ \E part \in SUBSET Located : location' = Stored(part)
          /\ cycle' = "idle"
    /\ UNCHANGED <<position, mapping, lastSync, ids, todo, fetching, missing, known, answer, began, syncVars>>

\* SetLastSync; its error is ignored.
Stamp ==
    /\ cycle = "stamp"
    /\ \/ RedisWorks /\ lastSync' = TRUE
       \/ RedisFails /\ UNCHANGED lastSync
    /\ cycle' = "idle"
    /\ UNCHANGED <<position, mapping, location, ids, todo, fetching, missing, known, answer, began, syncVars>>

Cycle ==
    \/ \E active \in SUBSET Orders : CycleBegin(active)
    \/ \E o \in Orders : MapOrder(o) \/ OrderReturns(o)
    \/ \E c \in Couriers : CourierReturns(c)
    \/ \E x \in Orders \cup Couriers : Dispatch(x)
    \/ MapEnd \/ OrdersEnd \/ CouriersEnd \/ WriteBatch \/ Stamp
-----------------------------------------------------------------------------
(***************************************************************************)
(* SyncOrder.                                                              *)
(***************************************************************************)
Goto(o, point) == sync' = [sync EXCEPT ![o] = point]

SyncBegin(o) ==
    /\ o \in Urgent
    /\ sync[o] = "idle"
    /\ Goto(o, "mapping")
    /\ UNCHANGED <<position, cache, cycleVars, got, faults>>

SyncMap(o) ==
    /\ sync[o] = "mapping"
    /\ \/ o \in mapping /\ RedisWorks /\ Goto(o, "courier")
       \/ o \notin mapping /\ RedisWorks /\ Goto(o, "order")
       \/ RedisFails /\ Goto(o, "order")
    /\ UNCHANGED <<position, cache, cycleVars, got>>

\* getOrderWithSingleflight returns: cache the mapping, or give up.
SyncOrderReturns(o) ==
    /\ sync[o] = "order"
    /\ \/ RedisWorks /\ mapping' = mapping \cup {o} /\ Goto(o, "courier")
       \/ RedisFails /\ UNCHANGED mapping /\ Goto(o, "courier")
       \/ o \notin Reliable /\ RedisWorks /\ UNCHANGED mapping /\ Goto(o, "idle")
    /\ UNCHANGED <<position, location, lastSync, cycleVars, got>>

SyncCourierReturns(o) ==
    /\ sync[o] = "courier"
    /\ \/ got' = [got EXCEPT ![o] = position[CourierOf[o]]] /\ Goto(o, "write")
       \/ CourierOf[o] \notin Reliable /\ UNCHANGED got /\ Goto(o, "idle")
    /\ UNCHANGED <<position, cache, cycleVars, faults>>

\* SetOrderLocation.
SyncWrite(o) ==
    /\ sync[o] = "write"
    /\ \/ RedisWorks /\ location' = [location EXCEPT ![o] = got[o]]
       \/ RedisFails /\ UNCHANGED location
    /\ got' = [got EXCEPT ![o] = 0]
    /\ Goto(o, "idle")
    /\ UNCHANGED <<position, mapping, lastSync, cycleVars>>

SyncOrder(o) == SyncBegin(o) \/ SyncMap(o) \/ SyncOrderReturns(o) \/ SyncCourierReturns(o) \/ SyncWrite(o)

Next ==
    \/ \E c \in Couriers : Move(c)
    \/ \E o \in Orders : ExpireMapping(o) \/ ExpireLocation(o) \/ SyncOrder(o)
    \/ Cycle

Spec == Init /\ [][Next]_vars

\* The poller goroutine and the goroutines it starts run, and every upstream
\* call returns; nothing is assumed of SyncOrder.
FairSpec ==
    /\ Spec
    /\ WF_vars(\E active \in SUBSET Orders : CycleBegin(active))
    /\ WF_vars(MapEnd) /\ WF_vars(OrdersEnd) /\ WF_vars(CouriersEnd)
    /\ WF_vars(WriteBatch) /\ WF_vars(Stamp)
    /\ \A o \in Orders : WF_vars(MapOrder(o)) /\ WF_vars(OrderReturns(o))
    /\ \A c \in Couriers : WF_vars(CourierReturns(c))
    /\ WF_vars(\E x \in Orders \cup Couriers : Dispatch(x))
-----------------------------------------------------------------------------
(***************************************************************************)
(* What a cycle stores for an order is a position its courier took while   *)
(* the cycle ran: never one kept from an earlier cycle, however late the   *)
(* batch is written (SyncActiveOrders, poller_service.go:217-250).  That   *)
(* the maps join the order with its own courier, is taken from the code.   *)
(***************************************************************************)
CycleStoresItsOwn ==
    [][cycle = "write" /\ cycle' # "write" =>
         \A o \in Orders : location'[o] # location[o] =>
            location'[o] \in began[CourierOf[o]]..position[CourierOf[o]]]_vars

(***************************************************************************)
(* One failing order or courier does not keep the others from being        *)
(* located: an active order whose lookups work is located again and again, *)
(* whatever happens to the rest (fetchMissingOrderCouriers and             *)
(* fetchCourierCoordinatesConcurrently, poller_service.go:264-333).        *)
(***************************************************************************)
ReliableIsLocated ==
    \A o \in Orders \cap Reliable :
        CourierOf[o] \in Reliable => []<>(location[o] > 0)

\* A cycle ends: no goroutine keeps its token, wg.Wait returns.
CycleTerminates == cycle # "idle" ~> cycle = "idle"
=============================================================================

--------------------------- MODULE OrderTracking ---------------------------
(***************************************************************************)
(* Which orders are tracked: the active set, the heartbeats and the cached *)
(* locations in Redis (src/internal/repository/cache/redis_cache.go), the  *)
(* read path that registers and refreshes orders                           *)
(* (src/internal/service/location_service.go) and the leader's periodic    *)
(* cycle that drops inactive orders and polls the others                   *)
(* (src/internal/service/poller_service.go, SyncActiveOrders).             *)
(*                                                                         *)
(* Every Redis round trip is a step of its own.  A key with a TTL is its   *)
(* remaining time, 0 when absent.  A round trip takes no time but lets     *)
(* others in between; fetching from the upstream services takes up to      *)
(* CycleTime.  One poller runs the cycle: who it is, is LeaderElection.    *)
(***************************************************************************)
EXTENDS Integers, FiniteSets

CONSTANTS
    Orders,
    Watched,        \* orders some client reads at least every WatchGap
    HeartbeatTTL,   \* cfg.HeartbeatTTL
    LocationTTL,    \* cfg.LocationTTL
    PollInterval,   \* cfg.PollInterval
    WatchGap,       \* longest time between two reads of a watched order
    CycleTime,      \* longest time the fetches of a cycle take
    MaxMisses,      \* bound on consecutive cycles that fail to locate an order
    MaxFaults,      \* bound on failed Redis calls in a behaviour
    MaxReads,       \* bound on the reads of orders that are not watched
    Split           \* orders whose registration may be torn: by others' commands, or half done

ASSUME OrdersAssumption == Watched \subseteq Orders /\ Split \subseteq Orders
ASSUME TimesAssumption ==
    /\ {HeartbeatTTL, LocationTTL, PollInterval, WatchGap} \subseteq Nat \ {0}
    /\ {CycleTime, MaxMisses, MaxFaults, MaxReads} \subseteq Nat

VARIABLES
    active,     \* tracking:active_orders
    heartbeat,  \* TTL of tracking:order:%d:heartbeat
    location,   \* TTL of order:%d:location
    client,     \* control point of GetCourierLocation for each order
    since,      \* time since the last read of a watched order
    urgent,     \* orders queued for, or in, SyncOrder
    cycle,      \* control point of SyncActiveOrders
    unchecked,  \* members whose heartbeat RemoveInactiveOrders has yet to look up
    doomed,     \* members it found without one
    ids,        \* result of GetActiveOrderIDs
    timer,      \* time to the next poll tick
    due,        \* a cycle is to start: a tick in the poll ticker's channel, or the initial one
    age,        \* time the fetches have taken so far
    misses,     \* consecutive cycles that did not locate the order
    faults,     \* failed Redis calls so far
    reads       \* reads of orders that are not watched so far

redis == <<active, heartbeat, location>>
readPath == <<client, since, urgent, reads>>
cyclePath == <<cycle, unchecked, doomed, ids, timer, due, age, misses>>
vars == <<redis, readPath, cyclePath, faults>>

TypeOK ==
    /\ active \subseteq Orders
    /\ heartbeat \in [Orders -> 0..HeartbeatTTL]
    /\ location \in [Orders -> 0..LocationTTL]
    /\ client \in [Orders -> {"idle", "hit", "miss", "added"}]
    /\ since \in [Orders -> 0..WatchGap]
    /\ urgent \subseteq Orders
    /\ cycle \in {"idle", "check", "list", "fetch"}
    /\ unchecked \subseteq Orders
    /\ doomed \subseteq Orders
    /\ ids \subseteq Orders
    /\ timer \in 1..PollInterval
    /\ due \in BOOLEAN
    /\ age \in 0..CycleTime
    /\ misses \in [Orders -> 0..MaxMisses]
    /\ faults \in 0..MaxFaults
    /\ reads \in 0..MaxReads

Init ==
    /\ active = {}
    /\ heartbeat = [o \in Orders |-> 0]
    /\ location = [o \in Orders |-> 0]
    /\ client = [o \in Orders |-> "idle"]
    /\ since = [o \in Orders |-> 0]
    /\ urgent = {}
    /\ cycle = "idle"
    /\ unchecked = {}
    /\ doomed = {}
    /\ ids = {}
    /\ timer = PollInterval
    /\ due \in BOOLEAN  \* a pod that leads when runPeriodicSync starts does not wait for a tick
    /\ age = 0
    /\ misses = [o \in Orders |-> 0]
    /\ faults = 0
    /\ reads = 0

RedisFails == faults < MaxFaults /\ faults' = faults + 1
Cached(o) == location[o] > 0
-----------------------------------------------------------------------------
(***************************************************************************)
(* The read path, GetCourierLocation.                                      *)
(***************************************************************************)
\* A request for the order arrives: GetOrderLocation.  Requests for one order
\* come one after another; those for different orders interleave.
ReadArrives(o) ==
    /\ client[o] = "idle"
    /\ IF o \in Watched THEN UNCHANGED reads
                        ELSE reads < MaxReads /\ reads' = reads + 1
    /\ since' = [since EXCEPT ![o] = 0]

Get(o) ==
    /\ ReadArrives(o)
    /\ client' = [client EXCEPT ![o] = IF Cached(o) THEN "hit" ELSE "miss"]
    /\ UNCHANGED <<redis, urgent, cyclePath, faults>>

\* The GET fails: the request ends with an error.
GetFail(o) ==
    /\ ReadArrives(o)
    /\ RedisFails
    /\ UNCHANGED <<redis, client, urgent, cyclePath>>

RefreshExtending(o) ==
    /\ client[o] = "hit"
    /\ \/ /\ heartbeat' = [heartbeat EXCEPT ![o] = @ + HeartbeatTTL]
          /\ UNCHANGED faults
       \/ RedisFails /\ UNCHANGED heartbeat
    /\ client' = [client EXCEPT ![o] = "idle"]
    /\ UNCHANGED <<active, location, since, urgent, reads, cyclePath>>

\* Cache hit: RefreshOrderHeartbeat sets the heartbeat and leaves the active
\* set alone; its error is ignored.
Refresh(o) ==
    /\ client[o] = "hit"
    /\ \/ /\ heartbeat' = [heartbeat EXCEPT ![o] = HeartbeatTTL]
          /\ UNCHANGED faults
       \/ RedisFails /\ UNCHANGED heartbeat
    /\ client' = [client EXCEPT ![o] = "idle"]
    /\ UNCHANGED <<active, location, since, urgent, reads, cyclePath>>

\* TriggerUrgentSync: a non-blocking send that a full queue drops.
Trigger(o) == urgent' \in {urgent, urgent \cup {o}}

\* Cache miss: the pipeline of RegisterActiveOrder, SADD then SET.
Register(o) ==
    /\ client[o] = "miss"
    /\ active' = active \cup {o}
    /\ IF o \notin Split
         THEN /\ heartbeat' = [heartbeat EXCEPT ![o] = HeartbeatTTL]
              /\ client' = [client EXCEPT ![o] = "idle"]
              /\ Trigger(o)
         ELSE /\ client' = [client EXCEPT ![o] = "added"]
              /\ UNCHANGED <<heartbeat, urgent>>
    /\ UNCHANGED <<location, since, reads, cyclePath, faults>>

RegisterBeat(o) ==
    /\ client[o] = "added"
    /\ heartbeat' = [heartbeat EXCEPT ![o] = HeartbeatTTL]
    /\ client' = [client EXCEPT ![o] = "idle"]
    /\ Trigger(o)
    /\ UNCHANGED <<active, location, since, reads, cyclePath, faults>>

\* The pipeline fails, before, between or after its commands: the request
\* ends with an error and triggers nothing.
RegisterFail(o) ==
    /\ client[o] \in {"miss", "added"}
    /\ RedisFails
    /\ \/ UNCHANGED <<active, heartbeat>>
       \/ o \in Split /\ active' = active \cup {o} /\ UNCHANGED heartbeat
       \/ /\ active' = active \cup {o}
          /\ heartbeat' = [heartbeat EXCEPT ![o] = HeartbeatTTL]
    /\ client' = [client EXCEPT ![o] = "idle"]
    /\ UNCHANGED <<location, since, urgent, reads, cyclePath>>

\* The urgent queue consumer runs SyncOrder, which locates the order or not.
UrgentSync(o) ==
    /\ o \in urgent
    /\ urgent' = urgent \ {o}
    /\ \/ location' = [location EXCEPT ![o] = LocationTTL]
       \/ UNCHANGED location
    /\ UNCHANGED <<active, heartbeat, client, since, reads, cyclePath, faults>>
-----------------------------------------------------------------------------
(***************************************************************************)
(* The periodic cycle, SyncActiveOrders.                                   *)
(***************************************************************************)
\* A poll tick, or the start of runPeriodicSync, starts the cycle:
\* RemoveInactiveOrders, SMEMBERS.
CycleBegin ==
    /\ cycle = "idle"
    /\ due
    /\ due' = FALSE
    /\ cycle' = IF active = {} THEN "list" ELSE "check"
    /\ unchecked' = active
    /\ UNCHANGED <<redis, readPath, doomed, ids, timer, age, misses, faults>>

HasHeartbeat(o) == heartbeat[o] > 0

CheckLocation(o) ==
    /\ cycle = "check"
    /\ o \in unchecked
    /\ unchecked' = unchecked \ {o}
    /\ doomed' = IF Cached(o) THEN doomed ELSE doomed \cup {o}
    /\ UNCHANGED <<redis, readPath, cycle, ids, timer, due, age, misses, faults>>

\* EXISTS of one member; the pipeline's commands may interleave with others.
CheckHeartbeat(o) ==
    /\ cycle = "check"
    /\ o \in unchecked
    /\ unchecked' = unchecked \ {o}
    /\ doomed' = IF HasHeartbeat(o) THEN doomed ELSE doomed \cup {o}
    /\ UNCHANGED <<redis, readPath, cycle, ids, timer, due, age, misses, faults>>

RemoveUnchecked ==
    /\ cycle = "check"
    /\ unchecked = {}
    /\ active' = active \ unchecked
    /\ doomed' = {}
    /\ cycle' = "list"
    /\ UNCHANGED <<heartbeat, location, readPath, unchecked, ids, timer, due, age, misses, faults>>

\* SREM of the members found without heartbeat.
RemoveDoomed ==
    /\ cycle = "check"
    /\ unchecked = {}
    /\ active' = active \ doomed
    /\ doomed' = {}
    /\ cycle' = "list"
    /\ UNCHANGED <<heartbeat, location, readPath, unchecked, ids, timer, due, age, misses, faults>>

\* Any call of RemoveInactiveOrders fails: SyncActiveOrders logs it and goes on.
RemoveFail ==
    /\ cycle = "check"
    /\ RedisFails
    /\ active' \in {active, IF unchecked = {} THEN active \ doomed ELSE active}
    /\ unchecked' = {}
    /\ doomed' = {}
    /\ cycle' = "list"
    /\ UNCHANGED <<heartbeat, location, readPath, ids, timer, due, age, misses>>

\* GetActiveOrderIDs; with no orders, or an error, the cycle ends.
ListActive ==
    /\ cycle = "list"
    /\ ids' = active
    /\ cycle' = IF active = {} THEN "idle" ELSE "fetch"
    /\ age' = 0
    /\ UNCHANGED <<redis, readPath, unchecked, doomed, timer, due, misses, faults>>

ListFail ==
    /\ cycle = "list"
    /\ RedisFails
    /\ cycle' = "idle"
    /\ UNCHANGED <<redis, readPath, unchecked, doomed, ids, timer, due, age, misses>>

WriteBatchForOnePoll(located) ==
    /\ cycle = "fetch"
    /\ located \subseteq ids
    /\ \A o \in ids \ located : misses[o] < MaxMisses
    /\ location' = [o \in Orders |-> IF o \in located THEN PollInterval ELSE location[o]]
    /\ misses' = [o \in Orders |-> IF o \in located THEN 0
                                   ELSE IF o \in ids THEN misses[o] + 1 ELSE misses[o]]
    /\ cycle' = "idle"
    /\ ids' = {}
    /\ UNCHANGED <<active, heartbeat, readPath, unchecked, doomed, timer, due, age, faults>>

\* SetOrderLocationsBatch for the orders whose courier could be located; an
\* order whose lookup failed is left out of the batch, whatever the others did.
WriteBatch(located) ==
    /\ cycle = "fetch"
    /\ located \subseteq ids
    /\ \A o \in ids \ located : misses[o] < MaxMisses
    /\ location' = [o \in Orders |-> IF o \in located THEN LocationTTL ELSE location[o]]
    /\ misses' = [o \in Orders |-> IF o \in located THEN 0
                                   ELSE IF o \in ids THEN misses[o] + 1 ELSE misses[o]]
    /\ cycle' = "idle"
    /\ ids' = {}
    /\ UNCHANGED <<active, heartbeat, readPath, unchecked, doomed, timer, due, age, faults>>
-----------------------------------------------------------------------------
Elapse(t) == IF t > 0 THEN t - 1 ELSE 0

\* A unit of time passes; round trips and overdue reads of watched orders
\* come first.
Tick ==
    /\ \A o \in Orders : client[o] = "idle" /\ (o \in Watched => since[o] < WatchGap)
    /\ \/ cycle = "idle" /\ ~due
       \/ cycle = "fetch" /\ age < CycleTime
    /\ heartbeat' = [o \in Orders |-> Elapse(heartbeat[o])]
    /\ location' = [o \in Orders |-> Elapse(location[o])]
    /\ since' = [o \in Orders |-> IF o \in Watched THEN since[o] + 1 ELSE 0]
    /\ age' = IF cycle = "fetch" THEN age + 1 ELSE age
    /\ timer' = IF timer = 1 THEN PollInterval ELSE timer - 1
    /\ due' = IF timer = 1 THEN TRUE ELSE due
    /\ UNCHANGED <<active, client, urgent, reads, cycle, unchecked, doomed, ids, misses, faults>>

Next ==
    \/ Tick
    \/ \E o \in Orders :
          \/ Get(o) \/ GetFail(o) \/ Refresh(o)
          \/ Register(o) \/ RegisterBeat(o) \/ RegisterFail(o) \/ UrgentSync(o)
          \/ CheckHeartbeat(o)
    \/ CycleBegin \/ RemoveDoomed \/ RemoveFail \/ ListActive \/ ListFail
    \/ \E located \in SUBSET Orders : WriteBatch(located)

Spec == Init /\ [][Next]_vars

(***************************************************************************)
(* Fairness: the poller goroutine and the request handlers run, and time   *)
(* passes however many requests arrive (strongly fair: a request that is   *)
(* being handled holds time up only for a moment).  Nothing forces a       *)
(* request for an order that is not watched, an urgent sync or a success   *)
(* of any upstream call.                                                   *)
(***************************************************************************)
Fairness ==
    /\ SF_vars(Tick)
    /\ WF_vars(CycleBegin) /\ WF_vars(RemoveDoomed) /\ WF_vars(ListActive)
    /\ WF_vars(\E located \in SUBSET Orders : WriteBatch(located))
    /\ \A o \in Orders :
          /\ WF_vars(CheckHeartbeat(o))
          /\ WF_vars(Refresh(o) \/ Register(o) \/ RegisterBeat(o))
          /\ WF_vars(o \in Watched /\ Get(o))

FairSpec == Spec /\ Fairness
-----------------------------------------------------------------------------
\* Cycles follow one another at the poll interval, or without a break when they
\* take longer.
Period == IF CycleTime > PollInterval THEN CycleTime ELSE PollInterval

(***************************************************************************)
(* The regular regime: clients come back well within the heartbeat, also   *)
(* counting the refreshes that may get lost, the location outlives the     *)
(* cycles that may fail, and the pipeline that registers a watched order   *)
(* is not torn.                                                            *)
(***************************************************************************)
Regular ==
    /\ Watched \cap Split = {}
    /\ (MaxFaults + 1) * WatchGap < HeartbeatTTL
    /\ (MaxMisses + MaxFaults + 1) * Period + CycleTime < LocationTTL

(***************************************************************************)
(* Under Regular an order whose heartbeat is alive is tracked: the cleaner *)
(* never takes a watched order out of the set, however its three round     *)
(* trips interleave with reads (redis_cache.go:138-226).                   *)
(***************************************************************************)
LiveIsTracked == \A o \in Watched : HasHeartbeat(o) => o \in active

(***************************************************************************)
(* Under Regular the cache of a watched order, once warm, stays warm: the  *)
(* poll interval, failed cycles and the time a cycle takes fit into the    *)
(* location TTL, so the client sees no 202 again (SyncActiveOrders against *)
(* the TTLs of config.go).                                                 *)
(***************************************************************************)
WarmStaysWarm == [][\A o \in Watched : Cached(o) => Cached(o)']_vars

\* Under Regular a watched order is located and then served for ever, even if
\* every urgent sync is dropped or fails.
WatchedIsServed == \A o \in Watched : <>[]Cached(o)

(***************************************************************************)
(* An order nobody reads any more leaves the active set, also when its     *)
(* registration stopped half way or a clean-up failed: the poll load does  *)
(* not grow for ever (RemoveInactiveOrders, redis_cache.go:185-226).       *)
(***************************************************************************)
UnwatchedIsForgotten == \A o \in Orders \ Watched : <>[](o \notin active)

(***************************************************************************)
(* What the read path assumes of a hit: "the order is already tracked"     *)
(* (location_service.go:69).  Violated when the location outlives the      *)
(* heartbeat: the refresh sets a heartbeat nobody polls for.               *)
(***************************************************************************)
HitIsTracked ==
    [][\A o \in Orders : heartbeat'[o] > heartbeat[o] => o \in active']_vars
=============================================================================

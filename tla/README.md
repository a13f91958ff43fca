# A verification of the courier location service

The service answers `GET /orders/{orderId}/courier-location` from Redis and fills Redis in
the background: requests register the orders clients are interested in, one elected pod polls
the Order Service and the Courier Service for all of them, and every pod looks up the
orders its own clients have just asked for. These modules model it, with the process around
it, the repository its tests run on and its load client, check it with TLC on small
instances and prove the parts that must hold for every configuration with TLAPS. Paths below are relative to `src/`.

## 1. The system

| Component | State | Operations | Interacts with |
|---|---|---|---|
| Leader election, `internal/worker/poller_worker.go`, lock commands of `redis_cache.go` | the key `courier_poller:leader` with its TTL; `isLeader`, `stopChan`, ticker of each pod | `Start`, `runLeaderElection`, `tryLeaderElection`, `runPeriodicSync`, `Stop`; `AcquireLeaderLock`, `RenewLeaderLock`, `ReleaseLeaderLock` | gates the cycle through `isLeader`; other pods through Redis |
| Order tracking, `internal/service/location_service.go`, `redis_cache.go` | `tracking:active_orders`, heartbeats, cached locations with their TTLs | `GetCourierLocation`, `RegisterActiveOrder`, `RefreshOrderHeartbeat`, `RemoveInactiveOrders`, `GetActiveOrderIDs` | read path and cycle share the Redis keys; a miss triggers the urgent queue |
| Cycle and `SyncOrder`, `internal/service/poller_service.go` | order-courier mappings, locations, `last_sync`; the maps and semaphores of a running cycle | `SyncActiveOrders`, both fetch pools, `SyncOrder` | calls the upstreams through the breakers; cycle and `SyncOrder` write the same keys |
| Urgent queue, `poller_service.go`, `poller_worker.go` | the channel, `inFlight`, semaphore, wait group | `TriggerUrgentSync`, `runUrgentQueueConsumer` and its goroutines, `Stop` | fed by requests, runs `SyncOrder` |
| Circuit breakers, `internal/repository/external/circuit_breaker.go` | state, counters and timeout of gobreaker | `GetOrderByID`, `GetCourierLocation` | shared by all goroutines of a pod |
| Pre-warming, `cmd/server/main.go` | `courier_poller:prewarmed`; the registry keys | `PreWarmCache`, `PreWarmOrders`, the flag | runs before the worker starts, on every pod |
| Server process, `cmd/server/main.go`; requests, `internal/handler` | where `main` and each request are; whether the listener and the Redis client are open | `ListenAndServe`, the signal, `server.Shutdown`, `Stop`, `redisClient.Close`; a handler's reads, registration and trigger | requests feed the urgent queue while `main` stops what is behind them |
| In-memory repository, `memory_cache.go` | maps of items, active orders and locks, each with an instant of expiry | the operations of `LocationCacheRepository` | stands for Redis in tests and benchmarks |
| Load client, `cmd/client/main.go` | `jobsChan`, `resultsChan`, dispatcher, workers, collector, `MetricsTracker` | the loops of the goroutines, the interrupt, the end of `main` | calls the service over HTTP |
| Middleware, simulated upstreams | nothing a later step sees | see section 8 | |
| Telemetry, configuration, domain types, deployment | see section 8 | | |

What is hard here: several pods share Redis and nothing else; a pod acts on a lease it
learned of earlier; a call to Redis may fail after it was executed; `Stop` runs next to
three loops and a pool of goroutines; the registry is changed in several round trips
while requests change it too; results of upstream calls come back in any order, some of
them after a breaker has changed state; pods crash in the middle of their start-up; a
shutdown meets requests that are still running; tests run on a repository that is not the
one in production. The list of hazards, each at its line and with the properties that
cover it, is in `PROJECT.json`.

What makes each component correct: election - one leader at a time, a new leader in the
end, a `Stop` that returns; tracking - what is watched is polled and stays cached, what
is not is forgotten; cycle - every order gets a position taken in this cycle, a failure costs
only the order it hits; queue - one sync per order, no lost mark, no stuck `Stop`;
breaker - one probe, fast rejection, recovery; pre-warming - the flag tells the truth and
nothing keeps a pod from serving; server - Redis outlives its users and the process ends;
in-memory repository - it answers as Redis does; load client - nothing is sent to a closed
channel, no request is lost or counted twice, and it ends.

## 2. Modules

| Module | Models | State and actions against the code |
|---|---|---|
| `Leadership` | the promise of the election | the set of leaders; `Elect` only when it is empty |
| `LeaderElection` | election, gate of the cycle, `Stop` | `owner`/`ttl` are the key; `elector` is where `runLeaderElection` is (`sent`, `granted`, `refused`: between sending, execution and reply of the call); `timer`/`tick` are the renew ticker and its channel, `age` the time an attempt has taken; `late` holds commands whose caller gave up; `phase` follows `Stop` line by line |
| `OrderTracking` | read path, registry, effect of the cycle on it | every Redis round trip is an action: `Get`, then `Refresh` or `Register`; `CycleBegin` (SMEMBERS), `CheckHeartbeat` (EXISTS), `RemoveDoomed` (SREM), `ListActive`, `WriteBatch` |
| `SyncCycle` | `SyncActiveOrders` and `SyncOrder` side by side | `todo`/`fetching` are the loop and the goroutines of a fetch pool, `known` are the orders in `orderToCourier`, `answer` is `courierCoordinates`; `sync` is where each `SyncOrder` is. The maps of a cycle are joined through `CourierOf`, as the code joins them: that they are joined correctly is not a result |
| `UrgentSync` | the queue, its consumer, its goroutines | `queue`, `inFlight`; `stage`/`job` are the holders of semaphore slots; the deferred calls are separate actions |
| `CircuitBreaker` | both breakers | the settings are those of the constructors, the machine is gobreaker's; a call admitted in an earlier generation is `stale`; after `Recover` only calls that were under way then (`old`) may fail |
| `PreWarm` | start-up of several pods | `phase` is the point of `main` a pod is at; failing pipelines leave any part of their work |
| `Serving` | one pod from its clients' side: requests, `main`, and `UrgentSync` under both | `step`/`request` are the handler of each connection, `main` the line `main` is at, `drained` whether `server.Shutdown` returned without error; an action of the queue is conjoined with what its caller does |
| `Repositories` | the Redis and the in-memory repository side by side | every operation is made on both; `r...` is Redis with the time left of each key, `m...` the memory with instants of expiry |
| `LoadClient` | the load client | `jobs` and `results` are the channels, closed when `dispatcher` has returned and `main` has left `workers`; the other variables are the points the goroutines are at |
| `MCLeaderElection`, `MCOrderTracking`, `MCSyncCycle`, `MCRepositories` | - | values of constants for TLC, and the conditions `Timely` and `Regular` as assumptions |
| `LeaderElection_proofs`, `OrderTracking_proofs`, `SyncCycle_proofs`, `Serving_proofs` (with those of `UrgentSync`), `CircuitBreaker_proofs`, `PreWarm_proofs`, `LoadClient_proofs`, `Repositories_proofs` | - | theorems |

The modules meet at these points. *Who* runs the cycle is `LeaderElection`; *which*
orders it polls is `OrderTracking`, where the fetching is one step with an arbitrary
result; *how* they are fetched is `SyncCycle`, where the active orders are arbitrary and
an upstream call succeeds or fails; whether it does is `CircuitBreaker`. That `SyncOrder`
runs at most once per order on a pod, which `SyncCycle` takes for granted (and which makes
`syncSF` redundant within the urgent path), is `OneSyncPerOrder` of `UrgentSync`.
`LeaderElection` implements `Leadership` under the mapping
`leaders <- {p \in Pods : Leading(p)}`. `Serving` composes the requests and `main` with
`UrgentSync`, whose environment they are, and implements it: `UrgentSync` alone lets
anybody trigger any order and call `Stop` at any time. What the other modules assume of
Redis is compared with the memory in `Repositories`, so that a test that passes on the
memory says something of Redis; the two places where it does not are `Stray` and
`Reentrant`.

## 3. Runs

Each run finishes within about two minutes. `P` marks runs that pass, `V` runs that find
the stated claim violated (section 6).

| Run | | Properties | Instance and why it is enough |
|---|---|---|---|
| `ElectionSafety` | P | `TypeOK`, `LeaseCoversFlag`, `AtMostOneLeader`, `LeaseEndsOnlyByExpiry`, `AbstractSpec` | two pods, one failing call, `LockTTL` 5, renewal every 2, delay 1: the least TTL that satisfies `Timely`, so that every unit of slack is used. One fault already gives a lost reply, a late command and a failed release; the proofs cover the rest |
| `ElectionLiveness` | P | `EventuallyStableLeader`, `StopTerminates` | two pods, one failing call, calls without duration but still interleaved: a key left behind by a crash, a stop or a lost reply is the case that matters |
| `Tracking` | P | `TypeOK`, `LiveIsTracked`, `WarmStaysWarm`, `WatchedIsServed`, `UnwatchedIsForgotten` | a watched order and one read once whose registration may be torn; one failing Redis call and one failing cycle in a row; TTLs just above what `Regular` asks for |
| `Cycle` | P | `TypeOK`, `CycleStoresItsOwn`, `ReliableIsLocated`, `CycleTerminates` | two orders with a courier each; two positions per courier, so that a stale one shows; one token, so that a lost one blocks the pool; one order and its courier are reliable, any other lookup may fail, and urgent syncs of the other order and a failing Redis call come in between |
| `Serving` | P | `ServingTypeOK`, `OneSyncPerOrder`, `MarkedIffBusy`, `ShutdownInOrder`, `QueuedIsServed`, `ShutdownTerminates` | three orders for a queue of two and two slots: the queue overflows and the slots run out. One connection that asks again and again reaches every order of triggers, because a trigger is one atomic step; a request running into each stage of the shutdown needs one only |
| `Breaker` | P | `TypeOK`, `OneProbe`, `OpenRejects`, `OnlyProbeDecides`, `Recovers` | four callers for a threshold of three, so that a call outlives its generation while others trip the breaker, also after the upstream has recovered |
| `PreWarming` | P | `TypeOK`, `FlagMeansRegistered`, `RestartsPreWarm`, `PodServes` | three pods, two orders, two faults: one pod fails, another crashes, a third takes over |
| `Client` | P | `TypeOK`, `EachRequestOnce`, `NoSendOnClosed`, `SummaryIsComplete`, `Terminates` | two workers, hence channels of four; six requests fill either channel with both workers busy. Both kinds of answer, one counted by its status and one without any |
| `Repositories` | P | `TypeOK`, `ItemsAgree`, `TrackingAgrees`, `LocksAgree` | an order of each kind, a lock of each kind, a key with and a key without a TTL, two pods; four units of time let every TTL of one run out, be set again and run out once more |
| `CycleOverlap` | V | `OneCycleAtATime` | two pods, no failure |
| `StopOrphansLock` | V | `StoppedPodHoldsNoLock` | two pods, no failure |
| `HitUntracked` | V | `HitIsTracked` | one order, location TTL above heartbeat TTL as in the defaults, no failure |

Bounds that are not in the code: `MaxFaults` (failing calls or crashes per behaviour),
`MaxDelay` (section 4), `MaxMisses` (cycles in a row that fail to locate an order),
`MaxReads` (reads of unwatched orders), `CycleTime` (time the fetches take), `MaxPosition`
(moves of a courier), `MaxTime` (length of a behaviour of `Repositories`). `Requests` is a
flag of the load client. TTLs and intervals are small numbers that keep the order relations
of the defaults. Deadlock is checked in every run.

## 4. What the results depend on

**`Timely`** (`RenewInterval + 2 * MaxDelay < LockTTL`). `tryLeaderElection` sets no
deadline on its call and the context it is given has none. `MaxDelay` is therefore an
assumption on the environment: the time from the tick that makes an attempt due to its
reply. With the defaults (10 s, 25 s) an attempt must take less than 7.5 s. If it takes
longer, a leader keeps `isLeader` set after its key has expired and two pods may lead;
`AtMostOneLeader` is claimed only below the bound. A late *command* is harmless: it is
modelled (`late`) and the owner comparison in the scripts stops it.

**Running pods.** `AtMostOneLeader` speaks of pods that are not shutting down. A stopping
pod has given its lock away and may still be polling; that is run `CycleOverlap`.

**`Regular`** (`OrderTracking`). Clients come back within the heartbeat, counting
refreshes that get lost; the location outlives the cycles that may fail; the registration
pipeline of a watched order is not torn. Each is needed. Cycles follow each other after a
`Period`: the poll interval, or the cycle time if that is longer, for then the next tick is
waiting when a cycle ends. It is not enough to count poll intervals: with cycles of 3, a poll
interval of 1, a location TTL of 6 and one cycle that misses the order, the location expires.
With the defaults (location 120 s, polls every 30 s) and one failing cycle to be survived a
cycle must take less than 40 s. TLC finds `LiveIsTracked`
violated if the registration of a watched order may be half executed (SADD without SET):
the cleaner looks, a second request registers the order, the cleaner removes it. The next
miss repairs it. The same happens to an order that is read between `EXISTS` and `SREM`
after its heartbeat ran out.

**Fairness.** Weak fairness of the goroutines: Go runs them, upstream clients return (the
simulated services by themselves after at most a few seconds, `SyncOrder` after 5 s), Redis
answers a call that does not fail. Actions of one goroutine exclude each other and share
one condition. Strong fairness of the exits (`ElectorExit`, `PollerExit`, `ConsumerExit`):
Go's `select` chooses at random among the ready cases, so a closed `stopChan` that is
ready again and again is taken in the end. Strong fairness of time in `OrderTracking`: a
request that is being handled stops the model's clock only for an instant. Of the
requests nothing is assumed: their Redis calls have no deadline of their own, and
`ShutdownTerminates` rests on the 10 s of `server.Shutdown` and the 5 s of `SyncOrder`
only. The goroutines of the load client run, and a request ends (`-timeout`). Nothing
is ever forced to call `Stop`, to send a signal or an interrupt, to crash or to fail; no
upstream call is assumed to succeed except those of `Reliable` in `SyncCycle` and those that
begin after `Recover` in `CircuitBreaker`;
no urgent sync is assumed to happen in `OrderTracking`. `WatchedIsServed` is forced through
the limit `MaxMisses`: a cycle may miss an order only so many times in a row.

## 5. Proofs

TLAPS checks these for every set of pods, orders, slots and callers and for all numbers
that satisfy the assumptions in the modules.

`LeaderElection_proofs`
* `TypeCorrect`: the type invariant.
* `LeaseEndsOnlyByExpiryCorrect`: the lease of a running pod ends by expiry only - without
  any assumption on timing. It needs `ControlInv`, which says that a pod that has not
  reached `Stop`'s release has no release under way, and what the states of the goroutines
  and of `Stop` exclude of each other.
* `LeaseCoversFlagCorrect` (assuming `Timely`): `LeaseCoversFlag` is inductive relative to
  `TypeOK` and `ControlInv`. It is what `AtMostOneLeader` lacks: it records that the
  remaining TTL exceeds the time to the next attempt plus the longest delay, that after
  the tick it exceeds what is left of that delay, and that a grant on its way back is as
  good as its age says. The proof has one lemma per kind of step: time
  (`TickCovered`), the pod's own election (`ElectionCovered`), its life (`LifeCovered`),
  late and releasing commands (`LateCovered`), steps of others (`OthersCovered`).
* `AtMostOneLeaderCorrect` (assuming `Timely`): two leaders would both own the key.
* `ImplementsLeadership` (assuming `Timely`): every step is an `Elect`, a `Resign` or
  leaves the leaders alone.

* `CycleBeginsUnderLease` (assuming `Timely`): what is left of the promise that run
  `CycleOverlap` refutes. A running pod *begins* a cycle only while the key is its own and
  no other running pod leads.

`OrderTracking_proofs`
* `TypeCorrect`: the type invariant, without assumptions on the regime.
* `LiveIsTrackedCorrect` (assuming `Regular`), from `TrackInv`: a watched order that has a
  heartbeat, a location or a place in a cycle is in the active set and not doomed, and its
  heartbeat is at least the TTL minus one `WatchGap` per failed call minus the time since
  its client last came. So a failed refresh is paid for when it fails (`FaultPays`), and
  time takes from the heartbeat what it adds to that time (`TickTracked`); the cleaner
  finds the heartbeat alive (`AliveHeartbeat`, `CycleStep`).
* `WarmStaysWarmCorrect` (assuming `Regular`), from `WarmInv` on top of `TrackInv`: a cached
  location outlives the time until the next batch can write it (`UntilWrite`) and one
  `Period` for every cycle that may still miss the order or fail. A batch sets the
  location to its TTL or takes one from that reserve (`WriteBatchWarm`). `PaceInv` says how
  far ahead the ticker can be.

`SyncCycle_proofs`
* `TypeCorrect`: with it, that no more upstream calls are under way than
  `WorkerConcurrency`. It needs `LoopInv`: what each loop hands out are orders that miss
  their courier, or couriers, and only finitely many are under way at a time.
* `CycleStoresItsOwnCorrect`, from `FreshInv`: a position fetched lies between where the
  courier was when the cycle began and where it is now. Only the batch leaves `write`.
* `CacheIsGenuineCorrect`: cycles and urgent syncs write the same keys in any order;
  whoever was last, an order's location is one its courier has been at.

`Serving_proofs`, of the urgent queue (`UrgentSync`)
* `TypeCorrect`; `OneSyncPerOrderCorrect` and `MarkedIffBusyCorrect`, both from `MarkInv`:
  the two properties need each other (a mark may be deleted only because no other
  goroutine has the order; there is no other because the order was marked), and both need
  that the order in the consumer's hands is not yet worked on while it waits for a slot.

`Serving_proofs`, of the pod
* `ServingImplementsUrgentSync`: requests, `main` and the worker reach the queue by the
  actions of `UrgentSync` only. Every step of the pod is one of the queue or leaves it
  alone; `HandlerInv` supplies that what a handler triggers is an order.
* `ServingTypeCorrect`; `ServingOneSyncPerOrder` and `ServingMarkedIffBusy`, which follow
  from the refinement and the theorems about the queue.
* `ShutdownInOrderCorrect`: not inductive by itself, since `redisClient.Close` is safe only
  because a returned `Stop` has left neither the consumer nor a goroutine behind. That is
  `Quiet`, an invariant of `UrgentSync` that the refinement carries over.

`CircuitBreaker_proofs`
* `TypeCorrect`; `OneProbeCorrect`, strengthened by `ProbesInv` (no probe is counted
  outside half-open); from it `OpenRejectsCorrect` and `OnlyProbeDecidesCorrect`: an open
  breaker has no current call whose return could close it, and in half-open only the
  probe is one.
* `SettledForGood`, the safety half of `Recovers`: calls that were under way when the
  upstream recovered may still fail, and enough of them trip a closed breaker once more.
  `Settled` says that the failures counted and the current calls of that kind are together
  below the threshold; it is preserved because a failure that is counted is a call that is no
  longer outstanding (`SettledStep`, `OutstandingCount`), and calls of earlier generations do
  not count. Callers are finitely many.

`PreWarm_proofs`
* `TypeCorrect` and `FlagMeansRegisteredCorrect`, from `PipelineInv`: a pod that is past the
  pipeline has seen all orders registered. Without it neither is inductive: the flag is
  set two calls later, when everything may have expired again.

`LoadClient_proofs`
* `TypeCorrect`, with `HandInv`: a worker has a number exactly from taking a job to sending
  its result.
* `EachRequestOnceCorrect`: `EachRequestOnce` counts all places together, which no step
  preserves by itself. `OnceInv` says that each queue and the workers' hands hold a number
  once and that no two places share one; `PlacedInv` says which numbers are placed at each
  point of the dispatcher. Each step that moves a number has its lemma (`SendMoves`,
  `TakeMoves`, `ResultMoves`, `RecordMoves`), resting on what a send and a receive do to a
  queue of distinct numbers (`PutOn`, `TakeOff`, `NumbersQueue`). The count then follows
  from cardinalities (`QueueCardinality`, `HandCardinality`, `ApartCardinality`).
* `NoSendOnClosedCorrect`, from `EndInv`: the goroutines end one after the other, without
  an interrupt the workers only after the dispatcher and with an empty queue.
* `SummaryIsCompleteCorrect`: at the summary hands and results are empty, so that what was
  placed is recorded or still queued; `TallyInv` says that the counters add up.

`Repositories_proofs`
* `TypeCorrect`; `ItemsAgreeCorrect`, `TrackingAgreesCorrect` and `LocksAgreeCorrect`, for
  any TTLs, all from one invariant: `Same` says that a time left in Redis and an instant of
  expiry in memory mean the same, and that what the memory still keeps although Redis has
  dropped it has expired. `SameLater` shows that time preserves it, and one lemma per kind
  of call (`SetItems`, `RegisterOrders`, `RemoveOrders`, `LockCalls`) that the calls do.

Every invariant and every action property that a passing run checks is proved. Only
model-checked are the liveness properties (`EventuallyStableLeader`, `StopTerminates`,
`WatchedIsServed`, `UnwatchedIsForgotten`, `QueuedIsServed`, `ShutdownTerminates`,
`ReliableIsLocated`, `CycleTerminates`, `Recovers`, `RestartsPreWarm`, `PodServes`,
`Terminates`): liveness under fairness is out of the prover's reach. The inductive
invariants of `OrderTracking`, `SyncCycle`, `PreWarm` and `LoadClient` were model-checked on
small instances before they were proved.

## 6. Where code and documentation part

Three claims are refuted by runs; `PROJECT.json` quotes them. `Stop` deletes the lock before
its own cycle has ended (`poller_worker.go:111` against 5-6). `Stop` looks at `isLeader`
once, while an acquisition may be under way (109 against 102). A cache hit does not mean
that the order is tracked (`location_service.go:69-71`).

Others are plain from reading and have no run of their own:
* `RegisterActiveOrder` is a pipeline, not a transaction (`redis_cache.go:139`, against the
  comment at 135-137 that calls it atomic and concludes that an order in the set always had
  a heartbeat): `OrderTracking` lets it be torn (`Split`);
* a full urgent queue drops any order, not only a duplicate (`poller_service.go:72-78`);
* `last_sync` is stamped by cycles that located nothing (213 and 253, against
  `redis_cache.go:236`);
* the cycle asks the Order Service without `orderSF` (283, against 44);
* pods that start together all pre-warm (`main.go:143-154`, against
  `cache_interface.go:48-49`);
* to the breaker an unknown order is a failure like any other, so enough lookups of unknown
  orders trip it (`circuit_breaker.go:47`, no `IsSuccessful`, against
  `docs/ARCHITECTURE_AND_OPERATION.md:646`);
* `X-Response-Time` is set after the handler has written its status
  (`latency_logger.go:55`), too late for the header to be sent;
* the load client takes the pause `interval / threads` between any two requests
  (`cmd/client/main.go:300`, against the flag's text at 176): with 50 orders, 5 threads and
  30 s an order is asked for every 300 s, which is longer than its heartbeat of 90 s.

The memory and Redis differ, beyond what the modules leave out, in three places. A refresh
adds the order to the memory's registry but not to Redis' (`memory_cache.go:155`), so the
situation of run `HitUntracked` cannot arise in a test on the memory. The memory grants a lock
to the pod that has it already (214), `SET NX` does not. `HEARTBEAT_TTL=0` ends at once in
the memory and never in Redis (138). The first two are `Stray` and `Reentrant`; the last is
excluded by `RepositoryAssumption`.

## 7. Plan

Done, in this order: `LeaderElection` with `Leadership` and its proofs; `OrderTracking`;
`UrgentSync` with proofs; `CircuitBreaker` with proofs; `SyncCycle`; `PreWarm`; `LoadClient`;
`Repositories` with proofs; `Serving`, composed with `UrgentSync`, with proofs; the proofs
of `OrderTracking`, `SyncCycle`, `PreWarm` and `LoadClient`.

Next:
1. What a cycle that outlives its pod's lease may still write: bound the overlap of cycles
   that `CycleOverlap` shows by what `CycleBeginsUnderLease` leaves.
2. A specification of the cache as clients see it, implemented by `SyncCycle`: of each
   order nothing, or a position its courier has been at, and a cycle's write never older
   than the cycle. `CacheIsGenuine` and `FreshInv` are the invariants it needs.
3. A specification of the load client as a counter of requests, implemented by
   `LoadClient`; `OnceInv` is the invariant it needs.

## 8. Not modelled

* `internal/handler/middleware`: trace ids, counters and the recovery from panics (no
  handler of this code panics) keep nothing another step could see; `Serving` only counts
  `LatencyLogger`'s end as part of a request. Status codes, headers and bodies of the
  handlers likewise.
* The simulated upstreams beyond what their callers can observe: latencies and chaos
  parameters are the nondeterminism of `SyncCycle` and `CircuitBreaker`; `orders.yml` is the
  constant `Orders`.
* `internal/telemetry`: write-only counters. `internal/domain`: plain records.
* `internal/config`: the values are the constants; that they are not validated is listed
  as a hazard (`WORKER_CONCURRENCY=0` would block every fetch; the models assume one token).
* A load client without a limit (`-requests 0`), its latencies and its printed lines.
* Several requests for one order at a time: in `OrderTracking` they come one after another,
  those for different orders interleave. In `Serving` they do run side by side.
* A standby's poll ticks: `OrderTracking` follows the one pod that polls, from a start with
  or without an initial cycle; who that is, is `LeaderElection`.
* A listener that fails after it was bound, or whose port is found taken only after the
  signal: `Serving` lets `ListenAndServe` fail while the process starts, with the same
  effect, an exit without `Stop`.
* Contents of locations: a position is a number in the order the courier took it;
  formats, JSON and logging are left out. `deploy/`: manifests and dashboards.
* A worker without a repository (`poller_worker.go:87-90`) and the cancellation of
  the workers' context, which `main.go` does only after `Stop` has returned.

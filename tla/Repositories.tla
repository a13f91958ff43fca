---------------------------- MODULE Repositories ----------------------------
(***************************************************************************)
(* The two implementations of LocationCacheRepository side by side: the    *)
(* one production runs on (src/internal/repository/cache/redis_cache.go)   *)
(* and the one tests and benchmarks run on (memory_cache.go).  Every call  *)
(* is made to both, one call at a time, and no Redis call fails; failing   *)
(* and interleaved Redis calls are in LeaderElection and OrderTracking.    *)
(*                                                                         *)
(* Redis counts a key's time to live down and drops the key; the memory    *)
(* keeps the instant of expiry and looks at it when asked.  A key is alive *)
(* up to and including the instant of its expiry.                          *)
(*                                                                         *)
(* The calls differ in two places.  Stray is the set of orders that may be *)
(* refreshed while Redis does not track them, Reentrant the set of locks   *)
(* that may be acquired by the pod that has them.                          *)
(***************************************************************************)
EXTENDS Integers

CONSTANTS
    Orders, Pods,
    Locks,         \* the lock keys
    Keys,          \* the other keys: locations, mappings, last_sync, prewarmed
    KeyTTL,        \* the TTL each of these is set with, 0 for none
    MappingKey,    \* the mapping key of each order
    Values,        \* what a key may hold
    HeartbeatTTL, LockTTL,
    Stray, Reentrant,
    MaxTime        \* bound on the time a behaviour takes

ASSUME RepositoryAssumption ==
    /\ KeyTTL \in [Keys -> Nat]
    /\ MappingKey \in [Orders -> Keys]
    /\ HeartbeatTTL \in Nat \ {0} /\ LockTTL \in Nat \ {0}
    /\ Stray \subseteq Orders /\ Reentrant \subseteq Locks
    /\ MaxTime \in Nat

Nothing == "nothing"  \* value and owner of a key never set

Gone == -1     \* no such key, no such map entry
Forever == -2  \* no expiry: TTL 0 in Redis, the zero time.Time in memory

VARIABLES
    now,
    rValue, rTTL,      \* Redis: value and time left of each key
    rActive, rBeat,    \* tracking:active_orders; time left of the heartbeats
    rOwner, rLease,    \* holder of each lock and time left
    mValue, mExpires,  \* memory: locations, courierMaps, lastSync, preWarmed
    mBeat,             \* activeOrders: expiry of each entry
    mOwner, mLease     \* leaderLocks: holder and expiry

rVars == <<rValue, rTTL, rActive, rBeat, rOwner, rLease>>
mVars == <<mValue, mExpires, mBeat, mOwner, mLease>>
vars == <<now, rVars, mVars>>

UpTo(ttl) == {Gone} \cup 0..ttl
Within(ttl) == {Gone} \cup 0..(now + ttl)

ItemTypes ==
    /\ {rValue, mValue} \subseteq [Keys -> Values \cup {Nothing}]
    /\ rTTL \in [Keys -> Nat \cup {Gone, Forever}]
    /\ \A k \in Keys : rTTL[k] \in UpTo(KeyTTL[k]) \cup {Forever}
    /\ mExpires \in [Keys -> Nat \cup {Gone, Forever}]
    /\ \A k \in Keys : mExpires[k] \in Within(KeyTTL[k]) \cup {Forever}

TrackTypes ==
    /\ rActive \subseteq Orders
    /\ rBeat \in [Orders -> UpTo(HeartbeatTTL)]
    /\ mBeat \in [Orders -> Within(HeartbeatTTL)]

LockTypes ==
    /\ {rOwner, mOwner} \subseteq [Locks -> Pods \cup {Nothing}]
    /\ rLease \in [Locks -> UpTo(LockTTL)]
    /\ mLease \in [Locks -> Within(LockTTL)]

TypeOK ==
    /\ now \in 0..MaxTime
    /\ ItemTypes /\ TrackTypes /\ LockTypes

Init ==
    /\ now = 0
    /\ rValue = [k \in Keys |-> Nothing] /\ mValue = rValue
    /\ rTTL = [k \in Keys |-> Gone]
    /\ mExpires = [k \in Keys |-> Gone]
    /\ rActive = {}
    /\ rBeat = [o \in Orders |-> Gone]
    /\ mBeat = [o \in Orders |-> Gone]
    /\ rOwner = [l \in Locks |-> Nothing] /\ mOwner = rOwner
    /\ rLease = [l \in Locks |-> Gone]
    /\ mLease = [l \in Locks |-> Gone]
-----------------------------------------------------------------------------
Live(expiry) == expiry = Forever \/ expiry >= now  \* not isExpired
Update(f, w) == [x \in DOMAIN f |-> IF x \in DOMAIN w THEN w[x] ELSE f[x]]

items == <<rValue, rTTL, mValue, mExpires>>
tracking == <<rActive, rBeat, mBeat>>
leases == <<rOwner, rLease, mOwner, mLease>>

(***************************************************************************)
(* Locations, mappings, last_sync, prewarmed: w holds the value of each    *)
(* key that one call writes; a call writes all of them with one TTL.       *)
(***************************************************************************)
RedisSet(w) ==
    /\ rValue' = Update(rValue, w)
    /\ rTTL' = Update(rTTL, [k \in DOMAIN w |-> IF KeyTTL[k] = 0 THEN Forever ELSE KeyTTL[k]])

MemorySetExpiring(w) ==
    /\ mValue' = Update(mValue, w)
    /\ mExpires' = Update(mExpires, [k \in DOMAIN w |-> now + KeyTTL[k]])

MemorySet(w) ==
    /\ mValue' = Update(mValue, w)
    /\ mExpires' = Update(mExpires,
                          [k \in DOMAIN w |-> IF KeyTTL[k] > 0 THEN now + KeyTTL[k] ELSE Forever])

Set ==
    /\ \E ks \in SUBSET Keys \ {{}} :
          /\ \A j, k \in ks : KeyTTL[j] = KeyTTL[k]
          /\ \E w \in [ks -> Values] : RedisSet(w) /\ MemorySet(w)
    /\ UNCHANGED <<now, tracking, leases>>
-----------------------------------------------------------------------------
(***************************************************************************)
(* Tracking of active orders.                                              *)
(***************************************************************************)
RedisRegister(os) ==
    /\ rActive' = rActive \cup os
    /\ rBeat' = Update(rBeat, [o \in os |-> HeartbeatTTL])

MemoryRegister(os) == mBeat' = Update(mBeat, [o \in os |-> now + HeartbeatTTL])

RegisterActiveOrder ==
    /\ \E o \in Orders : RedisRegister({o}) /\ MemoryRegister({o})
    /\ UNCHANGED <<now, items, leases>>

RedisRefresh(o) ==
    /\ rBeat' = [rBeat EXCEPT ![o] = HeartbeatTTL]
    /\ UNCHANGED rActive

\* The same assignment as registering: it adds an order that was removed.
MemoryRefresh(o) == MemoryRegister({o})

RefreshOrderHeartbeat ==
    /\ \E o \in rActive \cup Stray : RedisRefresh(o) /\ MemoryRefresh(o)
    /\ UNCHANGED <<now, items, leases>>

RedisRemove ==
    /\ rActive' = {o \in rActive : rBeat[o] # Gone}
    /\ UNCHANGED rBeat

MemoryRemoveAtExpiry == mBeat' = [o \in Orders |-> IF mBeat[o] <= now THEN Gone ELSE mBeat[o]]

MemoryRemove == mBeat' = [o \in Orders |-> IF Live(mBeat[o]) THEN mBeat[o] ELSE Gone]

RemoveInactiveOrders ==
    /\ RedisRemove /\ MemoryRemove
    /\ UNCHANGED <<now, items, leases>>

\* w holds the courier of each order; an empty batch changes nothing.
PreWarmOrders ==
    /\ \E os \in SUBSET Orders \ {{}} : \E w \in [{MappingKey[o] : o \in os} -> Values] :
          /\ RedisRegister(os) /\ MemoryRegister(os)
          /\ RedisSet(w) /\ MemorySet(w)
    /\ UNCHANGED <<now, leases>>
-----------------------------------------------------------------------------
(***************************************************************************)
(* The leader lock: SET NX EX and two scripts against a map of locks.      *)
(***************************************************************************)
RedisAcquire(l, p) ==
    IF rLease[l] = Gone
      THEN rOwner' = [rOwner EXCEPT ![l] = p] /\ rLease' = [rLease EXCEPT ![l] = LockTTL]
      ELSE UNCHANGED <<rOwner, rLease>>

MemoryAcquireStacks(l, p) ==
    IF ~Live(mLease[l]) \/ mOwner[l] = p
      THEN /\ mOwner' = [mOwner EXCEPT ![l] = p]
           /\ mLease' = [mLease EXCEPT ![l] = (IF Live(@) THEN @ ELSE now) + LockTTL]
      ELSE UNCHANGED <<mOwner, mLease>>

\* Free, expired, or the caller's own: the last is granted again, and longer.
MemoryAcquire(l, p) ==
    IF ~Live(mLease[l]) \/ mOwner[l] = p
      THEN mOwner' = [mOwner EXCEPT ![l] = p] /\ mLease' = [mLease EXCEPT ![l] = now + LockTTL]
      ELSE UNCHANGED <<mOwner, mLease>>

AcquireLeaderLock ==
    /\ \E l \in Locks, p \in Pods :
          /\ rLease[l] # Gone /\ rOwner[l] = p => l \in Reentrant
          /\ RedisAcquire(l, p) /\ MemoryAcquire(l, p)
    /\ UNCHANGED <<now, items, tracking>>

RedisRenew(l, p) ==
    /\ rLease' = IF rLease[l] # Gone /\ rOwner[l] = p
                   THEN [rLease EXCEPT ![l] = LockTTL] ELSE rLease
    /\ UNCHANGED rOwner

MemoryRenew(l, p) ==
    /\ mLease' = IF Live(mLease[l]) /\ mOwner[l] = p
                   THEN [mLease EXCEPT ![l] = now + LockTTL] ELSE mLease
    /\ UNCHANGED mOwner

RenewLeaderLock ==
    /\ \E l \in Locks, p \in Pods : RedisRenew(l, p) /\ MemoryRenew(l, p)
    /\ UNCHANGED <<now, items, tracking>>

RedisRelease(l, p) ==
    /\ rLease' = IF rOwner[l] = p THEN [rLease EXCEPT ![l] = Gone] ELSE rLease
    /\ UNCHANGED rOwner

MemoryReleaseAny(l, p) ==
    /\ mLease' = [mLease EXCEPT ![l] = Gone]
    /\ UNCHANGED mOwner

\* Also when the lock has expired.
MemoryRelease(l, p) ==
    /\ mLease' = IF mOwner[l] = p THEN [mLease EXCEPT ![l] = Gone] ELSE mLease
    /\ UNCHANGED mOwner

ReleaseLeaderLock ==
    /\ \E l \in Locks, p \in Pods : RedisRelease(l, p) /\ MemoryRelease(l, p)
    /\ UNCHANGED <<now, items, tracking>>
-----------------------------------------------------------------------------
CountDown(f) == [x \in DOMAIN f |-> IF f[x] = Forever THEN Forever ELSE IF f[x] = Gone THEN Gone ELSE f[x] - 1]

Tick ==
    /\ now < MaxTime
    /\ now' = now + 1
    /\ rTTL' = CountDown(rTTL)
    /\ rBeat' = CountDown(rBeat)
    /\ rLease' = CountDown(rLease)
    /\ UNCHANGED <<rValue, rActive, rOwner, mVars>>

Next ==
    \/ Set
    \/ RegisterActiveOrder \/ RefreshOrderHeartbeat \/ RemoveInactiveOrders \/ PreWarmOrders
    \/ AcquireLeaderLock \/ RenewLeaderLock \/ ReleaseLeaderLock
    \/ Tick

Spec == Init /\ [][Next]_vars
-----------------------------------------------------------------------------
RedisGet(k) == IF rTTL[k] = Gone THEN Gone ELSE rValue[k]         \* Gone: ErrCacheMiss
MemoryGet(k) == IF Live(mExpires[k]) THEN mValue[k] ELSE Gone

RedisTracks(o) == o \in rActive        \* GetActiveOrderIDs returns o
MemoryTracks(o) == mBeat[o] # Gone

RedisHolder(l) == IF rLease[l] = Gone THEN Gone ELSE rOwner[l]
MemoryHolder(l) == IF Live(mLease[l]) THEN mOwner[l] ELSE Gone

(***************************************************************************)
(* A read of a location, a mapping, last_sync or the pre-warm flag answers *)
(* the same from both at every instant, though the memory never removes an *)
(* expired item (memory_cache.go:18-23, redis_cache.go:51-54).             *)
(***************************************************************************)
ItemsAgree == \A k \in Keys : RedisGet(k) = MemoryGet(k)

(***************************************************************************)
(* The poller polls the same orders on both, one map with expiry times     *)
(* standing for Redis' set and its heartbeat keys, as long as nobody       *)
(* refreshes an order that is not tracked.  With such refreshes the memory *)
(* tracks more orders, never fewer (memory_cache.go:134-175).              *)
(***************************************************************************)
TrackingAgrees ==
    \A o \in Orders :
        /\ rBeat[o] # Gone <=> Live(mBeat[o])
        /\ RedisTracks(o) => MemoryTracks(o)
        /\ MemoryTracks(o) => RedisTracks(o) \/ o \in Stray

(***************************************************************************)
(* At every instant the same pod has the lock on both, so an election      *)
(* takes the same course, as long as no pod acquires the lock it still has *)
(* (memory_cache.go:200-257, redis_cache.go:266-312).                      *)
(***************************************************************************)
LocksAgree == \A l \in Locks \ Reentrant : RedisHolder(l) = MemoryHolder(l)
=============================================================================

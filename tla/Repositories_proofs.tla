------------------------ MODULE Repositories_proofs ------------------------
(***************************************************************************)
(* Proofs about Repositories: for any keys, orders, locks, pods and TTLs   *)
(* and any sequence of calls the two repositories answer alike, but for    *)
(* the calls named by Stray and Reentrant.                                 *)
(***************************************************************************)
EXTENDS Repositories, TLAPS

(***************************************************************************)
(* A time left in Redis and an instant of expiry in memory mean the same.  *)
(* What the memory keeps although it has expired is Gone in Redis.         *)
(***************************************************************************)
Same(left, expiry) ==
    \/ left = Forever /\ expiry = Forever
    \/ left \in Nat /\ expiry = now + left
    \/ left = Gone /\ expiry \in Nat \cup {Gone} /\ expiry < now

ItemInv ==
    \A k \in Keys :
        /\ Same(rTTL[k], mExpires[k])
        /\ rTTL[k] # Gone => rValue[k] = mValue[k]

TrackInv ==
    \A o \in Orders :
        /\ Same(rBeat[o], mBeat[o])
        /\ o \in rActive => mBeat[o] # Gone
        /\ mBeat[o] # Gone => o \in rActive \/ o \in Stray

LockInv ==
    \A l \in Locks \ Reentrant :
        /\ Same(rLease[l], mLease[l])
        /\ rLease[l] # Gone => rOwner[l] = mOwner[l]

\* An entry is alive in memory exactly if Redis still has its key.
LEMMA SameAlive ==
    ASSUME now \in Nat, NEW left, NEW expiry, Same(left, expiry)
    PROVE  left # Gone <=> Live(expiry)
BY DEF Same, Live, Gone, Forever

\* Time does not set them apart.
LEMMA SameLater ==
    ASSUME now \in Nat, now' = now + 1, NEW left, NEW expiry, Same(left, expiry)
    PROVE  LET after == IF left = Forever THEN Forever ELSE IF left = Gone THEN Gone ELSE left - 1
           IN  \/ after = Forever /\ expiry = Forever
               \/ after \in Nat /\ expiry = now' + after
               \/ after = Gone /\ expiry \in Nat \cup {Gone} /\ expiry < now'
<1>1. CASE left = Forever
  BY <1>1 DEF Same, Gone, Forever
<1>2. CASE left = Gone
  BY <1>2 DEF Same, Gone, Forever
<1>3. CASE left \in Nat
  BY <1>3 DEF Same, Gone, Forever
<1>4. QED
  BY <1>1, <1>2, <1>3 DEF Same

-----------------------------------------------------------------------------
\* The calls that write items write the same to both.
LEMMA SetItems ==
    ASSUME TypeOK, ItemInv, NEW w, DOMAIN w \subseteq Keys, RedisSet(w), MemorySet(w), UNCHANGED now
    PROVE  ItemInv'
<1> USE RepositoryAssumption DEF TypeOK, ItemTypes, Update
<1>1. ASSUME NEW k \in Keys
      PROVE  Same(rTTL[k], mExpires[k])' /\ (rTTL'[k] # Gone => rValue'[k] = mValue'[k])
  <2>1. CASE k \in DOMAIN w
    <3>1. rValue'[k] = w[k] /\ mValue'[k] = w[k]
      BY <2>1 DEF RedisSet, MemorySet
    <3>2. /\ rTTL'[k] = IF KeyTTL[k] = 0 THEN Forever ELSE KeyTTL[k]
          /\ mExpires'[k] = IF KeyTTL[k] > 0 THEN now + KeyTTL[k] ELSE Forever
      BY <2>1 DEF RedisSet, MemorySet
    <3>3. KeyTTL[k] \in Nat
      OBVIOUS
    <3>4. QED
      BY <3>1, <3>2, <3>3 DEF Same
  <2>2. CASE k \notin DOMAIN w
    <3>1. /\ rValue'[k] = rValue[k] /\ mValue'[k] = mValue[k]
          /\ rTTL'[k] = rTTL[k] /\ mExpires'[k] = mExpires[k]
      BY <2>2 DEF RedisSet, MemorySet
    <3>2. QED
      BY <3>1 DEF ItemInv, Same
  <2>3. QED
    BY <2>1, <2>2
<1>2. QED
  BY <1>1 DEF ItemInv

\* What they write has the right type.
LEMMA SetTypes ==
    ASSUME TypeOK, NEW ks \in SUBSET Keys, NEW w \in [ks -> Values],
           RedisSet(w), MemorySet(w), UNCHANGED now
    PROVE  ItemTypes'
<1> USE RepositoryAssumption DEF TypeOK, ItemTypes, Update
<1>1. rValue' \in [Keys -> Values \cup {Nothing}] /\ mValue' \in [Keys -> Values \cup {Nothing}]
  BY DEF RedisSet, MemorySet
<1>2. /\ rTTL' \in [Keys -> Nat \cup {Gone, Forever}]
      /\ \A k \in Keys : rTTL'[k] \in UpTo(KeyTTL[k]) \cup {Forever}
  BY DEF RedisSet, UpTo
<1>3. /\ mExpires' \in [Keys -> Nat \cup {Gone, Forever}]
      /\ \A k \in Keys : mExpires'[k] \in Within(KeyTTL[k])' \cup {Forever}
  BY DEF MemorySet, Within
<1>4. QED
  BY <1>1, <1>2, <1>3

\* Registering, and refreshing, which adds nothing to Redis' set.
LEMMA RegisterOrders ==
    ASSUME TypeOK, TrackInv, NEW os \in SUBSET Orders, UNCHANGED now, MemoryRegister(os),
           RedisRegister(os) \/ (os \subseteq rActive \cup Stray /\ UNCHANGED rActive
                                 /\ rBeat' = Update(rBeat, [o \in os |-> HeartbeatTTL]))
    PROVE  TrackInv' /\ TrackTypes'
<1> USE RepositoryAssumption DEF TypeOK, TrackTypes
<1>1. rBeat' = Update(rBeat, [o \in os |-> HeartbeatTTL])
  BY DEF RedisRegister
<1>2. rBeat' \in [Orders -> UpTo(HeartbeatTTL)] /\ mBeat' \in [Orders -> Within(HeartbeatTTL)']
  BY <1>1 DEF MemoryRegister, Update, UpTo, Within
<1>3. ASSUME NEW o \in Orders
      PROVE  /\ Same(rBeat[o], mBeat[o])'
             /\ o \in rActive' => mBeat'[o] # Gone
             /\ mBeat'[o] # Gone => o \in rActive' \/ o \in Stray
  <2>1. CASE o \in os
    <3>1. rBeat'[o] = HeartbeatTTL /\ mBeat'[o] = now + HeartbeatTTL
      BY <1>1, <2>1 DEF MemoryRegister, Update
    <3>2. o \in rActive' \/ o \in Stray
      BY <2>1 DEF RedisRegister
    <3>3. QED
      BY <3>1, <3>2 DEF Same, Gone
  <2>2. CASE o \notin os
    <3>1. rBeat'[o] = rBeat[o] /\ mBeat'[o] = mBeat[o]
      BY <1>1, <2>2 DEF MemoryRegister, Update
    <3>2. o \in rActive' <=> o \in rActive
      BY <2>2 DEF RedisRegister
    <3>3. QED
      BY <3>1, <3>2 DEF TrackInv, Same
  <2>3. QED
    BY <2>1, <2>2
<1>4. QED
  BY <1>2, <1>3 DEF TrackInv, RedisRegister

\* Removing drops from both what has no heartbeat left.
LEMMA RemoveOrders ==
    ASSUME TypeOK, TrackInv, RemoveInactiveOrders
    PROVE  TrackInv' /\ TrackTypes'
<1> USE DEF TypeOK, TrackTypes, RemoveInactiveOrders, RedisRemove, MemoryRemove
<1>1. TrackTypes'
  BY DEF Within
<1>2. ASSUME NEW o \in Orders
      PROVE  /\ Same(rBeat[o], mBeat[o])'
             /\ o \in rActive' => mBeat'[o] # Gone
             /\ mBeat'[o] # Gone => o \in rActive' \/ o \in Stray
  <2>1. /\ Same(rBeat[o], mBeat[o])
        /\ o \in rActive => mBeat[o] # Gone
        /\ mBeat[o] # Gone => o \in rActive \/ o \in Stray
    BY DEF TrackInv
  <2>2. rBeat[o] # Gone <=> Live(mBeat[o])
    BY <2>1, SameAlive
  <2>3. CASE Live(mBeat[o])
    <3>1. mBeat'[o] = mBeat[o] /\ rBeat'[o] = rBeat[o] /\ (o \in rActive' <=> o \in rActive)
      BY <2>2, <2>3
    <3>2. QED
      BY <2>1, <3>1 DEF Same
  <2>4. CASE ~Live(mBeat[o])
    <3>1. mBeat'[o] = Gone /\ rBeat'[o] = Gone /\ o \notin rActive'
      BY <2>2, <2>4
    <3>2. QED
      BY <3>1 DEF Same, Gone
  <2>5. QED
    BY <2>3, <2>4
<1>3. QED
  BY <1>1, <1>2 DEF TrackInv

\* What the two locks say before and after a call agree, but on a Reentrant lock.
LEMMA LockCalls ==
    ASSUME TypeOK, LockInv, AcquireLeaderLock \/ RenewLeaderLock \/ ReleaseLeaderLock
    PROVE  LockInv' /\ LockTypes'
<1> USE RepositoryAssumption DEF TypeOK, LockTypes
<1>1. CASE AcquireLeaderLock
  <2>1. PICK l \in Locks, p \in Pods :
            /\ rLease[l] # Gone /\ rOwner[l] = p => l \in Reentrant
            /\ RedisAcquire(l, p) /\ MemoryAcquire(l, p)
    BY <1>1 DEF AcquireLeaderLock
  <2>2. UNCHANGED now
    BY <1>1 DEF AcquireLeaderLock
  <2>3. LockTypes'
    BY <2>1, <2>2 DEF RedisAcquire, MemoryAcquire, UpTo, Within
  <2>4. ASSUME NEW k \in Locks \ Reentrant
        PROVE  Same(rLease[k], mLease[k])' /\ (rLease'[k] # Gone => rOwner'[k] = mOwner'[k])
    <3>1. Same(rLease[k], mLease[k]) /\ (rLease[k] # Gone => rOwner[k] = mOwner[k])
      BY DEF LockInv
    <3>2. rLease[k] # Gone <=> Live(mLease[k])
      BY <3>1, SameAlive
    <3>3. CASE k = l /\ rLease[k] = Gone
      <4>1. /\ rLease'[k] = LockTTL /\ rOwner'[k] = p
            /\ mLease'[k] = now + LockTTL /\ mOwner'[k] = p
        BY <2>1, <3>2, <3>3 DEF RedisAcquire, MemoryAcquire
      <4>2. QED
        BY <2>2, <4>1 DEF Same
    <3>4. CASE k # l \/ rLease[k] # Gone
      <4>1. /\ rLease'[k] = rLease[k] /\ rOwner'[k] = rOwner[k]
            /\ mLease'[k] = mLease[k] /\ mOwner'[k] = mOwner[k]
        BY <2>1, <3>1, <3>2, <3>4 DEF RedisAcquire, MemoryAcquire
      <4>2. QED
        BY <2>2, <3>1, <4>1 DEF Same
    <3>5. QED
      BY <3>3, <3>4
  <2>5. QED
    BY <2>3, <2>4 DEF LockInv
<1>2. CASE RenewLeaderLock
  <2>1. PICK l \in Locks, p \in Pods : RedisRenew(l, p) /\ MemoryRenew(l, p)
    BY <1>2 DEF RenewLeaderLock
  <2>2. UNCHANGED now
    BY <1>2 DEF RenewLeaderLock
  <2>3. LockTypes'
    BY <2>1, <2>2 DEF RedisRenew, MemoryRenew, UpTo, Within
  <2>4. ASSUME NEW k \in Locks \ Reentrant
        PROVE  Same(rLease[k], mLease[k])' /\ (rLease'[k] # Gone => rOwner'[k] = mOwner'[k])
    <3>1. Same(rLease[k], mLease[k]) /\ (rLease[k] # Gone => rOwner[k] = mOwner[k])
      BY DEF LockInv
    <3>2. rLease[k] # Gone <=> Live(mLease[k])
      BY <3>1, SameAlive
    <3>3. rOwner'[k] = rOwner[k] /\ mOwner'[k] = mOwner[k]
      BY <2>1 DEF RedisRenew, MemoryRenew
    <3>4. CASE k = l /\ rLease[k] # Gone /\ rOwner[k] = p
      <4>1. rLease'[k] = LockTTL /\ mLease'[k] = now + LockTTL
        BY <2>1, <3>1, <3>2, <3>4 DEF RedisRenew, MemoryRenew
      <4>2. QED
        BY <2>2, <3>1, <3>3, <3>4, <4>1 DEF Same
    <3>5. CASE ~(k = l /\ rLease[k] # Gone /\ rOwner[k] = p)
      <4>1. rLease'[k] = rLease[k] /\ mLease'[k] = mLease[k]
        BY <2>1, <3>1, <3>2, <3>5 DEF RedisRenew, MemoryRenew
      <4>2. QED
        BY <2>2, <3>1, <3>3, <4>1 DEF Same
    <3>6. QED
      BY <3>4, <3>5
  <2>5. QED
    BY <2>3, <2>4 DEF LockInv
<1>3. CASE ReleaseLeaderLock
  <2>1. PICK l \in Locks, p \in Pods : RedisRelease(l, p) /\ MemoryRelease(l, p)
    BY <1>3 DEF ReleaseLeaderLock
  <2>2. UNCHANGED now
    BY <1>3 DEF ReleaseLeaderLock
  <2>3. LockTypes'
    BY <2>1, <2>2 DEF RedisRelease, MemoryRelease, UpTo, Within
  <2>4. ASSUME NEW k \in Locks \ Reentrant
        PROVE  Same(rLease[k], mLease[k])' /\ (rLease'[k] # Gone => rOwner'[k] = mOwner'[k])
    <3>1. Same(rLease[k], mLease[k]) /\ (rLease[k] # Gone => rOwner[k] = mOwner[k])
      BY DEF LockInv
    <3>2. rOwner'[k] = rOwner[k] /\ mOwner'[k] = mOwner[k]
      BY <2>1 DEF RedisRelease, MemoryRelease
    <3>3. rLease'[k] \in {rLease[k], Gone} /\ mLease'[k] \in {mLease[k], Gone}
      BY <2>1 DEF RedisRelease, MemoryRelease
    <3>4. CASE rLease[k] = Gone
      BY <2>2, <3>1, <3>3, <3>4 DEF Same, Gone, Forever
    <3>5. CASE rLease[k] # Gone
      <4>1. rLease'[k] = Gone <=> mLease'[k] = Gone
        BY <2>1, <3>1, <3>5 DEF RedisRelease, MemoryRelease, Same, Gone, Forever
      <4>2. QED
        BY <2>2, <3>1, <3>2, <3>3, <4>1 DEF Same, Gone
    <3>6. QED
      BY <3>4, <3>5
  <2>5. QED
    BY <2>3, <2>4 DEF LockInv
<1>4. QED
  BY <1>1, <1>2, <1>3

\* Time passes for both.
LEMMA Ticking ==
    ASSUME TypeOK, ItemInv, TrackInv, LockInv, Tick
    PROVE  ItemInv' /\ TrackInv' /\ LockInv' /\ TypeOK'
<1> USE RepositoryAssumption DEF TypeOK
<1>1. /\ now \in Nat /\ now' = now + 1 /\ now' \in 0..MaxTime
      /\ UNCHANGED <<rValue, rActive, rOwner, mValue, mExpires, mBeat, mOwner, mLease>>
  BY DEF Tick, mVars
<1>2. ItemTypes'
  <2>1. /\ rTTL' \in [Keys -> Nat \cup {Gone, Forever}]
        /\ \A k \in Keys : rTTL'[k] \in UpTo(KeyTTL[k]) \cup {Forever}
    BY DEF Tick, ItemTypes, CountDown, UpTo, Gone, Forever
  <2>2. \A k \in Keys : mExpires'[k] \in Within(KeyTTL[k])' \cup {Forever}
    BY <1>1 DEF ItemTypes, Within
  <2>3. QED
    BY <1>1, <2>1, <2>2 DEF ItemTypes
<1>3. TrackTypes'
  BY <1>1 DEF Tick, TrackTypes, CountDown, UpTo, Within, Gone, Forever
<1>4. LockTypes'
  BY <1>1 DEF Tick, LockTypes, CountDown, UpTo, Within, Gone, Forever
<1>5. ASSUME NEW k \in Keys
      PROVE  Same(rTTL[k], mExpires[k])' /\ (rTTL'[k] # Gone => rValue'[k] = mValue'[k])
  <2>1. Same(rTTL[k], mExpires[k]) /\ (rTTL[k] # Gone => rValue[k] = mValue[k])
    BY DEF ItemInv
  <2>2. rTTL'[k] = IF rTTL[k] = Forever THEN Forever ELSE IF rTTL[k] = Gone THEN Gone ELSE rTTL[k] - 1
    BY DEF Tick, CountDown, ItemTypes
  <2>3. Same(rTTL[k], mExpires[k])'
    BY <1>1, <2>1, <2>2, SameLater DEF Same
  <2>4. QED
    BY <1>1, <2>1, <2>2, <2>3
<1>6. ASSUME NEW o \in Orders
      PROVE  Same(rBeat[o], mBeat[o])'
  <2>1. Same(rBeat[o], mBeat[o])
    BY DEF TrackInv
  <2>2. rBeat'[o] = IF rBeat[o] = Forever THEN Forever ELSE IF rBeat[o] = Gone THEN Gone ELSE rBeat[o] - 1
    BY DEF Tick, CountDown, TrackTypes
  <2>3. mBeat'[o] = mBeat[o]
    BY <1>1
  <2>4. \/ rBeat'[o] = Forever /\ mBeat[o] = Forever
        \/ rBeat'[o] \in Nat /\ mBeat[o] = now' + rBeat'[o]
        \/ rBeat'[o] = Gone /\ mBeat[o] \in Nat \cup {Gone} /\ mBeat[o] < now'
    BY <1>1, <2>1, <2>2, SameLater
  <2>5. QED
    BY <2>3, <2>4 DEF Same
<1>7. ASSUME NEW l \in Locks \ Reentrant
      PROVE  Same(rLease[l], mLease[l])' /\ (rLease'[l] # Gone => rOwner'[l] = mOwner'[l])
  <2>1. Same(rLease[l], mLease[l]) /\ (rLease[l] # Gone => rOwner[l] = mOwner[l])
    BY DEF LockInv
  <2>2. rLease'[l] = IF rLease[l] = Forever THEN Forever ELSE IF rLease[l] = Gone THEN Gone ELSE rLease[l] - 1
    BY DEF Tick, CountDown, LockTypes
  <2>3. Same(rLease[l], mLease[l])'
    BY <1>1, <2>1, <2>2, SameLater DEF Same
  <2>4. QED
    BY <1>1, <2>1, <2>2, <2>3
<1>8. QED
  BY <1>1, <1>2, <1>3, <1>4, <1>5, <1>6, <1>7 DEF ItemInv, TrackInv, LockInv
-----------------------------------------------------------------------------
IInv == TypeOK /\ ItemInv /\ TrackInv /\ LockInv

\* The inductive invariant holds of two empty repositories.
LEMMA IInvInit == Init => IInv
<1> SUFFICES ASSUME Init PROVE IInv
  OBVIOUS
<1>1. TypeOK
  BY RepositoryAssumption
     DEF Init, TypeOK, ItemTypes, TrackTypes, LockTypes, UpTo, Within, Gone, Forever
<1>2. ItemInv /\ TrackInv /\ LockInv
  BY DEF Init, ItemInv, TrackInv, LockInv, Same, Gone, Forever
<1>3. QED
  BY <1>1, <1>2 DEF IInv

\* Every call, and time, preserves it.
LEMMA IInvStep == IInv /\ [Next]_vars => IInv'
<1> SUFFICES ASSUME IInv, [Next]_vars PROVE IInv'
  OBVIOUS
<1> USE DEF IInv
\* What a call leaves alone stays as it is.
<1>1. now' = now /\ UNCHANGED items => ItemInv' /\ ItemTypes'
  BY DEF items, ItemInv, Same, TypeOK, ItemTypes, Within
<1>2. now' = now /\ UNCHANGED tracking => TrackInv' /\ TrackTypes'
  BY DEF tracking, TrackInv, Same, TypeOK, TrackTypes, Within
<1>3. now' = now /\ UNCHANGED leases => LockInv' /\ LockTypes'
  BY DEF leases, LockInv, Same, TypeOK, LockTypes, Within
<1>4. CASE Set
  <2>1. PICK ks \in SUBSET Keys \ {{}} : \E w \in [ks -> Values] : RedisSet(w) /\ MemorySet(w)
    BY <1>4 DEF Set
  <2>2. PICK w \in [ks -> Values] : RedisSet(w) /\ MemorySet(w)
    BY <2>1
  <2>3. UNCHANGED <<now, tracking, leases>>
    BY <1>4 DEF Set
  <2>4. ItemInv' /\ ItemTypes'
    BY <2>2, <2>3, SetItems, SetTypes
  <2>5. QED
    BY <1>2, <1>3, <2>3, <2>4 DEF TypeOK
<1>5. CASE RegisterActiveOrder
  <2>1. PICK o \in Orders : RedisRegister({o}) /\ MemoryRegister({o})
    BY <1>5 DEF RegisterActiveOrder
  <2>2. UNCHANGED <<now, items, leases>>
    BY <1>5 DEF RegisterActiveOrder
  <2>3. TrackInv' /\ TrackTypes'
    BY <2>1, <2>2, RegisterOrders
  <2>4. QED
    BY <1>1, <1>3, <2>2, <2>3 DEF TypeOK
<1>6. CASE RefreshOrderHeartbeat
  <2>1. PICK o \in rActive \cup Stray : RedisRefresh(o) /\ MemoryRegister({o})
    BY <1>6 DEF RefreshOrderHeartbeat, MemoryRefresh
  <2>2. UNCHANGED <<now, items, leases>>
    BY <1>6 DEF RefreshOrderHeartbeat
  <2>3. {o} \in SUBSET Orders /\ {o} \subseteq rActive \cup Stray
    BY <2>1, RepositoryAssumption DEF TypeOK, TrackTypes
  <2>4. UNCHANGED rActive /\ rBeat' = Update(rBeat, [x \in {o} |-> HeartbeatTTL])
    BY <2>1 DEF RedisRefresh, Update, TypeOK, TrackTypes
  <2>5. TrackInv' /\ TrackTypes'
    BY <2>1, <2>2, <2>3, <2>4, RegisterOrders
  <2>6. QED
    BY <1>1, <1>3, <2>2, <2>5 DEF TypeOK
<1>7. CASE RemoveInactiveOrders
  <2>1. UNCHANGED <<now, items, leases>>
    BY <1>7 DEF RemoveInactiveOrders
  <2>2. QED
    BY <1>1, <1>3, <1>7, <2>1, RemoveOrders DEF TypeOK
<1>8. CASE PreWarmOrders
  <2>1. PICK os \in SUBSET Orders \ {{}} : \E w \in [{MappingKey[o] : o \in os} -> Values] :
            /\ RedisRegister(os) /\ MemoryRegister(os)
            /\ RedisSet(w) /\ MemorySet(w)
    BY <1>8 DEF PreWarmOrders
  <2>2. PICK w \in [{MappingKey[o] : o \in os} -> Values] : RedisSet(w) /\ MemorySet(w)
    BY <2>1
  <2>3. UNCHANGED <<now, leases>>
    BY <1>8 DEF PreWarmOrders
  <2>4. {MappingKey[o] : o \in os} \in SUBSET Keys
    BY RepositoryAssumption
  <2>5. ItemInv' /\ ItemTypes'
    BY <2>2, <2>3, <2>4, SetItems, SetTypes
  <2>6. TrackInv' /\ TrackTypes'
    BY <2>1, <2>3, RegisterOrders
  <2>7. QED
    BY <1>3, <2>3, <2>5, <2>6 DEF TypeOK
<1>9. CASE AcquireLeaderLock \/ RenewLeaderLock \/ ReleaseLeaderLock
  <2>1. UNCHANGED <<now, items, tracking>>
    BY <1>9 DEF AcquireLeaderLock, RenewLeaderLock, ReleaseLeaderLock
  <2>2. QED
    BY <1>1, <1>2, <1>9, <2>1, LockCalls DEF TypeOK
<1>10. CASE Tick
  BY <1>10, Ticking
<1>11. CASE UNCHANGED vars
  <2>1. UNCHANGED <<now, items, tracking, leases>>
    BY <1>11 DEF vars, rVars, mVars, items, tracking, leases
  <2>2. QED
    BY <1>1, <1>2, <1>3, <2>1 DEF TypeOK
<1>12. QED
  BY <1>4, <1>5, <1>6, <1>7, <1>8, <1>9, <1>10, <1>11 DEF Next

\* It holds always.
LEMMA IInvAlways == Spec => []IInv
BY IInvInit, IInvStep, PTL DEF Spec

\* Times left stay within their TTLs, instants of expiry within a TTL from now.
THEOREM TypeCorrect == Spec => []TypeOK
<1>1. IInv => TypeOK
  BY DEF IInv
<1>2. QED
  BY IInvAlways, <1>1, PTL

(***************************************************************************)
(* Every read of an item answers the same from both repositories.          *)
(***************************************************************************)
THEOREM ItemsAgreeCorrect == Spec => []ItemsAgree
<1>1. IInv => ItemsAgree
  <2> SUFFICES ASSUME IInv, NEW k \in Keys PROVE RedisGet(k) = MemoryGet(k)
    BY DEF ItemsAgree
  <2>1. Same(rTTL[k], mExpires[k]) /\ (rTTL[k] # Gone => rValue[k] = mValue[k])
    BY DEF IInv, ItemInv
  <2>2. rTTL[k] # Gone <=> Live(mExpires[k])
    BY <2>1, SameAlive DEF IInv, TypeOK
  <2>3. QED
    BY <2>1, <2>2 DEF RedisGet, MemoryGet
<1>2. QED
  BY IInvAlways, <1>1, PTL

(***************************************************************************)
(* Both track the same orders, but for those refreshed while untracked.    *)
(***************************************************************************)
THEOREM TrackingAgreesCorrect == Spec => []TrackingAgrees
<1>1. IInv => TrackingAgrees
  <2> SUFFICES ASSUME IInv, NEW o \in Orders
               PROVE  /\ rBeat[o] # Gone <=> Live(mBeat[o])
                      /\ RedisTracks(o) => MemoryTracks(o)
                      /\ MemoryTracks(o) => RedisTracks(o) \/ o \in Stray
    BY DEF TrackingAgrees
  <2>1. rBeat[o] # Gone <=> Live(mBeat[o])
    BY SameAlive DEF IInv, TypeOK, TrackInv
  <2>2. QED
    BY <2>1 DEF IInv, TrackInv, RedisTracks, MemoryTracks
<1>2. QED
  BY IInvAlways, <1>1, PTL

(***************************************************************************)
(* The same pod has the lock on both, but for a lock acquired by the pod   *)
(* that has it.                                                            *)
(***************************************************************************)
THEOREM LocksAgreeCorrect == Spec => []LocksAgree
<1>1. IInv => LocksAgree
  <2> SUFFICES ASSUME IInv, NEW l \in Locks \ Reentrant PROVE RedisHolder(l) = MemoryHolder(l)
    BY DEF LocksAgree
  <2>1. Same(rLease[l], mLease[l]) /\ (rLease[l] # Gone => rOwner[l] = mOwner[l])
    BY DEF IInv, LockInv
  <2>2. rLease[l] # Gone <=> Live(mLease[l])
    BY <2>1, SameAlive DEF IInv, TypeOK
  <2>3. QED
    BY <2>1, <2>2 DEF RedisHolder, MemoryHolder
<1>2. QED
  BY IInvAlways, <1>1, PTL
=============================================================================

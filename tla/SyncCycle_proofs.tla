-------------------------- MODULE SyncCycle_proofs --------------------------
(***************************************************************************)
(* Proofs about SyncCycle, for any number of orders, couriers and tokens   *)
(* of the semaphores: the fetch loops never have more calls under way than *)
(* tokens, and a cycle stores for an order only what its courier has       *)
(* answered in that cycle.                                                 *)
(***************************************************************************)
EXTENDS SyncCycle, FiniteSetTheorems, TLAPS

(***************************************************************************)
(* TypeOK is not inductive: which orders become known depends on what the  *)
(* loops hand out, and counting the calls needs them to be finitely many.  *)
(***************************************************************************)
LoopInv ==
    /\ IsFiniteSet(fetching)
    /\ cycle = "map" => todo \subseteq ids /\ fetching = {}
    /\ cycle = "orders" => todo \cup fetching \subseteq missing
    /\ cycle = "couriers" => todo \cup fetching \subseteq Couriers

\* What the cycle has fetched is a position that the courier took meanwhile.
FreshInv ==
    \A c \in Couriers :
        /\ began[c] <= position[c]
        /\ answer[c] # 0 => began[c] <= answer[c] /\ answer[c] <= position[c]

CycleInv == TypeOK /\ LoopInv /\ FreshInv

\* A call that begins takes a token, one that returns gives it back.
LEMMA Tokens ==
    ASSUME NEW calls, IsFiniteSet(calls), NEW x
    PROVE  /\ IsFiniteSet(calls \cup {x}) /\ IsFiniteSet(calls \ {x})
           /\ Cardinality(calls) < WorkerConcurrency
                => Cardinality(calls \cup {x}) <= WorkerConcurrency
           /\ Cardinality(calls) <= WorkerConcurrency
                => Cardinality(calls \ {x}) <= WorkerConcurrency
<1>1. Cardinality(calls) \in Nat /\ WorkerConcurrency \in Nat
  BY FS_CardinalityType, NumbersAssumption
<1>2. /\ IsFiniteSet(calls \cup {x})
      /\ Cardinality(calls \cup {x}) \in {Cardinality(calls), Cardinality(calls) + 1}
  BY FS_AddElement
<1>3. /\ IsFiniteSet(calls \ {x})
      /\ Cardinality(calls \ {x}) \in {Cardinality(calls), Cardinality(calls) - 1}
  BY FS_RemoveElement
<1>4. QED
  BY <1>1, <1>2, <1>3

\* The first cycle finds nothing fetched.
LEMMA CycleInit == Init => CycleInv
<1> SUFFICES ASSUME Init
             PROVE  CycleInv
  OBVIOUS
<1>1. IsFiniteSet(fetching) /\ Cardinality(fetching) = 0
  BY FS_EmptySet DEF Init
<1>2. lastSync \in BOOLEAN
  BY DEF Init
<1>3. TypeOK
  BY <1>1, <1>2, CourierAssumption, NumbersAssumption DEF Init, TypeOK, Positions, NoAnswer
<1>4. LoopInv /\ FreshInv
  BY <1>1, NumbersAssumption DEF Init, LoopInv, FreshInv, NoAnswer
<1>5. QED
  BY <1>3, <1>4 DEF CycleInv

\* Couriers move and SyncOrder runs beside the cycle without disturbing it.
LEMMA BesideCycle ==
    ASSUME CycleInv,
           \/ \E c \in Couriers : Move(c)
           \/ \E o \in Orders : ExpireMapping(o) \/ ExpireLocation(o) \/ SyncOrder(o)
    PROVE  CycleInv'
<1> USE CourierAssumption, NumbersAssumption DEF CycleInv, cache, cycleVars, syncVars, Positions
<1>1. ASSUME NEW c \in Couriers, Move(c)
      PROVE  CycleInv'
  BY <1>1 DEF Move, TypeOK, LoopInv, FreshInv
<1>2. ASSUME NEW o \in Orders, ExpireMapping(o) \/ ExpireLocation(o)
      PROVE  CycleInv'
  BY <1>2 DEF ExpireMapping, ExpireLocation, TypeOK, LoopInv, FreshInv
<1>3. ASSUME NEW o \in Orders, SyncOrder(o)
      PROVE  CycleInv'
  <2>1. LoopInv' /\ FreshInv'
    BY <1>3 DEF SyncOrder, SyncBegin, SyncMap, SyncOrderReturns, SyncCourierReturns, SyncWrite,
       LoopInv, FreshInv
  <2>2. TypeOK'
    <3> USE DEF TypeOK, Goto, RedisWorks, RedisFails
    <3>1. CASE SyncBegin(o)
      BY <3>1 DEF SyncBegin
    <3>2. CASE SyncMap(o)
      BY <3>2 DEF SyncMap
    <3>3. CASE SyncOrderReturns(o)
      BY <3>3 DEF SyncOrderReturns
    <3>4. CASE SyncCourierReturns(o)
      BY <3>4 DEF SyncCourierReturns
    <3>5. CASE SyncWrite(o)
      BY <3>5 DEF SyncWrite
    <3>6. QED
      BY <1>3, <3>1, <3>2, <3>3, <3>4, <3>5 DEF SyncOrder
  <2>3. QED
    BY <2>1, <2>2
<1>4. QED
  BY <1>1, <1>2, <1>3

\* The loops: mapping the orders, and the two pools of fetching goroutines.
LEMMA FetchSteps ==
    ASSUME CycleInv,
           \/ \E o \in Orders : MapOrder(o) \/ OrderReturns(o)
           \/ \E c \in Couriers : CourierReturns(c)
           \/ \E x \in Orders \cup Couriers : Dispatch(x)
    PROVE  CycleInv'
<1> USE CourierAssumption, NumbersAssumption DEF CycleInv, cache, cycleVars, syncVars, Positions
<1>1. ASSUME NEW o \in Orders, MapOrder(o)
      PROVE  CycleInv'
  BY <1>1 DEF MapOrder, RedisWorks, RedisFails, TypeOK, LoopInv, FreshInv
<1>2. ASSUME NEW o \in Orders, OrderReturns(o)
      PROVE  CycleInv'
  BY <1>2, Tokens DEF OrderReturns, TypeOK, LoopInv, FreshInv
<1>3. ASSUME NEW c \in Couriers, CourierReturns(c)
      PROVE  CycleInv'
  <2>1. answer' \in [Couriers -> 0..MaxPosition]
    BY <1>3 DEF CourierReturns, TypeOK
  <2>2. Cardinality(fetching') <= WorkerConcurrency
    BY <1>3, Tokens DEF CourierReturns, TypeOK, LoopInv
  <2>3. TypeOK'
    BY <1>3, <2>1, <2>2 DEF CourierReturns, TypeOK
  <2>4. LoopInv'
    BY <1>3, Tokens DEF CourierReturns, LoopInv
  <2>5. FreshInv'
    BY <1>3 DEF CourierReturns, TypeOK, FreshInv
  <2>6. QED
    BY <2>3, <2>4, <2>5
<1>4. ASSUME NEW x \in Orders \cup Couriers, Dispatch(x)
      PROVE  CycleInv'
  BY <1>4, Tokens DEF Dispatch, TypeOK, LoopInv, FreshInv
<1>5. QED
  BY <1>1, <1>2, <1>3, <1>4

\* What the pipeline has stored, as a whole or in part, are positions.
LEMMA StoredType ==
    ASSUME TypeOK, NEW part \in SUBSET Orders
    PROVE  Stored(part) \in [Orders -> 0..MaxPosition]
BY CourierAssumption DEF Stored, TypeOK

\* The cycle goes from one phase to the next, or ends.
LEMMA PhaseSteps ==
    ASSUME CycleInv,
           \/ \E active \in SUBSET Orders : CycleBegin(active)
           \/ MapEnd \/ OrdersEnd \/ CouriersEnd \/ WriteBatch \/ Stamp
    PROVE  CycleInv'
<1> USE CourierAssumption, NumbersAssumption DEF CycleInv, cache, cycleVars, syncVars, Positions
<1>1. ASSUME NEW active \in SUBSET Orders, CycleBegin(active)
      PROVE  CycleInv'
  <2>1. lastSync' \in BOOLEAN
    BY <1>1 DEF CycleBegin
  <2>2. TypeOK'
    BY <1>1, <2>1, FS_EmptySet DEF CycleBegin, NoAnswer, TypeOK
  <2>3. LoopInv' /\ FreshInv'
    BY <1>1, FS_EmptySet DEF CycleBegin, NoAnswer, TypeOK, LoopInv, FreshInv
  <2>4. QED
    BY <2>2, <2>3
<1>2. CASE MapEnd
  BY <1>2 DEF MapEnd, TypeOK, LoopInv, FreshInv
<1>3. CASE OrdersEnd
  <2>1. CouriersOf(known) \subseteq Couriers
    BY DEF CouriersOf, TypeOK
  <2>2. TypeOK'
    BY <1>3, <2>1 DEF OrdersEnd, RedisWorks, RedisFails, TypeOK
  <2>3. LoopInv' /\ FreshInv'
    BY <1>3, <2>1 DEF OrdersEnd, LoopInv, FreshInv
  <2>4. QED
    BY <2>2, <2>3
<1>4. CASE CouriersEnd
  BY <1>4 DEF CouriersEnd, TypeOK, LoopInv, FreshInv
<1>5. CASE WriteBatch
  <2>1. Located \subseteq Orders
    BY DEF Located, TypeOK
  <2>2. location' \in [Orders -> 0..MaxPosition]
    BY <1>5, <2>1, StoredType DEF WriteBatch
  <2>3. QED
    BY <1>5, <2>2 DEF WriteBatch, RedisWorks, RedisFails, TypeOK, LoopInv, FreshInv
<1>6. CASE Stamp
  <2>1. lastSync' \in BOOLEAN
    BY <1>6 DEF Stamp, TypeOK
  <2>2. faults' \in 0..MaxFaults
    BY <1>6 DEF Stamp, RedisWorks, RedisFails, TypeOK
  <2>3. QED
    BY <1>6, <2>1, <2>2 DEF Stamp, TypeOK, LoopInv, FreshInv
<1>7. QED
  BY <1>1, <1>2, <1>3, <1>4, <1>5, <1>6

\* CycleInv holds always.
LEMMA CycleInvCorrect == Spec => []CycleInv
<1>1. CycleInv /\ UNCHANGED vars => CycleInv'
  BY DEF vars, cache, cycleVars, syncVars, CycleInv, TypeOK, LoopInv, FreshInv
<1>2. CycleInv /\ [Next]_vars => CycleInv'
  BY <1>1, BesideCycle, FetchSteps, PhaseSteps DEF Next, Cycle
<1>3. QED
  BY <1>2, CycleInit, PTL DEF Spec

\* The types of all variables; in particular no more calls to an upstream are
\* under way than WORKER_CONCURRENCY allows (poller_service.go:267-300).
THEOREM TypeCorrect == Spec => []TypeOK
<1>1. CycleInv => TypeOK
  BY DEF CycleInv
<1>2. QED
  BY <1>1, CycleInvCorrect, PTL

\* Nothing but the batch leaves "write".
LEMMA OnlyBatchWrites ==
    ASSUME [Next]_vars, cycle = "write", cycle' # "write"
    PROVE  WriteBatch
BY DEF Next, vars, Cycle, Move, ExpireMapping, ExpireLocation, SyncOrder, SyncBegin, SyncMap,
   SyncOrderReturns, SyncCourierReturns, SyncWrite, CycleBegin, MapOrder, OrderReturns,
   CourierReturns, Dispatch, MapEnd, OrdersEnd, CouriersEnd, Stamp, cycleVars

\* Whoever moves, expires or is synced meanwhile, a cycle stores for an order
\* what its courier answered in this cycle (poller_service.go:217-250).
THEOREM CycleStoresItsOwnCorrect == Spec => CycleStoresItsOwn
<1>1. ASSUME CycleInv, [Next]_vars, cycle = "write", cycle' # "write",
             NEW o \in Orders, location'[o] # location[o]
      PROVE  location'[o] \in began[CourierOf[o]]..position[CourierOf[o]]
  <2> DEFINE c == CourierOf[o]
  <2>1. PICK part \in SUBSET Located : location' = Stored(part)
    BY <1>1, OnlyBatchWrites DEF WriteBatch
  <2>2. o \in Located /\ location'[o] = answer[c]
    BY <1>1, <2>1 DEF Stored
  <2>3. c \in Couriers /\ answer[c] # 0
    BY <2>2, CourierAssumption DEF Located
  <2>4. /\ began[c] \in Int /\ position[c] \in Int /\ answer[c] \in Int
        /\ began[c] <= answer[c] /\ answer[c] <= position[c]
    BY <1>1, <2>3, NumbersAssumption DEF CycleInv, TypeOK, FreshInv, Positions
  <2>5. QED
    BY <2>2, <2>4
<1>2. CycleInv /\ [Next]_vars =>
        [cycle = "write" /\ cycle' # "write" =>
            \A o \in Orders : location'[o] # location[o] =>
               location'[o] \in began[CourierOf[o]]..position[CourierOf[o]]]_vars
  BY <1>1
<1>3. QED
  BY <1>2, CycleInvCorrect, PTL DEF Spec, CycleStoresItsOwn
-----------------------------------------------------------------------------
(***************************************************************************)
(* Cycle and SyncOrder write the same keys in any order.  Whoever wrote    *)
(* last, what is cached for an order, or on its way to the cache, is a     *)
(* position that its courier has really been at.                           *)
(***************************************************************************)
CacheIsGenuine ==
    \A o \in Orders :
        /\ location[o] <= position[CourierOf[o]]
        /\ got[o] <= position[CourierOf[o]]

\* A batch, as a whole or in part, stores what the couriers have answered.
LEMMA StoredIsGenuine ==
    ASSUME CycleInv, CacheIsGenuine, NEW part \in SUBSET Orders, NEW o \in Orders
    PROVE  Stored(part)[o] <= position[CourierOf[o]]
<1> DEFINE c == CourierOf[o]
<1>1. c \in Couriers /\ position[c] \in Nat /\ answer[c] \in Nat
  BY CourierAssumption, NumbersAssumption DEF CycleInv, TypeOK, Positions
<1>2. answer[c] <= position[c]
  BY <1>1 DEF CycleInv, FreshInv
<1>3. QED
  BY <1>2 DEF Stored, CacheIsGenuine

\* SyncOrder stores what it has fetched for the same order.
LEMMA SyncIsGenuine ==
    ASSUME CycleInv, CacheIsGenuine, NEW o \in Orders, SyncOrder(o)
    PROVE  CacheIsGenuine'
<1>1. \A p \in Orders : CourierOf[p] \in Couriers /\ position[CourierOf[p]] \in Nat
  BY CourierAssumption, NumbersAssumption DEF CycleInv, TypeOK, Positions
<1>2. location \in [Orders -> 0..MaxPosition] /\ got \in [Orders -> 0..MaxPosition]
  BY DEF CycleInv, TypeOK
<1>3. CASE SyncBegin(o) \/ SyncMap(o) \/ SyncOrderReturns(o)
  BY <1>3 DEF SyncBegin, SyncMap, SyncOrderReturns, CacheIsGenuine, cache
<1>4. CASE SyncCourierReturns(o)
  BY <1>1, <1>2, <1>4 DEF SyncCourierReturns, CacheIsGenuine, cache
<1>5. CASE SyncWrite(o)
  BY <1>1, <1>2, <1>5 DEF SyncWrite, CacheIsGenuine
<1>6. QED
  BY <1>3, <1>4, <1>5 DEF SyncOrder

\* In every interleaving of cycles and urgent syncs the cache holds, of each
\* order, a position its courier has been at (poller_service.go:142, 248).
THEOREM CacheIsGenuineCorrect == Spec => []CacheIsGenuine
<1>1. Init => CacheIsGenuine
  BY CourierAssumption DEF Init, CacheIsGenuine
<1>2. CycleInv /\ CacheIsGenuine /\ [Next]_vars => CacheIsGenuine'
  <2> SUFFICES ASSUME CycleInv, CacheIsGenuine, [Next]_vars
               PROVE  CacheIsGenuine'
    OBVIOUS
  <2>1. ASSUME NEW c \in Couriers, Move(c)
        PROVE  CacheIsGenuine'
    <3>1. \A o \in Orders : /\ CourierOf[o] \in Couriers
                            /\ position[CourierOf[o]] \in Nat
                            /\ location[o] \in Nat /\ got[o] \in Nat
      BY CourierAssumption, NumbersAssumption DEF CycleInv, TypeOK, Positions
    <3>2. \A o \in Orders : position'[CourierOf[o]] \in {position[CourierOf[o]], position[CourierOf[o]] + 1}
      BY <2>1, <3>1 DEF Move, CycleInv, TypeOK
    <3>3. location' = location /\ got' = got
      BY <2>1 DEF Move, cache, syncVars
    <3>4. QED
      BY <3>1, <3>2, <3>3 DEF CacheIsGenuine
  <2>2. ASSUME NEW o \in Orders, ExpireMapping(o) \/ ExpireLocation(o)
        PROVE  CacheIsGenuine'
    <3>1. \A p \in Orders : CourierOf[p] \in Couriers /\ position[CourierOf[p]] \in Nat
      BY CourierAssumption, NumbersAssumption DEF CycleInv, TypeOK, Positions
    <3>2. QED
      BY <2>2, <3>1 DEF ExpireMapping, ExpireLocation, CacheIsGenuine, CycleInv, TypeOK, syncVars
  <2>3. ASSUME NEW o \in Orders, SyncOrder(o)
        PROVE  CacheIsGenuine'
    BY <2>3, SyncIsGenuine
  <2>4. CASE WriteBatch
    <3>1. Located \subseteq Orders
      BY DEF Located, CycleInv, TypeOK
    <3>2. PICK part \in SUBSET Orders : location' = Stored(part)
      BY <2>4, <3>1 DEF WriteBatch
    <3>3. position' = position /\ got' = got
      BY <2>4 DEF WriteBatch, syncVars
    <3>4. QED
      BY <3>2, <3>3, StoredIsGenuine DEF CacheIsGenuine
  <2>5. CASE UNCHANGED <<position, location, got>>
    BY <2>5 DEF CacheIsGenuine
  <2>6. QED
    BY <2>1, <2>2, <2>3, <2>4, <2>5
    DEF Next, vars, Cycle, CycleBegin, MapOrder, OrderReturns, CourierReturns, Dispatch, MapEnd,
        OrdersEnd, CouriersEnd, Stamp, cache, syncVars
<1>3. QED
  BY <1>1, <1>2, CycleInvCorrect, PTL DEF Spec
=============================================================================

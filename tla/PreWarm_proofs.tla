--------------------------- MODULE PreWarm_proofs ---------------------------
(***************************************************************************)
(* Proofs about PreWarm, for any number of pods, orders and faults: the    *)
(* flag is never set before all orders have been registered.               *)
(***************************************************************************)
EXTENDS PreWarm, TLAPS

(***************************************************************************)
(* Neither TypeOK nor FlagMeansRegistered is inductive: what a pod locates *)
(* and that it may set the flag rests on the pipeline it has been through, *)
(* however long ago, and whatever has expired since.                       *)
(***************************************************************************)
PastPipeline(p) == phase[p] \in {"locate", "flag"}

PipelineInv == \A p \in Pods : PastPipeline(p) => seen = Orders

FlagInv == TypeOK /\ PipelineInv /\ FlagMeansRegistered

\* At first no pod runs and nothing is registered.
LEMMA FlagInit == Init => FlagInv
<1> SUFFICES ASSUME Init
             PROVE  FlagInv
  OBVIOUS
<1>1. prewarmed \in BOOLEAN
  BY DEF Init
<1>2. TypeOK /\ PipelineInv /\ FlagMeansRegistered
  BY <1>1, PreWarmAssumption DEF Init, TypeOK, PipelineInv, PastPipeline, FlagMeansRegistered
<1>3. QED
  BY <1>2 DEF FlagInv

\* A pod gets past the pipeline only if all of it was executed.
LEMMA StartUpStep ==
    ASSUME FlagInv, NEW p \in Pods, StartUp(p)
    PROVE  FlagInv'
<1> USE PreWarmAssumption DEF FlagInv, PipelineInv, PastPipeline, FlagMeansRegistered, Fault, Goto
<1>1. CASE Check(p)
  BY <1>1 DEF Check, TypeOK
<1>2. CASE Register(p)
  <2>1. CASE registered' = Orders
    <3>1. seen' = Orders
      BY <1>2, <2>1 DEF Register, TypeOK
    <3>2. QED
      BY <1>2, <2>1, <3>1 DEF Register, TypeOK
  <2>2. ASSUME NEW part \in SUBSET Orders, registered' = registered \cup part, Fault, Goto(p, "serving")
        PROVE  FlagInv'
    <3>1. seen' = seen \cup part
      BY <1>2, <2>2 DEF Register, TypeOK
    <3>2. seen = Orders => seen' = Orders
      BY <3>1
    <3>3. QED
      BY <1>2, <2>2, <3>1, <3>2 DEF Register, TypeOK
  <2>3. QED
    BY <1>2, <2>1, <2>2 DEF Register
<1>3. CASE Locate(p)
  <2>1. seen = Orders /\ seen' = seen /\ located' \subseteq Orders
    BY <1>3 DEF Locate, TypeOK
  <2>2. QED
    BY <1>3, <2>1 DEF Locate, TypeOK
<1>4. CASE SetFlag(p)
  <2>1. seen = Orders /\ prewarmed' \in BOOLEAN
    BY <1>4 DEF SetFlag, TypeOK
  <2>2. QED
    BY <1>4, <2>1 DEF SetFlag, TypeOK
<1>5. QED
  BY <1>1, <1>2, <1>3, <1>4 DEF StartUp

\* FlagInv holds always: pods that start, crash or see their keys expire put
\* nobody past the pipeline.
LEMMA FlagCorrect == Spec => []FlagInv
<1>1. FlagInv /\ [Next]_vars => FlagInv'
  <2> SUFFICES ASSUME FlagInv, [Next]_vars
               PROVE  FlagInv'
    OBVIOUS
  <2> USE PreWarmAssumption DEF FlagInv, PipelineInv, PastPipeline, FlagMeansRegistered, TypeOK
  <2>1. ASSUME NEW p \in Pods, Start(p) \/ Crash(p)
        PROVE  FlagInv'
    BY <2>1 DEF Start, Crash, Fault, Goto
  <2>2. ASSUME NEW o \in Orders, Expire(o)
        PROVE  FlagInv'
    BY <2>2 DEF Expire
  <2>3. CASE UNCHANGED vars
    BY <2>3 DEF vars
  <2>4. QED
    BY <2>1, <2>2, <2>3, StartUpStep DEF Next
<1>2. QED
  BY <1>1, FlagInit, PTL DEF Spec

\* The types of all variables; nothing is cached for an order that was never
\* registered.
THEOREM TypeCorrect == Spec => []TypeOK
<1>1. FlagInv => TypeOK
  BY DEF FlagInv
<1>2. QED
  BY <1>1, FlagCorrect, PTL

\* However many pods start at once, fail and crash: once the flag is set every
\* order of orders.yml has been registered (main.go:148-157).
THEOREM FlagMeansRegisteredCorrect == Spec => []FlagMeansRegistered
<1>1. FlagInv => FlagMeansRegistered
  BY DEF FlagInv
<1>2. QED
  BY <1>1, FlagCorrect, PTL
=============================================================================

-------------------------- MODULE LoadClient_proofs --------------------------
(***************************************************************************)
(* Proofs about LoadClient, for any number of workers and requests, with   *)
(* an interrupt at any point: every request is in one place, nobody sends  *)
(* on a closed channel, and the summary is complete.                       *)
(***************************************************************************)
EXTENDS LoadClient, FiniteSetTheorems, SequenceTheorems, TLAPS

(***************************************************************************)
(* Channels: what a send and a receive do to the numbers in a queue.       *)
(***************************************************************************)
Distinct(s) == \A i, j \in DOMAIN s : s[i] = s[j] => i = j

\* The SeqNums of a queue of results.
Numbers(rs) == [i \in 1..Len(rs) |-> rs[i][1]]

\* A send adds one number, which is new to the queue.
LEMMA PutOn ==
    ASSUME NEW S, NEW s \in Seq(S), NEW x \in S
    PROVE  /\ ToSet(Append(s, x)) = ToSet(s) \cup {x}
           /\ Distinct(s) /\ x \notin ToSet(s) => Distinct(Append(s, x))
<1>1. /\ DOMAIN s = 1..Len(s) /\ Len(s) \in Nat
      /\ DOMAIN Append(s, x) = 1..(Len(s) + 1)
      /\ \A i \in 1..Len(s) : Append(s, x)[i] = s[i]
      /\ Append(s, x)[Len(s) + 1] = x
  BY LenProperties
<1>2. ToSet(Append(s, x)) = ToSet(s) \cup {x}
  BY <1>1 DEF ToSet
<1>3. Distinct(s) /\ x \notin ToSet(s) => Distinct(Append(s, x))
  BY <1>1 DEF ToSet, Distinct
<1>4. QED
  BY <1>2, <1>3

\* A receive takes away the first number, and no other one.
LEMMA TakeOff ==
    ASSUME NEW S, NEW s \in Seq(S), s # <<>>, Distinct(s)
    PROVE  /\ Head(s) \in ToSet(s)
           /\ ToSet(Tail(s)) = ToSet(s) \ {Head(s)}
           /\ Distinct(Tail(s))
<1>1. /\ DOMAIN s = 1..Len(s) /\ Len(s) \in Nat \ {0} /\ Head(s) = s[1]
      /\ DOMAIN Tail(s) = 1..(Len(s) - 1)
      /\ \A i \in 1..(Len(s) - 1) : Tail(s)[i] = s[i + 1]
  BY LenProperties, EmptySeq, HeadTailProperties
<1>2. Head(s) \in ToSet(s)
  BY <1>1 DEF ToSet
<1>3. ToSet(Tail(s)) = ToSet(s) \ {Head(s)}
  <2>1. ASSUME NEW i \in 1..Len(s), i # 1
        PROVE  s[i] \in ToSet(Tail(s))
    <3> DEFINE k == i - 1
    <3>1. k \in 1..(Len(s) - 1) /\ k + 1 = i
      BY <1>1, <2>1
    <3>2. Tail(s)[k] = s[i]
      BY <1>1, <3>1
    <3>3. QED
      BY <1>1, <3>1, <3>2 DEF ToSet
  <2>2. ASSUME NEW i \in 1..(Len(s) - 1)
        PROVE  Tail(s)[i] \in ToSet(s) \ {Head(s)}
    <3>1. i + 1 \in 1..Len(s) /\ 1 \in 1..Len(s) /\ i + 1 # 1
      BY <1>1
    <3>2. s[i + 1] # s[1]
      BY <1>1, <3>1 DEF Distinct
    <3>3. QED
      BY <1>1, <3>1, <3>2 DEF ToSet
  <2>3. ToSet(s) \ {Head(s)} \subseteq ToSet(Tail(s))
    BY <1>1, <2>1 DEF ToSet
  <2>4. ToSet(Tail(s)) \subseteq ToSet(s) \ {Head(s)}
    BY <1>1, <2>2 DEF ToSet
  <2>5. QED
    BY <2>3, <2>4
<1>4. Distinct(Tail(s))
  BY <1>1 DEF Distinct
<1>5. QED
  BY <1>2, <1>3, <1>4

\* A queue of distinct numbers holds as many as it is long.
LEMMA QueueCardinality ==
    ASSUME NEW S, NEW s \in Seq(S), Distinct(s)
    PROVE  IsFiniteSet(ToSet(s)) /\ Cardinality(ToSet(s)) = Len(s)
<1>1. DOMAIN s = 1..Len(s) /\ Len(s) \in Nat /\ s \in [1..Len(s) -> S]
  BY LenProperties
<1>2. s \in Bijection(1..Len(s), ToSet(s))
  BY <1>1 DEF Bijection, Injection, IsInjective, Surjection, ToSet, Distinct
<1>3. IsFiniteSet(1..Len(s)) /\ Cardinality(1..Len(s)) = Len(s)
  BY <1>1, FS_Interval
<1>4. QED
  BY <1>2, <1>3, FS_Bijection DEF ExistsBijection

\* The numbers of a queue of results follow the queue.
LEMMA NumbersQueue ==
    ASSUME NEW rs \in Seq(Seqs \X Statuses)
    PROVE  /\ Numbers(rs) \in Seq(Seqs) /\ Len(Numbers(rs)) = Len(rs)
           /\ ToSet(Numbers(rs)) = {rs[i][1] : i \in DOMAIN rs}
           /\ \A n \in Seqs, t \in Statuses : Numbers(Append(rs, <<n, t>>)) = Append(Numbers(rs), n)
           /\ rs # <<>> => /\ Numbers(rs) # <<>>
                           /\ Numbers(Tail(rs)) = Tail(Numbers(rs))
                           /\ Head(Numbers(rs)) = Head(rs)[1]
<1>1. /\ DOMAIN rs = 1..Len(rs) /\ Len(rs) \in Nat
      /\ \A i \in 1..Len(rs) : rs[i] \in Seqs \X Statuses
  BY LenProperties, ElementOfSeq
<1>2. Numbers(rs) \in Seq(Seqs) /\ Len(Numbers(rs)) = Len(rs)
  BY <1>1 DEF Numbers
<1>3. ToSet(Numbers(rs)) = {rs[i][1] : i \in DOMAIN rs}
  BY <1>1 DEF Numbers, ToSet
<1>4. ASSUME NEW n \in Seqs, NEW t \in Statuses
      PROVE  Numbers(Append(rs, <<n, t>>)) = Append(Numbers(rs), n)
  <2> DEFINE more == Append(rs, <<n, t>>)
  <2> DEFINE nums == Append(Numbers(rs), n)
  <2>1. /\ Len(more) = Len(rs) + 1
        /\ \A i \in 1..Len(rs) : more[i] = rs[i]
        /\ more[Len(rs) + 1] = <<n, t>>
    BY <1>1
  <2>2. /\ Len(nums) = Len(rs) + 1
        /\ \A i \in 1..Len(rs) : nums[i] = rs[i][1]
        /\ nums[Len(rs) + 1] = n
        /\ nums = [i \in 1..(Len(rs) + 1) |-> nums[i]]
    BY <1>1, <1>2 DEF Numbers
  <2> HIDE DEF more, nums
  <2>3. ASSUME NEW i \in 1..(Len(rs) + 1)
        PROVE  more[i][1] = nums[i]
    <3>1. CASE i \in 1..Len(rs)
      BY <2>1, <2>2, <3>1
    <3>2. CASE i = Len(rs) + 1
      BY <2>1, <2>2, <3>2
    <3>3. QED
      BY <1>1, <3>1, <3>2
  <2>4. QED
    BY <2>1, <2>2, <2>3 DEF Numbers, more, nums
<1>5. ASSUME rs # <<>>
      PROVE  /\ Numbers(rs) # <<>>
             /\ Numbers(Tail(rs)) = Tail(Numbers(rs))
             /\ Head(Numbers(rs)) = Head(rs)[1]
  <2>1. Len(rs) \in Nat \ {0}
    BY <1>5, EmptySeq
  <2>2. Numbers(rs) # <<>> /\ Head(Numbers(rs)) = Head(rs)[1]
    BY <1>1, <1>2, <2>1 DEF Numbers
  <2>3. /\ Len(Tail(rs)) = Len(rs) - 1
        /\ \A i \in 1..(Len(rs) - 1) : Tail(rs)[i] = rs[i + 1]
    BY <1>5, HeadTailProperties
  <2>4. /\ Tail(Numbers(rs)) = [i \in 1..(Len(rs) - 1) |-> Tail(Numbers(rs))[i]]
        /\ \A i \in 1..(Len(rs) - 1) : Tail(Numbers(rs))[i] = Numbers(rs)[i + 1]
    BY <1>2, <2>1, <2>2, HeadTailProperties, LenProperties
  <2>5. ASSUME NEW i \in 1..(Len(rs) - 1)
        PROVE  Tail(rs)[i][1] = Tail(Numbers(rs))[i]
    BY <1>1, <2>1, <2>3, <2>4 DEF Numbers
  <2>6. QED
    BY <2>2, <2>3, <2>4, <2>5 DEF Numbers
<1>6. QED
  BY <1>2, <1>3, <1>4, <1>5
-----------------------------------------------------------------------------
(***************************************************************************)
(* A worker has a number from taking the job to sending the result, and    *)
(* none else; the dispatcher has numbered what it sends.                   *)
(***************************************************************************)
HandInv ==
    /\ \A w \in Workers :
          /\ worker[w] \in {"request", "send"} <=> job[w] # NoJob
          /\ worker[w] = "send" => status[w] \in Statuses
    /\ dispatcher \in {"send", "pace"} => reqCount # 0

TypeInv == TypeOK /\ HandInv

(***************************************************************************)
(* EachRequestOnce is not inductive: its count says that the places are    *)
(* apart only of all of them together.  A number may move on because it is *)
(* where it is once, and nowhere else.                                     *)
(***************************************************************************)
OneHand == \A v, w \in Workers : job[v] = job[w] /\ job[v] # NoJob => v = w

OnceInv ==
    /\ Distinct(jobs) /\ Distinct(Numbers(results)) /\ OneHand
    /\ ToSet(jobs) \cap InHand = {}
    /\ ToSet(jobs) \cap Collected = {}
    /\ ToSet(jobs) \cap recorded = {}
    /\ InHand \cap Collected = {}
    /\ InHand \cap recorded = {}
    /\ Collected \cap recorded = {}

Placed == ToSet(jobs) \cup InHand \cup Collected \cup recorded

\* While it is sent, and if that was interrupted, the last number is nowhere.
PlacedInv ==
    /\ dispatcher \in {"check", "pace"} => Placed = 1..reqCount
    /\ dispatcher = "send" => Placed = 1..(reqCount - 1)
    /\ dispatcher = "returned" => Placed \in {1..reqCount, 1..(reqCount - 1)}
    /\ dispatcher = "returned" /\ ~cancelled => Placed = Seqs

RequestInv == OnceInv /\ PlacedInv

(***************************************************************************)
(* The goroutines end one after the other: without an interrupt the        *)
(* workers after the dispatcher, then main closes resultsChan, then the    *)
(* collector returns, then main prints.                                    *)
(***************************************************************************)
EndInv ==
    /\ main # "workers" => \A w \in Workers : worker[w] = "returned"
    /\ main = "summary" => collector = "returned"
    /\ collector = "returned" => main # "workers" /\ results = <<>>
    /\ \A w \in Workers :
          worker[w] = "returned" /\ ~cancelled => dispatcher = "returned" /\ jobs = <<>>

Total ==
    tracker["success200"] + tracker["pending202"] + tracker["clientErrors"] + tracker["serverErrors"]

TallyInv == IsFiniteSet(recorded) /\ Total = Cardinality(recorded)
-----------------------------------------------------------------------------
(***************************************************************************)
(* The types.                                                              *)
(***************************************************************************)
\* A status counts in one of the counters, and only there.
LEMMA CounterType == \A s : Counter(s) \in Counters
BY DEF Counter, Counters

\* Both channels have room for some numbers.
LEMMA CapacityType == Capacity \in Nat \ {0}
<1>1. Cardinality(Workers) \in Nat /\ Cardinality(Workers) # 0
  BY ClientAssumption, FS_CardinalityType, FS_EmptySet
<1>2. QED
  BY <1>1 DEF Capacity

\* The first state has the types.
LEMMA TypeInit == Init => TypeInv
<1> SUFFICES ASSUME Init
             PROVE  TypeInv
  OBVIOUS
<1>1. cancelled \in BOOLEAN
  BY DEF Init
<1>2. TypeOK
  BY <1>1, ClientAssumption, CapacityType DEF Init, TypeOK, Counters
<1>3. HandInv
  BY DEF Init, HandInv
<1>4. QED
  BY <1>2, <1>3 DEF TypeInv

\* The dispatcher numbers and sends at most as many jobs as are asked for.
LEMMA DispatcherTypes ==
    ASSUME TypeInv, Dispatcher
    PROVE  TypeInv'
<1> USE ClientAssumption DEF TypeInv, TypeOK, HandInv, Seqs, pool, tally
<1>1. CASE DispatchCheck
  <2>1. CASE cancelled \/ reqCount >= Requests
    BY <1>1, <2>1 DEF DispatchCheck
  <2>2. CASE ~(cancelled \/ reqCount >= Requests)
    BY <1>1, <2>2 DEF DispatchCheck
  <2>3. QED
    BY <2>1, <2>2
<1>2. CASE DispatchSend
  <2>1. jobs' \in Seq(Seqs) /\ Len(jobs') <= Capacity
    BY <1>2, CapacityType DEF DispatchSend
  <2>2. QED
    BY <1>2, <2>1 DEF DispatchSend
<1>3. CASE DispatchPace \/ DispatchCancel
  BY <1>3 DEF DispatchPace, DispatchCancel
<1>4. QED
  BY <1>1, <1>2, <1>3 DEF Dispatcher

\* A worker sends the number it has taken, with the status it has got.
LEMMA WorkerTypes ==
    ASSUME TypeInv, NEW w \in Workers, Worker(w)
    PROVE  TypeInv'
<1> USE ClientAssumption DEF TypeInv, TypeOK, HandInv, Seqs, NoJob, feed, tally
<1>1. CASE Take(w)
  <2>1. Head(jobs) \in Seqs /\ Tail(jobs) \in Seq(Seqs) /\ Len(Tail(jobs)) <= Capacity
    BY <1>1, CapacityType, HeadTailProperties, LenProperties DEF Take
  <2>2. QED
    BY <1>1, <2>1 DEF Take
<1>2. CASE WorkerReturn(w)
  BY <1>2 DEF WorkerReturn
<1>3. CASE ExecuteRequest(w)
  BY <1>3 DEF ExecuteRequest
<1>4. CASE SendResult(w)
  <2>1. <<job[w], status[w]>> \in Seqs \X Statuses
    BY <1>4 DEF SendResult
  <2>2. results' \in Seq(Seqs \X Statuses) /\ Len(results') <= Capacity
    BY <1>4, <2>1, CapacityType DEF SendResult
  <2>3. QED
    BY <1>4, <2>2 DEF SendResult
<1>5. QED
  BY <1>1, <1>2, <1>3, <1>4 DEF Worker

\* The collector counts numbers, main waits, and ctx is cancelled.
LEMMA OtherTypes ==
    ASSUME TypeInv, \/ Interrupt \/ Record \/ CollectorReturn \/ CloseResults \/ PrintSummary
                    \/ UNCHANGED vars
    PROVE  TypeInv'
<1> USE ClientAssumption DEF TypeInv, TypeOK, HandInv, feed, pool, tally
<1>1. CASE Record
  <2>1. /\ Head(results) \in Seqs \X Statuses /\ Tail(results) \in Seq(Seqs \X Statuses)
        /\ Len(Tail(results)) <= Capacity
    BY <1>1, CapacityType, HeadTailProperties, LenProperties DEF Record
  <2>2. tracker' \in [Counters -> Nat]
    BY <1>1, CounterType DEF Record
  <2>3. QED
    BY <1>1, <2>1, <2>2 DEF Record
<1>2. CASE Interrupt \/ CollectorReturn \/ CloseResults \/ PrintSummary
  BY <1>2 DEF Interrupt, CollectorReturn, CloseResults, PrintSummary
<1>3. CASE UNCHANGED vars
  BY <1>3 DEF vars
<1>4. QED
  BY <1>1, <1>2, <1>3

\* The types hold always.
LEMMA TypeInvCorrect == Spec => []TypeInv
<1>1. TypeInv /\ [Next]_vars => TypeInv'
  BY DispatcherTypes, WorkerTypes, OtherTypes DEF Next, Ended
<1>2. QED
  BY <1>1, TypeInit, PTL DEF Spec

\* The types of all variables; both channels keep to the capacity they are
\* made with (main.go:222-223).
THEOREM TypeCorrect == Spec => []TypeOK
<1>1. TypeInv => TypeOK
  BY DEF TypeInv
<1>2. QED
  BY <1>1, TypeInvCorrect, PTL
-----------------------------------------------------------------------------
(***************************************************************************)
(* Every request in one place.                                             *)
(***************************************************************************)
\* The numbers collected are those of the queue of results.
LEMMA CollectedNumbers == TypeOK => Collected = ToSet(Numbers(results))
<1> SUFFICES ASSUME TypeOK
             PROVE  Collected = ToSet(Numbers(results))
  OBVIOUS
<1>1. results \in Seq(Seqs \X Statuses)
  BY DEF TypeOK
<1>2. ToSet(Numbers(results)) = {results[i][1] : i \in DOMAIN results}
  BY <1>1, NumbersQueue
<1>3. QED
  BY <1>2 DEF Collected

\* The same of the next state.
LEMMA CollectedNumbersNext == (TypeOK => Collected = ToSet(Numbers(results)))'
BY CollectedNumbers, PTL

\* A step that moves no number.
LEMMA NothingMoves ==
    ASSUME OnceInv, UNCHANGED <<jobs, job, results, recorded>>
    PROVE  OnceInv' /\ Placed' = Placed
<1>1. InHand' = InHand /\ Collected' = Collected
  BY DEF InHand, Hands, Collected
<1>2. QED
  BY <1>1 DEF OnceInv, OneHand, Placed

\* The dispatcher puts a number into the queue that is nowhere yet.
LEMMA SendMoves ==
    ASSUME TypeInv, OnceInv, DispatchSend, reqCount \notin Placed
    PROVE  OnceInv' /\ Placed' = Placed \cup {reqCount}
<1>1. reqCount \in Seqs /\ jobs \in Seq(Seqs)
  BY ClientAssumption DEF DispatchSend, TypeInv, TypeOK, HandInv, Seqs
<1>2. ToSet(jobs') = ToSet(jobs) \cup {reqCount} /\ Distinct(jobs')
  BY <1>1, PutOn DEF DispatchSend, OnceInv, Placed
<1>3. InHand' = InHand /\ Collected' = Collected
  BY DEF DispatchSend, pool, InHand, Hands, Collected
<1>4. OneHand' /\ Distinct(Numbers(results))' /\ recorded' = recorded
  BY DEF DispatchSend, pool, tally, OnceInv, OneHand
<1>5. QED
  BY <1>2, <1>3, <1>4 DEF OnceInv, Placed

\* A worker with free hands takes a number out of the queue.
LEMMA TakeMoves ==
    ASSUME TypeInv, OnceInv, NEW w \in Workers, Take(w)
    PROVE  OnceInv' /\ Placed' = Placed
<1> DEFINE n == Head(jobs)
<1>1. jobs \in Seq(Seqs) /\ jobs # <<>> /\ Distinct(jobs)
  BY DEF Take, TypeInv, TypeOK, OnceInv
<1>2. n \in ToSet(jobs) /\ ToSet(jobs') = ToSet(jobs) \ {n} /\ Distinct(jobs')
  BY <1>1, TakeOff DEF Take
<1>3. n \in Seqs /\ n \notin InHand
  BY <1>1, <1>2, HeadTailProperties DEF OnceInv
<1>4. job[w] = NoJob /\ job' = [job EXCEPT ![w] = n] /\ job \in [Workers -> Seqs \cup {NoJob}]
  BY DEF Take, TypeInv, TypeOK, HandInv
<1>5. NoJob \notin Seqs
  BY ClientAssumption DEF NoJob, Seqs
<1> HIDE DEF n
<1>6. InHand' = InHand \cup {n}
  BY <1>3, <1>4, <1>5 DEF InHand, Hands
<1>7. OneHand'
  BY <1>3, <1>4, <1>5 DEF OnceInv, OneHand, InHand, Hands
<1>8. Collected' = Collected /\ Distinct(Numbers(results))' /\ recorded' = recorded
  BY DEF Take, tally, OnceInv, Collected
<1>9. QED
  BY <1>2, <1>6, <1>7, <1>8 DEF OnceInv, Placed

\* A worker puts its number into the queue of results and has free hands.
LEMMA ResultMoves ==
    ASSUME TypeInv, TypeInv', OnceInv, NEW w \in Workers, SendResult(w)
    PROVE  OnceInv' /\ Placed' = Placed
<1> DEFINE n == job[w]
<1>1. /\ results \in Seq(Seqs \X Statuses) /\ status[w] \in Statuses
      /\ n \in Seqs /\ n # NoJob /\ n \in InHand
  BY DEF SendResult, TypeInv, TypeOK, HandInv, InHand, Hands
<1>2. Numbers(results') = Append(Numbers(results), n) /\ Numbers(results) \in Seq(Seqs)
  BY <1>1, NumbersQueue DEF SendResult
<1>3. Collected = ToSet(Numbers(results)) /\ Collected' = ToSet(Numbers(results'))
  BY CollectedNumbers, CollectedNumbersNext DEF TypeInv
<1>4. n \notin Collected
  BY <1>1 DEF OnceInv
<1>5. Collected' = Collected \cup {n} /\ Distinct(Numbers(results'))
  BY <1>1, <1>2, <1>3, <1>4, PutOn DEF OnceInv
<1>6. job' = [job EXCEPT ![w] = NoJob] /\ job \in [Workers -> Seqs \cup {NoJob}]
  BY DEF SendResult, TypeInv, TypeOK
<1>7. InHand' = InHand \ {n} /\ OneHand'
  BY <1>1, <1>6 DEF InHand, Hands, OnceInv, OneHand
<1>8. jobs' = jobs /\ recorded' = recorded
  BY DEF SendResult, tally
<1>9. QED
  BY <1>1, <1>5, <1>7, <1>8 DEF OnceInv, Placed

\* The collector takes a number it has not recorded.
LEMMA RecordMoves ==
    ASSUME TypeInv, TypeInv', OnceInv, Record
    PROVE  /\ OnceInv' /\ Placed' = Placed
           /\ Head(results)[1] \notin recorded
<1> DEFINE n == Head(results)[1]
<1>1. results \in Seq(Seqs \X Statuses) /\ results # <<>>
  BY DEF Record, TypeInv, TypeOK
<1>2. /\ Numbers(results') = Tail(Numbers(results)) /\ Numbers(results) \in Seq(Seqs)
      /\ Numbers(results) # <<>> /\ Head(Numbers(results)) = n
  BY <1>1, NumbersQueue DEF Record
<1>3. Collected = ToSet(Numbers(results)) /\ Collected' = ToSet(Numbers(results'))
  BY CollectedNumbers, CollectedNumbersNext DEF TypeInv
<1>4. n \in Collected /\ Collected' = Collected \ {n} /\ Distinct(Numbers(results'))
  BY <1>2, <1>3, TakeOff DEF OnceInv
<1>5. recorded' = recorded \cup {n} /\ jobs' = jobs /\ InHand' = InHand /\ OneHand'
  BY DEF Record, pool, InHand, Hands, OnceInv, OneHand
<1>6. n \notin recorded
  BY <1>4 DEF OnceInv
<1>7. QED
  BY <1>4, <1>5, <1>6 DEF OnceInv, Placed

\* At first there are no numbers.
LEMMA RequestInit == Init => RequestInv
<1> SUFFICES ASSUME Init
             PROVE  RequestInv
  OBVIOUS
<1>1. ToSet(jobs) = {} /\ Distinct(jobs)
  BY DEF Init, ToSet, Distinct
<1>2. Collected = {} /\ Distinct(Numbers(results))
  BY DEF Init, Collected, Distinct, Numbers
<1>3. InHand = {} /\ OneHand
  BY DEF Init, InHand, Hands, OneHand
<1>4. 1..reqCount = {}
  BY DEF Init
<1>5. QED
  BY <1>1, <1>2, <1>3, <1>4 DEF Init, RequestInv, OnceInv, PlacedInv, Placed

\* The dispatcher numbers a job, which is then nowhere, and sends it.
LEMMA DispatcherOnce ==
    ASSUME TypeInv, RequestInv, Dispatcher
    PROVE  RequestInv'
<1> USE ClientAssumption DEF RequestInv
<1>1. CASE DispatchCheck
  <2>1. OnceInv' /\ Placed' = Placed
    BY <1>1, NothingMoves DEF DispatchCheck, pool, tally
  <2>2. reqCount \in 0..Requests /\ Placed = 1..reqCount
    BY <1>1 DEF DispatchCheck, PlacedInv, TypeInv, TypeOK
  <2>3. CASE cancelled \/ reqCount >= Requests
    BY <1>1, <2>1, <2>2, <2>3 DEF DispatchCheck, PlacedInv, Seqs
  <2>4. CASE ~(cancelled \/ reqCount >= Requests)
    BY <1>1, <2>1, <2>2, <2>4 DEF DispatchCheck, PlacedInv
  <2>5. QED
    BY <2>3, <2>4
<1>2. CASE DispatchSend
  <2>1. Placed = 1..(reqCount - 1) /\ reqCount \in 1..Requests
    BY <1>2 DEF DispatchSend, PlacedInv, TypeInv, TypeOK, HandInv
  <2>2. reqCount \notin Placed /\ Placed \cup {reqCount} = 1..reqCount
    BY <2>1
  <2>3. OnceInv' /\ Placed' = 1..reqCount
    BY <1>2, <2>2, SendMoves
  <2>4. QED
    BY <1>2, <2>3 DEF DispatchSend, PlacedInv
<1>3. CASE DispatchPace \/ DispatchCancel
  <2>1. OnceInv' /\ Placed' = Placed
    BY <1>3, NothingMoves DEF DispatchPace, DispatchCancel, pool, tally
  <2>2. QED
    BY <1>3, <2>1 DEF DispatchPace, DispatchCancel, PlacedInv
<1>4. QED
  BY <1>1, <1>2, <1>3 DEF Dispatcher

\* Nobody else changes what is placed.
LEMMA RequestStep == TypeInv /\ TypeInv' /\ RequestInv /\ [Next]_vars => RequestInv'
<1> SUFFICES ASSUME TypeInv, TypeInv', RequestInv, [Next]_vars
             PROVE  RequestInv'
  OBVIOUS
<1> USE DEF RequestInv
<1>1. ASSUME UNCHANGED <<dispatcher, reqCount>>, cancelled => cancelled', OnceInv', Placed' = Placed
      PROVE  RequestInv'
  BY <1>1 DEF PlacedInv
<1>2. ASSUME NEW w \in Workers, Worker(w)
      PROVE  RequestInv'
  <2>1. CASE Take(w)
    BY <1>1, <2>1, TakeMoves DEF Take, feed
  <2>2. CASE SendResult(w)
    BY <1>1, <2>2, ResultMoves DEF SendResult, feed
  <2>3. CASE WorkerReturn(w) \/ ExecuteRequest(w)
    BY <1>1, <2>3, NothingMoves DEF WorkerReturn, ExecuteRequest, feed, tally
  <2>4. QED
    BY <1>2, <2>1, <2>2, <2>3 DEF Worker
<1>3. CASE Record
  BY <1>1, <1>3, RecordMoves DEF Record, feed
<1>4. CASE Interrupt \/ CollectorReturn \/ CloseResults \/ PrintSummary \/ UNCHANGED vars
  BY <1>1, <1>4, NothingMoves
  DEF Interrupt, CollectorReturn, CloseResults, PrintSummary, vars, feed, pool, tally
<1>5. QED
  BY <1>2, <1>3, <1>4, DispatcherOnce DEF Next, Ended

\* No number is ever lost or handed out twice.
LEMMA RequestInvCorrect == Spec => []RequestInv
BY RequestInit, RequestStep, TypeInvCorrect, PTL DEF Spec

\* As many numbers are in hand as there are workers with one.
LEMMA HandCardinality ==
    ASSUME OneHand
    PROVE  IsFiniteSet(InHand) /\ Cardinality(InHand) = Cardinality(Hands)
<1> DEFINE f == [w \in Hands |-> job[w]]
<1>1. IsFiniteSet(Hands)
  BY ClientAssumption, FS_Subset DEF Hands
<1>2. f \in Bijection(Hands, InHand)
  BY DEF Bijection, Injection, IsInjective, Surjection, OneHand, InHand, Hands
<1>3. QED
  BY <1>1, <1>2, FS_Bijection DEF ExistsBijection

\* Four finite sets that are pairwise apart add up.
LEMMA ApartCardinality ==
    ASSUME NEW A, NEW B, NEW C, NEW D,
           IsFiniteSet(A), IsFiniteSet(B), IsFiniteSet(C), IsFiniteSet(D),
           A \cap B = {}, A \cap C = {}, A \cap D = {}, B \cap C = {}, B \cap D = {}, C \cap D = {}
    PROVE  Cardinality(A \cup B \cup C \cup D)
             = Cardinality(A) + Cardinality(B) + Cardinality(C) + Cardinality(D)
<1>1. /\ Cardinality(A) \in Nat /\ Cardinality(B) \in Nat
      /\ Cardinality(C) \in Nat /\ Cardinality(D) \in Nat /\ Cardinality({}) = 0
  BY FS_CardinalityType, FS_EmptySet
<1>2. ASSUME NEW S, NEW T, IsFiniteSet(S), IsFiniteSet(T), S \cap T = {}
      PROVE  IsFiniteSet(S \cup T) /\ Cardinality(S \cup T) = Cardinality(S) + Cardinality(T)
  <2>1. Cardinality(S) \in Nat /\ Cardinality(T) \in Nat /\ Cardinality(S \cap T) = 0
    BY <1>2, FS_CardinalityType, FS_EmptySet
  <2>2. /\ IsFiniteSet(S \cup T)
        /\ Cardinality(S \cup T) = Cardinality(S) + Cardinality(T) - Cardinality(S \cap T)
    BY <1>2, FS_Union
  <2>3. QED
    BY <2>1, <2>2
<1>3. IsFiniteSet(A \cup B) /\ Cardinality(A \cup B) = Cardinality(A) + Cardinality(B)
  BY <1>2
<1>4. (A \cup B) \cap C = {} /\ (A \cup B \cup C) \cap D = {}
  OBVIOUS
<1>5. /\ IsFiniteSet(A \cup B \cup C)
      /\ Cardinality(A \cup B \cup C) = Cardinality(A \cup B) + Cardinality(C)
  BY <1>2, <1>3, <1>4
<1>6. Cardinality(A \cup B \cup C \cup D) = Cardinality(A \cup B \cup C) + Cardinality(D)
  BY <1>2, <1>4, <1>5
<1>7. QED
  BY <1>1, <1>3, <1>5, <1>6

\* Each request is in one place only and none is lost, whichever goroutine an
\* interrupt meets where (main.go:222-313).
THEOREM EachRequestOnceCorrect == Spec => []EachRequestOnce
<1>1. ASSUME TypeInv, RequestInv
      PROVE  EachRequestOnce
  <2>1. jobs \in Seq(Seqs) /\ results \in Seq(Seqs \X Statuses) /\ recorded \subseteq Seqs
    BY <1>1 DEF TypeInv, TypeOK
  <2>2. IsFiniteSet(ToSet(jobs)) /\ Cardinality(ToSet(jobs)) = Len(jobs)
    BY <1>1, <2>1, QueueCardinality DEF RequestInv, OnceInv
  <2>3. IsFiniteSet(InHand) /\ Cardinality(InHand) = Cardinality(Hands)
    BY <1>1, HandCardinality DEF RequestInv, OnceInv
  <2>4. IsFiniteSet(Collected) /\ Cardinality(Collected) = Len(results)
    <3>1. Numbers(results) \in Seq(Seqs) /\ Len(Numbers(results)) = Len(results)
      BY <2>1, NumbersQueue
    <3>2. Collected = ToSet(Numbers(results)) /\ Distinct(Numbers(results))
      BY <1>1, CollectedNumbers DEF TypeInv, RequestInv, OnceInv
    <3>3. QED
      BY <3>1, <3>2, QueueCardinality
  <2>5. IsFiniteSet(recorded)
    <3>1. IsFiniteSet(Seqs)
      BY ClientAssumption, FS_Interval DEF Seqs
    <3>2. QED
      BY <2>1, <3>1, FS_Subset
  <2>6. Cardinality(Placed) =
          Len(jobs) + Cardinality(Hands) + Len(results) + Cardinality(recorded)
    BY <1>1, <2>2, <2>3, <2>4, <2>5, ApartCardinality DEF RequestInv, OnceInv, Placed
  <2>7. Placed \in {1..reqCount, 1..(reqCount - 1)}
    BY <1>1 DEF RequestInv, PlacedInv, TypeInv, TypeOK
  <2>8. QED
    BY <2>6, <2>7 DEF EachRequestOnce, Placed
<1>2. QED
  BY <1>1, TypeInvCorrect, RequestInvCorrect, PTL
-----------------------------------------------------------------------------
(***************************************************************************)
(* The end of a run.                                                       *)
(***************************************************************************)
\* What has ended does not begin again, and ends after what feeds it.
LEMMA EndStep == TypeInv /\ EndInv /\ [Next]_vars => EndInv'
<1> SUFFICES ASSUME TypeInv, EndInv, [Next]_vars
             PROVE  EndInv'
  OBVIOUS
<1> USE DEF EndInv, feed, pool, tally
<1>1. CASE main # "summary" /\ Dispatcher
  BY <1>1 DEF Dispatcher, DispatchCheck, DispatchSend, DispatchPace, DispatchCancel
<1>2. ASSUME NEW w \in Workers, Worker(w)
      PROVE  EndInv'
  <2>1. worker[w] # "returned" /\ main = "workers" /\ collector # "returned"
    BY <1>2 DEF Worker, Take, WorkerReturn, ExecuteRequest, SendResult
  <2>2. main' = main /\ collector' = collector
    BY <1>2 DEF Worker, Take, WorkerReturn, ExecuteRequest, SendResult
  <2>3. ASSUME NEW v \in Workers, worker'[v] = "returned", ~cancelled'
        PROVE  dispatcher' = "returned" /\ jobs' = <<>>
    BY <1>2, <2>1, <2>3 DEF Worker, Take, WorkerReturn, ExecuteRequest, SendResult, TypeInv, TypeOK
  <2>4. QED
    BY <2>1, <2>2, <2>3
<1>3. CASE Interrupt \/ Record \/ CollectorReturn \/ CloseResults \/ PrintSummary \/ UNCHANGED vars
  BY <1>3 DEF Interrupt, Record, CollectorReturn, CloseResults, PrintSummary, vars
<1>4. QED
  BY <1>1, <1>2, <1>3 DEF Next, Ended

\* The goroutines always end in their order.
LEMMA EndInvCorrect == Spec => []EndInv
<1>1. Init => EndInv
  BY DEF Init, EndInv
<1>2. QED
  BY <1>1, EndStep, TypeInvCorrect, PTL DEF Spec

\* resultsChan is closed only when no worker will send to it any more
\* (main.go:251, 308-309).
THEOREM NoSendOnClosedCorrect == Spec => []NoSendOnClosed
<1>1. EndInv => NoSendOnClosed
  BY DEF EndInv, NoSendOnClosed
<1>2. QED
  BY <1>1, EndInvCorrect, PTL

\* What is recorded is counted once, in one of the counters.
LEMMA TallyStep == TypeInv /\ TypeInv' /\ RequestInv /\ TallyInv /\ [Next]_vars => TallyInv'
<1> SUFFICES ASSUME TypeInv, TypeInv', RequestInv, TallyInv, [Next]_vars
             PROVE  TallyInv'
  OBVIOUS
<1>1. CASE Record
  <2> DEFINE n == Head(results)[1]
  <2> DEFINE k == Counter(Head(results)[2])
  <2>1. n \notin recorded
    BY <1>1, RecordMoves DEF RequestInv
  <2>2. IsFiniteSet(recorded') /\ Cardinality(recorded') = Cardinality(recorded) + 1
    BY <1>1, <2>1, FS_AddElement DEF Record, TallyInv
  <2>3. k \in Counters /\ tracker \in [Counters -> Nat]
    BY CounterType DEF TypeInv, TypeOK
  <2>4. tracker' = [tracker EXCEPT ![k] = @ + 1]
    BY <1>1 DEF Record
  <2> HIDE DEF n, k
  <2>5. Total' = Total + 1
    BY <2>3, <2>4 DEF Total, Counters
  <2>6. QED
    BY <2>2, <2>5 DEF TallyInv
<1>2. CASE UNCHANGED <<tracker, recorded>>
  BY <1>2 DEF TallyInv, Total
<1>3. QED
  BY <1>1, <1>2
  DEF Next, Dispatcher, DispatchCheck, DispatchSend, DispatchPace, DispatchCancel, Worker, Take,
      WorkerReturn, ExecuteRequest, SendResult, Interrupt, CollectorReturn, CloseResults, PrintSummary,
      Ended, vars, tally

\* The counters always add up to the numbers recorded.
LEMMA TallyCorrect == Spec => []TallyInv
<1>1. Init => TallyInv
  BY FS_EmptySet DEF Init, TallyInv, Total, Counters
<1>2. QED
  BY <1>1, TallyStep, TypeInvCorrect, RequestInvCorrect, PTL DEF Spec

\* When the summary is printed no request is under way, each that a worker took
\* is counted, and without an interrupt all are (main.go:308-313).
THEOREM SummaryIsCompleteCorrect == Spec => []SummaryIsComplete
<1>1. ASSUME TypeInv, RequestInv, EndInv, TallyInv, main = "summary"
      PROVE  /\ 1..(reqCount - 1) \subseteq recorded \cup ToSet(jobs)
             /\ ~cancelled => recorded = Seqs
             /\ Total = Cardinality(recorded)
  <2>1. results = <<>> /\ \A w \in Workers : worker[w] = "returned"
    BY <1>1 DEF EndInv
  <2>2. InHand = {} /\ Collected = {}
    BY <1>1, <2>1 DEF TypeInv, HandInv, InHand, Hands, Collected
  <2>3. Placed = recorded \cup ToSet(jobs)
    BY <2>2 DEF Placed
  <2>4. reqCount \in Nat /\ Placed \in {1..reqCount, 1..(reqCount - 1)}
    BY <1>1, ClientAssumption DEF TypeInv, TypeOK, RequestInv, PlacedInv
  <2>5. 1..(reqCount - 1) \subseteq Placed
    BY <2>4
  <2>6. ASSUME ~cancelled
        PROVE  recorded = Seqs
    <3>1. dispatcher = "returned" /\ jobs = <<>>
      BY <1>1, <2>1, <2>6, ClientAssumption DEF EndInv
    <3>2. ToSet(jobs) = {}
      BY <3>1 DEF ToSet
    <3>3. QED
      BY <1>1, <2>3, <2>6, <3>1, <3>2 DEF RequestInv, PlacedInv
  <2>7. QED
    BY <1>1, <2>3, <2>5, <2>6 DEF TallyInv
<1>2. TypeInv /\ RequestInv /\ EndInv /\ TallyInv => SummaryIsComplete
  BY <1>1 DEF SummaryIsComplete, Total
<1>3. QED
  BY <1>2, TypeInvCorrect, RequestInvCorrect, EndInvCorrect, TallyCorrect, PTL
=============================================================================

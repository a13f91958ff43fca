----------------------------- MODULE LoadClient -----------------------------
(***************************************************************************)
(* The load client (src/cmd/client/main.go): a dispatcher feeds jobsChan,  *)
(* a pool of workers turns jobs into HTTP requests and their results into  *)
(* resultsChan, a collector adds these up, and main waits for the workers, *)
(* closes resultsChan, waits for the collector and prints the summary.  An *)
(* interrupt cancels the context all but the collector watch.              *)
(*                                                                         *)
(* A job is its SeqNum, a result the SeqNum with the status that came      *)
(* back, 0 for none.  Closing a channel and returning are one step: no     *)
(* goroutine has anything left to do in between.                           *)
(***************************************************************************)
EXTENDS Integers, FiniteSets, SequencesExt

CONSTANTS
    Workers,   \* the goroutines: -threads of them
    Requests,  \* -requests; a run without limit is not modelled
    Statuses   \* statuses the server may send, 0 for a failed request

ASSUME ClientAssumption ==
    /\ IsFiniteSet(Workers) /\ Workers # {}
    /\ Requests \in Nat \ {0}
    /\ Statuses \subseteq Nat

NoJob == 0
Capacity == 2 * Cardinality(Workers)  \* of both channels
Counters == {"success200", "pending202", "clientErrors", "serverErrors"}

VARIABLES
    cancelled,   \* ctx is cancelled
    dispatcher,  \* control point of the dispatcher
    reqCount,    \* jobs it has numbered
    jobs,        \* jobsChan, closed once the dispatcher has returned
    worker,      \* control point of each worker
    job,         \* SeqNum it works on
    status,      \* status it has received
    results,     \* resultsChan, closed once main is past workersWg.Wait
    collector,   \* control point of the collector
    tracker,     \* the counters of MetricsTracker
    main,        \* what main waits for
    recorded     \* history: SeqNums the collector has recorded

pool == <<worker, job, status>>
feed == <<dispatcher, reqCount>>
tally == <<collector, tracker, recorded>>
vars == <<cancelled, feed, jobs, pool, results, tally, main>>

Seqs == 1..Requests

TypeOK ==
    /\ cancelled \in BOOLEAN
    /\ dispatcher \in {"check", "send", "pace", "returned"}
    /\ reqCount \in 0..Requests
    /\ jobs \in Seq(Seqs) /\ Len(jobs) <= Capacity
    /\ worker \in [Workers -> {"select", "request", "send", "returned"}]
    /\ job \in [Workers -> Seqs \cup {NoJob}]
    /\ status \in [Workers -> Statuses \cup {0}]
    /\ results \in Seq(Seqs \X Statuses) /\ Len(results) <= Capacity
    /\ collector \in {"receive", "returned"}
    /\ tracker \in [Counters -> Nat]
    /\ main \in {"workers", "collector", "summary"}
    /\ recorded \subseteq Seqs

Init ==
    /\ cancelled = FALSE
    /\ dispatcher = "check"
    /\ reqCount = 0
    /\ jobs = <<>>
    /\ worker = [w \in Workers |-> "select"]
    /\ job = [w \in Workers |-> NoJob]
    /\ status = [w \in Workers |-> 0]
    /\ results = <<>>
    /\ collector = "receive"
    /\ tracker = [k \in Counters |-> 0]
    /\ main = "workers"
    /\ recorded = {}
-----------------------------------------------------------------------------
\* SIGINT or SIGTERM: cancel().
Interrupt ==
    /\ ~cancelled
    /\ main # "summary"
    /\ cancelled' = TRUE
    /\ UNCHANGED <<feed, jobs, pool, results, tally, main>>

(***************************************************************************)
(* The dispatcher.                                                         *)
(***************************************************************************)
DispatchOneMore ==
    /\ dispatcher = "check"
    /\ IF cancelled \/ reqCount > Requests
         THEN dispatcher' = "returned" /\ UNCHANGED reqCount
         ELSE dispatcher' = "send" /\ reqCount' = reqCount + 1
    /\ UNCHANGED <<cancelled, jobs, pool, results, tally, main>>

\* The top of the loop: return when cancelled or done, else number a job.
DispatchCheck ==
    /\ dispatcher = "check"
    /\ IF cancelled \/ reqCount >= Requests
         THEN dispatcher' = "returned" /\ UNCHANGED reqCount
         ELSE dispatcher' = "send" /\ reqCount' = reqCount + 1
    /\ UNCHANGED <<cancelled, jobs, pool, results, tally, main>>

DispatchSend ==
    /\ dispatcher = "send"
    /\ Len(jobs) < Capacity
    /\ jobs' = Append(jobs, reqCount)
    /\ dispatcher' = "pace"
    /\ UNCHANGED <<cancelled, reqCount, pool, results, tally, main>>

\* interval / threads has passed.
DispatchPace ==
    /\ dispatcher = "pace"
    /\ dispatcher' = "check"
    /\ UNCHANGED <<cancelled, reqCount, jobs, pool, results, tally, main>>

\* Both selects of the loop watch ctx.
DispatchCancel ==
    /\ dispatcher \in {"send", "pace"}
    /\ cancelled
    /\ dispatcher' = "returned"
    /\ UNCHANGED <<cancelled, reqCount, jobs, pool, results, tally, main>>
-----------------------------------------------------------------------------
(***************************************************************************)
(* A worker.                                                               *)
(***************************************************************************)
Take(w) ==
    /\ worker[w] = "select"
    /\ jobs # <<>>
    /\ job' = [job EXCEPT ![w] = Head(jobs)]
    /\ jobs' = Tail(jobs)
    /\ worker' = [worker EXCEPT ![w] = "request"]
    /\ UNCHANGED <<cancelled, feed, status, results, tally, main>>

ReturnOnCancel(w) ==
    /\ worker[w] = "select"
    /\ cancelled
    /\ worker' = [worker EXCEPT ![w] = "returned"]
    /\ UNCHANGED <<cancelled, feed, jobs, job, status, results, tally, main>>

\* jobsChan is closed and empty, or ctx is cancelled: the worker returns.
WorkerReturn(w) ==
    /\ worker[w] = "select"
    /\ (dispatcher = "returned" /\ jobs = <<>>) \/ cancelled
    /\ worker' = [worker EXCEPT ![w] = "returned"]
    /\ UNCHANGED <<cancelled, feed, jobs, job, status, results, tally, main>>

\* executeRequest returns, after -timeout at the latest or once ctx is
\* cancelled; either may lose against an answer.
ExecuteRequest(w) ==
    /\ worker[w] = "request"
    /\ \E s \in Statuses : status' = [status EXCEPT ![w] = s]
    /\ worker' = [worker EXCEPT ![w] = "send"]
    /\ UNCHANGED <<cancelled, feed, jobs, job, results, tally, main>>

SendOrCancel(w) ==
    /\ worker[w] = "send"
    /\ \/ Len(results) < Capacity /\ results' = Append(results, <<job[w], status[w]>>)
       \/ cancelled /\ UNCHANGED results
    /\ worker' = [worker EXCEPT ![w] = "select"]
    /\ job' = [job EXCEPT ![w] = NoJob]
    /\ status' = [status EXCEPT ![w] = 0]
    /\ UNCHANGED <<cancelled, feed, jobs, tally, main>>

\* The send of the result watches nothing else.
SendResult(w) ==
    /\ worker[w] = "send"
    /\ Len(results) < Capacity
    /\ results' = Append(results, <<job[w], status[w]>>)
    /\ worker' = [worker EXCEPT ![w] = "select"]
    /\ job' = [job EXCEPT ![w] = NoJob]
    /\ status' = [status EXCEPT ![w] = 0]
    /\ UNCHANGED <<cancelled, feed, jobs, tally, main>>

Worker(w) == Take(w) \/ WorkerReturn(w) \/ ExecuteRequest(w) \/ SendResult(w)
-----------------------------------------------------------------------------
\* The switch of Record: a request without answer counts as a server error.
Counter(s) ==
    CASE s = 200 -> "success200"
      [] s = 202 -> "pending202"
      [] s \in 400..499 -> "clientErrors"
      [] OTHER -> "serverErrors"

Record ==
    /\ collector = "receive"
    /\ results # <<>>
    /\ results' = Tail(results)
    /\ tracker' = [tracker EXCEPT ![Counter(Head(results)[2])] = @ + 1]
    /\ recorded' = recorded \cup {Head(results)[1]}
    /\ UNCHANGED <<cancelled, feed, jobs, pool, collector, main>>

CollectorReturnEarly ==
    /\ collector = "receive"
    /\ main # "workers"
    /\ collector' = "returned"
    /\ UNCHANGED <<cancelled, feed, jobs, pool, results, tracker, recorded, main>>

\* The range over resultsChan ends: it is closed and empty.
CollectorReturn ==
    /\ collector = "receive"
    /\ main # "workers"
    /\ results = <<>>
    /\ collector' = "returned"
    /\ UNCHANGED <<cancelled, feed, jobs, pool, results, tracker, recorded, main>>

CloseWithDispatcher ==
    /\ main = "workers"
    /\ dispatcher = "returned" /\ jobs = <<>>
    /\ main' = "collector"
    /\ UNCHANGED <<cancelled, feed, jobs, pool, results, tally>>

\* workersWg.Wait returns; close(resultsChan).
CloseResults ==
    /\ main = "workers"
    /\ \A w \in Workers : worker[w] = "returned"
    /\ main' = "collector"
    /\ UNCHANGED <<cancelled, feed, jobs, pool, results, tally>>

\* collectorWg.Wait returns; PrintSummary.
PrintSummary ==
    /\ main = "collector"
    /\ collector = "returned"
    /\ main' = "summary"
    /\ UNCHANGED <<cancelled, feed, jobs, pool, results, tally>>

\* The process has ended, the dispatcher with it.
Ended == main = "summary" /\ UNCHANGED vars

Dispatcher == DispatchCheck \/ DispatchSend \/ DispatchPace \/ DispatchCancel

Next ==
    \/ main # "summary" /\ Dispatcher
    \/ \E w \in Workers : Worker(w)
    \/ Interrupt \/ Record \/ CollectorReturn \/ CloseResults \/ PrintSummary \/ Ended

Spec == Init /\ [][Next]_vars

\* Every goroutine runs and every request ends; nobody has to interrupt.
FairSpec ==
    /\ Spec
    /\ WF_vars(main # "summary" /\ Dispatcher)
    /\ \A w \in Workers : WF_vars(Worker(w))
    /\ WF_vars(Record \/ CollectorReturn)
    /\ WF_vars(CloseResults \/ PrintSummary)
-----------------------------------------------------------------------------
Hands == {w \in Workers : job[w] # NoJob}
InHand == {job[w] : w \in Hands}
Collected == {results[i][1] : i \in DOMAIN results}

(***************************************************************************)
(* A number handed out is in one place only, in a channel, with a worker   *)
(* or recorded, and none is lost on the way, whichever goroutine is        *)
(* interrupted where (only the last one may not have been sent).           *)
(***************************************************************************)
EachRequestOnce ==
    LET places == ToSet(jobs) \cup InHand \cup Collected \cup recorded
    IN  /\ places \in {1..reqCount, 1..(reqCount - 1)}
        /\ Cardinality(places) =
              Len(jobs) + Cardinality(Hands) + Len(results) + Cardinality(recorded)

(***************************************************************************)
(* resultsChan is closed only when nobody will send to it any more; a send *)
(* would panic (main.go:251, 308-309).                                     *)
(***************************************************************************)
NoSendOnClosed == main # "workers" => \A w \in Workers : worker[w] \notin {"request", "send"}

(***************************************************************************)
(* The summary accounts for every request a worker took from the queue,    *)
(* and without an interrupt for all that were asked for (main.go:308-313). *)
(***************************************************************************)
SummaryIsComplete ==
    main = "summary" =>
        /\ 1..(reqCount - 1) \subseteq recorded \cup ToSet(jobs)
        /\ ~cancelled => recorded = Seqs
        /\ tracker["success200"] + tracker["pending202"] + tracker["clientErrors"]
             + tracker["serverErrors"] = Cardinality(recorded)

(***************************************************************************)
(* The client ends by itself after the last request and on an interrupt,   *)
(* also with full channels and requests under way (main.go:308-310).       *)
(***************************************************************************)
Terminates == <>(main = "summary")
=============================================================================

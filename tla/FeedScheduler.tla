----------------------------- MODULE FeedScheduler -----------------------------
(***************************************************************************)
(* One monotonic schedule and one active HTTP request per feed.            *)
(*                                                                         *)
(*   bkk_collector/realtime/realtime_scheduler.py IndependentFeedScheduler *)
(*   bkk_collector/collector.py  run (get / process / acknowledge / drain) *)
(*                                                                         *)
(* Three kinds of threads meet here.  The scheduler thread runs step():    *)
(* under the lock it moves finished requests into its "ready" list and     *)
(* submits what is due; after releasing the lock it puts the ready items   *)
(* into the bounded result queue.  The executor's workers finish requests  *)
(* at any time.  The main thread takes one item at a time, processes and   *)
(* acknowledges it, and at shutdown stops the scheduler and drains.        *)
(*                                                                         *)
(* Poll ids are unique; the n-th request of a feed is poll n of that feed. *)
(* Time is a natural number of ticks since start().  A request that raises *)
(* completes its future like any other and is not distinguished here.      *)
(***************************************************************************)
EXTENDS Integers, Sequences, FiniteSets, FiniteSetsExt

CONSTANTS
  Feeds,
  Interval,     \* interval_seconds of each feed, in ticks
  Hung,         \* feeds whose requests need not ever return
  MaxTime       \* bound on the clock

ASSUME SchedulerAssumption ==
  /\ IsFiniteSet(Feeds)
  /\ Interval \in [Feeds -> Nat \ {0}]
  /\ Hung \subseteq Feeds
  /\ MaxTime \in Nat

VARIABLES
  now,
  \* FeedSchedule, guarded by the lock
  nextDeadline,   \* next_deadline
  future,         \* the poll of the current Future, or None
  resultPending,  \* result_pending
  pendingPoll,    \* pending_poll_id
  submitted,      \* total_submitted
  completed,      \* total_completed
  missed,         \* total_missed_deadlines
  missedSince,    \* missed_since_last_request
  missedBefore,   \* active_missed_before_request
  accepting,
  \* the executor
  running,        \* requests in progress: pairs <<feed, poll>>
  \* the scheduler thread
  spc, at, ready,
  \* the bounded result queue
  results,
  \* the main thread
  mpc, item, drained,
  \* history: per feed, the polls handed to the processor and the missed
  \* deadlines reported with them
  handled, reported

state  == <<nextDeadline, future, resultPending, pendingPoll, submitted, completed,
            missed, missedSince, missedBefore>>
thread == <<spc, at>>
main   == <<mpc, item, drained>>
ghost  == <<handled, reported>>
vars   == <<now, state, accepting, running, thread, ready, results, main, ghost>>

None == 0
Poll == Nat \ {0}
Item == [feed : Feeds, poll : Poll, missed : Nat]
NoItem == [feed |-> "none", poll |-> None, missed |-> 0]

TypeOK ==
  /\ now \in 0..MaxTime
  /\ nextDeadline \in [Feeds -> Nat]
  /\ future \in [Feeds -> Nat]
  /\ resultPending \in [Feeds -> BOOLEAN]
  /\ pendingPoll \in [Feeds -> Nat]
  /\ submitted \in [Feeds -> Nat]
  /\ completed \in [Feeds -> Nat]
  /\ missed \in [Feeds -> Nat]
  /\ missedSince \in [Feeds -> Nat]
  /\ missedBefore \in [Feeds -> Nat]
  /\ accepting \in BOOLEAN
  /\ running \subseteq Feeds \X Poll
  /\ spc \in {"wait", "step", "put", "exit"}
  /\ at \in 0..now
  /\ ready \subseteq Item
  /\ results \in Seq(Item)
  /\ mpc \in {"loop", "process", "stopping", "join", "shutdown", "drain",
              "lastStep", "lastPut", "handle", "exited"}
  /\ item \in IF mpc = "process" THEN Item ELSE {NoItem}
  /\ drained \in Seq(Item)
  /\ handled \in [Feeds -> Seq(Poll)]
  /\ reported \in [Feeds -> Nat]

Init ==
  /\ now = 0
  /\ nextDeadline = [f \in Feeds |-> 0]
  /\ future = [f \in Feeds |-> None]
  /\ resultPending = [f \in Feeds |-> FALSE]
  /\ pendingPoll = [f \in Feeds |-> None]
  /\ submitted = [f \in Feeds |-> 0]
  /\ completed = [f \in Feeds |-> 0]
  /\ missed = [f \in Feeds |-> 0]
  /\ missedSince = [f \in Feeds |-> 0]
  /\ missedBefore = [f \in Feeds |-> 0]
  /\ accepting = TRUE
  /\ running = {}
  /\ spc = "wait" /\ at = 0 /\ ready = {}
  /\ results = <<>>
  /\ mpc = "loop" /\ item = NoItem /\ drained = <<>>
  /\ handled = [f \in Feeds |-> <<>>]
  /\ reported = [f \in Feeds |-> 0]

--------------------------------------------------------------------------------
(* step(), the part under the lock *)

\* First loop: a terminal future moves on once its predecessor is acknowledged.
Moves(f) == future[f] # None /\ <<f, future[f]>> \notin running /\ ~resultPending[f]

\* due_count of the second loop; zero when nothing is due.
Due(f, current) ==
  IF accepting /\ current >= nextDeadline[f]
  THEN ((current - nextDeadline[f]) \div Interval[f]) + 1
  ELSE 0

\* Mutant: wait for every feed's request.
Submits_OneAtATime(f, current) == Due(f, current) > 0 /\ running = {}

\* Only a feed without a request in progress submits; the first loop ran before.
Submits(f, current) == Due(f, current) > 0 /\ (future[f] = None \/ Moves(f))

\* Mutant: one that falls into an active request is not counted.
Coalesced_Uncounted(f, current) ==
  IF Due(f, current) > 0 THEN Due(f, current) - 1 ELSE 0

\* Deadlines that get no request of their own.
Coalesced(f, current) ==
  IF Submits(f, current) THEN Due(f, current) - 1 ELSE Due(f, current)

\* missed_since_last_request after the step, and what a request submitted in
\* this step takes along as missed_deadlines_before_request.
Unreported(f, current) == missedSince[f] + Coalesced(f, current)
SinceRequest(f, current) == IF Submits(f, current) THEN 0 ELSE Unreported(f, current)

Step(current) ==
  /\ ready' = {[feed |-> f, poll |-> future[f], missed |-> missedBefore[f]] :
                 f \in {g \in Feeds : Moves(g)}}
  /\ resultPending' = [f \in Feeds |-> resultPending[f] \/ Moves(f)]
  /\ pendingPoll' = [f \in Feeds |-> IF Moves(f) THEN future[f] ELSE pendingPoll[f]]
  /\ completed' = [f \in Feeds |-> completed[f] + (IF Moves(f) THEN 1 ELSE 0)]
  /\ nextDeadline' = [f \in Feeds |-> nextDeadline[f] + Due(f, current) * Interval[f]]
  /\ missed' = [f \in Feeds |-> missed[f] + Coalesced(f, current)]
  /\ missedSince' = [f \in Feeds |-> SinceRequest(f, current)]
  /\ missedBefore' = [f \in Feeds |->
       IF Submits(f, current) THEN Unreported(f, current) ELSE missedBefore[f]]
  /\ submitted' = [f \in Feeds |-> submitted[f] + (IF Submits(f, current) THEN 1 ELSE 0)]
  /\ future' = [f \in Feeds |->
       IF Submits(f, current) THEN submitted[f] + 1
       ELSE IF Moves(f) THEN None ELSE future[f]]
  /\ running' = running \cup
       {<<f, submitted[f] + 1>> : f \in {g \in Feeds : Submits(g, current)}}

\* put_nowait of one ready item.  A full queue would raise and lose the item:
\* BacklogBounded says that this never happens.
PutNowait ==
  \E i \in ready : results' = Append(results, i) /\ ready' = ready \ {i}

--------------------------------------------------------------------------------
(* The scheduler thread: _run *)

StopSet == mpc \notin {"loop", "process", "stopping"}

\* wait() returns within a second, or early on wake; the clock is read before
\* the lock is taken, so that the step may work with a stale time.
Wake ==
  /\ spc = "wait" /\ ~StopSet
  /\ spc' = "step"
  /\ at' = now
  /\ UNCHANGED <<now, state, accepting, running, ready, results, main, ghost>>

LockedStep ==
  /\ spc = "step"
  /\ Step(at)
  /\ spc' = "put"
  /\ UNCHANGED <<now, accepting, at, results, main, ghost>>

PutReady ==
  /\ spc = "put"
  /\ PutNowait
  /\ UNCHANGED <<now, state, accepting, running, thread, main, ghost>>

EndStep ==
  /\ spc = "put" /\ ready = {}
  /\ spc' = "wait"
  /\ UNCHANGED <<now, state, accepting, running, at, ready, results, main, ghost>>

ThreadExit ==
  /\ spc = "wait" /\ StopSet
  /\ spc' = "exit"
  /\ UNCHANGED <<now, state, accepting, running, at, ready, results, main, ghost>>

--------------------------------------------------------------------------------
(* The environment: the clock and the executor's workers *)

Tick ==
  /\ now < MaxTime
  /\ now' = now + 1
  /\ UNCHANGED <<state, accepting, running, thread, ready, results, main, ghost>>

Complete(f) ==
  /\ \E p \in running : p[1] = f /\ running' = running \ {p}
  /\ UNCHANGED <<now, state, accepting, thread, ready, results, main, ghost>>

--------------------------------------------------------------------------------
(* The main thread *)

Handle(i) ==
  /\ handled' = [handled EXCEPT ![i.feed] = Append(@, i.poll)]
  /\ reported' = [reported EXCEPT ![i.feed] = @ + i.missed]

Get ==
  /\ mpc = "loop" /\ results # <<>>
  /\ item' = Head(results)
  /\ results' = Tail(results)
  /\ mpc' = "process"
  /\ UNCHANGED <<now, state, accepting, running, thread, ready, drained, ghost>>

\* Mutant: the item is processed but never acknowledged.
ProcessAndForget ==
  /\ mpc = "process"
  /\ Handle(item)
  /\ mpc' = "loop"
  /\ item' = NoItem
  /\ UNCHANGED <<now, state, accepting, running, thread, ready, results, drained>>

\* process_result, whatever it raises, and then acknowledge in the finally clause.
ProcessAndAcknowledge ==
  /\ mpc = "process"
  /\ Handle(item)
  /\ LET f == item.feed
         matches == resultPending[f] /\ pendingPoll[f] = item.poll
     IN /\ resultPending' = [resultPending EXCEPT ![f] = @ /\ ~matches]
        /\ pendingPoll' = [pendingPoll EXCEPT ![f] = IF matches THEN None ELSE @]
  /\ mpc' = "loop"
  /\ item' = NoItem
  /\ UNCHANGED <<now, nextDeadline, future, submitted, completed, missed, missedSince,
                 missedBefore, accepting, running, thread, ready, results, drained>>

\* SIGTERM, or a fatal error in the loop: stop_and_drain() begins.
StopAccepting ==
  /\ mpc = "loop"
  /\ accepting' = FALSE
  /\ mpc' = "stopping"
  /\ UNCHANGED <<now, state, running, thread, ready, results, item, drained, ghost>>

SetStop ==
  /\ mpc = "stopping"
  /\ mpc' = "join"
  /\ UNCHANGED <<now, state, accepting, running, thread, ready, results, item, drained, ghost>>

JoinThread ==
  /\ mpc = "join" /\ spc = "exit"
  /\ mpc' = "shutdown"
  /\ UNCHANGED <<now, state, accepting, running, thread, ready, results, item, drained, ghost>>

\* Mutants: do not wait; wait for futures that only the exited thread clears.
AwaitNothing ==
  /\ mpc = "shutdown"
  /\ mpc' = "drain"
  /\ UNCHANGED <<now, state, accepting, running, thread, ready, results, item, drained, ghost>>
AwaitFutures ==
  /\ mpc = "shutdown" /\ \A f \in Feeds : future[f] = None
  /\ mpc' = "drain"
  /\ UNCHANGED <<now, state, accepting, running, thread, ready, results, item, drained, ghost>>

\* executor.shutdown(wait=True)
AwaitRequests ==
  /\ mpc = "shutdown" /\ running = {}
  /\ mpc' = "drain"
  /\ UNCHANGED <<now, state, accepting, running, thread, ready, results, item, drained, ghost>>

\* Mutant: the pending flags are reset although the queue still holds results.
ResetWithoutDraining ==
  /\ mpc = "drain"
  /\ resultPending' = [f \in Feeds |-> FALSE]
  /\ pendingPoll' = [f \in Feeds |-> None]
  /\ mpc' = "lastStep"
  /\ UNCHANGED <<now, nextDeadline, future, submitted, completed, missed, missedSince,
                 missedBefore, accepting, running, thread, ready, results, item, drained, ghost>>

DrainQueue ==
  /\ mpc = "drain"
  /\ drained' = drained \o results
  /\ results' = <<>>
  /\ resultPending' = [f \in Feeds |-> FALSE]
  /\ pendingPoll' = [f \in Feeds |-> None]
  /\ mpc' = "lastStep"
  /\ UNCHANGED <<now, nextDeadline, future, submitted, completed, missed, missedSince,
                 missedBefore, accepting, running, thread, ready, item, ghost>>

LastStep ==
  /\ mpc = "lastStep"
  /\ Step(now)
  /\ mpc' = "lastPut"
  /\ UNCHANGED <<now, accepting, thread, results, item, drained, ghost>>

LastPut ==
  /\ mpc = "lastPut"
  /\ PutNowait
  /\ UNCHANGED <<now, state, accepting, running, thread, main, ghost>>

\* Mutant: the late results come first.
DrainAgain_Prepend ==
  /\ mpc = "lastPut" /\ ready = {}
  /\ drained' = results \o drained
  /\ results' = <<>>
  /\ mpc' = "handle"
  /\ UNCHANGED <<now, state, accepting, running, thread, ready, item, ghost>>

DrainAgain ==
  /\ mpc = "lastPut" /\ ready = {}
  /\ drained' = drained \o results
  /\ results' = <<>>
  /\ mpc' = "handle"
  /\ UNCHANGED <<now, state, accepting, running, thread, ready, item, ghost>>

ProcessDrained ==
  /\ mpc = "handle" /\ drained # <<>>
  /\ Handle(Head(drained))
  /\ drained' = Tail(drained)
  /\ UNCHANGED <<now, state, accepting, running, thread, ready, results, mpc, item>>

Exit ==
  /\ mpc = "handle" /\ drained = <<>>
  /\ mpc' = "exited"
  /\ UNCHANGED <<now, state, accepting, running, thread, ready, results, item, drained, ghost>>

--------------------------------------------------------------------------------

SchedulerStep == Wake \/ LockedStep \/ PutReady \/ EndStep \/ ThreadExit

MainStep ==
  \/ Get \/ ProcessAndAcknowledge
  \/ SetStop \/ JoinThread \/ AwaitRequests \/ DrainQueue
  \/ LastStep \/ LastPut \/ DrainAgain \/ ProcessDrained \/ Exit

Next ==
  \/ SchedulerStep
  \/ MainStep
  \/ StopAccepting
  \/ \E f \in Feeds : Complete(f)
  \/ Tick

Safety == Init /\ [][Next]_vars

\* Both threads run, time passes, and a request ends: fetch_feed has an HTTP
\* timeout.  A hung feed is one for which that is not assumed.
Fairness ==
  /\ WF_vars(SchedulerStep)
  /\ WF_vars(MainStep)
  /\ WF_vars(Tick)
  /\ \A f \in Feeds \ Hung : WF_vars(Complete(f))

Spec == Safety /\ Fairness

--------------------------------------------------------------------------------
(* Properties *)

\* The items between a future and the processor: with the result pending, and drained.
Pending == ready \cup Range(results) \cup (IF mpc = "process" THEN {item} ELSE {})
Held(f) == {i \in Pending \cup Range(drained) : i.feed = f}

Active(f) == IF future[f] = None THEN 0 ELSE 1

\* "One completed result plus one subsequent active request is the maximum
\* outstanding work per feed", and "Exactly one result per feed can be pending,
\* so this cannot overflow": the bounded queue has room for every put_nowait,
\* during the drain too.
BacklogBounded ==
  /\ \A f \in Feeds : submitted[f] - Len(handled[f]) <= 2
  /\ Len(results) + Cardinality(ready) <= Cardinality(Feeds)

\* Every deadline the schedule has passed is one request or one counted miss,
\* however late step() runs and with whatever stale clock reading.
DeadlinesAccounted ==
  \A f \in Feeds : nextDeadline[f] = (submitted[f] + missed[f]) * Interval[f]

\* No result is dropped or duplicated on its way from executor to processor, the
\* processor sees the polls of a feed in the order of submission (change tracking
\* and presence depend on it), and each missed deadline reaches the journal in
\* exactly one event: it is still accumulating, or travels with one request, or
\* has been reported.
ReportedOnceInOrder ==
  \A f \in Feeds :
    /\ submitted[f] = Len(handled[f]) + Cardinality(Held(f)) + Active(f)
    /\ \A k \in DOMAIN handled[f] : handled[f][k] = k
    /\ missed[f] = missedSince[f] + reported[f]
                   + (IF future[f] = None THEN 0 ELSE missedBefore[f])
                   + MapThenSumSet(LAMBDA i : i.missed, Held(f))

\* A feed never has two requests in progress, and a request in progress is the
\* one its schedule knows.
NoOverlap == \A p \in running : future[p[1]] = p[2]

\* After stop_and_drain every request ever submitted has been processed.
DrainedAtExit ==
  mpc = "exited" => \A f \in Feeds : Len(handled[f]) = submitted[f]

HungForEver == [](\E p \in running : p[1] \in Hung)

\* A shutdown request always ends the process, with no thread waiting on another,
\* unless a request never returns: the executor waits for it.
ShutdownCompletes == ~accepting ~> (mpc = "exited" \/ HungForEver)

\* Every submitted request is eventually processed, shutdown or not, with the
\* same exception.
EveryPollHandled ==
  \A f \in Feeds : \A k \in 1 .. MaxTime \div Interval[f] + 1 :
    submitted[f] >= k ~> (Len(handled[f]) >= k \/ HungForEver)

\* A feed whose request hangs delays no other feed: every deadline of the others
\* is served or counted, and their results are processed, until shutdown.
IndependentFeeds ==
  \A f \in Feeds \ Hung : \A k \in 0 .. MaxTime \div Interval[f] :
    accepting /\ now >= k * Interval[f]
      ~> ~accepting \/ (submitted[f] + missed[f] > k /\ Len(handled[f]) = submitted[f])
================================================================================

------------------------- MODULE FeedScheduler_proofs -------------------------
(***************************************************************************)
(* Proofs about FeedScheduler, for every finite set of feeds, all intervals *)
(* and every bound on the clock.                                           *)
(***************************************************************************)
EXTENDS FeedScheduler, FiniteSetTheorems, SequenceTheorems, TLAPS

--------------------------------------------------------------------------------
(* The inductive invariant *)

\* Where the threads are when: each list is filled in its phase only.
PhaseInv ==
  /\ accepting <=> mpc \in {"loop", "process"}
  /\ spc = "exit" => StopSet
  /\ mpc \in {"shutdown", "drain", "lastStep", "lastPut", "handle", "exited"} => spc = "exit"
  /\ mpc \in {"drain", "lastStep", "lastPut", "handle", "exited"} => running = {}
  /\ mpc \in {"lastPut", "handle", "exited"} => \A f \in Feeds : future[f] = None
  /\ ready # {} => spc = "put" \/ mpc = "lastPut"
  /\ mpc \in {"lastStep", "handle", "exited"} => results = <<>>
  /\ mpc \notin {"lastStep", "lastPut", "handle"} => drained = <<>>

\* A feed has one pending result at most, the one its schedule knows; what was drained
\* before is older, and the queue keeps the order.
PendingInv ==
  /\ mpc \notin {"handle", "exited"} =>
       \A f \in Feeds : resultPending[f] <=> \E i \in Pending : i.feed = f
  /\ \A i \in Pending : pendingPoll[i.feed] = i.poll
  /\ \A i, j \in Pending : i.feed = j.feed => i = j
  /\ \A k \in DOMAIN results : results[k] \notin ready
  /\ \A k, l \in DOMAIN results : results[k] = results[l] => k = l
  /\ mpc = "process" => item \notin ready \cup Range(results)
  /\ \A k \in DOMAIN drained : \A i \in Pending :
       drained[k].feed = i.feed => drained[k].poll < i.poll
  /\ \A k, l \in DOMAIN drained :
       k < l /\ drained[k].feed = drained[l].feed => drained[k].poll < drained[l].poll

\* A feed holds every poll between the last one processed and the active one, and
\* there are at most two.
HeldInv ==
  \A f \in Feeds :
    /\ \A i, j \in Held(f) : i.poll = j.poll => i = j
    /\ {i.poll : i \in Held(f)} = Len(handled[f]) + 1 .. submitted[f] - Active(f)
    /\ submitted[f] - Len(handled[f]) \in Active(f) .. 2
    /\ future[f] \in {None, submitted[f]}

IInv == TypeOK /\ PhaseInv /\ PendingInv /\ HeldInv /\ ReportedOnceInOrder

--------------------------------------------------------------------------------
\* The number of due deadlines is a natural number, whatever clock reading the
\* step works with.
LEMMA DueIsNat ==
  ASSUME TypeOK, NEW f \in Feeds, NEW current \in Nat
  PROVE  Due(f, current) \in Nat
<1>1. /\ nextDeadline[f] \in Nat
      /\ Interval[f] \in Nat \ {0}
  BY SchedulerAssumption DEF TypeOK
<1>2. ASSUME NEW a \in Nat, NEW b \in Nat \ {0} PROVE a \div b \in Nat
  BY <1>2
<1>3. CASE accepting /\ current >= nextDeadline[f]
  <2>1. current - nextDeadline[f] \in Nat
    BY <1>1, <1>3
  <2>2. (current - nextDeadline[f]) \div Interval[f] \in Nat
    BY <1>1, <1>2, <2>1
  <2>3. QED
    BY <1>3, <2>2 DEF Due
<1>4. CASE ~(accepting /\ current >= nextDeadline[f])
  BY <1>4 DEF Due
<1>5. QED
  BY <1>3, <1>4

\* Deadlines that get no request of their own are never negative in number.
LEMMA CoalescedIsNat ==
  ASSUME TypeOK, NEW f \in Feeds, NEW current \in Nat
  PROVE  /\ Coalesced(f, current) \in Nat
         /\ Due(f, current) =
              Coalesced(f, current) + (IF Submits(f, current) THEN 1 ELSE 0)
<1>1. Due(f, current) \in Nat
  BY DueIsNat
<1>2. Submits(f, current) => Due(f, current) > 0
  BY DEF Submits
<1> HIDE DEF Due, Submits
<1>3. QED
  BY <1>1, <1>2 DEF Coalesced

\* A product distributes over the requests and the misses of a step.
LEMMA Distributes ==
  ASSUME NEW a \in Nat, NEW b \in Nat, NEW i \in Nat
  PROVE  a * i + b * i = (a + b) * i
OBVIOUS

\* One pass of step() keeps the fields of every FeedSchedule, the running requests
\* and the ready list well typed.
LEMMA StepTyped ==
  ASSUME TypeOK, NEW current \in Nat, Step(current)
  PROVE  /\ nextDeadline' \in [Feeds -> Nat]
         /\ future' \in [Feeds -> Nat]
         /\ resultPending' \in [Feeds -> BOOLEAN]
         /\ pendingPoll' \in [Feeds -> Nat]
         /\ submitted' \in [Feeds -> Nat]
         /\ completed' \in [Feeds -> Nat]
         /\ missed' \in [Feeds -> Nat]
         /\ missedSince' \in [Feeds -> Nat]
         /\ missedBefore' \in [Feeds -> Nat]
         /\ running' \subseteq Feeds \X Poll
         /\ ready' \subseteq Item
<1>0. /\ nextDeadline \in [Feeds -> Nat]
      /\ future \in [Feeds -> Nat]
      /\ pendingPoll \in [Feeds -> Nat]
      /\ submitted \in [Feeds -> Nat]
      /\ completed \in [Feeds -> Nat]
      /\ missed \in [Feeds -> Nat]
      /\ missedSince \in [Feeds -> Nat]
      /\ missedBefore \in [Feeds -> Nat]
      /\ running \subseteq Feeds \X Poll
  BY Zenon DEF TypeOK
<1>1. \A f \in Feeds : /\ Due(f, current) \in Nat
                       /\ Coalesced(f, current) \in Nat
  BY DueIsNat, CoalescedIsNat
<1>2. \A f \in Feeds : Unreported(f, current) \in Nat /\ SinceRequest(f, current) \in Nat
  BY SMTT(60), <1>1 DEF Unreported, SinceRequest, TypeOK
<1>3. \A f \in Feeds : Interval[f] \in Nat /\ Due(f, current) * Interval[f] \in Nat
  <2>1. \A a, b \in Nat : a * b \in Nat
    OBVIOUS
  <2>2. QED
    BY <1>1, <2>1, SchedulerAssumption
<1> HIDE DEF Due, Coalesced, Unreported, SinceRequest, Submits
<1>4. nextDeadline' \in [Feeds -> Nat]
  <2>1. nextDeadline' = [f \in Feeds |-> nextDeadline[f] + Due(f, current) * Interval[f]]
    BY Zenon DEF Step
  <2>2. \A f \in Feeds : nextDeadline[f] + Due(f, current) * Interval[f] \in Nat
    BY <1>0, <1>3
  <2>3. QED
    BY Zenon, <2>1, <2>2
<1>5. /\ future' \in [Feeds -> Nat]
      /\ pendingPoll' \in [Feeds -> Nat]
      /\ submitted' \in [Feeds -> Nat]
      /\ completed' \in [Feeds -> Nat]
  <2>1. /\ pendingPoll' = [f \in Feeds |-> IF Moves(f) THEN future[f] ELSE pendingPoll[f]]
        /\ completed' = [f \in Feeds |-> completed[f] + (IF Moves(f) THEN 1 ELSE 0)]
        /\ submitted' =
             [f \in Feeds |-> submitted[f] + (IF Submits(f, current) THEN 1 ELSE 0)]
        /\ future' = [f \in Feeds |-> IF Submits(f, current) THEN submitted[f] + 1
                                      ELSE IF Moves(f) THEN None ELSE future[f]]
    BY Zenon DEF Step
  <2>2. QED
    BY <1>0, <2>1 DEF None
<1>6. resultPending' \in [Feeds -> BOOLEAN]
  <2>1. \A f \in Feeds : (resultPending[f] \/ Moves(f)) \in BOOLEAN
    BY Zenon DEF TypeOK, Moves
  <2>2. resultPending' = [f \in Feeds |-> resultPending[f] \/ Moves(f)]
    BY Zenon DEF Step
  <2>3. QED
    BY Zenon, <2>1, <2>2
<1>7. /\ missed' \in [Feeds -> Nat]
      /\ missedSince' \in [Feeds -> Nat]
      /\ missedBefore' \in [Feeds -> Nat]
  <2>1. /\ missed' = [f \in Feeds |-> missed[f] + Coalesced(f, current)]
        /\ missedSince' = [f \in Feeds |-> SinceRequest(f, current)]
        /\ missedBefore' = [f \in Feeds |->
             IF Submits(f, current) THEN Unreported(f, current) ELSE missedBefore[f]]
    BY Zenon DEF Step
  <2>2. QED
    BY <1>0, <1>1, <1>2, <2>1
<1>8. running' \subseteq Feeds \X Poll
  <2>1. running' = running \cup
          {<<f, submitted[f] + 1>> : f \in {g \in Feeds : Submits(g, current)}}
    BY Zenon DEF Step
  <2>2. QED
    BY <1>0, <2>1 DEF Poll, None
<1>9. ready' \subseteq Item
  <2>1. ready' = {[feed |-> f, poll |-> future[f], missed |-> missedBefore[f]] :
                    f \in {g \in Feeds : Moves(g)}}
    BY Zenon DEF Step
  <2>2. \A f \in Feeds : Moves(f) => future[f] \in Poll
    BY <1>0 DEF Moves, Poll, None
  <2>3. QED
    BY <1>0, <2>1, <2>2 DEF Item
<1>10. QED
  BY <1>4, <1>5, <1>6, <1>7, <1>8, <1>9

\* Handing an item to the processor keeps its observed history well typed.
LEMMA HandleTyped ==
  ASSUME TypeOK, NEW i \in Item, Handle(i)
  PROVE  handled' \in [Feeds -> Seq(Poll)] /\ reported' \in [Feeds -> Nat]
<1>1. /\ handled \in [Feeds -> Seq(Poll)]
      /\ reported \in [Feeds -> Nat]
      /\ i.feed \in Feeds /\ i.poll \in Poll /\ i.missed \in Nat
  BY DEF TypeOK, Item
<1>2. Append(handled[i.feed], i.poll) \in Seq(Poll) /\ reported[i.feed] + i.missed \in Nat
  BY <1>1
<1>3. QED
  BY <1>1, <1>2 DEF Handle

\* put_nowait moves one item from the ready list to the result queue.
LEMMA PutTyped ==
  ASSUME TypeOK, PutNowait
  PROVE  results' \in Seq(Item) /\ ready' \subseteq Item
<1>1. ready \subseteq Item /\ results \in Seq(Item)
  BY Zenon DEF TypeOK
<1>2. QED
  BY <1>1 DEF PutNowait

\* No schedule yet, nothing in flight, a running main loop.
LEMMA InitTyped == Init => TypeOK
<1> SUFFICES ASSUME Init PROVE TypeOK
  OBVIOUS
<1>1. now \in 0..MaxTime /\ at \in 0..now
  BY SchedulerAssumption DEF Init
<1>2. resultPending \in [Feeds -> BOOLEAN] /\ accepting \in BOOLEAN
  BY Zenon DEF Init
<1>3. results \in Seq(Item) /\ drained \in Seq(Item) /\ handled \in [Feeds -> Seq(Poll)]
  BY DEF Init
<1>4. /\ nextDeadline \in [Feeds -> Nat] /\ future \in [Feeds -> Nat]
      /\ pendingPoll \in [Feeds -> Nat] /\ submitted \in [Feeds -> Nat]
      /\ completed \in [Feeds -> Nat] /\ missed \in [Feeds -> Nat]
      /\ missedSince \in [Feeds -> Nat] /\ missedBefore \in [Feeds -> Nat]
      /\ reported \in [Feeds -> Nat]
  BY DEF Init, None
<1>5. /\ running \subseteq Feeds \X Poll /\ ready \subseteq Item
      /\ spc = "wait" /\ mpc = "loop" /\ item = NoItem
  BY DEF Init
<1>6. QED
  BY <1>1, <1>2, <1>3, <1>4, <1>5 DEF TypeOK

\* Every action of the three threads, the clock and the executor keeps the types.
LEMMA NextTyped == TypeOK /\ [Next]_vars => TypeOK'
<1> SUFFICES ASSUME TypeOK, [Next]_vars PROVE TypeOK'
  OBVIOUS
<1> USE DEF state, thread, main, ghost
<1>1. CASE Wake
  <2>1. at' \in 0..now'
    BY <1>1, SchedulerAssumption DEF Wake, TypeOK
  <2>2. QED
    BY <1>1, <2>1 DEF Wake, TypeOK
<1>2. CASE LockedStep
  <2>1. at \in Nat
    BY DEF TypeOK
  <2>2. QED
    BY <1>2, <2>1, StepTyped DEF LockedStep, TypeOK
<1>3. CASE PutReady
  BY <1>3, PutTyped DEF PutReady, TypeOK
<1>4. CASE EndStep
  BY <1>4 DEF EndStep, TypeOK
<1>5. CASE ThreadExit
  BY <1>5 DEF ThreadExit, TypeOK
<1>6. CASE Tick
  <2>1. now' \in 0..MaxTime /\ at' \in 0..now'
    BY <1>6, SchedulerAssumption DEF Tick, TypeOK
  <2>2. QED
    BY <1>6, <2>1 DEF Tick, TypeOK
<1>7. ASSUME NEW f \in Feeds, Complete(f) PROVE TypeOK'
  BY <1>7 DEF Complete, TypeOK
<1>8. CASE Get
  <2>1. item' \in Item /\ results' \in Seq(Item)
    BY <1>8 DEF Get, TypeOK
  <2>2. QED
    BY <1>8, <2>1 DEF Get, TypeOK
<1>9. CASE ProcessAndAcknowledge
  <2>1. item \in Item
    BY <1>9 DEF ProcessAndAcknowledge, TypeOK
  <2>2. handled' \in [Feeds -> Seq(Poll)] /\ reported' \in [Feeds -> Nat]
    BY <1>9, <2>1, HandleTyped DEF ProcessAndAcknowledge
  <2>3. resultPending' \in [Feeds -> BOOLEAN] /\ pendingPoll' \in [Feeds -> Nat]
    BY <1>9 DEF ProcessAndAcknowledge, TypeOK, None
  <2>4. QED
    BY <1>9, <2>2, <2>3 DEF ProcessAndAcknowledge, TypeOK
<1>10. CASE StopAccepting
  BY <1>10 DEF StopAccepting, TypeOK
<1>11. CASE SetStop
  BY <1>11 DEF SetStop, TypeOK
<1>12. CASE JoinThread
  BY <1>12 DEF JoinThread, TypeOK
<1>13. CASE AwaitRequests
  BY <1>13 DEF AwaitRequests, TypeOK
<1>14. CASE DrainQueue
  <2>1. resultPending' \in [Feeds -> BOOLEAN] /\ pendingPoll' \in [Feeds -> Nat]
    BY <1>14 DEF DrainQueue, None
  <2>2. drained' \in Seq(Item) /\ results' \in Seq(Item)
    BY <1>14 DEF DrainQueue, TypeOK
  <2>3. QED
    BY <1>14, <2>1, <2>2 DEF DrainQueue, TypeOK
<1>15. CASE LastStep
  <2>1. now \in Nat
    BY SchedulerAssumption DEF TypeOK
  <2>2. QED
    BY <1>15, <2>1, StepTyped DEF LastStep, TypeOK
<1>16. CASE LastPut
  BY <1>16, PutTyped DEF LastPut, TypeOK
<1>17. CASE DrainAgain
  <2>1. drained' \in Seq(Item) /\ results' \in Seq(Item)
    BY <1>17 DEF DrainAgain, TypeOK
  <2>2. QED
    BY <1>17, <2>1 DEF DrainAgain, TypeOK
<1>18. CASE ProcessDrained
  <2>1. Head(drained) \in Item /\ drained' \in Seq(Item)
    BY <1>18 DEF ProcessDrained, TypeOK
  <2>2. handled' \in [Feeds -> Seq(Poll)] /\ reported' \in [Feeds -> Nat]
    BY <1>18, <2>1, HandleTyped DEF ProcessDrained
  <2>3. QED
    BY <1>18, <2>1, <2>2 DEF ProcessDrained, TypeOK
<1>19. CASE Exit
  BY <1>19 DEF Exit, TypeOK
<1>20. CASE UNCHANGED vars
  BY <1>20 DEF vars, TypeOK
<1>21. QED
  BY <1>1, <1>2, <1>3, <1>4, <1>5, <1>6, <1>7, <1>8, <1>9, <1>10, <1>11, <1>12, <1>13,
     <1>14, <1>15, <1>16, <1>17, <1>18, <1>19, <1>20
  DEF Next, SchedulerStep, MainStep

\* The state of the scheduler, its thread and the main thread is well typed throughout.
THEOREM SchedulerTyped == Safety => []TypeOK
<1>1. Init => TypeOK
  BY InitTyped
<1>2. TypeOK /\ [Next]_vars => TypeOK'
  BY NextTyped
<1>3. QED
  BY <1>1, <1>2, PTL DEF Safety

--------------------------------------------------------------------------------
(* No deadline is lost *)

\* step() advances every schedule by as many intervals as it adds requests and misses.
LEMMA StepAccounts ==
  ASSUME TypeOK, DeadlinesAccounted, NEW current \in Nat, Step(current)
  PROVE  DeadlinesAccounted'
<1> SUFFICES ASSUME NEW f \in Feeds
             PROVE  nextDeadline'[f] = (submitted'[f] + missed'[f]) * Interval[f]
  BY DEF DeadlinesAccounted
<1>1. /\ submitted[f] \in Nat /\ missed[f] \in Nat
      /\ Interval[f] \in Nat /\ Due(f, current) \in Nat
  BY DueIsNat, SchedulerAssumption DEF TypeOK
<1>2. submitted'[f] = submitted[f] + (IF Submits(f, current) THEN 1 ELSE 0)
  BY Zenon DEF Step
<1>3. missed'[f] = missed[f] + Coalesced(f, current)
  BY Zenon DEF Step
<1>4. submitted'[f] + missed'[f] = (submitted[f] + missed[f]) + Due(f, current)
  <2>1. /\ Coalesced(f, current) \in Nat
        /\ Due(f, current) =
             Coalesced(f, current) + (IF Submits(f, current) THEN 1 ELSE 0)
    BY CoalescedIsNat
  <2> HIDE DEF Due, Coalesced, Submits
  <2>2. QED
    BY <1>1, <1>2, <1>3, <2>1
<1>5. nextDeadline'[f] = nextDeadline[f] + Due(f, current) * Interval[f]
  BY Zenon DEF Step
<1>6. nextDeadline[f] = (submitted[f] + missed[f]) * Interval[f]
  BY Zenon DEF DeadlinesAccounted
<1>7. (submitted[f] + missed[f]) * Interval[f] + Due(f, current) * Interval[f]
        = ((submitted[f] + missed[f]) + Due(f, current)) * Interval[f]
  <2>1. submitted[f] + missed[f] \in Nat
    BY <1>1
  <2>2. QED
    BY <1>1, <2>1, Distributes
<1>8. QED
  BY <1>4, <1>5, <1>6, <1>7

\* Every passed deadline of every feed is one request or one counted miss, however
\* late the scheduler thread runs and however stale its clock reading is.
THEOREM NoDeadlineLost == Safety => []DeadlinesAccounted
<1>1. Init => DeadlinesAccounted
  <2> SUFFICES ASSUME Init, NEW f \in Feeds
               PROVE  nextDeadline[f] = (submitted[f] + missed[f]) * Interval[f]
    BY DEF DeadlinesAccounted
  <2>1. nextDeadline[f] = 0 /\ submitted[f] = 0 /\ missed[f] = 0 /\ Interval[f] \in Nat
    BY SchedulerAssumption DEF Init
  <2>2. QED
    BY <2>1
<1>2. TypeOK /\ DeadlinesAccounted /\ [Next]_vars => DeadlinesAccounted'
  <2> SUFFICES ASSUME TypeOK, DeadlinesAccounted, [Next]_vars
               PROVE  DeadlinesAccounted'
    OBVIOUS
  <2>1. CASE LockedStep
    <3>1. at \in Nat
      BY DEF TypeOK
    <3>2. QED
      BY <2>1, <3>1, StepAccounts DEF LockedStep
  <2>2. CASE LastStep
    <3>1. now \in Nat
      BY SchedulerAssumption DEF TypeOK
    <3>2. QED
      BY <2>2, <3>1, StepAccounts DEF LastStep
  <2>3. CASE UNCHANGED <<nextDeadline, submitted, missed>>
    BY <2>3 DEF DeadlinesAccounted
  <2>4. LockedStep \/ LastStep \/ UNCHANGED <<nextDeadline, submitted, missed>>
    BY DEF Next, SchedulerStep, MainStep, Wake, PutReady, EndStep, ThreadExit, Tick, Complete,
           Get, ProcessAndAcknowledge, StopAccepting, SetStop, JoinThread, AwaitRequests,
           DrainQueue, LastPut, DrainAgain, ProcessDrained, Exit, vars, state
  <2>5. QED
    BY <2>1, <2>2, <2>3, <2>4
<1>3. QED
  BY SchedulerTyped, <1>1, <1>2, PTL DEF Safety

--------------------------------------------------------------------------------
(* No feed has two requests in progress *)

\* step() submits for a feed only if it has no future, or one that has ended.
LEMMA StepSeparates ==
  ASSUME TypeOK, NoOverlap, NEW current \in Nat, Step(current)
  PROVE  NoOverlap'
<1>1. /\ running \subseteq Feeds \X Poll
      /\ submitted \in [Feeds -> Nat]
      /\ future \in [Feeds -> Nat]
  BY Zenon DEF TypeOK
<1>2. running' = running \cup
        {<<f, submitted[f] + 1>> : f \in {g \in Feeds : Submits(g, current)}}
  BY Zenon DEF Step
<1>3. future' = [f \in Feeds |-> IF Submits(f, current) THEN submitted[f] + 1
                                 ELSE IF Moves(f) THEN None ELSE future[f]]
  BY Zenon DEF Step
<1>4. ASSUME NEW p \in running
      PROVE  future'[p[1]] = p[2]
  <2>1. p[1] \in Feeds /\ p[2] \in Poll /\ p = <<p[1], p[2]>>
    BY <1>1
  <2>2. future[p[1]] = p[2] /\ future[p[1]] # None
    BY <2>1 DEF NoOverlap, Poll, None
  <2>3. ~Moves(p[1])
    BY <2>1, <2>2 DEF Moves
  <2>4. ~Submits(p[1], current)
    BY <2>2, <2>3 DEF Submits
  <2>5. QED
    BY <1>3, <2>1, <2>2, <2>3, <2>4
<1>5. ASSUME NEW f \in Feeds, Submits(f, current)
      PROVE  future'[f] = submitted[f] + 1
  BY <1>3, <1>5
<1>6. QED
  BY <1>2, <1>4, <1>5 DEF NoOverlap

\* "At most one HTTP request per feed": a running request is always the one its
\* schedule knows, so no feed ever has two.
THEOREM OneRequestPerFeed == Safety => []NoOverlap
<1>1. Init => NoOverlap
  BY DEF Init, NoOverlap
<1>2. TypeOK /\ NoOverlap /\ [Next]_vars => NoOverlap'
  <2> SUFFICES ASSUME TypeOK, NoOverlap, [Next]_vars PROVE NoOverlap'
    OBVIOUS
  <2>1. CASE LockedStep
    <3>1. at \in Nat
      BY DEF TypeOK
    <3>2. QED
      BY <2>1, <3>1, StepSeparates DEF LockedStep
  <2>2. CASE LastStep
    <3>1. now \in Nat
      BY SchedulerAssumption DEF TypeOK
    <3>2. QED
      BY <2>2, <3>1, StepSeparates DEF LastStep
  <2>3. CASE running' \subseteq running /\ future' = future
    BY <2>3 DEF NoOverlap
  <2>4. LockedStep \/ LastStep \/ (running' \subseteq running /\ future' = future)
    BY DEF Next, SchedulerStep, MainStep, Wake, PutReady, EndStep, ThreadExit, Tick, Complete,
           Get, ProcessAndAcknowledge, StopAccepting, SetStop, JoinThread, AwaitRequests,
           DrainQueue, LastPut, DrainAgain, ProcessDrained, Exit, vars, state
  <2>5. QED
    BY <2>1, <2>2, <2>3, <2>4
<1>3. QED
  BY SchedulerTyped, <1>1, <1>2, PTL DEF Safety

--------------------------------------------------------------------------------
(* Lists of results *)

\* The results in a list, by their places.
LEMMA Places ==
  ASSUME NEW s \in Seq(Item)
  PROVE  /\ Len(s) \in Nat /\ DOMAIN s = 1..Len(s) /\ \A k \in 1..Len(s) : s[k] \in Item
         /\ \A i : i \in Range(s) <=> \E k \in 1..Len(s) : s[k] = i
         /\ s # <<>> <=> Len(s) > 0
<1>1. Len(s) \in Nat /\ DOMAIN s = 1..Len(s) /\ \A k \in 1..Len(s) : s[k] \in Item
  BY LenProperties, ElementOfSeq
<1>2. \A i : i \in Range(s) <=> \E k \in 1..Len(s) : s[k] = i
  BY <1>1 DEF Range
<1>3. s # <<>> <=> Len(s) > 0
  BY <1>1, EmptySeq
<1>4. QED
  BY <1>1, <1>2, <1>3

\* put_nowait
LEMMA PlacesAppended ==
  ASSUME NEW s \in Seq(Item), NEW x \in Item
  PROVE  /\ Append(s, x) \in Seq(Item) /\ Len(Append(s, x)) = Len(s) + 1
         /\ \A k \in 1..Len(s) : Append(s, x)[k] = s[k]
         /\ Append(s, x)[Len(s) + 1] = x
         /\ Range(Append(s, x)) = Range(s) \cup {x}
<1>1. /\ Append(s, x) \in Seq(Item) /\ Len(Append(s, x)) = Len(s) + 1
      /\ \A k \in 1..Len(s) : Append(s, x)[k] = s[k]
      /\ Append(s, x)[Len(s) + 1] = x
  BY AppendProperties
<1>2. Len(s) \in Nat
  BY Places
<1>3. \A k \in 1..Len(s) + 1 : k \in 1..Len(s) \/ k = Len(s) + 1
  BY <1>2
<1>4. \A k \in 1..Len(s) : k \in 1..Len(s) + 1
  BY <1>2
<1>5. Len(s) + 1 \in 1..Len(s) + 1
  BY <1>2
<1>6. \A i : i \in Range(Append(s, x)) <=> \E k \in 1..Len(s) + 1 : Append(s, x)[k] = i
  <2>1. \A i : i \in Range(Append(s, x)) <=>
                \E k \in 1..Len(Append(s, x)) : Append(s, x)[k] = i
    BY <1>1, Places
  <2>2. QED
    BY Zenon, <1>1, <2>1
<1>7. \A i : i \in Range(s) <=> \E k \in 1..Len(s) : s[k] = i
  BY Places
<1>8. \A i : i \in Range(Append(s, x)) <=> i \in Range(s) \/ i = x
  BY Zenon, <1>1, <1>3, <1>4, <1>5, <1>6, <1>7
<1>9. QED
  BY <1>1, <1>8

\* get_nowait, and the next of the drained results
LEMMA PlacesTaken ==
  ASSUME NEW s \in Seq(Item), s # <<>>
  PROVE  /\ Head(s) \in Item /\ Head(s) = s[1] /\ 1 \in 1..Len(s)
         /\ Tail(s) \in Seq(Item) /\ Len(Tail(s)) = Len(s) - 1
         /\ \A k \in 1..Len(s) - 1 : Tail(s)[k] = s[k + 1] /\ k + 1 \in 1..Len(s)
         /\ Range(s) = {Head(s)} \cup Range(Tail(s))
<1>1. /\ Head(s) \in Item /\ Head(s) = s[1]
      /\ Tail(s) \in Seq(Item) /\ Len(Tail(s)) = Len(s) - 1
      /\ \A k \in 1..Len(Tail(s)) : Tail(s)[k] = s[k + 1]
  BY HeadTailProperties
<1>2. Len(s) \in Nat /\ Len(s) > 0 /\ 1 \in 1..Len(s)
  BY Places
<1>3. \A k \in 1..Len(s) - 1 : Tail(s)[k] = s[k + 1] /\ k + 1 \in 1..Len(s)
  BY <1>1, <1>2
<1>4. ASSUME NEW k \in 1..Len(s) PROVE k = 1 \/ \E l \in 1..Len(s) - 1 : k = l + 1
  <2>1. k = 1 \/ (k - 1 \in 1..Len(s) - 1 /\ k = (k - 1) + 1)
    BY <1>2
  <2>2. QED
    BY <2>1
<1>5. /\ \A i : i \in Range(s) <=> \E k \in 1..Len(s) : s[k] = i
      /\ \A i : i \in Range(Tail(s)) <=> \E k \in 1..Len(s) - 1 : Tail(s)[k] = i
  <2>1. /\ \A i : i \in Range(s) <=> \E k \in 1..Len(s) : s[k] = i
        /\ \A i : i \in Range(Tail(s)) <=> \E k \in 1..Len(Tail(s)) : Tail(s)[k] = i
    BY <1>1, Places
  <2>2. QED
    BY Zenon, <1>1, <2>1
<1>6. \A i : i \in Range(s) <=> i = Head(s) \/ i \in Range(Tail(s))
  <2> SUFFICES ASSUME NEW i PROVE i \in Range(s) <=> i = Head(s) \/ i \in Range(Tail(s))
    OBVIOUS
  <2>1. ASSUME i \in Range(s) PROVE i = Head(s) \/ i \in Range(Tail(s))
    <3>1. PICK k \in 1..Len(s) : s[k] = i
      BY Zenon, <1>5, <2>1
    <3>2. CASE k = 1
      BY Zenon, <1>1, <3>1, <3>2
    <3>3. CASE \E l \in 1..Len(s) - 1 : k = l + 1
      <4>1. PICK l \in 1..Len(s) - 1 : k = l + 1
        BY Zenon, <3>3
      <4>2. Tail(s)[l] = i
        BY Zenon, <1>3, <3>1, <4>1
      <4>3. QED
        BY Zenon, <1>5, <4>2
    <3>4. QED
      BY <1>4, <3>2, <3>3
  <2>2. ASSUME i = Head(s) \/ i \in Range(Tail(s)) PROVE i \in Range(s)
    BY Zenon, <1>1, <1>2, <1>3, <1>5, <2>2
  <2>3. QED
    BY <2>1, <2>2
<1>7. QED
  BY <1>1, <1>2, <1>3, <1>6

\* drain_results, behind what was drained before
LEMMA PlacesJoined ==
  ASSUME NEW s \in Seq(Item), NEW t \in Seq(Item)
  PROVE  /\ s \o t \in Seq(Item) /\ Len(s \o t) = Len(s) + Len(t)
         /\ \A k \in 1..Len(s) : (s \o t)[k] = s[k]
         /\ \A k \in Len(s) + 1 .. Len(s) + Len(t) :
              (s \o t)[k] = t[k - Len(s)] /\ k - Len(s) \in 1..Len(t)
         /\ Range(s \o t) = Range(s) \cup Range(t)
<1> DEFINE j == s \o t
<1>1. /\ j \in Seq(Item) /\ Len(j) = Len(s) + Len(t)
      /\ \A k \in 1..Len(s) + Len(t) : j[k] = IF k <= Len(s) THEN s[k] ELSE t[k - Len(s)]
  BY Zenon, ConcatProperties
<1> HIDE DEF j
<1>2. Len(s) \in Nat /\ Len(t) \in Nat
  BY Places
<1>3. \A k \in 1..Len(s) : j[k] = s[k] /\ k \in 1..Len(s) + Len(t)
  BY <1>1, <1>2
<1>4. \A k \in Len(s) + 1 .. Len(s) + Len(t) : j[k] = t[k - Len(s)] /\ k - Len(s) \in 1..Len(t)
  BY <1>1, <1>2
<1>5. \A k \in 1..Len(s) + Len(t) : k \in 1..Len(s) \/ k \in Len(s) + 1 .. Len(s) + Len(t)
  BY <1>2
<1>6. ASSUME NEW k \in 1..Len(t) PROVE j[Len(s) + k] = t[k] /\ Len(s) + k \in 1..Len(s) + Len(t)
  BY <1>1, <1>2
<1>7. /\ \A i : i \in Range(s) <=> \E k \in 1..Len(s) : s[k] = i
      /\ \A i : i \in Range(t) <=> \E k \in 1..Len(t) : t[k] = i
      /\ \A i : i \in Range(j) <=> \E k \in 1..Len(s) + Len(t) : j[k] = i
  <2>1. /\ \A i : i \in Range(s) <=> \E k \in 1..Len(s) : s[k] = i
        /\ \A i : i \in Range(t) <=> \E k \in 1..Len(t) : t[k] = i
        /\ \A i : i \in Range(j) <=> \E k \in 1..Len(j) : j[k] = i
    BY <1>1, Places
  <2>2. QED
    BY Zenon, <1>1, <2>1
<1>8. \A i : i \in Range(j) <=> i \in Range(s) \/ i \in Range(t)
  BY ZenonT(60), <1>3, <1>4, <1>5, <1>6, <1>7
<1>9. QED
  BY <1>1, <1>3, <1>4, <1>8 DEF j

--------------------------------------------------------------------------------
(* What at most two results carry *)

Carried(S) == MapThenSumSet(LAMBDA i : i.missed, S)
Any(s) == CHOOSE x \in s : TRUE
Sums(S, f) == f = [s \in SUBSET S |-> IF s = {} THEN 0 ELSE Any(s).missed + f[s \ {Any(s)}]]

\* What the sum takes first is one of the results.
LEMMA AnyOf == \A s : s # {} => Any(s) \in s
BY DEF Any

\* The sum is what a function that adds up every subset gives, if there is one.
LEMMA CarriedBySums ==
  ASSUME NEW S, NEW g, Sums(S, g)
  PROVE  \E f : Sums(S, f) /\ Carried(S) = f[S]
<1>1. Carried(S) = (CHOOSE f : Sums(S, f))[S]
  BY DEF Carried, MapThenSumSet, MapThenFoldSet, Any, Sums
<1>2. Sums(S, CHOOSE f : Sums(S, f))
  BY Zenon
<1>3. QED
  BY Zenon, <1>1, <1>2

\* Nothing carries no missed deadline.
LEMMA CarriedByNone == Carried({}) = 0
<1> DEFINE g == [s \in SUBSET {} |-> 0]
<1>1. Sums({}, g)
  BY DEF Sums
<1>2. PICK f : Sums({}, f) /\ Carried({}) = f[{}]
  BY <1>1, CarriedBySums
<1>3. QED
  BY <1>2 DEF Sums

\* One result carries its own.
LEMMA CarriedByOne ==
  ASSUME NEW x, x.missed \in Nat
  PROVE  Carried({x}) = x.missed
<1> DEFINE g == [s \in SUBSET {x} |-> IF s = {} THEN 0 ELSE x.missed]
<1>1. Any({x}) = x /\ {x} \ {x} = {} /\ {x} # {} /\ {} \in SUBSET {x} /\ {x} \in SUBSET {x}
  BY AnyOf
<1>2. \A s \in SUBSET {x} : s = {} \/ s = {x}
  OBVIOUS
<1>3. g[{}] = 0 /\ g[{x}] = x.missed
  BY <1>1
<1>4. g = [s \in SUBSET {x} |-> g[s]]
  OBVIOUS
<1> HIDE DEF g
<1>5. \A s \in SUBSET {x} : g[s] = IF s = {} THEN 0 ELSE Any(s).missed + g[s \ {Any(s)}]
  BY <1>1, <1>2, <1>3
<1>6. Sums({x}, g)
  BY <1>4, <1>5 DEF Sums
<1>7. PICK f : Sums({x}, f) /\ Carried({x}) = f[{x}]
  BY <1>6, CarriedBySums
<1>8. f[{}] = 0 /\ f[{x}] = x.missed + f[{}]
  BY <1>1, <1>7 DEF Sums
<1>9. QED
  BY <1>7, <1>8

\* Two results carry those of both.
LEMMA CarriedByTwo ==
  ASSUME NEW x, NEW y, x # y, x.missed \in Nat, y.missed \in Nat
  PROVE  Carried({x, y}) = x.missed + y.missed
<1> DEFINE T == {x, y}
           g == [s \in SUBSET T |-> IF s = {} THEN 0
                                    ELSE IF s = {x} THEN x.missed
                                    ELSE IF s = {y} THEN y.missed
                                    ELSE x.missed + y.missed]
<1>1. Any({x}) = x /\ Any({y}) = y /\ Any(T) \in {x, y}
  BY AnyOf
<1>2. \A s \in SUBSET T : s = {} \/ s = {x} \/ s = {y} \/ s = T
  OBVIOUS
<1>3. /\ {} \in SUBSET T /\ {x} \in SUBSET T /\ {y} \in SUBSET T /\ T \in SUBSET T
      /\ {x} # {} /\ {y} # {} /\ T # {} /\ {x} # {y} /\ T # {x} /\ T # {y}
      /\ {x} \ {x} = {} /\ {y} \ {y} = {} /\ T \ {x} = {y} /\ T \ {y} = {x}
  OBVIOUS
<1>4. g[{}] = 0 /\ g[{x}] = x.missed /\ g[{y}] = y.missed /\ g[T] = x.missed + y.missed
  BY <1>3
<1>5. g = [s \in SUBSET T |-> g[s]]
  OBVIOUS
<1> HIDE DEF g, T
<1>6. \A s \in SUBSET T : g[s] = IF s = {} THEN 0 ELSE Any(s).missed + g[s \ {Any(s)}]
  <2> SUFFICES ASSUME NEW s \in SUBSET T
               PROVE  g[s] = IF s = {} THEN 0 ELSE Any(s).missed + g[s \ {Any(s)}]
    OBVIOUS
  <2>1. CASE s = {}
    BY <1>4, <2>1
  <2>2. CASE s = {x}
    <3>1. g[s] = x.missed /\ s # {} /\ Any(s).missed = x.missed /\ g[s \ {Any(s)}] = 0
      BY Zenon, <1>1, <1>3, <1>4, <2>2
    <3>2. QED
      BY <3>1
  <2>3. CASE s = {y}
    <3>1. g[s] = y.missed /\ s # {} /\ Any(s).missed = y.missed /\ g[s \ {Any(s)}] = 0
      BY Zenon, <1>1, <1>3, <1>4, <2>3
    <3>2. QED
      BY <3>1
  <2>4. CASE s = T /\ Any(T) = x
    <3>1. /\ g[s] = x.missed + y.missed /\ s # {} /\ Any(s).missed = x.missed
          /\ g[s \ {Any(s)}] = y.missed
      BY Zenon, <1>3, <1>4, <2>4
    <3>2. QED
      BY <3>1
  <2>5. CASE s = T /\ Any(T) = y
    <3>1. /\ g[s] = x.missed + y.missed /\ s # {} /\ Any(s).missed = y.missed
          /\ g[s \ {Any(s)}] = x.missed
      BY Zenon, <1>3, <1>4, <2>5
    <3>2. QED
      BY <3>1
  <2>6. QED
    BY <1>1, <1>2, <2>1, <2>2, <2>3, <2>4, <2>5
<1>7. Sums(T, g)
  BY <1>5, <1>6 DEF Sums
<1>8. PICK f : Sums(T, f) /\ Carried(T) = f[T]
  BY <1>7, CarriedBySums
<1>9. /\ f[{}] = 0 /\ f[{x}] = x.missed + f[{}] /\ f[{y}] = y.missed + f[{}]
      /\ f[T] = Any(T).missed + f[T \ {Any(T)}]
  BY <1>1, <1>3, <1>8 DEF Sums
<1>10. CASE Any(T) = x
  <2>1. Carried(T) = x.missed + (y.missed + 0)
    BY Zenon, <1>3, <1>8, <1>9, <1>10
  <2>2. QED
    BY <2>1 DEF T
<1>11. CASE Any(T) = y
  <2>1. Carried(T) = y.missed + (x.missed + 0)
    BY Zenon, <1>3, <1>8, <1>9, <1>11
  <2>2. QED
    BY <2>1 DEF T
<1>12. QED
  BY <1>1, <1>10, <1>11

\* A second result, or a first one, adds what it carries, and counts.
LEMMA OneMore ==
  ASSUME NEW S \in SUBSET Item, NEW x \in Item, x \notin S, S = {} \/ \E y \in S : S = {y}
  PROVE  /\ Carried(S) \in Nat /\ Carried(S \cup {x}) = Carried(S) + x.missed
         /\ Cardinality(S) \in Nat /\ Cardinality(S \cup {x}) = Cardinality(S) + 1
<1>1. x.missed \in Nat
  BY DEF Item
<1>2. CASE S = {}
  <2>1. S \cup {x} = {x} /\ Carried(S) = 0 /\ Carried({x}) = x.missed
    BY <1>1, <1>2, CarriedByNone, CarriedByOne
  <2>2. Cardinality(S) = 0 /\ Cardinality({x}) = 1
    BY <1>2, FS_EmptySet, FS_Singleton
  <2>3. QED
    BY <1>1, <2>1, <2>2
<1>3. CASE \E y \in S : S = {y}
  <2>1. PICK y \in S : S = {y}
    BY <1>3
  <2>2. x # y /\ y.missed \in Nat /\ S \cup {x} = {x, y}
    BY <2>1 DEF Item
  <2>3. Carried(S) = y.missed /\ Carried({x, y}) = x.missed + y.missed
    BY <1>1, <2>1, <2>2, CarriedByOne, CarriedByTwo
  <2>4. IsFiniteSet(S) /\ Cardinality(S) = 1
    BY <2>1, FS_Singleton
  <2>5. Cardinality(S \cup {x}) = Cardinality(S) + 1
    BY <2>4, FS_AddElement
  <2>6. Carried(S \cup {x}) = Carried(S) + x.missed
    <3>1. Carried(S \cup {x}) = x.missed + y.missed
      BY Zenon, <2>2, <2>3
    <3>2. QED
      BY <1>1, <2>2, <2>3, <3>1
  <2>7. QED
    BY <2>2, <2>3, <2>4, <2>5, <2>6
<1>4. QED
  BY <1>2, <1>3

--------------------------------------------------------------------------------
(* The results of one feed, from its future to the processor *)

Count(fut) == IF fut = None THEN 0 ELSE 1

\* What holds of a feed's held results, the polls processed, and its schedule's
\* submitted, future, missed, missed since, reported and missed before.
Line(held, hist, sub, fut, m, since, rep, before) ==
  /\ \A i, j \in held : i.poll = j.poll => i = j
  /\ \A i \in held : i.poll \in Len(hist) + 1 .. sub - Count(fut)
  /\ \A p \in Len(hist) + 1 .. sub - Count(fut) : \E i \in held : i.poll = p
  /\ sub - Len(hist) \in Count(fut) .. 2
  /\ fut \in {None, sub}
  /\ sub = Len(hist) + Cardinality(held) + Count(fut)
  /\ \A k \in DOMAIN hist : hist[k] = k
  /\ m = since + rep + (IF fut = None THEN 0 ELSE before) + Carried(held)

FeedInv(f) ==
  Line(Held(f), handled[f], submitted[f], future[f], missed[f], missedSince[f], reported[f],
       missedBefore[f])

\* The invariants speak of each feed by itself.
LEMMA FeedByFeed ==
  ASSUME TypeOK
  PROVE  HeldInv /\ ReportedOnceInOrder <=> \A f \in Feeds : FeedInv(f)
<1>1. ASSUME NEW f \in Feeds
      PROVE  FeedInv(f) <=>
               /\ \A i, j \in Held(f) : i.poll = j.poll => i = j
               /\ {i.poll : i \in Held(f)} = Len(handled[f]) + 1 .. submitted[f] - Active(f)
               /\ submitted[f] - Len(handled[f]) \in Active(f) .. 2
               /\ future[f] \in {None, submitted[f]}
               /\ submitted[f] = Len(handled[f]) + Cardinality(Held(f)) + Active(f)
               /\ \A k \in DOMAIN handled[f] : handled[f][k] = k
               /\ missed[f] = missedSince[f] + reported[f]
                              + (IF future[f] = None THEN 0 ELSE missedBefore[f])
                              + Carried(Held(f))
  <2> DEFINE T == Held(f)
             S == Len(handled[f]) + 1 .. submitted[f] - Active(f)
  <2>1. Count(future[f]) = Active(f)
    BY DEF Count, Active
  <2>2. {i.poll : i \in T} = S <=> /\ \A i \in T : i.poll \in S
                                   /\ \A p \in S : \E i \in T : i.poll = p
    <3> HIDE DEF T, S
    <3> QED
      OBVIOUS
  <2> HIDE DEF T, S
  <2>3. FeedInv(f) <=>
          /\ \A i, j \in T : i.poll = j.poll => i = j
          /\ \A i \in T : i.poll \in S
          /\ \A p \in S : \E i \in T : i.poll = p
          /\ submitted[f] - Len(handled[f]) \in Active(f) .. 2
          /\ future[f] \in {None, submitted[f]}
          /\ submitted[f] = Len(handled[f]) + Cardinality(T) + Active(f)
          /\ \A k \in DOMAIN handled[f] : handled[f][k] = k
          /\ missed[f] = missedSince[f] + reported[f]
                         + (IF future[f] = None THEN 0 ELSE missedBefore[f]) + Carried(T)
    BY Zenon, <2>1 DEF FeedInv, Line, T, S
  <2>4. QED
    BY Zenon, <2>2, <2>3 DEF T, S
<1>2. \A f \in Feeds : MapThenSumSet(LAMBDA i : i.missed, Held(f)) = Carried(Held(f))
  BY DEF Carried
<1>3. QED
  BY Zenon, <1>1, <1>2 DEF HeldInv, ReportedOnceInOrder

\* Results with the same poll at most are one result at most.
LEMMA AtMostOne ==
  ASSUME NEW T, NEW c, \A i \in T : i.poll = c, \A i, j \in T : i.poll = j.poll => i = j
  PROVE  T = {} \/ \E y \in T : T = {y}
OBVIOUS

\* Deadlines that get no request wait for the next one.
LEMMA LineMisses ==
  ASSUME NEW held, NEW hist, NEW sub \in Nat, NEW fut, NEW m \in Nat, NEW since \in Nat,
         NEW rep \in Nat, NEW before \in Nat, Carried(held) \in Nat, NEW c \in Nat,
         Line(held, hist, sub, fut, m, since, rep, before)
  PROVE  Line(held, hist, sub, fut, m + c, since + c, rep, before)
BY DEF Line

\* A terminal future moves on behind the one result that may be held already.
LEMMA LineMoves ==
  ASSUME NEW held \in SUBSET Item, NEW hist \in Seq(Poll), NEW sub \in Nat, NEW fut \in Nat,
         NEW m \in Nat, NEW since \in Nat, NEW rep \in Nat, NEW before \in Nat, NEW c \in Nat,
         NEW x \in Item, x.poll = fut, x.missed = before, fut # None,
         Line(held, hist, sub, fut, m, since, rep, before)
  PROVE  /\ Line(held \cup {x}, hist, sub, None, m + c, since + c, rep, before)
         /\ \A i \in held : i.poll < fut
<1>1. Len(hist) \in Nat /\ Count(fut) = 1 /\ Count(None) = 0 /\ fut = sub
  BY LenProperties DEF Line, Count
<1>2. /\ \A i, j \in held : i.poll = j.poll => i = j
      /\ \A i \in held : i.poll \in Len(hist) + 1 .. sub - 1
      /\ \A p \in Len(hist) + 1 .. sub - 1 : \E i \in held : i.poll = p
      /\ sub - Len(hist) \in 1..2
      /\ sub = Len(hist) + Cardinality(held) + 1
      /\ \A k \in DOMAIN hist : hist[k] = k
      /\ m = since + rep + before + Carried(held)
  BY <1>1 DEF Line
<1>3. held = {} \/ \E y \in held : held = {y}
  <2>1. \A i \in held : i.poll = Len(hist) + 1
    BY <1>1, <1>2
  <2>2. QED
    BY <1>2, <2>1, AtMostOne
<1>4. \A i \in held : i.poll < fut /\ i.poll # x.poll
  BY <1>1, <1>2
<1>5. /\ Carried(held) \in Nat /\ Carried(held \cup {x}) = Carried(held) + before
      /\ Cardinality(held) \in Nat /\ Cardinality(held \cup {x}) = Cardinality(held) + 1
  BY <1>3, <1>4, OneMore
<1> DEFINE T == held \cup {x}
<1>6. \A i, j \in T : i.poll = j.poll => i = j
  BY <1>2, <1>4
<1>7. \A i \in T : i.poll \in Len(hist) + 1 .. sub
  BY <1>1, <1>2
<1>8. \A p \in Len(hist) + 1 .. sub : \E i \in T : i.poll = p
  <2> SUFFICES ASSUME NEW p \in Len(hist) + 1 .. sub PROVE \E i \in T : i.poll = p
    OBVIOUS
  <2>1. CASE p = sub
    BY <1>1, <2>1
  <2>2. CASE p # sub
    <3>1. p \in Len(hist) + 1 .. sub - 1
      BY <1>1, <2>2
    <3>2. QED
      BY <1>2, <3>1
  <2>3. QED
    BY <2>1, <2>2
<1>9. sub - Len(hist) \in 0..2 /\ sub - 0 = sub /\ sub = Len(hist) + Cardinality(T) + 0
  BY SMTT(60), <1>1, <1>2, <1>5
<1>10. m + c = (since + c) + rep + 0 + Carried(T)
  BY <1>2, <1>5
<1> HIDE DEF T
<1>11. Line(T, hist, sub, None, m + c, since + c, rep, before)
  BY Zenon, <1>1, <1>2, <1>6, <1>7, <1>8, <1>9, <1>10 DEF Line
<1>12. QED
  BY <1>4, <1>11 DEF T

\* A request takes along the deadlines missed since the one before it.
LEMMA LineSubmits ==
  ASSUME NEW held \in SUBSET Item, NEW hist \in Seq(Poll), NEW sub \in Nat,
         NEW m \in Nat, NEW since \in Nat, NEW rep \in Nat, NEW before \in Nat, NEW c \in Nat,
         held = {} \/ \E y \in held : held = {y},
         Line(held, hist, sub, None, m, since, rep, before)
  PROVE  Line(held, hist, sub + 1, sub + 1, m + c, 0, rep, since + c)
<1>1. Len(hist) \in Nat /\ Count(None) = 0 /\ Count(sub + 1) = 1 /\ sub + 1 # None
  BY LenProperties DEF Count, None
<1>2. /\ \A i, j \in held : i.poll = j.poll => i = j
      /\ \A i \in held : i.poll \in Len(hist) + 1 .. sub - 0
      /\ \A p \in Len(hist) + 1 .. sub - 0 : \E i \in held : i.poll = p
      /\ sub - Len(hist) \in 0..2
      /\ sub = Len(hist) + Cardinality(held) + 0
      /\ \A k \in DOMAIN hist : hist[k] = k
      /\ m = since + rep + 0 + Carried(held)
  BY Zenon, <1>1 DEF Line
<1>3. Cardinality(held) \in 0..1 /\ Carried(held) \in Nat
  <2>1. CASE held = {}
    BY <2>1, CarriedByNone, FS_EmptySet
  <2>2. CASE \E y \in held : held = {y}
    <3>1. PICK y \in held : held = {y}
      BY <2>2
    <3>2. Carried(held) = y.missed /\ Cardinality(held) = 1
      BY <3>1, CarriedByOne, FS_Singleton DEF Item
    <3>3. QED
      BY <3>2 DEF Item
  <2>3. QED
    BY <2>1, <2>2
<1>4. (sub + 1) - Count(sub + 1) = sub - 0
  BY <1>1
<1>5. /\ (sub + 1) - Len(hist) \in Count(sub + 1) .. 2
      /\ sub + 1 = Len(hist) + Cardinality(held) + Count(sub + 1)
  BY <1>1, <1>2, <1>3
<1>6. m + c = 0 + rep + (since + c) + Carried(held)
  BY <1>2, <1>3
<1>7. QED
  BY Zenon, <1>1, <1>2, <1>4, <1>5, <1>6 DEF Line

\* The processor takes the oldest of the results that are held.
LEMMA LineHandled ==
  ASSUME NEW held \in SUBSET Item, NEW hist \in Seq(Poll), NEW sub \in Nat, NEW fut \in Nat,
         NEW m \in Nat, NEW since \in Nat, NEW rep \in Nat, NEW before \in Nat,
         NEW i \in held, \A j \in held : i.poll <= j.poll,
         Line(held, hist, sub, fut, m, since, rep, before)
  PROVE  Line(held \ {i}, Append(hist, i.poll), sub, fut, m, since, rep + i.missed, before)
<1> DEFINE a == Count(fut)
           T == held \ {i}
           h == Append(hist, i.poll)
           b == IF fut = None THEN 0 ELSE before
<1>1. Len(hist) \in Nat /\ DOMAIN hist = 1..Len(hist) /\ a \in 0..1 /\ b \in Nat
      /\ i.poll \in Poll /\ i.missed \in Nat /\ \A j \in held : j.poll \in Nat
  BY LenProperties DEF Count, Item, Poll
<1>2. /\ \A j, k \in held : j.poll = k.poll => j = k
      /\ \A j \in held : j.poll \in Len(hist) + 1 .. sub - a
      /\ \A p \in Len(hist) + 1 .. sub - a : \E j \in held : j.poll = p
      /\ sub - Len(hist) \in a..2
      /\ fut \in {None, sub}
      /\ sub = Len(hist) + Cardinality(held) + a
      /\ \A k \in DOMAIN hist : hist[k] = k
      /\ m = since + rep + b + Carried(held)
  BY Zenon DEF Line
<1>3. Len(h) = Len(hist) + 1 /\ DOMAIN h = 1..Len(hist) + 1 /\ h[Len(hist) + 1] = i.poll
      /\ \A k \in 1..Len(hist) : h[k] = hist[k]
  <2>1. h \in Seq(Poll) /\ Len(h) = Len(hist) + 1 /\ h[Len(hist) + 1] = i.poll
        /\ \A k \in 1..Len(hist) : h[k] = hist[k]
    BY <1>1, AppendProperties
  <2>2. QED
    BY <2>1, LenProperties
<1> HIDE DEF a, h, b
<1>0. i.poll \in Nat /\ i.poll \in Len(hist) + 1 .. sub - a /\ a \in Nat
  BY <1>1, <1>2
<1>4. i.poll = Len(hist) + 1
  <2>1. Len(hist) + 1 \in Len(hist) + 1 .. sub - a
    BY <1>0, <1>1
  <2>2. PICK j \in held : j.poll = Len(hist) + 1
    BY <1>2, <2>1
  <2>3. QED
    BY SMTT(60), <1>1, <1>2, <2>2
<1>5. \A j, k \in T : j.poll = k.poll => j = k
  BY <1>2
<1>6. \A j \in T : j.poll \in (Len(hist) + 1) + 1 .. sub - a
  <2> SUFFICES ASSUME NEW j \in T PROVE j.poll \in (Len(hist) + 1) + 1 .. sub - a
    OBVIOUS
  <2>1. j \in held /\ j.poll # i.poll /\ j.poll \in Nat /\ j.poll \in Len(hist) + 1 .. sub - a
    BY <1>1, <1>2
  <2>2. QED
    BY <1>0, <1>1, <1>4, <2>1
<1>7. \A p \in (Len(hist) + 1) + 1 .. sub - a : \E j \in T : j.poll = p
  <2> SUFFICES ASSUME NEW p \in (Len(hist) + 1) + 1 .. sub - a PROVE \E j \in T : j.poll = p
    OBVIOUS
  <2>1. p \in Len(hist) + 1 .. sub - a /\ p # i.poll
    BY <1>1, <1>4
  <2>2. PICK j \in held : j.poll = p
    BY <1>2, <2>1
  <2>3. QED
    BY <2>1, <2>2
<1>8. T = {} \/ \E y \in T : T = {y}
  <2>1. \A j \in T : j.poll = Len(hist) + 2
    <3> SUFFICES ASSUME NEW j \in T PROVE j.poll = Len(hist) + 2
      OBVIOUS
    <3>1. j.poll \in (Len(hist) + 1) + 1 .. sub - a /\ j.poll \in Nat
      BY <1>1, <1>6
    <3>2. sub - Len(hist) \in a..2
      BY <1>2
    <3>3. QED
      BY <1>0, <1>1, <3>1, <3>2
  <2>2. QED
    BY <1>5, <2>1, AtMostOne
<1>9. /\ Carried(T) \in Nat /\ Carried(held) = Carried(T) + i.missed
      /\ Cardinality(T) \in Nat /\ Cardinality(held) = Cardinality(T) + 1
  <2>1. i \notin T /\ T \in SUBSET Item /\ i \in Item /\ held = T \cup {i}
    OBVIOUS
  <2> HIDE DEF T
  <2>2. /\ Carried(T) \in Nat /\ Carried(T \cup {i}) = Carried(T) + i.missed
        /\ Cardinality(T) \in Nat /\ Cardinality(T \cup {i}) = Cardinality(T) + 1
    BY <1>8, <2>1, OneMore
  <2>3. QED
    BY Zenon, <2>1, <2>2
<1>10. sub - (Len(hist) + 1) \in a..2 /\ sub = (Len(hist) + 1) + Cardinality(T) + a
  <2>1. sub - Len(hist) \in a..2 /\ sub = Len(hist) + Cardinality(held) + a
    BY <1>2
  <2>2. Cardinality(T) \in Nat /\ Cardinality(held) = Cardinality(T) + 1
    BY <1>9
  <2>3. Len(hist) + 1 <= sub - a
    BY <1>0, <1>1, <1>4
  <2>4. ASSUME NEW l \in Nat, NEW n \in Nat, NEW d, d = n + 1, l + 1 <= sub - a,
               sub - l \in a..2, sub = l + d + a
        PROVE  sub - (l + 1) \in a..2 /\ sub = (l + 1) + n + a
    BY <1>0, <2>4
  <2> HIDE DEF T
  <2>5. QED
    BY <1>1, <2>1, <2>2, <2>3, <2>4
<1>11. \A k \in DOMAIN h : h[k] = k
  <2>1. \A k \in 1..Len(hist) + 1 : k \in 1..Len(hist) \/ k = Len(hist) + 1
    BY <1>1
  <2>2. QED
    BY Zenon, <1>1, <1>2, <1>3, <1>4, <2>1
<1>12. m = since + (rep + i.missed) + b + Carried(T)
  <2>1. m = since + rep + b + Carried(held)
    BY <1>2
  <2>2. Carried(T) \in Nat /\ Carried(held) = Carried(T) + i.missed
    BY <1>9
  <2>3. QED
    BY SMTT(60), <1>1, <2>1, <2>2
<1> HIDE DEF T
<1>13. Line(T, h, sub, fut, m, since, rep + i.missed, before)
  BY Zenon, <1>2, <1>3, <1>5, <1>6, <1>7, <1>10, <1>11, <1>12 DEF Line, a, b
<1>14. QED
  BY <1>13 DEF T, h

--------------------------------------------------------------------------------
(* One pass of step() *)

\* A feed holds so little that what it carries adds up.
LEMMA LineAddsUp ==
  ASSUME NEW held \in SUBSET Item, NEW hist \in Seq(Poll), NEW sub \in Nat, NEW fut, NEW m,
         NEW since, NEW rep, NEW before, Line(held, hist, sub, fut, m, since, rep, before)
  PROVE  Carried(held) \in Nat
<1>1. CASE held = {}
  BY <1>1, CarriedByNone
<1>2. CASE held # {}
  <2>1. PICK x \in held : TRUE
    BY <1>2
  <2> DEFINE T == held \ {x}
             other == IF x.poll = Len(hist) + 1 THEN Len(hist) + 2 ELSE Len(hist) + 1
  <2>2. Len(hist) \in Nat /\ Count(fut) \in 0..1
    BY LenProperties DEF Count
  <2>3. /\ \A i, j \in held : i.poll = j.poll => i = j
        /\ \A i \in held : i.poll \in Len(hist) + 1 .. sub - Count(fut)
        /\ sub - Len(hist) \in Count(fut) .. 2
    BY DEF Line
  <2>4. \A i \in held : i.poll \in {Len(hist) + 1, Len(hist) + 2}
    BY <2>2, <2>3
  <2>5. \A i \in T : i.poll # x.poll
    BY <2>3
  <2>6. \A i \in T : i.poll = other
    BY <2>2, <2>4, <2>5
  <2>7. \A i, j \in T : i.poll = j.poll => i = j
    BY <2>3
  <2>8. T \in SUBSET Item /\ x \notin T /\ x \in Item /\ T \cup {x} = held
    BY <2>1
  <2> HIDE DEF T, other
  <2>9. T = {} \/ \E y \in T : T = {y}
    BY <2>6, <2>7, AtMostOne
  <2>10. Carried(T) \in Nat /\ Carried(T \cup {x}) = Carried(T) + x.missed /\ x.missed \in Nat
    BY <2>8, <2>9, OneMore DEF Item
  <2>11. Carried(T \cup {x}) \in Nat
    BY <2>10
  <2>12. QED
    BY Zenon, <2>8, <2>11
<1>3. QED
  BY <1>1, <1>2

\* What is on its way is a result, with its feed, its poll and its missed deadlines.
LEMMA HeldTyped ==
  ASSUME TypeOK
  PROVE  /\ Pending \subseteq Item /\ Range(drained) \subseteq Item
         /\ \A f : Held(f) \subseteq Item
<1>1. /\ ready \subseteq Item /\ results \in Seq(Item) /\ drained \in Seq(Item)
      /\ mpc = "process" => item \in Item
  BY DEF TypeOK
<1>2. Range(results) \subseteq Item /\ Range(drained) \subseteq Item
  BY <1>1, Places
<1>3. Pending \subseteq Item
  BY Zenon, <1>1, <1>2 DEF Pending
<1>4. QED
  BY Zenon, <1>2, <1>3 DEF Held

\* The schedule of a feed is made of natural numbers.
LEMMA FeedTyped ==
  ASSUME TypeOK, NEW f \in Feeds
  PROVE  /\ Held(f) \in SUBSET Item /\ handled[f] \in Seq(Poll) /\ submitted[f] \in Nat
         /\ future[f] \in Nat /\ missed[f] \in Nat /\ missedSince[f] \in Nat
         /\ reported[f] \in Nat /\ missedBefore[f] \in Nat /\ resultPending[f] \in BOOLEAN
<1>1. Held(f) \in SUBSET Item
  BY Zenon, HeldTyped
<1>2. resultPending[f] \in BOOLEAN
  BY Zenon DEF TypeOK
<1>3. QED
  BY <1>1, <1>2 DEF TypeOK

\* The item that step() makes ready for a feed.
Finished(f) == [feed |-> f, poll |-> future[f], missed |-> missedBefore[f]]

\* What step() leaves alone, and where the threads are then.
Passing(current) ==
  /\ Step(current)
  /\ ready = {}
  /\ UNCHANGED <<results, item, drained, handled, reported, accepting>>
  /\ mpc' = "process" <=> mpc = "process"
  /\ mpc \notin {"handle", "exited"}
  /\ accepting => drained = <<>>

\* step() adds the finished requests of the feeds without a pending result.
LEMMA StepHolds ==
  ASSUME NEW current, Passing(current)
  PROVE  /\ \A i : i \in Pending' <=> \/ i \in Pending
                                      \/ \E g \in Feeds : Moves(g) /\ i = Finished(g)
         /\ \A i \in ready' : \E g \in Feeds : Moves(g) /\ i = Finished(g)
         /\ \A f \in Feeds : Held(f)' = IF Moves(f) THEN Held(f) \cup {Finished(f)} ELSE Held(f)
<1>1. /\ ready' = {Finished(f) : f \in {g \in Feeds : Moves(g)}}
      /\ ready = {} /\ results' = results /\ item' = item /\ drained' = drained
      /\ mpc' = "process" <=> mpc = "process"
  BY Zenon DEF Passing, Step, Finished
<1>2. \A i : i \in ready' <=> \E g \in Feeds : Moves(g) /\ i = Finished(g)
  BY Zenon, <1>1
<1>3. \A i : i \in Pending' <=> i \in Pending \/ \E g \in Feeds : Moves(g) /\ i = Finished(g)
  <2>1. \A i : i \in Pending <=> i \in Range(results) \/ (mpc = "process" /\ i = item)
    BY <1>1 DEF Pending
  <2>2. \A i : i \in Pending' <=>
                 i \in ready' \/ i \in Range(results) \/ (mpc = "process" /\ i = item)
    BY <1>1 DEF Pending
  <2>3. QED
    BY Zenon, <1>2, <2>1, <2>2
<1>4. ASSUME NEW f \in Feeds
      PROVE  Held(f)' = IF Moves(f) THEN Held(f) \cup {Finished(f)} ELSE Held(f)
  <2>1. \A g : Finished(g).feed = g
    BY DEF Finished
  <2>2. \A i : i \in Held(f) <=> (i \in Pending \/ i \in Range(drained)) /\ i.feed = f
    BY Zenon DEF Held
  <2>3. \A i : i \in Held(f)' <=> (i \in Pending' \/ i \in Range(drained)) /\ i.feed = f
    BY Zenon, <1>1 DEF Held
  <2> HIDE DEF Finished
  <2>4. \A i : i \in Held(f)' <=> i \in Held(f) \/ (Moves(f) /\ i = Finished(f))
    BY Zenon, <1>3, <2>1, <2>2, <2>3
  <2>5. QED
    BY <2>4
<1>5. QED
  BY Zenon, <1>2, <1>3, <1>4

\* A feed whose result is not pending holds what was drained and nothing else.
LEMMA NotPending ==
  ASSUME PendingInv, mpc \notin {"handle", "exited"}, NEW f \in Feeds, ~resultPending[f]
  PROVE  Held(f) = {i \in Range(drained) : i.feed = f}
<1>1. ~ \E i \in Pending : i.feed = f
  BY Zenon DEF PendingInv
<1>2. QED
  BY <1>1 DEF Held

\* step() keeps every feed's polls in line: it moves on what has ended, takes the
\* missed deadlines along and counts what it cannot submit.
LEMMA StepFeed ==
  ASSUME TypeOK, PendingInv, NEW current \in Nat, Passing(current), NEW f \in Feeds, FeedInv(f)
  PROVE  FeedInv(f)'
<1> DEFINE x == Finished(f)
           c == Coalesced(f, current)
           held == Held(f)
           hist == handled[f]
           sub == submitted[f]
           fut == future[f]
           m == missed[f]
           since == missedSince[f]
           rep == reported[f]
           before == missedBefore[f]
<1>0. Line(held, hist, sub, fut, m, since, rep, before)
  BY Zenon DEF FeedInv
<1>1. /\ held \in SUBSET Item /\ hist \in Seq(Poll) /\ sub \in Nat /\ fut \in Nat /\ m \in Nat
      /\ since \in Nat /\ rep \in Nat /\ before \in Nat /\ c \in Nat
  BY FeedTyped, CoalescedIsNat
<1>2. /\ handled'[f] = hist /\ reported'[f] = rep
      /\ submitted'[f] = sub + (IF Submits(f, current) THEN 1 ELSE 0)
      /\ future'[f] = IF Submits(f, current) THEN sub + 1
                      ELSE IF Moves(f) THEN None ELSE fut
      /\ missed'[f] = m + c
      /\ missedSince'[f] = IF Submits(f, current) THEN 0 ELSE since + c
      /\ missedBefore'[f] = IF Submits(f, current) THEN since + c ELSE before
  BY Zenon DEF Passing, Step, SinceRequest, Unreported
<1>3. Held(f)' = IF Moves(f) THEN held \cup {x} ELSE held
  BY StepHolds
<1>4. x.poll = fut /\ x.missed = before /\ (fut # None => x \in Item)
  BY <1>1 DEF Finished, Item, Poll, None
<1>5. Moves(f) => fut # None /\ ~resultPending[f]
  BY Zenon DEF Moves
<1>6. Submits(f, current) => Moves(f) \/ fut = None
  BY Zenon DEF Submits
<1>7. Submits(f, current) => drained = <<>>
  <2>1. Due(f, current) > 0 => accepting
    BY DEF Due
  <2>2. QED
    BY Zenon, <2>1 DEF Submits, Passing
<1>8. Range(<<>>) = {}
  BY DEF Range
<1>9. Carried(held) \in Nat
  BY <1>0, <1>1, LineAddsUp
<1>10. Moves(f) /\ Submits(f, current) => held = {}
  BY <1>5, <1>7, <1>8, NotPending DEF Passing
<1>11. Submits(f, current) => (held = {} \/ \E y \in held : held = {y})
  <2>1. Submits(f, current) => \A i, j \in held : i = j
    <3>1. Submits(f, current) => \A i \in held : i \in Pending /\ i.feed = f
      BY <1>7, <1>8 DEF Held
    <3>2. \A i, j \in Pending : i.feed = j.feed => i = j
      BY DEF PendingInv
    <3> HIDE DEF held
    <3>3. QED
      BY <3>1, <3>2
  <2> HIDE DEF held
  <2>2. QED
    BY <2>1
<1> HIDE DEF x, c, held, hist, sub, fut, m, since, rep, before
<1>12. CASE Moves(f) /\ ~Submits(f, current)
  <2>1. Line(held \cup {x}, hist, sub, None, m + c, since + c, rep, before)
    BY <1>0, <1>1, <1>4, <1>5, <1>12, LineMoves
  <2>2. QED
    <3>1. /\ Held(f)' = held \cup {x} /\ submitted'[f] = sub /\ future'[f] = None
          /\ missedSince'[f] = since + c /\ missedBefore'[f] = before
      BY <1>1, <1>2, <1>3, <1>12
    <3>2. QED
      BY Zenon, <1>2, <2>1, <3>1 DEF FeedInv
<1>13. CASE ~Moves(f) /\ ~Submits(f, current)
  <2>1. Line(held, hist, sub, fut, m + c, since + c, rep, before)
    BY <1>0, <1>1, <1>9, LineMisses
  <2>2. QED
    <3>1. /\ Held(f)' = held /\ submitted'[f] = sub /\ future'[f] = fut
          /\ missedSince'[f] = since + c /\ missedBefore'[f] = before
      BY <1>1, <1>2, <1>3, <1>13
    <3>2. QED
      BY Zenon, <1>2, <2>1, <3>1 DEF FeedInv
<1>14. CASE Moves(f) /\ Submits(f, current)
  <2>1. Line(held \cup {x}, hist, sub, None, m + 0, since + 0, rep, before)
    BY <1>0, <1>1, <1>4, <1>5, <1>14, LineMoves
  <2>2. m + 0 = m /\ since + 0 = since /\ held \cup {x} = {x} /\ {x} \in SUBSET Item
    BY <1>1, <1>4, <1>5, <1>10, <1>14
  <2>3. Line({x}, hist, sub, None, m, since, rep, before)
    BY Zenon, <2>1, <2>2
  <2>4. Line({x}, hist, sub + 1, sub + 1, m + c, 0, rep, since + c)
    BY <1>1, <2>2, <2>3, LineSubmits
  <2>5. QED
    <3>1. /\ Held(f)' = {x} /\ submitted'[f] = sub + 1 /\ future'[f] = sub + 1
          /\ missedSince'[f] = 0 /\ missedBefore'[f] = since + c
      BY <1>1, <1>2, <1>3, <1>14, <2>2
    <3>2. QED
      BY Zenon, <1>2, <2>4, <3>1 DEF FeedInv
<1>15. CASE ~Moves(f) /\ Submits(f, current)
  <2>1. fut = None
    BY <1>6, <1>15
  <2>2. Line(held, hist, sub, None, m, since, rep, before)
    BY Zenon, <1>0, <2>1
  <2>3. Line(held, hist, sub + 1, sub + 1, m + c, 0, rep, since + c)
    BY <1>1, <1>11, <1>15, <2>2, LineSubmits
  <2>4. QED
    <3>1. /\ Held(f)' = held /\ submitted'[f] = sub + 1 /\ future'[f] = sub + 1
          /\ missedSince'[f] = 0 /\ missedBefore'[f] = since + c
      BY <1>1, <1>2, <1>3, <1>15
    <3>2. QED
      BY Zenon, <1>2, <2>3, <3>1 DEF FeedInv
<1>16. QED
  BY <1>12, <1>13, <1>14, <1>15

\* step() makes one result of a feed pending at a time, behind those drained before.
LEMMA StepPending ==
  ASSUME TypeOK, PendingInv, NEW current \in Nat, Passing(current), \A f \in Feeds : FeedInv(f)
  PROVE  PendingInv'
<1>1. /\ \A f \in Feeds : resultPending[f] <=> \E i \in Pending : i.feed = f
      /\ \A i \in Pending : pendingPoll[i.feed] = i.poll
      /\ \A i, j \in Pending : i.feed = j.feed => i = j
      /\ \A k, l \in DOMAIN results : results[k] = results[l] => k = l
      /\ mpc = "process" => item \notin Range(results)
      /\ \A k \in DOMAIN drained : \A i \in Pending :
           drained[k].feed = i.feed => drained[k].poll < i.poll
      /\ \A k, l \in DOMAIN drained :
           k < l /\ drained[k].feed = drained[l].feed => drained[k].poll < drained[l].poll
  BY DEF PendingInv, Passing
<1>2. /\ \A f \in Feeds : resultPending'[f] <=> resultPending[f] \/ Moves(f)
      /\ \A f \in Feeds : pendingPoll'[f] = IF Moves(f) THEN future[f] ELSE pendingPoll[f]
      /\ results' = results /\ item' = item /\ drained' = drained
      /\ mpc' = "process" <=> mpc = "process"
  BY Zenon DEF Passing, Step
<1>3. /\ \A i : i \in Pending' <=> i \in Pending \/ \E g \in Feeds : Moves(g) /\ i = Finished(g)
      /\ \A i \in ready' : \E g \in Feeds : Moves(g) /\ i = Finished(g)
  BY StepHolds
<1>4. \A g : Finished(g).feed = g /\ Finished(g).poll = future[g]
  BY DEF Finished
<1>5. \A g \in Feeds : Moves(g) => ~resultPending[g] /\ future[g] # None
  BY Zenon DEF Moves
<1>6. \A i \in Pending : i.feed \in Feeds
  BY HeldTyped DEF Item
<1>7. \A i \in Pending : ~Moves(i.feed)
  BY Zenon, <1>1, <1>5, <1>6
<1>8. /\ \A k \in DOMAIN results : results[k] \in Pending
      /\ mpc = "process" => item \in Pending
  <2>1. results \in Seq(Item)
    BY DEF TypeOK
  <2>2. \A k \in DOMAIN results : results[k] \in Range(results)
    BY Zenon, <2>1, Places
  <2>3. QED
    BY Zenon, <2>2 DEF Pending
<1>9. \A i \in ready' : i \notin Pending
  BY Zenon, <1>3, <1>4, <1>7
<1>10. \A k \in DOMAIN drained : \A g \in Feeds :
         Moves(g) /\ drained[k].feed = g => drained[k].poll < Finished(g).poll
  <2> SUFFICES ASSUME NEW k \in DOMAIN drained, NEW g \in Feeds, Moves(g), drained[k].feed = g
               PROVE  drained[k].poll < future[g]
    BY <1>4
  <2>1. drained[k] \in Held(g)
    <3>1. drained[k] \in Range(drained)
      BY Zenon, Places DEF TypeOK
    <3>2. QED
      BY Zenon, <3>1 DEF Held
  <2>2. /\ Held(g) \in SUBSET Item /\ handled[g] \in Seq(Poll) /\ submitted[g] \in Nat
        /\ future[g] \in Nat /\ missed[g] \in Nat /\ missedSince[g] \in Nat
        /\ reported[g] \in Nat /\ missedBefore[g] \in Nat
    BY FeedTyped
  <2>3. /\ Finished(g).poll = future[g] /\ Finished(g).missed = missedBefore[g]
        /\ Finished(g) \in Item /\ future[g] # None
    BY <1>5, <2>2 DEF Finished, Item, Poll, None
  <2>4. Line(Held(g), handled[g], submitted[g], future[g], missed[g], missedSince[g],
             reported[g], missedBefore[g])
    BY Zenon DEF FeedInv
  <2> HIDE DEF Finished
  <2>5. \A i \in Held(g) : i.poll < future[g]
    BY <2>2, <2>3, <2>4, LineMoves
  <2>6. QED
    BY <2>1, <2>5
<1> HIDE DEF Finished
<1>11. \A f \in Feeds : resultPending'[f] <=> \E i \in Pending' : i.feed = f
  <2> SUFFICES ASSUME NEW f \in Feeds
               PROVE  resultPending'[f] <=> \E i \in Pending' : i.feed = f
    OBVIOUS
  <2>1. ASSUME resultPending[f] PROVE \E i \in Pending' : i.feed = f
    BY <1>1, <1>3, <2>1
  <2>2. ASSUME Moves(f) PROVE \E i \in Pending' : i.feed = f
    BY <1>3, <1>4, <2>2
  <2>3. ASSUME NEW i \in Pending', i.feed = f PROVE resultPending[f] \/ Moves(f)
    <3>1. CASE i \in Pending
      BY <1>1, <2>3, <3>1
    <3>2. CASE \E g \in Feeds : Moves(g) /\ i = Finished(g)
      BY <1>4, <2>3, <3>2
    <3>3. QED
      BY <1>3, <3>1, <3>2
  <2>4. resultPending'[f] <=> resultPending[f] \/ Moves(f)
    BY Zenon, <1>2
  <2>5. QED
    BY Zenon, <2>1, <2>2, <2>3, <2>4
<1>12. \A i \in Pending' : pendingPoll'[i.feed] = i.poll
  <2> SUFFICES ASSUME NEW i \in Pending' PROVE pendingPoll'[i.feed] = i.poll
    OBVIOUS
  <2>1. CASE i \in Pending
    BY <1>1, <1>2, <1>6, <1>7, <2>1
  <2>2. CASE \E g \in Feeds : Moves(g) /\ i = Finished(g)
    BY <1>2, <1>4, <2>2
  <2>3. QED
    BY <1>3, <2>1, <2>2
<1>13. \A i, j \in Pending' : i.feed = j.feed => i = j
  <2>1. \A i \in Pending' : \/ i \in Pending /\ ~Moves(i.feed)
                            \/ Moves(i.feed) /\ i = Finished(i.feed)
    BY <1>3, <1>4, <1>7
  <2>2. QED
    BY <1>1, <2>1
<1>14. \A k \in DOMAIN results : results[k] \notin ready'
  BY Zenon, <1>8, <1>9
<1>15. mpc' = "process" => item \notin ready' \cup Range(results)
  BY Zenon, <1>1, <1>2, <1>8, <1>9
<1>16. \A k \in DOMAIN drained : \A i \in Pending' :
         drained[k].feed = i.feed => drained[k].poll < i.poll
  <2> SUFFICES ASSUME NEW k \in DOMAIN drained, NEW i \in Pending', drained[k].feed = i.feed
               PROVE  drained[k].poll < i.poll
    OBVIOUS
  <2>1. CASE i \in Pending
    BY <1>1, <2>1
  <2>2. CASE \E g \in Feeds : Moves(g) /\ i = Finished(g)
    <3>1. PICK g \in Feeds : Moves(g) /\ i = Finished(g)
      BY <2>2
    <3>2. QED
      BY Zenon, <1>4, <1>10, <3>1
  <2>3. QED
    BY <1>3, <2>1, <2>2
<1>17. QED
  BY Zenon, <1>1, <1>2, <1>11, <1>12, <1>13, <1>14, <1>15, <1>16 DEF PendingInv

--------------------------------------------------------------------------------
(* The other steps *)

Feed == <<submitted, future, missed, missedSince, missedBefore, handled, reported>>

\* A feed whose schedule and results stay as they are stays in line.
LEMMA FeedStays ==
  ASSUME NEW f \in Feeds, FeedInv(f), UNCHANGED Feed, Held(f)' = Held(f)
  PROVE  FeedInv(f)'
BY Zenon DEF FeedInv, Feed

\* Results are where they were: a wakeup, a completed request, a stage of the shutdown.
LEMMA QuietKeeps ==
  ASSUME PendingInv, UNCHANGED <<ready, results, item, drained, resultPending, pendingPoll>>,
         mpc' = "process" <=> mpc = "process",
         mpc \in {"handle", "exited"} => mpc' \in {"handle", "exited"}
  PROVE  PendingInv' /\ \A f : Held(f)' = Held(f)
<1>1. /\ ready' = ready /\ results' = results /\ item' = item /\ drained' = drained
      /\ resultPending' = resultPending /\ pendingPoll' = pendingPoll
  BY Zenon
<1>2. Pending' = Pending
  BY Zenon, <1>1 DEF Pending
<1>3. \A f : Held(f)' = Held(f)
  BY Zenon, <1>1, <1>2 DEF Held
<1>4. PendingInv'
  BY ZenonT(60), <1>1, <1>2 DEF PendingInv
<1>5. QED
  BY <1>3, <1>4

\* put_nowait moves a result from the ready list to the end of the queue.
LEMMA PutKeeps ==
  ASSUME TypeOK, PendingInv, PutNowait,
         UNCHANGED <<mpc, item, drained, resultPending, pendingPoll>>
  PROVE  PendingInv' /\ \A f : Held(f)' = Held(f)
<1>1. PICK x \in ready : results' = Append(results, x) /\ ready' = ready \ {x}
  BY DEF PutNowait
<1>2. x \in Item /\ results \in Seq(Item)
  BY DEF TypeOK
<1>3. /\ mpc' = mpc /\ item' = item /\ drained' = drained
      /\ resultPending' = resultPending /\ pendingPoll' = pendingPoll
  BY Zenon
<1>4. /\ Len(results) \in Nat /\ DOMAIN results = 1..Len(results)
      /\ \A i : i \in Range(results) <=> \E k \in 1..Len(results) : results[k] = i
  BY <1>2, Places
<1>5. /\ results' \in Seq(Item) /\ Len(results') = Len(results) + 1
      /\ \A k \in 1..Len(results) : results'[k] = results[k]
      /\ results'[Len(results) + 1] = x
      /\ Range(results') = Range(results) \cup {x}
  BY Zenon, <1>1, <1>2, PlacesAppended
<1>6. \A k \in DOMAIN results' : k \in 1..Len(results) \/ k = Len(results) + 1
  <2>1. DOMAIN results' = 1..Len(results')
    BY <1>5, Places
  <2>2. QED
    BY <1>4, <1>5, <2>1
<1>7. Pending' = Pending
  <2>1. ready' \cup Range(results') = ready \cup Range(results)
    BY <1>1, <1>5
  <2>2. QED
    BY Zenon, <1>3, <2>1 DEF Pending
<1>8. \A f : Held(f)' = Held(f)
  BY Zenon, <1>3, <1>7 DEF Held
<1>9. /\ \A k \in 1..Len(results) : results[k] \notin ready
      /\ \A k, l \in 1..Len(results) : results[k] = results[l] => k = l
      /\ mpc = "process" => item \notin ready \cup Range(results)
  BY Zenon, <1>4 DEF PendingInv
<1>10. \A k \in DOMAIN results' : results'[k] \notin ready'
  BY Zenon, <1>1, <1>5, <1>6, <1>9
<1>11. \A k, l \in DOMAIN results' : results'[k] = results'[l] => k = l
  <2> DEFINE r == results'
             n == Len(results)
  <2>1. \A k \in 1..n : r[k] = results[k] /\ r[k] # r[n + 1]
    BY Zenon, <1>5, <1>9
  <2>2. \A k \in DOMAIN r : k \in 1..n \/ k = n + 1
    BY Zenon, <1>6
  <2> HIDE DEF r, n
  <2>3. \A k, l \in DOMAIN r : r[k] = r[l] => k = l
    <3> SUFFICES ASSUME NEW k \in DOMAIN r, NEW l \in DOMAIN r, r[k] = r[l] PROVE k = l
      OBVIOUS
    <3>1. CASE k \in 1..n /\ l \in 1..n
      BY Zenon, <1>9, <2>1, <3>1 DEF n
    <3>2. CASE k = n + 1 /\ l = n + 1
      BY <3>2
    <3>3. CASE (k \in 1..n /\ l = n + 1) \/ (k = n + 1 /\ l \in 1..n)
      BY Zenon, <2>1, <3>3
    <3>4. QED
      BY <2>2, <3>1, <3>2, <3>3
  <2>4. QED
    BY Zenon, <2>3 DEF r
<1>12. mpc' = "process" => item' \notin ready' \cup Range(results')
  BY Zenon, <1>1, <1>3, <1>5, <1>9
<1>13. PendingInv'
  BY ZenonT(60), <1>3, <1>7, <1>10, <1>11, <1>12 DEF PendingInv
<1>14. QED
  BY <1>8, <1>13

\* get_nowait takes the first of the queue.
LEMMA GetKeeps ==
  ASSUME TypeOK, PendingInv, Get
  PROVE  PendingInv' /\ \A f : Held(f)' = Held(f)
<1>1. /\ item' = Head(results) /\ results' = Tail(results) /\ results # <<>>
      /\ ready' = ready /\ drained' = drained /\ mpc = "loop" /\ mpc' = "process"
      /\ resultPending' = resultPending /\ pendingPoll' = pendingPoll
  BY Zenon DEF Get, state
<1>2. results \in Seq(Item)
  BY DEF TypeOK
<1>3. /\ Len(results) \in Nat /\ DOMAIN results = 1..Len(results)
      /\ \A i : i \in Range(results) <=> \E k \in 1..Len(results) : results[k] = i
  BY <1>2, Places
<1>4. /\ item' = results[1] /\ 1 \in 1..Len(results)
      /\ results' \in Seq(Item) /\ Len(results') = Len(results) - 1
      /\ \A k \in 1..Len(results) - 1 : results'[k] = results[k + 1] /\ k + 1 \in 1..Len(results)
      /\ Range(results) = {item'} \cup Range(results')
  BY Zenon, <1>1, <1>2, PlacesTaken
<1>5. /\ DOMAIN results' = 1..Len(results) - 1
      /\ \A i : i \in Range(results') <=> \E k \in 1..Len(results) - 1 : results'[k] = i
  <2>1. /\ DOMAIN results' = 1..Len(results')
        /\ \A i : i \in Range(results') <=> \E k \in 1..Len(results') : results'[k] = i
    BY <1>4, Places
  <2>2. QED
    BY Zenon, <1>4, <2>1
<1>6. Pending' = Pending
  <2>1. Pending = ready \cup Range(results)
    BY <1>1 DEF Pending
  <2>2. Pending' = ready \cup Range(results') \cup {item'}
    BY <1>1 DEF Pending
  <2>3. QED
    BY <1>4, <2>1, <2>2
<1>7. \A f : Held(f)' = Held(f)
  BY Zenon, <1>1, <1>6 DEF Held
<1>8. /\ \A k \in 1..Len(results) : results[k] \notin ready
      /\ \A k, l \in 1..Len(results) : results[k] = results[l] => k = l
  BY Zenon, <1>3 DEF PendingInv
<1>9. \A k \in DOMAIN results' : results'[k] \notin ready'
  BY Zenon, <1>1, <1>4, <1>5, <1>8
<1>10. \A k \in 1..Len(results) - 1 : k \in Nat /\ k + 1 # 1
  BY <1>3
<1>11. \A k, l \in DOMAIN results' : results'[k] = results'[l] => k = l
  <2> SUFFICES ASSUME NEW k \in DOMAIN results', NEW l \in DOMAIN results',
                      results'[k] = results'[l]
               PROVE  k = l
    OBVIOUS
  <2>1. k + 1 = l + 1
    <3>1. /\ results'[k] = results[k + 1] /\ k + 1 \in 1..Len(results)
          /\ results'[l] = results[l + 1] /\ l + 1 \in 1..Len(results)
      BY Zenon, <1>4, <1>5
    <3>2. results[k + 1] = results[l + 1]
      BY Zenon, <3>1
    <3>3. QED
      BY Zenon, <1>8, <3>1, <3>2
  <2>2. QED
    BY <1>3, <1>5, <2>1
<1>12. item' \notin ready' \cup Range(results')
  <2>1. item' \notin ready'
    BY Zenon, <1>1, <1>4, <1>8
  <2>2. ASSUME item' \in Range(results') PROVE FALSE
    <3>1. PICK k \in 1..Len(results) - 1 : results'[k] = item'
      BY Zenon, <1>5, <2>2
    <3>2. results[k + 1] = results[1] /\ k + 1 \in 1..Len(results)
      BY Zenon, <1>4, <3>1
    <3>3. QED
      BY Zenon, <1>4, <1>8, <1>10, <3>2
  <2>3. QED
    BY Zenon, <2>1, <2>2
<1>13. PendingInv'
  <2>1. mpc \notin {"handle", "exited"}
    BY <1>1
  <2>2. QED
    BY Zenon, <1>1, <1>6, <1>9, <1>11, <1>12, <2>1 DEF PendingInv
<1>14. QED
  BY <1>7, <1>13

\* The queue is drained behind what was drained before, in order.
LEMMA DrainKeeps ==
  ASSUME TypeOK, PendingInv, drained' = drained \o results, results' = <<>>,
         ready = {}, ready' = {}, mpc # "process", mpc' # "process",
         mpc' \notin {"handle", "exited"} => \A f \in Feeds : ~resultPending'[f]
  PROVE  PendingInv' /\ \A f : Held(f)' = Held(f)
<1>1. results \in Seq(Item) /\ drained \in Seq(Item)
  BY DEF TypeOK
<1> DEFINE n == Len(drained)
           d == drained'
<1>2. /\ Len(results) \in Nat /\ DOMAIN results = 1..Len(results)
      /\ n \in Nat /\ DOMAIN drained = 1..n
      /\ \A i : i \in Range(results) <=> \E k \in 1..Len(results) : results[k] = i
  BY <1>1, Places
<1>3. /\ d \in Seq(Item) /\ Len(d) = n + Len(results)
      /\ \A k \in 1..n : d[k] = drained[k]
      /\ \A k \in n + 1 .. n + Len(results) : d[k] = results[k - n] /\ k - n \in 1..Len(results)
      /\ Range(d) = Range(drained) \cup Range(results)
  BY Zenon, <1>1, PlacesJoined
<1>4. DOMAIN d = 1 .. n + Len(results)
  <2>1. DOMAIN d = 1 .. Len(d)
    BY <1>3, Places
  <2>2. QED
    BY <1>3, <2>1
<1>5. Pending = Range(results)
  BY DEF Pending
<1>6. Pending' = {}
  <2>1. Range(<<>>) = {}
    BY DEF Range
  <2>2. QED
    BY <2>1 DEF Pending
<1>7. \A f : Held(f)' = Held(f)
  <2>1. Pending' \cup Range(d) = Pending \cup Range(drained)
    BY <1>3, <1>5, <1>6
  <2>2. QED
    BY Zenon, <2>1 DEF Held
<1>8. /\ \A k, l \in 1..Len(results) : results[k].feed = results[l].feed => k = l
      /\ \A k \in 1..n : \A l \in 1..Len(results) :
           drained[k].feed = results[l].feed => drained[k].poll < results[l].poll
      /\ \A k, l \in 1..n :
           k < l /\ drained[k].feed = drained[l].feed => drained[k].poll < drained[l].poll
  <2>1. /\ \A i, j \in Pending : i.feed = j.feed => i = j
        /\ \A k, l \in 1..Len(results) : results[k] = results[l] => k = l
        /\ \A k \in 1..n : \A i \in Pending :
             drained[k].feed = i.feed => drained[k].poll < i.poll
        /\ \A k, l \in 1..n :
             k < l /\ drained[k].feed = drained[l].feed => drained[k].poll < drained[l].poll
    BY Zenon, <1>2 DEF PendingInv
  <2>2. \A k \in 1..Len(results) : results[k] \in Pending
    BY Zenon, <1>2, <1>5
  <2>3. QED
    BY Zenon, <2>1, <2>2
<1>9. \A k, l \in DOMAIN d : k < l /\ d[k].feed = d[l].feed => d[k].poll < d[l].poll
  <2> HIDE DEF d, n
  <2> SUFFICES ASSUME NEW k \in DOMAIN d, NEW l \in DOMAIN d, k < l, d[k].feed = d[l].feed
               PROVE  d[k].poll < d[l].poll
    OBVIOUS
  <2>1. CASE k \in 1..n /\ l \in 1..n
    BY <1>3, <1>8, <2>1
  <2>2. CASE k \in 1..n /\ l \in n + 1 .. n + Len(results)
    <3>1. d[k] = drained[k] /\ d[l] = results[l - n] /\ l - n \in 1..Len(results)
      BY Zenon, <1>3, <2>2
    <3>2. QED
      BY Zenon, <1>8, <2>2, <3>1
  <2>3. CASE k \in n + 1 .. n + Len(results) /\ l \in n + 1 .. n + Len(results)
    <3>1. /\ d[k] = results[k - n] /\ k - n \in 1..Len(results)
          /\ d[l] = results[l - n] /\ l - n \in 1..Len(results)
      BY Zenon, <1>3, <2>3
    <3>2. k - n = l - n
      BY Zenon, <1>8, <3>1
    <3>3. QED
      BY <1>2, <2>3, <3>2
  <2>4. QED
    BY <1>2, <1>4, <2>1, <2>2, <2>3
<1>10. DOMAIN results' = {}
  OBVIOUS
<1>11. PendingInv'
  BY Zenon, <1>6, <1>9, <1>10 DEF PendingInv, d
<1>12. QED
  BY <1>7, <1>11

\* The processor takes the oldest result of a feed, and every other feed stays as it is.
LEMMA HandleFeed ==
  ASSUME TypeOK, NEW i \in Item, Handle(i), i \in Held(i.feed),
         \A j \in Held(i.feed) : i.poll <= j.poll,
         UNCHANGED <<submitted, future, missed, missedSince, missedBefore>>,
         NEW f \in Feeds, FeedInv(f), Held(f)' = Held(f) \ {i}
  PROVE  FeedInv(f)'
<1>1. /\ Held(f) \in SUBSET Item /\ handled[f] \in Seq(Poll) /\ submitted[f] \in Nat
      /\ future[f] \in Nat /\ missed[f] \in Nat /\ missedSince[f] \in Nat
      /\ reported[f] \in Nat /\ missedBefore[f] \in Nat
  BY FeedTyped
<1>2. handled \in [Feeds -> Seq(Poll)] /\ reported \in [Feeds -> Nat]
  BY DEF TypeOK
<1>3. Line(Held(f), handled[f], submitted[f], future[f], missed[f], missedSince[f],
           reported[f], missedBefore[f])
  BY Zenon DEF FeedInv
<1>4. CASE f = i.feed
  <2>1. handled'[f] = Append(handled[f], i.poll) /\ reported'[f] = reported[f] + i.missed
    BY <1>2, <1>4 DEF Handle
  <2>2. i \in Held(f) /\ \A j \in Held(f) : i.poll <= j.poll
    BY Zenon, <1>4
  <2>3. Line(Held(f) \ {i}, Append(handled[f], i.poll), submitted[f], future[f], missed[f],
             missedSince[f], reported[f] + i.missed, missedBefore[f])
    BY <1>1, <1>3, <2>2, LineHandled
  <2>4. QED
    BY Zenon, <2>1, <2>3 DEF FeedInv
<1>5. CASE f # i.feed
  <2>1. handled'[f] = handled[f] /\ reported'[f] = reported[f]
    BY <1>2, <1>5 DEF Handle
  <2>2. Held(f)' = Held(f)
    <3>1. i \notin Held(f)
      BY <1>5 DEF Held
    <3>2. QED
      BY <3>1
  <2>3. QED
    BY Zenon, <1>3, <2>1, <2>2 DEF FeedInv
<1>6. QED
  BY <1>4, <1>5

\* The result that the main loop processes is the only one of its feed that has
\* reached the end of the line: acknowledging it frees the feed for the next.
LEMMA ProcessKeeps ==
  ASSUME TypeOK, PhaseInv, PendingInv, \A f \in Feeds : FeedInv(f), ProcessAndAcknowledge
  PROVE  PendingInv' /\ \A f \in Feeds : FeedInv(f)'
<1>1. /\ mpc = "process" /\ mpc' = "loop" /\ ready' = ready /\ results' = results
      /\ drained' = drained /\ Handle(item)
      /\ UNCHANGED <<submitted, future, missed, missedSince, missedBefore>>
  BY Zenon DEF ProcessAndAcknowledge
<1>2. item \in Item /\ item.feed \in Feeds
  BY <1>1 DEF TypeOK, Item
<1>3. drained = <<>> /\ Range(drained) = {}
  BY <1>1 DEF PhaseInv, Range
<1>4. /\ \A f \in Feeds : resultPending[f] <=> \E i \in Pending : i.feed = f
      /\ \A i \in Pending : pendingPoll[i.feed] = i.poll
      /\ \A i, j \in Pending : i.feed = j.feed => i = j
      /\ item \notin ready \cup Range(results)
  <2>1. mpc \notin {"handle", "exited"}
    BY <1>1
  <2>2. QED
    BY Zenon, <1>1, <2>1 DEF PendingInv
<1>5. item \in Pending /\ Pending' = Pending \ {item}
  <2>1. Pending = ready \cup Range(results) \cup {item}
    BY <1>1 DEF Pending
  <2>2. Pending' = ready \cup Range(results)
    BY <1>1 DEF Pending
  <2>3. QED
    BY <1>4, <2>1, <2>2
<1>6. /\ \A f \in Feeds : resultPending'[f] <=> resultPending[f] /\ f # item.feed
      /\ \A f \in Feeds : f # item.feed => pendingPoll'[f] = pendingPoll[f]
  <2>1. resultPending[item.feed] /\ pendingPoll[item.feed] = item.poll
    BY Zenon, <1>2, <1>4, <1>5
  <2>2. /\ resultPending \in [Feeds -> BOOLEAN] /\ pendingPoll \in [Feeds -> Nat]
    BY Zenon DEF TypeOK
  <2>3. /\ resultPending' = [resultPending EXCEPT ![item.feed] =
             @ /\ ~(resultPending[item.feed] /\ pendingPoll[item.feed] = item.poll)]
        /\ \E v : pendingPoll' = [pendingPoll EXCEPT ![item.feed] = v]
    BY Zenon DEF ProcessAndAcknowledge
  <2>4. \A f \in Feeds : f # item.feed => resultPending'[f] = resultPending[f]
    BY Zenon, <2>2, <2>3
  <2>5. ~resultPending'[item.feed]
    BY Zenon, <1>2, <2>1, <2>2, <2>3
  <2>6. \A f \in Feeds : f # item.feed => pendingPoll'[f] = pendingPoll[f]
    BY <2>2, <2>3
  <2>7. QED
    BY Zenon, <2>4, <2>5, <2>6
<1>7. \A i \in Pending' : i \in Pending /\ i.feed # item.feed /\ i.feed \in Feeds
  BY <1>4, <1>5, HeldTyped DEF Item
<1>8. PendingInv'
  <2>1. \A f \in Feeds : resultPending'[f] <=> \E i \in Pending' : i.feed = f
    <3> SUFFICES ASSUME NEW f \in Feeds
                 PROVE  resultPending'[f] <=> \E i \in Pending' : i.feed = f
      OBVIOUS
    <3>1. ASSUME resultPending'[f] PROVE \E i \in Pending' : i.feed = f
      <4>1. PICK i \in Pending : i.feed = f /\ f # item.feed
        BY <1>4, <1>6, <3>1
      <4>2. QED
        BY <1>5, <4>1
    <3>2. ASSUME NEW i \in Pending', i.feed = f PROVE resultPending'[f]
      BY <1>4, <1>6, <1>7, <3>2
    <3>3. QED
      BY <3>1, <3>2
  <2>2. \A i \in Pending' : pendingPoll'[i.feed] = i.poll
    BY <1>4, <1>6, <1>7
  <2>3. \A i, j \in Pending' : i.feed = j.feed => i = j
    BY <1>4, <1>7
  <2>4. mpc' # "process" /\ DOMAIN drained' = {}
    BY <1>1, <1>3
  <2>5. QED
    BY Zenon, <1>1, <2>1, <2>2, <2>3, <2>4 DEF PendingInv
<1>9. ASSUME NEW f \in Feeds PROVE FeedInv(f)'
  <2>1. Held(f)' = Held(f) \ {item}
    BY <1>1, <1>3, <1>5 DEF Held
  <2>2. item \in Held(item.feed) /\ \A j \in Held(item.feed) : item.poll <= j.poll
    <3>1. item \in Held(item.feed)
      BY <1>5 DEF Held
    <3>2. \A j \in Held(item.feed) : j = item
      BY <1>3, <1>4, <1>5 DEF Held
    <3>3. item.poll <= item.poll
      BY <1>2 DEF Item, Poll
    <3>4. QED
      BY Zenon, <3>1, <3>2, <3>3
  <2>3. QED
    BY <1>1, <1>2, <2>1, <2>2, HandleFeed
<1>10. QED
  BY <1>8, <1>9

\* At exit the drained results of a feed are processed oldest first.
LEMMA DrainedKeeps ==
  ASSUME TypeOK, PhaseInv, PendingInv, \A f \in Feeds : FeedInv(f), ProcessDrained
  PROVE  PendingInv' /\ \A f \in Feeds : FeedInv(f)'
<1> DEFINE i == Head(drained)
           n == Len(drained)
<1>1. /\ mpc = "handle" /\ mpc' = "handle" /\ drained # <<>> /\ drained' = Tail(drained)
      /\ ready' = ready /\ results' = results /\ Handle(i)
      /\ UNCHANGED <<submitted, future, missed, missedSince, missedBefore>>
  BY Zenon DEF ProcessDrained, state
<1>2. drained \in Seq(Item)
  BY DEF TypeOK
<1>3. ready = {} /\ results = <<>> /\ Pending = {} /\ Pending' = {}
  <2>1. ready = {} /\ results = <<>>
    BY <1>1 DEF PhaseInv
  <2>2. Range(<<>>) = {}
    BY DEF Range
  <2>3. QED
    BY <1>1, <2>1, <2>2 DEF Pending
<1>4. /\ n \in Nat /\ DOMAIN drained = 1..n
      /\ \A x : x \in Range(drained) <=> \E k \in 1..n : drained[k] = x
  BY <1>2, Places
<1>5. /\ i \in Item /\ i = drained[1] /\ 1 \in 1..n
      /\ drained' \in Seq(Item) /\ Len(drained') = n - 1
      /\ \A k \in 1..n - 1 : drained'[k] = drained[k + 1] /\ k + 1 \in 1..n
      /\ Range(drained) = {i} \cup Range(drained')
  BY Zenon, <1>1, <1>2, PlacesTaken
<1>6. /\ DOMAIN drained' = 1..n - 1
      /\ \A x : x \in Range(drained') <=> \E k \in 1..n - 1 : drained'[k] = x
  <2>1. /\ DOMAIN drained' = 1..Len(drained')
        /\ \A x : x \in Range(drained') <=> \E k \in 1..Len(drained') : drained'[k] = x
    BY <1>5, Places
  <2>2. QED
    BY Zenon, <1>5, <2>1
<1>7. i.feed \in Feeds /\ i.poll \in Nat /\ \A k \in 1..n : drained[k].poll \in Nat
  <2>1. \A k \in 1..n : drained[k] \in Item
    BY <1>2, Places
  <2>2. QED
    BY <1>5, <2>1 DEF Item, Poll
<1> HIDE DEF i, n
<1>8. \A k, l \in 1..n :
        k < l /\ drained[k].feed = drained[l].feed => drained[k].poll < drained[l].poll
  BY Zenon, <1>4 DEF PendingInv
<1>9. \A k \in 1..n : drained[k].feed = i.feed /\ k # 1 => i.poll < drained[k].poll
  <2> SUFFICES ASSUME NEW k \in 1..n, drained[k].feed = i.feed, k # 1
               PROVE  i.poll < drained[k].poll
    OBVIOUS
  <2>1. 1 < k
    BY <1>4
  <2>2. drained[1].feed = drained[k].feed
    BY Zenon, <1>5
  <2>3. drained[1].poll < drained[k].poll
    BY Zenon, <1>5, <1>8, <2>1, <2>2
  <2>4. QED
    BY Zenon, <1>5, <2>3
<1>10. i \notin Range(drained')
  <2> SUFFICES ASSUME i \in Range(drained') PROVE FALSE
    OBVIOUS
  <2>1. PICK k \in 1..n - 1 : drained'[k] = i
    BY Zenon, <1>6
  <2>2. drained[k + 1] = i /\ k + 1 \in 1..n
    BY Zenon, <1>5, <2>1
  <2>3. k + 1 # 1
    BY <1>4
  <2>4. i.poll < i.poll
    BY Zenon, <1>9, <2>2, <2>3
  <2>5. QED
    BY <1>7, <2>4
<1>11. PendingInv'
  <2>1. \A k, l \in DOMAIN drained' :
          k < l /\ drained'[k].feed = drained'[l].feed => drained'[k].poll < drained'[l].poll
    <3> SUFFICES ASSUME NEW k \in DOMAIN drained', NEW l \in DOMAIN drained', k < l,
                        drained'[k].feed = drained'[l].feed
                 PROVE  drained'[k].poll < drained'[l].poll
      OBVIOUS
    <3>1. /\ drained'[k] = drained[k + 1] /\ k + 1 \in 1..n
          /\ drained'[l] = drained[l + 1] /\ l + 1 \in 1..n
      BY Zenon, <1>5, <1>6
    <3>2. k + 1 < l + 1
      BY <1>4, <1>6
    <3>3. QED
      BY Zenon, <1>8, <3>1, <3>2
  <2>2. DOMAIN results' = {}
    BY <1>1, <1>3
  <2>3. mpc' = "handle" /\ mpc' # "process"
    BY <1>1
  <2>4. QED
    BY Zenon, <1>3, <2>1, <2>2, <2>3 DEF PendingInv
<1>12. ASSUME NEW f \in Feeds PROVE FeedInv(f)'
  <2>1. Held(f)' = Held(f) \ {i}
    <3>1. Pending' \cup Range(drained') = (Pending \cup Range(drained)) \ {i}
      BY <1>3, <1>5, <1>10
    <3>2. QED
      BY <3>1 DEF Held
  <2>2. i \in Held(i.feed) /\ \A j \in Held(i.feed) : i.poll <= j.poll
    <3>1. i \in Held(i.feed)
      BY <1>5 DEF Held
    <3>2. ASSUME NEW j \in Held(i.feed) PROVE i.poll <= j.poll
      <4>1. PICK k \in 1..n : drained[k] = j /\ j.feed = i.feed
        BY <1>3, <1>4 DEF Held
      <4>2. CASE k = 1
        BY <1>5, <1>7, <4>1, <4>2
      <4>3. CASE k # 1
        <5>1. i.poll < drained[k].poll /\ drained[k] = j
          BY Zenon, <1>9, <4>1, <4>3
        <5>2. drained[k].poll \in Nat
          BY <1>7
        <5>3. QED
          BY <1>7, <5>1, <5>2
      <4>4. QED
        BY <4>2, <4>3
    <3>3. QED
      BY <3>1, <3>2
  <2>3. QED
    BY <1>1, <1>5, <2>1, <2>2, HandleFeed
<1>13. QED
  BY <1>11, <1>12

\* The stages of the shutdown follow one another, each with its lists empty or full.
LEMMA NextPhase == TypeOK /\ PhaseInv /\ PendingInv /\ [Next]_vars => PhaseInv'
<1> SUFFICES ASSUME TypeOK, PhaseInv, PendingInv, [Next]_vars PROVE PhaseInv'
  OBVIOUS
<1> USE DEF state, thread, main, ghost, StopSet
<1>1. CASE LockedStep
  BY <1>1 DEF LockedStep, PhaseInv
<1>2. CASE LastStep
  <2>1. /\ mpc = "lastStep" /\ mpc' = "lastPut" /\ spc' = spc /\ accepting' = accepting
        /\ results' = results /\ drained' = drained
    BY <1>2 DEF LastStep
  <2>2. ~accepting /\ spc = "exit" /\ running = {} /\ results = <<>> /\ ready = {}
    BY <2>1 DEF PhaseInv
  <2>3. \A f \in Feeds : ~resultPending[f]
    <3>1. Pending = {}
      BY <2>1, <2>2 DEF Pending, Range
    <3>2. \A f \in Feeds : resultPending[f] <=> \E i \in Pending : i.feed = f
      BY <2>1 DEF PendingInv
    <3>3. QED
      BY <3>1, <3>2
  <2>4. \A f \in Feeds : Moves(f) <=> future[f] # None
    BY <2>2, <2>3 DEF Moves
  <2>5. \A f \in Feeds : ~Submits(f, now)
    BY <2>2 DEF Submits, Due
  <2>6. \A f \in Feeds : future'[f] = None
    <3>1. future' = [f \in Feeds |-> IF Submits(f, now) THEN submitted[f] + 1
                                    ELSE IF Moves(f) THEN None ELSE future[f]]
      BY <1>2, Zenon DEF LastStep, Step
    <3>2. QED
      BY <2>4, <2>5, <3>1
  <2>7. running' = {}
    <3>1. running' = running \cup
            {<<f, submitted[f] + 1>> : f \in {g \in Feeds : Submits(g, now)}}
      BY <1>2, Zenon DEF LastStep, Step
    <3>2. QED
      BY <2>2, <2>5, <3>1
  <2>8. QED
    BY <2>1, <2>2, <2>6, <2>7 DEF PhaseInv
<1>3. CASE Wake \/ EndStep \/ ThreadExit \/ Tick \/ UNCHANGED vars
  BY <1>3 DEF Wake, EndStep, ThreadExit, Tick, vars, PhaseInv
<1>4. CASE PutReady \/ LastPut
  <2>1. results' # <<>> => results' = results \/ ready # {}
    BY <1>4 DEF PutReady, LastPut, PutNowait
  <2>2. QED
    BY <1>4, <2>1 DEF PutReady, LastPut, PutNowait, PhaseInv
<1>5. ASSUME NEW f \in Feeds, Complete(f) PROVE PhaseInv'
  BY <1>5 DEF Complete, PhaseInv
<1>6. CASE Get
  BY <1>6 DEF Get, PhaseInv
<1>7. CASE ProcessAndAcknowledge
  BY <1>7 DEF ProcessAndAcknowledge, PhaseInv
<1>8. CASE StopAccepting
  BY <1>8 DEF StopAccepting, PhaseInv
<1>9. CASE SetStop \/ JoinThread \/ AwaitRequests
  BY <1>9 DEF SetStop, JoinThread, AwaitRequests, PhaseInv
<1>10. CASE DrainQueue
  BY <1>10 DEF DrainQueue, PhaseInv
<1>11. CASE DrainAgain
  BY <1>11 DEF DrainAgain, PhaseInv
<1>12. CASE ProcessDrained \/ Exit
  BY <1>12 DEF ProcessDrained, Exit, PhaseInv
<1>13. QED
  BY <1>1, <1>2, <1>3, <1>4, <1>5, <1>6, <1>7, <1>8, <1>9, <1>10, <1>11, <1>12
  DEF Next, SchedulerStep, MainStep

\* No action of any thread loses, repeats or overtakes a result.
LEMMA NextFeeds ==
  ASSUME TypeOK, PhaseInv, PendingInv, \A f \in Feeds : FeedInv(f), [Next]_vars
  PROVE  PendingInv' /\ \A f \in Feeds : FeedInv(f)'
<1> USE DEF state, thread, main, ghost
<1>1. CASE LockedStep
  <2>1. /\ spc = "step" /\ Step(at) /\ mpc' = mpc
        /\ UNCHANGED <<results, item, drained, handled, reported, accepting>>
    BY Zenon, <1>1 DEF LockedStep
  <2>2. ready = {} /\ drained = <<>> /\ mpc \notin {"handle", "exited"}
    BY <2>1 DEF PhaseInv
  <2>3. Passing(at)
    BY Zenon, <2>1, <2>2 DEF Passing
  <2>4. at \in Nat
    BY DEF TypeOK
  <2>5. QED
    BY <2>3, <2>4, StepFeed, StepPending
<1>2. CASE LastStep
  <2>1. /\ mpc = "lastStep" /\ Step(now) /\ mpc' = "lastPut"
        /\ UNCHANGED <<results, item, drained, handled, reported, accepting>>
    BY Zenon, <1>2 DEF LastStep
  <2>2. ready = {} /\ ~accepting
    BY <2>1 DEF PhaseInv
  <2>3. /\ mpc \notin {"handle", "exited"}
        /\ mpc' = "process" <=> mpc = "process"
    BY <2>1
  <2>4. Passing(now)
    BY Zenon, <2>1, <2>2, <2>3 DEF Passing
  <2>5. now \in Nat
    BY SchedulerAssumption DEF TypeOK
  <2>6. QED
    BY <2>4, <2>5, StepFeed, StepPending
<1>3. CASE PutReady \/ LastPut
  <2>1. PutNowait /\ UNCHANGED <<mpc, item, drained, resultPending, pendingPoll>>
    BY Zenon, <1>3 DEF PutReady, LastPut
  <2>2. UNCHANGED Feed
    BY Zenon, <1>3 DEF PutReady, LastPut, Feed
  <2>3. QED
    BY Zenon, <2>1, <2>2, PutKeeps, FeedStays
<1>4. CASE Get
  <2>1. UNCHANGED Feed
    BY Zenon, <1>4 DEF Get, Feed
  <2>2. QED
    BY Zenon, <1>4, <2>1, GetKeeps, FeedStays
<1>5. CASE ProcessAndAcknowledge
  BY <1>5, ProcessKeeps
<1>6. CASE ProcessDrained
  BY <1>6, DrainedKeeps
<1>7. CASE DrainQueue
  <2>1. /\ mpc = "drain" /\ mpc' = "lastStep" /\ drained' = drained \o results
        /\ results' = <<>> /\ ready' = ready
        /\ resultPending' = [f \in Feeds |-> FALSE]
    BY Zenon, <1>7 DEF DrainQueue
  <2>2. ready = {} /\ ready' = {} /\ mpc # "process" /\ mpc' # "process"
    BY <2>1 DEF PhaseInv
  <2>3. \A f \in Feeds : ~resultPending'[f]
    BY Zenon, <2>1
  <2>4. UNCHANGED Feed
    BY Zenon, <1>7 DEF DrainQueue, Feed
  <2>5. PendingInv' /\ \A f : Held(f)' = Held(f)
    BY Zenon, <2>1, <2>2, <2>3, DrainKeeps
  <2>6. QED
    BY Zenon, <2>4, <2>5, FeedStays
<1>8. CASE DrainAgain
  <2>1. /\ mpc = "lastPut" /\ mpc' = "handle" /\ drained' = drained \o results
        /\ results' = <<>> /\ ready' = ready /\ ready = {}
    BY Zenon, <1>8 DEF DrainAgain
  <2>2. ready' = {} /\ mpc # "process" /\ mpc' # "process" /\ mpc' \in {"handle", "exited"}
    BY <2>1
  <2>3. UNCHANGED Feed
    BY Zenon, <1>8 DEF DrainAgain, Feed
  <2>4. PendingInv' /\ \A f : Held(f)' = Held(f)
    BY Zenon, <2>1, <2>2, DrainKeeps
  <2>5. QED
    BY Zenon, <2>3, <2>4, FeedStays
<1>9. CASE /\ UNCHANGED Feed
           /\ UNCHANGED <<ready, results, item, drained, resultPending, pendingPoll>>
           /\ mpc' = "process" <=> mpc = "process"
           /\ mpc \in {"handle", "exited"} => mpc' \in {"handle", "exited"}
  BY Zenon, <1>9, QuietKeeps, FeedStays
<1>10. CASE Wake \/ EndStep \/ ThreadExit \/ Tick \/ (\E f \in Feeds : Complete(f))
            \/ UNCHANGED vars
  BY <1>9, <1>10 DEF Wake, EndStep, ThreadExit, Tick, Complete, vars, Feed
<1>11. CASE StopAccepting \/ SetStop \/ JoinThread \/ AwaitRequests \/ Exit
  BY <1>9, <1>11 DEF StopAccepting, SetStop, JoinThread, AwaitRequests, Exit, Feed
<1>12. QED
  BY <1>1, <1>2, <1>3, <1>4, <1>5, <1>6, <1>7, <1>8, <1>10, <1>11
  DEF Next, SchedulerStep, MainStep

\* The scheduler starts with nothing submitted and nothing held.
LEMMA InitHolds == Init => PhaseInv /\ PendingInv /\ HeldInv /\ ReportedOnceInOrder
<1> SUFFICES ASSUME Init PROVE PhaseInv /\ PendingInv /\ HeldInv /\ ReportedOnceInOrder
  OBVIOUS
<1>1. TypeOK
  BY InitTyped
<1>2. /\ accepting = TRUE /\ running = {} /\ spc = "wait" /\ ready = {} /\ results = <<>>
      /\ mpc = "loop" /\ drained = <<>> /\ resultPending = [f \in Feeds |-> FALSE]
  BY Zenon DEF Init
<1>3. PhaseInv
  BY <1>2 DEF PhaseInv
<1>4. Range(<<>>) = {}
  BY DEF Range
<1>5. Pending = {} /\ \A f : Held(f) = {}
  BY <1>2, <1>4 DEF Pending, Held
<1>6. PendingInv
  <2>1. \A f \in Feeds : ~resultPending[f]
    BY Zenon, <1>2
  <2>2. DOMAIN results = {} /\ DOMAIN drained = {} /\ mpc # "process"
    BY <1>2
  <2>3. QED
    BY Zenon, <1>5, <2>1, <2>2 DEF PendingInv
<1>7. ASSUME NEW f \in Feeds PROVE FeedInv(f)
  <2>1. /\ handled[f] = <<>> /\ submitted[f] = 0 /\ future[f] = None /\ missed[f] = 0
        /\ missedSince[f] = 0 /\ reported[f] = 0 /\ missedBefore[f] = 0
    BY DEF Init
  <2>2. Line({}, <<>>, 0, None, 0, 0, 0, 0)
    <3>1. Carried({}) = 0 /\ Cardinality({}) = 0
      BY CarriedByNone, FS_EmptySet
    <3>2. Count(None) = 0 /\ Len(<<>>) = 0 /\ DOMAIN <<>> = {}
      BY DEF Count
    <3>3. /\ 0 - 0 \in 0..2 /\ 0 = 0 + 0 + 0 /\ 0 = 0 + 0 + 0 + 0
          /\ \A p \in 0 + 1 .. 0 - 0 : FALSE
      OBVIOUS
    <3>4. QED
      BY Zenon, <3>1, <3>2, <3>3 DEF Line
  <2>3. QED
    BY Zenon, <1>5, <2>1, <2>2 DEF FeedInv
<1>8. QED
  BY <1>1, <1>3, <1>6, <1>7, FeedByFeed

\* Between a future and the processor the results of a feed stay in line, through
\* every interleaving of the scheduler thread, the executor, the main loop and the
\* shutdown.
THEOREM SchedulerInvariant == Safety => []IInv
<1>1. Init => IInv
  BY InitTyped, InitHolds DEF IInv
<1>2. IInv /\ [Next]_vars => IInv'
  <2> SUFFICES ASSUME IInv, [Next]_vars PROVE IInv'
    OBVIOUS
  <2>1. TypeOK /\ PhaseInv /\ PendingInv /\ \A f \in Feeds : FeedInv(f)
    BY FeedByFeed DEF IInv
  <2>2. TypeOK' /\ PhaseInv'
    BY <2>1, NextTyped, NextPhase
  <2>3. PendingInv' /\ \A f \in Feeds : FeedInv(f)'
    BY <2>1, NextFeeds
  <2>4. HeldInv' /\ ReportedOnceInOrder'
    <3>1. (TypeOK => (HeldInv /\ ReportedOnceInOrder <=> \A f \in Feeds : FeedInv(f)))'
      BY FeedByFeed, PTL
    <3>2. QED
      BY <2>2, <2>3, <3>1
  <2>5. QED
    BY <2>2, <2>3, <2>4 DEF IInv
<1>3. QED
  BY <1>1, <1>2, PTL DEF Safety

\* No poll is lost, processed twice or out of order on its way to the processor, and
\* every missed deadline is reported with exactly one of them.
THEOREM EveryPollReported == Safety => []ReportedOnceInOrder
<1>1. IInv => ReportedOnceInOrder
  BY DEF IInv
<1>2. QED
  BY <1>1, SchedulerInvariant, PTL

\* When the process exits, every request ever submitted has been processed.
THEOREM NothingLeftAtExit == Safety => []DrainedAtExit
<1>1. IInv => DrainedAtExit
  <2> SUFFICES ASSUME IInv, mpc = "exited", NEW f \in Feeds
               PROVE  Len(handled[f]) = submitted[f]
    BY DEF DrainedAtExit
  <2>1. ready = {} /\ results = <<>> /\ drained = <<>> /\ future[f] = None
    BY DEF IInv, PhaseInv
  <2>2. Held(f) = {} /\ Active(f) = 0
    BY <2>1 DEF Held, Pending, Range, Active
  <2>3. submitted[f] = Len(handled[f]) + Cardinality(Held(f)) + Active(f)
    BY DEF IInv, ReportedOnceInOrder
  <2>4. handled[f] \in Seq(Poll) /\ submitted[f] \in Nat
    BY FeedTyped DEF IInv
  <2>5. Cardinality(Held(f)) = 0 /\ Len(handled[f]) \in Nat
    BY <2>2, <2>4, FS_EmptySet, LenProperties
  <2>6. QED
    BY <2>2, <2>3, <2>4, <2>5
<1>2. QED
  BY <1>1, SchedulerInvariant, PTL

--------------------------------------------------------------------------------
(* The bounded queue never overflows *)

\* A list of different results is as long as the set of them.
LEMMA QueueLength ==
  ASSUME NEW s \in Seq(Item), \A k, l \in DOMAIN s : s[k] = s[l] => k = l
  PROVE  IsFiniteSet(Range(s)) /\ Cardinality(Range(s)) = Len(s)
<1>1. /\ Len(s) \in Nat /\ DOMAIN s = 1..Len(s)
      /\ \A i : i \in Range(s) <=> \E k \in 1..Len(s) : s[k] = i
  BY Places
<1>2. IsFiniteSet(1..Len(s)) /\ Cardinality(1..Len(s)) = Len(s)
  <2>1. IsFiniteSet(1..Len(s))
    BY <1>1, FS_Interval
  <2>2. Cardinality(1..Len(s)) = IF 1 > Len(s) THEN 0 ELSE Len(s) - 1 + 1
    BY SMTT(60), <1>1, FS_Interval
  <2>3. QED
    BY <1>1, <2>1, <2>2
<1> DEFINE g == [k \in 1..Len(s) |-> s[k]]
<1>3. \A k \in 1..Len(s) : g[k] = s[k]
  OBVIOUS
<1>4. g \in Bijection(1..Len(s), Range(s))
  <2>1. g \in [1..Len(s) -> Range(s)]
    BY <1>1
  <2> HIDE DEF g
  <2>2. \A k, l \in 1..Len(s) : g[k] = g[l] => k = l
    BY Zenon, <1>1, <1>3
  <2>3. \A i \in Range(s) : \E k \in 1..Len(s) : g[k] = i
    BY Zenon, <1>1, <1>3
  <2>4. QED
    BY <2>1, <2>2, <2>3 DEF Bijection, Injection, Surjection, IsInjective
<1> HIDE DEF g
<1>5. ExistsBijection(1..Len(s), Range(s))
  BY <1>4 DEF ExistsBijection
<1>6. QED
  BY <1>2, <1>5, FS_Bijection

\* "Exactly one result per feed can be pending, so this cannot overflow": the queue
\* and the ready list together hold at most one result per feed, and a feed has at
\* most two requests that are not processed.
THEOREM QueueNeverOverflows == Safety => []BacklogBounded
<1>1. IInv => BacklogBounded
  <2> SUFFICES ASSUME IInv PROVE BacklogBounded
    OBVIOUS
  <2>1. ASSUME NEW f \in Feeds PROVE submitted[f] - Len(handled[f]) <= 2
    <3>1. submitted[f] - Len(handled[f]) \in Active(f) .. 2 /\ Active(f) \in 0..1
      BY DEF IInv, HeldInv, Active
    <3>2. handled[f] \in Seq(Poll) /\ submitted[f] \in Nat /\ Len(handled[f]) \in Nat
      BY FeedTyped, LenProperties DEF IInv
    <3>3. QED
      BY <3>1, <3>2
  <2>2. Len(results) + Cardinality(ready) <= Cardinality(Feeds)
    <3> DEFINE Q == Range(results)
               U == Q \cup ready
    <3>1. /\ \A k \in DOMAIN results : results[k] \notin ready
          /\ \A k, l \in DOMAIN results : results[k] = results[l] => k = l
          /\ \A i, j \in Pending : i.feed = j.feed => i = j
      BY DEF IInv, PendingInv
    <3>2. results \in Seq(Item) /\ ready \subseteq Item
      BY DEF IInv, TypeOK
    <3>3. IsFiniteSet(Q) /\ Cardinality(Q) = Len(results) /\ Len(results) \in Nat
      BY <3>1, <3>2, QueueLength, LenProperties
    <3>4. Q \cap ready = {}
      <4>1. \A i \in Q : \E k \in DOMAIN results : results[k] = i
        BY Zenon, <3>2, Places
      <4> HIDE DEF Q
      <4>2. QED
        BY <3>1, <4>1
    <3>5. U \subseteq Pending /\ U \subseteq Item
      BY HeldTyped DEF IInv, Pending
    <3> HIDE DEF Q
    <3>6. [i \in U |-> i.feed] \in Injection(U, Feeds)
      <4>1. \A i \in U : i.feed \in Feeds
        BY <3>5 DEF Item
      <4>2. \A i, j \in U : i.feed = j.feed => i = j
        BY <3>1, <3>5
      <4> HIDE DEF U
      <4>3. [i \in U |-> i.feed] \in [U -> Feeds]
        BY <4>1
      <4>4. IsInjective([i \in U |-> i.feed])
        BY <4>2 DEF IsInjective
      <4>5. QED
        BY <4>3, <4>4 DEF Injection
    <3>7. IsFiniteSet(U) /\ Cardinality(U) <= Cardinality(Feeds)
      BY <3>6, SchedulerAssumption, FS_Injection DEF ExistsInjection
    <3>8. IsFiniteSet(ready)
      BY <3>7, FS_Subset
    <3>9. Cardinality(U) = Cardinality(Q) + Cardinality(ready) - Cardinality(Q \cap ready)
      BY <3>3, <3>8, FS_Union
    <3>10. /\ Cardinality({}) = 0 /\ Cardinality(ready) \in Nat /\ Cardinality(Q) \in Nat
           /\ Cardinality(U) \in Nat /\ Cardinality(Feeds) \in Nat
      BY <3>3, <3>7, <3>8, SchedulerAssumption, FS_EmptySet, FS_CardinalityType
    <3> HIDE DEF U
    <3>11. Cardinality(U) = Cardinality(Q) + Cardinality(ready) - 0
      BY Zenon, <3>4, <3>9, <3>10
    <3>12. QED
      BY <3>3, <3>7, <3>10, <3>11
  <2>3. QED
    BY <2>1, <2>2 DEF BacklogBounded
<1>2. QED
  BY <1>1, SchedulerInvariant, PTL

================================================================================

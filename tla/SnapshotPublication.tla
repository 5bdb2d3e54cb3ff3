------------------------- MODULE SnapshotPublication -------------------------
(***************************************************************************)
(* From the exporter to the page, over a network that delays and loses:    *)
(*                                                                         *)
(*   public_exporter/__main__.py   builds a snapshot and publishes it      *)
(*   frontend/worker/index.ts      stores it under one key, conditionally  *)
(*   frontend/src/useSnapshot.ts   the page that polls for it              *)
(*                                                                         *)
(* A snapshot is the exporter that built it and its time; its etag is the  *)
(* snapshot itself. A request is handled by the worker in two steps, head  *)
(* and put, and other requests may be handled in between. An exporter that *)
(* gives up waiting does not stop its request. While one is redeployed,    *)
(* two exporters may publish.                                              *)
(***************************************************************************)
EXTENDS Integers, FiniteSets

CONSTANTS
  Exporters,
  Window,       \* how far from the worker's clock a snapshot may be
  MaxAge,       \* how old the exporter's status may be, in its healthcheck
  MaxTime,      \* bound: instants
  MaxPolls      \* bound: fetches the page starts

ASSUME PublicationAssumption == {Window, MaxAge, MaxTime, MaxPolls} \subseteq Nat

VARIABLES
  now,
  waiting,   \* per exporter, the time of the snapshot it waits for, or None
  built,     \* per exporter, the time of its last snapshot
  health,    \* per exporter, its status.json and the snapshot it is about
  uploads,   \* requests on their way or in the worker
  stored,    \* the object in the bucket, with gen None if there is none
  visible,   \* the page is not hidden
  timer,     \* the next poll is scheduled
  active,    \* the poll whose controller is current, or None
  fetches,   \* fetches without a result so far, the aborted ones included
  polls,     \* fetches started
  shown      \* the time of the snapshot on the page

exporterVars == <<waiting, built, health>>
pageVars == <<visible, timer, active, fetches, polls, shown>>
vars == <<now, exporterVars, uploads, stored, pageVars>>

None == -1
Nothing == [by |-> None, gen |-> None]

Init ==
  /\ now = 0
  /\ waiting = [e \in Exporters |-> None] /\ built = waiting
  /\ health = [e \in Exporters |-> [at |-> None, healthy |-> FALSE, gen |-> None]]
  /\ uploads = {}
  /\ stored = Nothing
  /\ visible \in BOOLEAN /\ timer = visible
  /\ active = None /\ fetches = {} /\ polls = 0 /\ shown = None

Tick == /\ now < MaxTime
        /\ now' = now + 1
        /\ UNCHANGED <<exporterVars, uploads, stored, pageVars>>

----------------------------------------------------------------------------
\* The exporter

Build(e) ==
  /\ waiting[e] = None /\ built[e] < now
  /\ built' = [built EXCEPT ![e] = now]
  /\ waiting' = [waiting EXCEPT ![e] = now]
  /\ uploads' = uploads \union
       {[by |-> e, gen |-> now, checked |-> FALSE, previous |-> Nothing]}
  /\ UNCHANGED <<now, health, stored, pageVars>>

\* status.json after each attempt
Conclude(e, ok) ==
  /\ waiting' = [waiting EXCEPT ![e] = None]
  /\ health' = [health EXCEPT ![e] = [at |-> now, healthy |-> ok, gen |-> IF ok THEN waiting[e] ELSE None]]
  /\ UNCHANGED built

\* The snapshot cannot be built or stored, or there is no answer in time.
GiveUp(e) ==
  /\ waiting[e] # None
  /\ Conclude(e, FALSE)
  /\ UNCHANGED <<now, uploads, stored, pageVars>>

\* The exporter learns the answer to its request, if it still waits for it.
Answer(u, ok) ==
  \/ waiting[u.by] = u.gen /\ Conclude(u.by, ok)
  \/ UNCHANGED exporterVars

----------------------------------------------------------------------------
\* The worker

Lose(u) ==
  /\ uploads' = uploads \ {u}
  /\ UNCHANGED <<now, exporterVars, stored, pageVars>>

Distance(a, b) == IF a < b THEN b - a ELSE a - b
Refused(u) == Distance(now, u.gen) > Window \/ stored.gen > u.gen

\* 400 or 409
Refuse(u) ==
  /\ ~u.checked /\ Refused(u)
  /\ uploads' = uploads \ {u}
  /\ Answer(u, FALSE)
  /\ UNCHANGED <<now, stored, pageVars>>

Head(u) ==
  /\ ~u.checked /\ ~Refused(u)
  /\ uploads' = (uploads \ {u}) \union {[u EXCEPT !.checked = TRUE, !.previous = stored]}
  /\ UNCHANGED <<now, exporterVars, stored, pageVars>>

\* Mutant: the bucket takes it whatever it holds by now.
Put_Unconditional(u) ==
  /\ u.checked
  /\ uploads' = uploads \ {u}
  /\ stored' = [by |-> u.by, gen |-> u.gen]
  /\ Answer(u, TRUE)
  /\ UNCHANGED <<now, pageVars>>

\* Mutant: a conflict is not reported.
Put_ConflictIgnored(u) ==
  /\ u.checked
  /\ uploads' = uploads \ {u}
  /\ stored' = IF u.previous = stored THEN [by |-> u.by, gen |-> u.gen] ELSE stored
  /\ Answer(u, TRUE)
  /\ UNCHANGED <<now, pageVars>>

\* 204, or 412 if the object is not the one that was looked at
Put(u) ==
  /\ u.checked
  /\ uploads' = uploads \ {u}
  /\ stored' = IF u.previous = stored THEN [by |-> u.by, gen |-> u.gen] ELSE stored
  /\ Answer(u, u.previous = stored)
  /\ UNCHANGED <<now, pageVars>>

----------------------------------------------------------------------------
\* The page

\* poll(): a new controller and its fetch
StartPoll ==
  /\ polls < MaxPolls
  /\ polls' = polls + 1
  /\ active' = polls + 1
  /\ timer' = FALSE
  /\ fetches' = fetches \union {[id |-> polls + 1, served |-> FALSE, gen |-> None]}

TimerFires ==
  /\ timer
  /\ StartPoll
  /\ UNCHANGED <<now, exporterVars, uploads, stored, visible, shown>>

\* The worker answers it with what the bucket holds.
Serve(f) ==
  /\ ~f.served
  /\ fetches' = (fetches \ {f}) \union {[f EXCEPT !.served = TRUE, !.gen = stored.gen]}
  /\ UNCHANGED <<now, exporterVars, uploads, stored, visible, timer, active,
                 polls, shown>>

\* Mutant: the next poll is scheduled by a poll that is not current any more.
Settle_Stale(f) ==
  /\ fetches' = fetches \ {f}
  /\ timer' = visible
  /\ active' = IF active = f.id THEN None ELSE active
  /\ UNCHANGED <<now, exporterVars, uploads, stored, visible, polls>>

\* The finally clause: only the current poll schedules the next one.
Settle(f) ==
  /\ fetches' = fetches \ {f}
  /\ IF active = f.id
       THEN timer' = visible /\ active' = None
       ELSE UNCHANGED <<timer, active>>
  /\ UNCHANGED <<now, exporterVars, uploads, stored, visible, polls>>

Deliver(f) ==
  /\ f.served
  /\ shown' = IF active = f.id /\ f.gen # None THEN f.gen ELSE shown
  /\ Settle(f)

\* A network error, the timeout of the poll, or the rejection after abort()
FetchFails(f) ==
  /\ Settle(f)
  /\ UNCHANGED shown

Hide ==
  /\ visible
  /\ visible' = FALSE /\ timer' = FALSE /\ active' = None
  /\ UNCHANGED <<now, exporterVars, uploads, stored, fetches, polls, shown>>

Show ==
  /\ ~visible
  /\ visible' = TRUE
  /\ StartPoll
  /\ UNCHANGED <<now, exporterVars, uploads, stored, shown>>

----------------------------------------------------------------------------
Next ==
  \/ Tick
  \/ \E e \in Exporters : Build(e) \/ GiveUp(e)
  \/ \E u \in uploads : Lose(u) \/ Refuse(u) \/ Head(u) \/ Put(u)
  \/ TimerFires \/ Hide \/ Show
  \/ \E f \in fetches : Serve(f) \/ Deliver(f) \/ FetchFails(f)

Spec == Init /\ [][Next]_vars

----------------------------------------------------------------------------
\* "Conditional R2 writes prevent a competing publication from overwriting a
\* newer" one: neither the bucket nor the page ever goes back in time, with
\* late requests, two exporters and aborted polls.
NeverOlder == [][stored'.gen >= stored.gen /\ shown' >= shown]_vars

\* While the exporter's healthcheck passes, the bucket holds the snapshot of its
\* last attempt or a newer one.
Healthcheck(e) == health[e].healthy /\ now - health[e].at <= MaxAge
HealthyIsPublished ==
  \A e \in Exporters : Healthcheck(e) => stored.gen >= health[e].gen

\* A visible page has exactly one poll, running or scheduled, and a hidden one
\* none: hiding and showing neither stops polling nor starts it twice.
PollingOnce ==
  IF visible
    THEN timer = (active = None) /\ (active # None => \E f \in fetches : f.id = active)
    ELSE ~timer /\ active = None

----------------------------------------------------------------------------
\* Types.

Times == 0..MaxTime
Snapshots == [by : Exporters \cup {None}, gen : Times \cup {None}]

TypeOK ==
  /\ now \in Times
  /\ waiting \in [Exporters -> Times \cup {None}]
  /\ built \in [Exporters -> Times \cup {None}]
  /\ health \in [Exporters -> [at : Times \cup {None}, healthy : BOOLEAN,
                               gen : Times \cup {None}]]
  /\ uploads \subseteq [by : Exporters, gen : Times, checked : BOOLEAN,
                        previous : Snapshots]
  /\ stored \in Snapshots
  /\ visible \in BOOLEAN /\ timer \in BOOLEAN
  /\ polls \in 0..MaxPolls
  /\ active \in (1..MaxPolls) \cup {None}
  /\ fetches \subseteq [id : 1..MaxPolls, served : BOOLEAN, gen : Times \cup {None}]
  /\ shown \in Times \cup {None}
=============================================================================

---------------------------- MODULE HealthMonitor ----------------------------
(***************************************************************************)
(* The collector's health: HealthMonitor (b/monitoring.py), which records  *)
(* every result and writes status.json, the main loop that drives it, and  *)
(* the container's healthcheck (b/cli/healthcheck.py), which reads it.     *)
(*                                                                         *)
(* A response carries two signals that may freeze, the content hash and    *)
(* the header timestamp. The checks that look at one response only (parse, *)
(* raw, spool, presence, tracking, stale timestamps) are one Boolean, as   *)
(* are the disk, the scheduler and the commit worker in write_status.      *)
(***************************************************************************)
EXTENDS Integers, FiniteSets, FiniteSetsExt

CONSTANTS
  Feeds,       \* FEED_NAMES
  Alerts,      \* the feed whose signals may stay unchanged
  Signals,     \* the signals of a response that may freeze
  Values,      \* the values a signal takes
  Absent,      \* absent_seconds
  Interval,    \* interval_seconds of each feed
  Frozen,      \* frozen_seconds
  MaxAge,      \* HEALTH_STATUS_MAX_AGE_SECONDS
  Times,       \* bound: the instants the clocks show
  MaxFailures, \* bound: writes that raise and results cut off
  MaxRestarts  \* bound: deaths of the process

ASSUME HealthAssumption == /\ {Absent, Frozen, MaxAge} \subseteq Nat
                           /\ Interval \in [Feeds -> Nat \ {0}]
                           /\ Times \subseteq Nat /\ 0 \in Times
                           /\ {MaxFailures, MaxRestarts} \subseteq Nat

VARIABLES
  now,
  memory,      \* self.feeds
  saved,       \* freshness_state.json
  status,      \* status.json
  phase,       \* where the main loop is: record or journal a result, or status
  feed,        \* the feed whose result it works on, or None
  cycleError,  \* cycle_errors is not empty
  truth,       \* history: what became of each feed's results, in any process
  unaware,     \* history: feeds the monitor has missed something of, and does not
               \* yet know the truth of again
  hidden,      \* history: the other feeds that had a problem when status was written
  failures, restarts

loop == <<phase, feed, cycleError>>
history == <<truth, unaware, hidden>>
monitorVars == <<now, memory, saved, status, loop, history, failures, restarts>>

None == -1

\* journal: the event of the last result is in the poll journal.
Unseen == [okAt |-> None, value |-> [s \in Signals |-> None],
           since |-> [s \in Signals |-> None], good |-> TRUE,
           failing |-> FALSE, journal |-> TRUE]

MonitorInit ==
  /\ now = 0
  /\ memory = [f \in Feeds |-> Unseen] /\ saved = memory /\ truth = memory
  /\ status = [at |-> None, healthy |-> FALSE]
  /\ phase = "idle" /\ feed = None /\ cycleError = FALSE
  /\ unaware = {} /\ hidden = {}
  /\ failures = 0 /\ restarts = 0

----------------------------------------------------------------------------
\* record_success: a signal that differs from the last one starts over.
Success(state, value, good) ==
  [state EXCEPT !.okAt = now, !.value = value, !.good = good,
     !.failing = FALSE,
     !.since = [s \in Signals |-> IF state.value[s] = value[s]
                                    THEN state.since[s] ELSE now]]

\* record_failure leaves everything else as the last response left it.
Failure(state) == [state EXCEPT !.failing = TRUE]

\* The freshness flags that are no warnings, as of the last response.
Flagged(f, state) ==
  \/ ~state.good
  \/ f # Alerts /\ \E s \in Signals : state.okAt - state.since[s] > Frozen

StillUnaware(feeds) == {f \in feeds : memory'[f] # truth'[f]}

\* The record is saved, or _save_state raises: then the result is not processed
\* any further, and its event is never journalled.
Recorded(f, state, real) ==
  /\ memory' = [memory EXCEPT ![f] = state]
  /\ feed' = f
  /\ \/ /\ saved' = memory'
        /\ truth' = [truth EXCEPT ![f] = real]
        /\ unaware' = StillUnaware(unaware)
        /\ phase' = "journal"
        /\ UNCHANGED <<cycleError, failures>>
     \/ /\ failures < MaxFailures
        /\ failures' = failures + 1
        /\ truth' = [truth EXCEPT ![f] = [real EXCEPT !.journal = FALSE]]
        /\ unaware' = StillUnaware(unaware \union {f})
        /\ cycleError' = TRUE
        /\ phase' = "status"
        /\ UNCHANGED saved

Respond ==
  /\ phase = "idle"
  /\ \E f \in Feeds, value \in [Signals -> Values], good \in BOOLEAN :
       Recorded(f, Success(memory[f], value, good), Success(truth[f], value, good))
  /\ UNCHANGED <<now, status, hidden, restarts>>

NoResponse ==
  /\ phase = "idle"
  /\ \E f \in Feeds : Recorded(f, Failure(memory[f]), Failure(truth[f]))
  /\ UNCHANGED <<now, status, hidden, restarts>>

\* The request's thread failed unexpectedly, or the processing raised before the
\* monitor was told: nothing is recorded and no event journalled.
Abort ==
  /\ phase = "idle"
  /\ failures < MaxFailures
  /\ failures' = failures + 1
  /\ UNCHANGED memory
  /\ \E f \in Feeds : /\ truth' = [truth EXCEPT ![f].journal = FALSE]
                      /\ unaware' = StillUnaware(unaware \union {f})
                      /\ feed' = f
  /\ cycleError' = TRUE
  /\ phase' = "status"
  /\ UNCHANGED <<now, saved, status, hidden, restarts>>

\* poll_journal_ok changes in memory only; the next result's save writes it.
Journal ==
  /\ phase = "journal"
  /\ \E ok \in BOOLEAN :
       /\ ok \/ failures < MaxFailures
       /\ failures' = IF ok THEN failures ELSE failures + 1
       /\ cycleError' = (cycleError \/ ~ok)
       /\ memory' = [memory EXCEPT ![feed].journal = ok]
       /\ truth' = [truth EXCEPT ![feed].journal = ok]
  /\ unaware' = StillUnaware(unaware)
  /\ phase' = "status"
  /\ UNCHANGED <<now, saved, status, feed, hidden, restarts>>

----------------------------------------------------------------------------
\* write_status, after each result and when the loop has been idle.

\* A feed may be silent for three of its intervals at least.
Limit(f) == Max({Absent, 3 * Interval[f]})

Missing(f, state) == state.okAt = None \/ now - state.okAt > Limit(f)

Problem(f, state) ==
  Missing(f, state) \/ state.failing \/ ~state.journal \/ Flagged(f, state)

WriteStatus ==
  /\ phase \in {"status", "idle"}
  /\ \E otherReason \in BOOLEAN :
       status' = [at |-> now,
                  healthy |-> /\ ~otherReason /\ ~cycleError
                              /\ \A f \in Feeds : ~Problem(f, memory[f])]
  /\ hidden' = {f \in Feeds \ unaware : Problem(f, truth[f])}
  /\ cycleError' = FALSE /\ phase' = "idle" /\ feed' = None
  /\ UNCHANGED <<now, memory, saved, truth, unaware, failures, restarts>>

\* The write raises; the errors of this cycle are dropped all the same.
StatusFails ==
  /\ phase = "status"
  /\ failures < MaxFailures
  /\ failures' = failures + 1
  /\ cycleError' = FALSE /\ phase' = "idle" /\ feed' = None
  /\ UNCHANGED <<now, memory, saved, status, history, restarts>>

\* What the process dies with: records that were not saved, and an event that
\* was not journalled yet.
Lost == {f \in Feeds : memory[f] # saved[f] \/ (phase = "journal" /\ f = feed)}

Died ==
  /\ restarts < MaxRestarts
  /\ restarts' = restarts + 1
  /\ truth' = [f \in Feeds |-> IF phase = "journal" /\ f = feed
                                THEN [truth[f] EXCEPT !.journal = FALSE]
                                ELSE truth[f]]
  /\ unaware' = StillUnaware(unaware \union Lost)
  /\ cycleError' = FALSE /\ phase' = "idle" /\ feed' = None
  /\ UNCHANGED <<now, saved, status, hidden, failures>>

\* Mutant: does not load what was saved.
Restart_Afresh == memory' = [f \in Feeds |-> Unseen] /\ Died

\* A shutdown that drains a last result writes no status for it either.
Restart == memory' = saved /\ Died

\* Instants may pass unobserved.
Tick ==
  /\ \E t \in Times : t > now /\ now' = t
  /\ UNCHANGED <<memory, saved, status, loop, history, failures, restarts>>

MonitorNext ==
  \/ Respond \/ NoResponse \/ Abort \/ Journal \/ WriteStatus \/ StatusFails
  \/ Restart \/ Tick

MonitorSpec == MonitorInit /\ [][MonitorNext]_monitorVars

----------------------------------------------------------------------------
\* healthcheck.main exits with 0.
Healthcheck ==
  status.at # None /\ now - status.at <= MaxAge /\ status.healthy

\* "HTTP 200 alone is not healthy": while the container counts as healthy,
\* every feed has answered within its limit, and when the status was written no
\* feed had failed last, was frozen, had bad evidence or its last event missing
\* from the journal, whatever happened in earlier processes. Excepted are the
\* feeds of which the monitor has missed something: a result cut off before its
\* event was journalled (its save raised, or an unexpected error), which only
\* the status of its own cycle shows, if that; and what a restart lost because
\* no save had followed, a failed append among it. A feed stays excepted until
\* what the monitor knows is the truth again: from its next journalled result,
\* unless the restart lost a new value, and then from a later new value.
HealthyIsTrue ==
  Healthcheck => /\ \A f \in Feeds : now - truth[f].okAt <= Limit(f) + MaxAge
                 /\ hidden = {}

----------------------------------------------------------------------------
\* Types.

FeedStates == [okAt : Times \cup {None}, value : [Signals -> Values \cup {None}],
               since : [Signals -> Times \cup {None}], good : BOOLEAN,
               failing : BOOLEAN, journal : BOOLEAN]

MonitorTypeOK ==
  /\ now \in Times
  /\ memory \in [Feeds -> FeedStates]
  /\ saved \in [Feeds -> FeedStates]
  /\ truth \in [Feeds -> FeedStates]
  /\ status \in [at : Times \cup {None}, healthy : BOOLEAN]
  /\ phase \in {"idle", "journal", "status"}
  /\ phase = "journal" => feed \in Feeds
  /\ cycleError \in BOOLEAN
  /\ unaware \subseteq Feeds /\ hidden \subseteq Feeds
  /\ failures \in 0..MaxFailures
  /\ restarts \in 0..MaxRestarts
=============================================================================

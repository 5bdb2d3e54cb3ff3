----------------------------- MODULE ChangeTracker -----------------------------
(***************************************************************************)
(* The change-and-heartbeat filter (b/realtime/dedup.py) as process_result *)
(* drives it: select the changed rows, stage them, and only then remember  *)
(* them.                                                                   *)
(*                                                                         *)
(* A field compared for exact inequality is one of tolerance 0. The clock  *)
(* is the wall clock and may be set back, even over midnight.              *)
(***************************************************************************)
EXTENDS Integers, Sequences, SequencesExt, FiniteSets

CONSTANTS
  Keys,          \* values of a row's identity fields
  Fields,        \* the tracked fields
  Values,        \* what a row says: a set of functions from Fields to Int or Null
  Null,
  Tolerance,     \* per field
  Required,      \* required_signal_fields
  Heartbeat,     \* heartbeat_seconds
  Sweep,         \* min(60, heartbeat_seconds)
  NullRows,      \* null_guard_min_rows
  DayLength,
  Times,         \* bound: instants of the wall clock
  MaxRows,       \* bound: rows of a poll
  MaxResponses,  \* bound
  MaxRestarts    \* bound

ASSUME TrackerAssumption ==
  /\ Tolerance \in [Fields -> Nat] /\ Required \subseteq Fields
  /\ Values \subseteq [Fields -> Int \union {Null}] /\ Times \subseteq Nat
  /\ Heartbeat \in Nat /\ Sweep \in 1..Heartbeat
  /\ NullRows \in Nat \ {0} /\ DayLength \in Nat \ {0}

VARIABLES
  day,          \* _day
  last,         \* _last: what was staged last, and when, of some keys
  lastExpiry,   \* _last_expiry
  nulls,        \* _consecutive_all_null_rows
  staged,       \* history: per day and key, the row staged last, and when
  seen,         \* history: the poll filtered last
  polls, restarts

tracker == <<day, last, lastExpiry, nulls>>
trackerVars == <<tracker, staged, seen, polls, restarts>>

None == -1
Empty == [k \in {} |-> None]
Row == [key : Keys, value : Values]
DayOf(t) == t \div DayLength
Days == {DayOf(t) : t \in Times}

TrackerInit ==
  /\ day = None /\ last = Empty /\ lastExpiry = None /\ nulls = 0
  /\ staged = [d \in Days |-> Empty]
  /\ seen = [ok |-> FALSE, at |-> None, rows |-> Empty]
  /\ polls = 0 /\ restarts = 0

----------------------------------------------------------------------------
\* The memory a poll at t starts from: of the same day, and swept now and then.
MaybeReset(t) ==
  IF day = DayOf(t) THEN [last |-> last, expiry |-> lastExpiry]
                    ELSE [last |-> Empty, expiry |-> None]

SweepDue(memory, t) == memory.expiry = None \/ t - memory.expiry >= Sweep

Unexpired(memory, t) ==
  [k \in {k \in DOMAIN memory.last : t - memory.last[k].at < Heartbeat}
     |-> memory.last[k]]

Expire(memory, t) ==
  IF SweepDue(memory, t) THEN [last |-> Unexpired(memory, t), expiry |-> t]
                         ELSE memory

Distance(a, b) == IF a < b THEN b - a ELSE a - b
Changed(old, new) ==
  \E f \in Fields :
    IF Null \in {old[f], new[f]} THEN old[f] # new[f]
                                 ELSE Distance(old[f], new[f]) > Tolerance[f]

Writes(memory, row, t) ==
  \/ row.key \notin DOMAIN memory
  \/ Changed(memory[row.key].value, row.value)
  \/ t - memory[row.key].at >= Heartbeat

\* commit(), and what the rows staged together leave per key
With(memory, rows, t) ==
  LET at(k) == {i \in DOMAIN rows : rows[i].key = k}
      written == {k \in Keys : at(k) # {}} IN
  [k \in DOMAIN memory \union written |->
     IF k \in written
       THEN [value |-> rows[Max(at(k))].value, at |-> t]
       ELSE memory[k]]

\* A row is compared with the rows before it in its own poll, too.
Filter(memory, rows, t) ==
  FoldLeft(LAMBDA out, row :
             IF Writes(With(memory, out, t), row, t) THEN Append(out, row) ELSE out,
           <<>>, rows)

AllNull(rows) ==
  \A i \in DOMAIN rows : \A f \in Required : rows[i].value[f] = Null

CountNulls(rows) ==
  IF rows = <<>> THEN nulls ELSE IF AllNull(rows) THEN nulls + Len(rows) ELSE 0

\* Mutant: what was observed is remembered, not only what was staged.
Committed_Observed(memory, rows, out, t) == With(memory, rows, t)

Committed(memory, rows, out, t) == With(memory, out, t)

----------------------------------------------------------------------------
\* The parsed rows of a response received at t. The guard raises, the spool
\* refuses the segment, or the rows are durable and remembered.
Poll(t, rows) ==
  LET memory == Expire(MaybeReset(t), t)
      out == Filter(memory.last, rows, t)
      refused == rows # <<>> /\ AllNull(rows) /\ CountNulls(rows) >= NullRows
  IN
  /\ polls < MaxResponses
  /\ polls' = polls + 1
  /\ day' = DayOf(t) /\ lastExpiry' = memory.expiry
  /\ nulls' = CountNulls(rows)
  /\ \/ /\ ~refused
        /\ last' = Committed(memory.last, rows, out, t)
        /\ staged' = [staged EXCEPT ![DayOf(t)] = With(@, out, t)]
        /\ seen' = [ok |-> TRUE, at |-> t, rows |-> With(Empty, rows, t)]
     \/ /\ refused \/ out # <<>>
        /\ last' = memory.last
        /\ seen' = [ok |-> FALSE, at |-> t, rows |-> Empty]
        /\ UNCHANGED staged
  /\ UNCHANGED restarts

Restart ==
  /\ restarts < MaxRestarts
  /\ restarts' = restarts + 1
  /\ day' = None /\ last' = Empty /\ lastExpiry' = None /\ nulls' = 0
  /\ seen' = [ok |-> FALSE, at |-> None, rows |-> Empty]
  /\ UNCHANGED <<staged, polls>>

TrackerNext ==
  \/ \E t \in Times, rows \in BoundedSeq(Row, MaxRows) : Poll(t, rows)
  \/ Restart

TrackerSpec == TrackerInit /\ [][TrackerNext]_trackerVars

----------------------------------------------------------------------------
\* "Delay, predicted-time, and stop-distance noise uses the configured
\* tolerance against the last durably staged value": after a poll whose rows
\* were accepted, what Parquet holds last for each of its keys that day is
\* within tolerance of what the poll said and younger than the heartbeat. Many
\* small steps do not add up unseen, rows of one poll under one key included.
NoDrift ==
  seen.ok => \A k \in DOMAIN seen.rows :
               LET held == staged[DayOf(seen.at)] IN
               /\ k \in DOMAIN held
               /\ ~Changed(held[k].value, seen.rows[k].value)
               /\ seen.at - held[k].at < Heartbeat

----------------------------------------------------------------------------
\* What is known of some keys: the row staged last, and when.
Memories == UNION {[known -> [value : Values, at : Times]] : known \in SUBSET Keys}

TrackerTypeOK ==
  /\ day \in Days \union {None} /\ lastExpiry \in Times \union {None} /\ nulls \in Nat
  /\ last \in Memories /\ staged \in [Days -> Memories] /\ seen.rows \in Memories
  /\ seen.ok => seen.at \in Times
=============================================================================

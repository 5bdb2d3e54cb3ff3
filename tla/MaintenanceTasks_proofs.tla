------------------------ MODULE MaintenanceTasks_proofs ------------------------
(***************************************************************************)
(* Proofs about two tasks of the maintenance loop: StaticGtfs, for every   *)
(* number of versions, dated archives, passes, failed calls and deaths of  *)
(* the process; and BackupBacklog beside the migration tool, for any       *)
(* number of dates, runs of the tool, failures and checks.                 *)
(***************************************************************************)
EXTENDS StaticGtfs, BackupBacklog, FiniteSetTheorems, SequenceTheorems, WellFoundedInduction,
        TLAPS

--------------------------------------------------------------------------------
(* The inductive invariant of StaticGtfs *)

\* A path that is a digest holds that version, and none is ever replaced.
FilesInv ==
  /\ LegacyDates \subseteq DOMAIN files
  /\ \A p \in DOMAIN files : p \in LegacyDates \/ files[p] = p
  /\ pc \in {"append", "state"} => /\ download.path \in DOMAIN files
                                   /\ files[download.path] = download.sha256

\* An instant has one event at most, and that of this pass is yet to come until its
\* append; a dated archive is indexed under its date.
HistoryInv ==
  /\ \A i, j \in Readable : history[i].at = history[j].at => i = j
  /\ \A e \in Entries : /\ e.at <= now
                        /\ pc \in {"index", "due", "install", "append"} => e.at # now
                        /\ e.at <= 0 => e.path = e.at
                        /\ pc = "index" => e.at \notin adding

\* The check that is about to return has no event on record.
Unrecorded ==
  pc = "state" /\ ~\E e \in Entries : e.at = now /\ e.sha256 = download.sha256

\* Each check whose event is missing, or will be missing when it returns, has a tear
\* of its own, as has a line that is still unended: the next event goes onto that line.
\* What that line says is no observation, as its check did not return.
TearInv ==
  /\ \A o \in observed : o[1] <= now /\ (pc # "idle" => o[1] # now)
  /\ unended # "no" => \A o \in observed : o[1] # history[Len(history)].at
  /\ pc = "state" => unended = "no"
  /\ Cardinality(Missing) + (IF unended = "no" THEN 0 ELSE 1)
       + (IF Unrecorded THEN 1 ELSE 0) <= tears

IInv == TypeOK /\ FilesInv /\ VersionsKept /\ HistoryInv /\ TearInv

--------------------------------------------------------------------------------
(* The inductive invariant of BackupBacklog *)

\* A date is uploaded and verified once its evidence is whole, so that no commit
\* changes it under way.
WorklistInv ==
  workerPc \in {"upload", "verify"} => evidence[Least(worklist)] = "whole"

\* A confirmed date is never taken up again: its receipt stays the truth.
PinnedInv ==
  \A d \in Confirmed : /\ CopyOf(receipts[d], d) /\ evidence[d] = "whole"
                       /\ d \notin worklist

\* The tool copies and confirms what it inventoried.
DraftInv ==
  toolPc \in {"copy", "send", "confirm"} => left \subseteq {e.date : e \in draft}

\* What looks like an inventoried copy, now or when the date was inventoried, has
\* been held since.
RemoteInv ==
  \A e \in draft : Looks(remote[e.date], e.version, e.size) => e.date \in held

BacklogInv ==
  /\ BacklogTypeOK /\ WorklistInv /\ PinnedInv
  /\ DraftInv /\ RemoteInv /\ LegacyClaimsHeld

--------------------------------------------------------------------------------
Lines == Events \cup {Junk}

\* The readable lines of a history.
Proper(h) == {i \in 1..Len(h) : h[i].sha256 # None}
EntriesOf(h) == {h[i] : i \in Proper(h)}

Alone(h) == \A i, j \in Proper(h) : h[i].at = h[j].at => i = j

----------------------------------------------------------------------------
(* The latest and the earliest of some lines *)

LEMMA LeastNumber ==
  ASSUME NEW T \in SUBSET Nat, T # {}
  PROVE  \E x \in T : \A y \in T : x <= y
<1>1. ASSUME NEW R, \E x \in T : \A y \in T : <<y, x>> \notin R,
             \A x, y \in Nat : y < x => <<y, x>> \in R
      PROVE  \E x \in T : \A y \in T : x <= y
  <2>1. PICK x \in T : \A y \in T : <<y, x>> \notin R
    BY Zenon, <1>1
  <2>2. \A y \in T : ~(y < x)
    BY Zenon, <1>1, <2>1
  <2>3. QED
    BY <2>2
<1>2. \E x \in T : \A y \in T : <<y, x>> \notin OpToRel(<, Nat)
  BY Zenon, NatLessThanWellFounded, WFMin
<1>3. \A x, y \in Nat : y < x => <<y, x>> \in OpToRel(<, Nat)
  BY DEF OpToRel
<1>4. QED
  BY Zenon, <1>1, <1>2, <1>3

\* A set of places in the history has a last one.
LEMMA LastPlace ==
  ASSUME NEW n \in Nat, NEW S \in SUBSET (1..n), S # {}
  PROVE  \E i \in S : \A j \in S : i >= j
<1> DEFINE T == {n - i : i \in S}
<1>1. \A i \in S : i \in 1..n /\ n - i \in Nat
  OBVIOUS
<1>2. T \subseteq Nat /\ T # {}
  BY <1>1
<1>3. PICK x \in T : \A y \in T : x <= y
  BY <1>2, LeastNumber
<1>4. PICK i \in S : x = n - i
  OBVIOUS
<1>5. \A j \in S : n - i <= n - j
  BY <1>3, <1>4
<1>6. QED
  BY <1>1, <1>5

\* Some lines whose instants lie in a range have a latest one, ...
LEMMA LatestExists ==
  ASSUME NEW S, S # {}, \A e \in S : e.at \in -Horizon..MaxTime
  PROVE  LatestOf(S) # {}
<1>0. Horizon \in Nat /\ MaxTime \in Nat
  BY StaticAssumption
<1> DEFINE T == {MaxTime - e.at : e \in S}
<1>1. T \subseteq Nat /\ T # {}
  BY <1>0
<1>2. PICK x \in T : \A y \in T : x <= y
  BY <1>1, LeastNumber
<1>3. PICK e \in S : x = MaxTime - e.at
  OBVIOUS
<1>4. \A d \in S : MaxTime - e.at <= MaxTime - d.at
  BY <1>2, <1>3
<1>5. \A d \in S : d.at <= e.at
  BY <1>0, <1>4
<1>6. QED
  BY <1>5 DEF LatestOf

\* ... and an earliest one.
LEMMA EarliestExists ==
  ASSUME NEW S, S # {}, \A e \in S : e.at \in -Horizon..MaxTime
  PROVE  \E e \in S : \A d \in S : e.at <= d.at
<1>0. Horizon \in Nat /\ MaxTime \in Nat
  BY StaticAssumption
<1> DEFINE T == {e.at + Horizon : e \in S}
<1>1. T \subseteq Nat /\ T # {}
  BY <1>0
<1>2. PICK x \in T : \A y \in T : x <= y
  BY <1>1, LeastNumber
<1>3. PICK e \in S : x = e.at + Horizon
  OBVIOUS
<1>4. \A d \in S : e.at + Horizon <= d.at + Horizon
  BY <1>2, <1>3
<1>5. QED
  BY <1>0, <1>4

----------------------------------------------------------------------------
(* Lines *)

\* Junk is what StaticGtfsStore.history skips.
LEMMA LineTyped ==
  ASSUME NEW l \in Lines
  PROVE  /\ l.sha256 # None <=> l \in Events
         /\ l \notin Events => l = Junk
         /\ l.at \in Int /\ l.at <= MaxTime /\ l.at > -Horizon - 1
<1>1. Horizon \in Nat /\ MaxTime \in Nat /\ None \notin Versions
  BY StaticAssumption DEF None
<1>2. Junk.sha256 = None /\ Junk.at = 0
  BY DEF Junk
<1>3. \A e \in Events : e.sha256 \in Versions /\ e.at \in 1 - Horizon .. MaxTime
  BY DEF Events
<1>4. QED
  BY <1>1, <1>2, <1>3 DEF Lines

\* An append to a whole history adds a line; one to an unended line spoils that line.
LEMMA AppendedLines ==
  ASSUME TypeOK, NEW l \in Lines
  PROVE  /\ Appended(l) \in Seq(Lines) /\ Len(Appended(l)) > 0
         /\ unended = "no" =>
              /\ Len(Appended(l)) = Len(history) + 1
              /\ \A i \in 1..Len(history) : Appended(l)[i] = history[i]
              /\ Appended(l)[Len(history) + 1] = l
         /\ unended # "no" =>
              /\ Len(Appended(l)) = Len(history)
              /\ \A i \in 1..Len(history) : i # Len(history) => Appended(l)[i] = history[i]
              /\ Appended(l)[Len(history)] = Junk
<1>1. history \in Seq(Lines) /\ Len(history) \in Nat /\ DOMAIN history = 1..Len(history)
  BY LenProperties DEF TypeOK, Lines
<1>2. CASE unended = "no"
  <2>1. /\ Append(history, l) \in Seq(Lines) /\ Len(Append(history, l)) = Len(history) + 1
        /\ \A i \in 1..Len(history) : Append(history, l)[i] = history[i]
        /\ Append(history, l)[Len(history) + 1] = l
    BY <1>1, AppendProperties
  <2>2. Appended(l) = Append(history, l)
    BY <1>2 DEF Appended
  <2>3. QED
    BY <1>1, <1>2, <2>1, <2>2
<1>3. CASE unended # "no"
  <2>1. Len(history) > 0
    BY <1>1, <1>3, EmptySeq DEF TypeOK
  <2>2. Junk \in Lines /\ Len(history) \in 1..Len(history)
    BY <1>1, <2>1 DEF Lines
  <2>3. Appended(l) = [history EXCEPT ![Len(history)] = Junk]
    BY <1>3 DEF Appended
  <2> DEFINE h == [history EXCEPT ![Len(history)] = Junk]
  <2>4. h \in Seq(Lines) /\ Len(h) = Len(history)
    BY <1>1, <2>2, ExceptSeq
  <2>5. /\ \A i \in 1..Len(history) : i # Len(history) => h[i] = history[i]
        /\ h[Len(history)] = Junk
    BY <1>1, <2>2
  <2>6. QED
    BY <1>3, <2>1, <2>3, <2>4, <2>5
<1>4. QED
  BY <1>2, <1>3

\* What an append leaves readable: the new event unless it is spoiled, and every other
\* one but that of the unended line. No instant gets a second event.
LEMMA AppendedEntries ==
  ASSUME TypeOK, HistoryInv, NEW l \in Lines,
         \A e \in Entries : e.at # l.at \/ l = Junk
  PROVE  LET h == Appended(l)
         IN  /\ h \in Seq(Lines) /\ h # <<>>
             /\ Alone(h)
             /\ \A e \in EntriesOf(h) : e \in Entries \/ (e = l /\ l \in Events)
             /\ unended = "no" /\ l \in Events => l \in EntriesOf(h)
             /\ \A e \in Entries :
                  e \in EntriesOf(h) \/ (unended # "no" /\ e.at = history[Len(history)].at)
             /\ h[Len(h)].at \in {l.at, 0}
<1> DEFINE h == Appended(l)
           n == Len(history)
<1>1. /\ h \in Seq(Lines) /\ Len(h) > 0
      /\ unended = "no" => /\ Len(h) = n + 1 /\ h[n + 1] = l
                           /\ \A i \in 1..n : h[i] = history[i]
      /\ unended # "no" => /\ Len(h) = n /\ h[n] = Junk
                           /\ \A i \in 1..n : i # n => h[i] = history[i]
  BY Zenon, AppendedLines
<1>2. n \in Nat /\ \A i \in 1..n : history[i] \in Lines
  BY LenProperties, ElementOfSeq DEF TypeOK, Lines
<1>3. /\ Readable = {i \in 1..n : history[i].sha256 # None}
      /\ Entries = {history[i] : i \in Readable}
      /\ Alone(history)
  BY Zenon DEF Readable, Entries, HistoryInv, Alone, Proper
<1>4. \A i, j \in Readable : history[i].at = history[j].at => i = j
  BY Zenon DEF HistoryInv
<1>5. /\ l.sha256 # None <=> l \in Events
      /\ Junk.sha256 = None /\ Junk.at = 0
  BY LineTyped DEF Junk
<1> HIDE DEF h, n
<1>6. h # <<>>
  BY <1>1, EmptySeq
<1>7. CASE unended = "no"
  <2>1. \A i \in Proper(h) : (i \in Readable /\ h[i] = history[i])
                             \/ (i = n + 1 /\ h[i] = l /\ l \in Events)
    BY <1>1, <1>2, <1>3, <1>5, <1>7 DEF Proper
  <2>2. \A i \in Readable : i \in Proper(h) /\ h[i] = history[i]
    BY <1>1, <1>2, <1>3, <1>7 DEF Proper
  <2>3. l \in Events => n + 1 \in Proper(h) /\ h[n + 1] = l
    BY <1>1, <1>2, <1>5, <1>7 DEF Proper
  <2>4. l \in Events => l # Junk
    BY <1>5
  <2>5. Alone(h)
    <3> SUFFICES ASSUME NEW i \in Proper(h), NEW j \in Proper(h), h[i].at = h[j].at
                 PROVE  i = j
      BY DEF Alone
    <3>1. CASE i \in Readable /\ h[i] = history[i] /\ j \in Readable /\ h[j] = history[j]
      BY Zenon, <1>4, <3>1
    <3>2. CASE i = n + 1 /\ j = n + 1
      BY <3>2
    <3>3. CASE i \in Readable /\ h[i] = history[i] /\ h[j] = l /\ l \in Events
      BY Zenon, <1>3, <2>4, <3>3
    <3>4. CASE j \in Readable /\ h[j] = history[j] /\ h[i] = l /\ l \in Events
      BY Zenon, <1>3, <2>4, <3>4
    <3>5. QED
      BY <2>1, <3>1, <3>2, <3>3, <3>4
  <2>6. \A e \in EntriesOf(h) : e \in Entries \/ (e = l /\ l \in Events)
    BY Zenon, <1>3, <2>1 DEF EntriesOf
  <2>7. l \in Events => l \in EntriesOf(h)
    BY Zenon, <2>3 DEF EntriesOf
  <2>8. \A e \in Entries : e \in EntriesOf(h)
    BY Zenon, <1>3, <2>2 DEF EntriesOf
  <2>9. h[Len(h)] = l
    BY <1>1, <1>7
  <2>10. QED
    BY Zenon, <1>1, <1>6, <1>7, <2>5, <2>6, <2>7, <2>8, <2>9 DEF h, n
<1>8. CASE unended # "no"
  <2>1. \A i \in Proper(h) : i \in Readable /\ h[i] = history[i]
    BY <1>1, <1>2, <1>3, <1>5, <1>8 DEF Proper
  <2>2. \A i \in Readable : i = n \/ (i \in Proper(h) /\ h[i] = history[i])
    BY <1>1, <1>2, <1>3, <1>8 DEF Proper
  <2>3. Alone(h)
    BY Zenon, <1>4, <2>1 DEF Alone
  <2>4. \A e \in EntriesOf(h) : e \in Entries
    BY Zenon, <1>3, <2>1 DEF EntriesOf
  <2>5. \A e \in Entries : e \in EntriesOf(h) \/ e.at = history[n].at
    BY Zenon, <1>3, <2>2 DEF EntriesOf
  <2>6. h[Len(h)].at = 0
    BY <1>1, <1>5, <1>8
  <2>7. QED
    BY Zenon, <1>1, <1>6, <1>8, <2>3, <2>4, <2>5, <2>6 DEF h, n
<1>9. QED
  BY <1>7, <1>8

----------------------------------------------------------------------------
(* Parts of the invariant, one at a time *)

\* What the constants say.
LEMMA Numbers ==
  /\ Horizon \in Nat /\ MaxTime \in Nat /\ Interval \in Nat
  /\ \A d \in LegacyDates : d \in Int /\ d <= 0 /\ d >= 1 - Horizon
  /\ None \notin Versions
  /\ \A v \in Versions : v \notin LegacyDates
BY StaticAssumption DEF None

\* The readable lines are events, in the archive's paths and in the range of instants.
LEMMA EntryTyped ==
  ASSUME TypeOK
  PROVE  /\ Entries = EntriesOf(history) /\ Readable = Proper(history)
         /\ \A e \in Entries : /\ e \in Events /\ e.at \in Int /\ e.at <= MaxTime
                               /\ e.at >= 1 - Horizon
                               /\ e.sha256 \in Versions /\ e.path \in Paths
<1>1. Entries = EntriesOf(history) /\ Readable = Proper(history)
  BY Zenon DEF Entries, Readable, EntriesOf, Proper
<1>2. \A i \in 1..Len(history) : history[i] \in Lines
  BY ElementOfSeq DEF TypeOK, Lines
<1>3. \A e \in Entries : e \in Lines /\ e.sha256 # None
  BY <1>2 DEF Entries, Readable
<1>4. \A e \in Entries : e \in Events
  BY <1>3, LineTyped
<1>5. \A e \in Events : /\ e.at \in 1 - Horizon .. MaxTime
                        /\ e.sha256 \in Versions /\ e.path \in Paths
  BY DEF Events
<1>6. QED
  BY <1>1, <1>4, <1>5, Numbers

\* Where the last event with the content of the download says it is, or its digest.
LEMMA DestinationIs ==
  ASSUME TypeOK
  PROVE  \/ Destination = download.sha256
         \/ \E e \in Entries : e.sha256 = download.sha256 /\ e.path = Destination
<1> DEFINE same == {i \in Readable : history[i].sha256 = download.sha256}
           last == CHOOSE i \in same : \A j \in same : i >= j
<1>1. CASE same = {}
  BY Zenon, <1>1 DEF Destination
<1>2. CASE same # {}
  <2>1. Len(history) \in Nat /\ same \subseteq 1..Len(history)
    BY LenProperties DEF TypeOK, Readable
  <2>2. \E i \in same : \A j \in same : i >= j
    <3> HIDE DEF same
    <3> QED BY <1>2, <2>1, LastPlace
  <2>3. last \in same
    BY Zenon, <2>2
  <2>4. Destination = history[last].path
    BY Zenon, <1>2 DEF Destination
  <2>5. history[last] \in Entries /\ history[last].sha256 = download.sha256
    BY Zenon, <2>3 DEF Entries
  <2>6. QED
    BY Zenon, <2>4, <2>5
<1>3. QED
  BY <1>1, <1>2

\* An event is one for the history if it is new and names an archive that is there.
Fits(l) ==
  /\ l \in Events
  /\ l.path \in DOMAIN files /\ files[l.path] = l.sha256
  /\ l.at <= now
  /\ l.at <= 0 => l.path = l.at
  /\ \A e \in Entries : e.at # l.at

\* The events of a check and of a dated archive are such events.
LEMMA CheckFits ==
  ASSUME IInv, pc = "append"
  PROVE  Fits(CheckEvent) /\ CheckEvent.at = now /\ now > 0
<1>1. /\ now \in 0..MaxTime /\ now # 0 /\ download.sha256 \in Versions
      /\ download.path \in DOMAIN files /\ files[download.path] = download.sha256
      /\ DOMAIN files \subseteq Paths
      /\ \A e \in Entries : e.at # now
  BY DEF IInv, TypeOK, FilesInv, HistoryInv
<1>2. /\ CheckEvent.at = now /\ CheckEvent.sha256 = download.sha256
      /\ CheckEvent.path = download.path
  BY DEF CheckEvent, Event
<1>3. CheckEvent \in Events
  BY <1>1, Numbers DEF CheckEvent, Event, Events
<1>4. QED
  BY <1>1, <1>2, <1>3, Numbers DEF Fits

LEMMA LegacyFits ==
  ASSUME IInv, pc = "index", NEW date \in adding
  PROVE  Fits(LegacyEvent(date)) /\ LegacyEvent(date).at = date /\ date <= 0 /\ date \in Int
<1>1. /\ now \in 0..MaxTime /\ date \in LegacyDates /\ date \in DOMAIN files
      /\ files[date] \in Versions
      /\ \A e \in Entries : e.at # date
  BY DEF IInv, TypeOK, FilesInv, HistoryInv
<1>2. /\ LegacyEvent(date).at = date /\ LegacyEvent(date).sha256 = files[date]
      /\ LegacyEvent(date).path = date
  BY DEF LegacyEvent, Event
<1>3. LegacyEvent(date) \in Events
  BY <1>1, Numbers DEF LegacyEvent, Event, Events, Paths
<1>4. QED
  BY <1>1, <1>2, <1>3, Numbers DEF Fits

\* Appending such an event, or a part of it: whatever is on record is right, and what
\* the append spoils is the record of no check that returned.
LEMMA Appending ==
  ASSUME IInv, NEW e, Fits(e), NEW l \in {e, Junk}, history' = Appended(l),
         UNCHANGED <<files, state, now, observed>>
  PROVE  /\ history' \in Seq(Events \cup {Junk}) /\ history' # <<>>
         /\ VersionsKept'
         /\ \A i, j \in Readable' : history'[i].at = history'[j].at => i = j
         /\ \A x \in Entries' : /\ x.at <= now /\ (x.at <= 0 => x.path = x.at)
                                /\ (x \in Entries \/ x.at = e.at)
         /\ unended = "no" /\ l = e => e \in Entries'
         /\ Missing' \subseteq Missing
         /\ history'[Len(history')].at \in {e.at, 0}
<1>0. TypeOK /\ VersionsKept /\ HistoryInv /\ TearInv
  BY DEF IInv
<1>1. /\ l \in Lines /\ (l = e => l \in Events) /\ (l \in Events => l = e)
      /\ l.at \in {e.at, 0}
  <2>1. e \in Events /\ Junk \in Lines /\ Junk.at = 0 /\ Junk.sha256 = None
    BY DEF Fits, Lines, Junk
  <2>2. Junk \notin Events
    BY <2>1, LineTyped
  <2>3. QED
    BY <2>1, <2>2 DEF Lines
<1>2. \A x \in Entries : x.at # l.at \/ l = Junk
  BY Zenon DEF Fits
<1> DEFINE h == Appended(l)
<1>3. /\ h \in Seq(Lines) /\ h # <<>> /\ Alone(h)
      /\ \A x \in EntriesOf(h) : x \in Entries \/ (x = l /\ l \in Events)
      /\ unended = "no" /\ l \in Events => l \in EntriesOf(h)
      /\ \A x \in Entries :
           x \in EntriesOf(h) \/ (unended # "no" /\ x.at = history[Len(history)].at)
      /\ h[Len(h)].at \in {l.at, 0}
  BY Zenon, <1>0, <1>1, <1>2, AppendedEntries
<1>4. history' = h
  OBVIOUS
<1> HIDE DEF h
<1>5. Readable' = Proper(h) /\ Entries' = EntriesOf(h)
  BY Zenon, <1>4 DEF Entries, Readable, EntriesOf, Proper
<1>6. \A x \in Entries' : x \in Entries \/ x = e
  BY Zenon, <1>1, <1>3, <1>5
<1>7. history' \in Seq(Events \cup {Junk}) /\ history' # <<>>
  BY Zenon, <1>3, <1>4 DEF Lines
<1>8. VersionsKept'
  <2>1. \A x \in Entries' : x.path \in DOMAIN files /\ files[x.path] = x.sha256
    BY Zenon, <1>0, <1>6 DEF VersionsKept, Fits
  <2>2. files' = files /\ state' = state
    OBVIOUS
  <2>3. QED
    BY Zenon, <1>0, <2>1, <2>2 DEF VersionsKept, CatalogAccepts
<1>9. \A i, j \in Readable' : history'[i].at = history'[j].at => i = j
  BY Zenon, <1>3, <1>4, <1>5 DEF Alone
<1>10. \A x \in Entries' : /\ x.at <= now /\ (x.at <= 0 => x.path = x.at)
                            /\ (x \in Entries \/ x.at = e.at)
  BY Zenon, <1>0, <1>6 DEF HistoryInv, Fits
<1>11. unended = "no" /\ l = e => e \in Entries'
  BY Zenon, <1>1, <1>3, <1>5
<1>12. Missing' \subseteq Missing
  <2>1. observed' = observed
    OBVIOUS
  <2>2. unended # "no" => \A o \in observed : o[1] # history[Len(history)].at
    BY <1>0 DEF TearInv
  <2>3. SUFFICES ASSUME NEW o \in observed,
                        ~\E x \in Entries' : x.at = o[1] /\ x.sha256 = o[2],
                        NEW x \in Entries, x.at = o[1], x.sha256 = o[2]
                 PROVE  FALSE
    BY Zenon, <2>1 DEF Missing
  <2>4. x \notin Entries'
    BY Zenon, <2>3
  <2>5. unended # "no" /\ x.at = history[Len(history)].at
    BY Zenon, <1>3, <1>5, <2>4
  <2>6. QED
    BY Zenon, <2>2, <2>3, <2>5
<1>13. history'[Len(history')].at \in {e.at, 0}
  BY Zenon, <1>1, <1>3, <1>4
<1>14. QED
  BY Zenon, <1>7, <1>8, <1>9, <1>10, <1>11, <1>12, <1>13

\* A set of observations has a size, and a part of it has no larger one.
LEMMA MissingCounted ==
  ASSUME TypeOK
  PROVE  /\ IsFiniteSet(Missing) /\ Cardinality(Missing) \in Nat
         /\ \A S \in SUBSET Missing : /\ IsFiniteSet(S) /\ Cardinality(S) \in Nat
                                      /\ Cardinality(S) <= Cardinality(Missing)
<1>1. Missing \subseteq observed /\ IsFiniteSet(observed)
  BY DEF Missing, TypeOK
<1>2. IsFiniteSet(Missing) /\ Cardinality(Missing) \in Nat
  BY <1>1, FS_Subset, FS_CardinalityType
<1>3. QED
  BY <1>2, FS_Subset, FS_CardinalityType

----------------------------------------------------------------------------
(* Steps *)

\* An observation is of a pass, so it never has the instant of a dated archive.
LEMMA ObservedTyped ==
  ASSUME TypeOK
  PROVE  \A o \in observed : o[1] \in Int /\ o[1] > 0
BY Numbers DEF TypeOK

\* A step that touches neither the archives nor the history keeps the invariant if
\* the state names an archive afterwards.
LEMMA QuietStep ==
  ASSUME IInv, TypeOK', UNCHANGED <<files, history, unended, now, observed, tears>>,
         \/ state'.latest = state.latest /\ state'.path = state.path
         \/ state'.path \in DOMAIN files /\ files[state'.path] = state'.latest,
         pc' \in {"idle", "due", "install", "failed"}, pc' # "idle" => pc # "idle",
         pc' \in {"due", "install"} => pc \in {"index", "due", "install"}
  PROVE  IInv'
<1>0. TypeOK /\ FilesInv /\ VersionsKept /\ HistoryInv /\ TearInv
  BY DEF IInv
<1>1. Readable' = Readable /\ Entries' = Entries /\ Missing' = Missing
  BY ZenonT(60) DEF Readable, Entries, Missing
<1>2. FilesInv'
  BY <1>0 DEF FilesInv
<1>3. VersionsKept'
  <2>1. CASE state'.latest = state.latest /\ state'.path = state.path
    BY Zenon, <1>0, <1>1, <2>1 DEF VersionsKept, CatalogAccepts
  <2>2. CASE state'.path \in DOMAIN files /\ files[state'.path] = state'.latest
    BY Zenon, <1>0, <1>1, <2>2 DEF VersionsKept, CatalogAccepts
  <2>3. QED
    BY <2>1, <2>2
<1>4. HistoryInv'
  BY <1>0, <1>1 DEF HistoryInv
<1>5. TearInv'
  <2>1. ~Unrecorded'
    BY DEF Unrecorded
  <2>2. Cardinality(Missing) \in Nat /\ tears \in Nat
    BY <1>0, MissingCounted DEF TypeOK
  <2>3. Cardinality(Missing) + (IF unended = "no" THEN 0 ELSE 1) <= tears
    BY <1>0, <2>2 DEF TearInv
  <2>4. Cardinality(Missing)' = Cardinality(Missing)
    BY Zenon, <1>1
  <2>5. QED
    BY <1>0, <2>1, <2>2, <2>3, <2>4 DEF TearInv
<1>6. QED
  BY <1>2, <1>3, <1>4, <1>5 DEF IInv

\* A step that records an event, or stops while it does: what follows for the parts of
\* the invariant that are not about tears.
LEMMA RecordingStep ==
  ASSUME IInv, NEW e, Fits(e), NEW l \in {e, Junk}, history' = Appended(l),
         UNCHANGED <<served, files, state, now, download, observed>>,
         unended' \in {"no", "torn", "bare"}, tears' \in Nat,
         adding' \subseteq adding, pc # "idle",
         \/ pc' \in {"idle", "failed"}
         \/ pc = "append" /\ pc' = "state"
         \/ pc = "index" /\ pc' = "index" /\ e.at # now /\ e.at \notin adding'
  PROVE  TypeOK' /\ FilesInv' /\ VersionsKept' /\ HistoryInv'
<1>0. TypeOK /\ FilesInv /\ HistoryInv
  BY DEF IInv
<1>1. /\ history' \in Seq(Events \cup {Junk}) /\ history' # <<>>
      /\ VersionsKept'
      /\ \A i, j \in Readable' : history'[i].at = history'[j].at => i = j
      /\ \A x \in Entries' : /\ x.at <= now /\ (x.at <= 0 => x.path = x.at)
                             /\ (x \in Entries \/ x.at = e.at)
  BY Zenon, Appending
<1>2. TypeOK'
  BY <1>0, <1>1 DEF TypeOK
<1>3. FilesInv'
  BY <1>0 DEF FilesInv
<1>4. HistoryInv'
  <2>1. CASE pc' # "index"
    BY <1>1, <2>1 DEF HistoryInv
  <2>2. CASE pc = "index" /\ pc' = "index" /\ e.at # now /\ e.at \notin adding'
    <3>1. \A x \in Entries : x.at # now /\ x.at \notin adding
      BY <1>0, <2>2 DEF HistoryInv
    <3>2. \A x \in Entries' : x.at # now /\ x.at \notin adding'
      BY Zenon, <1>1, <2>2, <3>1
    <3>3. QED
      BY <1>1, <3>2 DEF HistoryInv
  <2>3. QED
    BY <2>1, <2>2
<1>5. QED
  BY <1>1, <1>2, <1>3, <1>4

\* An append that stops before its separator costs one tear, and whatever it loses is
\* paid for by the tear before it.
LEMMA BreakingStep ==
  ASSUME IInv, NEW e, Fits(e), BreakLine(e), \A o \in observed : o[1] # e.at,
         UNCHANGED <<served, files, state, now, adding, download, observed>>,
         pc # "idle", pc' \in {"idle", "failed"}
  PROVE  IInv'
<1>0. TypeOK /\ TearInv
  BY DEF IInv
<1>1. PICK l \in {e, Junk} : history' = Appended(l)
  BY Zenon DEF BreakLine
<1>2. unended' \in {"torn", "bare"} /\ tears' = tears + 1 /\ tears \in Nat
  BY <1>0 DEF BreakLine, TypeOK
<1>3. tears' \in Nat /\ unended' \in {"no", "torn", "bare"}
  BY <1>2
<1>4. TypeOK' /\ FilesInv' /\ VersionsKept' /\ HistoryInv'
  BY <1>1, <1>3, RecordingStep
<1>5. Missing' \subseteq Missing /\ history'[Len(history')].at \in {e.at, 0}
  BY Zenon, <1>1, Appending
<1>6. /\ Cardinality(Missing) \in Nat /\ Cardinality(Missing') \in Nat
      /\ Cardinality(Missing') <= Cardinality(Missing)
  BY <1>0, <1>5, MissingCounted
<1>7. TearInv'
  <2>1. ~Unrecorded' /\ unended' # "no"
    BY <1>2 DEF Unrecorded
  <2>2. Cardinality(Missing) <= tears
    BY <1>0, <1>2, <1>6 DEF TearInv
  <2>3. \A o \in observed' : o[1] # history'[Len(history')].at
    BY <1>0, <1>5, ObservedTyped
  <2>4. \A o \in observed' : o[1] <= now' /\ (pc' # "idle" => o[1] # now')
    BY <1>0 DEF TearInv
  <2>5. Cardinality(Missing') + 1 + 0 <= tears'
    BY <1>2, <1>6, <2>2
  <2>6. QED
    BY <2>1, <2>3, <2>4, <2>5, <1>6 DEF TearInv
<1>8. QED
  BY <1>4, <1>7 DEF IInv

\* The archives of the old collector are there before anything is on record.
LEMMA InitInv == Init => IInv
<1> SUFFICES ASSUME Init PROVE IInv
  OBVIOUS
<1>1. /\ served \in Versions /\ files \in [LegacyDates -> Versions]
      /\ history = <<>> /\ unended = "no" /\ pc = "idle" /\ now = 0 /\ adding = {}
      /\ state = [latest |-> None, path |-> None, success |-> 0, attempt |-> 0]
      /\ download = [sha256 |-> None, path |-> None] /\ observed = {} /\ tears = 0
  BY DEF Init
<1>2. Readable = {} /\ Entries = {} /\ Missing = {}
  BY <1>1 DEF Readable, Entries, Missing
<1>3. Cardinality(Missing) = 0 /\ IsFiniteSet(observed)
  BY <1>1, <1>2, FS_EmptySet
<1>4. TypeOK
  <2>1. history \in Seq(Events \cup {Junk}) /\ now \in 0..MaxTime
    BY <1>1, Numbers
  <2>2. DOMAIN files = LegacyDates /\ DOMAIN files \subseteq Paths
    BY <1>1 DEF Paths
  <2>3. /\ DOMAIN state = {"latest", "path", "success", "attempt"} /\ state.latest = None
        /\ DOMAIN download = {"sha256", "path"}
    BY <1>1
  <2>4. QED
    BY <1>1, <1>3, <2>1, <2>2, <2>3 DEF TypeOK
<1>5. FilesInv
  BY <1>1 DEF FilesInv
<1>6. VersionsKept
  BY <1>1, <1>2 DEF VersionsKept
<1>7. HistoryInv
  BY <1>1, <1>2 DEF HistoryInv
<1>8. TearInv
  BY <1>1, <1>3 DEF TearInv, Unrecorded
<1>9. QED
  BY <1>4, <1>5, <1>6, <1>7, <1>8 DEF IInv

\* Each step of maintain_static_gtfs, each failure and each death keeps the invariant.
LEMMA NextInv == IInv /\ [Next]_vars => IInv'
<1> SUFFICES ASSUME IInv, [Next]_vars PROVE IInv'
  OBVIOUS
<1>0. TypeOK /\ FilesInv /\ VersionsKept /\ HistoryInv /\ TearInv
  BY DEF IInv
<1>1. CASE BeginPass
  <2>1. /\ pc = "idle" /\ pc' = "index" /\ now' = now + 1 /\ now < MaxTime
        /\ adding' = LegacyDates \ {e.path : e \in Entries}
        /\ UNCHANGED <<served, files, history, unended, state, download, observed, tears>>
    BY <1>1 DEF BeginPass
  <2>2. now \in Nat /\ now' \in 0..MaxTime /\ now' # 0
    BY <1>0, <2>1, Numbers DEF TypeOK
  <2>3. Readable' = Readable /\ Entries' = Entries /\ Missing' = Missing
    BY ZenonT(60), <2>1 DEF Readable, Entries, Missing
  <2>4. TypeOK'
    BY <1>0, <2>1, <2>2 DEF TypeOK
  <2>5. FilesInv'
    BY <1>0, <2>1 DEF FilesInv
  <2>6. VersionsKept'
    BY Zenon, <1>0, <2>1, <2>3 DEF VersionsKept, CatalogAccepts
  <2>7. HistoryInv'
    <3>1. \A e \in Entries : e.at \in Int /\ e.at <= now /\ (e.at <= 0 => e.path = e.at)
      BY <1>0, EntryTyped DEF HistoryInv
    <3>2. \A e \in Entries : e.at \notin adding'
      <4> SUFFICES ASSUME NEW e \in Entries, e.at \in adding' PROVE FALSE
        OBVIOUS
      <4>1. e.at \in LegacyDates /\ e.path # e.at
        BY Zenon, <2>1
      <4>2. QED
        BY <3>1, <4>1, Numbers
    <3>3. \A e \in Entries : e.at <= now' /\ e.at # now'
      BY <2>1, <2>2, <3>1
    <3>4. \A i, j \in Readable' : history'[i].at = history'[j].at => i = j
      BY Zenon, <1>0, <2>1, <2>3 DEF HistoryInv
    <3>5. QED
      BY <2>3, <3>1, <3>2, <3>3, <3>4 DEF HistoryInv
  <2>8. TearInv'
    <3>1. ~Unrecorded' /\ ~Unrecorded
      BY <2>1 DEF Unrecorded
    <3>2. \A o \in observed : o[1] <= now' /\ o[1] # now'
      BY <1>0, <2>1, <2>2, ObservedTyped DEF TearInv
    <3>3. Cardinality(Missing)' = Cardinality(Missing)
      BY Zenon, <2>3
    <3>4. QED
      BY <1>0, <2>1, <3>1, <3>2, <3>3 DEF TearInv
  <2>9. QED
    BY <2>4, <2>5, <2>6, <2>7, <2>8 DEF IInv
<1>2. CASE Index
  <2>1. PICK date \in adding : /\ history' = Appended(LegacyEvent(date)) /\ unended' = "no"
                               /\ adding' = adding \ {date}
    BY Zenon, <1>2 DEF Index, AppendLine
  <2>2. /\ pc = "index" /\ pc' = "index"
        /\ UNCHANGED <<served, files, state, now, download, observed, tears>>
    BY <1>2 DEF Index
  <2> DEFINE e == LegacyEvent(date)
  <2>3. Fits(e) /\ e.at = date /\ date <= 0 /\ date \in Int
    BY Zenon, <2>2, LegacyFits
  <2> HIDE DEF e
  <2>4. e.at # now
    BY <1>0, <2>2, <2>3 DEF TypeOK
  <2>5. tears' \in Nat
    BY <1>0, <2>2 DEF TypeOK
  <2>6. history' = Appended(e)
    BY <2>1 DEF e
  <2>7. TypeOK' /\ FilesInv' /\ VersionsKept' /\ HistoryInv'
    BY <2>1, <2>2, <2>3, <2>4, <2>5, <2>6, RecordingStep
  <2>8. Missing' \subseteq Missing
    BY <2>2, <2>3, <2>6, Appending
  <2>9. TearInv'
    <3>1. /\ Cardinality(Missing) \in Nat /\ Cardinality(Missing') \in Nat
          /\ Cardinality(Missing') <= Cardinality(Missing) /\ tears \in Nat
      BY <1>0, <2>8, MissingCounted DEF TypeOK
    <3>2. ~Unrecorded'
      BY <2>2 DEF Unrecorded
    <3>3. Cardinality(Missing) <= tears
      BY <1>0, <3>1 DEF TearInv
    <3>4. \A o \in observed' : o[1] <= now' /\ (pc' # "idle" => o[1] # now')
      BY <1>0, <2>2 DEF TearInv
    <3>5. Cardinality(Missing') + 0 + 0 <= tears'
      BY <2>2, <3>1, <3>3
    <3>6. QED
      BY <2>1, <2>2, <3>2, <3>4, <3>5, <3>1 DEF TearInv
  <2>10. QED
    BY <2>7, <2>9 DEF IInv
<1>3. CASE EndIndex
  <2>1. /\ pc = "index" /\ pc' \in {"idle", "due"}
        /\ UNCHANGED <<served, files, history, unended, now, adding, added, download,
                       observed, tears, counters>>
    BY <1>3 DEF EndIndex
  <2>2. \/ state' = state
        \/ \E e \in Newest :
             state' = [state EXCEPT !.latest = e.sha256, !.path = e.path]
    BY Zenon, <1>3 DEF EndIndex
  <2>3. \/ state' = state
        \/ /\ state'.path \in DOMAIN files /\ files[state'.path] = state'.latest
           /\ state'.latest \in Versions /\ DOMAIN state' = DOMAIN state
    <3>1. CASE state' = state
      BY <3>1
    <3>2. ASSUME NEW e \in Newest, state' = [state EXCEPT !.latest = e.sha256, !.path = e.path]
          PROVE  /\ state'.path \in DOMAIN files /\ files[state'.path] = state'.latest
                 /\ state'.latest \in Versions /\ DOMAIN state' = DOMAIN state
      <4>1. e \in Entries
        BY DEF Newest
      <4>2. e.path \in DOMAIN files /\ files[e.path] = e.sha256 /\ e.sha256 \in Versions
        BY <1>0, <4>1, EntryTyped DEF VersionsKept
      <4>3. state'.path = e.path /\ state'.latest = e.sha256 /\ DOMAIN state' = DOMAIN state
        BY <1>0, <3>2 DEF TypeOK
      <4>4. QED
        BY Zenon, <4>2, <4>3
    <3>3. QED
      BY <2>2, <3>1, <3>2
  <2>4. TypeOK'
    <3>1. /\ DOMAIN state' = {"latest", "path", "success", "attempt"}
          /\ state'.latest \in Versions \cup {None}
      BY <1>0, <2>3 DEF TypeOK
    <3>2. QED
      BY <1>0, <2>1, <3>1 DEF TypeOK
  <2>5. QED
    BY <2>1, <2>3, <2>4, QuietStep
<1>4. CASE NotDue
  <2>1. pc = "due" /\ pc' = "idle"
        /\ UNCHANGED <<served, files, history, unended, state, now, adding, added, download,
                       observed, tears, counters>>
    BY <1>4 DEF NotDue
  <2>2. TypeOK'
    BY <1>0, <2>1 DEF TypeOK
  <2>3. QED
    BY <2>1, <2>2, QuietStep
<1>5. CASE Download
  <2>1. /\ pc = "due" /\ pc' = "install" /\ download' = [sha256 |-> served, path |-> None]
        /\ UNCHANGED <<served, files, history, unended, state, now, adding, added, observed,
                       tears, counters>>
    BY <1>5 DEF Download
  <2>2. TypeOK'
    BY <1>0, <2>1 DEF TypeOK
  <2>3. QED
    BY <2>1, <2>2, QuietStep
<1>6. CASE Install
  <2>1. /\ pc = "install" /\ pc' = "append" /\ files' = Installed
        /\ download' = [download EXCEPT !.path = Destination]
        /\ UNCHANGED <<served, history, unended, state, now, adding, added, observed, tears,
                       counters>>
    BY <1>6 DEF Install
  <2> DEFINE d == Destination
             v == download.sha256
  <2>2. v \in Versions /\ download'.path = d /\ download'.sha256 = v
        /\ DOMAIN download' = {"sha256", "path"}
    BY <1>0, <2>1 DEF TypeOK
  <2>3. /\ DOMAIN files' = DOMAIN files \cup {d}
        /\ \A p \in DOMAIN files : files'[p] = files[p]
        /\ d \notin DOMAIN files => files'[d] = v
        /\ files' = [p \in DOMAIN files \cup {d} |-> files'[p]]
    BY Zenon, <2>1 DEF Installed
  <2>4. \/ d \notin DOMAIN files /\ d = v
        \/ d \in DOMAIN files /\ files[d] = v
    <3>1. d = v \/ \E e \in Entries : e.sha256 = v /\ e.path = d
      BY Zenon, <1>0, DestinationIs
    <3>2. v \in DOMAIN files => files[v] = v
      BY <1>0, <2>2, Numbers DEF FilesInv
    <3>3. QED
      BY Zenon, <1>0, <3>1, <3>2 DEF VersionsKept
  <2> HIDE DEF d, v
  <2>5. d \in DOMAIN files' /\ files'[d] = v
    BY Zenon, <2>3, <2>4
  <2>6. Readable' = Readable /\ Entries' = Entries /\ Missing' = Missing
    BY ZenonT(60), <2>1 DEF Readable, Entries, Missing
  <2>7. TypeOK'
    <3>1. d \in Paths /\ DOMAIN files \subseteq Paths /\ files \in [DOMAIN files -> Versions]
      BY <1>0, <2>2, <2>4 DEF TypeOK, Paths
    <3>2. DOMAIN files' \subseteq Paths /\ files' \in [DOMAIN files' -> Versions]
      BY <2>2, <2>3, <2>4, <3>1
    <3>3. QED
      BY <1>0, <2>1, <2>2, <3>2 DEF TypeOK
  <2>8. FilesInv'
    <3>1. LegacyDates \subseteq DOMAIN files'
      BY <1>0, <2>3 DEF FilesInv
    <3>2. \A p \in DOMAIN files' : p \in LegacyDates \/ files'[p] = p
      BY <1>0, <2>3, <2>4 DEF FilesInv
    <3>3. QED
      BY <2>2, <2>5, <3>1, <3>2 DEF FilesInv
  <2>9. VersionsKept'
    <3>1. \A e \in Entries : e.path \in DOMAIN files' /\ files'[e.path] = e.sha256
      BY <1>0, <2>3 DEF VersionsKept
    <3>2. state.latest # None =>
            state.path \in DOMAIN files' /\ files'[state.path] = state.latest
      BY <1>0, <2>3 DEF VersionsKept, CatalogAccepts
    <3>3. QED
      BY <2>1, <2>6, <3>1, <3>2 DEF VersionsKept, CatalogAccepts
  <2>10. HistoryInv'
    BY <1>0, <2>1, <2>6 DEF HistoryInv
  <2>11. TearInv'
    <3>1. ~Unrecorded' /\ ~Unrecorded
      BY <2>1 DEF Unrecorded
    <3>2. Cardinality(Missing)' = Cardinality(Missing)
      BY Zenon, <2>6
    <3>3. QED
      BY <1>0, <2>1, <3>1, <3>2 DEF TearInv
  <2>12. QED
    BY <2>7, <2>8, <2>9, <2>10, <2>11 DEF IInv
<1>7. CASE AppendEvent
  <2>1. /\ pc = "append" /\ pc' = "state" /\ history' = Appended(CheckEvent) /\ unended' = "no"
        /\ UNCHANGED <<served, files, state, now, adding, added, download, observed, tears,
                       counters>>
    BY <1>7 DEF AppendEvent, AppendLine
  <2> DEFINE e == CheckEvent
  <2>2. Fits(e) /\ e.at = now
    BY Zenon, <2>1, CheckFits
  <2>3. e.sha256 = download.sha256
    BY DEF CheckEvent, Event
  <2>4. history' = Appended(e)
    BY <2>1
  <2> HIDE DEF e
  <2>5. tears' \in Nat
    BY <1>0, <2>1 DEF TypeOK
  <2>6. TypeOK' /\ FilesInv' /\ VersionsKept' /\ HistoryInv'
    BY <2>1, <2>2, <2>4, <2>5, RecordingStep
  <2>7. Missing' \subseteq Missing /\ (unended = "no" => e \in Entries')
    BY <2>1, <2>2, <2>4, Appending
  <2>8. TearInv'
    <3>1. /\ Cardinality(Missing) \in Nat /\ Cardinality(Missing') \in Nat
          /\ Cardinality(Missing') <= Cardinality(Missing) /\ tears \in Nat
      BY <1>0, <2>7, MissingCounted DEF TypeOK
    <3>2. unended = "no" => ~Unrecorded'
      BY Zenon, <2>1, <2>2, <2>3, <2>7 DEF Unrecorded
    <3>3. Cardinality(Missing) + (IF unended = "no" THEN 0 ELSE 1) <= tears
      BY <1>0, <3>1 DEF TearInv
    <3>4. \A o \in observed' : o[1] <= now' /\ (pc' # "idle" => o[1] # now')
      BY <1>0, <2>1 DEF TearInv
    <3>5. Cardinality(Missing') + 0 + (IF Unrecorded' THEN 1 ELSE 0) <= tears'
      <4>1. CASE unended = "no"
        BY <2>1, <3>1, <3>2, <3>3, <4>1
      <4>2. CASE unended # "no"
        BY <2>1, <3>1, <3>3, <4>2
      <4>3. QED
        BY <4>1, <4>2
    <3>6. QED
      BY <2>1, <3>4, <3>5 DEF TearInv
  <2>9. QED
    BY <2>6, <2>8 DEF IInv
<1>8. CASE WriteState
  <2>1. /\ pc = "state" /\ pc' = "idle"
        /\ state' = [latest |-> download.sha256, path |-> download.path,
                     success |-> now, attempt |-> now]
        /\ observed' = observed \cup {<<now, download.sha256>>}
        /\ UNCHANGED <<served, files, history, unended, now, adding, added, download, tears,
                       counters>>
    BY <1>8 DEF WriteState
  <2>2. /\ now \in 1..MaxTime /\ now \in Nat /\ download.sha256 \in Versions
        /\ download.path \in DOMAIN files /\ files[download.path] = download.sha256
    BY <1>0, <2>1, Numbers DEF TypeOK, FilesInv
  <2> DEFINE o == <<now, download.sha256>>
  <2>3. Readable' = Readable /\ Entries' = Entries
    BY Zenon, <2>1 DEF Readable, Entries
  <2>4. /\ state'.path = download.path /\ state'.latest = download.sha256
        /\ DOMAIN state' = {"latest", "path", "success", "attempt"}
    BY <2>1
  <2>5. IsFiniteSet(observed')
    BY <1>0, <2>1, FS_AddElement DEF TypeOK
  <2>6. TypeOK'
    <3>1. observed' \subseteq (1..MaxTime) \X Versions
      BY <1>0, <2>1, <2>2 DEF TypeOK
    <3>2. QED
      BY <1>0, <2>1, <2>2, <2>4, <2>5, <3>1 DEF TypeOK
  <2>7. FilesInv'
    BY <1>0, <2>1 DEF FilesInv
  <2>8. VersionsKept'
    BY Zenon, <1>0, <2>1, <2>2, <2>3, <2>4 DEF VersionsKept, CatalogAccepts
  <2>9. HistoryInv'
    BY <1>0, <2>1, <2>3 DEF HistoryInv
  <2>10. TearInv'
    <3>1. ~Unrecorded' /\ unended = "no"
      BY <1>0, <2>1 DEF Unrecorded, TearInv
    <3>2. Missing' \subseteq Missing \cup {o} /\ (~Unrecorded => Missing' \subseteq Missing)
      <4>1. o[1] = now /\ o[2] = download.sha256
        OBVIOUS
      <4> HIDE DEF o
      <4>2. Missing' \subseteq Missing \cup {o}
        BY Zenon, <2>1, <2>3 DEF Missing, o
      <4>3. ~Unrecorded => o \notin Missing'
        BY Zenon, <2>1, <2>3, <4>1 DEF Missing, Unrecorded
      <4>4. QED
        BY Zenon, <4>2, <4>3
    <3>3. /\ IsFiniteSet(Missing) /\ Cardinality(Missing) \in Nat /\ tears \in Nat
      BY <1>0, MissingCounted DEF TypeOK
    <3> HIDE DEF o
    <3>4. /\ IsFiniteSet(Missing \cup {o}) /\ Cardinality(Missing \cup {o}) \in Nat
          /\ Cardinality(Missing \cup {o}) <= Cardinality(Missing) + 1
      BY <3>3, FS_AddElement, FS_CardinalityType
    <3>5. /\ Cardinality(Missing') \in Nat
          /\ Cardinality(Missing') <= Cardinality(Missing \cup {o})
          /\ ~Unrecorded => Cardinality(Missing') <= Cardinality(Missing)
      BY <3>2, <3>3, <3>4, FS_Subset, FS_CardinalityType
    <3>6. Cardinality(Missing) + 0 + (IF Unrecorded THEN 1 ELSE 0) <= tears
      BY <1>0, <3>1 DEF TearInv
    <3>7. Cardinality(Missing') + 0 + 0 <= tears'
      BY <2>1, <3>3, <3>4, <3>5, <3>6
    <3>8. \A p \in observed' : p[1] <= now' /\ (pc' # "idle" => p[1] # now')
      BY <1>0, <2>1, <2>2 DEF TearInv, o
    <3>9. QED
      BY <2>1, <3>1, <3>7, <3>8 DEF TearInv
  <2>11. QED
    BY <2>6, <2>7, <2>8, <2>9, <2>10 DEF IInv
<1>9. CASE Fail
  <2>1. /\ pc \in {"due", "install", "append", "state"} /\ pc' = "failed"
        /\ UNCHANGED <<served, files, state, now, adding, added, download, observed, crashes>>
        /\ UNCHANGED <<history, unended, tears>> \/ (pc = "append" /\ BreakLine(CheckEvent))
    BY Zenon, <1>9 DEF Fail
  <2>2. CASE UNCHANGED <<history, unended, tears>>
    <3>1. TypeOK'
      BY <1>0, <2>1, <2>2 DEF TypeOK
    <3>2. QED
      BY <2>1, <2>2, <3>1, QuietStep
  <2>3. CASE pc = "append" /\ BreakLine(CheckEvent)
    <3>1. Fits(CheckEvent) /\ CheckEvent.at = now
      BY <2>3, CheckFits
    <3>2. \A o \in observed : o[1] # CheckEvent.at
      BY Zenon, <1>0, <2>3, <3>1 DEF TearInv
    <3>3. QED
      BY <2>1, <2>3, <3>1, <3>2, BreakingStep
  <2>4. QED
    BY Zenon, <2>1, <2>2, <2>3
<1>10. CASE RecordFailure
  <2>1. /\ pc = "failed" /\ pc' = "idle" /\ state' = [state EXCEPT !.attempt = now]
        /\ UNCHANGED <<served, files, history, unended, now, adding, added, download, observed,
                       tears, counters>>
    BY <1>10 DEF RecordFailure
  <2>2. /\ DOMAIN state' = {"latest", "path", "success", "attempt"}
        /\ state'.latest = state.latest /\ state'.path = state.path
    BY <1>0, <2>1 DEF TypeOK
  <2>3. TypeOK'
    BY <1>0, <2>1, <2>2 DEF TypeOK
  <2>4. QED
    BY <2>1, <2>2, <2>3, QuietStep
<1>11. CASE Die
  <2>1. /\ pc # "idle" /\ pc' = "idle"
        /\ UNCHANGED <<served, files, state, now, adding, added, download, observed, faults>>
        /\ \/ UNCHANGED <<history, unended, tears>>
           \/ pc = "append" /\ BreakLine(CheckEvent)
           \/ /\ pc = "index"
              /\ \E date \in adding : BreakLine(LegacyEvent(date))
    BY Zenon, <1>11 DEF Die
  <2>2. CASE UNCHANGED <<history, unended, tears>>
    <3>1. TypeOK'
      BY <1>0, <2>1, <2>2 DEF TypeOK
    <3>2. QED
      BY <2>1, <2>2, <3>1, QuietStep
  <2>3. CASE pc = "append" /\ BreakLine(CheckEvent)
    <3>1. Fits(CheckEvent) /\ CheckEvent.at = now
      BY <2>3, CheckFits
    <3>2. \A o \in observed : o[1] # CheckEvent.at
      BY Zenon, <1>0, <2>1, <3>1 DEF TearInv
    <3>3. QED
      BY <2>1, <2>3, <3>1, <3>2, BreakingStep
  <2>4. CASE pc = "index" /\ \E date \in adding : BreakLine(LegacyEvent(date))
    <3>1. PICK date \in adding : BreakLine(LegacyEvent(date))
      BY <2>4
    <3>2. Fits(LegacyEvent(date)) /\ LegacyEvent(date).at = date /\ date <= 0 /\ date \in Int
      BY <2>4, LegacyFits
    <3>3. \A o \in observed : o[1] # LegacyEvent(date).at
      BY <1>0, <3>2, ObservedTyped
    <3>4. QED
      BY <2>1, <3>1, <3>2, <3>3, BreakingStep
  <2>5. QED
    BY Zenon, <2>1, <2>2, <2>3, <2>4
<1>12. CASE Publish
  <2>1. /\ pc = "idle" /\ pc' = "idle" /\ served' \in Versions
        /\ UNCHANGED <<files, history, unended, state, now, adding, added, download, observed,
                       tears, counters>>
    BY <1>12 DEF Publish
  <2>2. TypeOK'
    BY <1>0, <2>1 DEF TypeOK
  <2>3. QED
    BY <2>1, <2>2, QuietStep
<1>13. CASE UNCHANGED vars
  <2>1. UNCHANGED <<served, files, history, unended, state, pc, now, adding, added, download,
                    observed, tears>>
    BY <1>13 DEF vars
  <2>2. Readable' = Readable /\ Entries' = Entries /\ Missing' = Missing
    BY ZenonT(60), <2>1 DEF Readable, Entries, Missing
  <2>3. TypeOK' /\ FilesInv' /\ HistoryInv'
    BY <1>0, <2>1, <2>2 DEF TypeOK, FilesInv, HistoryInv
  <2>4. VersionsKept'
    BY Zenon, <1>0, <2>1, <2>2 DEF VersionsKept, CatalogAccepts
  <2>5. TearInv'
    <3>1. (Unrecorded' <=> Unrecorded) /\ Cardinality(Missing)' = Cardinality(Missing)
      BY Zenon, <2>1, <2>2 DEF Unrecorded
    <3>2. QED
      BY <1>0, <2>1, <3>1 DEF TearInv
  <2>6. QED
    BY <2>3, <2>4, <2>5 DEF IInv
<1>14. QED
  BY <1>1, <1>2, <1>3, <1>4, <1>5, <1>6, <1>7, <1>8, <1>9, <1>10, <1>11, <1>12, <1>13 DEF Next

----------------------------------------------------------------------------
(* The lookups *)

\* An instant of the history has one event.
LEMMA OneEntryPerInstant ==
  ASSUME IInv
  PROVE  /\ \A a, b \in Entries : a.at = b.at => a = b
         /\ \A e \in Entries : e.at \in -Horizon..MaxTime /\ e.at \in Int
<1>1. \A i, j \in Readable : history[i].at = history[j].at => i = j
  BY DEF IInv, HistoryInv
<1>2. \A a, b \in Entries : a.at = b.at => a = b
  BY Zenon, <1>1 DEF Entries
<1>3. \A e \in Entries : e.at \in Int /\ e.at <= MaxTime /\ e.at >= 1 - Horizon
  BY EntryTyped DEF IInv
<1>4. QED
  BY <1>2, <1>3, Numbers

\* What had been observed by an instant is one event, or none if there is none before it.
LEMMA ObservedAtIs ==
  ASSUME IInv, NEW t \in Instants
  PROVE  /\ \A a, b \in ObservedAt(t) : a = b
         /\ ObservedAt(t) = {} => \A e \in Entries : e.at > t
<1> DEFINE S == {e \in Entries : e.at <= t}
<1>1. t \in Int
  BY Numbers DEF Instants
<1>2. \A e \in S : e \in Entries /\ e.at \in -Horizon..MaxTime /\ e.at \in Int /\ e.at <= t
  BY OneEntryPerInstant
<1>3. ObservedAt(t) = {e \in S : \A other \in S : other.at <= e.at}
  BY Zenon DEF ObservedAt, LatestOf
<1>4. S # {} => ObservedAt(t) # {}
  <2> HIDE DEF S
  <2>1. S # {} => LatestOf(S) # {}
    BY <1>2, LatestExists
  <2>2. QED
    BY Zenon, <1>3, <2>1 DEF LatestOf
<1>5. \A a, b \in ObservedAt(t) : a = b
  <2> HIDE DEF S
  <2>1. \A a, b \in ObservedAt(t) : a \in Entries /\ b \in Entries /\ a.at = b.at
    BY <1>2, <1>3
  <2>2. QED
    BY Zenon, <2>1, OneEntryPerInstant
<1>6. S = {} => \A e \in Entries : e.at > t
  <2>1. \A e \in Entries : e.at \in Int
    BY OneEntryPerInstant
  <2>2. QED
    BY <1>1, <2>1
<1>7. QED
  BY Zenon, <1>4, <1>5, <1>6

\* The version and the kind of record that a lookup shows.
Shown(e) == <<e.sha256, e.source = "legacy">>

\* Two events that are merged show the same.
LEMMA SameShown ==
  ASSUME NEW a, NEW b
  PROVE  SameSegment(a, b) <=> Shown(a) = Shown(b)
BY Zenon DEF SameSegment, Shown

\* The segment that covers an instant shows what the last event before it shows: were
\* they different, the first boundary after the segment's start that differs from it
\* would have a predecessor that does not, and start a segment of its own.
LEMMA CoveringShows ==
  ASSUME IInv, NEW start \in Instants, NEW end \in Instants, NEW t \in Instants,
         start <= t, t < end, NEW o \in ObservedAt(t)
  PROVE  \E c : Covering(start, end, t) = {c} /\ Shown(c) = Shown(o)
<1> DEFINE B == Boundaries(start, end)
           K == {e \in Kept(start, end) : e.at <= t}
<1>0. /\ start \in Int /\ end \in Int /\ t \in Int
      /\ \A a, b \in Entries : a.at = b.at => a = b
      /\ \A e \in Entries : e.at \in -Horizon..MaxTime /\ e.at \in Int
  BY Numbers, OneEntryPerInstant DEF Instants
<1>1. B \subseteq Entries
  BY Zenon DEF Boundaries, ObservedAt, LatestOf
<1>2. o \in Entries /\ o.at <= t /\ \A e \in Entries : e.at <= t => e.at <= o.at
  BY Zenon DEF ObservedAt, LatestOf
<1>3. o \in B
  <2>1. CASE start < o.at
    <3>1. o.at < end
      BY <1>0, <1>2
    <3>2. QED
      BY Zenon, <1>2, <2>1, <3>1 DEF Boundaries
  <2>2. CASE ~(start < o.at)
    <3>1. o.at <= start /\ \A e \in Entries : e.at <= start => e.at <= o.at
      BY <1>0, <1>2, <2>2
    <3>2. o \in ObservedAt(start)
      BY Zenon, <1>2, <3>1 DEF ObservedAt, LatestOf
    <3>3. QED
      BY Zenon, <3>2 DEF Boundaries
  <2>3. QED
    BY <2>1, <2>2
<1>4. Kept(start, end) = {e \in B : \A p \in LatestOf({b \in B : b.at < e.at}) : Shown(p) # Shown(e)}
  BY Zenon, SameShown DEF Kept
<1>5. \A e, p : p \in LatestOf({b \in B : b.at < e.at}) <=>
                   /\ p \in B /\ p.at < e.at
                   /\ \A q \in B : q.at < e.at => q.at <= p.at
  BY Zenon DEF LatestOf
<1>6. Covering(start, end, t) = LatestOf(K)
  BY Zenon DEF Covering
<1> HIDE DEF B
<1>7. \A e \in K : e \in B /\ e \in Entries /\ e.at <= t
  BY Zenon, <1>1, <1>4
<1>8. K # {}
  <2>1. PICK first \in B : \A d \in B : first.at <= d.at
    BY <1>0, <1>1, <1>3, EarliestExists
  <2>2. first.at <= t
    BY <1>0, <1>1, <1>2, <1>3, <2>1
  <2>3. \A d \in B : ~(d.at < first.at)
    BY <1>0, <1>1, <2>1
  <2>4. first \in Kept(start, end)
    BY Zenon, <1>4, <1>5, <2>3
  <2>5. QED
    BY Zenon, <2>2, <2>4
<1> HIDE DEF K
<1>9. PICK c : c \in LatestOf(K)
  BY <1>0, <1>7, <1>8, LatestExists
<1>10. c \in K /\ \A e \in K : e.at <= c.at
  BY Zenon, <1>9 DEF LatestOf
<1>11. \A d \in LatestOf(K) : d = c
  <2>1. \A d \in LatestOf(K) : d \in K /\ c.at <= d.at
    BY Zenon, <1>10 DEF LatestOf
  <2>2. \A d \in LatestOf(K) : d.at = c.at /\ d \in Entries /\ c \in Entries
    BY <1>0, <1>7, <1>10, <2>1
  <2>3. QED
    BY Zenon, <1>0, <2>2
<1>12. Covering(start, end, t) = {c}
  BY Zenon, <1>6, <1>9, <1>11
<1>13. Shown(c) = Shown(o)
  <2> SUFFICES ASSUME Shown(c) # Shown(o) PROVE FALSE
    OBVIOUS
  <2> DEFINE D == {b \in B : c.at < b.at /\ b.at <= o.at /\ Shown(b) # Shown(c)}
  <2>1. c \in B /\ c \in Entries /\ c.at <= t /\ c.at <= o.at /\ c # o
    BY Zenon, <1>2, <1>7, <1>10
  <2>2. c.at < o.at
    <3>1. c.at # o.at
      BY Zenon, <1>0, <1>2, <2>1
    <3>2. QED
      BY <1>0, <1>2, <2>1, <3>1
  <2>3. o \in D
    BY <1>0, <1>2, <1>3, <2>2
  <2>4. \A b \in D : b \in B /\ b \in Entries /\ b.at \in -Horizon..MaxTime
    BY <1>0, <1>1
  <2>5. PICK b \in D : \A d \in D : b.at <= d.at
    <3> HIDE DEF D
    <3> QED BY <2>3, <2>4, EarliestExists
  <2>6. b \in B /\ b \in Entries /\ c.at < b.at /\ b.at <= o.at /\ Shown(b) # Shown(c)
    BY Zenon, <2>4
  <2>7. ASSUME NEW p \in B, p.at < b.at, \A q \in B : q.at < b.at => q.at <= p.at
        PROVE  Shown(p) = Shown(c)
    <3>1. c.at <= p.at /\ p \in Entries
      BY Zenon, <1>1, <2>1, <2>6, <2>7
    <3>2. CASE p.at = c.at
      BY Zenon, <1>0, <2>1, <3>1, <3>2
    <3>3. CASE p.at # c.at
      <4>1. c.at < p.at /\ p.at <= o.at /\ ~(b.at <= p.at)
        BY <1>0, <1>2, <2>1, <2>6, <2>7, <3>1, <3>3
      <4>2. QED
        BY Zenon, <2>5, <4>1
    <3>4. QED
      BY <3>2, <3>3
  <2>8. b \in Kept(start, end)
    <3>1. \A p \in LatestOf({d \in B : d.at < b.at}) : Shown(p) = Shown(c)
      BY Zenon, <1>5, <2>7
    <3>2. QED
      BY Zenon, <1>4, <2>6, <3>1
  <2>9. b.at <= t
    BY <1>0, <1>2, <2>6
  <2>10. b \in K
    BY Zenon, <2>8, <2>9 DEF K
  <2>11. b.at <= c.at
    BY Zenon, <1>10, <2>10
  <2>12. QED
    BY <1>0, <2>1, <2>6, <2>11
<1>14. QED
  BY Zenon, <1>12, <1>13

\* With one event per instant, the two lookups agree.
LEMMA LookupsAgree == IInv => TimelineAgrees
<1> SUFFICES ASSUME IInv, NEW start \in Instants, NEW end \in Instants, NEW t \in Instants,
                    start <= t, t < end
             PROVE  {<<e.sha256, e.source = "legacy">> : e \in Covering(start, end, t)}
                      = {<<e.sha256, e.source = "legacy">> : e \in ObservedAt(t)}
  BY DEF TimelineAgrees
<1> SUFFICES {Shown(e) : e \in Covering(start, end, t)} = {Shown(e) : e \in ObservedAt(t)}
  BY Zenon DEF Shown
<1>1. CASE ObservedAt(t) = {}
  <2>1. \A e \in Entries : e.at > t
    BY Zenon, <1>1, ObservedAtIs
  <2>2. t \in Int /\ \A e \in Entries : e.at \in Int
    BY Numbers, OneEntryPerInstant DEF Instants
  <2>3. \A e \in Entries : ~(e.at <= t)
    BY <2>1, <2>2
  <2>4. Boundaries(start, end) \subseteq Entries
    BY Zenon DEF Boundaries, ObservedAt, LatestOf
  <2>5. Covering(start, end, t) = {}
    BY Zenon, <2>3, <2>4 DEF Covering, LatestOf, Kept
  <2>6. QED
    BY Zenon, <1>1, <2>5
<1>2. CASE ObservedAt(t) # {}
  <2>1. PICK o : o \in ObservedAt(t)
    BY Zenon, <1>2
  <2>2. ObservedAt(t) = {o}
    <3>1. \A a, b \in ObservedAt(t) : a = b
      BY ObservedAtIs
    <3>2. QED
      BY Zenon, <2>1, <3>1
  <2>3. PICK c : Covering(start, end, t) = {c} /\ Shown(c) = Shown(o)
    BY <2>1, CoveringShows
  <2>4. QED
    BY Zenon, <2>2, <2>3
<1>3. QED
  BY <1>1, <1>2

----------------------------------------------------------------------------
(* What follows *)

\* The invariant holds at each point where the maintenance process may die.
THEOREM StaticInvariant == Spec => []IInv
<1>1. Init => IInv
  BY InitInv
<1>2. IInv /\ [Next]_vars => IInv'
  BY NextInv
<1>3. QED
  BY <1>1, <1>2, PTL DEF Spec

\* Whatever history.jsonl or state.json names is on disk with those bytes, in all of
\* Install, AppendEvent, WriteState and after every failure and death between them.
THEOREM NamedVersionsKept == Spec => []VersionsKept
<1>1. IInv => VersionsKept
  BY DEF IInv
<1>2. QED
  BY <1>1, StaticInvariant, PTL

\* The history misses at most one successful check per append that was interrupted.
THEOREM TearsAreBounded == Spec => []OneTearLosesOne
<1>1. IInv => OneTearLosesOne
  <2> SUFFICES ASSUME IInv PROVE OneTearLosesOne
    OBVIOUS
  <2>1. Cardinality(Missing) \in Nat /\ tears \in Nat
    BY MissingCounted DEF IInv, TypeOK
  <2>2. Cardinality(Missing) + (IF unended = "no" THEN 0 ELSE 1)
          + (IF Unrecorded THEN 1 ELSE 0) <= tears
    BY DEF IInv, TearInv
  <2>3. QED
    BY <2>1, <2>2 DEF OneTearLosesOne
<1>2. QED
  BY <1>1, StaticInvariant, PTL

\* observed_timeline and observed_version_at never name different versions.
THEOREM LookupsNeverDisagree == Spec => []TimelineAgrees
BY LookupsAgree, StaticInvariant, PTL

--------------------------------------------------------------------------------
(* The worklist of the backup *)

LEMMA BacklogNumbers ==
  /\ Cardinality(Dates) \in Nat /\ Dates = 1..Cardinality(Dates)
  /\ \A d \in Dates : d \in Nat
  /\ Sizes # {} /\ Sizes \subseteq Nat
<1>1. Cardinality(Dates) \in Nat /\ Dates = 1..Cardinality(Dates)
  BY BacklogAssumption, FS_CardinalityType
<1>2. QED
  BY <1>1, BacklogAssumption

\* The oldest of some dates is one of them.
LEMMA LeastDate ==
  ASSUME NEW S \in SUBSET Dates, S # {}
  PROVE  Least(S) \in S
<1>1. S \in SUBSET Nat
  BY BacklogNumbers
<1>2. \E d \in S : \A e \in S : d <= e
  BY <1>1, LeastNumber
<1>3. QED
  BY Zenon, <1>2 DEF Least, Min

\* The half of the invariant that is about the dates and maintenance ...
WorkerHalf ==
  /\ today \in Nat /\ evidence \in [Dates -> Kinds] /\ content \in [Dates -> Nat]
  /\ text \in [Dates -> Nat \X Sizes]
  /\ manifest \in [Dates -> {"none", "stale", "current"}]
  /\ receipts \in [Dates -> Copies]
  /\ workerPc \in {"rest", "backlog", "upload", "verify"} /\ worklist \subseteq Dates
  /\ workerPc \in {"upload", "verify"} => worklist # {}
  /\ troubles \in Nat
  /\ WorklistInv /\ PinnedInv

\* ... and the half about the tool and the repository.
ToolHalf ==
  /\ toolPc \in {"idle", "inventory", "copy", "send", "confirm"}
  /\ draft \subseteq InventoryEntries /\ left \subseteq Dates
  /\ toolPc \in {"send", "confirm"} => left # {}
  /\ hand \in Copies /\ remote \in [Dates -> Copies]
  /\ confirmed \subseteq Dates /\ held \subseteq Dates
  /\ DraftInv /\ RemoteInv /\ LegacyClaimsHeld

LEMMA TwoHalves == BacklogInv <=> WorkerHalf /\ ToolHalf
BY DEF BacklogInv, BacklogTypeOK, WorkerHalf, ToolHalf

\* What the worker uploads is a copy of the date, and what is uploaded onto a copy gives
\* a copy again.
LEMMA LocalCopies ==
  ASSUME WorkerHalf, NEW d \in Dates
  PROVE  /\ LocalCopy(d) \in Copies /\ text[d] \in Nat \X Sizes
         /\ content[d] \in Nat /\ text[d][2] \in Sizes
<1>1. content[d] \in Nat /\ text[d] \in Nat \X Sizes
  BY DEF WorkerHalf
<1>2. text[d][2] \in Sizes
  BY <1>1
<1>3. LocalCopy(d) \in Copies
  BY <1>1 DEF LocalCopy, Copies
<1>4. QED
  BY <1>1, <1>2, <1>3

LEMMA CopiesOntoCopies ==
  ASSUME NEW old \in Copies, NEW new \in Copies
  PROVE  /\ Onto(old, new) \in Copies
         /\ [old EXCEPT !.text = new.text] \in Copies
         /\ [old EXCEPT !.data = old.data \cup new.data] \in Copies
BY DEF Onto, Copies

\* An upload, the worker's or the tool's: a date that looks as inventoried with it is
\* held from then on, and no date stops being so.
LEMMA UploadKeepsClaims ==
  ASSUME ToolHalf, NEW d \in Dates, NEW copy \in Copies, Hold(d, copy),
         UNCHANGED <<draft, confirmed>>
  PROVE  /\ remote' \in [Dates -> Copies] /\ held' \subseteq Dates
         /\ RemoteInv' /\ LegacyClaimsHeld'
<1> DEFINE looks == \E e \in draft : e.date = d /\ Looks(copy, e.version, e.size)
<1>0. /\ remote \in [Dates -> Copies] /\ held \subseteq Dates /\ confirmed \subseteq held
      /\ \A e \in draft : Looks(remote[e.date], e.version, e.size) => e.date \in held
      /\ \A e \in draft : e.date \in Dates
  BY DEF ToolHalf, RemoteInv, LegacyClaimsHeld, InventoryEntries
<1>1. /\ remote' = [remote EXCEPT ![d] = copy]
      /\ held' = IF looks THEN held \cup {d} ELSE held
  BY DEF Hold
<1>2. /\ remote' \in [Dates -> Copies] /\ remote'[d] = copy
      /\ \A c \in Dates : c # d => remote'[c] = remote[c]
  BY <1>0, <1>1
<1>3. held \subseteq held' /\ held' \subseteq Dates
  BY <1>0, <1>1
<1>4. ASSUME NEW e \in draft, Looks(remote'[e.date], e.version, e.size)
      PROVE  e.date \in held'
  <2>1. CASE e.date = d
    <3>1. Looks(copy, e.version, e.size)
      BY Zenon, <1>2, <1>4, <2>1
    <3>2. looks
      BY Zenon, <2>1, <3>1
    <3> HIDE DEF looks
    <3>3. QED
      BY <1>1, <2>1, <3>2
  <2>2. CASE e.date # d
    <3>1. remote'[e.date] = remote[e.date]
      BY <1>0, <1>2, <2>2
    <3>2. e.date \in held
      BY Zenon, <1>0, <1>4, <3>1
    <3>3. QED
      BY <1>3, <3>2
  <2>3. QED
    BY <2>1, <2>2
<1> HIDE DEF looks
<1>5. RemoteInv'
  BY Zenon, <1>4 DEF RemoteInv, Looks
<1>6. LegacyClaimsHeld'
  BY <1>0, <1>3 DEF LegacyClaimsHeld
<1>7. QED
  BY <1>2, <1>3, <1>5, <1>6

\* A build types what it writes, and writes nothing of other dates.
LEMMA BuildStep ==
  ASSUME WorkerHalf, NEW dates \in SUBSET Dates, Build(dates)
  PROVE  /\ text' \in [Dates -> Nat \X Sizes] /\ troubles' \in Nat
         /\ manifest' \in [Dates -> {"none", "stale", "current"}]
         /\ \A d \in Dates \ dates : text'[d] = text[d]
<1>0. /\ text \in [Dates -> Nat \X Sizes] /\ troubles \in Nat
      /\ manifest \in [Dates -> {"none", "stale", "current"}]
  BY DEF WorkerHalf
<1>1. troubles' \in Nat
  BY <1>0 DEF Build, Fault
<1>2. manifest' \in [Dates -> {"none", "stale", "current"}]
  BY <1>0 DEF Build, NewManifest
<1>3. CASE UNCHANGED text
  BY <1>0, <1>1, <1>2, <1>3
<1>4. CASE \E size \in [dates -> Sizes] :
             text' = [d \in Dates |-> IF d \in dates THEN <<troubles', size[d]>> ELSE text[d]]
  <2>1. PICK size \in [dates -> Sizes] :
          text' = [d \in Dates |-> IF d \in dates THEN <<troubles', size[d]>> ELSE text[d]]
    BY <1>4
  <2>2. \A d \in dates : <<troubles', size[d]>> \in Nat \X Sizes
    BY <1>1, <2>1
  <2>3. text' \in [Dates -> Nat \X Sizes]
    BY <1>0, <2>1, <2>2
  <2>4. \A d \in Dates \ dates : text'[d] = text[d]
    BY <2>1
  <2>5. QED
    BY <1>1, <1>2, <2>3, <2>4
<1>5. QED
  BY <1>3, <1>4 DEF Build

\* A step that takes no date up: the worklist shrinks at most, and what is whole stays
\* as it is but for the ordinary files of dates without a receipt.
LEMMA DatesStayPinned ==
  ASSUME WorkerHalf, UNCHANGED <<evidence, content, receipts>>,
         \A d \in Confirmed : text'[d] = text[d],
         worklist' \cap Confirmed = {}
  PROVE  PinnedInv'
<1>1. Confirmed' = Confirmed
  BY DEF Confirmed
<1>2. ASSUME NEW d \in Confirmed
      PROVE  CopyOf(receipts[d], d)' /\ evidence[d] = "whole" /\ d \notin worklist'
  <2>1. CopyOf(receipts[d], d) /\ evidence[d] = "whole"
    BY Zenon DEF WorkerHalf, PinnedInv
  <2>2. CopyOf(receipts[d], d)' = CopyOf(receipts[d], d)
    BY DEF CopyOf
  <2>3. QED
    BY <2>1, <2>2
<1>3. QED
  BY <1>1, <1>2 DEF PinnedInv

\* Maintenance changes no file of a date that has a receipt, and writes receipts only
\* for what it has found in the repository.
LEMMA WorkerKeepsReceipts ==
  ASSUME BacklogInv,
         \/ Midnight \/ CheckStatic \/ Restart \/ MaintenanceStep
         \/ \E d \in Dates : Commit(d)
  PROVE  WorkerHalf'
<1>0. WorkerHalf /\ worklist \cap Confirmed = {}
  BY TwoHalves DEF WorkerHalf, PinnedInv
<1>1. CASE Midnight
  <2>1. /\ today' = today + 1
        /\ UNCHANGED <<evidence, content, text, manifest, receipts, workerPc, worklist, troubles>>
    BY <1>1 DEF Midnight, built, maintenance
  <2>2. WorklistInv'
    BY <1>0, <2>1 DEF WorkerHalf, WorklistInv
  <2>3. PinnedInv'
    BY <1>0, <2>1, DatesStayPinned
  <2>4. QED
    BY <1>0, <2>1, <2>2, <2>3 DEF WorkerHalf
<1>2. CASE CheckStatic
  <2>1. /\ manifest' = [d \in Dates |-> IF manifest[d] = "current" THEN "stale"
                                                                 ELSE manifest[d]]
        /\ workerPc = "rest" /\ troubles' = troubles + 1
        /\ UNCHANGED <<today, evidence, content, text, receipts, workerPc, worklist>>
    BY <1>2 DEF CheckStatic, Fault, local, maintenance
  <2>2. WorklistInv'
    BY <2>1 DEF WorklistInv
  <2>3. PinnedInv'
    BY <1>0, <2>1, DatesStayPinned
  <2>4. QED
    BY <1>0, <2>1, <2>2, <2>3 DEF WorkerHalf
<1>3. CASE Restart
  <2>1. /\ workerPc' = "rest" /\ worklist' = {} /\ troubles' = troubles + 1
        /\ UNCHANGED <<today, evidence, content, text, manifest, receipts>>
    BY <1>3 DEF Restart, Fault, local, built
  <2>2. WorklistInv'
    BY <2>1 DEF WorklistInv
  <2>3. PinnedInv'
    BY <1>0, <2>1, DatesStayPinned
  <2>4. QED
    BY <1>0, <2>1, <2>2, <2>3 DEF WorkerHalf
<1>4. ASSUME NEW d \in Dates, Commit(d) PROVE WorkerHalf'
  <2>1. /\ evidence[d] = "staged"
        /\ evidence' = [evidence EXCEPT ![d] = "whole"]
        /\ content' = [content EXCEPT ![d] = content[d] + 1]
        /\ UNCHANGED <<today, text, manifest, receipts, workerPc, worklist, troubles>>
    BY <1>4 DEF Commit, built, maintenance
  <2>2. /\ evidence' \in [Dates -> Kinds] /\ content' \in [Dates -> Nat]
        /\ \A c \in Dates : evidence[c] = "whole" => evidence'[c] = "whole"
                                                     /\ content'[c] = content[c]
    BY <1>0, <2>1 DEF WorkerHalf, Kinds
  <2>3. WorklistInv'
    <3>1. CASE workerPc \in {"upload", "verify"}
      <4>1. Least(worklist) \in Dates /\ evidence[Least(worklist)] = "whole"
        BY <1>0, <3>1, LeastDate DEF WorkerHalf, WorklistInv
      <4>2. evidence'[Least(worklist)] = "whole"
        BY <2>2, <4>1
      <4>3. QED
        BY Zenon, <2>1, <4>2 DEF WorklistInv, Least
    <3>2. CASE workerPc \notin {"upload", "verify"}
      BY <2>1, <3>2 DEF WorklistInv
    <3>3. QED
      BY <3>1, <3>2
  <2>4. PinnedInv'
    <3>1. Confirmed' = Confirmed
      BY <2>1 DEF Confirmed
    <3>2. ASSUME NEW c \in Confirmed
          PROVE  CopyOf(receipts[c], c)' /\ evidence'[c] = "whole" /\ c \notin worklist
      <4>1. /\ CopyOf(receipts[c], c) /\ evidence[c] = "whole" /\ c \notin worklist
            /\ c \in Dates
        BY Zenon, <1>0 DEF WorkerHalf, PinnedInv, Confirmed
      <4>2. CopyOf(receipts[c], c)' = CopyOf(receipts[c], c)
        BY <2>1, <2>2, <4>1 DEF CopyOf
      <4>3. QED
        BY <2>2, <4>1, <4>2
    <3>3. QED
      BY <2>1, <3>1, <3>2 DEF PinnedInv
  <2>5. QED
    BY <1>0, <2>1, <2>2, <2>3, <2>4 DEF WorkerHalf
<1>5. CASE BuildLocalManifests
  <2> DEFINE dates == {d \in NewestOf(Pending, MaxPerRun) : manifest[d] = "none"}
  <2>1. /\ workerPc = "rest"
        /\ \/ Build(dates)
           \/ Fault /\ text' = text /\ \E failed \in SUBSET dates : NewManifest(dates \ failed)
        /\ UNCHANGED <<today, evidence, content, receipts, workerPc, worklist>>
    BY <1>5 DEF BuildLocalManifests, local, maintenance
  <2>2. dates \in SUBSET Dates /\ dates \cap Confirmed = {}
    BY DEF NewestOf, Pending, Completed
  <2> HIDE DEF dates
  <2>3. /\ text' \in [Dates -> Nat \X Sizes] /\ troubles' \in Nat
        /\ manifest' \in [Dates -> {"none", "stale", "current"}]
        /\ \A d \in Dates \ dates : text'[d] = text[d]
    <3>1. CASE Build(dates)
      BY <1>0, <2>2, <3>1, BuildStep
    <3>2. CASE Fault /\ text' = text /\ \E failed \in SUBSET dates : NewManifest(dates \ failed)
      BY <1>0, <3>2 DEF WorkerHalf, Fault, NewManifest
    <3>3. QED
      BY <2>1, <3>1, <3>2
  <2>4. WorklistInv'
    BY <2>1 DEF WorklistInv
  <2>5. PinnedInv'
    <3>1. \A d \in Confirmed : text'[d] = text[d]
      BY <2>2, <2>3 DEF Confirmed
    <3>2. QED
      BY <1>0, <2>1, <3>1, DatesStayPinned
  <2>6. QED
    BY <1>0, <2>1, <2>3, <2>4, <2>5 DEF WorkerHalf
<1>6. CASE BeginBacklog
  <2>1. /\ workerPc' = "backlog" /\ worklist' = Pending
        /\ UNCHANGED <<today, evidence, content, text, manifest, receipts, troubles>>
    BY <1>6 DEF BeginBacklog, local, built
  <2>2. Pending \subseteq Dates /\ Pending \cap Confirmed = {}
    BY DEF Pending, Completed
  <2>3. WorklistInv'
    BY <2>1 DEF WorklistInv
  <2>4. PinnedInv'
    BY <1>0, <2>1, <2>2, DatesStayPinned
  <2>5. QED
    BY <1>0, <2>1, <2>2, <2>3, <2>4 DEF WorkerHalf
<1>7. CASE Manifest
  <2> DEFINE d == Least(worklist)
  <2>1. /\ worklist # {} /\ workerPc = "backlog"
        /\ \/ LoadOrBuild(d) /\ evidence[d] = "whole"
              /\ workerPc' = "upload" /\ worklist' = worklist
           \/ LoadOrBuild(d) /\ workerPc' = workerPc /\ worklist' = worklist \ {d}
           \/ Fault /\ worklist' = worklist \ {d} /\ UNCHANGED <<text, manifest, workerPc>>
        /\ UNCHANGED <<today, evidence, content, receipts>>
    BY <1>7 DEF Manifest, local, built
  <2>2. d \in worklist /\ d \in Dates /\ {d} \cap Confirmed = {}
    BY <1>0, <2>1, LeastDate DEF WorkerHalf
  <2>3. WorklistInv'
    <3>1. CASE workerPc' = "upload" /\ worklist' = worklist /\ evidence[d] = "whole"
      BY <2>1, <3>1 DEF WorklistInv, Least, Min
    <3>2. CASE workerPc' = workerPc
      BY <2>1, <3>2 DEF WorklistInv
    <3>3. QED
      BY <2>1, <3>1, <3>2
  <2> HIDE DEF d
  <2>4. /\ text' \in [Dates -> Nat \X Sizes] /\ troubles' \in Nat
        /\ manifest' \in [Dates -> {"none", "stale", "current"}]
        /\ \A c \in Dates \ {d} : text'[c] = text[c]
    <3>1. CASE Build({d})
      BY <1>0, <2>2, <3>1, BuildStep
    <3>2. CASE UNCHANGED <<text, manifest>> /\ (Fault \/ UNCHANGED troubles)
      BY <1>0, <3>2 DEF WorkerHalf, Fault
    <3>3. QED
      BY <2>1, <3>1, <3>2 DEF LoadOrBuild, built
  <2>5. PinnedInv'
    <3>1. \A c \in Confirmed : text'[c] = text[c]
      BY <2>2, <2>4 DEF Confirmed
    <3>2. worklist' \cap Confirmed = {}
      BY <1>0, <2>1
    <3>3. QED
      BY <1>0, <2>1, <3>1, <3>2, DatesStayPinned
  <2>6. workerPc' \in {"backlog", "upload"} /\ worklist' \subseteq Dates
        /\ (workerPc' = "upload" => worklist' # {})
    BY <1>0, <2>1 DEF WorkerHalf
  <2>7. QED
    BY <1>0, <2>1, <2>3, <2>4, <2>5, <2>6 DEF WorkerHalf
<1>8. CASE StopAtLimit \/ EndBacklog \/ BackUpFails
  <2>1. /\ workerPc' \in {"rest", "backlog"} /\ worklist' = {}
        /\ UNCHANGED <<today, evidence, content, text, manifest, receipts, troubles>>
    BY <1>8 DEF StopAtLimit, EndBacklog, BackUpFails, local, built
  <2>2. WorklistInv'
    BY <2>1 DEF WorklistInv
  <2>3. PinnedInv'
    BY <1>0, <2>1, DatesStayPinned
  <2>4. QED
    BY <1>0, <2>1, <2>2, <2>3 DEF WorkerHalf
<1>9. CASE Upload
  <2>1. /\ workerPc = "upload" /\ workerPc' = "verify"
        /\ UNCHANGED <<today, evidence, content, text, manifest, receipts, worklist, troubles>>
    BY <1>9 DEF Upload, local, built
  <2>2. WorklistInv'
    BY <1>0, <2>1 DEF WorkerHalf, WorklistInv, Least, Min
  <2>3. PinnedInv'
    BY <1>0, <2>1, DatesStayPinned
  <2>4. QED
    BY <1>0, <2>1, <2>2, <2>3 DEF WorkerHalf
<1>10. CASE BackUp
  <2> DEFINE d == Least(worklist)
  <2>1. /\ workerPc = "verify" /\ workerPc' = "backlog" /\ worklist' = worklist \ {d}
        /\ CopyOf(remote[d], d) /\ receipts' = [receipts EXCEPT ![d] = remote[d]]
        /\ UNCHANGED <<today, evidence, content, text, manifest, troubles>>
    BY <1>10 DEF BackUp, local, built
  <2>2. d \in Dates /\ evidence[d] = "whole"
    BY <1>0, <2>1, LeastDate DEF WorkerHalf, WorklistInv
  <2> HIDE DEF d
  <2>3. /\ receipts' \in [Dates -> Copies] /\ receipts'[d] = remote[d]
        /\ \A c \in Dates : c # d => receipts'[c] = receipts[c]
    BY <1>0, <2>1, <2>2, TwoHalves DEF WorkerHalf, ToolHalf
  <2>4. WorklistInv'
    BY <2>1 DEF WorklistInv
  <2>5. PinnedInv'
    <3>1. ASSUME NEW c \in Dates, receipts'[c] # NoCopy
          PROVE  CopyOf(receipts[c], c)' /\ evidence'[c] = "whole" /\ c \notin worklist'
      <4>1. CASE c = d
        <5>1. CopyOf(receipts[c], c)'
          BY <2>1, <2>3, <4>1 DEF CopyOf
        <5>2. QED
          BY <2>1, <2>2, <4>1, <5>1
      <4>2. CASE c # d
        <5>1. receipts'[c] = receipts[c] /\ c \in Confirmed
          BY <2>3, <3>1, <4>2 DEF Confirmed
        <5>2. CopyOf(receipts[c], c) /\ evidence[c] = "whole" /\ c \notin worklist
          BY Zenon, <1>0, <5>1 DEF WorkerHalf, PinnedInv
        <5>3. CopyOf(receipts[c], c)'
          BY <2>1, <5>1, <5>2 DEF CopyOf
        <5>4. QED
          BY <2>1, <5>2, <5>3
      <4>3. QED
        BY <4>1, <4>2
    <3>2. QED
      BY <3>1 DEF PinnedInv, Confirmed
  <2>6. QED
    BY <1>0, <2>1, <2>3, <2>4, <2>5 DEF WorkerHalf
<1>11. QED
  BY <1>1, <1>2, <1>3, <1>4, <1>5, <1>6, <1>7, <1>8, <1>9, <1>10 DEF MaintenanceStep

\* Beside the tool, maintenance may upload a date that the tool has inventoried.
LEMMA WorkerKeepsClaims ==
  ASSUME BacklogInv,
         \/ Midnight \/ CheckStatic \/ Restart \/ MaintenanceStep
         \/ \E d \in Dates : Commit(d)
  PROVE  ToolHalf'
<1>0. WorkerHalf /\ ToolHalf
  BY TwoHalves
<1>1. ASSUME UNCHANGED <<tool, copies, confirmed>> PROVE ToolHalf'
  <2>1. DraftInv' /\ RemoteInv' /\ LegacyClaimsHeld'
    BY <1>0, <1>1 DEF ToolHalf, DraftInv, RemoteInv, LegacyClaimsHeld, Looks, tool, copies
  <2>2. QED
    BY <1>0, <1>1, <2>1 DEF ToolHalf, tool, copies
<1>2. ASSUME NEW d \in Dates, NEW copy \in Copies, Hold(d, copy),
             UNCHANGED <<tool, confirmed>>
      PROVE  ToolHalf'
  <2>1. /\ remote' \in [Dates -> Copies] /\ held' \subseteq Dates
        /\ RemoteInv' /\ LegacyClaimsHeld'
    BY <1>0, <1>2, UploadKeepsClaims DEF tool
  <2>2. DraftInv'
    BY <1>0, <1>2 DEF ToolHalf, DraftInv, tool
  <2>3. QED
    BY <1>0, <1>2, <2>1, <2>2 DEF ToolHalf, tool
<1>3. CASE Upload \/ (BackUpFails /\ workerPc = "upload" /\ ~UNCHANGED copies)
  <2> DEFINE d == Least(worklist)
  <2>1. /\ workerPc = "upload" /\ UNCHANGED <<tool, confirmed>>
        /\ \/ Hold(d, Onto(remote[d], LocalCopy(d)))
           \/ Hold(d, [remote[d] EXCEPT !.text = text[d]])
    BY <1>3 DEF Upload, BackUpFails
  <2>2. d \in Dates
    BY <1>0, <2>1, LeastDate DEF WorkerHalf
  <2> HIDE DEF d
  <2>3. LocalCopy(d) \in Copies /\ remote[d] \in Copies /\ LocalCopy(d).text = text[d]
    BY <1>0, <2>2, LocalCopies DEF ToolHalf, LocalCopy
  <2>4. /\ Onto(remote[d], LocalCopy(d)) \in Copies
        /\ [remote[d] EXCEPT !.text = text[d]] \in Copies
    BY <2>3, CopiesOntoCopies
  <2>5. QED
    BY <1>2, <2>1, <2>2, <2>4
<1>4. CASE BackUpFails /\ (workerPc # "upload" \/ UNCHANGED copies)
  BY <1>1, <1>4 DEF BackUpFails
<1>5. CASE \/ Midnight \/ CheckStatic \/ Restart \/ BuildLocalManifests \/ BeginBacklog
           \/ Manifest \/ StopAtLimit \/ EndBacklog \/ BackUp
           \/ \E d \in Dates : Commit(d)
  BY <1>1, <1>5 DEF Midnight, CheckStatic, Restart, BuildLocalManifests, BeginBacklog,
                    Manifest, StopAtLimit, EndBacklog, BackUp, Commit
<1>6. QED
  BY <1>3, <1>4, <1>5 DEF MaintenanceStep

\* The tool touches neither the dates nor the receipts.
LEMMA ToolKeepsReceipts ==
  ASSUME BacklogInv, ToolStep
  PROVE  WorkerHalf'
<1>0. WorkerHalf
  BY TwoHalves
<1>1. /\ UNCHANGED <<local, built, receipts, maintenance>>
      /\ troubles' = troubles \/ troubles' = troubles + 1
  BY DEF ToolStep, StartTool, Inventory, EndInventory, Copy, Send, Confirm, WriteInventory,
         ToolEnds, Fault
<1>2. UNCHANGED <<today, evidence, content, text, manifest, receipts, workerPc, worklist>>
  BY <1>1 DEF local, built, maintenance
<1>3. WorklistInv'
  BY <1>0, <1>2 DEF WorkerHalf, WorklistInv
<1>4. PinnedInv'
  <2>1. worklist \cap Confirmed = {}
    BY <1>0 DEF WorkerHalf, PinnedInv
  <2>2. QED
    BY <1>0, <1>2, <2>1, DatesStayPinned
<1>5. QED
  BY <1>0, <1>1, <1>2, <1>3, <1>4 DEF WorkerHalf

\* The tool confirms only what the repository holds when it looks.
LEMMA ToolKeepsClaims ==
  ASSUME BacklogInv, ToolStep
  PROVE  ToolHalf'
<1>0. WorkerHalf /\ ToolHalf
  BY TwoHalves
<1>1. CASE StartTool
  <2>1. /\ toolPc' = "inventory" /\ left' = Completed /\ draft' = {}
        /\ UNCHANGED <<hand, remote, held, confirmed>>
    BY <1>1 DEF StartTool, copies
  <2>2. Completed \subseteq Dates
    BY DEF Completed
  <2>3. DraftInv' /\ RemoteInv' /\ LegacyClaimsHeld'
    BY <1>0, <2>1 DEF ToolHalf, DraftInv, RemoteInv, LegacyClaimsHeld
  <2>4. QED
    BY <1>0, <2>1, <2>2, <2>3 DEF ToolHalf
<1>2. CASE Inventory
  <2> DEFINE d == Least(left)
             Entry(readable) == [date |-> d, version |-> content[d], size |-> text[d][2],
                                 complete |-> readable,
                                 matched |-> content[d] \in remote[d].data]
  <2>1. /\ toolPc = "inventory" /\ left # {} /\ left' = left \ {d}
        /\ \/ UNCHANGED <<draft, held>>
           \/ /\ held' = IF Looks(remote[d], content[d], text[d][2])
                           THEN held \cup {d} ELSE held
              /\ \E readable \in BOOLEAN : draft' = draft \cup {Entry(readable)}
        /\ UNCHANGED <<toolPc, hand, remote, confirmed>>
    BY <1>2 DEF Inventory
  <2>2. d \in Dates
    BY <1>0, <2>1, LeastDate DEF ToolHalf
  <2> HIDE DEF d
  <2>3. content[d] \in Nat /\ text[d][2] \in Nat
    BY <1>0, <2>2, LocalCopies, BacklogNumbers
  <2>4. (content[d] \in remote[d].data) \in BOOLEAN
    OBVIOUS
  <2>6. \A readable \in BOOLEAN :
          /\ Entry(readable) \in InventoryEntries /\ Entry(readable).date = d
          /\ Entry(readable).version = content[d] /\ Entry(readable).size = text[d][2]
    BY <2>2, <2>3, <2>4 DEF InventoryEntries
  <2> HIDE DEF Entry
  <2>7. /\ draft' \subseteq InventoryEntries /\ held \subseteq held' /\ held' \subseteq Dates
    BY <1>0, <2>1, <2>2, <2>6 DEF ToolHalf
  <2>8. RemoteInv'
    <3>1. ASSUME NEW e \in draft, Looks(remote[e.date], e.version, e.size)
          PROVE  e.date \in held'
      BY Zenon, <1>0, <2>7, <3>1 DEF ToolHalf, RemoteInv
    <3>2. CASE UNCHANGED <<draft, held>>
      BY <1>0, <2>1, <3>2 DEF ToolHalf, RemoteInv, Looks
    <3>3. CASE /\ held' = IF Looks(remote[d], content[d], text[d][2])
                            THEN held \cup {d} ELSE held
               /\ \E readable \in BOOLEAN : draft' = draft \cup {Entry(readable)}
      <4>1. PICK readable \in BOOLEAN : draft' = draft \cup {Entry(readable)}
        BY <3>3
      <4>2. ASSUME NEW e \in draft', Looks(remote[e.date], e.version, e.size)
            PROVE  e.date \in held'
        <5>1. CASE e \in draft
          BY <3>1, <4>2, <5>1
        <5>2. CASE e = Entry(readable)
          <6>1. Looks(remote[d], content[d], text[d][2]) /\ e.date = d
            BY Zenon, <2>6, <4>2, <5>2
          <6>2. QED
            BY <3>3, <6>1
        <5>3. QED
          BY <4>1, <5>1, <5>2
      <4>3. remote' = remote
        BY <2>1
      <4>4. QED
        BY Zenon, <4>2, <4>3 DEF RemoteInv, Looks
    <3>4. QED
      BY <2>1, <3>2, <3>3
  <2>9. DraftInv' /\ LegacyClaimsHeld'
    BY <1>0, <2>1, <2>7 DEF ToolHalf, DraftInv, LegacyClaimsHeld
  <2>10. QED
    BY <1>0, <2>1, <2>7, <2>8, <2>9 DEF ToolHalf
<1>3. CASE EndInventory
  <2>1. CASE /\ toolPc' = "copy" /\ left' = {e.date : e \in draft}
             /\ UNCHANGED <<draft, confirmed, held, hand, remote>>
    <3>1. left' \subseteq Dates
      BY <1>0, <2>1 DEF ToolHalf, InventoryEntries
    <3>2. DraftInv' /\ RemoteInv' /\ LegacyClaimsHeld'
      BY <1>0, <2>1 DEF ToolHalf, DraftInv, RemoteInv, LegacyClaimsHeld, Looks
    <3>3. QED
      BY <1>0, <2>1, <3>1, <3>2 DEF ToolHalf
  <2>2. CASE toolPc' = "idle" /\ EndReport /\ UNCHANGED <<left, hand, remote>>
    <3>1. DraftInv' /\ RemoteInv' /\ LegacyClaimsHeld'
      BY <2>2 DEF EndReport, DraftInv, RemoteInv, LegacyClaimsHeld
    <3>2. QED
      BY <1>0, <2>2, <3>1 DEF ToolHalf, EndReport
  <2>3. QED
    BY <1>3, <2>1, <2>2 DEF EndInventory, report
<1>4. CASE Copy
  <2> DEFINE d == Least(left)
  <2>1. /\ toolPc = "copy" /\ left # {}
        /\ \/ /\ hand' = [LocalCopy(d) EXCEPT
                            !.data = IF EntryOf(d).matched THEN {} ELSE LocalCopy(d).data]
              /\ toolPc' = "send" /\ left' = left
           \/ left' = left \ {d} /\ UNCHANGED <<toolPc, hand>>
        /\ UNCHANGED <<draft, remote, held, confirmed>>
    BY <1>4 DEF Copy, copies
  <2>2. d \in Dates
    BY <1>0, <2>1, LeastDate DEF ToolHalf
  <2> HIDE DEF d
  <2>3. hand' \in Copies
    <3>1. LocalCopy(d) \in Copies
      BY <1>0, <2>2, LocalCopies
    <3>2. \A data \in SUBSET Nat : [LocalCopy(d) EXCEPT !.data = data] \in Copies
      BY <3>1 DEF Copies
    <3>3. {} \in SUBSET Nat /\ LocalCopy(d).data \in SUBSET Nat
      BY <3>1 DEF Copies
    <3>4. hand \in Copies
      BY <1>0 DEF ToolHalf
    <3>5. QED
      BY <2>1, <3>2, <3>3, <3>4
  <2>4. DraftInv' /\ RemoteInv' /\ LegacyClaimsHeld'
    BY <1>0, <2>1 DEF ToolHalf, DraftInv, RemoteInv, LegacyClaimsHeld, Looks
  <2>5. QED
    BY <1>0, <2>1, <2>3, <2>4 DEF ToolHalf
<1>5. CASE Send
  <2> DEFINE d == Least(left)
             sent == Onto(remote[d], hand)
  <2>1. /\ toolPc = "send" /\ hand' = NoCopy
        /\ \/ toolPc' = "confirm" /\ left' = left
           \/ toolPc' = "copy" /\ left' = left \ {d}
        /\ \/ UNCHANGED copies
           \/ Hold(d, [remote[d] EXCEPT !.text = sent.text])
           \/ Hold(d, [remote[d] EXCEPT !.data = sent.data])
           \/ Hold(d, sent)
        /\ UNCHANGED <<draft, confirmed>>
    BY <1>5 DEF Send
  <2>2. d \in Dates /\ left # {}
    BY <1>0, <2>1, LeastDate DEF ToolHalf
  <2> HIDE DEF d
  <2>3. /\ sent \in Copies /\ NoCopy \in Copies
        /\ [remote[d] EXCEPT !.text = sent.text] \in Copies
        /\ [remote[d] EXCEPT !.data = sent.data] \in Copies
    <3>1. hand \in Copies /\ remote[d] \in Copies
      BY <1>0, <2>2 DEF ToolHalf
    <3>2. sent.text = hand.text /\ sent.data = remote[d].data \cup hand.data
      BY DEF Onto
    <3>3. NoCopy \in Copies
      BY DEF Copies, NoCopy
    <3> HIDE DEF sent
    <3>4. QED
      BY <3>1, <3>2, <3>3, CopiesOntoCopies DEF sent
  <2> HIDE DEF sent
  <2>4. /\ remote' \in [Dates -> Copies] /\ held' \subseteq Dates
        /\ RemoteInv' /\ LegacyClaimsHeld'
    <3>1. CASE UNCHANGED copies
      BY <1>0, <2>1, <3>1 DEF ToolHalf, RemoteInv, LegacyClaimsHeld, Looks, copies
    <3>2. CASE ~UNCHANGED copies
      BY <1>0, <2>1, <2>2, <2>3, <3>2, UploadKeepsClaims
    <3>3. QED
      BY <3>1, <3>2
  <2>5. DraftInv'
    BY <1>0, <2>1 DEF ToolHalf, DraftInv
  <2>6. QED
    BY <1>0, <2>1, <2>2, <2>3, <2>4, <2>5 DEF ToolHalf
<1>6. CASE Confirm
  <2> DEFINE d == Least(left)
  <2>1. /\ toolPc = "confirm" /\ toolPc' = "copy" /\ left' = left \ {d}
        /\ \/ confirmed' = confirmed
           \/ /\ Looks(remote[d], EntryOf(d).version, EntryOf(d).size)
              /\ confirmed' = confirmed \cup {d}
        /\ UNCHANGED <<draft, hand, remote, held>>
    BY <1>6 DEF Confirm, copies
  <2>2. d \in left /\ d \in Dates
    BY <1>0, <2>1, LeastDate DEF ToolHalf
  <2> HIDE DEF d
  <2>3. EntryOf(d) \in draft /\ EntryOf(d).date = d
    <3>1. \E e \in draft : e.date = d
      BY <1>0, <2>1, <2>2 DEF ToolHalf, DraftInv
    <3>2. QED
      BY Zenon, <3>1 DEF EntryOf
  <2>4. Looks(remote[d], EntryOf(d).version, EntryOf(d).size) => d \in held
    BY Zenon, <1>0, <2>3 DEF ToolHalf, RemoteInv
  <2>5. LegacyClaimsHeld'
    BY <1>0, <2>1, <2>4 DEF ToolHalf, LegacyClaimsHeld
  <2>6. DraftInv' /\ RemoteInv'
    BY <1>0, <2>1 DEF ToolHalf, DraftInv, RemoteInv, Looks
  <2>7. QED
    BY <1>0, <2>1, <2>2, <2>5, <2>6 DEF ToolHalf
<1>7. CASE WriteInventory \/ ToolEnds
  <2>1. /\ toolPc' = "idle" /\ EndReport /\ left' \subseteq left
        /\ hand' = hand \/ hand' = NoCopy
        /\ remote' = remote
    BY <1>7 DEF WriteInventory, ToolEnds
  <2>2. NoCopy \in Copies
    BY DEF NoCopy, Copies
  <2>3. DraftInv' /\ RemoteInv' /\ LegacyClaimsHeld'
    BY <2>1 DEF EndReport, DraftInv, RemoteInv, LegacyClaimsHeld
  <2>4. QED
    BY <1>0, <2>1, <2>2, <2>3 DEF ToolHalf, EndReport
<1>8. QED
  BY <1>1, <1>2, <1>3, <1>4, <1>5, <1>6, <1>7 DEF ToolStep

\* The inductive invariant of the worklist, the receipts, the repository and the tool.
THEOREM BacklogInvariant == BacklogSpec => []BacklogInv
<1>1. BacklogInit => BacklogInv
  <2> SUFFICES ASSUME BacklogInit PROVE BacklogInv
    OBVIOUS
  <2>1. <<0, CHOOSE size \in Sizes : TRUE>> \in Nat \X Sizes
    <3>1. (CHOOSE size \in Sizes : TRUE) \in Sizes
      BY Zenon, BacklogNumbers
    <3>2. QED
      BY <3>1
  <2>2. NoCopy \in Copies
    BY DEF NoCopy, Copies
  <2>3. WorkerHalf
    <3>1. Confirmed = {} /\ WorklistInv
      BY DEF BacklogInit, Confirmed, WorklistInv
    <3>2. QED
      BY <2>1, <2>2, <3>1 DEF BacklogInit, WorkerHalf, PinnedInv
  <2>4. ToolHalf
    BY <2>2 DEF BacklogInit, ToolHalf, DraftInv, RemoteInv, LegacyClaimsHeld
  <2>5. QED
    BY <2>3, <2>4, TwoHalves
<1>2. BacklogInv /\ [BacklogNext]_backlogVars => BacklogInv'
  <2> SUFFICES ASSUME BacklogInv, [BacklogNext]_backlogVars PROVE BacklogInv'
    OBVIOUS
  <2>1. CASE BacklogNext
    <3>1. WorkerHalf' /\ ToolHalf'
      BY <2>1, WorkerKeepsReceipts, WorkerKeepsClaims, ToolKeepsReceipts, ToolKeepsClaims
      DEF BacklogNext
    <3>2. QED
      BY <3>1, TwoHalves, PTL
  <2>2. CASE UNCHANGED backlogVars
    BY <2>2 DEF BacklogInv, BacklogTypeOK, WorklistInv, PinnedInv, DraftInv, RemoteInv,
                LegacyClaimsHeld, Confirmed, CopyOf, Looks, backlogVars, local, built,
                maintenance, tool, copies
  <2>3. QED
    BY <2>1, <2>2
<1>3. QED
  BY <1>1, <1>2, PTL DEF BacklogSpec

\* What migrate_legacy.py writes into a receipt as confirmed, the repository has held at
\* one moment, as far as it is asked: whatever either process uploads beside or after
\* the tool's inventory, whichever uploads fail, wherever the tool dies.
THEOREM ConfirmedWasHeld == BacklogSpec => []LegacyClaimsHeld
<1>1. BacklogInv => LegacyClaimsHeld
  BY DEF BacklogInv
<1>2. QED
  BY <1>1, BacklogInvariant, PTL

\* The revision that a v2 receipt of backup.py names holds the date as it is on disk
\* from then on: no commit, rebuilt manifest or upload of the tool comes between the
\* upload and the receipt unnoticed, or after it.
THEOREM ReceiptsStayPinned == BacklogSpec => []ReceiptsPinned
<1>1. BacklogInv => ReceiptsPinned
  BY DEF BacklogInv, PinnedInv, ReceiptsPinned
<1>2. QED
  BY <1>1, BacklogInvariant, PTL

================================================================================

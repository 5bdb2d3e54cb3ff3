--------------------------- MODULE Ingestion_proofs ---------------------------
(***************************************************************************)
(* Proofs about what process_result keeps of a response: RawLog, for every *)
(* number of responses, failed calls and deaths of the process or the      *)
(* machine, and ChangeTracker, for all fields, tolerances and clocks and   *)
(* polls of any length.                                                    *)
(***************************************************************************)
EXTENDS RawLog, ChangeTracker, SequenceTheorems, WellFoundedInduction, TLAPS

--------------------------------------------------------------------------------
(* The inductive invariant of RawLog *)

\* The file is whole records, with at most one torn piece behind them, and that
\* one only while the log is suspect or under repair: nobody writes behind it. The
\* checkpoint lies between two records.
ShapeInv ==
  /\ \A i \in 2..Len(log) : i % 2 = 0 => /\ log[i - 1] = <<log[i][1], "first">>
                                        /\ log[i] = <<log[i][1], "rest">>
  /\ pc \in {"write", "fsync", "checkpoint", "bless"} => Len(log) % 2 = 0
  /\ pc = "idle" /\ ~suspect => Len(log) % 2 = 0
  /\ checkpoint % 2 = 0

\* The record being appended is the last of the file; one whose append returned lies
\* in the part that an fsync has made durable.
AckInv ==
  /\ appending \/ pc \in {"write", "fsync", "checkpoint"} => poll \in 1..MaxPolls
  /\ pc \in {"fsync", "checkpoint"} => Len(log) >= 2 /\ log[Len(log)][1] = poll
  /\ pc = "checkpoint" => synced = Len(log)
  /\ \A p \in acked : \E n \in 1..synced : n % 2 = 0 /\ log[n][1] = p

\* From the copy to the truncation the log stands still: what is copied, and what is
\* durable then, is what is cut off.
TailInv ==
  /\ pc = "sync" => sidecar = SubSeq(log, Valid + 1, Len(log))
  /\ pc = "truncate" => Contents(SubSeq(log, Valid + 1, Len(log))) \subseteq forensic

\* What the exporter has seen is no further than the checkpoint, and the checkpoint
\* no further than the file, unless a power loss took the bytes.
ExporterInv ==
  /\ offset % 2 = 0
  /\ end # -1 => end % 2 = 0
  /\ ~outrun => /\ checkpoint <= Len(log)
                /\ end <= checkpoint /\ offset <= checkpoint
                /\ frame # 0 => offset >= 2 /\ log[offset][1] = frame

IInv == TypeOK /\ ShapeInv /\ AckInv /\ TailInv /\ TailsPreserved /\ ExporterInv

--------------------------------------------------------------------------------
(* The inductive invariant of ChangeTracker *)

\* What a process remembers is what is staged of that day.
MemoryInv ==
  \A k \in DOMAIN last : k \in DOMAIN staged[day] /\ staged[day][k] = last[k]

TrackerInv == TrackerTypeOK /\ MemoryInv /\ NoDrift

----------------------------------------------------------------------------
\* Records lie at even offsets.

\* Two even offsets are a multiple of two apart.
LEMMA EvenApart ==
  \A m, n \in Int : m % 2 = 0 => ((n - m) % 2 = 0 <=> n % 2 = 0)
OBVIOUS

\* An offset is even or follows an even one.
LEMMA Parity ==
  \A n \in Nat : \/ n % 2 = 0
                 \/ n # 0 /\ n - 1 \in Nat /\ (n - 1) % 2 = 0
OBVIOUS

\* Between two even offsets there are at least two pieces.
LEMMA EvenStep ==
  \A m, n \in Int : m % 2 = 0 /\ n % 2 = 0 /\ m < n => m + 2 <= n
OBVIOUS

\* A pair of pieces is a record if the first piece of a response precedes the rest
\* of it.
LEMMA PairIsRecord ==
  ASSUME NEW s \in Seq(Pieces), NEW i \in 2..Len(s),
         s[i - 1] = <<s[i][1], "first">>, s[i] = <<s[i][1], "rest">>
  PROVE  SubSeq(s, i - 1, i) = Record(s[i][1])
<1>1. i - 1 \in 1..Len(s) + 1 /\ i \in i - 2..Len(s) /\ i \in Nat /\ Len(s) \in Nat
  BY LenProperties
<1>2. /\ SubSeq(s, i - 1, i) \in Seq(Pieces)
      /\ Len(SubSeq(s, i - 1, i)) = 2
      /\ \A j \in 1..2 : SubSeq(s, i - 1, i)[j] = s[i - 1 + j - 1]
  BY <1>1, SubSeqProperties
<1>3. SubSeq(s, i - 1, i)[1] = s[i - 1] /\ SubSeq(s, i - 1, i)[2] = s[i]
  <2>1. 1 \in 1..2 /\ 2 \in 1..2 /\ i - 1 + 1 - 1 = i - 1 /\ i - 1 + 2 - 1 = i
    BY <1>1
  <2>2. QED
    BY Zenon, <1>2, <2>1
<1>4. Len(Record(s[i][1])) = 2 /\ Record(s[i][1]) \in Seq(Pieces)
  BY SMTT(60) DEF Record
<1>5. \A j \in 1..2 : SubSeq(s, i - 1, i)[j] = Record(s[i][1])[j]
  <2>1. Record(s[i][1])[1] = s[i - 1] /\ Record(s[i][1])[2] = s[i]
    BY DEF Record
  <2>2. \A j \in 1..2 : j = 1 \/ j = 2
    OBVIOUS
  <2>3. QED
    BY Zenon, <1>3, <2>1, <2>2
<1>6. QED
  BY <1>2, <1>4, <1>5, SeqEqual

\* A scan of iter_records that starts between two records finds every record behind
\* it, and stops at a torn piece.
LEMMA ReadableRecords ==
  ASSUME TypeOK, ShapeInv, NEW from \in Nat, from % 2 = 0
  PROVE  Readable(from) = {n \in from + 2 .. Len(log) : n % 2 = 0}
<1>1. log \in Seq(Pieces) /\ Len(log) \in Nat
  BY LenProperties DEF TypeOK
<1>2. ASSUME NEW i \in from + 2 .. Len(log), (i - from) % 2 = 0
      PROVE  SubSeq(log, i - 1, i) = Record(log[i][1])
  <2>1. i \in 2..Len(log) /\ i % 2 = 0
    BY <1>1, <1>2, EvenApart
  <2>2. QED
    BY <1>1, <2>1, PairIsRecord DEF ShapeInv
<1>3. \A n \in from + 2 .. Len(log) : (n - from) % 2 = 0 <=> n % 2 = 0
  BY <1>1, EvenApart
<1>4. \A n \in from + 2 .. Len(log) : \A i \in from + 2 .. n : i \in from + 2 .. Len(log)
  BY <1>1
<1>5. QED
  BY <1>2, <1>3, <1>4 DEF Readable

\* The valid part of the file is all of it but a torn piece; a checkpoint the file
\* still reaches lies within.
LEMMA ValidPart ==
  ASSUME TypeOK, ShapeInv
  PROVE  /\ Valid \in 0..Len(log) /\ Valid % 2 = 0 /\ Valid >= Len(log) - 1
         /\ Len(log) % 2 = 0 => Valid = Len(log)
         /\ \A n \in 0..Len(log) : n % 2 = 0 => n <= Valid
<1>1. Len(log) \in Nat /\ checkpoint \in Nat /\ checkpoint % 2 = 0
  BY LenProperties DEF TypeOK, ShapeInv
<1>2. ScanStart \in 0..Len(log) /\ ScanStart % 2 = 0
  BY <1>1 DEF ScanStart
<1>3. Readable(ScanStart) = {n \in ScanStart + 2 .. Len(log) : n % 2 = 0}
  BY <1>2, ReadableRecords
<1> DEFINE S == {ScanStart} \cup Readable(ScanStart)
<1>4. \A n \in S : n \in ScanStart..Len(log) /\ n % 2 = 0
  BY <1>1, <1>2, <1>3
<1>5. PICK top \in 0..Len(log) : top % 2 = 0 /\ top >= Len(log) - 1
  <2>1. CASE Len(log) % 2 = 0
    BY <1>1, <2>1
  <2>2. CASE Len(log) # 0 /\ Len(log) - 1 \in Nat /\ (Len(log) - 1) % 2 = 0
    BY <1>1, <2>2
  <2>3. QED
    BY <1>1, <2>1, <2>2, Parity
<1>6. \A n \in 0..Len(log) : n % 2 = 0 => n <= top
  BY <1>1, <1>5, EvenStep
<1>7. top \in S
  <2>1. ScanStart <= top
    BY <1>2, <1>6
  <2>2. ScanStart = top \/ ScanStart + 2 <= top
    BY <1>1, <1>2, <1>5, <2>1, EvenStep
  <2>3. QED
    BY <1>1, <1>2, <1>3, <1>5, <2>2
<1>8. \A n \in S : top >= n
  BY <1>1, <1>2, <1>4, <1>6
<1>9. Valid \in S /\ \A n \in S : Valid >= n
  BY <1>7, <1>8 DEF Valid, Max
<1> HIDE DEF S
<1>10. Valid = top
  BY <1>1, <1>2, <1>4, <1>5, <1>7, <1>8, <1>9
<1>11. QED
  BY <1>1, <1>5, <1>6, <1>10

----------------------------------------------------------------------------
\* What the calls do to the file.

\* What remains of the file up to an offset is the same pieces.
LEMMA PrefixOfLog ==
  ASSUME log \in Seq(Pieces), NEW n \in 0..Len(log)
  PROVE  /\ SubSeq(log, 1, n) \in Seq(Pieces)
         /\ Len(SubSeq(log, 1, n)) = n
         /\ \A i \in 1..n : SubSeq(log, 1, n)[i] = log[i]
<1>1. Len(log) \in Nat /\ \A i \in 1..n : log[i] \in Pieces
  BY LenProperties
<1>2. /\ SubSeq(log, 1, n) \in Seq(Pieces)
      /\ Len(SubSeq(log, 1, n)) = IF 1 <= n THEN n - 1 + 1 ELSE 0
      /\ \A i \in 1..n - 1 + 1 : SubSeq(log, 1, n)[i] = log[1 + i - 1]
  BY <1>1, SubSeqProperties
<1>3. QED
  BY <1>1, <1>2

\* A record lies behind all that was in the file.
LEMMA WrittenRecord ==
  ASSUME log \in Seq(Pieces), NEW p \in 1..MaxPolls
  PROVE  /\ log \o Record(p) \in Seq(Pieces)
         /\ Len(log \o Record(p)) = Len(log) + 2
         /\ \A i \in 1..Len(log) : (log \o Record(p))[i] = log[i]
         /\ (log \o Record(p))[Len(log) + 1] = <<p, "first">>
         /\ (log \o Record(p))[Len(log) + 2] = <<p, "rest">>
<1>1. Len(log) \in Nat
  BY LenProperties
<1>2. /\ Record(p) \in Seq(Pieces) /\ Len(Record(p)) = 2
      /\ Record(p)[1] = <<p, "first">> /\ Record(p)[2] = <<p, "rest">>
  BY DEF Record, Pieces
<1>3. /\ log \o Record(p) \in Seq(Pieces)
      /\ Len(log \o Record(p)) = Len(log) + Len(Record(p))
      /\ \A i \in 1..Len(log) + Len(Record(p)) : (log \o Record(p))[i] =
           IF i <= Len(log) THEN log[i] ELSE Record(p)[i - Len(log)]
  BY <1>2, ConcatProperties, Zenon
<1>4. QED
  BY <1>1, <1>2, <1>3

\* So does a torn piece.
LEMMA WrittenTorn ==
  ASSUME log \in Seq(Pieces), NEW p \in 1..MaxPolls
  PROVE  /\ log \o Torn(p) \in Seq(Pieces)
         /\ Len(log \o Torn(p)) = Len(log) + 1
         /\ \A i \in 1..Len(log) : (log \o Torn(p))[i] = log[i]
<1>1. Len(log) \in Nat
  BY LenProperties
<1>2. Torn(p) \in Seq(Pieces) /\ Len(Torn(p)) = 1
  BY DEF Torn, Pieces
<1>3. /\ log \o Torn(p) \in Seq(Pieces)
      /\ Len(log \o Torn(p)) = Len(log) + Len(Torn(p))
      /\ \A i \in 1..Len(log) + Len(Torn(p)) : (log \o Torn(p))[i] =
           IF i <= Len(log) THEN log[i] ELSE Torn(p)[i - Len(log)]
  BY <1>2, ConcatProperties, Zenon
<1>4. QED
  BY <1>1, <1>2, <1>3

\* An interrupted call leaves the file as it was, or a torn piece behind it; if it is
\* one that ends with the checkpoint, that may have been written.
LEMMA InterruptedCall ==
  ASSUME IInv, Interrupted
  PROVE  /\ log' \in Seq(Pieces)
         /\ \A i \in 1..Len(log) : log'[i] = log[i]
         /\ \/ log' = log
            \/ Len(log') = Len(log) + 1 /\ Len(log) % 2 = 0
         /\ \/ checkpoint' = checkpoint
            \/ log' = log /\ checkpoint' = Len(log) /\ Len(log) % 2 = 0
<1>1. log \in Seq(Pieces) /\ Len(log) \in Nat
  BY LenProperties DEF IInv, TypeOK
<1>2. CASE log' \in {log} \cup (IF pc = "write" THEN {log \o Torn(poll)} ELSE {})
           /\ UNCHANGED checkpoint
  <2>1. CASE log' = log
    BY <1>1, <1>2, <2>1
  <2>2. CASE pc = "write" /\ log' = log \o Torn(poll)
    <3>1. poll \in 1..MaxPolls /\ Len(log) % 2 = 0
      BY <2>2 DEF IInv, AckInv, ShapeInv
    <3>2. QED
      BY <1>1, <1>2, <2>2, <3>1, WrittenTorn
  <2>3. QED
    BY <1>2, <2>1, <2>2
<1>3. CASE pc \in {"checkpoint", "bless"} /\ checkpoint' = Len(log) /\ UNCHANGED log
  BY <1>1, <1>3 DEF IInv, ShapeInv
<1>4. QED
  BY <1>2, <1>3 DEF Interrupted

----------------------------------------------------------------------------
\* The steps, one part of the inductive invariant after the other.

\* Every call keeps the types.
LEMMA NextTyped == IInv /\ [Next]_vars => TypeOK'
<1> SUFFICES ASSUME IInv, [Next]_vars PROVE TypeOK'
  OBVIOUS
<1>0. TypeOK /\ log \in Seq(Pieces) /\ Len(log) \in Nat /\ synced \in 0..Len(log)
  BY LenProperties DEF IInv, TypeOK
<1>1. CASE Attempt
  BY <1>0, <1>1 DEF Attempt, file, exporter, TypeOK
<1>2. CASE Write
  <2>1. poll \in 1..MaxPolls
    BY <1>2 DEF Write, IInv, AckInv
  <2>2. log' \in Seq(Pieces) /\ Len(log') = Len(log) + 2
    BY <1>0, <1>2, <2>1, WrittenRecord DEF Write
  <2>3. synced' \in 0..Len(log')
    BY <1>0, <1>2, <2>2 DEF Write
  <2>4. QED
    BY <1>0, <1>2, <2>2, <2>3 DEF Write, exporter, TypeOK
<1>3. CASE Fsync
  BY <1>0, <1>3 DEF Fsync, exporter, TypeOK
<1>4. CASE WriteCheckpoint
  <2>1. poll \in 1..MaxPolls
    BY <1>4 DEF WriteCheckpoint, IInv, AckInv
  <2>2. QED
    BY <1>0, <1>4, <2>1 DEF WriteCheckpoint, exporter, TypeOK
<1>5. ASSUME Interrupted, synced' = synced
      PROVE  log' \in Seq(Pieces) /\ synced' \in 0..Len(log') /\ checkpoint' \in Nat
  BY <1>0, <1>5, InterruptedCall DEF TypeOK
<1>6. CASE Raise
  <2>1. log' \in Seq(Pieces) /\ synced' \in 0..Len(log') /\ checkpoint' \in Nat
    BY <1>5, <1>6 DEF Raise
  <2>2. sidecar' \in Seq(Pieces) /\ faults' \in 0..MaxFaults
    BY <1>0, <1>6, BoundsAssumption DEF Raise, TypeOK
  <2>3. QED
    BY <1>0, <1>6, <2>1, <2>2 DEF Raise, exporter, TypeOK
<1>7. CASE Scan
  BY <1>0, <1>7 DEF Scan, EndRepair, file, exporter, TypeOK
<1>8. /\ Valid \in 0..Len(log)
      /\ SubSeq(log, Valid + 1, Len(log)) \in Seq(Pieces)
      /\ Contents(SubSeq(log, Valid + 1, Len(log))) \subseteq Pieces
  <2>1. Valid \in 0..Len(log)
    BY ValidPart DEF IInv
  <2>2. \A i \in Valid + 1 .. Len(log) : log[i] \in Pieces
    BY <1>0, <2>1
  <2>3. SubSeq(log, Valid + 1, Len(log)) \in Seq(Pieces)
    BY <1>0, <2>1, <2>2, SubSeqProperties
  <2>4. QED
    BY <2>1, <2>3 DEF Contents
<1>9. CASE Copy
  BY <1>0, <1>8, <1>9 DEF Copy, file, exporter, TypeOK
<1>10. CASE SyncDirectory
  <2>1. Contents(sidecar) \subseteq Pieces
    BY <1>0 DEF Contents, TypeOK
  <2>2. QED
    BY <1>0, <1>10, <2>1 DEF SyncDirectory, file, exporter, TypeOK
<1>11. CASE Truncate
  <2>1. log' \in Seq(Pieces) /\ synced' \in 0..Len(log')
    BY <1>0, <1>8, <1>11, PrefixOfLog DEF Truncate
  <2>2. cut' \subseteq Pieces
    BY <1>0, <1>8, <1>11 DEF Truncate, TypeOK
  <2>3. QED
    BY <1>0, <1>11, <2>1, <2>2 DEF Truncate, exporter, TypeOK
<1>12. CASE Bless
  BY <1>0, <1>12 DEF Bless, EndRepair, exporter, TypeOK
<1>13. ASSUME Restarting
       PROVE  /\ sidecar' \in Seq(Pieces) /\ pc' = "repair" /\ appending' = FALSE
              /\ suspect' = FALSE /\ crashes' \in 0..MaxCrashes
  BY <1>0, <1>13, BoundsAssumption DEF Restarting, TypeOK
<1>14. CASE Kill
  <2>1. log' \in Seq(Pieces) /\ synced' \in 0..Len(log') /\ checkpoint' \in Nat
    BY <1>5, <1>14 DEF Kill
  <2>2. QED
    BY <1>0, <1>13, <1>14, <2>1 DEF Kill, exporter, TypeOK
<1>15. CASE PowerLoss
  <2>1. PICK n \in synced..Len(log) : log' = SubSeq(log, 1, n)
    BY <1>15 DEF PowerLoss
  <2>2. log' \in Seq(Pieces) /\ Len(log') = n /\ n \in Nat
    BY <1>0, <2>1, PrefixOfLog
  <2>3. synced' \in 0..Len(log')
    BY <1>15, <2>2 DEF PowerLoss
  <2>4. outrun' \in BOOLEAN
    BY Zenon, <1>15, <1>0 DEF PowerLoss, TypeOK
  <2>5. end' = -1 /\ offset' = 0 /\ frame' = 0
    BY <1>15 DEF PowerLoss
  <2>6. QED
    BY <1>0, <1>13, <1>15, <2>2, <2>3, <2>4, <2>5, BoundsAssumption DEF PowerLoss, TypeOK
<1>16. CASE ReadCheckpoint
  BY <1>0, <1>16 DEF ReadCheckpoint, file, TypeOK
<1>17. CASE ReadFrames
  <2>1. offset' \in Nat /\ frame' \in 0..MaxPolls
    <3>1. \A n \in 1..Len(log) : log[n][1] \in 1..MaxPolls
      BY <1>0 DEF Pieces
    <3>2. CASE offset' = end /\ frame' = log[end][1] /\ end \in Readable(IF end < offset THEN 0 ELSE offset)
      <4>1. end \in 1..Len(log)
        BY <1>0, <3>2 DEF Readable, TypeOK
      <4>2. QED
        BY <3>1, <3>2, <4>1
    <3>3. CASE ~(offset' = end /\ frame' = log[end][1] /\ end \in Readable(IF end < offset THEN 0 ELSE offset))
      BY <1>0, <1>17, <3>3, BoundsAssumption DEF ReadFrames, TypeOK
    <3>4. QED
      BY <3>2, <3>3
  <2>2. QED
    BY <1>0, <1>17, <2>1 DEF ReadFrames, file, TypeOK
<1>18. CASE UNCHANGED vars
  BY <1>0, <1>18 DEF vars, file, exporter, TypeOK
<1>19. QED
  BY <1>1, <1>2, <1>3, <1>4, <1>6, <1>7, <1>9, <1>10, <1>11, <1>12, <1>14, <1>15, <1>16,
     <1>17, <1>18
  DEF Next, Collector

\* Nobody writes behind a torn piece: a call that leaves one makes the log suspect,
\* a death brings the repair, and the repair ends with a whole file.
LEMMA NextShaped == IInv /\ [Next]_vars => ShapeInv'
<1> SUFFICES ASSUME IInv, [Next]_vars PROVE ShapeInv'
  OBVIOUS
<1> DEFINE Pairs == \A i \in 2..Len(log) : i % 2 = 0 => /\ log[i - 1] = <<log[i][1], "first">>
                                                       /\ log[i] = <<log[i][1], "rest">>
<1>0. /\ log \in Seq(Pieces) /\ Len(log) \in Nat /\ checkpoint \in Nat
      /\ Pairs /\ checkpoint % 2 = 0
  BY LenProperties DEF IInv, TypeOK, ShapeInv
<1>1. ASSUME Len(log') \in 0..Len(log) \/ (Len(log') = Len(log) + 1 /\ Len(log) % 2 = 0),
             \A i \in 1..Len(log) : i <= Len(log') => log'[i] = log[i]
      PROVE  Pairs'
  <2> SUFFICES ASSUME NEW i \in 2..Len(log'), i % 2 = 0
               PROVE  log'[i - 1] = <<log'[i][1], "first">> /\ log'[i] = <<log'[i][1], "rest">>
    OBVIOUS
  <2>1. i \in 2..Len(log)
    <3>1. CASE Len(log') \in 0..Len(log)
      BY <1>0, <3>1
    <3>2. CASE Len(log') = Len(log) + 1 /\ Len(log) % 2 = 0
      BY <1>0, <3>2, EvenStep
    <3>3. QED
      BY <1>1, <3>1, <3>2
  <2>2. log'[i - 1] = log[i - 1] /\ log'[i] = log[i]
    BY <1>0, <1>1, <2>1
  <2>3. QED
    BY <1>0, <2>1, <2>2
<1>2. ASSUME log' = log PROVE Pairs'
  BY <1>0, <1>2
<1>3. ASSUME UNCHANGED <<log, checkpoint>>, pc' \in {"repair", "copy", "sync", "truncate"}
      PROVE  ShapeInv'
  BY <1>0, <1>2, <1>3 DEF ShapeInv
<1>4. ASSUME Len(log) % 2 = 0, log' = log, checkpoint' \in {checkpoint, Len(log)}
      PROVE  ShapeInv'
  BY <1>0, <1>2, <1>4 DEF ShapeInv
<1>5. CASE Attempt
  <2>1. CASE suspect
    BY <1>3, <1>5, <2>1 DEF Attempt, file
  <2>2. CASE ~suspect
    BY <1>4, <1>5, <2>2 DEF Attempt, file, IInv, ShapeInv
  <2>3. QED
    BY <2>1, <2>2
<1>6. CASE Write
  <2>1. poll \in 1..MaxPolls /\ Len(log) % 2 = 0
    BY <1>6 DEF Write, IInv, AckInv, ShapeInv
  <2>2. /\ Len(log') = Len(log) + 2
        /\ \A i \in 1..Len(log) : log'[i] = log[i]
        /\ log'[Len(log) + 1] = <<poll, "first">>
        /\ log'[Len(log) + 2] = <<poll, "rest">>
    BY <1>0, <1>6, <2>1, WrittenRecord DEF Write
  <2>3. Pairs'
    <3> SUFFICES ASSUME NEW i \in 2..Len(log'), i % 2 = 0
                 PROVE  /\ log'[i - 1] = <<log'[i][1], "first">>
                        /\ log'[i] = <<log'[i][1], "rest">>
      OBVIOUS
    <3>1. CASE i <= Len(log)
      <4>1. log'[i - 1] = log[i - 1] /\ log'[i] = log[i] /\ i \in 2..Len(log)
        BY <1>0, <2>2, <3>1
      <4>2. QED
        BY <1>0, <4>1
    <3>2. CASE i > Len(log)
      <4>1. i = Len(log) + 2
        BY <1>0, <2>1, <2>2, <3>2, EvenStep
      <4>2. i - 1 = Len(log) + 1
        BY <1>0, <4>1
      <4>3. QED
        BY <2>2, <4>1, <4>2
    <3>3. QED
      BY <1>0, <2>2, <3>1, <3>2
  <2>4. Len(log') % 2 = 0
    BY <1>0, <2>1, <2>2
  <2>5. pc' = "fsync" /\ checkpoint' = checkpoint
    BY <1>6 DEF Write
  <2>6. QED
    BY <1>0, <2>3, <2>4, <2>5 DEF ShapeInv
<1>7. CASE Fsync
  BY <1>4, <1>7 DEF Fsync, IInv, ShapeInv
<1>8. CASE WriteCheckpoint \/ Bless
  BY <1>4, <1>8 DEF WriteCheckpoint, Bless, IInv, ShapeInv
<1>9. ASSUME Interrupted, (pc' = "idle" /\ suspect') \/ pc' = "repair"
      PROVE  ShapeInv'
  <2>1. /\ Len(log') \in 0..Len(log) \/ (Len(log') = Len(log) + 1 /\ Len(log) % 2 = 0)
        /\ \A i \in 1..Len(log) : log'[i] = log[i]
        /\ checkpoint' % 2 = 0
    <3>1. /\ \A i \in 1..Len(log) : log'[i] = log[i]
          /\ log' = log \/ (Len(log') = Len(log) + 1 /\ Len(log) % 2 = 0)
          /\ \/ checkpoint' = checkpoint
             \/ log' = log /\ checkpoint' = Len(log) /\ Len(log) % 2 = 0
      BY Zenon, <1>9, InterruptedCall
    <3>2. QED
      BY <1>0, <3>1
  <2>2. Pairs'
    BY <1>1, <2>1
  <2>3. QED
    BY <1>9, <2>1, <2>2 DEF ShapeInv
<1>10. CASE Raise \/ Kill
  BY <1>9, <1>10 DEF Raise, Kill, Restarting
<1>11. CASE Scan
  <2>1. UNCHANGED <<log, checkpoint>>
    BY <1>11 DEF Scan, file
  <2>2. CASE checkpoint = Len(log)
    BY <1>0, <1>4, <2>1, <2>2
  <2>3. CASE checkpoint # Len(log) /\ Valid = Len(log)
    <3>1. Len(log) % 2 = 0
      BY <2>3, ValidPart DEF IInv
    <3>2. QED
      BY <1>4, <2>1, <3>1
  <2>4. CASE checkpoint # Len(log) /\ Valid # Len(log)
    BY <1>3, <1>11, <2>1, <2>4 DEF Scan
  <2>5. QED
    BY <2>2, <2>3, <2>4
<1>12. CASE Copy \/ SyncDirectory
  BY <1>3, <1>12 DEF Copy, SyncDirectory, file
<1>13. CASE Truncate
  <2>1. Valid \in 0..Len(log) /\ Valid % 2 = 0
    BY ValidPart DEF IInv
  <2>2. log' = SubSeq(log, 1, Valid) /\ pc' = "bless" /\ checkpoint' = checkpoint
    BY <1>13 DEF Truncate
  <2>3. Len(log') = Valid /\ \A i \in 1..Valid : log'[i] = log[i]
    BY <1>0, <2>1, <2>2, PrefixOfLog
  <2>4. Pairs'
    BY <1>0, <1>1, <2>1, <2>3
  <2>5. QED
    BY <1>0, <2>1, <2>2, <2>3, <2>4 DEF ShapeInv
<1>14. CASE PowerLoss
  <2>1. PICK n \in synced..Len(log) : log' = SubSeq(log, 1, n)
    BY <1>14 DEF PowerLoss
  <2>2. n \in 0..Len(log)
    BY <1>0 DEF IInv, TypeOK
  <2>3. Len(log') = n /\ \A i \in 1..n : log'[i] = log[i]
    BY <1>0, <2>1, <2>2, PrefixOfLog
  <2>4. Pairs'
    BY <1>0, <1>1, <2>2, <2>3
  <2>5. pc' = "repair" /\ checkpoint' = checkpoint
    BY <1>14 DEF PowerLoss, Restarting
  <2>6. QED
    BY <1>0, <2>4, <2>5 DEF ShapeInv
<1>15. CASE ReadCheckpoint \/ ReadFrames \/ UNCHANGED vars
  <2>1. UNCHANGED <<log, checkpoint, pc, suspect>>
    BY <1>15 DEF ReadCheckpoint, ReadFrames, vars, file
  <2>2. QED
    BY <1>0, <1>2, <2>1 DEF ShapeInv, IInv
<1>16. QED
  BY <1>5, <1>6, <1>7, <1>8, <1>10, <1>11, <1>12, <1>13, <1>14, <1>15 DEF Next, Collector

\* A response whose append returned stays in the durable part of the file, whatever
\* is torn or cut off behind it.
LEMMA NextAcked == IInv /\ [Next]_vars => AckInv'
<1> SUFFICES ASSUME IInv, [Next]_vars PROVE AckInv'
  OBVIOUS
<1> DEFINE Durable == \A p \in acked : \E n \in 1..synced : n % 2 = 0 /\ log[n][1] = p
<1>0. /\ log \in Seq(Pieces) /\ Len(log) \in Nat /\ synced \in 0..Len(log)
      /\ Durable /\ Len(log') \in Nat
  <2>1. log' \in Seq(Pieces)
    BY NextTyped DEF TypeOK
  <2>2. QED
    BY <2>1, LenProperties DEF IInv, TypeOK, AckInv
<1>1. ASSUME acked' = acked, synced' \in Nat, synced <= synced',
             \A i \in 1..synced : log'[i] = log[i]
      PROVE  Durable'
  BY <1>0, <1>1
<1>2. ASSUME UNCHANGED <<log, synced, acked, poll, appending>>,
             pc' \in {"fsync", "checkpoint"} => pc' = pc,
             pc' = "write" => appending
      PROVE  AckInv'
  <2>1. Durable'
    BY <1>0, <1>1, <1>2
  <2>2. QED
    BY <1>2, <2>1 DEF IInv, AckInv
<1>3. CASE Attempt
  <2>1. UNCHANGED <<log, synced, acked>> /\ pc' \in {"repair", "write"}
        /\ poll' \in 1..MaxPolls
    BY <1>3 DEF Attempt, file
  <2>2. Durable'
    BY <1>0, <1>1, <2>1
  <2>3. QED
    BY <2>1, <2>2 DEF AckInv
<1>4. CASE Write
  <2>1. poll \in 1..MaxPolls
    BY <1>4 DEF Write, IInv, AckInv
  <2>2. UNCHANGED <<synced, acked, poll, appending>> /\ pc' = "fsync"
    BY <1>4 DEF Write
  <2>3. /\ Len(log') = Len(log) + 2
        /\ \A i \in 1..Len(log) : log'[i] = log[i]
        /\ log'[Len(log) + 2] = <<poll, "rest">>
    BY <1>0, <1>4, <2>1, WrittenRecord DEF Write
  <2>4. Durable'
    BY <1>0, <1>1, <2>2, <2>3
  <2>5. Len(log') >= 2 /\ log'[Len(log')][1] = poll
    BY <1>0, <2>3
  <2>6. QED
    BY <2>1, <2>2, <2>4, <2>5 DEF AckInv
<1>5. CASE Fsync
  <2>1. UNCHANGED <<log, acked, poll, appending>> /\ synced' = Len(log) /\ pc' = "checkpoint"
        /\ pc = "fsync"
    BY <1>5 DEF Fsync
  <2>2. Durable'
    BY <1>0, <1>1, <2>1
  <2>3. QED
    BY <2>1, <2>2 DEF IInv, AckInv
<1>6. CASE WriteCheckpoint
  <2>1. /\ UNCHANGED <<log, synced, poll, appending>> /\ acked' = acked \cup {poll}
        /\ pc = "checkpoint" /\ pc' = "idle"
    BY <1>6 DEF WriteCheckpoint
  <2>2. synced = Len(log) /\ Len(log) >= 2 /\ log[Len(log)][1] = poll /\ Len(log) % 2 = 0
    BY <2>1 DEF IInv, AckInv, ShapeInv
  <2>3. Durable'
    BY <1>0, <2>1, <2>2
  <2>4. QED
    BY <2>1, <2>3 DEF IInv, AckInv
<1>7. ASSUME Interrupted, UNCHANGED <<synced, acked, poll>>, pc' \in {"idle", "repair"},
             appending' => appending
      PROVE  AckInv'
  <2>1. \A i \in 1..Len(log) : log'[i] = log[i]
    BY <1>7, InterruptedCall
  <2>2. Durable'
    BY <1>0, <1>1, <1>7, <2>1
  <2>3. QED
    BY <1>7, <2>2 DEF IInv, AckInv
<1>8. CASE Raise
  BY <1>7, <1>8 DEF Raise
<1>9. CASE Kill
  <2>1. appending' = FALSE /\ pc' = "repair"
    BY <1>9 DEF Kill, Restarting
  <2>2. QED
    BY <1>7, <1>9, <2>1 DEF Kill
<1>10. CASE Scan \/ Bless
  <2>1. /\ UNCHANGED <<log, synced, acked, poll, appending>>
        /\ pc' \in {"idle", "bless", "copy"} \/ (pc' = "write" /\ appending)
    BY <1>10 DEF Scan, Bless, EndRepair, file
  <2>2. QED
    BY <1>2, <2>1
<1>11. CASE Copy \/ SyncDirectory
  BY <1>2, <1>11 DEF Copy, SyncDirectory, file
<1>12. CASE Truncate
  <2>1. Valid \in 0..Len(log) /\ \A n \in 0..Len(log) : n % 2 = 0 => n <= Valid
    BY ValidPart DEF IInv
  <2>2. /\ UNCHANGED <<acked, poll, appending>> /\ pc' = "bless"
        /\ log' = SubSeq(log, 1, Valid) /\ synced' = Valid
    BY <1>12 DEF Truncate
  <2>3. \A i \in 1..Valid : log'[i] = log[i]
    BY <1>0, <2>1, <2>2, PrefixOfLog
  <2>4. Durable'
    <3> SUFFICES ASSUME NEW p \in acked
                 PROVE  \E n \in 1..Valid : n % 2 = 0 /\ log'[n][1] = p
      BY <2>2
    <3>1. PICK n \in 1..synced : n % 2 = 0 /\ log[n][1] = p
      BY <1>0
    <3>2. n \in 1..Valid
      BY <1>0, <2>1, <3>1
    <3>3. QED
      BY <2>3, <3>1, <3>2
  <2>5. QED
    BY <2>2, <2>4 DEF IInv, AckInv
<1>13. CASE PowerLoss
  <2>1. PICK n \in synced..Len(log) : log' = SubSeq(log, 1, n)
    BY <1>13 DEF PowerLoss
  <2>2. n \in 0..Len(log)
    BY <1>0
  <2>3. Len(log') = n /\ \A i \in 1..n : log'[i] = log[i]
    BY <1>0, <2>1, <2>2, PrefixOfLog
  <2>4. synced' = n /\ acked' = acked /\ appending' = FALSE /\ pc' = "repair"
    BY <1>13, <2>3 DEF PowerLoss, Restarting
  <2>5. Durable'
    BY <1>0, <1>1, <2>2, <2>3, <2>4
  <2>6. QED
    BY <2>4, <2>5 DEF AckInv
<1>14. CASE ReadCheckpoint \/ ReadFrames
  BY <1>2, <1>14 DEF ReadCheckpoint, ReadFrames, file, IInv, AckInv
<1>15. CASE UNCHANGED vars
  BY <1>2, <1>15 DEF vars, file, IInv, AckInv
<1>16. QED
  BY <1>3, <1>4, <1>5, <1>6, <1>8, <1>9, <1>10, <1>11, <1>12, <1>13, <1>14, <1>15
  DEF Next, Collector

\* What a repair cuts off is what it has copied, and has made durable before.
LEMMA NextPreserved == IInv /\ [Next]_vars => TailInv' /\ TailsPreserved'
<1> SUFFICES ASSUME IInv, [Next]_vars PROVE TailInv' /\ TailsPreserved'
  OBVIOUS
<1>0. cut \subseteq forensic
  BY DEF IInv, TailsPreserved
<1>1. ASSUME UNCHANGED <<cut, forensic>>, pc' \notin {"sync", "truncate"}
      PROVE  TailInv' /\ TailsPreserved'
  BY <1>0, <1>1 DEF TailInv, TailsPreserved
<1>2. ASSUME UNCHANGED <<log, checkpoint>> PROVE Valid' = Valid
  BY <1>2 DEF Valid, ScanStart, Readable
<1>3. CASE Attempt \/ Write \/ Fsync \/ WriteCheckpoint \/ Raise \/ Scan \/ Bless
  BY <1>1, <1>3 DEF Attempt, Write, Fsync, WriteCheckpoint, Raise, Scan, Bless, EndRepair
<1>4. CASE Kill \/ PowerLoss
  BY <1>1, <1>4 DEF Kill, PowerLoss, Restarting
<1>5. CASE Copy
  <2>1. UNCHANGED <<log, checkpoint, cut, forensic>> /\ pc' = "sync"
        /\ sidecar' = SubSeq(log, Valid + 1, Len(log))
    BY <1>5 DEF Copy, file
  <2>2. Valid' = Valid
    BY <1>2, <2>1
  <2>3. QED
    BY <1>0, <2>1, <2>2 DEF TailInv, TailsPreserved
<1>6. CASE SyncDirectory
  <2>1. /\ UNCHANGED <<log, checkpoint, cut>> /\ pc = "sync" /\ pc' = "truncate"
        /\ forensic' = forensic \cup Contents(sidecar)
    BY <1>6 DEF SyncDirectory, file
  <2>2. Valid' = Valid
    BY <1>2, <2>1
  <2>3. sidecar = SubSeq(log, Valid + 1, Len(log))
    BY <2>1 DEF IInv, TailInv
  <2>4. Contents(SubSeq(log, Valid + 1, Len(log))) \subseteq forensic'
    BY <2>1, <2>3
  <2>5. SubSeq(log, Valid + 1, Len(log))' = SubSeq(log, Valid + 1, Len(log))
    BY <2>1, <2>2
  <2>6. Contents(SubSeq(log, Valid + 1, Len(log)))' \subseteq forensic'
    BY <2>4, <2>5 DEF Contents
  <2>7. QED
    BY <1>0, <2>1, <2>6 DEF TailInv, TailsPreserved
<1>7. CASE Truncate
  <2>1. /\ pc = "truncate" /\ pc' = "bless" /\ forensic' = forensic
        /\ cut' = cut \cup Contents(SubSeq(log, Valid + 1, Len(log)))
    BY <1>7 DEF Truncate
  <2>2. Contents(SubSeq(log, Valid + 1, Len(log))) \subseteq forensic
    BY <2>1 DEF IInv, TailInv
  <2>3. QED
    BY <1>0, <2>1, <2>2 DEF TailInv, TailsPreserved
<1>8. CASE ReadCheckpoint \/ ReadFrames \/ UNCHANGED vars
  <2>1. UNCHANGED <<log, checkpoint, cut, forensic, sidecar, pc>>
    BY <1>8 DEF ReadCheckpoint, ReadFrames, vars, file
  <2>2. Valid' = Valid
    BY <1>2, <2>1
  <2>3. SubSeq(log, Valid + 1, Len(log))' = SubSeq(log, Valid + 1, Len(log))
    BY <2>1, <2>2
  <2>4. Contents(SubSeq(log, Valid + 1, Len(log)))'
          = Contents(SubSeq(log, Valid + 1, Len(log)))
    BY <2>3 DEF Contents
  <2>5. QED
    BY <2>1, <2>3, <2>4 DEF IInv, TailInv, TailsPreserved
<1>9. QED
  BY <1>3, <1>4, <1>5, <1>6, <1>7, <1>8 DEF Next, Collector

\* The checkpoint never moves back below what the exporter has read, nor the file
\* below the checkpoint, unless a power loss took bytes.
LEMMA NextExported == IInv /\ [Next]_vars => ExporterInv'
<1> SUFFICES ASSUME IInv, [Next]_vars PROVE ExporterInv'
  OBVIOUS
<1>0. /\ log \in Seq(Pieces) /\ Len(log) \in Nat /\ synced \in 0..Len(log)
      /\ checkpoint \in Nat /\ checkpoint % 2 = 0 /\ ExporterInv
      /\ offset \in Nat /\ end \in {-1} \cup Nat
  BY LenProperties DEF IInv, TypeOK, ShapeInv
<1>1. ASSUME UNCHANGED <<exporter, outrun>>, checkpoint' \in Nat, Len(log') \in Nat,
             ~outrun => /\ checkpoint <= checkpoint' /\ checkpoint' <= Len(log')
                        /\ \A i \in 1..checkpoint : log'[i] = log[i]
      PROVE  ExporterInv'
  <2>1. UNCHANGED <<end, offset, frame, outrun>>
    BY <1>1 DEF exporter
  <2>2. ASSUME ~outrun, frame # 0 PROVE offset >= 2 /\ log'[offset][1] = frame
    <3>1. offset \in 1..checkpoint /\ offset >= 2 /\ log[offset][1] = frame
      BY <1>0, <2>2 DEF ExporterInv
    <3>2. QED
      BY <1>1, <2>2, <3>1
  <2>3. QED
    BY <1>0, <1>1, <2>1, <2>2 DEF ExporterInv
<1>2. CASE Attempt \/ Fsync \/ Scan \/ Copy \/ SyncDirectory
  <2>1. UNCHANGED <<exporter, outrun, log, checkpoint>>
    BY <1>2 DEF Attempt, Fsync, Scan, Copy, SyncDirectory, file, exporter
  <2>2. QED
    BY <1>0, <1>1, <2>1 DEF ExporterInv
<1>3. CASE Write
  <2>1. poll \in 1..MaxPolls
    BY <1>3 DEF Write, IInv, AckInv
  <2>2. /\ Len(log') = Len(log) + 2
        /\ \A i \in 1..Len(log) : log'[i] = log[i]
    BY <1>0, <1>3, <2>1, WrittenRecord DEF Write
  <2>3. UNCHANGED <<exporter, outrun, checkpoint>>
    BY <1>3 DEF Write
  <2>4. QED
    BY <1>0, <1>1, <2>2, <2>3 DEF ExporterInv
<1>4. CASE WriteCheckpoint \/ Bless
  <2>1. UNCHANGED <<exporter, outrun, log>> /\ checkpoint' = Len(log)
    BY <1>4 DEF WriteCheckpoint, Bless
  <2>2. QED
    BY <1>0, <1>1, <2>1 DEF ExporterInv
<1>5. CASE Raise \/ Kill
  <2>1. UNCHANGED <<exporter, outrun>> /\ Interrupted
    BY <1>5 DEF Raise, Kill
  <2>2. /\ \A i \in 1..Len(log) : log'[i] = log[i]
        /\ Len(log') \in {Len(log), Len(log) + 1}
        /\ checkpoint' \in {checkpoint, Len(log)}
    BY <2>1, InterruptedCall
  <2>3. QED
    BY <1>0, <1>1, <2>1, <2>2 DEF ExporterInv
<1>6. CASE Truncate
  <2>1. /\ Valid \in 0..Len(log)
        /\ \A n \in 0..Len(log) : n % 2 = 0 => n <= Valid
    BY ValidPart DEF IInv
  <2>2. /\ UNCHANGED <<exporter, outrun, checkpoint>>
        /\ log' = SubSeq(log, 1, Valid)
    BY <1>6 DEF Truncate
  <2>3. Len(log') = Valid /\ \A i \in 1..Valid : log'[i] = log[i]
    BY <1>0, <2>1, <2>2, PrefixOfLog
  <2>4. ~outrun => checkpoint <= Valid
    BY <1>0, <2>1 DEF ExporterInv
  <2>5. /\ checkpoint' \in Nat /\ Len(log') \in Nat
        /\ ~outrun => /\ checkpoint <= checkpoint' /\ checkpoint' <= Len(log')
                      /\ 1..checkpoint \subseteq 1..Valid
    BY <1>0, <2>1, <2>2, <2>3, <2>4
  <2>6. QED
    BY Zenon, <1>1, <2>2, <2>3, <2>5
<1>7. CASE PowerLoss
  <2>1. PICK n \in synced..Len(log) : log' = SubSeq(log, 1, n)
    BY <1>7 DEF PowerLoss
  <2>2. Len(log') = n /\ n \in Nat
    BY <1>0, <2>1, PrefixOfLog
  <2>3. end' = -1 /\ offset' = 0 /\ frame' = 0 /\ checkpoint' = checkpoint
    BY <1>7 DEF PowerLoss
  <2>4. ~outrun' => ~(checkpoint > Len(log'))
    BY Zenon, <1>7 DEF PowerLoss
  <2>5. QED
    BY <1>0, <2>2, <2>3, <2>4 DEF ExporterInv
<1>8. CASE ReadCheckpoint
  <2>1. end' = checkpoint /\ UNCHANGED <<log, checkpoint, offset, frame, outrun>>
    BY <1>8 DEF ReadCheckpoint, file
  <2>2. QED
    BY <1>0, <2>1 DEF ExporterInv
<1>9. CASE ReadFrames
  <2>1. end # -1 /\ end' = -1 /\ UNCHANGED <<log, checkpoint, outrun>>
    BY <1>9 DEF ReadFrames, file
  <2>2. end \in Nat /\ end % 2 = 0 /\ (~outrun => end <= checkpoint /\ checkpoint <= Len(log))
    BY <1>0, <2>1 DEF ExporterInv
  <2> DEFINE from == IF end < offset THEN 0 ELSE offset
  <2>3. \/ UNCHANGED <<offset, frame>>
        \/ offset' = end /\ frame' = log[end][1] /\ end \in Readable(from)
        \/ offset' = 0 /\ frame' = 0
    BY <1>9 DEF ReadFrames
  <2>4. CASE UNCHANGED <<offset, frame>>
    BY <1>0, <2>1, <2>4 DEF ExporterInv
  <2>5. CASE offset' = end /\ frame' = log[end][1] /\ end \in Readable(from)
    <3>1. end >= 2
      BY <1>0, <2>5 DEF Readable
    <3>2. QED
      BY <1>0, <2>1, <2>2, <2>5, <3>1 DEF ExporterInv
  <2>6. CASE offset' = 0 /\ frame' = 0
    BY <1>0, <2>1, <2>6 DEF ExporterInv
  <2>7. QED
    BY <2>3, <2>4, <2>5, <2>6
<1>10. CASE UNCHANGED vars
  BY <1>0, <1>10 DEF vars, file, exporter, ExporterInv
<1>11. QED
  BY <1>2, <1>3, <1>4, <1>5, <1>6, <1>7, <1>8, <1>9, <1>10 DEF Next, Collector

----------------------------------------------------------------------------
\* The theorems.

\* The inductive invariant of the raw log holds throughout, over every sequence of
\* appends, failed calls, repairs, deaths and power losses, and for an exporter that
\* reads at any moment.
THEOREM RawLogInvariant == Spec => []IInv
<1>1. Init => IInv
  <2> SUFFICES ASSUME Init PROVE IInv
    OBVIOUS
  <2>1. log = <<>> /\ Len(log) = 0 /\ log \in Seq(Pieces) /\ sidecar \in Seq(Pieces)
    BY DEF Init
  <2>2. TypeOK
    <3>1. appending \in BOOLEAN /\ suspect \in BOOLEAN /\ outrun \in BOOLEAN
      BY Zenon DEF Init
    <3>2. /\ synced \in 0..Len(log) /\ checkpoint \in Nat /\ poll \in 0..MaxPolls
          /\ end \in {-1} \cup Nat /\ offset \in Nat /\ frame \in 0..MaxPolls
          /\ faults \in 0..MaxFaults /\ crashes \in 0..MaxCrashes
      BY <2>1, BoundsAssumption DEF Init
    <3>3. forensic = {} /\ acked = {} /\ cut = {} /\ pc = "idle"
      BY DEF Init
    <3>4. QED
      BY <2>1, <3>1, <3>2, <3>3 DEF TypeOK
  <2>3. QED
    BY <2>1, <2>2 DEF Init, IInv, ShapeInv, AckInv, TailInv, TailsPreserved, ExporterInv
<1>2. IInv /\ [Next]_vars => IInv'
  BY NextTyped, NextShaped, NextAcked, NextPreserved, NextExported DEF IInv
<1>3. QED
  BY <1>1, <1>2, PTL DEF Spec

\* Once append_record has returned, iter_records reads the response back for good.
THEOREM AckedIsReadable == Spec => []AckedReadable
<1>1. IInv => AckedReadable
  <2> SUFFICES ASSUME IInv, NEW p \in acked
               PROVE  \E n \in Readable(0) : log[n][1] = p
    BY DEF AckedReadable
  <2>1. Len(log) \in Nat /\ synced \in 0..Len(log)
    BY LenProperties DEF IInv, TypeOK
  <2>2. PICK n \in 1..synced : n % 2 = 0 /\ log[n][1] = p
    BY DEF IInv, AckInv
  <2>3. Readable(0) = {m \in 2..Len(log) : m % 2 = 0}
    BY ReadableRecords DEF IInv
  <2>4. n \in 2..Len(log)
    BY <2>1, <2>2
  <2>5. QED
    BY <2>2, <2>3, <2>4
<1>2. QED
  BY <1>1, RawLogInvariant, PTL

\* repair_truncated_tail never discards a byte: it is in a durable forensic file
\* before the log is truncated.
THEOREM TailsArePreserved == Spec => []TailsPreserved
BY RawLogInvariant, PTL DEF IInv

\* LatestVehicleFrame only holds a frame that the collector has committed, and holds
\* it for as long as no power loss takes bytes below the checkpoint.
THEOREM ExporterFrameIsCommitted == Spec => []ExporterHoldsCommitted
<1>1. IInv => ExporterHoldsCommitted
  <2> SUFFICES ASSUME IInv, frame # 0, ~outrun
               PROVE  /\ offset \in Readable(0)
                      /\ offset <= checkpoint
                      /\ log[offset][1] = frame
    BY DEF ExporterHoldsCommitted
  <2>1. Len(log) \in Nat /\ checkpoint \in Nat /\ offset \in Nat
    BY LenProperties DEF IInv, TypeOK
  <2>2. Readable(0) = {m \in 2..Len(log) : m % 2 = 0}
    BY ReadableRecords DEF IInv
  <2>3. QED
    BY <2>1, <2>2 DEF IInv, ExporterInv
<1>2. QED
  BY <1>1, RawLogInvariant, PTL

----------------------------------------------------------------------------
(* ChangeTracker: places in a poll *)

\* A set of natural numbers has a least one: the induction of the proofs below.
LEMMA LeastNumber ==
  ASSUME NEW T \in SUBSET Nat, T # {}
  PROVE  \E x \in T : \A y \in T : x <= y
<1>1. ASSUME NEW R, \E x \in T : \A y \in T : <<y, x>> \notin R,
             \A x, y \in Nat : y < x => <<y, x>> \in R
      PROVE  \E x \in T : \A y \in T : x <= y
  <2>1. PICK x \in T : \A y \in T : <<y, x>> \notin R
    BY Zenon, <1>1
  <2>2. \A y \in T : ~(y < x)
    BY Zenon, <1>1, <2>1
  <2>3. QED
    BY <2>2
<1>2. \E x \in T : \A y \in T : <<y, x>> \notin OpToRel(<, Nat)
  BY Zenon, NatLessThanWellFounded, WFMin
<1>3. \A x, y \in Nat : y < x => <<y, x>> \in OpToRel(<, Nat)
  BY DEF OpToRel
<1>4. QED
  BY Zenon, <1>1, <1>2, <1>3

\* Induction over the places of a sequence, for a set of places.
LEMMA PlaceInduction ==
  ASSUME NEW n \in Nat, NEW S, 0 \in S,
         \A m \in 1..n : m - 1 \in S => m \in S
  PROVE  \A m \in 0..n : m \in S
<1> SUFFICES ASSUME NEW b \in 0..n, b \notin S PROVE FALSE
  OBVIOUS
<1> DEFINE T == {m \in 0..n : m \notin S}
<1>1. T \in SUBSET Nat /\ T # {}
  OBVIOUS
<1>2. PICK x \in T : \A y \in T : x <= y
  BY <1>1, LeastNumber
<1>3. x \in 1..n /\ x - 1 \in 0..n
  BY <1>2
<1>4. x - 1 \in S
  BY <1>2, <1>3
<1>5. QED
  BY <1>2, <1>3, <1>4

\* Max is the member that bounds the others.
LEMMA MaxIs ==
  ASSUME NEW S \in SUBSET Int, NEW x \in S, \A y \in S : x >= y
  PROVE  Max(S) = x
<1>1. \E z \in S : \A y \in S : z >= y
  OBVIOUS
<1>2. Max(S) \in S /\ \A y \in S : Max(S) >= y
  BY Zenon, <1>1 DEF Max
<1>3. x >= Max(S) /\ Max(S) >= x /\ x \in Int /\ Max(S) \in Int
  BY <1>2
<1>4. QED
  BY <1>3

\* A set of places has a last one.
LEMMA LastPlace ==
  ASSUME NEW n \in Nat, NEW S \in SUBSET (1..n), S # {}
  PROVE  Max(S) \in S /\ \A y \in S : Max(S) >= y
<1> DEFINE T == {n - i : i \in S}
<1>1. \A i \in S : i \in 1..n /\ n - i \in Nat
  OBVIOUS
<1>2. T \in SUBSET Nat /\ T # {}
  BY <1>1
<1>3. PICK x \in T : \A y \in T : x <= y
  BY <1>2, LeastNumber
<1>4. PICK i \in S : x = n - i
  OBVIOUS
<1>5. \A j \in S : n - i <= n - j
  BY <1>3, <1>4
<1>6. \A j \in S : i >= j
  BY <1>1, <1>5
<1>7. QED
  BY <1>1, <1>6 DEF Max

----------------------------------------------------------------------------
\* What filter() does with one row.
Take(memory, t, out, row) ==
  IF Writes(With(memory, out, t), row, t) THEN Append(out, row) ELSE out

\* A function that folds rows over every set of their places, the last one last.
Folds(memory, rows, t, places, f) ==
  f = [s \in SUBSET places |->
         IF s = {} THEN <<>> ELSE Take(memory, t, f[s \ {Max(s)}], rows[Max(s)])]

LEMMA FilterFolds ==
  ASSUME NEW memory, NEW rows, NEW t, NEW g, Folds(memory, rows, t, DOMAIN rows, g)
  PROVE  \E f : Folds(memory, rows, t, DOMAIN rows, f) /\ Filter(memory, rows, t) = f[DOMAIN rows]
<1>1. Filter(memory, rows, t) = (CHOOSE f : Folds(memory, rows, t, DOMAIN rows, f))[DOMAIN rows]
  BY DEF Filter, FoldLeft, MapThenFoldSet, Take, Folds
<1>2. Folds(memory, rows, t, DOMAIN rows, CHOOSE f : Folds(memory, rows, t, DOMAIN rows, f))
  BY Zenon
<1>3. QED
  BY Zenon, <1>1, <1>2

\* Every number of rows can be folded.
LEMMA FoldsExist ==
  ASSUME NEW memory, NEW rows, NEW t, NEW n \in Nat
  PROVE  \E f : Folds(memory, rows, t, 1..n, f)
<1> DEFINE Some(m) == \E f : Folds(memory, rows, t, 1..m, f)
           S == {m \in 0..n : Some(m)}
<1>1. Some(0)
  <2> DEFINE g == [s \in SUBSET (1..0) |-> <<>>]
  <2>1. \A s \in SUBSET (1..0) : s = {}
    OBVIOUS
  <2>2. Folds(memory, rows, t, 1..0, g)
    BY <2>1 DEF Folds
  <2>3. QED
    BY <2>2
<1>2. ASSUME NEW m \in 1..n, Some(m - 1)
      PROVE  Some(m)
  <2>1. PICK f : Folds(memory, rows, t, 1..(m - 1), f)
    BY <1>2
  <2>2. \A s \in SUBSET (1..(m - 1)) :
          f[s] = IF s = {} THEN <<>> ELSE Take(memory, t, f[s \ {Max(s)}], rows[Max(s)])
    BY <2>1 DEF Folds
  <2> DEFINE g == [s \in SUBSET (1..m) |->
                     IF m \in s THEN Take(memory, t, f[s \ {m}], rows[m]) ELSE f[s]]
             h == [s \in SUBSET (1..m) |->
                     IF s = {} THEN <<>> ELSE Take(memory, t, g[s \ {Max(s)}], rows[Max(s)])]
  <2>3. ASSUME NEW s \in SUBSET (1..m)
        PROVE  g[s] = h[s]
    <3>1. CASE s = {}
      <4>1. m \notin s /\ s \in SUBSET (1..(m - 1))
        BY <3>1
      <4>2. f[s] = <<>>
        BY <2>2, <3>1, <4>1
      <4>3. g[s] = <<>> /\ h[s] = <<>>
        BY <3>1, <4>1, <4>2
      <4>4. QED
        BY <4>3
    <3>2. CASE m \in s
      <4>1. Max(s) = m
        <5>1. s \in SUBSET Int /\ \A y \in s : m >= y
          OBVIOUS
        <5>2. QED
          BY <3>2, <5>1, MaxIs
      <4>2. s \ {m} \in SUBSET (1..m) /\ m \notin s \ {m} /\ s # {}
        BY <3>2
      <4>3. g[s \ {m}] = f[s \ {m}]
        BY <4>2
      <4>4. g[s] = Take(memory, t, f[s \ {m}], rows[m])
        BY <3>2
      <4>5. h[s] = Take(memory, t, g[s \ {m}], rows[m])
        BY <4>1, <4>2
      <4>6. QED
        BY Zenon, <4>3, <4>4, <4>5
    <3>3. CASE s # {} /\ m \notin s
      <4>1. s \in SUBSET (1..(m - 1))
        BY <3>3
      <4>2. Max(s) \in s
        <5>1. m \in Nat /\ s \in SUBSET (1..m) /\ s # {}
          BY <3>3
        <5>2. QED
          BY Zenon, <5>1, LastPlace
      <4>3. s \ {Max(s)} \in SUBSET (1..m) /\ m \notin s \ {Max(s)}
        BY <3>3
      <4> HIDE DEF h
      <4>4. g[s] = f[s] /\ g[s \ {Max(s)}] = f[s \ {Max(s)}]
        BY <3>3, <4>3
      <4> HIDE DEF g
      <4>5. h[s] = Take(memory, t, g[s \ {Max(s)}], rows[Max(s)])
        BY <3>3 DEF h
      <4>6. f[s] = Take(memory, t, f[s \ {Max(s)}], rows[Max(s)])
        BY <2>2, <3>3, <4>1
      <4>7. QED
        BY Zenon, <4>4, <4>5, <4>6
    <3>4. QED
      BY <3>1, <3>2, <3>3
  <2>4. g = [s \in SUBSET (1..m) |-> g[s]] /\ h = [s \in SUBSET (1..m) |-> h[s]]
    OBVIOUS
  <2>5. g = h
    <3> HIDE DEF g, h
    <3>1. [s \in SUBSET (1..m) |-> g[s]] = [s \in SUBSET (1..m) |-> h[s]]
      BY <2>3
    <3>2. QED
      BY Zenon, <2>4, <3>1
  <2>6. Folds(memory, rows, t, 1..m, g)
    <3> HIDE DEF g
    <3>1. QED
      BY Zenon, <2>5 DEF Folds, h
  <2>7. QED
    BY Zenon, <2>6
<1> HIDE DEF Some
<1>3. 0 \in S /\ \A m \in 1..n : m - 1 \in S => m \in S
  BY <1>1, <1>2
<1>4. n \in S
  <2> HIDE DEF S
  <2>1. \A m \in 0..n : m \in S
    BY <1>3, PlaceInduction
  <2>2. QED
    BY <2>1
<1>5. QED
  BY <1>4 DEF Some

\* filter() goes through the rows in order: what is selected of the first n.
Selects(memory, rows, t, sel) ==
  /\ sel[0] = <<>>
  /\ \A n \in 1..Len(rows) : sel[n] = Take(memory, t, sel[n - 1], rows[n])
  /\ Filter(memory, rows, t) = sel[Len(rows)]

LEMMA FilterUnfolds ==
  ASSUME NEW memory, NEW rows \in Seq(Row), NEW t
  PROVE  \E sel : Selects(memory, rows, t, sel)
<1>1. DOMAIN rows = 1..Len(rows) /\ Len(rows) \in Nat
  BY LenProperties
<1>2. \E f : Folds(memory, rows, t, 1..Len(rows), f)
  BY <1>1, FoldsExist
<1>3. PICK f : /\ Folds(memory, rows, t, 1..Len(rows), f)
               /\ Filter(memory, rows, t) = f[1..Len(rows)]
  BY Zenon, <1>1, <1>2, FilterFolds
<1>4. \A s \in SUBSET (1..Len(rows)) :
        f[s] = IF s = {} THEN <<>> ELSE Take(memory, t, f[s \ {Max(s)}], rows[Max(s)])
  BY <1>3 DEF Folds
<1> DEFINE sel == [n \in 0..Len(rows) |-> f[1..n]]
<1>5. sel[0] = <<>>
  <2>1. 1..0 = {} /\ {} \in SUBSET (1..Len(rows)) /\ 0 \in 0..Len(rows)
    BY <1>1
  <2>2. f[{}] = <<>>
    BY <1>4, <2>1
  <2>3. QED
    BY <2>1, <2>2
<1>6. ASSUME NEW n \in 1..Len(rows)
      PROVE  sel[n] = Take(memory, t, sel[n - 1], rows[n])
  <2>0. n \in Nat /\ 1 <= n /\ n <= Len(rows)
    BY <1>1
  <2>1. /\ 1..n \in SUBSET (1..Len(rows)) /\ 1..n \in SUBSET Int /\ 1..n # {}
        /\ n \in 1..n /\ \A y \in 1..n : n >= y
    <3>1. \A y \in 1..n : y \in 1..Len(rows) /\ y \in Int /\ n >= y
      BY <1>1, <2>0
    <3>2. n \in 1..n
      BY <2>0
    <3>3. QED
      BY Zenon, <3>1, <3>2
  <2>2. Max(1..n) = n
    BY <2>1, MaxIs
  <2>3. (1..n) \ {n} = 1..(n - 1) /\ n \in 0..Len(rows) /\ n - 1 \in 0..Len(rows)
    BY <1>1
  <2>4. sel[n] = f[1..n] /\ sel[n - 1] = f[1..(n - 1)]
    BY <2>3
  <2>5. f[1..n] = Take(memory, t, f[(1..n) \ {Max(1..n)}], rows[Max(1..n)])
    BY Zenon, <1>4, <2>1
  <2>6. QED
    BY Zenon, <2>2, <2>3, <2>4, <2>5
<1>7. sel[Len(rows)] = f[1..Len(rows)]
  BY <1>1
<1>8. QED
  <2> HIDE DEF sel
  <2>1. QED
    BY Zenon, <1>3, <1>5, <1>6, <1>7 DEF Selects

----------------------------------------------------------------------------
\* The rows of one key.
Places(rows, k) == {i \in DOMAIN rows : rows[i].key = k}

\* commit() takes the last row of each key, and leaves the other keys alone.
Takes(memory, rows, t, after) ==
  /\ \A k : k \in DOMAIN after <=>
              k \in DOMAIN memory \/ (k \in Keys /\ Places(rows, k) # {})
  /\ \A k \in Keys : Places(rows, k) # {} =>
       after[k] = [value |-> rows[Max(Places(rows, k))].value, at |-> t]
  /\ \A k \in DOMAIN memory : ~(k \in Keys /\ Places(rows, k) # {}) => after[k] = memory[k]

LEMMA WithTakes ==
  ASSUME NEW memory, NEW rows, NEW t
  PROVE  Takes(memory, rows, t, With(memory, rows, t))
BY DEF With, Places, Takes

\* One more row is what is remembered of its key, and of no other.
LEMMA WithOneMore ==
  ASSUME NEW memory, NEW rows \in Seq(Row), NEW row \in Row, NEW t,
         NEW before, before = With(memory, rows, t),
         NEW after, after = With(memory, Append(rows, row), t)
  PROVE  /\ row.key \in DOMAIN after /\ after[row.key] = [value |-> row.value, at |-> t]
         /\ \A k : k # row.key => /\ k \in DOMAIN after <=> k \in DOMAIN before
                                  /\ k \in DOMAIN after => after[k] = before[k]
<1> DEFINE more == Append(rows, row)
           n == Len(rows) + 1
<1>1. /\ Len(rows) \in Nat /\ DOMAIN rows = 1..Len(rows) /\ row.key \in Keys
      /\ more \in Seq(Row) /\ Len(more) = n /\ DOMAIN more = 1..n
      /\ \A i \in 1..Len(rows) : more[i] = rows[i]
      /\ more[n] = row
  BY AppendProperties, LenProperties DEF Row
<1>2. Takes(memory, rows, t, before) /\ Takes(memory, more, t, after)
  BY WithTakes
<1> HIDE DEF more
<1>3. n \in Places(more, row.key) /\ Max(Places(more, row.key)) = n
  <2>1. n \in Places(more, row.key)
    BY <1>1 DEF Places
  <2>2. Places(more, row.key) \in SUBSET Int /\ \A i \in Places(more, row.key) : n >= i
    BY <1>1 DEF Places
  <2>3. QED
    BY <2>1, <2>2, MaxIs
<1>4. row.key \in DOMAIN after /\ after[row.key] = [value |-> row.value, at |-> t]
  BY <1>1, <1>2, <1>3 DEF Takes
<1>5. ASSUME NEW k, k # row.key
      PROVE  /\ k \in DOMAIN after <=> k \in DOMAIN before
             /\ k \in DOMAIN after => after[k] = before[k]
  <2>1. \A i : i \in Places(more, k) <=> i \in Places(rows, k)
    BY <1>1, <1>5 DEF Places
  <2>2. Places(more, k) = Places(rows, k)
    BY Zenon, <2>1
  <2>3. k \in DOMAIN after <=> k \in DOMAIN before
    BY Zenon, <1>2, <2>2 DEF Takes
  <2>4. CASE k \in Keys /\ Places(rows, k) # {}
    <3>1. Max(Places(rows, k)) \in 1..Len(rows)
      <4>1. Places(rows, k) \in SUBSET (1..Len(rows))
        BY <1>1 DEF Places
      <4>2. QED
        BY Zenon, <1>1, <2>4, <4>1, LastPlace
    <3>2. more[Max(Places(rows, k))].value = rows[Max(Places(rows, k))].value
      BY Zenon, <1>1, <3>1
    <3>3. after[k] = [value |-> more[Max(Places(rows, k))].value, at |-> t]
      BY <1>2, <2>2, <2>4 DEF Takes
    <3>4. before[k] = [value |-> rows[Max(Places(rows, k))].value, at |-> t]
      BY <1>2, <2>4 DEF Takes
    <3>5. QED
      BY Zenon, <2>3, <3>2, <3>3, <3>4
  <2>5. CASE ~(k \in Keys /\ Places(rows, k) # {})
    BY <1>2, <2>2, <2>3, <2>5 DEF Takes
  <2>6. QED
    BY Zenon, <2>4, <2>5
<1>6. QED
  BY <1>4, <1>5

\* What is known of some keys is a partial function.
LEMMA MemoryForm ==
  \A m : m \in Memories <=> /\ DOMAIN m \in SUBSET Keys
                            /\ m \in [DOMAIN m -> [value : Values, at : Times]]
BY DEF Memories

\* commit() keeps to the types.
LEMMA WithTyped ==
  ASSUME NEW memory \in Memories, NEW rows \in Seq(Row), NEW t \in Times
  PROVE  With(memory, rows, t) \in Memories
<1> DEFINE after == With(memory, rows, t)
<1>1. /\ DOMAIN memory \in SUBSET Keys
      /\ \A k \in DOMAIN memory : memory[k] \in [value : Values, at : Times]
  BY MemoryForm
<1>2. Takes(memory, rows, t, after) /\ after = [k \in DOMAIN after |-> after[k]]
  <2>1. after = [k \in DOMAIN after |-> after[k]]
    BY DEF With
  <2>2. QED
    BY Zenon, <2>1, WithTakes
<1>3. /\ Len(rows) \in Nat /\ DOMAIN rows = 1..Len(rows)
      /\ \A i \in 1..Len(rows) : rows[i].value \in Values
  <2>1. /\ Len(rows) \in Nat /\ DOMAIN rows = 1..Len(rows)
        /\ rows \in [1..Len(rows) -> Row]
    BY LenProperties
  <2>2. QED
    BY <2>1 DEF Row
<1> HIDE DEF after
<1>4. DOMAIN after \in SUBSET Keys
  BY Zenon, <1>1, <1>2 DEF Takes
<1>5. ASSUME NEW k \in DOMAIN after
      PROVE  after[k] \in [value : Values, at : Times]
  <2>1. CASE k \in Keys /\ Places(rows, k) # {}
    <3>1. Places(rows, k) \in SUBSET (1..Len(rows))
      BY <1>3 DEF Places
    <3>2. Max(Places(rows, k)) \in 1..Len(rows)
      BY Zenon, <1>3, <2>1, <3>1, LastPlace
    <3>3. after[k] = [value |-> rows[Max(Places(rows, k))].value, at |-> t]
      BY <1>2, <2>1 DEF Takes
    <3>4. QED
      BY <1>3, <3>2, <3>3
  <2>2. CASE ~(k \in Keys /\ Places(rows, k) # {})
    <3>1. k \in DOMAIN memory
      BY Zenon, <1>2, <1>5, <2>2 DEF Takes
    <3>2. after[k] = memory[k]
      BY <1>2, <2>2, <3>1 DEF Takes
    <3>3. QED
      BY <1>1, <3>1, <3>2
  <2>3. QED
    BY <2>1, <2>2
<1>6. after \in [DOMAIN after -> [value : Values, at : Times]]
  BY <1>2, <1>5
<1>7. QED
  BY Zenon, <1>4, <1>6, MemoryForm DEF after

----------------------------------------------------------------------------
\* What a row says does not differ from itself.
LEMMA SameValue ==
  ASSUME NEW v \in Values
  PROVE  ~Changed(v, v)
<1>1. ASSUME NEW f \in Fields, Null \notin {v[f]}
      PROVE  ~(Distance(v[f], v[f]) > Tolerance[f])
  <2>1. v[f] \in Int /\ Tolerance[f] \in Nat
    BY <1>1, TrackerAssumption
  <2>2. QED
    BY <2>1 DEF Distance
<1>2. QED
  BY <1>1 DEF Changed

\* A row that was just taken is not to be written again.
LEMMA TakenIsSettled ==
  ASSUME NEW row \in Row, NEW t \in Times, NEW after, row.key \in DOMAIN after,
         after[row.key] = [value |-> row.value, at |-> t]
  PROVE  ~Writes(after, row, t)
<1>1. row.value \in Values /\ t \in Nat /\ Heartbeat \in Nat /\ 1 <= Heartbeat
  <2>1. t \in Nat /\ Heartbeat \in Nat /\ Sweep \in 1..Heartbeat
    BY TrackerAssumption
  <2>2. QED
    BY <2>1 DEF Row
<1>2. ~Changed(row.value, row.value)
  BY <1>1, SameValue
<1>3. after[row.key].value = row.value /\ after[row.key].at = t
  OBVIOUS
<1>4. ~(t - t >= Heartbeat)
  BY <1>1
<1>5. QED
  BY Zenon, <1>2, <1>3, <1>4 DEF Writes

\* After filter(), no row would be written again that is the last of its key: what
\* was taken before it and what is left out behind it keep it settled.
LEMMA FilterSettles ==
  ASSUME NEW memory, NEW rows \in Seq(Row), NEW t \in Times
  PROVE  /\ Filter(memory, rows, t) \in Seq(Row)
         /\ \A i \in 1..Len(rows) :
              (\A j \in i + 1 .. Len(rows) : rows[j].key # rows[i].key)
                => ~Writes(With(memory, Filter(memory, rows, t), t), rows[i], t)
<1>1. Len(rows) \in Nat /\ \A i \in 1..Len(rows) : rows[i] \in Row
  BY LenProperties
<1>2a. PICK sel : Selects(memory, rows, t, sel)
  BY Zenon, FilterUnfolds
<1>2. /\ sel[0] = <<>>
      /\ \A n \in 1..Len(rows) : sel[n] = Take(memory, t, sel[n - 1], rows[n])
      /\ Filter(memory, rows, t) = sel[Len(rows)]
  BY Zenon, <1>2a DEF Selects
<1> DEFINE LastOf(i, n) == \A j \in i + 1 .. n : rows[j].key # rows[i].key
           Settled(n) == /\ sel[n] \in Seq(Row)
                         /\ \A i \in 1..n : LastOf(i, n)
                              => ~Writes(With(memory, sel[n], t), rows[i], t)
           S == {n \in 0..Len(rows) : Settled(n)}
<1>3. Settled(0)
  <2>1. <<>> \in Seq(Row) /\ 1..0 = {}
    OBVIOUS
  <2>2. QED
    BY <1>2, <2>1
<1>4. ASSUME NEW n \in 1..Len(rows), Settled(n - 1)
      PROVE  Settled(n)
  <2> DEFINE before == With(memory, sel[n - 1], t)
             after == With(memory, sel[n], t)
  <2>1. rows[n] \in Row /\ sel[n - 1] \in Seq(Row)
    BY <1>1, <1>4
  <2>2. sel[n] = Take(memory, t, sel[n - 1], rows[n])
    BY <1>2
  <2>3. ASSUME NEW i \in 1..n, LastOf(i, n), i # n
        PROVE  /\ i \in 1..(n - 1) /\ LastOf(i, n - 1) /\ rows[n].key # rows[i].key
               /\ ~Writes(before, rows[i], t)
    <3>1. i \in 1..(n - 1) /\ n \in i + 1 .. n /\ i + 1 .. n - 1 \subseteq i + 1 .. n
      BY <1>1, <2>3
    <3>2. LastOf(i, n - 1) /\ rows[n].key # rows[i].key
      BY Zenon, <2>3, <3>1
    <3> HIDE DEF LastOf, before
    <3>3. ~Writes(before, rows[i], t)
      BY Zenon, <1>4, <3>1, <3>2 DEF before
    <3>4. QED
      BY <3>1, <3>2, <3>3
  <2>4. CASE Writes(before, rows[n], t)
    <3>1. sel[n] = Append(sel[n - 1], rows[n]) /\ sel[n] \in Seq(Row)
      BY <2>1, <2>2, <2>4, AppendProperties DEF Take
    <3>2. /\ rows[n].key \in DOMAIN after
          /\ after[rows[n].key] = [value |-> rows[n].value, at |-> t]
          /\ \A k : k # rows[n].key => /\ k \in DOMAIN after <=> k \in DOMAIN before
                                       /\ k \in DOMAIN after => after[k] = before[k]
      <4> HIDE DEF before, after
      <4>1. before = With(memory, sel[n - 1], t)
            /\ after = With(memory, Append(sel[n - 1], rows[n]), t)
        BY Zenon, <3>1 DEF before, after
      <4>2. QED
        BY <2>1, <4>1, WithOneMore
    <3> HIDE DEF before, after
    <3>3. ~Writes(after, rows[n], t)
      BY <2>1, <3>2, TakenIsSettled
    <3>4. ASSUME NEW i \in 1..n, LastOf(i, n), i # n
          PROVE  ~Writes(after, rows[i], t)
      <4>1. rows[n].key # rows[i].key /\ ~Writes(before, rows[i], t)
        BY Zenon, <2>3, <3>4
      <4>2. /\ rows[i].key \in DOMAIN after <=> rows[i].key \in DOMAIN before
            /\ rows[i].key \in DOMAIN after => after[rows[i].key] = before[rows[i].key]
        BY Zenon, <3>2, <4>1
      <4>3. QED
        BY Zenon, <4>1, <4>2 DEF Writes
    <3> HIDE DEF LastOf
    <3>5. \A i \in 1..n : LastOf(i, n) => ~Writes(after, rows[i], t)
      BY Zenon, <3>3, <3>4
    <3>6. QED
      BY Zenon, <3>1, <3>5 DEF after
  <2>5. CASE ~Writes(before, rows[n], t)
    <3>1. sel[n] = sel[n - 1] /\ after = before
      BY Zenon, <2>2, <2>5 DEF Take
    <3> HIDE DEF before, after, LastOf
    <3>2. \A i \in 1..n : LastOf(i, n) => ~Writes(after, rows[i], t)
      BY Zenon, <2>3, <2>5, <3>1
    <3>3. QED
      BY Zenon, <2>1, <3>1, <3>2 DEF after
  <2>6. QED
    BY <2>4, <2>5
<1> HIDE DEF Settled
<1>5. \A n \in 0..Len(rows) : n \in S
  <2>1. 0 \in S /\ \A n \in 1..Len(rows) : n - 1 \in S => n \in S
    BY <1>1, <1>3, <1>4
  <2> HIDE DEF S
  <2>2. QED
    BY <1>1, <2>1, PlaceInduction
<1>6. Settled(Len(rows))
  BY <1>1, <1>5
<1>7. QED
  BY Zenon, <1>2, <1>6 DEF Settled

\* "An entry older than its heartbeat MUST emit on its next observation, regardless
\* of values. Forgetting it has exactly that same outcome": whatever of such entries
\* is forgotten, filter() selects the same rows.
LEMMA ForgettingIsUnseen ==
  ASSUME NEW memory, NEW swept, NEW rows \in Seq(Row), NEW t,
         \A k \in DOMAIN swept : k \in DOMAIN memory /\ swept[k] = memory[k],
         \A k \in DOMAIN memory \ DOMAIN swept : t - memory[k].at >= Heartbeat
  PROVE  Filter(swept, rows, t) = Filter(memory, rows, t)
<1>1. Len(rows) \in Nat /\ \A i \in 1..Len(rows) : rows[i] \in Row /\ rows[i].key \in Keys
  <2>1. Len(rows) \in Nat /\ \A i \in 1..Len(rows) : rows[i] \in Row
    BY LenProperties
  <2>2. QED
    BY <2>1 DEF Row
<1>2a. PICK a : Selects(swept, rows, t, a)
  BY Zenon, FilterUnfolds
<1>2. /\ a[0] = <<>>
      /\ \A n \in 1..Len(rows) : a[n] = Take(swept, t, a[n - 1], rows[n])
      /\ Filter(swept, rows, t) = a[Len(rows)]
  BY Zenon, <1>2a DEF Selects
<1>3a. PICK b : Selects(memory, rows, t, b)
  BY Zenon, FilterUnfolds
<1>3. /\ b[0] = <<>>
      /\ \A n \in 1..Len(rows) : b[n] = Take(memory, t, b[n - 1], rows[n])
      /\ Filter(memory, rows, t) = b[Len(rows)]
  BY Zenon, <1>3a DEF Selects
<1>4. ASSUME NEW out, NEW row, row.key \in Keys
      PROVE  Take(swept, t, out, row) = Take(memory, t, out, row)
  <2> DEFINE A == With(swept, out, t)
             B == With(memory, out, t)
             k == row.key
  <2>1. Takes(swept, out, t, A) /\ Takes(memory, out, t, B)
    BY WithTakes
  <2> HIDE DEF A, B
  <2>2. CASE Places(out, k) # {}
    <3>1. k \in DOMAIN A /\ k \in DOMAIN B
      BY Zenon, <1>4, <2>1, <2>2 DEF Takes
    <3>2. /\ A[k] = [value |-> out[Max(Places(out, k))].value, at |-> t]
          /\ B[k] = [value |-> out[Max(Places(out, k))].value, at |-> t]
      BY Zenon, <1>4, <2>1, <2>2 DEF Takes
    <3>3. QED
      BY Zenon, <3>1, <3>2 DEF Take, Writes, A, B
  <2>3. CASE Places(out, k) = {} /\ k \in DOMAIN swept
    <3>1. k \in DOMAIN A /\ k \in DOMAIN B /\ A[k] = B[k]
      BY <2>1, <2>3 DEF Takes
    <3>2. QED
      BY Zenon, <3>1 DEF Take, Writes, A, B
  <2>4. CASE Places(out, k) = {} /\ k \notin DOMAIN swept
    <3>1. k \notin DOMAIN A
      BY Zenon, <2>1, <2>4 DEF Takes
    <3>2. k \in DOMAIN B => k \in DOMAIN memory /\ B[k] = memory[k]
      BY <2>1, <2>4 DEF Takes
    <3>3. k \in DOMAIN B => t - B[k].at >= Heartbeat
      BY Zenon, <2>4, <3>2
    <3>4. Writes(A, row, t) /\ Writes(B, row, t)
      BY Zenon, <3>1, <3>3 DEF Writes
    <3>5. QED
      BY Zenon, <3>4 DEF Take, A, B
  <2>5. QED
    BY <2>2, <2>3, <2>4
<1> DEFINE S == {n \in 0..Len(rows) : a[n] = b[n]}
<1>5. 0 \in S
  BY <1>1, <1>2, <1>3
<1>6. ASSUME NEW n \in 1..Len(rows), n - 1 \in S
      PROVE  n \in S
  <2>1. a[n - 1] = b[n - 1] /\ n \in 0..Len(rows) /\ rows[n].key \in Keys
    BY <1>1, <1>6
  <2>2. a[n] = Take(swept, t, a[n - 1], rows[n]) /\ b[n] = Take(memory, t, b[n - 1], rows[n])
    BY <1>2, <1>3
  <2>3. a[n] = b[n]
    BY Zenon, <1>4, <2>1, <2>2
  <2>4. QED
    BY <2>1, <2>3
<1> HIDE DEF S
<1>7. Len(rows) \in S
  <2>1. \A n \in 0..Len(rows) : n \in S
    BY <1>1, <1>5, <1>6, PlaceInduction
  <2>2. QED
    BY <1>1, <2>1
<1>8. QED
  BY Zenon, <1>2, <1>3, <1>7 DEF S

\* The sweep of _expire_heartbeat_entries, done or not, now or in an earlier poll,
\* never changes what is selected.
THEOREM SweepIsUnseen ==
  ASSUME NEW memory \in [last : Memories, expiry : Times \union {None}],
         NEW t \in Times, NEW rows \in Seq(Row)
  PROVE  Filter(Expire(memory, t).last, rows, t) = Filter(memory.last, rows, t)
<1>1. CASE ~SweepDue(memory, t)
  BY Zenon, <1>1 DEF Expire
<1>2. CASE SweepDue(memory, t)
  <2> DEFINE swept == Unexpired(memory, t)
  <2>1. Expire(memory, t).last = swept
    BY <1>2 DEF Expire
  <2>2. \A k : k \in DOMAIN swept <=> k \in DOMAIN memory.last /\ t - memory.last[k].at < Heartbeat
    BY DEF Unexpired
  <2>3. \A k \in DOMAIN swept : swept[k] = memory.last[k]
    BY DEF Unexpired
  <2> HIDE DEF swept
  <2>4. ASSUME NEW k \in DOMAIN memory.last \ DOMAIN swept
        PROVE  t - memory.last[k].at >= Heartbeat
    <3>1. memory.last \in Memories
      OBVIOUS
    <3>2. memory.last[k] \in [value : Values, at : Times]
      BY <3>1, MemoryForm
    <3>3. memory.last[k].at \in Nat /\ t \in Nat /\ Heartbeat \in Nat
      BY <3>2, TrackerAssumption
    <3>4. ~(t - memory.last[k].at < Heartbeat)
      BY Zenon, <2>2, <2>4
    <3>5. QED
      BY <3>3, <3>4
  <2>5. Filter(swept, rows, t) = Filter(memory.last, rows, t)
    BY <2>2, <2>3, <2>4, ForgettingIsUnseen
  <2>6. QED
    BY Zenon, <2>1, <2>5
<1>3. QED
  BY <1>1, <1>2

----------------------------------------------------------------------------
\* The memory a poll starts from is typed, and a part of what is staged that day.
LEMMA StartingMemory ==
  ASSUME TrackerInv, NEW t \in Times
  PROVE  LET memory == Expire(MaybeReset(t), t) IN
         /\ memory.last \in Memories /\ memory.expiry \in Times \union {None}
         /\ \A k \in DOMAIN memory.last : /\ k \in DOMAIN staged[DayOf(t)]
                                          /\ staged[DayOf(t)][k] = memory.last[k]
<1> DEFINE start == MaybeReset(t)
<1>1. Empty \in Memories /\ DOMAIN Empty = {}
  <2>1. DOMAIN Empty = {} /\ Empty \in [{} -> [value : Values, at : Times]]
    BY DEF Empty
  <2>2. QED
    BY <2>1, MemoryForm
<1>2. /\ start.last \in Memories /\ start.expiry \in Times \union {None}
      /\ \A k \in DOMAIN start.last : /\ k \in DOMAIN staged[DayOf(t)]
                                      /\ staged[DayOf(t)][k] = start.last[k]
  <2>1. CASE day = DayOf(t)
    BY <2>1 DEF MaybeReset, TrackerInv, TrackerTypeOK, MemoryInv
  <2>2. CASE day # DayOf(t)
    BY <1>1, <2>2 DEF MaybeReset
  <2>3. QED
    BY <2>1, <2>2
<1> HIDE DEF start
<1>3. CASE ~SweepDue(start, t)
  <2>1. Expire(start, t) = start
    BY <1>3 DEF Expire
  <2>2. QED
    BY Zenon, <1>2, <2>1 DEF start
<1>4. CASE SweepDue(start, t)
  <2> DEFINE swept == Unexpired(start, t)
  <2>1. Expire(start, t).last = swept /\ Expire(start, t).expiry = t
    BY <1>4 DEF Expire
  <2>2. /\ \A k \in DOMAIN swept : k \in DOMAIN start.last /\ swept[k] = start.last[k]
        /\ swept = [k \in DOMAIN swept |-> swept[k]]
    BY DEF Unexpired
  <2> HIDE DEF swept
  <2>3. swept \in Memories
    <3>1. /\ DOMAIN start.last \in SUBSET Keys
          /\ \A k \in DOMAIN start.last : start.last[k] \in [value : Values, at : Times]
      BY <1>2, MemoryForm
    <3>2. \A k \in DOMAIN swept : k \in Keys /\ swept[k] \in [value : Values, at : Times]
      BY <2>2, <3>1
    <3>3. DOMAIN swept \in SUBSET Keys /\ swept \in [DOMAIN swept -> [value : Values, at : Times]]
      BY <2>2, <3>2
    <3>4. QED
      BY Zenon, <3>3, MemoryForm
  <2>4. \A k \in DOMAIN swept : /\ k \in DOMAIN staged[DayOf(t)]
                                /\ staged[DayOf(t)][k] = swept[k]
    BY Zenon, <1>2, <2>2
  <2>5. QED
    BY Zenon, <2>1, <2>3, <2>4 DEF start
<1>5. QED
  BY <1>3, <1>4

\* An accepted poll is staged and remembered alike, and leaves nothing it observed
\* unsettled.
LEMMA AcceptedPoll ==
  ASSUME TrackerInv, NEW t \in Times, NEW rows \in Seq(Row),
         NEW memory, memory = Expire(MaybeReset(t), t).last,
         NEW out, out = Filter(memory, rows, t),
         last' = Committed(memory, rows, out, t),
         staged' = [staged EXCEPT ![DayOf(t)] = With(@, out, t)],
         seen' = [ok |-> TRUE, at |-> t, rows |-> With(Empty, rows, t)],
         day' = DayOf(t)
  PROVE  /\ last' \in Memories /\ staged' \in [Days -> Memories] /\ seen'.rows \in Memories
         /\ seen'.at \in Times /\ MemoryInv' /\ NoDrift'
<1> DEFINE d == DayOf(t)
           now == With(memory, out, t)
           held == With(staged[d], out, t)
           observed == With(Empty, rows, t)
<1>1. /\ d \in Days /\ staged \in [Days -> Memories] /\ staged[d] \in Memories
      /\ memory \in Memories /\ Empty \in Memories /\ DOMAIN Empty = {}
  <2>1. d \in Days /\ staged \in [Days -> Memories] /\ staged[d] \in Memories
    BY DEF Days, TrackerInv, TrackerTypeOK
  <2>2. memory \in Memories
    BY StartingMemory
  <2>3. DOMAIN Empty = {} /\ Empty \in [{} -> [value : Values, at : Times]]
    BY DEF Empty
  <2>4. Empty \in Memories
    BY <2>3, MemoryForm
  <2>5. QED
    BY <2>1, <2>2, <2>3, <2>4
<1>2. /\ out \in Seq(Row)
      /\ \A i \in 1..Len(rows) :
           (\A j \in i + 1 .. Len(rows) : rows[j].key # rows[i].key) => ~Writes(now, rows[i], t)
  BY Zenon, FilterSettles
<1>3. now \in Memories /\ held \in Memories /\ observed \in Memories
  BY <1>1, <1>2, WithTyped
<1>4. /\ Takes(memory, out, t, now) /\ Takes(staged[d], out, t, held)
      /\ Takes(Empty, rows, t, observed)
  BY WithTakes
<1>5. last' = now /\ staged' = [staged EXCEPT ![d] = held] /\ seen'.rows = observed
      /\ seen'.at = t /\ seen'.ok /\ day' = d
  BY DEF Committed
<1>6. staged'[d] = held
  BY <1>1, <1>5
<1>7. \A k \in DOMAIN memory : k \in DOMAIN staged[d] /\ staged[d][k] = memory[k]
  BY Zenon, StartingMemory
<1> HIDE DEF now, held, observed, d
<1>8. ASSUME NEW k \in DOMAIN now
      PROVE  k \in DOMAIN held /\ held[k] = now[k]
  <2>1. CASE k \in Keys /\ Places(out, k) # {}
    <3>1. k \in DOMAIN held
      BY Zenon, <1>4, <2>1 DEF Takes
    <3>2. /\ now[k] = [value |-> out[Max(Places(out, k))].value, at |-> t]
          /\ held[k] = [value |-> out[Max(Places(out, k))].value, at |-> t]
      BY Zenon, <1>4, <2>1 DEF Takes
    <3>3. QED
      BY Zenon, <3>1, <3>2
  <2>2. CASE ~(k \in Keys /\ Places(out, k) # {})
    <3>1. k \in DOMAIN memory
      BY Zenon, <1>4, <1>8, <2>2 DEF Takes
    <3>2. k \in DOMAIN staged[d] /\ staged[d][k] = memory[k]
      BY Zenon, <1>7, <3>1
    <3>3. now[k] = memory[k] /\ held[k] = staged[d][k] /\ k \in DOMAIN held
      BY <1>4, <2>2, <3>1, <3>2 DEF Takes
    <3>4. QED
      BY Zenon, <3>2, <3>3
  <2>3. QED
    BY <2>1, <2>2
<1>9. MemoryInv'
  BY Zenon, <1>5, <1>6, <1>8 DEF MemoryInv
<1>10. ASSUME NEW k \in DOMAIN observed
       PROVE  /\ k \in DOMAIN held
              /\ ~Changed(held[k].value, observed[k].value)
              /\ t - held[k].at < Heartbeat
  <2>1. /\ Len(rows) \in Nat /\ DOMAIN rows = 1..Len(rows)
        /\ \A i \in 1..Len(rows) : rows[i] \in Row
    BY LenProperties
  <2>2. k \in Keys /\ Places(rows, k) # {}
    BY Zenon, <1>1, <1>4, <1>10 DEF Takes
  <2> DEFINE i == Max(Places(rows, k))
  <2>3. i \in Places(rows, k) /\ \A j \in Places(rows, k) : i >= j
    <3>1. Places(rows, k) \in SUBSET (1..Len(rows))
      BY <2>1 DEF Places
    <3>2. QED
      BY Zenon, <2>1, <2>2, <3>1, LastPlace
  <2>4. observed[k].value = rows[i].value
    <3>1. observed[k] = [value |-> rows[i].value, at |-> t]
      BY Zenon, <1>4, <2>2 DEF Takes
    <3>2. QED
      BY <3>1
  <2> HIDE DEF i
  <2>5. i \in 1..Len(rows) /\ rows[i].key = k
    BY <2>1, <2>3 DEF Places
  <2>6. \A j \in i + 1 .. Len(rows) : rows[j].key # rows[i].key
    BY <2>1, <2>3, <2>5 DEF Places
  <2>7. ~Writes(now, rows[i], t)
    BY Zenon, <1>2, <2>5, <2>6
  <2>8. k \in DOMAIN now /\ ~Changed(now[k].value, rows[i].value) /\ ~(t - now[k].at >= Heartbeat)
    BY Zenon, <2>5, <2>7 DEF Writes
  <2>9. now[k].at \in Nat /\ t \in Nat /\ Heartbeat \in Nat
    <3>1. now[k] \in [value : Values, at : Times]
      BY <1>3, <2>8, MemoryForm
    <3>2. QED
      BY <3>1, TrackerAssumption
  <2>10. t - now[k].at < Heartbeat
    BY <2>8, <2>9
  <2>11. QED
    BY Zenon, <1>8, <2>4, <2>8, <2>10
<1>11. NoDrift'
  <2>1. seen'.ok => \A k \in DOMAIN seen'.rows :
                      /\ k \in DOMAIN staged'[DayOf(seen'.at)]
                      /\ ~Changed(staged'[DayOf(seen'.at)][k].value, seen'.rows[k].value)
                      /\ seen'.at - staged'[DayOf(seen'.at)][k].at < Heartbeat
    BY Zenon, <1>5, <1>6, <1>10 DEF d
  <2>2. QED
    BY Zenon, <2>1 DEF NoDrift
<1>12. staged' \in [Days -> Memories]
  BY <1>1, <1>3, <1>5
<1>13. QED
  BY Zenon, <1>3, <1>5, <1>9, <1>11, <1>12

\* The inductive invariant of the tracker.
THEOREM TrackerInvariant == TrackerSpec => []TrackerInv
<1>1. Empty \in Memories /\ DOMAIN Empty = {}
  <2>1. DOMAIN Empty = {} /\ Empty \in [{} -> [value : Values, at : Times]]
    BY DEF Empty
  <2>2. QED
    BY <2>1, MemoryForm
<1>2. TrackerInit => TrackerInv
  <2> SUFFICES ASSUME TrackerInit PROVE TrackerInv
    OBVIOUS
  <2>1. TrackerTypeOK
    BY <1>1 DEF TrackerInit, TrackerTypeOK
  <2>2. MemoryInv /\ NoDrift
    BY <1>1 DEF TrackerInit, MemoryInv, NoDrift
  <2>3. QED
    BY <2>1, <2>2 DEF TrackerInv
<1>3. TrackerInv /\ [TrackerNext]_trackerVars => TrackerInv'
  <2> SUFFICES ASSUME TrackerInv, [TrackerNext]_trackerVars PROVE TrackerInv'
    OBVIOUS
  <2>1. ASSUME NEW t \in Times, NEW rows \in BoundedSeq(Row, MaxRows), Poll(t, rows)
        PROVE  TrackerInv'
    <3> DEFINE memory == Expire(MaybeReset(t), t)
               out == Filter(memory.last, rows, t)
    <3>1. rows \in Seq(Row)
      BY DEF BoundedSeq, SeqOf
    <3>2. /\ memory.last \in Memories /\ memory.expiry \in Times \union {None}
          /\ \A k \in DOMAIN memory.last : /\ k \in DOMAIN staged[DayOf(t)]
                                           /\ staged[DayOf(t)][k] = memory.last[k]
      BY StartingMemory
    <3>3. CountNulls(rows) \in Nat
      <4>1. Len(rows) \in Nat /\ nulls \in Nat
        BY <3>1, LenProperties DEF TrackerInv, TrackerTypeOK
      <4>2. QED
        BY <4>1 DEF CountNulls
    <3>4. DayOf(t) \in Days
      BY DEF Days
    <3> HIDE DEF memory, out
    <3>5. /\ day' \in Days \union {None} /\ lastExpiry' \in Times \union {None}
          /\ nulls' \in Nat /\ day' = DayOf(t)
      BY <2>1, <3>2, <3>3, <3>4 DEF Poll, memory
    <3>6. \/ /\ last' = Committed(memory.last, rows, out, t)
             /\ staged' = [staged EXCEPT ![DayOf(t)] = With(@, out, t)]
             /\ seen' = [ok |-> TRUE, at |-> t, rows |-> With(Empty, rows, t)]
          \/ /\ last' = memory.last
             /\ seen' = [ok |-> FALSE, at |-> t, rows |-> Empty]
             /\ staged' = staged
      BY Zenon, <2>1 DEF Poll, memory, out
    <3>7. CASE /\ last' = Committed(memory.last, rows, out, t)
               /\ staged' = [staged EXCEPT ![DayOf(t)] = With(@, out, t)]
               /\ seen' = [ok |-> TRUE, at |-> t, rows |-> With(Empty, rows, t)]
      <4>1. /\ last' \in Memories /\ staged' \in [Days -> Memories] /\ seen'.rows \in Memories
            /\ seen'.at \in Times /\ MemoryInv' /\ NoDrift'
        BY Zenon, <3>1, <3>5, <3>7, AcceptedPoll DEF memory, out
      <4>2. QED
        BY <3>5, <4>1 DEF TrackerInv, TrackerTypeOK
    <3>8. CASE /\ last' = memory.last
               /\ seen' = [ok |-> FALSE, at |-> t, rows |-> Empty]
               /\ staged' = staged
      <4>1. TrackerTypeOK'
        BY <1>1, <3>2, <3>5, <3>8 DEF TrackerInv, TrackerTypeOK
      <4>2. MemoryInv'
        BY <3>2, <3>5, <3>8 DEF MemoryInv
      <4>3. NoDrift'
        BY <3>8 DEF NoDrift
      <4>4. QED
        BY <4>1, <4>2, <4>3 DEF TrackerInv
    <3>9. QED
      BY <3>6, <3>7, <3>8
  <2>2. CASE Restart
    <3>1. TrackerTypeOK'
      BY <1>1, <2>2 DEF Restart, TrackerInv, TrackerTypeOK
    <3>2. MemoryInv' /\ NoDrift'
      BY <1>1, <2>2 DEF Restart, MemoryInv, NoDrift
    <3>3. QED
      BY <3>1, <3>2 DEF TrackerInv
  <2>3. CASE UNCHANGED trackerVars
    BY <2>3 DEF trackerVars, tracker, TrackerInv, TrackerTypeOK, MemoryInv, NoDrift
  <2>4. QED
    BY <2>1, <2>2, <2>3 DEF TrackerNext
<1>4. QED
  BY <1>2, <1>3, PTL DEF TrackerSpec

\* What Parquet holds last of a key is within tolerance of what the accepted poll said,
\* and younger than the heartbeat: for any fields, tolerances, polls and clocks.
THEOREM NothingDrifts == TrackerSpec => []NoDrift
<1>1. TrackerInv => NoDrift
  BY DEF TrackerInv
<1>2. QED
  BY <1>1, TrackerInvariant, PTL
==============================================================================

---------------------------- MODULE Reports_proofs ----------------------------
(***************************************************************************)
(* Proofs about what the collector reports of its work: PollJournal, for   *)
(* every number of events, failed calls and deaths of the process or the   *)
(* machine; and HealthMonitor, for any feeds and signals, any limits, and  *)
(* any number of failed writes and restarts.                               *)
(***************************************************************************)
EXTENDS PollJournal, HealthMonitor, SequenceTheorems, TLAPS

--------------------------------------------------------------------------------
(* The inductive invariant of PollJournal *)

\* Whole lines, and at most the beginning of one more.
Lined(s) ==
  \A i \in 1..Len(s) :
    /\ i % 3 = 0 <=> s[i] = Separator
    /\ i % 3 = 1 => s[i] = <<s[i][1], "first">>
    /\ i % 3 = 2 => s[i] = <<s[i - 1][1], "rest">>

\* The checkpoint lies between two lines, and nothing is appended but behind a whole
\* line.
ShapeInv ==
  /\ Lined(journal)
  /\ checkpoint # NoCheckpoint => checkpoint % 3 = 0
  /\ pc \in {"bless", "append", "fsync", "checkpoint"} => Len(journal) % 3 = 0
  /\ pc # "refused"

\* The event being appended is the last line; one whose append returned is a line of
\* the part that an fsync has made durable.
AckInv ==
  /\ appending \/ pc \in {"append", "fsync", "checkpoint"} => event \in Events
  /\ pc \in {"fsync", "checkpoint"} =>
       Len(journal) >= 3 /\ journal[Len(journal) - 2][1] = event
  /\ pc = "checkpoint" => synced = Len(journal)
  /\ \A e \in acked : \E n \in 3..synced : n % 3 = 0 /\ journal[n - 2][1] = e

IInv == TypeOK /\ ShapeInv /\ AckInv

--------------------------------------------------------------------------------
(* The inductive invariant of HealthMonitor *)

\* The monitor never believes an answer to be newer than it is, and of every feed that
\* it is not unaware of it knows exactly what happened.
KnowledgeInv ==
  /\ \A f \in Feeds : /\ memory[f].okAt <= truth[f].okAt
                      /\ saved[f].okAt <= truth[f].okAt
                      /\ truth[f].okAt <= now
  /\ \A f \in Feeds \ unaware : memory[f] = truth[f]

\* A healthy status was true when it was written.
StatusInv ==
  /\ status.at <= now
  /\ status.healthy => /\ \A f \in Feeds : status.at - truth[f].okAt <= Limit(f)
                       /\ hidden = {}

MonitorInv == MonitorTypeOK /\ KnowledgeInv /\ StatusInv

--------------------------------------------------------------------------------
Pieces == (Events \X {"first", "rest"}) \cup {Separator}

--------------------------------------------------------------------------------
\* Lines lie at multiples of three.

\* An offset is such a multiple, or one or two behind one.
LEMMA Thirds ==
  \A n \in Nat : \/ n % 3 = 0
                 \/ n % 3 = 1 /\ n >= 1 /\ (n - 1) % 3 = 0
                 \/ n % 3 = 2 /\ n >= 2 /\ (n - 2) % 3 = 0 /\ (n - 1) % 3 = 1
OBVIOUS

\* Between two multiples of three there are at least three pieces.
LEMMA ThirdsApart ==
  \A m, n \in Int : m % 3 = 0 /\ n % 3 = 0 /\ m < n => m + 3 <= n
OBVIOUS

\* The pieces behind a multiple of three, in turn.
LEMMA ThirdsCount ==
  \A m \in Nat : m % 3 = 0 => /\ (m + 1) % 3 = 1 /\ (m + 2) % 3 = 2 /\ (m + 3) % 3 = 0
OBVIOUS

\* What the file holds, piece by piece.
LEMMA PieceAt ==
  ASSUME TypeOK, ShapeInv, NEW i \in 1..Len(journal)
  PROVE  /\ journal \in Seq(Pieces) /\ Len(journal) \in Nat
         /\ i % 3 = 0 <=> journal[i] = Separator
         /\ i % 3 # 0 => journal[i][1] \in Events
<1>1. journal \in Seq(Pieces) /\ Len(journal) \in Nat
  BY LenProperties DEF TypeOK, Pieces
<1>2. journal[i] \in Pieces /\ (i % 3 = 0 <=> journal[i] = Separator)
  BY <1>1 DEF ShapeInv, Lined
<1>3. i % 3 # 0 => journal[i] \in Events \X {"first", "rest"}
  BY <1>2 DEF Pieces
<1>4. QED
  BY <1>1, <1>2, <1>3

\* The pieces of a part of the file.
LEMMA PartOfJournal ==
  ASSUME journal \in Seq(Pieces), NEW m \in 0..Len(journal), NEW n \in m..Len(journal)
  PROVE  /\ SubSeq(journal, m + 1, n) \in Seq(Pieces)
         /\ Len(SubSeq(journal, m + 1, n)) = n - m
         /\ \A i \in 1..n - m : SubSeq(journal, m + 1, n)[i] = journal[m + i]
<1>1. Len(journal) \in Nat /\ \A i \in m + 1 .. n : journal[i] \in Pieces
  BY LenProperties
<1>2. /\ SubSeq(journal, m + 1, n) \in Seq(Pieces)
      /\ Len(SubSeq(journal, m + 1, n)) = IF m + 1 <= n THEN n - (m + 1) + 1 ELSE 0
      /\ \A i \in 1..n - (m + 1) + 1 :
           SubSeq(journal, m + 1, n)[i] = journal[m + 1 + i - 1]
  BY <1>1, SubSeqProperties
<1>3. QED
  BY <1>1, <1>2

\* A piece written behind others.
LEMMA AppendedPiece ==
  \A s \in Seq(Pieces), x \in Pieces :
    /\ Append(s, x) \in Seq(Pieces)
    /\ Len(Append(s, x)) = Len(s) + 1
    /\ \A i \in 1..Len(s) : Append(s, x)[i] = s[i]
    /\ Append(s, x)[Len(s) + 1] = x
BY AppendProperties

\* The text of an event, and its line.
LEMMA LineOf ==
  ASSUME NEW e \in Events
  PROVE  /\ Text(e) \in Seq(Pieces) /\ Len(Text(e)) = 2
         /\ Text(e)[1] = <<e, "first">> /\ Text(e)[2] = <<e, "rest">>
         /\ Append(Text(e), Separator) \in Seq(Pieces)
         /\ Len(Append(Text(e), Separator)) = 3
         /\ Append(Text(e), Separator)[1] = <<e, "first">>
         /\ Append(Text(e), Separator)[2] = <<e, "rest">>
         /\ Append(Text(e), Separator)[3] = Separator
<1>1. /\ Text(e) \in Seq(Pieces) /\ Len(Text(e)) = 2
      /\ Text(e)[1] = <<e, "first">> /\ Text(e)[2] = <<e, "rest">>
  BY DEF Text, Pieces
<1>2. Separator \in Pieces
  BY DEF Pieces
<1>3. /\ Append(Text(e), Separator) \in Seq(Pieces)
      /\ Len(Append(Text(e), Separator)) = Len(Text(e)) + 1
      /\ \A i \in 1..Len(Text(e)) : Append(Text(e), Separator)[i] = Text(e)[i]
      /\ Append(Text(e), Separator)[Len(Text(e)) + 1] = Separator
  BY Zenon, <1>1, <1>2, AppendedPiece
<1>4. QED
  BY <1>1, <1>3

\* Three pieces make a line: in a file of whole lines, every line ends one.
LEMMA EndsWhole ==
  ASSUME NEW n \in Nat, n % 3 = 0, NEW from \in 0..n, NEW a \in from..n, a % 3 = 0, NEW b,
         \/ b = a + 3 /\ b <= n /\ b % 3 = 0
         \/ b = n /\ b = a + 1 /\ b % 3 = 1
         \/ b = n /\ b = a + 2 /\ b % 3 = 2
  PROVE  b \in 1..n /\ b % 3 = 0
OBVIOUS

\* A line of iter_jsonl is three pieces long; only the last one may be shorter.
LEMMA LineShape ==
  ASSUME TypeOK, ShapeInv, NEW from \in 0..Len(journal), NEW line \in Lines(from)
  PROVE  /\ line[1] \in from..Len(journal) /\ line[1] % 3 = 0
         /\ \/ line[2] = line[1] + 3 /\ line[2] <= Len(journal) /\ line[2] % 3 = 0
            \/ line[2] = Len(journal) /\ line[2] = line[1] + 1 /\ line[2] % 3 = 1
            \/ line[2] = Len(journal) /\ line[2] = line[1] + 2 /\ line[2] % 3 = 2
<1>1. journal \in Seq(Pieces) /\ Len(journal) \in Nat
  BY LenProperties DEF TypeOK, Pieces
<1>2. /\ line[1] \in from..Len(journal) /\ line[2] \in from..Len(journal)
      /\ line[1] < line[2] /\ LineStart(line[1]) /\ LineEnd(line[2])
      /\ \A n \in line[1]+1 .. line[2]-1 : journal[n] # Separator
  BY DEF Lines
<1> DEFINE s == line[1]  t == line[2]
<1>3. s \in Nat /\ t \in Nat
  BY <1>1, <1>2
<1>4. s % 3 = 0
  <2>1. CASE s = 0
    BY <2>1
  <2>2. CASE s # 0
    BY <1>1, <1>2, <1>3, <2>2 DEF LineStart, ShapeInv, Lined
  <2>3. QED
    BY <2>1, <2>2
<1>5. t <= s + 3
  <2> SUFFICES ASSUME t > s + 3 PROVE FALSE
    BY <1>3
  <2>1. s + 3 \in s + 1 .. t - 1 /\ s + 3 \in 1..Len(journal) /\ (s + 3) % 3 = 0
    BY <1>1, <1>2, <1>3, <1>4
  <2>2. journal[s + 3] = Separator
    BY <2>1 DEF ShapeInv, Lined
  <2>3. QED
    BY <1>2, <2>1, <2>2
<1>6. t \in {s + 1, s + 2, s + 3}
  BY <1>2, <1>3, <1>5
<1>7. t = s + 3 \/ t = Len(journal)
  <2>1. CASE t = Len(journal)
    BY <2>1
  <2>2. CASE journal[t] = Separator
    <3>1. t % 3 = 0
      BY <1>1, <1>2, <1>3, <2>2 DEF ShapeInv, Lined
    <3>2. QED
      BY SMTT(60), <1>3, <1>4, <1>6, <3>1
  <2>3. QED
    BY <1>2, <2>1, <2>2 DEF LineEnd
<1>8. (s + 1) % 3 = 1 /\ (s + 2) % 3 = 2 /\ (s + 3) % 3 = 0
  BY <1>3, <1>4, ThirdsCount
<1>9. CASE t = s + 3
  BY <1>1, <1>2, <1>3, <1>4, <1>8, <1>9
<1>10. CASE t = Len(journal) /\ t = s + 1
  BY <1>1, <1>2, <1>3, <1>4, <1>8, <1>10
<1>11. CASE t = Len(journal) /\ t = s + 2
  BY <1>1, <1>2, <1>3, <1>4, <1>8, <1>11
<1>12. QED
  BY <1>6, <1>7, <1>9, <1>10, <1>11

\* The three pieces in front of a separator are the line of an event.
LEMMA WholeLineParses ==
  ASSUME TypeOK, ShapeInv, NEW n \in 3..Len(journal), n % 3 = 0
  PROVE  /\ journal[n - 2][1] \in Events
         /\ Holds(<<n - 3, n>>, journal[n - 2][1])
         /\ <<n - 3, n>> \in Lines(0)
<1>1. journal \in Seq(Pieces) /\ Len(journal) \in Nat
  BY LenProperties DEF TypeOK, Pieces
<1> DEFINE e == journal[n - 2][1]
           part == SubSeq(journal, n - 3 + 1, n)
<1>2. /\ n - 2 \in 1..Len(journal) /\ (n - 2) % 3 = 1
      /\ n - 1 \in 1..Len(journal) /\ (n - 1) % 3 = 2
      /\ n - 3 \in 0..Len(journal) /\ (n - 3) % 3 = 0 /\ n \in n - 3 .. Len(journal)
  BY <1>1
<1>3. /\ e \in Events /\ journal[n - 2] = <<e, "first">> /\ journal[n] = Separator
      /\ journal[n - 1] = <<e, "rest">>
  <2>1. e \in Events /\ journal[n - 2] = <<e, "first">>
    <3>1. (n - 2) % 3 # 0
      BY <1>1, <1>2
    <3>2. e \in Events
      BY <1>2, <3>1, PieceAt
    <3>3. QED
      BY <1>2, <3>2 DEF ShapeInv, Lined
  <2>2. journal[n] = Separator
    BY <1>1 DEF ShapeInv, Lined
  <2>3. journal[n - 1] = <<journal[n - 1 - 1][1], "rest">>
    BY <1>2 DEF ShapeInv, Lined
  <2>4. n - 1 - 1 = n - 2
    BY <1>1
  <2>5. QED
    BY <2>1, <2>2, <2>3, <2>4
<1>4. /\ part \in Seq(Pieces) /\ Len(part) = n - (n - 3)
      /\ \A i \in 1..n - (n - 3) : part[i] = journal[n - 3 + i]
  BY <1>1, <1>2, PartOfJournal
<1>5. Len(part) = 3 /\ part[1] = <<e, "first">> /\ part[2] = <<e, "rest">> /\ part[3] = Separator
  BY <1>1, <1>2, <1>3, <1>4
<1> HIDE DEF e, part
<1>6. /\ Append(Text(e), Separator) \in Seq(Pieces)
      /\ Len(part) = Len(Append(Text(e), Separator))
      /\ \A i \in 1..3 : part[i] = Append(Text(e), Separator)[i]
  <2>1. \A i \in 1..3 : i = 1 \/ i = 2 \/ i = 3
    OBVIOUS
  <2>2. QED
    BY Zenon, <1>3, <1>5, <2>1, LineOf
<1>7. part = Append(Text(e), Separator)
  BY <1>4, <1>5, <1>6, SeqEqual
<1>8. Holds(<<n - 3, n>>, e)
  BY <1>7 DEF Holds, part
<1>9. <<n - 3, n>> \in Lines(0)
  <2>1. LineStart(n - 3)
    BY <1>1, <1>2 DEF LineStart, ShapeInv, Lined
  <2>2. \A k \in n - 3 + 1 .. n - 1 : journal[k] # Separator
    <3>1. \A k \in n - 3 + 1 .. n - 1 : k \in 1..Len(journal) /\ k % 3 # 0
      BY <1>1, <1>2
    <3>2. QED
      BY <3>1 DEF ShapeInv, Lined
  <2>3. n - 3 \in 0..Len(journal) /\ n \in 0..Len(journal) /\ n - 3 < n
    BY <1>1
  <2>4. QED
    BY <1>3, <2>1, <2>2, <2>3 DEF Lines, LineEnd
<1>10. QED
  BY <1>3, <1>8, <1>9 DEF e

\* A complete event without its separator is one, too.
LEMMA BareLineParses ==
  ASSUME TypeOK, ShapeInv, Len(journal) % 3 = 2
  PROVE  Parses(<<Len(journal) - 2, Len(journal)>>)
<1>1. journal \in Seq(Pieces) /\ Len(journal) \in Nat
  BY LenProperties DEF TypeOK, Pieces
<1> DEFINE n == Len(journal)
           e == journal[n - 1][1]
           part == SubSeq(journal, n - 2 + 1, n)
<1>2. /\ n >= 2 /\ n - 1 \in 1..n /\ (n - 1) % 3 = 1 /\ n \in 1..n
      /\ n - 2 \in 0..n /\ n \in n - 2 .. n
  BY <1>1
<1>3. e \in Events /\ journal[n - 1] = <<e, "first">> /\ journal[n] = <<e, "rest">>
  BY <1>1, <1>2, PieceAt DEF ShapeInv, Lined
<1>4. /\ part \in Seq(Pieces) /\ Len(part) = n - (n - 2)
      /\ \A i \in 1..n - (n - 2) : part[i] = journal[n - 2 + i]
  BY <1>1, <1>2, PartOfJournal
<1>5. Len(part) = 2 /\ part[1] = <<e, "first">> /\ part[2] = <<e, "rest">>
  BY <1>1, <1>2, <1>3, <1>4
<1> HIDE DEF e, part
<1>6. Text(e) \in Seq(Pieces) /\ Len(part) = Len(Text(e)) /\ \A i \in 1..2 : part[i] = Text(e)[i]
  <2>1. \A i \in 1..2 : i = 1 \/ i = 2
    OBVIOUS
  <2>2. QED
    BY Zenon, <1>3, <1>5, <2>1, LineOf
<1>7. part = Text(e)
  BY <1>4, <1>5, <1>6, SeqEqual
<1>8. QED
  BY <1>3, <1>7 DEF Parses, Holds, part

\* A torn text is not an event.
LEMMA TornLineDoesNotParse ==
  ASSUME TypeOK, ShapeInv, Len(journal) % 3 = 1
  PROVE  ~Parses(<<Len(journal) - 1, Len(journal)>>)
<1>1. journal \in Seq(Pieces) /\ Len(journal) \in Nat
  BY LenProperties DEF TypeOK, Pieces
<1> DEFINE n == Len(journal)
<1>2. n - 1 \in 0..n /\ n \in n - 1 .. n
  BY <1>1
<1>3. Len(SubSeq(journal, n - 1 + 1, n)) = n - (n - 1)
  BY <1>1, <1>2, PartOfJournal
<1>4. Len(SubSeq(journal, n - 1 + 1, n)) = 1
  BY <1>1, <1>3
<1>5. \A e \in Events : Len(Text(e)) = 2 /\ Len(Append(Text(e), Separator)) = 3
  BY LineOf
<1>6. \A e \in Events : SubSeq(journal, n - 1 + 1, n) \notin {Text(e), Append(Text(e), Separator)}
  <2> SUFFICES ASSUME NEW e \in Events,
                      SubSeq(journal, n - 1 + 1, n) \in {Text(e), Append(Text(e), Separator)}
               PROVE  FALSE
    OBVIOUS
  <2>1. CASE SubSeq(journal, n - 1 + 1, n) = Text(e)
    BY <1>4, <1>5, <2>1
  <2>2. CASE SubSeq(journal, n - 1 + 1, n) = Append(Text(e), Separator)
    BY <1>4, <1>5, <2>2
  <2>3. QED
    BY <2>1, <2>2
<1>7. QED
  BY <1>6 DEF Parses, Holds

\* The repair starts to validate between two lines.
LEMMA TrustedPart ==
  ASSUME TypeOK, ShapeInv
  PROVE  Trusted \in 0..Len(journal) /\ Trusted % 3 = 0
<1>1. journal \in Seq(Pieces) /\ Len(journal) \in Nat
  BY LenProperties DEF TypeOK, Pieces
<1>2. CASE checkpoint \in 0..Len(journal)
  BY <1>1, <1>2 DEF Trusted, ShapeInv, NoCheckpoint
<1>3. CASE checkpoint \notin 0..Len(journal) /\ journal = <<>>
  BY <1>1, <1>3 DEF Trusted
<1>4. CASE checkpoint \notin 0..Len(journal) /\ journal # <<>>
  <2> DEFINE n == Len(journal)
             Start(k) == LineStart(k) /\ \A m \in k+1 .. n-1 : ~LineStart(m)
  <2>1. n >= 1
    BY <1>1, <1>4, EmptySeq
  <2>2. \A k \in 1..n : LineStart(k) <=> k % 3 = 0
    BY <1>1 DEF LineStart, ShapeInv, Lined
  <2>3. LineStart(0)
    BY DEF LineStart
  <2>4. PICK k \in 0..n-1 : k % 3 = 0 /\ k + 3 >= n
    <3>1. CASE n % 3 = 0
      <4>1. n - 3 \in 0..n-1 /\ (n - 3) % 3 = 0 /\ n - 3 + 3 >= n
        BY <1>1, <2>1, <3>1
      <4>2. QED
        BY <4>1
    <3>2. CASE n % 3 = 1
      <4>1. n - 1 \in 0..n-1 /\ (n - 1) % 3 = 0 /\ n - 1 + 3 >= n
        BY <1>1, <2>1, <3>2
      <4>2. QED
        BY <4>1
    <3>3. CASE n % 3 = 2
      <4>1. n - 2 \in 0..n-1 /\ (n - 2) % 3 = 0 /\ n - 2 + 3 >= n
        BY <1>1, <2>1, <3>3
      <4>2. QED
        BY <4>1
    <3>4. QED
      BY <1>1, <3>1, <3>2, <3>3, Thirds
  <2>5. LineStart(k)
    BY <1>1, <2>2, <2>3, <2>4
  <2>6. \A m \in k+1 .. n-1 : ~LineStart(m)
    <3> SUFFICES ASSUME NEW m \in k+1 .. n-1, LineStart(m) PROVE FALSE
      OBVIOUS
    <3>1. m % 3 = 0 /\ m \in Nat
      BY <1>1, <2>2, <2>4
    <3>2. QED
      BY <1>1, <2>4, <3>1, ThirdsApart
  <2>7. \E j \in 0..n-1 : Start(j)
    BY <2>4, <2>5, <2>6
  <2>8. LastLineStart \in 0..n-1 /\ Start(LastLineStart)
    BY <2>7 DEF LastLineStart
  <2>9. LastLineStart % 3 = 0
    BY <1>1, <2>2, <2>8
  <2>10. QED
    BY <1>1, <1>4, <2>8, <2>9 DEF Trusted
<1>5. QED
  BY <1>2, <1>3, <1>4

\* repair_jsonl_tail finds nothing to refuse, and leaves whole lines: a separator is
\* added to a complete event, a torn one is cut off.
LEMMA RepairOutcome ==
  ASSUME TypeOK, ShapeInv, Repair
  PROVE  /\ pc' \in {AfterRepair, "bless"}
         /\ \/ Len(journal) % 3 = 0 /\ journal' = journal
            \/ Len(journal) % 3 = 2 /\ journal' = Append(journal, Separator)
            \/ Len(journal) % 3 = 1 /\ journal' = SubSeq(journal, 1, Len(journal) - 1)
<1> DEFINE n == Len(journal)
<1>1. journal \in Seq(Pieces) /\ n \in Nat /\ Trusted \in 0..n /\ Trusted % 3 = 0
  BY LenProperties, TrustedPart DEF TypeOK, Pieces
<1>2. ASSUME NEW line \in Lines(Trusted)
      PROVE  line = <<line[1], line[2]>>
  BY <1>2 DEF Lines
<1>3. ASSUME NEW line \in Invalid
      PROVE  line[2] = n /\ line[1] = n - 1 /\ n % 3 = 1
  <2>1. line \in Lines(Trusted) /\ ~Parses(line)
    BY DEF Invalid
  <2>2. /\ line[1] \in Trusted..n /\ line[1] % 3 = 0
        /\ \/ line[2] = line[1] + 3 /\ line[2] <= n /\ line[2] % 3 = 0
           \/ line[2] = n /\ line[2] = line[1] + 1 /\ line[2] % 3 = 1
           \/ line[2] = n /\ line[2] = line[1] + 2 /\ line[2] % 3 = 2
    BY <1>1, <2>1, LineShape
  <2>3. CASE line[2] = line[1] + 3 /\ line[2] <= n /\ line[2] % 3 = 0
    <3>1. line[2] \in 3..n /\ line[2] - 3 = line[1]
      BY <1>1, <2>2, <2>3
    <3>2. /\ journal[line[2] - 2][1] \in Events
          /\ Holds(<<line[2] - 3, line[2]>>, journal[line[2] - 2][1])
      BY <2>3, <3>1, WholeLineParses
    <3>3. Parses(line)
      BY <1>2, <2>1, <3>1, <3>2 DEF Parses
    <3>4. QED
      BY <2>1, <3>3
  <2>4. CASE line[2] = n /\ line[2] = line[1] + 1 /\ line[2] % 3 = 1
    BY <1>1, <2>2, <2>4
  <2>5. CASE line[2] = n /\ line[2] = line[1] + 2 /\ line[2] % 3 = 2
    <3>1. Parses(<<n - 2, n>>) /\ line[1] = n - 2
      BY <1>1, <2>2, <2>5, BareLineParses
    <3>2. Parses(line)
      BY <1>2, <2>1, <2>5, <3>1
    <3>3. QED
      BY <2>1, <3>2
  <2>6. QED
    BY <2>2, <2>3, <2>4, <2>5
<1>4. ASSUME NEW k \in Nat, k % 3 = 0, k <= n, k + 1 = n \/ k + 2 = n
      PROVE  <<k, n>> \in Lines(Trusted) /\ journal[n] # Separator
  <2>1. k >= Trusted
    BY <1>1, <1>4, ThirdsApart
  <2>2. LineStart(k)
    BY <1>1, <1>4 DEF LineStart, ShapeInv, Lined
  <2>3. \A i \in k + 1 .. n : i \in 1..n /\ i % 3 # 0
    BY <1>1, <1>4
  <2>4. \A i \in k + 1 .. n : journal[i] # Separator
    BY <2>3 DEF ShapeInv, Lined
  <2>5. k < n /\ n \in k + 1 .. n /\ \A i \in k + 1 .. n - 1 : i \in k + 1 .. n
    BY <1>1, <1>4
  <2>6. QED
    BY SMTT(60), <1>1, <1>4, <2>1, <2>2, <2>4, <2>5 DEF Lines, LineEnd
<1>5. ASSUME NEW line \in Lines(Trusted), n % 3 = 0 PROVE ~Bare(line)
  <2>1. /\ line[1] \in Trusted..n /\ line[1] % 3 = 0
        /\ \/ line[2] = line[1] + 3 /\ line[2] <= n /\ line[2] % 3 = 0
           \/ line[2] = n /\ line[2] = line[1] + 1 /\ line[2] % 3 = 1
           \/ line[2] = n /\ line[2] = line[1] + 2 /\ line[2] % 3 = 2
    BY <1>1, LineShape
  <2>2. line[2] \in 1..n /\ line[2] % 3 = 0
    BY Zenon, <1>1, <1>5, <2>1, EndsWhole
  <2>3. QED
    BY <2>2 DEF Bare, ShapeInv, Lined
<1>6. ~\E line \in Invalid : line[2] # n
  BY <1>3
<1>7. CASE checkpoint = n
  <2>1. pc' = AfterRepair /\ journal' = journal
    BY <1>7 DEF Repair
  <2>2. n % 3 = 0
    BY <1>1, <1>7 DEF ShapeInv, Lined, NoCheckpoint
  <2>3. QED
    BY <2>1, <2>2
<1>8. CASE checkpoint # n /\ Invalid = {}
  <2>1. pc' = "bless" /\ AddSeparator
    BY Zenon, <1>6, <1>8 DEF Repair
  <2>2. CASE n % 3 = 0
    <3>1. ~\E line \in Lines(Trusted) : Bare(line)
      BY <1>5, <2>2
    <3>2. QED
      BY <2>1, <2>2, <3>1 DEF AddSeparator
  <2>3. CASE n % 3 = 1 /\ n >= 1 /\ (n - 1) % 3 = 0
    <3>1. <<n - 1, n>> \in Lines(Trusted)
      BY <1>1, <1>4, <2>3
    <3>2. <<n - 1, n>> \in Invalid
      BY <2>3, <3>1, TornLineDoesNotParse DEF Invalid
    <3>3. QED
      BY <1>8, <3>2
  <2>4. CASE n % 3 = 2 /\ n >= 2 /\ (n - 2) % 3 = 0
    <3>1. <<n - 2, n>> \in Lines(Trusted) /\ journal[n] # Separator
      BY <1>1, <1>4, <2>4
    <3>2. \E line \in Lines(Trusted) : Bare(line)
      BY <3>1 DEF Bare
    <3>3. QED
      BY <2>1, <2>4, <3>2 DEF AddSeparator
  <2>5. QED
    BY <1>1, <2>2, <2>3, <2>4, Thirds
<1>9. CASE checkpoint # n /\ Invalid # {}
  <2>1. pc' = "bless" /\ \E line \in Invalid : Detach(line)
    BY Zenon, <1>6, <1>9 DEF Repair
  <2>2. PICK line \in Invalid : journal' = SubSeq(journal, 1, line[1])
    BY <2>1 DEF Detach
  <2>3. line[1] = n - 1 /\ n % 3 = 1
    BY <1>3
  <2>4. QED
    BY <2>1, <2>2, <2>3
<1>10. QED
  BY <1>7, <1>8, <1>9

--------------------------------------------------------------------------------
\* What the calls do to the lines.

\* What remains of lines up to an offset.
LEMMA LinedPrefix ==
  ASSUME NEW s \in Seq(Pieces), Lined(s), NEW n \in 0..Len(s)
  PROVE  /\ SubSeq(s, 1, n) \in Seq(Pieces) /\ Len(SubSeq(s, 1, n)) = n
         /\ \A i \in 1..n : SubSeq(s, 1, n)[i] = s[i]
         /\ Lined(SubSeq(s, 1, n))
<1>1. Len(s) \in Nat /\ \A i \in 1..n : s[i] \in Pieces
  BY LenProperties
<1>2. /\ SubSeq(s, 1, n) \in Seq(Pieces)
      /\ Len(SubSeq(s, 1, n)) = IF 1 <= n THEN n - 1 + 1 ELSE 0
      /\ \A i \in 1..n - 1 + 1 : SubSeq(s, 1, n)[i] = s[1 + i - 1]
  BY <1>1, SubSeqProperties
<1>3. /\ SubSeq(s, 1, n) \in Seq(Pieces) /\ Len(SubSeq(s, 1, n)) = n
      /\ \A i \in 1..n : SubSeq(s, 1, n)[i] = s[i]
  BY <1>1, <1>2
<1>4. \A i \in 1..n : i \in 1..Len(s) /\ (i % 3 = 2 => i - 1 \in 1..n)
  BY <1>1
<1>5. QED
  BY <1>3, <1>4 DEF Lined

\* The beginning of a line behind whole ones, or all of it.
LEMMA LinedAppend ==
  ASSUME NEW s \in Seq(Pieces), Lined(s), Len(s) % 3 = 0,
         NEW e \in Events, NEW t \in Seq(Pieces), Len(t) \in 1..3,
         \A i \in 1..Len(t) : t[i] = Append(Text(e), Separator)[i]
  PROVE  /\ s \o t \in Seq(Pieces) /\ Len(s \o t) = Len(s) + Len(t)
         /\ \A i \in 1..Len(s) : (s \o t)[i] = s[i]
         /\ (s \o t)[Len(s) + 1] = <<e, "first">>
         /\ Lined(s \o t)
<1>0. PICK k \in 1..3 : k = Len(t)
  OBVIOUS
<1>1. Len(s) \in Nat /\ k \in Nat /\ k <= 3
  BY LenProperties
<1>2. /\ s \o t \in Seq(Pieces) /\ Len(s \o t) = Len(s) + k
      /\ \A i \in 1..Len(s) + k : (s \o t)[i] =
           IF i <= Len(s) THEN s[i] ELSE t[i - Len(s)]
  BY Zenon, <1>0, ConcatProperties
<1> DEFINE j == s \o t
<1>3. \A i \in 1..Len(s) : j[i] = s[i]
  BY <1>1, <1>2
<1>4. \A i \in 1..k : j[Len(s) + i] = t[i]
  BY <1>1, <1>2
<1>5. /\ j[Len(s) + 1] = <<e, "first">>
      /\ k >= 2 => j[Len(s) + 2] = <<e, "rest">>
      /\ k >= 3 => j[Len(s) + 3] = Separator
  <2>1. \A i \in 1..k : t[i] = Append(Text(e), Separator)[i]
    BY Zenon, <1>0
  <2>2. 1 \in 1..k /\ (k >= 2 => 2 \in 1..k) /\ (k >= 3 => 3 \in 1..k)
    BY <1>1
  <2>3. QED
    BY Zenon, <1>4, <2>1, <2>2, LineOf
<1>6. <<e, "first">> # Separator /\ <<e, "rest">> # Separator
  BY DEF Separator
<1> HIDE DEF j
<1>7. Lined(j)
  <2> SUFFICES ASSUME NEW i \in 1..Len(s) + k
               PROVE  /\ i % 3 = 0 <=> j[i] = Separator
                      /\ i % 3 = 1 => j[i] = <<j[i][1], "first">>
                      /\ i % 3 = 2 => j[i] = <<j[i - 1][1], "rest">>
    BY <1>2 DEF Lined, j
  <2>1. CASE i <= Len(s)
    <3>1. i \in 1..Len(s) /\ j[i] = s[i] /\ (i % 3 = 2 => j[i - 1] = s[i - 1])
      BY <1>1, <1>3, <2>1
    <3>2. QED
      BY <3>1 DEF Lined
  <2>2. CASE i = Len(s) + 1
    <3>1. i % 3 = 1
      BY <1>1, <2>2, ThirdsCount
    <3>2. j[i] = <<e, "first">>
      BY Zenon, <1>5, <2>2
    <3>3. j[i][1] = e /\ j[i] # Separator
      BY <1>6, <3>2
    <3>4. QED
      BY <3>1, <3>2, <3>3
  <2>3. CASE i = Len(s) + 2 /\ k >= 2
    <3>1. i % 3 = 2 /\ i - 1 = Len(s) + 1
      BY <1>1, <2>3, ThirdsCount
    <3>2. j[i] = <<e, "rest">> /\ j[i - 1] = <<e, "first">>
      BY Zenon, <1>5, <2>3, <3>1
    <3>3. j[i - 1][1] = e /\ j[i] # Separator
      BY <1>6, <3>2
    <3>4. QED
      BY <3>1, <3>2, <3>3
  <2>4. CASE i = Len(s) + 3 /\ k >= 3
    <3>1. i % 3 = 0
      BY <1>1, <2>4, ThirdsCount
    <3>2. QED
      BY <1>5, <2>4, <3>1
  <2>5. QED
    BY SMTT(60), <1>1, <2>1, <2>2, <2>3, <2>4
<1>8. QED
  BY <1>0, <1>1, <1>2, <1>3, <1>5, <1>7 DEF j

\* A separator behind a complete event.
LEMMA LinedSeparator ==
  ASSUME NEW s \in Seq(Pieces), Lined(s), Len(s) % 3 = 2
  PROVE  /\ Append(s, Separator) \in Seq(Pieces)
         /\ Len(Append(s, Separator)) = Len(s) + 1
         /\ \A i \in 1..Len(s) : Append(s, Separator)[i] = s[i]
         /\ Lined(Append(s, Separator))
<1>1. Len(s) \in Nat /\ Separator \in Pieces
  BY LenProperties DEF Pieces
<1>2. /\ Append(s, Separator) \in Seq(Pieces)
      /\ Len(Append(s, Separator)) = Len(s) + 1
      /\ \A i \in 1..Len(s) : Append(s, Separator)[i] = s[i]
      /\ Append(s, Separator)[Len(s) + 1] = Separator
  BY Zenon, <1>1, AppendedPiece
<1> DEFINE j == Append(s, Separator)
<1> HIDE DEF j
<1>3. ASSUME NEW i \in 1..Len(s) + 1
      PROVE  /\ i % 3 = 0 <=> j[i] = Separator
             /\ i % 3 = 1 => j[i] = <<j[i][1], "first">>
             /\ i % 3 = 2 => j[i] = <<j[i - 1][1], "rest">>
  <2>1. CASE i <= Len(s)
    <3>1. i \in 1..Len(s) /\ j[i] = s[i] /\ (i % 3 = 2 => j[i - 1] = s[i - 1])
      BY <1>1, <1>2, <2>1 DEF j
    <3>2. QED
      BY <3>1 DEF Lined
  <2>2. CASE i = Len(s) + 1
    <3>1. i % 3 = 0
      BY <1>1, <2>2
    <3>2. QED
      BY <1>2, <2>2, <3>1 DEF j
  <2>3. QED
    BY <1>1, <2>1, <2>2
<1>4. QED
  BY <1>2, <1>3 DEF Lined, j

--------------------------------------------------------------------------------
\* The steps, one part of the inductive invariant after the other.

\* An interrupted call leaves the lines as they were, or the beginning of one behind
\* them; if it is one that ends with the checkpoint, that may have been written.
LEMMA InterruptedCall ==
  ASSUME IInv, Interrupted
  PROVE  /\ journal' \in Seq(Pieces) /\ Lined(journal') /\ Len(journal') >= Len(journal)
         /\ \A i \in 1..Len(journal) : journal'[i] = journal[i]
         /\ \/ checkpoint' = checkpoint
            \/ checkpoint' = Len(journal) /\ Len(journal) % 3 = 0
<1>1. journal \in Seq(Pieces) /\ Len(journal) \in Nat /\ Lined(journal)
  BY LenProperties DEF IInv, TypeOK, ShapeInv, Pieces
<1>2. CASE UNCHANGED journal
  <2>1. checkpoint' = checkpoint \/ (checkpoint' = Len(journal) /\ Len(journal) % 3 = 0)
    BY Zenon DEF Interrupted, IInv, ShapeInv
  <2>2. QED
    BY <1>1, <1>2, <2>1
<1>3. CASE pc = "append" /\ UNCHANGED checkpoint
           /\ \E n \in 1..2 : journal' = journal \o SubSeq(Text(event), 1, n)
  <2>1. event \in Events /\ Len(journal) % 3 = 0
    BY <1>3 DEF IInv, AckInv, ShapeInv
  <2>2. PICK n \in 1..2 : journal' = journal \o SubSeq(Text(event), 1, n)
    BY <1>3
  <2>3. /\ SubSeq(Text(event), 1, n) \in Seq(Pieces)
        /\ Len(SubSeq(Text(event), 1, n)) = n
        /\ \A i \in 1..n : SubSeq(Text(event), 1, n)[i] = Text(event)[i]
    <3>1. Text(event) \in Seq(Pieces) /\ Len(Text(event)) = 2
      BY <2>1, LineOf
    <3>2. \A i \in 1..n : Text(event)[i] \in Pieces
      BY <3>1
    <3>3. /\ SubSeq(Text(event), 1, n) \in Seq(Pieces)
          /\ Len(SubSeq(Text(event), 1, n)) = IF 1 <= n THEN n - 1 + 1 ELSE 0
          /\ \A i \in 1..n - 1 + 1 : SubSeq(Text(event), 1, n)[i] = Text(event)[1 + i - 1]
      BY <3>2, SubSeqProperties
    <3>4. QED
      BY <3>3
  <2>4. \A i \in 1..n : SubSeq(Text(event), 1, n)[i] = Append(Text(event), Separator)[i]
    <3>1. \A i \in 1..2 : i = 1 \/ i = 2
      OBVIOUS
    <3>2. \A i \in 1..2 : Text(event)[i] = Append(Text(event), Separator)[i]
      BY Zenon, <2>1, <3>1, LineOf
    <3>3. \A i \in 1..n : i \in 1..2
      OBVIOUS
    <3>4. QED
      BY <2>3, <3>2, <3>3
  <2>5. n \in 1..3
    OBVIOUS
  <2> DEFINE t == SubSeq(Text(event), 1, n)
  <2>6. /\ journal \o t \in Seq(Pieces) /\ Len(journal \o t) = Len(journal) + n
        /\ \A i \in 1..Len(journal) : (journal \o t)[i] = journal[i]
        /\ Lined(journal \o t)
    <3> HIDE DEF t
    <3>1. /\ t \in Seq(Pieces) /\ Len(t) = n
          /\ \A i \in 1..n : t[i] = Append(Text(event), Separator)[i]
      BY <2>3, <2>4 DEF t
    <3>2. Len(t) \in 1..3 /\ \A i \in 1..Len(t) : t[i] = Append(Text(event), Separator)[i]
      BY Zenon, <2>5, <3>1
    <3>3. /\ journal \o t \in Seq(Pieces) /\ Len(journal \o t) = Len(journal) + Len(t)
          /\ \A i \in 1..Len(journal) : (journal \o t)[i] = journal[i]
          /\ Lined(journal \o t)
      BY <1>1, <2>1, <3>1, <3>2, LinedAppend
    <3>4. QED
      BY <3>1, <3>3
  <2>7. QED
    BY <1>1, <1>3, <2>2, <2>6
<1>4. QED
  BY <1>2, <1>3 DEF Interrupted

\* append_poll_jsonl writes the line of its event behind the others.
LEMMA AppendedLine ==
  ASSUME IInv, AppendLine
  PROVE  /\ journal' \in Seq(Pieces) /\ Lined(journal') /\ Len(journal') = Len(journal) + 3
         /\ \A i \in 1..Len(journal) : journal'[i] = journal[i]
         /\ journal'[Len(journal) + 1][1] = event
         /\ event \in Events /\ Len(journal) % 3 = 0
<1>1. journal \in Seq(Pieces) /\ Len(journal) \in Nat /\ Lined(journal)
  BY LenProperties DEF IInv, TypeOK, ShapeInv, Pieces
<1>2. event \in Events /\ Len(journal) % 3 = 0
  BY DEF AppendLine, IInv, AckInv, ShapeInv
<1>3. journal' = journal \o Append(Text(event), Separator)
  BY DEF AppendLine
<1>4. Append(Text(event), Separator) \in Seq(Pieces) /\ Len(Append(Text(event), Separator)) = 3
  BY <1>2, LineOf
<1> DEFINE t == Append(Text(event), Separator)
<1>5. /\ journal \o t \in Seq(Pieces) /\ Len(journal \o t) = Len(journal) + 3
      /\ \A i \in 1..Len(journal) : (journal \o t)[i] = journal[i]
      /\ (journal \o t)[Len(journal) + 1] = <<event, "first">>
      /\ Lined(journal \o t)
  <2>1. \A i \in 1..3 : t[i] = Append(Text(event), Separator)[i]
    OBVIOUS
  <2> HIDE DEF t
  <2>2. t \in Seq(Pieces) /\ Len(t) = 3
    BY <1>4 DEF t
  <2>3. Len(t) \in 1..3 /\ \A i \in 1..Len(t) : t[i] = Append(Text(event), Separator)[i]
    <3>1. 3 \in 1..3
      OBVIOUS
    <3>2. QED
      BY Zenon, <2>1, <2>2, <3>1
  <2>4. /\ journal \o t \in Seq(Pieces) /\ Len(journal \o t) = Len(journal) + Len(t)
        /\ \A i \in 1..Len(journal) : (journal \o t)[i] = journal[i]
        /\ (journal \o t)[Len(journal) + 1] = <<event, "first">>
        /\ Lined(journal \o t)
    BY <1>1, <1>2, <2>2, <2>3, LinedAppend
  <2>5. QED
    BY <2>2, <2>4
<1>6. QED
  BY <1>2, <1>3, <1>5

\* repair_jsonl_tail leaves whole lines, and every line that was whole.
LEMMA RepairedLines ==
  ASSUME IInv, Repair
  PROVE  /\ journal' \in Seq(Pieces) /\ Lined(journal') /\ Len(journal') % 3 = 0
         /\ pc' \in {AfterRepair, "bless"}
         /\ \/ journal' = journal
            \/ synced' = Len(journal') /\ Len(journal') >= Len(journal) - 1
         /\ \A n \in 1..Len(journal) : n % 3 = 0 => n <= Len(journal')
         /\ \A n \in 1..Len(journal) : n <= Len(journal') => journal'[n] = journal[n]
<1>1. journal \in Seq(Pieces) /\ Len(journal) \in Nat /\ Lined(journal) /\ synced \in Nat
  BY LenProperties DEF IInv, TypeOK, ShapeInv, Pieces
<1>2. pc' \in {AfterRepair, "bless"}
  BY RepairOutcome DEF IInv
<1>3. journal' = journal \/ synced' = Len(journal')
  BY DEF Repair
<1>4. CASE Len(journal) % 3 = 0 /\ journal' = journal
  BY <1>1, <1>2, <1>4
<1>5. CASE Len(journal) % 3 = 2 /\ journal' = Append(journal, Separator)
  <2>1. /\ journal' \in Seq(Pieces) /\ Len(journal') = Len(journal) + 1
        /\ \A i \in 1..Len(journal) : journal'[i] = journal[i]
        /\ Lined(journal')
    BY <1>1, <1>5, LinedSeparator
  <2>2. QED
    BY <1>1, <1>2, <1>3, <1>5, <2>1
<1>6. CASE Len(journal) % 3 = 1 /\ journal' = SubSeq(journal, 1, Len(journal) - 1)
  <2>1. Len(journal) - 1 \in 0..Len(journal)
    BY <1>1, <1>6
  <2>2. /\ journal' \in Seq(Pieces) /\ Len(journal') = Len(journal) - 1
        /\ \A i \in 1..Len(journal) - 1 : journal'[i] = journal[i]
        /\ Lined(journal')
    BY <1>1, <1>6, <2>1, LinedPrefix
  <2>3. Len(journal') % 3 = 0 /\ \A n \in 1..Len(journal) : n % 3 = 0 => n <= Len(journal')
    <3>1. (Len(journal) - 1) % 3 = 0
      BY <1>1, <1>6, Thirds
    <3>2. \A n \in 1..Len(journal) : n % 3 = 0 => n <= Len(journal) - 1
      BY <1>1, <1>6
    <3>3. QED
      BY <2>2, <3>1, <3>2
  <2>4. journal' # journal
    BY <1>1, <2>2
  <2>5. synced' = Len(journal') /\ Len(journal') >= Len(journal) - 1
    BY <1>1, <1>3, <2>2, <2>4
  <2>6. \A n \in 1..Len(journal) : n <= Len(journal') => journal'[n] = journal[n]
    BY <1>1, <2>2
  <2>7. QED
    BY <1>2, <2>2, <2>3, <2>5, <2>6
<1>7. QED
  BY <1>4, <1>5, <1>6, RepairOutcome DEF IInv

\* Every call keeps the types.
LEMMA NextTyped == IInv /\ [Next]_vars => TypeOK'
<1> SUFFICES ASSUME IInv, [Next]_vars PROVE TypeOK'
  OBVIOUS
<1>0. /\ TypeOK /\ journal \in Seq(Pieces) /\ Len(journal) \in Nat
      /\ synced \in 0..Len(journal) /\ Lined(journal)
  BY LenProperties DEF IInv, TypeOK, ShapeInv, Pieces
<1> USE DEF Pieces
<1>1. CASE Attempt
  <2>1. event' \in 0..MaxEvents
    BY <1>0, <1>1, BoundsAssumption DEF Attempt, TypeOK
  <2>2. QED
    BY <1>0, <1>1, <2>1 DEF Attempt, TypeOK
<1>2. CASE Repair
  <2>1. journal' \in Seq(Pieces) /\ pc' \in {AfterRepair, "bless"}
    BY <1>2, RepairedLines
  <2>2. Len(journal') \in Nat
    BY <2>1, LenProperties
  <2>3. synced' \in 0..Len(journal')
    <3>1. CASE journal' = journal
      BY <1>0, <1>2, <3>1 DEF Repair
    <3>2. CASE journal' # journal
      BY <1>2, <2>2, <3>2 DEF Repair
    <3>3. QED
      BY <3>1, <3>2
  <2>4. UNCHANGED <<checkpoint, event, appending, acked, faults, crashes>>
    BY <1>2 DEF Repair
  <2>5. QED
    BY <1>0, <2>1, <2>3, <2>4 DEF TypeOK, AfterRepair
<1>3. CASE Bless
  BY <1>0, <1>3 DEF Bless, AfterRepair, TypeOK
<1>4. CASE AppendLine
  <2>1. journal' \in Seq(Pieces) /\ Len(journal') = Len(journal) + 3
    BY <1>4, AppendedLine
  <2>2. synced' \in 0..Len(journal')
    BY <1>0, <1>4, <2>1 DEF AppendLine
  <2>3. QED
    BY <1>0, <1>4, <2>1, <2>2 DEF AppendLine, TypeOK
<1>5. CASE Fsync
  BY <1>0, <1>5 DEF Fsync, TypeOK
<1>6. CASE WriteCheckpoint
  <2>1. event \in Events
    BY <1>6 DEF WriteCheckpoint, IInv, AckInv
  <2>2. QED
    BY <1>0, <1>6, <2>1 DEF WriteCheckpoint, TypeOK
<1>7. ASSUME Interrupted, synced' = synced
      PROVE  /\ journal' \in Seq(Pieces) /\ synced' \in 0..Len(journal')
             /\ checkpoint' \in {NoCheckpoint} \cup Nat
  <2>1. journal' \in Seq(Pieces) /\ Len(journal') >= Len(journal)
    BY <1>7, InterruptedCall
  <2>2. Len(journal') \in Nat
    BY <2>1, LenProperties
  <2>3. checkpoint' \in {NoCheckpoint} \cup Nat
    BY <1>0, <1>7, InterruptedCall DEF TypeOK
  <2>4. QED
    BY <1>0, <1>7, <2>1, <2>2, <2>3
<1>8. CASE Raise
  <2>1. /\ journal' \in Seq(Pieces) /\ synced' \in 0..Len(journal')
        /\ checkpoint' \in {NoCheckpoint} \cup Nat
    BY <1>7, <1>8 DEF Raise
  <2>2. faults' \in 0..MaxFaults
    BY <1>0, <1>8, BoundsAssumption DEF Raise, TypeOK
  <2>3. QED
    BY <1>0, <1>8, <2>1, <2>2 DEF Raise, TypeOK
<1>9. ASSUME Restarting
      PROVE  pc' = "repair" /\ appending' = FALSE /\ crashes' \in 0..MaxCrashes
  BY <1>0, <1>9, BoundsAssumption DEF Restarting, TypeOK
<1>10. CASE Kill
  <2>1. /\ journal' \in Seq(Pieces) /\ synced' \in 0..Len(journal')
        /\ checkpoint' \in {NoCheckpoint} \cup Nat
    BY <1>7, <1>10 DEF Kill
  <2>2. QED
    BY <1>0, <1>9, <1>10, <2>1 DEF Kill, TypeOK
<1>11. CASE PowerLoss
  <2>1. PICK n \in synced..Len(journal) : journal' = SubSeq(journal, 1, n)
    BY <1>11 DEF PowerLoss
  <2>2. n \in 0..Len(journal)
    BY <1>0
  <2>3. journal' \in Seq(Pieces) /\ Len(journal') = n
    BY <1>0, <2>1, <2>2, LinedPrefix
  <2>4. synced' \in 0..Len(journal')
    BY <1>11, <2>2, <2>3 DEF PowerLoss
  <2>5. QED
    BY <1>0, <1>9, <1>11, <2>3, <2>4 DEF PowerLoss, TypeOK
<1>12. CASE UNCHANGED vars
  BY <1>0, <1>12 DEF vars, TypeOK
<1>13. QED
  BY <1>1, <1>2, <1>3, <1>4, <1>5, <1>6, <1>8, <1>10, <1>11, <1>12 DEF Next

\* No call writes behind a torn line: every append begins with the repair, and the
\* repair ends between two lines or at a checkpoint that lies there.
LEMMA NextShaped == IInv /\ [Next]_vars => ShapeInv'
<1> SUFFICES ASSUME IInv, [Next]_vars PROVE ShapeInv'
  OBVIOUS
<1>0. /\ journal \in Seq(Pieces) /\ Len(journal) \in Nat /\ Lined(journal)
      /\ checkpoint # NoCheckpoint => checkpoint % 3 = 0
      /\ pc \in {"bless", "append", "fsync", "checkpoint"} => Len(journal) % 3 = 0
  BY LenProperties DEF IInv, TypeOK, ShapeInv, Pieces
<1>1. ASSUME UNCHANGED journal, pc' # "refused",
             checkpoint' \in {checkpoint, Len(journal)},
             checkpoint' = Len(journal) \/ pc' \in {"append", "fsync", "checkpoint"}
               => Len(journal) % 3 = 0,
             pc' # "bless"
      PROVE  ShapeInv'
  BY <1>0, <1>1 DEF ShapeInv
<1>2. CASE Attempt
  BY <1>0, <1>2 DEF Attempt, ShapeInv
<1>3. CASE Repair
  BY <1>0, <1>3, RepairedLines DEF Repair, AfterRepair, ShapeInv
<1>4. CASE Bless
  BY <1>0, <1>4 DEF Bless, AfterRepair, ShapeInv
<1>5. CASE AppendLine
  <2>1. Lined(journal') /\ Len(journal') = Len(journal) + 3 /\ Len(journal) % 3 = 0
    BY <1>5, AppendedLine
  <2>2. Len(journal') % 3 = 0
    BY <1>0, <2>1
  <2>3. QED
    BY <1>0, <1>5, <2>1, <2>2 DEF AppendLine, ShapeInv
<1>6. CASE Fsync
  BY <1>0, <1>6 DEF Fsync, ShapeInv
<1>7. CASE WriteCheckpoint
  BY <1>0, <1>7 DEF WriteCheckpoint, ShapeInv
<1>8. ASSUME Interrupted, pc' \in {"idle", "repair"}
      PROVE  ShapeInv'
  <2>1. Lined(journal') /\ (checkpoint' # NoCheckpoint => checkpoint' % 3 = 0)
    BY <1>0, <1>8, InterruptedCall
  <2>2. QED
    BY <1>8, <2>1 DEF ShapeInv
<1>9. CASE Raise \/ Kill
  BY <1>8, <1>9 DEF Raise, Kill, Restarting
<1>10. CASE PowerLoss
  <2>1. PICK n \in synced..Len(journal) : journal' = SubSeq(journal, 1, n)
    BY <1>10 DEF PowerLoss
  <2>2. n \in 0..Len(journal)
    BY <1>0 DEF IInv, TypeOK
  <2>3. Lined(journal')
    BY <1>0, <2>1, <2>2, LinedPrefix
  <2>4. checkpoint' = checkpoint /\ pc' = "repair"
    BY <1>10 DEF PowerLoss, Restarting
  <2>5. QED
    BY <1>0, <2>3, <2>4 DEF ShapeInv
<1>11. CASE UNCHANGED vars
  BY <1>0, <1>11 DEF vars, IInv, ShapeInv
<1>12. QED
  BY <1>2, <1>3, <1>4, <1>5, <1>6, <1>7, <1>9, <1>10, <1>11 DEF Next

\* An event is in the journal once its append returned, and stays in the part that a
\* loss of power leaves: the repair cuts nothing but the torn line at the end.
LEMMA NextAcked == IInv /\ [Next]_vars => AckInv'
<1> SUFFICES ASSUME IInv, [Next]_vars PROVE AckInv'
  OBVIOUS
<1>0. /\ journal \in Seq(Pieces) /\ Len(journal) \in Nat /\ synced \in 0..Len(journal)
      /\ AckInv
  BY LenProperties DEF IInv, TypeOK, Pieces
<1> DEFINE Kept == \A e \in acked : \E n \in 3..synced : n % 3 = 0 /\ journal[n - 2][1] = e
<1>1. ASSUME acked' = acked, synced' \in Nat,
             \A n \in 3..synced : n % 3 = 0 =>
               n <= synced' /\ journal'[n - 2][1] = journal[n - 2][1]
      PROVE  Kept'
  <2> SUFFICES ASSUME NEW e \in acked
               PROVE  \E n \in 3..synced' : n % 3 = 0 /\ journal'[n - 2][1] = e
    BY <1>1
  <2>1. PICK n \in 3..synced : n % 3 = 0 /\ journal[n - 2][1] = e
    BY <1>0 DEF AckInv
  <2>2. n \in 3..synced' /\ journal'[n - 2][1] = e
    BY <1>0, <1>1, <2>1
  <2>3. QED
    BY <2>1, <2>2
<1>2. ASSUME UNCHANGED <<journal, synced, acked>> PROVE Kept'
  BY <1>0, <1>1, <1>2
<1>3. ASSUME UNCHANGED <<acked, synced>>, \A i \in 1..Len(journal) : journal'[i] = journal[i]
      PROVE  Kept'
  <2>1. \A n \in 3..synced : n - 2 \in 1..Len(journal) /\ n <= synced
    BY <1>0
  <2>2. QED
    BY <1>0, <1>1, <1>3, <2>1
<1>4. CASE Attempt
  <2>1. event' \in Events
    BY <1>4, BoundsAssumption DEF Attempt, Events, IInv, TypeOK
  <2>2. Kept' /\ pc' = "repair"
    BY <1>2, <1>4 DEF Attempt
  <2>3. QED
    BY <2>1, <2>2 DEF AckInv
<1>5. CASE Repair
  <2>1. /\ journal' = journal \/ synced' = Len(journal')
        /\ \A n \in 1..Len(journal) : n % 3 = 0 => n <= Len(journal')
        /\ \A n \in 1..Len(journal) : n <= Len(journal') => journal'[n] = journal[n]
        /\ pc' \in {AfterRepair, "bless"} /\ journal' \in Seq(Pieces)
    BY <1>5, RepairedLines
  <2>2. Kept'
    <3>1. CASE journal' = journal
      BY <1>2, <1>5, <3>1 DEF Repair
    <3>2. CASE synced' = Len(journal')
      <4>1. Len(journal') \in Nat
        BY <2>1, LenProperties
      <4>2. ASSUME NEW n \in 3..synced, n % 3 = 0
            PROVE  n <= synced' /\ journal'[n - 2][1] = journal[n - 2][1]
        <5>1. n \in 1..Len(journal) /\ n - 2 \in 1..Len(journal)
          BY <1>0
        <5>2. n <= Len(journal') /\ n - 2 <= Len(journal')
          BY <2>1, <4>1, <4>2, <5>1
        <5>3. QED
          BY <2>1, <3>2, <5>1, <5>2
      <4>3. acked' = acked
        BY <1>5 DEF Repair
      <4>4. QED
        BY <1>1, <3>2, <4>1, <4>2, <4>3
    <3>3. QED
      BY <2>1, <3>1, <3>2
  <2>3. appending' = appending /\ event' = event /\ acked' = acked
    BY <1>5 DEF Repair
  <2>4. pc' \in {"append", "idle", "bless"} /\ (pc' = "append" => appending)
    BY <2>1 DEF AfterRepair
  <2>5. QED
    BY <1>0, <2>2, <2>3, <2>4 DEF AckInv
<1>6. CASE Bless
  <2>1. Kept'
    BY <1>2, <1>6 DEF Bless
  <2>2. QED
    BY <1>0, <1>6, <2>1 DEF Bless, AfterRepair, AckInv
<1>7. CASE AppendLine
  <2>1. /\ Len(journal') = Len(journal) + 3
        /\ \A i \in 1..Len(journal) : journal'[i] = journal[i]
        /\ journal'[Len(journal) + 1][1] = event
        /\ event \in Events
    BY <1>7, AppendedLine
  <2>2. Len(journal') >= 3 /\ Len(journal') - 2 = Len(journal) + 1
    BY <1>0, <2>1
  <2>3. Kept'
    BY <1>3, <1>7, <2>1 DEF AppendLine
  <2>4. pc' = "fsync" /\ event' = event
    BY <1>7 DEF AppendLine
  <2>5. QED
    BY <2>1, <2>2, <2>3, <2>4 DEF AckInv
<1>8. CASE Fsync
  <2>1. UNCHANGED <<journal, event, appending, acked>> /\ synced' = Len(journal)
        /\ pc = "fsync" /\ pc' = "checkpoint"
    BY <1>8 DEF Fsync
  <2>2. Kept'
    BY <1>0, <1>1, <2>1
  <2>3. QED
    BY <1>0, <2>1, <2>2 DEF AckInv
<1>9. CASE WriteCheckpoint
  <2>1. /\ UNCHANGED <<journal, synced, event, appending>> /\ acked' = acked \cup {event}
        /\ pc = "checkpoint" /\ pc' = "idle"
    BY <1>9 DEF WriteCheckpoint
  <2>2. /\ synced = Len(journal) /\ Len(journal) \in 3..synced /\ Len(journal) % 3 = 0
        /\ journal[Len(journal) - 2][1] = event
    BY <1>0, <2>1 DEF AckInv, IInv, ShapeInv
  <2>3. Kept'
    BY <1>0, <2>1, <2>2 DEF AckInv
  <2>4. QED
    BY <1>0, <2>1, <2>3 DEF AckInv
<1>10. ASSUME Interrupted, UNCHANGED <<acked, synced, event>>,
              \/ pc' = "idle" /\ appending' = appending
              \/ pc' = "repair" /\ appending' = FALSE
       PROVE  AckInv'
  <2>1. Kept'
    BY <1>3, <1>10, InterruptedCall
  <2>2. QED
    BY <1>0, <1>10, <2>1 DEF AckInv
<1>11. CASE Raise \/ Kill
  BY Zenon, <1>10, <1>11 DEF Raise, Kill, Restarting
<1>12. CASE PowerLoss
  <2>1. PICK n \in synced..Len(journal) : journal' = SubSeq(journal, 1, n)
    BY <1>12 DEF PowerLoss
  <2>2. n \in 0..Len(journal)
    BY <1>0
  <2>3. Len(journal') = n /\ \A i \in 1..n : journal'[i] = journal[i]
    BY <1>0, <2>1, <2>2, LinedPrefix DEF IInv, ShapeInv
  <2>4. synced' = n /\ acked' = acked /\ pc' = "repair" /\ appending' = FALSE
    BY <1>12, <2>3 DEF PowerLoss, Restarting
  <2>5. \A i \in 3..synced : i <= n /\ i - 2 \in 1..n
    BY <1>0
  <2>6. Kept'
    BY <1>0, <1>1, <2>3, <2>4, <2>5
  <2>7. QED
    BY <2>4, <2>6 DEF AckInv
<1>13. CASE UNCHANGED vars
  BY <1>0, <1>2, <1>13 DEF vars, AckInv
<1>14. QED
  BY <1>4, <1>5, <1>6, <1>7, <1>8, <1>9, <1>11, <1>12, <1>13 DEF Next

--------------------------------------------------------------------------------
\* The inductive invariant holds of the specification.
THEOREM JournalInvariant == Spec => []IInv
<1>1. Init => IInv
  <2> SUFFICES ASSUME Init PROVE IInv
    OBVIOUS
  <2>1. TypeOK
    <3>1. journal \in Seq(Pieces) /\ Len(journal) = 0
      BY DEF Init
    <3>2. synced \in 0..Len(journal)
      BY <3>1 DEF Init
    <3>3. checkpoint \in {NoCheckpoint} \cup Nat /\ appending \in BOOLEAN
      BY Zenon DEF Init
    <3>4. event \in 0..MaxEvents /\ faults \in 0..MaxFaults /\ crashes \in 0..MaxCrashes
      BY BoundsAssumption DEF Init
    <3>5. pc = "idle" /\ acked = {}
      BY DEF Init
    <3>6. QED
      BY <3>1, <3>2, <3>3, <3>4, <3>5 DEF TypeOK, Pieces
  <2>2. ShapeInv
    BY DEF Init, ShapeInv, Lined, NoCheckpoint
  <2>3. AckInv
    BY DEF Init, AckInv
  <2>4. QED
    BY <2>1, <2>2, <2>3 DEF IInv
<1>2. IInv /\ [Next]_vars => IInv'
  BY NextTyped, NextShaped, NextAcked DEF IInv
<1>3. QED
  BY <1>1, <1>2, PTL DEF Spec

\* Whatever calls fail and whenever the process or the machine dies, an event whose
\* append returned is a line of its own, and repair_jsonl_tail never has interior
\* corruption to refuse.
THEOREM AppendedIsReadable == Spec => []JournalSound
<1>1. IInv => JournalSound
  <2> SUFFICES ASSUME IInv PROVE JournalSound
    OBVIOUS
  <2>0. Len(journal) \in Nat /\ synced \in 0..Len(journal) /\ TypeOK /\ ShapeInv /\ AckInv
    BY LenProperties DEF IInv, TypeOK
  <2>1. ASSUME NEW e \in acked PROVE e \in Readable
    <3>1. PICK n \in 3..synced : n % 3 = 0 /\ journal[n - 2][1] = e
      BY <2>0 DEF AckInv
    <3>2. n \in 3..Len(journal)
      BY <2>0
    <3>3. /\ journal[n - 2][1] \in Events
          /\ Holds(<<n - 3, n>>, journal[n - 2][1])
          /\ <<n - 3, n>> \in Lines(0)
      BY <2>0, <3>1, <3>2, WholeLineParses
    <3>4. QED
      BY <3>1, <3>3 DEF Readable
  <2>2. QED
    BY <2>0, <2>1 DEF JournalSound, ShapeInv
<1>2. QED
  BY <1>1, JournalInvariant, PTL

--------------------------------------------------------------------------------
(* The health monitor *)

\* The instants and limits, and what the model compares.
LEMMA MonitorNumbers ==
  /\ MaxFailures \in Nat /\ MaxRestarts \in Nat /\ MaxAge \in Nat
  /\ \A f \in Feeds : Limit(f) \in Nat
  /\ Times \subseteq Nat /\ Times \cup {None} \subseteq Int /\ 0 \in Times
  /\ \A t \in Times : None <= t
<1>1. ASSUME NEW f \in Feeds PROVE Limit(f) \in Nat
  <2>1. Absent \in Nat /\ 3 * Interval[f] \in Nat
    BY HealthAssumption
  <2>2. \E x \in {Absent, 3 * Interval[f]} : \A y \in {Absent, 3 * Interval[f]} : x >= y
    BY <2>1
  <2>3. Max({Absent, 3 * Interval[f]}) \in {Absent, 3 * Interval[f]}
    BY <2>2 DEF Max
  <2>4. QED
    BY <2>1, <2>3 DEF Limit
<1>2. QED
  BY <1>1, HealthAssumption DEF None

\* A feed that has not been seen.
LEMMA UnseenState == Unseen \in FeedStates /\ Unseen.okAt = None
<1>1. /\ [s \in Signals |-> None] \in [Signals -> Values \cup {None}]
      /\ [s \in Signals |-> None] \in [Signals -> Times \cup {None}]
  OBVIOUS
<1>2. QED
  BY <1>1 DEF Unseen, FeedStates

\* record_success notes the answer now and keeps whether its events are journalled.
LEMMA SuccessState ==
  ASSUME MonitorTypeOK, NEW state \in FeedStates, NEW value \in [Signals -> Values],
         NEW good \in BOOLEAN
  PROVE  Success(state, value, good) \in FeedStates /\ Success(state, value, good).okAt = now
<1> DEFINE since == [s \in Signals |-> IF state.value[s] = value[s] THEN state.since[s] ELSE now]
<1>1. /\ state.since \in [Signals -> Times \cup {None}]
      /\ now \in Times /\ state.journal \in BOOLEAN /\ value \in [Signals -> Values \cup {None}]
  BY DEF MonitorTypeOK, FeedStates
<1>2. since \in [Signals -> Times \cup {None}]
  BY <1>1
<1>3. Success(state, value, good) =
        [state EXCEPT !.okAt = now, !.value = value, !.good = good, !.failing = FALSE,
                      !.since = since]
  BY DEF Success
<1> HIDE DEF since
<1>4. QED
  BY <1>1, <1>2, <1>3 DEF FeedStates

\* record_failure keeps when the feed answered last.
LEMMA FailureState ==
  ASSUME NEW state \in FeedStates
  PROVE  Failure(state) \in FeedStates /\ Failure(state).okAt = state.okAt
BY DEF Failure, FeedStates

\* Noting whether the event was journalled changes nothing else.
LEMMA JournalState ==
  ASSUME NEW state \in FeedStates, NEW ok \in BOOLEAN
  PROVE  /\ [state EXCEPT !.journal = ok] \in FeedStates
         /\ [state EXCEPT !.journal = ok].okAt = state.okAt
BY DEF FeedStates

\* A feed whose record is the truth again is no longer one the monitor is unaware of.
LEMMA AwareAgain ==
  ASSUME NEW S \in SUBSET Feeds, unaware' = StillUnaware(S),
         \A g \in Feeds \ S : memory'[g] = truth'[g]
  PROVE  /\ unaware' \subseteq Feeds
         /\ \A g \in Feeds \ unaware' : memory'[g] = truth'[g]
BY DEF StillUnaware

\* Recording a result in memory, whether or not it is saved then: what is right of a
\* feed stays right when both are updated by it.
LEMMA RecordedResult ==
  ASSUME MonitorInv, NEW f \in Feeds, NEW new \in FeedStates, NEW real \in FeedStates,
         Recorded(f, new, real), UNCHANGED <<now, status, hidden, restarts>>,
         new.okAt <= real.okAt, truth[f].okAt <= real.okAt, real.okAt <= now,
         memory[f] = truth[f] => new = real
  PROVE  MonitorInv'
<1> DEFINE unsaved == [real EXCEPT !.journal = FALSE]
<1>0. /\ MonitorTypeOK /\ KnowledgeInv /\ StatusInv
      /\ \A g \in Feeds : /\ memory[g].okAt \in Int /\ saved[g].okAt \in Int
                          /\ truth[g].okAt \in Int
      /\ now \in Nat /\ status.at \in Int /\ new.okAt \in Int /\ real.okAt \in Int
      /\ memory \in [Feeds -> FeedStates] /\ truth \in [Feeds -> FeedStates]
      /\ saved \in [Feeds -> FeedStates] /\ unaware \subseteq Feeds
  BY MonitorNumbers DEF MonitorInv, MonitorTypeOK, FeedStates
<1>1. /\ memory' = [memory EXCEPT ![f] = new] /\ feed' = f
      /\ \/ /\ saved' = memory' /\ truth' = [truth EXCEPT ![f] = real]
            /\ unaware' = StillUnaware(unaware)
            /\ phase' = "journal" /\ UNCHANGED <<cycleError, failures>>
         \/ /\ saved' = saved /\ truth' = [truth EXCEPT ![f] = unsaved]
            /\ unaware' = StillUnaware(unaware \union {f})
            /\ phase' = "status" /\ cycleError' = TRUE
            /\ failures < MaxFailures /\ failures' = failures + 1
  BY DEF Recorded
<1>2. unsaved \in FeedStates /\ unsaved.okAt = real.okAt
  BY JournalState
<1> HIDE DEF unsaved
<1>3. /\ memory' \in [Feeds -> FeedStates] /\ truth' \in [Feeds -> FeedStates]
      /\ memory'[f] = new /\ truth'[f] \in {real, unsaved} /\ truth'[f].okAt = real.okAt
      /\ \A g \in Feeds : g # f => memory'[g] = memory[g] /\ truth'[g] = truth[g]
  <2>1. PICK r \in {real, unsaved} : truth' = [truth EXCEPT ![f] = r]
    BY <1>1
  <2>2. QED
    BY <1>0, <1>1, <1>2, <2>1
<1>4. /\ unaware' \subseteq Feeds
      /\ \A g \in Feeds \ unaware' : memory'[g] = truth'[g]
  <2>1. CASE truth' = [truth EXCEPT ![f] = real] /\ unaware' = StillUnaware(unaware)
    <3>1. truth'[f] = real
      BY <1>0, <2>1
    <3>2. \A g \in Feeds \ unaware : memory'[g] = truth'[g]
      BY Zenon, <1>0, <1>3, <3>1 DEF KnowledgeInv
    <3>3. QED
      BY <1>0, <2>1, <3>2, AwareAgain
  <2>2. CASE unaware' = StillUnaware(unaware \union {f})
    <3>1. \A g \in Feeds \ (unaware \union {f}) : memory'[g] = truth'[g]
      BY Zenon, <1>0, <1>3 DEF KnowledgeInv
    <3>2. unaware \union {f} \in SUBSET Feeds
      BY <1>0
    <3>3. QED
      BY <2>2, <3>1, <3>2, AwareAgain
  <2>3. QED
    BY <1>1, <2>1, <2>2
<1>5. MonitorTypeOK'
  <2>1. saved' \in [Feeds -> FeedStates] /\ phase' \in {"journal", "status"}
    BY <1>0, <1>1, <1>3
  <2>2. cycleError' \in BOOLEAN
    BY Zenon, <1>0, <1>1 DEF MonitorTypeOK
  <2>3. failures' \in 0..MaxFailures
    BY <1>0, <1>1, MonitorNumbers DEF MonitorTypeOK
  <2>4. QED
    BY <1>0, <1>1, <1>3, <1>4, <2>1, <2>2, <2>3 DEF MonitorTypeOK
<1>6. KnowledgeInv'
  <2>1. \A g \in Feeds : memory'[g].okAt <= truth'[g].okAt /\ truth'[g].okAt <= now'
    BY <1>0, <1>3 DEF KnowledgeInv
  <2>2. \A g \in Feeds : saved[g].okAt <= truth'[g].okAt
    BY <1>0, <1>3 DEF KnowledgeInv
  <2>3. \A g \in Feeds : saved'[g].okAt <= truth'[g].okAt
    BY <1>1, <2>1, <2>2
  <2>4. QED
    BY <1>4, <2>1, <2>3 DEF KnowledgeInv
<1>7. StatusInv'
  <2>1. \A g \in Feeds : truth[g].okAt <= truth'[g].okAt /\ truth'[g].okAt \in Int
    BY <1>0, <1>3
  <2>2. QED
    BY <1>0, <2>1, MonitorNumbers DEF StatusInv, Limit
<1>8. QED
  BY <1>5, <1>6, <1>7 DEF MonitorInv

--------------------------------------------------------------------------------
\* Every step of the main loop, and every death of the process, keeps the invariant:
\* whatever the monitor misses, or had not saved, is of a feed it is unaware of then.
LEMMA MonitorNextInv == MonitorInv /\ [MonitorNext]_monitorVars => MonitorInv'
<1> SUFFICES ASSUME MonitorInv, [MonitorNext]_monitorVars PROVE MonitorInv'
  OBVIOUS
<1>0. /\ MonitorTypeOK /\ KnowledgeInv /\ StatusInv
      /\ memory \in [Feeds -> FeedStates] /\ truth \in [Feeds -> FeedStates]
      /\ saved \in [Feeds -> FeedStates] /\ now \in Nat /\ status.at \in Int
      /\ unaware \subseteq Feeds
      /\ \A g \in Feeds : /\ memory[g].okAt \in Int /\ saved[g].okAt \in Int
                          /\ truth[g].okAt \in Int
  BY MonitorNumbers DEF MonitorInv, MonitorTypeOK, FeedStates
<1>1. CASE Respond
  <2>1. PICK f \in Feeds, value \in [Signals -> Values], good \in BOOLEAN :
          Recorded(f, Success(memory[f], value, good), Success(truth[f], value, good))
    BY <1>1 DEF Respond
  <2>2. UNCHANGED <<now, status, hidden, restarts>>
    BY <1>1 DEF Respond
  <2> DEFINE new == Success(memory[f], value, good)
             real == Success(truth[f], value, good)
  <2>3. memory[f] \in FeedStates /\ truth[f] \in FeedStates
    BY <1>0
  <2>4. new \in FeedStates /\ new.okAt = now /\ real \in FeedStates /\ real.okAt = now
    BY <1>0, <2>3, SuccessState
  <2>5. memory[f] = truth[f] => new = real
    OBVIOUS
  <2>6. Recorded(f, new, real)
    BY <2>1
  <2> HIDE DEF new, real
  <2>7. new.okAt <= real.okAt /\ truth[f].okAt <= real.okAt /\ real.okAt <= now
    BY <1>0, <2>4 DEF KnowledgeInv
  <2>8. QED
    BY <2>2, <2>4, <2>5, <2>6, <2>7, RecordedResult
<1>2. CASE NoResponse
  <2>1. PICK f \in Feeds : Recorded(f, Failure(memory[f]), Failure(truth[f]))
    BY <1>2 DEF NoResponse
  <2>2. UNCHANGED <<now, status, hidden, restarts>>
    BY <1>2 DEF NoResponse
  <2> DEFINE new == Failure(memory[f])
             real == Failure(truth[f])
  <2>3. memory[f] \in FeedStates /\ truth[f] \in FeedStates
    BY <1>0
  <2>4. /\ new \in FeedStates /\ new.okAt = memory[f].okAt
        /\ real \in FeedStates /\ real.okAt = truth[f].okAt
    BY <2>3, FailureState
  <2>5. memory[f] = truth[f] => new = real
    OBVIOUS
  <2>6. Recorded(f, new, real)
    BY <2>1
  <2> HIDE DEF new, real
  <2>7. new.okAt <= real.okAt /\ truth[f].okAt <= real.okAt /\ real.okAt <= now
    BY <1>0, <2>4 DEF KnowledgeInv
  <2>8. QED
    BY <2>2, <2>4, <2>5, <2>6, <2>7, RecordedResult
<1>3. CASE Abort
  <2>1. PICK f \in Feeds : /\ truth' = [truth EXCEPT ![f].journal = FALSE]
                           /\ unaware' = StillUnaware(unaware \union {f})
                           /\ feed' = f
    BY <1>3 DEF Abort
  <2>2. /\ failures < MaxFailures /\ failures' = failures + 1
        /\ cycleError' = TRUE /\ phase' = "status"
        /\ UNCHANGED <<now, memory, saved, status, hidden, restarts>>
    BY <1>3 DEF Abort
  <2>3. /\ truth' \in [Feeds -> FeedStates]
        /\ \A g \in Feeds : truth'[g].okAt = truth[g].okAt
        /\ \A g \in Feeds : g # f => truth'[g] = truth[g]
    <3>1. truth' = [truth EXCEPT ![f] = [truth[f] EXCEPT !.journal = FALSE]]
      BY <2>1
    <3>2. /\ [truth[f] EXCEPT !.journal = FALSE] \in FeedStates
          /\ [truth[f] EXCEPT !.journal = FALSE].okAt = truth[f].okAt
      BY <1>0, JournalState
    <3>3. QED
      BY <1>0, <3>1, <3>2
  <2>4. /\ unaware' \subseteq Feeds
        /\ \A g \in Feeds \ unaware' : memory'[g] = truth'[g]
    <3>1. \A g \in Feeds \ (unaware \union {f}) : memory'[g] = truth'[g]
      BY Zenon, <1>0, <2>2, <2>3 DEF KnowledgeInv
    <3>2. unaware \union {f} \in SUBSET Feeds
      BY <1>0
    <3>3. QED
      BY <2>1, <3>1, <3>2, AwareAgain
  <2>5. MonitorTypeOK'
    <3>1. failures' \in 0..MaxFailures
      BY <1>0, <2>2, MonitorNumbers DEF MonitorTypeOK
    <3>2. cycleError' \in BOOLEAN
      BY Zenon, <2>2
    <3>3. QED
      BY <1>0, <2>2, <2>3, <2>4, <3>1, <3>2 DEF MonitorTypeOK
  <2>6. KnowledgeInv'
    BY <1>0, <2>2, <2>3, <2>4 DEF KnowledgeInv
  <2>7. StatusInv'
    BY <1>0, <2>2, <2>3 DEF StatusInv, Limit
  <2>8. QED
    BY <2>5, <2>6, <2>7 DEF MonitorInv
<1>4. CASE Journal
  <2>1. PICK ok \in BOOLEAN :
          /\ ok \/ failures < MaxFailures
          /\ failures' = IF ok THEN failures ELSE failures + 1
          /\ cycleError' = (cycleError \/ ~ok)
          /\ memory' = [memory EXCEPT ![feed].journal = ok]
          /\ truth' = [truth EXCEPT ![feed].journal = ok]
    BY <1>4 DEF Journal
  <2>2. /\ feed \in Feeds /\ phase' = "status" /\ unaware' = StillUnaware(unaware)
        /\ UNCHANGED <<now, saved, status, feed, hidden, restarts>>
    BY <1>0, <1>4 DEF Journal, MonitorTypeOK
  <2>3. /\ memory' = [memory EXCEPT ![feed] = [memory[feed] EXCEPT !.journal = ok]]
        /\ truth' = [truth EXCEPT ![feed] = [truth[feed] EXCEPT !.journal = ok]]
    BY <2>1
  <2>4. /\ memory' \in [Feeds -> FeedStates] /\ truth' \in [Feeds -> FeedStates]
        /\ \A g \in Feeds : memory'[g].okAt = memory[g].okAt /\ truth'[g].okAt = truth[g].okAt
    BY <1>0, <2>2, <2>3, JournalState
  <2>5. /\ unaware' \subseteq Feeds
        /\ \A g \in Feeds \ unaware' : memory'[g] = truth'[g]
    <3>1. ASSUME NEW g \in Feeds \ unaware PROVE memory'[g] = truth'[g]
      <4>1. memory[g] = truth[g]
        BY <1>0 DEF KnowledgeInv
      <4>2. QED
        BY <1>0, <2>3, <4>1
    <3>2. QED
      BY <1>0, <2>2, <3>1, AwareAgain
  <2>6. MonitorTypeOK'
    <3>1. failures' \in 0..MaxFailures
      BY <1>0, <2>1, MonitorNumbers DEF MonitorTypeOK
    <3>2. cycleError' \in BOOLEAN
      BY Zenon, <2>1
    <3>3. QED
      BY <1>0, <2>2, <2>4, <2>5, <3>1, <3>2 DEF MonitorTypeOK
  <2>7. KnowledgeInv'
    BY <1>0, <2>2, <2>4, <2>5 DEF KnowledgeInv
  <2>8. StatusInv'
    BY <1>0, <2>2, <2>4 DEF StatusInv, Limit
  <2>9. QED
    BY <2>6, <2>7, <2>8 DEF MonitorInv
<1>5. CASE WriteStatus
  <2>1. PICK otherReason \in BOOLEAN :
          status' = [at |-> now,
                     healthy |-> /\ ~otherReason /\ ~cycleError
                                 /\ \A f \in Feeds : ~Problem(f, memory[f])]
    BY <1>5 DEF WriteStatus
  <2>2. /\ hidden' = {f \in Feeds \ unaware : Problem(f, truth[f])}
        /\ cycleError' = FALSE /\ phase' = "idle"
        /\ UNCHANGED <<now, memory, saved, truth, unaware, failures, restarts>>
    BY <1>5 DEF WriteStatus
  <2>3. status'.at = now /\ status' \in [at : Times \cup {None}, healthy : BOOLEAN]
        /\ (status'.healthy => \A f \in Feeds : ~Problem(f, memory[f]))
    BY <1>0, <2>1 DEF MonitorTypeOK
  <2>4. MonitorTypeOK'
    BY <1>0, <2>2, <2>3 DEF MonitorTypeOK
  <2>5. KnowledgeInv'
    BY <1>0, <2>2 DEF KnowledgeInv
  <2>6. StatusInv'
    <3>1. ASSUME status'.healthy, NEW f \in Feeds
          PROVE  status'.at - truth'[f].okAt <= Limit(f)
      <4>1. now - memory[f].okAt <= Limit(f)
        BY <1>0, <2>3, <3>1, MonitorNumbers DEF Problem, Missing
      <4>2. memory[f].okAt <= truth[f].okAt
        BY <1>0 DEF KnowledgeInv
      <4>3. QED
        BY <1>0, <2>2, <2>3, <4>1, <4>2, MonitorNumbers
    <3>2. ASSUME status'.healthy PROVE hidden' = {}
      <4>1. \A f \in Feeds \ unaware : memory[f] = truth[f]
        BY <1>0 DEF KnowledgeInv
      <4>2. ASSUME NEW f \in Feeds \ unaware PROVE ~Problem(f, truth[f])
        BY Zenon, <2>3, <3>2, <4>1, <4>2
      <4>3. QED
        BY <2>2, <4>2
    <3>3. status'.at <= now'
      BY <1>0, <2>2, <2>3
    <3>4. QED
      BY <2>2, <3>1, <3>2, <3>3 DEF StatusInv, Limit
  <2>7. QED
    BY <2>4, <2>5, <2>6 DEF MonitorInv
<1>6. CASE StatusFails
  <2>0. UNCHANGED <<now, memory, saved, status, truth, unaware, hidden, restarts>>
    BY <1>6 DEF StatusFails, history
  <2>1. MonitorTypeOK'
    <3>1. cycleError' \in BOOLEAN
      BY Zenon, <1>6 DEF StatusFails
    <3>2. failures' \in 0..MaxFailures
      BY <1>0, <1>6, MonitorNumbers DEF StatusFails, MonitorTypeOK
    <3>3. QED
      BY <1>0, <1>6, <2>0, <3>1, <3>2 DEF StatusFails, MonitorTypeOK
  <2>2. KnowledgeInv' /\ StatusInv'
    BY <1>0, <2>0 DEF KnowledgeInv, StatusInv, Limit
  <2>3. QED
    BY <2>1, <2>2 DEF MonitorInv
<1>7. CASE Restart
  <2>1. /\ memory' = saved /\ restarts < MaxRestarts /\ restarts' = restarts + 1
        /\ unaware' = StillUnaware(unaware \union Lost)
        /\ cycleError' = FALSE /\ phase' = "idle"
        /\ UNCHANGED <<now, saved, status, hidden, failures>>
    BY <1>7 DEF Restart, Died
  <2>2. truth' = [f \in Feeds |-> IF phase = "journal" /\ f = feed
                                  THEN [truth[f] EXCEPT !.journal = FALSE]
                                  ELSE truth[f]]
    BY <1>7 DEF Restart, Died
  <2>3. /\ truth' \in [Feeds -> FeedStates]
        /\ \A g \in Feeds : truth'[g].okAt = truth[g].okAt
    BY <1>0, <2>2, JournalState
  <2>4. /\ unaware' \subseteq Feeds
        /\ \A g \in Feeds \ unaware' : memory'[g] = truth'[g]
    <3>1. ASSUME NEW g \in Feeds \ (unaware \union Lost) PROVE memory'[g] = truth'[g]
      <4>1. memory[g] = saved[g] /\ truth'[g] = truth[g]
        BY <2>2, <3>1 DEF Lost
      <4>2. memory[g] = truth[g]
        BY <1>0 DEF KnowledgeInv
      <4>3. QED
        BY <2>1, <4>1, <4>2
    <3>2. unaware \union Lost \in SUBSET Feeds
      BY <1>0 DEF Lost
    <3>3. QED
      BY <2>1, <3>1, <3>2, AwareAgain
  <2>5. MonitorTypeOK'
    <3>1. cycleError' \in BOOLEAN
      BY Zenon, <2>1
    <3>2. restarts' \in 0..MaxRestarts
      BY <1>0, <2>1, MonitorNumbers DEF MonitorTypeOK
    <3>3. QED
      BY <1>0, <2>1, <2>3, <2>4, <3>1, <3>2 DEF MonitorTypeOK
  <2>6. KnowledgeInv'
    BY <1>0, <2>1, <2>3, <2>4 DEF KnowledgeInv
  <2>7. StatusInv'
    BY <1>0, <2>1, <2>3 DEF StatusInv, Limit
  <2>8. QED
    BY <2>5, <2>6, <2>7 DEF MonitorInv
<1>8. CASE Tick
  <2>1. now' \in Times /\ now <= now' /\ now' \in Nat
    BY <1>0, <1>8, MonitorNumbers DEF Tick
  <2>2. UNCHANGED <<memory, saved, status, phase, feed, cycleError, truth, unaware, hidden,
                    failures, restarts>>
    BY <1>8 DEF Tick, loop, history
  <2>3. MonitorTypeOK'
    BY <1>0, <2>1, <2>2 DEF MonitorTypeOK
  <2>4. KnowledgeInv' /\ StatusInv'
    BY <1>0, <2>1, <2>2 DEF KnowledgeInv, StatusInv, Limit
  <2>5. QED
    BY <2>3, <2>4 DEF MonitorInv
<1>9. CASE UNCHANGED monitorVars
  BY <1>0, <1>9 DEF monitorVars, loop, history, MonitorInv, MonitorTypeOK, KnowledgeInv, StatusInv,
     Limit
<1>10. QED
  BY <1>1, <1>2, <1>3, <1>4, <1>5, <1>6, <1>7, <1>8, <1>9 DEF MonitorNext

\* The inductive invariant holds of the specification.
THEOREM HealthInvariant == MonitorSpec => []MonitorInv
<1>1. MonitorInit => MonitorInv
  <2> SUFFICES ASSUME MonitorInit PROVE MonitorInv
    OBVIOUS
  <2>1. /\ memory = [f \in Feeds |-> Unseen] /\ saved = memory /\ truth = memory
        /\ now = 0 /\ status = [at |-> None, healthy |-> FALSE]
        /\ phase = "idle" /\ unaware = {} /\ hidden = {} /\ failures = 0 /\ restarts = 0
    BY DEF MonitorInit
  <2>2. cycleError \in BOOLEAN
    BY Zenon DEF MonitorInit
  <2>3. memory \in [Feeds -> FeedStates] /\ \A f \in Feeds : memory[f].okAt = None
    BY <2>1, UnseenState
  <2>4. MonitorTypeOK
    BY <2>1, <2>2, <2>3, MonitorNumbers DEF MonitorTypeOK
  <2>5. KnowledgeInv
    BY <2>1, <2>3 DEF KnowledgeInv, None
  <2>6. StatusInv
    BY <2>1 DEF StatusInv, None
  <2>7. QED
    BY <2>4, <2>5, <2>6 DEF MonitorInv
<1>2. QED
  BY <1>1, MonitorNextInv, PTL DEF MonitorSpec

\* While the container counts as healthy every feed has answered within its limit, in
\* this process or an earlier one, and when the status was written no feed had a problem
\* but those of which the monitor has missed something and does not know the truth again.
THEOREM HealthyWasTrue == MonitorSpec => []HealthyIsTrue
<1>1. MonitorInv => HealthyIsTrue
  <2> SUFFICES ASSUME MonitorInv, Healthcheck
               PROVE  /\ \A f \in Feeds : now - truth[f].okAt <= Limit(f) + MaxAge
                      /\ hidden = {}
    BY DEF HealthyIsTrue
  <2>1. /\ now \in Int /\ status.at \in Int /\ \A f \in Feeds : truth[f].okAt \in Int
        /\ now - status.at <= MaxAge
        /\ \A f \in Feeds : status.at - truth[f].okAt <= Limit(f)
        /\ hidden = {}
    BY MonitorNumbers DEF MonitorInv, MonitorTypeOK, FeedStates, StatusInv, Healthcheck
  <2>2. QED
    BY <2>1, MonitorNumbers
<1>2. QED
  BY <1>1, HealthInvariant, PTL
==============================================================================

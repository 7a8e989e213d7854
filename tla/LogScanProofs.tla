---------------------------- MODULE LogScanProofs ----------------------------
(***************************************************************************)
(* Proofs about the scan of a log for files, records and numbers of every  *)
(* size: whatever was done to a file, a scan reports and returns exactly   *)
(* its longest valid prefix, recovery cuts there and heals it, and no      *)
(* valid record is ever touched.                                           *)
(***************************************************************************)
EXTENDS LogScan, TLAPS

(* What a report and the other variables hold.                             *)
Report ==
  [healthy : BOOLEAN, corrupt : BOOLEAN, truncated : BOOLEAN,
   records : Nat, bytes : Nat, scanned : Nat, last : 0 .. MaxSeq, checksum : Nat,
   badIndex : Nat, badSeq : 0 .. MaxSeq, expected : Nat, offset : Nat]

Types ==
  /\ head \in {"absent", "short", "invalid", "valid"}
  /\ cells \in Seq(Stored)
  /\ tool \in {"validate", "recover", "rescan", "replay", "inject"}
  /\ pc \in {"idle", "open", "read", "cut", "done", "unread", "uncut"}
  /\ report \in Report
  /\ entries \in Seq(0 .. MaxSeq)

(* Only the last record of a file is short, and a file without a valid     *)
(* header counts as empty.                                                 *)
Shape ==
  /\ head # "valid" => cells = <<>>
  /\ \A i \in 1 .. Len(cells) - 1 : cells[i].len = RecordBytes

(* What the scan has accepted is what it returns.                          *)
Accepted ==
  /\ report.records <= Len(cells)
  /\ entries = [i \in 1 .. report.records |-> cells[i].seq]
  /\ InSequence(report.records)

(* The scan at its place: before a record, at a bad one, at its end.       *)
Scanning ==
  /\ pc \in {"read", "cut", "done", "uncut"} => Accepted
  /\ pc = "open" => report.records = 0 /\ report.bytes = 0 /\ entries = <<>>
  /\ pc \in {"open", "read"} => ~report.healthy /\ ~report.corrupt /\ report.expected = 0
  /\ pc = "read" =>
       /\ head = "valid"
       /\ report.records > 0 => report.last = cells[report.records].seq
  /\ pc \in {"cut", "uncut"} => report.corrupt /\ ~report.healthy
  /\ pc = "cut" /\ head # "valid" => report.bytes = 0

(* What a finished scan, or one about to be acted upon, has found.         *)
Exact ==
  /\ Longest(report.records)
  /\ report.bytes = Offset(report.records)
  /\ report.healthy <=> FileSize = report.bytes
  /\ report.corrupt <=> ~report.healthy
  /\ report.corrupt =>
       LET bad == report.badIndex
       IN /\ bad = report.records + 1
          /\ report.offset = report.bytes
          /\ report.bytes < report.scanned /\ report.scanned <= FileSize
          /\ cells[bad].len >= RecordHeaderBytes => report.badSeq = cells[bad].seq
          /\ report.expected # 0 =>
               Sound(bad) /\ report.expected = cells[bad - 1].seq + 1

Found == pc \in {"cut", "done", "uncut"} /\ head = "valid" => Exact

(* The second scan of a recovery runs on a file that the first one cut.    *)
Healing ==
  /\ pc # "idle" => (report.truncated <=> tool = "rescan")
  /\ pc \in {"open", "read", "cut", "done"} /\ tool = "rescan" =>
       head = "valid" /\ InSequence(Len(cells)) /\ pc # "cut"
  /\ pc = "done" /\ tool = "recover" /\ head = "valid" => report.healthy
  /\ pc = "uncut" => tool = "recover"

IInv == Types /\ Shape /\ Scanning /\ Found /\ Healing

-----------------------------------------------------------------------------
(* Where records lie                                                       *)

(* One record further is RecordBytes further.                              *)
LEMMA OffsetNext ==
  ASSUME NEW n \in Nat
  PROVE  Offset(n) \in Nat /\ Offset(n) >= FileHeaderBytes
         /\ Offset(n + 1) = Offset(n) + RecordBytes
<1>1. n * RecordBytes \in Nat /\ (n + 1) * RecordBytes = n * RecordBytes + RecordBytes
  BY ScanAssumption
<1> QED BY <1>1, ScanAssumption DEF Offset

(* Later records lie further back.                                         *)
LEMMA OffsetMonotone ==
  ASSUME NEW m \in Nat, NEW n \in Nat, m <= n
  PROVE  Offset(m) <= Offset(n)
<1>1. m * RecordBytes <= n * RecordBytes
  BY ScanAssumption
<1> QED BY <1>1, ScanAssumption DEF Offset

(* Division with remainder, by a positive number.                         *)
LEMMA DivMod ==
  ASSUME NEW d \in Nat, NEW r \in Nat \ {0}
  PROVE  /\ d \div r \in Nat /\ d % r \in 0 .. r - 1
         /\ d = r * (d \div r) + (d % r)
  OBVIOUS

(* A file ends with its last record, and before the end every record is    *)
(* there in full.                                                          *)
LEMMA SizeOfFile ==
  ASSUME Types, Shape, head = "valid", NEW n \in 0 .. Len(cells)
  PROVE  /\ FileSize \in Nat
         /\ n < Len(cells) => /\ cells[n + 1] \in Stored
                              /\ Offset(n) + cells[n + 1].len <= FileSize
         /\ n = Len(cells) => FileSize <= Offset(n)
         /\ n = Len(cells) /\ (n # 0 => cells[n].len = RecordBytes) => FileSize = Offset(n)
<1> USE ScanAssumption
<1>a. Len(cells) \in Nat /\ \A i \in 1 .. Len(cells) : cells[i] \in Stored
  BY DEF Types
<1>0. Len(cells) \in Nat /\ \A i \in 1 .. Len(cells) :
        cells[i] \in Stored /\ cells[i].len \in 1 .. RecordBytes
  <2>1. \A c \in Stored : c.len \in 1 .. RecordBytes
    BY DEF Stored
  <2> QED BY <1>a, <2>1
<1>1. CASE Len(cells) = 0
  <2>1. cells = <<>> /\ Offset(0) = FileHeaderBytes
    BY <1>1 DEF Offset
  <2> QED BY <1>1, <2>1 DEF FileSize
<1>2. CASE Len(cells) # 0
  <2> DEFINE l == Len(cells) - 1
  <2>1. l \in Nat /\ l + 1 = Len(cells) /\ cells # <<>>
    BY <1>0, <1>2
  <2>2. FileSize = Offset(l) + cells[l + 1].len /\ cells[l + 1].len \in 1 .. RecordBytes
    BY <1>0, <1>2, <2>1 DEF FileSize
  <2>3. Offset(l) \in Nat /\ Offset(l + 1) = Offset(l) + RecordBytes
    BY <2>1, OffsetNext
  <2>4. n < l => Offset(n) + cells[n + 1].len <= Offset(l)
    <3> SUFFICES ASSUME n < l PROVE Offset(n) + cells[n + 1].len <= Offset(l)
      OBVIOUS
    <3>1. cells[n + 1].len = RecordBytes
      BY <2>1 DEF Shape
    <3>2. n \in Nat /\ n + 1 \in Nat /\ n + 1 <= l
      BY <2>1
    <3>3. Offset(n + 1) <= Offset(l) /\ Offset(n + 1) = Offset(n) + RecordBytes
      BY <2>1, <3>2, OffsetMonotone, OffsetNext
    <3> QED BY <3>1, <3>3
  <2>5. n < Len(cells) => n < l \/ n = l
    BY <1>a
  <2>6. n < Len(cells) => cells[n + 1] \in Stored
    BY <1>0
  <2> HIDE DEF l
  <2>7. FileSize \in Nat
    BY <2>2, <2>3
  <2>8. n < Len(cells) => Offset(n) + cells[n + 1].len <= FileSize
    <3>1. n \in Nat /\ Offset(n) \in Nat
      BY <1>a, OffsetNext
    <3>2. n < Len(cells) => cells[n + 1].len \in 1 .. RecordBytes
      BY <1>0
    <3>3. CASE n < l
      <4> DEFINE end == Offset(n) + cells[n + 1].len
                 rest == cells[l + 1].len
      <4>1. n < Len(cells) => end \in Int
        BY <3>1, <3>2
      <4>2. end <= Offset(l)
        BY <2>4, <3>3
      <4>3. FileSize = Offset(l) + rest /\ rest \in Nat /\ Offset(l) \in Nat
        BY <2>2, <2>3
      <4> HIDE DEF end, rest
      <4>4. n < Len(cells) => end <= FileSize
        BY ONLY <4>1, <4>2, <4>3
      <4> QED BY <4>4 DEF end
    <3>4. CASE n = l
      BY <2>2, <2>7, <3>4
    <3> QED BY <2>5, <3>3, <3>4
  <2> QED BY <2>1, <2>2, <2>3, <2>6, <2>7, <2>8
<1> QED BY <1>1, <1>2

(* A stored record that is cut short is a stored record.                   *)
LEMMA ShorterStored ==
  ASSUME NEW c \in Stored, NEW p \in 0 .. RecordBytes - 1, p # 0
  PROVE  [c EXCEPT !.len = p] \in Stored
<1>1. p \in 1 .. RecordBytes
  BY ScanAssumption
<1>2. /\ DOMAIN c = {"seq", "meta", "crc", "len"} /\ c.seq \in 0 .. MaxSeq
      /\ c.meta \in BOOLEAN /\ c.crc \in BOOLEAN
      /\ c = [seq |-> c.seq, meta |-> c.meta, crc |-> c.crc, len |-> c.len]
  BY DEF Stored
<1>3. [c EXCEPT !.len = p] = [seq |-> c.seq, meta |-> c.meta, crc |-> c.crc, len |-> p]
  BY <1>2
<1> QED BY <1>1, <1>2, <1>3 DEF Stored

(* What SubSeq keeps of a file that is cut after n records.                *)
LEMMA CutAfter ==
  ASSUME NEW S, NEW s \in Seq(S), NEW n \in 0 .. Len(s)
  PROVE  /\ SubSeq(s, 1, n) \in Seq(S) /\ Len(SubSeq(s, 1, n)) = n
         /\ \A i \in 1 .. n : SubSeq(s, 1, n)[i] = s[i]
<1>1. Len(s) \in Nat /\ n \in Nat /\ n <= Len(s)
  OBVIOUS
<1>2. \A i \in 1 .. n : s[i] \in S
  BY <1>1
<1>3. SubSeq(s, 1, n) = [i \in 1 .. n |-> s[i]]
  BY <1>1
<1>4. [i \in 1 .. n |-> s[i]] \in Seq(S) /\ Len([i \in 1 .. n |-> s[i]]) = n
  BY <1>1, <1>2
<1> QED BY <1>3, <1>4

-----------------------------------------------------------------------------
(* Valid prefixes                                                          *)

(* What is in sequence is so up to every earlier record.                   *)
LEMMA FewerInSequence ==
  ASSUME NEW n \in Nat, InSequence(n), NEW m \in Nat, m <= n
  PROVE  InSequence(m)
  BY DEF InSequence

(* One more sound record that continues the numbers is in sequence, too.   *)
LEMMA OneMoreInSequence ==
  ASSUME NEW n \in Nat, InSequence(n), Sound(n + 1),
         n # 0 => cells[n + 1].seq = cells[n].seq + 1
  PROVE  InSequence(n + 1)
  BY DEF InSequence

(* A file has one longest prefix.                                          *)
LEMMA OneLongest ==
  ASSUME Types, NEW m, NEW n, Longest(m), Longest(n)
  PROVE  m = n
<1>0. Len(cells) \in Nat /\ m \in 0 .. Len(cells) /\ n \in 0 .. Len(cells)
  BY DEF Types, Longest
<1>1. ~(m < n) /\ ~(n < m)
  BY <1>0, FewerInSequence DEF Longest
<1> QED BY <1>0, <1>1

(* Why the scan stops at a record: it is not sound, or does not continue   *)
(* the numbers; and what stops it is not the next one of the prefix.       *)
LEMMA VerdictRight ==
  ASSUME Types, Accepted, report.records < Len(cells),
         report.records > 0 => report.last = cells[report.records].seq,
         NEW c, c = cells[report.records + 1]
  PROVE  /\ Verdict(c) = "valid" => InSequence(report.records + 1)
         /\ Verdict(c) # "valid" => ~InSequence(report.records + 1)
         /\ Verdict(c) = "metadata" => c.len >= RecordHeaderBytes
         /\ Verdict(c) = "partial header" => ~(c.len >= RecordHeaderBytes)
         /\ Verdict(c) = "gap" => Sound(report.records + 1) /\ report.records > 0
<1> USE ScanAssumption
<1>0. /\ report.records \in Nat /\ report.last \in 0 .. MaxSeq
      /\ c \in Stored /\ c.len \in 1 .. RecordBytes /\ c.meta \in BOOLEAN /\ c.crc \in BOOLEAN
      /\ c.seq \in 0 .. MaxSeq /\ MaxSeq \in Nat
  <2>1. report.records \in Nat /\ report.last \in 0 .. MaxSeq
    BY DEF Types, Report
  <2>2. c \in Stored
    BY <2>1 DEF Types
  <2> QED BY <2>1, <2>2 DEF Stored
<1>1. Sound(report.records + 1) <=> c.len = RecordBytes /\ c.meta /\ c.crc
  BY DEF Sound
<1> DEFINE Gap == report.records > 0 /\ (report.last = MaxSeq \/ c.seq # report.last + 1)
<1>2. Verdict(c) = "valid" => Sound(report.records + 1) /\ ~Gap
  BY <1>0, <1>1, SMTT(30) DEF Verdict
<1>3. Verdict(c) # "valid" => ~Sound(report.records + 1) \/ Gap
  BY <1>0, <1>1, SMTT(30) DEF Verdict
<1>4. Verdict(c) = "gap" => Sound(report.records + 1) /\ Gap
  BY <1>0, <1>1, SMTT(30) DEF Verdict
<1>5. /\ Verdict(c) = "metadata" => c.len >= RecordHeaderBytes
      /\ Verdict(c) = "partial header" => ~(c.len >= RecordHeaderBytes)
  BY <1>0 DEF Verdict
<1>6. Verdict(c) = "valid" => InSequence(report.records + 1)
  BY <1>0, <1>2, OneMoreInSequence DEF Accepted
<1>7. Gap => ~InSequence(report.records + 1)
  <2> SUFFICES ASSUME Gap, InSequence(report.records + 1) PROVE FALSE
    OBVIOUS
  <2>1. report.records + 1 \in 2 .. report.records + 1
    BY <1>0
  <2>2. cells[report.records + 1].seq = cells[(report.records + 1) - 1].seq + 1
    BY <2>1 DEF InSequence
  <2>3. (report.records + 1) - 1 = report.records
    BY <1>0
  <2> QED BY <1>0, <2>2, <2>3
<1>8. ~Sound(report.records + 1) => ~InSequence(report.records + 1)
  BY <1>0 DEF InSequence
<1> HIDE DEF Gap
<1> QED BY <1>3, <1>4, <1>5, <1>6, <1>7, <1>8 DEF Gap

-----------------------------------------------------------------------------
(* The invariant                                                           *)

(* A file of whole records that nothing has read yet.                      *)
LEMMA InitInv == Init => IInv
<1> SUFFICES ASSUME Init PROVE IInv
  OBVIOUS
<1> USE ScanAssumption DEF Init
<1>1. PICK n \in 0 .. MaxFile : \E seqs \in [1 .. n -> 0 .. MaxSeq] :
             cells = [i \in 1 .. n |-> Intact(seqs[i])]
  OBVIOUS
<1>2. \A s \in 0 .. MaxSeq : Intact(s) \in Stored /\ Intact(s).len = RecordBytes
  BY DEF Intact, Stored
<1>3. cells \in Seq(Stored) /\ Len(cells) = n
  BY <1>1, <1>2
<1>4. \A i \in 1 .. Len(cells) : cells[i].len = RecordBytes
  BY <1>1, <1>2, <1>3
<1>5. NoReport \in Report /\ <<>> \in Seq(0 .. MaxSeq)
  BY DEF NoReport, Report
<1>6. Types
  BY <1>3, <1>5 DEF Types
<1>7. Shape
  BY <1>3, <1>4 DEF Shape
<1> QED BY <1>6, <1>7 DEF IInv, Scanning, Found, Healing

(* Damage does not change what kind of thing a file is.                    *)
LEMMA TailCut ==
  ASSUME Types, Shape, NEW bytes \in 1 .. FileSize, TruncateTail(bytes)
  PROVE  Types' /\ Shape'
<1> USE ScanAssumption
<1>0. /\ report' \in Report /\ entries' \in Seq(0 .. MaxSeq) /\ pc' = "idle" /\ tool' = tool
      /\ head \in {"absent", "short", "invalid", "valid"}
  <2>1. NoReport \in Report /\ <<>> \in Seq(0 .. MaxSeq)
    BY DEF NoReport, Report
  <2> QED BY <2>1 DEF TruncateTail, Types
<1> DEFINE size == FileSize - bytes
           whole == (size - FileHeaderBytes) \div RecordBytes
           part == (size - FileHeaderBytes) % RecordBytes
<1>1. CASE size < FileHeaderBytes
  <2>1. head' = "short" /\ cells' = <<>>
    BY <1>1 DEF TruncateTail
  <2>2. cells' \in Seq(Stored) /\ Len(cells') = 0
    BY <2>1
  <2> QED BY <1>0, <2>1, <2>2 DEF Types, Shape
<1>2. CASE ~(size < FileHeaderBytes)
  <2>1. /\ head' = head
        /\ cells' = SubSeq(cells, 1, whole) \o
                      (IF part = 0 THEN <<>> ELSE <<[cells[whole + 1] EXCEPT !.len = part]>>)
    BY <1>2 DEF TruncateTail
  <2>2. CASE head # "valid"
    <3>1. cells = <<>> /\ FileSize \in Nat /\ FileSize <= FileHeaderBytes
      BY <2>2 DEF FileSize, Shape
    <3> QED BY <1>2, <3>1
  <2>3. CASE head = "valid"
    <3>1. /\ Len(cells) \in Nat /\ FileSize \in Nat /\ FileSize <= Offset(Len(cells))
          /\ Offset(Len(cells)) = FileHeaderBytes + Len(cells) * RecordBytes
      <4>1. Len(cells) \in Nat /\ Len(cells) \in 0 .. Len(cells)
        BY DEF Types
      <4> QED BY <2>3, <4>1, SizeOfFile DEF Offset
    <3>2. /\ size - FileHeaderBytes \in Nat
          /\ size - FileHeaderBytes < Len(cells) * RecordBytes
      BY <1>2, <3>1
    <3>3. whole \in Nat /\ whole < Len(cells) /\ part \in 0 .. RecordBytes - 1
      <4> DEFINE d == size - FileHeaderBytes
      <4>1. d \in Nat /\ d < Len(cells) * RecordBytes /\ RecordBytes \in Nat \ {0}
        BY <3>2
      <4>2. /\ whole \in Nat /\ part \in 0 .. RecordBytes - 1
            /\ d = RecordBytes * whole + part
        <5> HIDE DEF d
        <5> QED BY <4>1, DivMod DEF d
      <4>3. CASE whole >= Len(cells)
        <5> HIDE DEF d, whole, part
        <5>1. RecordBytes * whole >= RecordBytes * Len(cells)
          BY <3>1, <4>1, <4>2, <4>3
        <5>2. RecordBytes * Len(cells) = Len(cells) * RecordBytes
          BY <3>1, <4>1
        <5> QED BY <3>1, <4>1, <4>2, <5>1, <5>2
      <4> HIDE DEF d, whole, part
      <4> QED BY <3>1, <4>2, <4>3
    <3> HIDE DEF size, whole, part
    <3>4. /\ SubSeq(cells, 1, whole) \in Seq(Stored) /\ Len(SubSeq(cells, 1, whole)) = whole
          /\ \A i \in 1 .. whole : SubSeq(cells, 1, whole)[i] = cells[i]
      <4>1. cells \in Seq(Stored) /\ whole \in 0 .. Len(cells)
        BY <3>1, <3>3 DEF Types
      <4> QED BY <4>1, CutAfter
    <3>5. part # 0 => [cells[whole + 1] EXCEPT !.len = part] \in Stored
      <4>1. cells[whole + 1] \in Stored
        BY <3>1, <3>3 DEF Types
      <4> QED BY <3>3, <4>1, ShorterStored
    <3>6. cells' \in Seq(Stored) /\ Len(cells') = IF part = 0 THEN whole ELSE whole + 1
      BY <2>1, <3>3, <3>4, <3>5
    <3>7. \A i \in 1 .. whole : cells'[i] = cells[i]
      BY <2>1, <3>3, <3>4
    <3>8. \A i \in 1 .. Len(cells') - 1 : cells'[i].len = RecordBytes
      <4> TAKE i \in 1 .. Len(cells') - 1
      <4>1. i \in 1 .. whole /\ i \in 1 .. Len(cells) - 1
        BY <3>1, <3>3, <3>6
      <4> QED BY <3>7, <4>1 DEF Shape
    <3> QED BY <1>0, <2>1, <2>3, <3>6, <3>8 DEF Types, Shape
  <2> QED BY <2>2, <2>3
<1> QED BY <1>1, <1>2

(* A flipped byte changes no record's length.                              *)
LEMMA ByteFlipped ==
  ASSUME Types, Shape, NEW seq \in 0 .. MaxSeq, CorruptByte(seq)
  PROVE  Types' /\ Shape'
<1> USE ScanAssumption
<1>0. /\ report' \in Report /\ entries' \in Seq(0 .. MaxSeq) /\ pc' = "idle" /\ tool' = tool
      /\ head' = head
  <2>1. NoReport \in Report /\ <<>> \in Seq(0 .. MaxSeq)
    BY DEF NoReport, Report
  <2> QED BY <2>1 DEF CorruptByte
<1>1. PICK i \in 1 .. Len(entries) : \E c \in Damaged(i) : cells' = [cells EXCEPT ![i] = c]
  BY DEF CorruptByte
<1>2. PICK c \in Damaged(i) : cells' = [cells EXCEPT ![i] = c]
  BY <1>1
<1>3. CASE i \in 1 .. Len(cells)
  <2>1. cells[i] \in Stored
    BY <1>3 DEF Types
  <2>2. c \in Stored /\ c.len = cells[i].len
    BY <2>1 DEF Damaged, Stored
  <2>3. cells' \in Seq(Stored) /\ Len(cells') = Len(cells)
        /\ \A j \in 1 .. Len(cells) : cells'[j].len = cells[j].len
    BY <1>2, <1>3, <2>2 DEF Types
  <2>4. \A j \in 1 .. Len(cells') - 1 : cells'[j].len = RecordBytes
    <3>1. Len(cells) \in Nat
      BY DEF Types
    <3>2. \A j \in 1 .. Len(cells) - 1 : cells'[j].len = RecordBytes
      BY <2>3, <3>1 DEF Shape
    <3> QED BY <2>3, <3>2
  <2>5. cells = <<>> => cells' = <<>>
    BY <1>3
  <2> QED BY <1>0, <2>3, <2>4, <2>5 DEF Types, Shape
<1>4. CASE i \notin 1 .. Len(cells)
  <2>1. cells' = cells
    BY <1>2, <1>4 DEF Types
  <2> QED BY <1>0, <2>1 DEF Types, Shape
<1> QED BY <1>3, <1>4

(* What does not move with the file, when the file does not.               *)
LEMMA SameFile ==
  ASSUME UNCHANGED file
  PROVE  /\ FileSize' = FileSize /\ (Shape => Shape')
         /\ \A n : (InSequence(n)' <=> InSequence(n)) /\ (Longest(n)' <=> Longest(n))
  BY DEF file, FileSize, Offset, Shape, InSequence, Sound, Longest

(* A run starts from an empty report.                                      *)
LEMMA RunKeeps ==
  ASSUME IInv, NEW t \in {"validate", "recover", "replay", "inject"}, Run(t)
  PROVE  IInv'
<1>1. NoReport \in Report /\ <<>> \in Seq(0 .. MaxSeq)
  BY ScanAssumption DEF NoReport, Report
<1>2. Types'
  BY <1>1 DEF IInv, Types, Run, file
<1>3. Shape'
  BY SameFile DEF IInv, Run
<1>4. /\ pc' = "open" /\ tool' # "rescan" /\ entries' = <<>>
      /\ report' = NoReport
  BY DEF Run
<1> QED BY <1>2, <1>3, <1>4 DEF IInv, Scanning, Found, Healing, NoReport

(* A file that cannot be opened tells nothing.                             *)
LEMMA CannotOpenKeeps ==
  ASSUME IInv, CannotOpen
  PROVE  IInv'
<1>1. /\ pc = "open" /\ pc' = "unread" /\ UNCHANGED <<file, tool, report, entries>>
  BY DEF CannotOpen
<1>2. Types' /\ Shape'
  BY <1>1, SameFile DEF IInv, Types, file
<1> QED BY <1>1, <1>2 DEF IInv, Scanning, Found, Healing

(* Past the header, nothing is accepted yet.                               *)
LEMMA ReadHeaderKeeps ==
  ASSUME IInv, ReadHeader
  PROVE  IInv'
<1> USE ScanAssumption
<1>0. /\ pc = "open" /\ UNCHANGED <<file, tool, entries>> /\ report.records = 0
      /\ entries = <<>> /\ report \in Report /\ report.bytes \in Nat
      /\ ~report.healthy /\ ~report.corrupt /\ report.expected = 0
      /\ (report.truncated <=> tool = "rescan")
  BY DEF ReadHeader, IInv, Scanning, Healing, Types, Report
<1>1. FileSize \in Nat
  <2>1. CASE head = "valid"
    <3>1. 0 \in 0 .. Len(cells)
      BY DEF IInv, Types
    <3> QED BY <2>1, <3>1, SizeOfFile DEF IInv
  <2> QED BY <2>1 DEF FileSize, IInv, Types, Shape
<1>2. /\ report' \in Report /\ report'.records = 0 /\ report'.expected = 0
      /\ report'.truncated = report.truncated
      /\ report'.bytes = report.bytes
  BY <1>0, <1>1 DEF ReadHeader, Report
<1>3. Types'
  BY <1>0, <1>2 DEF IInv, Types, ReadHeader, file
<1>4. Shape'
  BY <1>0, SameFile DEF IInv
<1>5. Accepted'
  <2>1. Len(cells') \in Nat
    BY <1>3 DEF Types
  <2>2. entries' = [i \in 1 .. report'.records |-> cells'[i].seq]
    BY <1>0, <1>2
  <2>3. InSequence(0)'
    BY DEF InSequence
  <2> QED BY <1>2, <2>1, <2>2, <2>3 DEF Accepted
<1>6. CASE head = "absent"
  <2>1. report'.healthy /\ pc' = "done"
    BY <1>0, <1>6 DEF ReadHeader, Report
  <2> QED BY <1>0, <1>2, <1>3, <1>4, <1>5, <1>6, <2>1
          DEF IInv, Scanning, Found, Healing, file
<1>7. CASE head \in {"short", "invalid"}
  <2>1. report'.corrupt /\ ~report'.healthy /\ pc' = "cut"
    BY <1>0, <1>7 DEF ReadHeader, Report
  <2>2. report.bytes = 0
    BY <1>0 DEF IInv, Scanning
  <2> QED BY <1>0, <1>2, <1>3, <1>4, <1>5, <1>7, <2>1, <2>2
          DEF IInv, Scanning, Found, Healing, file
<1>8. CASE head = "valid"
  <2>1. ~report'.corrupt /\ ~report'.healthy /\ pc' = "read"
    BY <1>0, <1>8 DEF ReadHeader, Report
  <2> QED BY <1>0, <1>2, <1>3, <1>4, <1>5, <1>8, <2>1, SameFile
          DEF IInv, Scanning, Found, Healing, file
<1> QED BY <1>6, <1>7, <1>8 DEF IInv, Types

(* What the loop knows before it reads a record or finds the end.          *)
LEMMA BeforeRecord ==
  ASSUME IInv, pc = "read"
  PROVE  /\ head = "valid" /\ report \in Report /\ report.records \in 0 .. Len(cells)
         /\ Len(cells) \in Nat /\ Accepted /\ Offset(report.records) \in Nat
         /\ report.records > 0 => report.last = cells[report.records].seq
         /\ ~report.healthy /\ ~report.corrupt /\ report.expected = 0
         /\ Boundary \in Report
         /\ Boundary = [Boundary EXCEPT !.badIndex = report.records + 1,
                                        !.offset = Offset(report.records)]
<1>1. head = "valid" /\ report \in Report /\ Len(cells) \in Nat /\ Accepted
  BY DEF IInv, Scanning, Types
<1>2. report.records \in 0 .. Len(cells)
  BY <1>1 DEF Accepted, Report
<1>3. report.records \in Nat /\ report.records + 1 \in Nat
  BY <1>1, <1>2
<1>4. Offset(report.records) \in Nat
  BY <1>3, OffsetNext
<1>5. Boundary \in Report
  BY <1>1, <1>3, <1>4 DEF Boundary, Report
<1> QED BY <1>1, <1>2, <1>4, <1>5 DEF IInv, Scanning, Boundary, Report

(* A scan that reaches the end has accepted the whole file.                *)
LEMMA EndOfFileKeeps ==
  ASSUME IInv, EndOfFile
  PROVE  IInv'
<1> USE ScanAssumption
<1>0. /\ pc = "read" /\ UNCHANGED <<file, tool, entries>> /\ pc' = "done"
      /\ report.records = Len(cells)
  BY DEF EndOfFile
<1>1. /\ head = "valid" /\ report \in Report /\ report.records \in 0 .. Len(cells)
      /\ Accepted /\ Offset(report.records) \in Nat /\ ~report.corrupt
      /\ Boundary \in Report
  BY <1>0, BeforeRecord
<1>2. /\ report' \in Report /\ report'.records = report.records /\ report'.healthy
      /\ ~report'.corrupt /\ report'.truncated = report.truncated
      /\ report'.bytes = Offset(report.records)
  BY <1>1 DEF EndOfFile, Boundary, Report
<1>3. Types'
  BY <1>0, <1>2 DEF IInv, Types, file
<1>4. FileSize = Offset(report.records)
  <2>1. Len(cells) # 0 => Sound(Len(cells))
    BY <1>0, <1>1 DEF Accepted, InSequence
  <2> QED BY <1>0, <1>1, <2>1, SizeOfFile DEF IInv, Sound
<1>5. Longest(report.records)
  BY <1>0, <1>1 DEF Longest, Accepted
<1>6. Exact'
  <2>1. PICK n : n = report.records
    OBVIOUS
  <2>2. Longest(n)' /\ FileSize' = FileSize
    BY <1>0, <1>5, <2>1, SameFile
  <2>3. Longest(report.records)' /\ Offset(report.records)' = Offset(report.records)
    BY <1>2, <2>1, <2>2 DEF Offset
  <2> QED BY <1>2, <1>4, <2>2, <2>3 DEF Exact
<1>7. Accepted'
  BY <1>0, <1>1, <1>2, SameFile DEF Accepted, file
<1>8. Shape'
  BY <1>0, SameFile DEF IInv
<1>9. Scanning'
  BY <1>0, <1>7 DEF Scanning
<1>10. Healing'
  <2>1. report'.truncated <=> tool' = "rescan"
    BY <1>0, <1>2 DEF IInv, Healing
  <2>2. InSequence(Len(cells))'
    <3>1. InSequence(Len(cells))
      BY <1>0, <1>1 DEF Accepted
    <3> QED BY <1>0, <3>1 DEF InSequence, Sound, file
  <2> QED BY <1>0, <1>1, <1>2, <2>1, <2>2 DEF Healing, file
<1> QED BY <1>3, <1>6, <1>8, <1>9, <1>10 DEF IInv, Found

(* An accepted record extends the prefix and what is returned.             *)
LEMMA AcceptRecordKeeps ==
  ASSUME IInv, AcceptRecord
  PROVE  IInv'
<1> USE ScanAssumption
<1>n. PICK n, c : n = report.records /\ c = cells[n + 1]
  OBVIOUS
<1>0. /\ pc = "read" /\ UNCHANGED <<file, tool, pc>> /\ n < Len(cells)
      /\ Verdict(c) = "valid" /\ entries' = Append(entries, c.seq)
      /\ report' = [Boundary EXCEPT !.records = @ + 1, !.last = c.seq, !.badSeq = c.seq,
                                    !.scanned = Offset(n + 1)]
  BY <1>n DEF AcceptRecord
<1>1. /\ head = "valid" /\ report \in Report /\ n \in 0 .. Len(cells)
      /\ Accepted /\ Boundary \in Report /\ Len(cells) \in Nat
      /\ n > 0 => report.last = cells[n].seq
      /\ ~report.healthy /\ ~report.corrupt /\ report.expected = 0
  BY <1>n, <1>0, BeforeRecord
<1>2. c.seq \in 0 .. MaxSeq
  <2>1. c \in Stored
    <3>1. n + 1 \in 1 .. Len(cells) /\ cells \in Seq(Stored)
      BY <1>0, <1>1 DEF IInv, Types
    <3> QED BY <1>n, <3>1
  <2> QED BY <2>1 DEF Stored
<1>3. Offset(n + 1) \in Nat
  BY <1>1, OffsetNext
<1>4. /\ report' \in Report /\ report'.records = n + 1 /\ report'.last = c.seq
      /\ report'.truncated = report.truncated
      /\ ~report'.healthy /\ ~report'.corrupt /\ report'.expected = 0
  <2>1. /\ Boundary.records = n /\ Boundary.truncated = report.truncated
        /\ Boundary.healthy = report.healthy /\ Boundary.corrupt = report.corrupt
        /\ Boundary.expected = report.expected
    BY <1>n, <1>1 DEF Boundary, Report
  <2>2. PICK r, seq, at : r = Boundary /\ seq = c.seq /\ at = Offset(n + 1)
    OBVIOUS
  <2>3. report' = [r EXCEPT !.records = @ + 1, !.last = seq, !.badSeq = seq, !.scanned = at]
    BY <1>0, <2>2, Zenon
  <2>4. r \in Report /\ seq \in 0 .. MaxSeq /\ at \in Nat
    BY <1>1, <1>2, <1>3, <2>2
  <2>5. /\ report' \in Report /\ report'.records = r.records + 1 /\ report'.last = seq
        /\ report'.truncated = r.truncated /\ report'.healthy = r.healthy
        /\ report'.corrupt = r.corrupt /\ report'.expected = r.expected
    <3>1. r.records \in Nat /\ r.records + 1 \in Nat
      BY ONLY <2>4 DEF Report
    <3>2. report' \in Report
      BY ONLY <2>3, <2>4, <3>1 DEF Report
    <3> QED BY ONLY <2>3, <2>4, <3>1, <3>2 DEF Report
  <2> QED BY <1>1, <2>1, <2>2, <2>5, Zenon
<1>5. entries' \in Seq(0 .. MaxSeq) /\ entries' = [i \in 1 .. n + 1 |-> cells[i].seq]
  <2>1. entries \in Seq(0 .. MaxSeq) /\ entries = [i \in 1 .. n |-> cells[i].seq]
    BY <1>n, <1>1 DEF IInv, Types, Accepted
  <2>2. Len(entries) = n
    BY <1>1, <2>1
  <2>3. entries' \in Seq(0 .. MaxSeq) /\ Len(entries') = n + 1
    BY <1>0, <1>1, <1>2, <2>1, <2>2
  <2>4. \A i \in 1 .. n + 1 : entries'[i] = cells[i].seq
    <3> TAKE i \in 1 .. n + 1
    <3>1. CASE i = n + 1
      BY <1>n, <1>0, <1>1, <2>1, <2>2, <3>1
    <3>2. CASE i # n + 1
      <4>1. i \in 1 .. n
        BY <1>1, <3>2
      <4> QED BY <1>0, <1>1, <2>1, <2>2, <4>1
    <3> QED BY <3>1, <3>2
  <2> QED BY <2>3, <2>4
<1>6. InSequence(n + 1)
  BY <1>0, <1>1, VerdictRight, <1>n DEF IInv
<1>7. Types'
  BY <1>0, <1>4, <1>5 DEF IInv, Types, file
<1>8. Shape'
  BY <1>0, SameFile DEF IInv
<1>9. Accepted'
  <2>1. InSequence(n + 1)'
    BY <1>0, <1>6, SameFile
  <2>2. InSequence(report.records)'
    BY <1>4, <2>1
  <2>3. report'.records <= Len(cells')
    BY <1>0, <1>1, <1>4 DEF file
  <2>4. entries' = [i \in 1 .. report'.records |-> cells'[i].seq]
    BY <1>0, <1>4, <1>5 DEF file
  <2> QED BY <2>2, <2>3, <2>4 DEF Accepted
<1>10. report'.last = cells'[report'.records].seq
  BY <1>n, <1>0, <1>4 DEF file
<1>11. tool = "rescan" => InSequence(Len(cells))'
  BY <1>0, <1>1, SameFile DEF IInv, Healing, file
<1> QED BY <1>0, <1>1, <1>4, <1>7, <1>8, <1>9, <1>10, <1>11
        DEF IInv, Scanning, Found, Healing, file

(* A rejected record ends the prefix, and the report says where.           *)
LEMMA RejectRecordKeeps ==
  ASSUME IInv, RejectRecord
  PROVE  IInv'
<1> USE ScanAssumption
<1>n. PICK n, c, size :
        /\ n = report.records /\ c = cells[n + 1]
        /\ size = IF Verdict(c) = "metadata" THEN RecordHeaderBytes ELSE c.len
  OBVIOUS
<1>0. /\ pc = "read" /\ UNCHANGED <<file, tool, entries>> /\ pc' = "cut"
      /\ n < Len(cells) /\ Verdict(c) # "valid"
      /\ report' =
             [Boundary EXCEPT
                !.corrupt = TRUE, !.bytes = Offset(n),
                !.scanned = Offset(n) + size,
                !.badSeq = IF Verdict(c) = "partial header" THEN @ ELSE c.seq,
                !.checksum = IF Verdict(c) = "checksum" THEN 1 ELSE 0,
                !.expected = IF Verdict(c) = "gap" THEN (report.last + 1) % (MaxSeq + 1) ELSE 0]
  BY <1>n DEF RejectRecord
<1>1. /\ head = "valid" /\ report \in Report /\ n \in 0 .. Len(cells)
      /\ Accepted /\ Boundary \in Report /\ Len(cells) \in Nat /\ Offset(n) \in Nat
      /\ n > 0 => report.last = cells[n].seq
      /\ ~report.healthy /\ ~report.corrupt /\ report.expected = 0
  BY <1>n, <1>0, BeforeRecord
<1>2. c \in Stored /\ FileSize \in Nat /\ Offset(n) + c.len <= FileSize
  BY <1>n, <1>0, <1>1, SizeOfFile DEF IInv
<1>3. c.seq \in 0 .. MaxSeq /\ c.len \in 1 .. RecordBytes
  BY <1>2 DEF Stored
<1>4. /\ ~InSequence(n + 1)
      /\ Verdict(c) = "metadata" => c.len >= RecordHeaderBytes
      /\ Verdict(c) = "partial header" => ~(c.len >= RecordHeaderBytes)
      /\ Verdict(c) = "gap" => Sound(n + 1) /\ n > 0
  BY <1>n, <1>0, <1>1, VerdictRight DEF IInv
<1>5. size \in Nat /\ size > 0 /\ size <= c.len
  <2>1. CASE Verdict(c) = "metadata"
    BY <1>n, <1>3, <1>4, <2>1
  <2>2. CASE Verdict(c) # "metadata"
    BY <1>n, <1>3, <2>2
  <2> QED BY <2>1, <2>2
<1>6. report.last \in 0 .. MaxSeq /\ (report.last + 1) % (MaxSeq + 1) \in 0 .. MaxSeq
      /\ (report.last + 1) % (MaxSeq + 1) \in {0, report.last + 1}
  <2>1. report.last \in 0 .. MaxSeq
    BY <1>1 DEF Report
  <2> QED BY <2>1
<1>7. /\ report' \in Report /\ report'.records = n /\ report'.corrupt /\ ~report'.healthy
      /\ report'.bytes = Offset(n) /\ report'.scanned = Offset(n) + size
      /\ report'.badIndex = n + 1 /\ report'.offset = Offset(n)
      /\ report'.truncated = report.truncated
  <2>1. n + 1 \in Nat /\ Offset(n) + size \in Nat
    BY <1>1, <1>5
  <2>2. Boundary.badIndex = n + 1 /\ Boundary.offset = Offset(n) /\ Boundary.records = n
        /\ Boundary.truncated = report.truncated /\ Boundary.healthy = report.healthy
    BY <1>n, <1>1 DEF Boundary, Report
  <2>3. /\ (IF Verdict(c) = "partial header" THEN Boundary.badSeq ELSE c.seq) \in 0 .. MaxSeq
        /\ (IF Verdict(c) = "checksum" THEN 1 ELSE 0) \in Nat
        /\ (IF Verdict(c) = "gap" THEN (report.last + 1) % (MaxSeq + 1) ELSE 0) \in Nat
    <3>1. Boundary.badSeq \in 0 .. MaxSeq
      BY <1>1 DEF Report
    <3>2. 0 \in Nat /\ 1 \in Nat /\ (report.last + 1) % (MaxSeq + 1) \in Nat
      BY <1>6
    <3> HIDE DEF ScanAssumption
    <3> QED BY <1>3, <3>1, <3>2, Zenon
  <2>4. PICK r, at, upTo, seq, checksum, expected :
          /\ r = Boundary /\ at = Offset(n) /\ upTo = Offset(n) + size
          /\ seq = IF Verdict(c) = "partial header" THEN Boundary.badSeq ELSE c.seq
          /\ checksum = IF Verdict(c) = "checksum" THEN 1 ELSE 0
          /\ expected = IF Verdict(c) = "gap" THEN (report.last + 1) % (MaxSeq + 1) ELSE 0
    OBVIOUS
  <2>5. report' = [r EXCEPT !.corrupt = TRUE, !.bytes = at, !.scanned = upTo,
                            !.badSeq = seq, !.checksum = checksum, !.expected = expected]
    BY <1>0, <2>4, Zenon
  <2>6. r \in Report /\ at \in Nat /\ upTo \in Nat /\ seq \in 0 .. MaxSeq
        /\ checksum \in Nat /\ expected \in Nat
    BY <1>1, <2>1, <2>3, <2>4, Zenon
  <2>7. /\ report' \in Report /\ report'.records = r.records /\ report'.corrupt
        /\ report'.healthy = r.healthy /\ report'.bytes = at /\ report'.scanned = upTo
        /\ report'.badIndex = r.badIndex /\ report'.offset = r.offset
        /\ report'.truncated = r.truncated
    <3>1. report' \in Report
      BY ONLY <2>5, <2>6 DEF Report
    <3> QED BY ONLY <2>5, <2>6, <3>1 DEF Report
  <2> QED BY <1>1, <2>2, <2>4, <2>7, Zenon
<1>8. /\ Verdict(c) # "partial header" => report'.badSeq = c.seq
      /\ report'.expected # 0 => Verdict(c) = "gap" /\ report'.expected = report.last + 1
  BY <1>n, <1>0, <1>1, <1>6 DEF Boundary, Report
<1>9. Types'
  BY <1>0, <1>7 DEF IInv, Types, file
<1>10. Shape'
  BY <1>0, SameFile DEF IInv
<1>11. Accepted'
  BY <1>n, <1>0, <1>1, <1>7, SameFile DEF Accepted, file
<1>12. Longest(n)
  BY <1>n, <1>0, <1>1, <1>4 DEF Longest, Accepted
<1>13. Exact'
  <2>1. Longest(n)' /\ FileSize' = FileSize /\ cells' = cells
    BY <1>0, <1>12, SameFile DEF file
  <2>2. Longest(report.records)' /\ Offset(report.records)' = Offset(n)
    BY <1>7, <2>1 DEF Offset
  <2>3. Offset(n) < Offset(n) + size /\ Offset(n) + size <= FileSize
    BY <1>1, <1>2, <1>3, <1>5
  <2>4. cells'[n + 1] = c
    BY <1>n, <2>1
  <2>5. c.len >= RecordHeaderBytes => report'.badSeq = c.seq
    BY <1>4, <1>8
  <2>6. report'.expected # 0 => Sound(n + 1)' /\ report'.expected = cells'[(n + 1) - 1].seq + 1
    <3> SUFFICES ASSUME report'.expected # 0
                 PROVE  Sound(n + 1)' /\ report'.expected = cells'[(n + 1) - 1].seq + 1
      OBVIOUS
    <3>1. Sound(n + 1)'
      BY <1>4, <1>8, <2>1 DEF Sound
    <3>2. (n + 1) - 1 = n /\ n > 0
      BY <1>1, <1>4, <1>8
    <3> QED BY <1>1, <1>8, <2>1, <3>1, <3>2
  <2>7. FileSize' # report'.bytes
    BY <1>1, <1>2, <1>5, <1>7, <2>1, <2>3
  <2> QED BY <1>7, <2>1, <2>2, <2>3, <2>4, <2>5, <2>6, <2>7 DEF Exact
<1>14. tool # "rescan"
  <2> SUFFICES ASSUME tool = "rescan" PROVE FALSE
    OBVIOUS
  <2>1. InSequence(Len(cells))
    BY <1>0 DEF IInv, Healing
  <2>2. n + 1 \in Nat /\ n + 1 <= Len(cells)
    BY <1>0, <1>1
  <2> QED BY <1>1, <1>4, <2>1, <2>2, FewerInSequence
<1> QED BY <1>0, <1>1, <1>7, <1>9, <1>10, <1>11, <1>13, <1>14
        DEF IInv, Scanning, Found, Healing, file

(* What recovery cuts is behind the longest prefix, so the file it leaves  *)
(* is in sequence to its end.                                              *)
LEMMA PrefixCut ==
  ASSUME IInv, Cut, tool = "recover", report.bytes >= FileHeaderBytes
  PROVE  /\ head = "valid" /\ Longest(report.records)
         /\ cells' \in Seq(Stored) /\ Len(cells') = report.records
         /\ \A i \in 1 .. report.records : cells'[i] = cells[i]
         /\ InSequence(Len(cells))'
<1> USE ScanAssumption
<1>1. pc = "cut" /\ cells' = SubSeq(cells, 1, report.records)
  BY DEF Cut
<1>2. head = "valid"
  <2>1. head # "valid" => report.bytes = 0
    BY <1>1 DEF IInv, Scanning
  <2> QED BY <2>1
<1>3. Longest(report.records)
  BY <1>1, <1>2 DEF IInv, Found, Exact
<1>4. PICK n : n = report.records
  OBVIOUS
<1>5. cells \in Seq(Stored) /\ Len(cells) \in Nat /\ n \in 0 .. Len(cells) /\ InSequence(n)
  BY <1>3, <1>4 DEF IInv, Types, Longest
<1>6. cells' = SubSeq(cells, 1, n)
  BY <1>1, <1>4
<1>7. /\ cells' \in Seq(Stored) /\ Len(cells') = n
      /\ \A i \in 1 .. n : cells'[i] = cells[i]
  BY <1>5, <1>6, CutAfter
<1>8. InSequence(Len(cells))'
  <2>1. \A i \in 1 .. Len(cells') : Sound(i)'
    BY <1>5, <1>7 DEF InSequence, Sound
  <2>2. ASSUME NEW i \in 2 .. Len(cells')
        PROVE  cells'[i].seq = cells'[i - 1].seq + 1
    <3>1. i \in 1 .. n /\ i - 1 \in 1 .. n /\ i \in 2 .. n
      BY <1>5, <1>7
    <3>2. cells[i].seq = cells[i - 1].seq + 1
      BY <1>5, <3>1 DEF InSequence
    <3> QED BY <1>7, <3>1, <3>2
  <2> QED BY <2>1, <2>2 DEF InSequence
<1> QED BY <1>2, <1>3, <1>4, <1>7, <1>8

(* Recovery cuts and scans again, or is done with what it found.           *)
LEMMA CutKeeps ==
  ASSUME IInv, Cut
  PROVE  IInv'
<1> USE ScanAssumption
<1>0. pc = "cut" /\ head' = head
  BY DEF Cut
<1>1. CASE tool = "recover" /\ report.bytes >= FileHeaderBytes
  <2>1. /\ head = "valid" /\ Longest(report.records)
        /\ cells' \in Seq(Stored) /\ Len(cells') = report.records
        /\ \A i \in 1 .. report.records : cells'[i] = cells[i]
        /\ InSequence(Len(cells))'
    BY <1>1, PrefixCut
  <2>2. /\ tool' = "rescan" /\ pc' = "open" /\ entries' = <<>>
        /\ report' = [NoReport EXCEPT !.truncated = TRUE]
    BY <1>1 DEF Cut
  <2>3. /\ report' \in Report /\ report'.truncated /\ report'.records = 0
        /\ report'.bytes = 0 /\ ~report'.healthy /\ ~report'.corrupt /\ report'.expected = 0
    <3>1. NoReport \in Report
      BY DEF NoReport, Report
    <3>2. report' \in Report
      BY <2>2, <3>1 DEF Report
    <3> QED BY <2>2, <3>2 DEF NoReport
  <2>4. Types'
    <3>1. <<>> \in Seq(0 .. MaxSeq)
      OBVIOUS
    <3> QED BY <1>0, <2>1, <2>2, <2>3, <3>1 DEF IInv, Types
  <2>5. Shape'
    <3>1. \A i \in 1 .. Len(cells') - 1 : cells'[i].len = RecordBytes
      <4>1. Len(cells') \in Nat /\ \A i \in 1 .. Len(cells') : Sound(i)'
        BY <2>1 DEF InSequence
      <4> QED BY <4>1 DEF Sound
    <3> QED BY <1>0, <2>1, <3>1 DEF Shape
  <2>6. Scanning' /\ Found' /\ Healing'
    BY <1>0, <2>1, <2>2, <2>3 DEF Scanning, Found, Healing
  <2> QED BY <2>4, <2>5, <2>6 DEF IInv
<1>2. CASE ~(tool = "recover" /\ report.bytes >= FileHeaderBytes)
  <2>1. pc' = "done" /\ UNCHANGED <<head, cells, tool, report, entries>>
    BY <1>2 DEF Cut
  <2>2. tool # "rescan" /\ (head = "valid" => tool # "recover")
    <3>1. tool # "rescan"
      BY <1>0 DEF IInv, Healing
    <3>2. head = "valid" => report.bytes >= FileHeaderBytes
      <4> SUFFICES ASSUME head = "valid" PROVE report.bytes >= FileHeaderBytes
        OBVIOUS
      <4>1. report.bytes = Offset(report.records)
        BY <1>0 DEF IInv, Found, Exact
      <4>2. report.records \in Nat
        BY DEF IInv, Types, Report
      <4> QED BY <4>1, <4>2, OffsetNext
    <3> QED BY <1>2, <3>1, <3>2
  <2>3. Types' /\ Shape'
    BY <2>1, SameFile DEF IInv, Types, file
  <2>4. Accepted'
    BY <1>0, <2>1 DEF IInv, Scanning, Accepted, InSequence, Sound
  <2>5. Found'
    <3>1. Exact => Exact'
      BY <2>1 DEF Exact, Longest, InSequence, Sound, FileSize, Offset
    <3> QED BY <1>0, <2>1, <3>1 DEF IInv, Found
  <2>6. Scanning' /\ Healing'
    BY <1>0, <2>1, <2>2, <2>4 DEF IInv, Scanning, Healing
  <2> QED BY <2>3, <2>5, <2>6 DEF IInv
<1> QED BY <1>1, <1>2

(* A file that could not be cut is what the report says it is.             *)
LEMMA CutFailsKeeps ==
  ASSUME IInv, CutFails
  PROVE  IInv'
<1>1. /\ pc = "cut" /\ pc' = "uncut" /\ tool = "recover"
      /\ UNCHANGED <<head, cells, tool, report, entries>>
  BY DEF CutFails, file
<1>2. Types' /\ Shape'
  BY <1>1, SameFile DEF IInv, Types, file
<1>3. Accepted'
  BY <1>1 DEF IInv, Scanning, Accepted, InSequence, Sound
<1>4. Found'
  <2>1. Exact => Exact'
    BY <1>1 DEF Exact, Longest, InSequence, Sound, FileSize, Offset
  <2> QED BY <1>1, <2>1 DEF IInv, Found
<1> QED BY <1>1, <1>2, <1>3, <1>4 DEF IInv, Scanning, Healing

(* Between two runs only the shape of the file is known.                   *)
LEMMA DamageKeeps ==
  ASSUME IInv,
         \/ \E bytes \in 1 .. FileSize : TruncateTail(bytes)
         \/ \E seq \in 0 .. MaxSeq : CorruptByte(seq)
  PROVE  IInv'
<1>1. Types' /\ Shape'
  BY TailCut, ByteFlipped DEF IInv
<1>2. pc' = "idle"
  BY DEF TruncateTail, CorruptByte
<1> QED BY <1>1, <1>2 DEF IInv, Scanning, Found, Healing

(* Nothing changes, nothing breaks.                                        *)
LEMMA StutterKeeps ==
  ASSUME IInv, UNCHANGED vars
  PROVE  IInv'
<1>1. UNCHANGED <<head, cells, tool, pc, report, entries>>
  BY DEF vars, file
<1>2. Types' /\ Shape'
  BY <1>1, SameFile DEF IInv, Types, file
<1>3. /\ Accepted => Accepted'
      /\ Exact => Exact'
      /\ InSequence(Len(cells)) => InSequence(Len(cells))'
  BY <1>1 DEF Accepted, Exact, Longest, InSequence, Sound, FileSize, Offset
<1> QED BY <1>1, <1>2, <1>3 DEF IInv, Scanning, Found, Healing

(* The invariant holds in every state a scan, a recovery or the injector   *)
(* can reach, whatever files they are given.                               *)
THEOREM Invariance == Spec => []IInv
<1>1. Init => IInv
  BY InitInv
<1>2. IInv /\ [Next]_vars => IInv'
  <2> SUFFICES ASSUME IInv, [Next]_vars PROVE IInv'
    OBVIOUS
  <2>1. CASE \E t \in {"validate", "recover", "replay", "inject"} : Run(t)
    BY <2>1, RunKeeps
  <2>2. CASE ReadHeader
    BY <2>2, ReadHeaderKeeps
  <2>3. CASE EndOfFile
    BY <2>3, EndOfFileKeeps
  <2>4. CASE AcceptRecord
    BY <2>4, AcceptRecordKeeps
  <2>5. CASE RejectRecord
    BY <2>5, RejectRecordKeeps
  <2>6. CASE Cut
    BY <2>6, CutKeeps
  <2>7. CASE \/ \E bytes \in 1 .. FileSize : TruncateTail(bytes)
             \/ \E seq \in 0 .. MaxSeq : CorruptByte(seq)
    BY <2>7, DamageKeeps
  <2>8. CASE CannotOpen
    BY <2>8, CannotOpenKeeps
  <2>9. CASE CutFails
    BY <2>9, CutFailsKeeps
  <2>10. CASE UNCHANGED vars
    BY <2>10, StutterKeeps
  <2> QED BY <2>1, <2>2, <2>3, <2>4, <2>5, <2>6, <2>7, <2>8, <2>9, <2>10 DEF Next
<1> QED BY <1>1, <1>2, PTL DEF Spec

(* A finished scan of a file with a valid header reports and returns the   *)
(* longest prefix of sound, contiguous records, for every file and every   *)
(* damage the fault injector does to it, and names the first bad record.   *)
THEOREM ReportIsExact == Spec => []ReportsLongestPrefix
<1>1. IInv => ReportsLongestPrefix
  BY DEF IInv, Scanning, Accepted, Found, Exact, ReportsLongestPrefix
<1> QED BY <1>1, Invariance, PTL

(* recover(path, true) leaves a file that scans clean to its end, and      *)
(* reports a truncation exactly when it cut; if it could not cut it claims *)
(* neither.                                                                *)
THEOREM RecoveryHeals == Spec => []RecoverHeals
<1>1. IInv => RecoverHeals
  <2>a. IInv /\ pc = "uncut" => ~report.healthy /\ ~report.truncated
    BY DEF IInv, Scanning, Healing
  <2> SUFFICES ASSUME IInv, pc = "done", tool \in {"recover", "rescan"}, head = "valid"
               PROVE  /\ report.healthy
                      /\ report.bytes = FileSize
                      /\ report.truncated <=> tool = "rescan"
    BY <2>a DEF RecoverHeals
  <2>1. Exact /\ (report.truncated <=> tool = "rescan")
    BY DEF IInv, Found, Healing
  <2>2. report.healthy
    <3>1. CASE tool = "recover"
      BY <3>1 DEF IInv, Healing
    <3>2. CASE tool = "rescan"
      <4> SUFFICES ASSUME ~report.healthy PROVE FALSE
        OBVIOUS
      <4>1. InSequence(Len(cells)) /\ Longest(report.records)
        BY <2>1, <3>2 DEF IInv, Healing, Exact
      <4>2. Longest(Len(cells)) /\ Len(cells) \in Nat
        BY <4>1 DEF Longest, IInv, Types
      <4>3. report.records = Len(cells)
        BY <4>1, <4>2, OneLongest DEF IInv
      <4>4. /\ report.corrupt /\ report.bytes < report.scanned /\ report.scanned <= FileSize
            /\ report.bytes = Offset(Len(cells))
        BY <2>1, <4>3 DEF Exact
      <4>5. FileSize \in Nat /\ FileSize <= Offset(Len(cells)) /\ Offset(Len(cells)) \in Nat
        <5>1. Len(cells) \in 0 .. Len(cells)
          BY <4>2
        <5>2. FileSize \in Nat /\ FileSize <= Offset(Len(cells))
          BY <5>1, SizeOfFile DEF IInv
        <5> QED BY <4>2, <5>2, OffsetNext
      <4>6. report.scanned \in Nat
        BY DEF IInv, Types, Report
      <4> QED BY <4>4, <4>5, <4>6
    <3> QED BY <3>1, <3>2
  <2> QED BY <2>1, <2>2 DEF Exact
<1> QED BY <1>1, Invariance, PTL

(* A scan or recovery under way leaves every record of the longest valid   *)
(* prefix as it is, and nothing but a recovery changes the file at all.    *)
THEOREM ValidRecordsStay == Spec => ValidRecordsKept
<1> DEFINE Kept ==
      \A n \in 0 .. Len(cells) :
        pc \in {"open", "read", "cut"} /\ Longest(n) =>
          /\ Len(cells') >= n /\ SubSeq(cells', 1, n) = SubSeq(cells, 1, n)
          /\ tool # "recover" => UNCHANGED file
<1>1. IInv /\ [Next]_vars => [Kept]_vars
  <2> SUFFICES ASSUME IInv, Next, NEW n \in 0 .. Len(cells),
                      pc \in {"open", "read", "cut"}, Longest(n)
               PROVE  /\ Len(cells') >= n /\ SubSeq(cells', 1, n) = SubSeq(cells, 1, n)
                      /\ tool # "recover" => UNCHANGED file
    OBVIOUS
  <2>0. cells \in Seq(Stored) /\ Len(cells) \in Nat
    BY DEF IInv, Types
  <2>1. CASE UNCHANGED file
    BY <2>0, <2>1 DEF file
  <2>2. CASE ~UNCHANGED file
    <3>1. Cut
      BY <2>2 DEF Next, Run, CannotOpen, ReadHeader, EndOfFile, AcceptRecord,
                  RejectRecord, CutFails, TruncateTail, CorruptByte, Returned
    <3>2. tool = "recover" /\ report.bytes >= FileHeaderBytes
      BY <2>2, <3>1 DEF Cut, file
    <3>3. Longest(report.records) /\ cells' = SubSeq(cells, 1, report.records)
      BY <3>1, <3>2, PrefixCut DEF Cut
    <3>4. cells' = SubSeq(cells, 1, n)
      BY <3>3, OneLongest DEF IInv
    <3>5. Len(cells') = n /\ SubSeq(cells', 1, n) = SubSeq(cells, 1, n)
      BY <2>0, <3>4
    <3> QED BY <3>2, <3>5
  <2> QED BY <2>1, <2>2
<1> QED BY <1>1, Invariance, PTL DEF Spec, ValidRecordsKept

=============================================================================

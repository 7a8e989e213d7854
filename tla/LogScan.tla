------------------------------- MODULE LogScan -------------------------------
(***************************************************************************)
(* The forward scan of a log file (scan_file in recovery_manager.cpp), the *)
(* tools that run it, and the damage the fault injector does between two   *)
(* runs.  RecorderStore takes a scan as one step that finds the longest    *)
(* valid prefix; here it reads record by record and fills in the report.   *)
(*                                                                         *)
(* A record is what the scan tests of it: the bytes that are there, its    *)
(* sequence number, whether its metadata and its CRC are right.  Only the  *)
(* last record of a file can be short.                                     *)
(***************************************************************************)
EXTENDS Integers, Sequences

CONSTANTS
  MaxFile,          \* records of the largest file
  MaxSeq,           \* largest sequence number (2^64 - 1 in the code)
  FileHeaderBytes,  \* sizeof(PersistedFileHeader)
  RecordHeaderBytes,\* sizeof(PersistedRecordHeader)
  RecordBytes       \* kPersistedRecordSize

ASSUME ScanAssumption ==
  /\ MaxFile \in Nat /\ MaxSeq \in Nat
  /\ FileHeaderBytes \in Nat \ {0}
  /\ RecordHeaderBytes \in Nat \ {0}
  /\ RecordBytes \in Nat /\ RecordBytes > RecordHeaderBytes

VARIABLES
  head,     \* the file header: "absent" file, "short", "invalid", "valid"
  cells,    \* the records behind it
  tool,     \* what runs: "validate", "recover", "rescan", "replay", "inject"
  pc,       \* "idle", "open", "read", "cut", "done"; "unread" and "uncut" after
            \* an error of the system
  report,   \* RecoveryReport
  entries   \* ReplayLog.entries, their sequences

file == <<head, cells>>
vars == <<file, tool, pc, report, entries>>

Returned == pc \in {"idle", "done", "unread", "uncut"}

Stored == [seq : 0 .. MaxSeq, meta : BOOLEAN, crc : BOOLEAN, len : 1 .. RecordBytes]
Intact(s) == [seq |-> s, meta |-> TRUE, crc |-> TRUE, len |-> RecordBytes]

NoReport ==
  [healthy |-> FALSE, corrupt |-> FALSE, truncated |-> FALSE,
   records |-> 0, bytes |-> 0, scanned |-> 0, last |-> 0, checksum |-> 0,
   badIndex |-> 0, badSeq |-> 0, expected |-> 0, offset |-> 0]

(* Where the record after n whole ones starts.                             *)
Offset(n) == FileHeaderBytes + n * RecordBytes

FileSize ==
  IF head = "absent" THEN 0
  ELSE IF head = "short" THEN FileHeaderBytes - 1
  ELSE IF cells = <<>> THEN FileHeaderBytes
  ELSE Offset(Len(cells) - 1) + cells[Len(cells)].len

(* Any file of whole records, in sequence or not.                          *)
Init ==
  /\ head \in {"absent", "invalid", "valid"}
  /\ \E n \in 0 .. MaxFile : \E seqs \in [1 .. n -> 0 .. MaxSeq] :
       cells = [i \in 1 .. n |-> Intact(seqs[i])]
  /\ head # "valid" => cells = <<>>
  /\ tool = "validate" /\ pc = "idle"
  /\ report = NoReport /\ entries = <<>>

-----------------------------------------------------------------------------
Run(t) ==
  /\ Returned
  /\ tool' = t /\ pc' = "open"
  /\ report' = NoReport /\ entries' = <<>>
  /\ UNCHANGED file

(* The file is there and cannot be opened: neither healthy nor corrupt.    *)
CannotOpen ==
  /\ pc = "open"
  /\ head # "absent"
  /\ pc' = "unread"
  /\ UNCHANGED <<file, tool, report, entries>>

ReadHeader ==
  /\ pc = "open"
  /\ \/ /\ head = "absent"
        /\ report' = [report EXCEPT !.healthy = TRUE]
        /\ pc' = "done"
     \/ /\ head \in {"short", "invalid"}
        /\ report' = [report EXCEPT !.corrupt = TRUE, !.scanned = FileSize]
        /\ pc' = "cut"
     \/ /\ head = "valid"
        /\ report' = [report EXCEPT !.scanned = FileHeaderBytes]
        /\ pc' = "read"
  /\ UNCHANGED <<file, tool, entries>>

-----------------------------------------------------------------------------
(* Mistakes the code does not make.  Each stands in for the definition its *)
(* comment names, to show that a property would notice it.                 *)

(* Verdict that takes any larger number for the next one.                  *)
AcceptsGaps(c) ==
  CASE c.len < RecordHeaderBytes -> "partial header"
    [] c.len >= RecordHeaderBytes /\ ~c.meta -> "metadata"
    [] c.len >= RecordHeaderBytes /\ c.meta /\ c.len < RecordBytes -> "truncated"
    [] c.len = RecordBytes /\ c.meta /\ ~c.crc -> "checksum"
    [] OTHER -> IF report.records > 0 /\ c.seq <= report.last THEN "gap" ELSE "valid"

(* Cut at the last byte the scan read.                                     *)
CutsWhatItRead ==
  /\ pc = "cut"
  /\ IF tool = "recover" /\ report.bytes >= FileHeaderBytes
     THEN /\ cells' = SubSeq(cells, 1, (report.scanned - FileHeaderBytes) \div RecordBytes)
          /\ tool' = "rescan" /\ pc' = "open"
          /\ report' = [NoReport EXCEPT !.truncated = TRUE]
          /\ entries' = <<>>
     ELSE pc' = "done" /\ UNCHANGED <<cells, tool, report, entries>>
  /\ UNCHANGED head

(* Cut one record short of valid_bytes.                                    *)
CutsOneMore ==
  /\ pc = "cut"
  /\ IF tool = "recover" /\ report.bytes >= FileHeaderBytes
     THEN /\ cells' = SubSeq(cells, 1, report.records - 1)
          /\ tool' = "rescan" /\ pc' = "open"
          /\ report' = [NoReport EXCEPT !.truncated = TRUE]
          /\ entries' = <<>>
     ELSE pc' = "done" /\ UNCHANGED <<cells, tool, report, entries>>
  /\ UNCHANGED head

-----------------------------------------------------------------------------
(* What the tests of the loop, in their order, make of a record.           *)
Verdict(c) ==
  CASE c.len < RecordHeaderBytes -> "partial header"
    [] c.len >= RecordHeaderBytes /\ ~c.meta -> "metadata"
    [] c.len >= RecordHeaderBytes /\ c.meta /\ c.len < RecordBytes -> "truncated"
    [] c.len = RecordBytes /\ c.meta /\ ~c.crc -> "checksum"
    [] OTHER -> IF report.records > 0 /\ (report.last = MaxSeq \/ c.seq # report.last + 1)
                THEN "gap" ELSE "valid"

(* Set before each record is read, also before the end of a sound file.    *)
Boundary ==
  [report EXCEPT !.badIndex = report.records + 1, !.offset = Offset(report.records)]

EndOfFile ==
  /\ pc = "read"
  /\ report.records = Len(cells)
  /\ report' = [Boundary EXCEPT !.healthy = TRUE, !.bytes = Offset(report.records),
                                !.scanned = Offset(report.records)]
  /\ pc' = "done"
  /\ UNCHANGED <<file, tool, entries>>

AcceptRecord ==
  /\ pc = "read"
  /\ report.records < Len(cells)
  /\ LET c == cells[report.records + 1]
     IN /\ Verdict(c) = "valid"
        /\ report' = [Boundary EXCEPT !.records = @ + 1, !.last = c.seq, !.badSeq = c.seq,
                                      !.scanned = Offset(report.records + 1)]
        /\ entries' = Append(entries, c.seq)
  /\ UNCHANGED <<file, tool, pc>>

(* A record whose header is cut off leaves the number of the one before it *)
(* in first_bad_record_sequence.                                           *)
RejectRecord ==
  /\ pc = "read"
  /\ report.records < Len(cells)
  /\ LET c == cells[report.records + 1]
         verdict == Verdict(c)
     IN /\ verdict # "valid"
        /\ report' =
             [Boundary EXCEPT
                !.corrupt = TRUE, !.bytes = Offset(report.records),
                !.scanned = Offset(report.records) +
                              (IF verdict = "metadata" THEN RecordHeaderBytes ELSE c.len),
                !.badSeq = IF verdict = "partial header" THEN @ ELSE c.seq,
                !.checksum = IF verdict = "checksum" THEN 1 ELSE 0,
                !.expected = IF verdict = "gap" THEN (report.last + 1) % (MaxSeq + 1) ELSE 0]
  /\ pc' = "cut"
  /\ UNCHANGED <<file, tool, entries>>

(* recover(path, true) truncates to valid_bytes and scans once more; that  *)
(* second report is the one it returns.                                    *)
Cut ==
  /\ pc = "cut"
  /\ IF tool = "recover" /\ report.bytes >= FileHeaderBytes
     THEN /\ cells' = SubSeq(cells, 1, report.records)
          /\ tool' = "rescan" /\ pc' = "open"
          /\ report' = [NoReport EXCEPT !.truncated = TRUE]
          /\ entries' = <<>>
     ELSE pc' = "done" /\ UNCHANGED <<cells, tool, report, entries>>
  /\ UNCHANGED head

(* truncate() fails: recovery returns the report of the first scan.        *)
CutFails ==
  /\ pc = "cut"
  /\ tool = "recover" /\ report.bytes >= FileHeaderBytes
  /\ pc' = "uncut"
  /\ UNCHANGED <<file, tool, report, entries>>

-----------------------------------------------------------------------------
(* FaultInjector                                                           *)

(* truncate_log_tail: some, never all, of the file's bytes are removed.    *)
TruncateTail(bytes) ==
  /\ Returned
  /\ bytes \in 1 .. FileSize - 1
  /\ LET size == FileSize - bytes
         whole == (size - FileHeaderBytes) \div RecordBytes
         part == (size - FileHeaderBytes) % RecordBytes
     IN IF size < FileHeaderBytes
        THEN head' = "short" /\ cells' = <<>>
        ELSE /\ cells' = SubSeq(cells, 1, whole) \o
                           (IF part = 0 THEN <<>> ELSE <<[cells[whole + 1] EXCEPT !.len = part]>>)
             /\ UNCHANGED head
  /\ pc' = "idle" /\ report' = NoReport /\ entries' = <<>>
  /\ UNCHANGED tool

(* The record after one of its bytes was flipped: metadata, the sequence,  *)
(* or any other byte that the CRC covers or is.                            *)
Damaged(i) ==
  {[cells[i] EXCEPT !.meta = FALSE], [cells[i] EXCEPT !.crc = FALSE]}
  \cup {[cells[i] EXCEPT !.crc = FALSE, !.seq = s] : s \in (0 .. MaxSeq) \ {cells[i].seq}}

(* corrupt_record_byte looks the sequence up in the valid prefix.          *)
CorruptByte(seq) ==
  /\ pc = "done" /\ tool = "inject"
  /\ \E i \in 1 .. Len(entries) :
       /\ entries[i] = seq
       /\ \E c \in Damaged(i) : cells' = [cells EXCEPT ![i] = c]
  /\ pc' = "idle" /\ report' = NoReport /\ entries' = <<>>
  /\ UNCHANGED <<head, tool>>

Next ==
  \/ \E t \in {"validate", "recover", "replay", "inject"} : Run(t)
  \/ CannotOpen \/ ReadHeader \/ EndOfFile \/ AcceptRecord \/ RejectRecord
  \/ Cut \/ CutFails
  \/ \E bytes \in 1 .. FileSize : TruncateTail(bytes)
  \/ \E seq \in 0 .. MaxSeq : CorruptByte(seq)

Spec == Init /\ [][Next]_vars

-----------------------------------------------------------------------------
(* Properties                                                              *)

Sound(i) == cells[i].len = RecordBytes /\ cells[i].meta /\ cells[i].crc

InSequence(n) ==
  /\ \A i \in 1 .. n : Sound(i)
  /\ \A i \in 2 .. n : cells[i].seq = cells[i - 1].seq + 1

(* The records a scan should find: the longest sound prefix in sequence.   *)
Longest(n) ==
  /\ n \in 0 .. Len(cells)
  /\ InSequence(n)
  /\ n < Len(cells) => ~InSequence(n + 1)

(* "Replay stops at the first malformed, corrupt, or non-contiguous        *)
(* record": after any damage, a finished scan reports and returns the      *)
(* longest valid prefix, and calls the file healthy only if that is all.   *)
(* If not, the boundary it names is the first record that is not valid:    *)
(* its index, its offset, and its number if its header is there.           *)
ReportsLongestPrefix ==
  pc \in {"done", "uncut"} /\ head = "valid" =>
    /\ Longest(report.records)
    /\ report.bytes = Offset(report.records)
    /\ entries = [i \in 1 .. report.records |-> cells[i].seq]
    /\ report.healthy <=> FileSize = report.bytes
    /\ report.corrupt <=> ~report.healthy
    /\ report.corrupt =>
         LET bad == report.badIndex
         IN /\ bad = report.records + 1
            /\ report.offset = report.bytes
            /\ report.bytes < report.scanned /\ report.scanned <= FileSize
            /\ cells[bad].len >= RecordHeaderBytes => report.badSeq = cells[bad].seq
            /\ report.expected # 0 =>
                 Sound(bad) /\ report.expected = cells[bad - 1].seq + 1

(* recover(path, true) leaves a file that scans clean, whatever was wrong  *)
(* behind its header, and says that it cut it; or it could not cut the     *)
(* file, and claims neither.                                               *)
RecoverHeals ==
  tool \in {"recover", "rescan"} /\ head = "valid" =>
    /\ pc = "done" =>
         /\ report.healthy
         /\ report.bytes = FileSize
         /\ report.truncated <=> tool = "rescan"
    /\ pc = "uncut" => ~report.healthy /\ ~report.truncated

(* No step of a scan or of a recovery, the injector's scan included,       *)
(* removes or changes a valid record, and only recovery changes the file.  *)
ValidRecordsKept ==
  [][\A n \in 0 .. Len(cells) :
       pc \in {"open", "read", "cut"} /\ Longest(n) =>
         /\ Len(cells') >= n /\ SubSeq(cells', 1, n) = SubSeq(cells, 1, n)
         /\ tool # "recover" => UNCHANGED file]_vars

=============================================================================

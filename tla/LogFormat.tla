------------------------------ MODULE LogFormat ------------------------------
(***************************************************************************)
(* What the bytes of the recorder's two files mean.                        *)
(*                                                                         *)
(* The main log is a file header followed by fixed-size records, so it is  *)
(* seen as one cell per record position.  A cell is a CRC-valid record,    *)
(* Torn (bytes that fail a metadata or CRC check, a hole, or a record cut  *)
(* by the end of the file) or Absent (beyond the end of the file).  The    *)
(* journal is a pair of checkpoint slots; a slot that fails its CRC is     *)
(* Torn.  CRC32 is taken to detect every damaged record or slot.           *)
(***************************************************************************)
EXTENDS Integers

CONSTANTS
  MaxRecords,     \* record positions of the log (bounds the file)
  SeqModulus,     \* sequence numbers are SeqModulus-valued (2^64 in the code)
  MaxGeneration,  \* largest checkpoint generation (2^64 - 1 in the code)
  MaxSessions,    \* writer sessions (bounds the run)
  Torn,           \* bytes that do not validate
  Absent          \* no bytes at all

ASSUME FormatAssumption ==
  /\ MaxRecords \in Nat \ {0}
  /\ SeqModulus \in Nat \ {0}
  /\ MaxGeneration \in Nat \ {0}
  /\ MaxSessions \in Nat \ {0}

Position == 1 .. MaxRecords
SeqNum   == 0 .. SeqModulus - 1
Session  == 1 .. MaxSessions

(* A record is its sequence number and the session that produced it: two   *)
(* sessions may write different data under the same number.                *)
Record == [seq : SeqNum, session : Session]
Cell   == Record \cup {Torn, Absent}

ASSUME SentinelAssumption ==
  /\ Torn # Absent
  /\ Torn \notin Record
  /\ Absent \notin Record

(* A checkpoint slot that passes checkpoint_metadata_valid: committed      *)
(* length in records, sequence of the last one, generation.                *)
Checkpoint == [gen : 1 .. MaxGeneration, count : 0 .. MaxRecords, last : SeqNum]
SlotIndex  == 0 .. 1
Slot       == Checkpoint \cup {Torn}

ASSUME SlotAssumption == Torn \notin Checkpoint

NoRecords == [i \in Position |-> Absent]
NoSlots   == [k \in SlotIndex |-> Torn]

OtherSlot(k) == (k + 1) % 2

(* Unsigned successor, as the writer and the recorder compute it.          *)
NextSeq(s) == (s + 1) % SeqModulus

(* The scan's continuity test: nothing follows the largest number.         *)
Follows(s, t) == t # SeqModulus - 1 /\ s = t + 1

(* The first n cells are valid, contiguous records.                        *)
ValidPrefix(cells, n) ==
  /\ \A i \in 1 .. n : cells[i] \in Record
  /\ \A i \in 2 .. n : Follows(cells[i].seq, cells[i - 1].seq)

(* n is where the forward scan of the log stops.                           *)
ScanStopsAt(cells, n) ==
  /\ ValidPrefix(cells, n)
  /\ n < MaxRecords => ~ValidPrefix(cells, n + 1)

(* The file as truncate(n records) leaves it.                              *)
TruncateTo(cells, n) == [i \in Position |-> IF i <= n THEN cells[i] ELSE Absent]

(* The file holds exactly n records' worth of bytes.                       *)
HasLength(cells, n) ==
  \A i \in Position : (cells[i] = Absent) <=> (i > n)

=============================================================================

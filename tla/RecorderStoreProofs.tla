------------------------ MODULE RecorderStoreProofs ------------------------
(***************************************************************************)
(* Proofs about the storage of the recorder for every number of records,   *)
(* sessions, batch sizes and group sizes: no crash, power loss, failed     *)
(* write, recovery or reuse of a writer that was closed or failed loses or *)
(* changes an acknowledged record.  Two things are assumed: synchronizing  *)
(* a file makes its directory entry durable, and there are more sequence   *)
(* numbers than records.                                                   *)
(***************************************************************************)
EXTENDS WriterReuse, Sequences, TLAPS

Hypotheses == SyncCarriesEntry /\ MaxRecords < SeqModulus

(* Where a process is: not yet at the writer, between two uses of it, in   *)
(* open().                                                                 *)
Before  == {"down"} \cup RecoveryPc
Opening == {"closed", "header", "headerSync", "openJournal", "load"}
Between == {"idle"} \cup Opening
Committing == {"ckptWrite", "ckptResize", "ckptSync"}

(* Before its first use the writer is as constructed.                      *)
Bounds ==
  /\ pc \in Before => /\ count = 0 /\ lastSeq = 0 /\ unsynced = 0
                      /\ gen = 0 /\ active = 1 /\ failed = FALSE
  /\ pc # "down" => session >= 1
  /\ pc \in Holding => unsynced <= count
  /\ pc = "writing" => /\ batch.size >= 1 /\ written <= batch.size
                       /\ count + batch.size <= MaxRecords
  /\ pc \in {"ckptResize", "ckptSync"} => gen < MaxGeneration

(* The record at position i carries number i, and the next one will.       *)
InOrder(cells) == \A i \in Position : cells[i] \in Record => cells[i].seq = i

Numbered ==
  /\ InOrder(log) /\ InOrder(dlog)
  /\ lastSeq = count
  /\ pc = "writing" => batch.first = count + 1
  /\ pc \in Holding \ {"writing"} /\ ~failed => sequence = count
  /\ pc = "writing" /\ ~failed => sequence = count + batch.size

Durable(n) == \A i \in 1 .. n : log[i] \in Record /\ dlog[i] = log[i]

SlotSound(slot) == slot \in Checkpoint => Durable(slot.count) /\ slot.last = slot.count

Covered ==
  /\ \A k \in SlotIndex : SlotSound(slots[k]) /\ SlotSound(dslots[k])
  /\ Durable(acked)

(* No slot of a journal image counts more than n records.                  *)
CountsWithin(js, n) == \A k \in SlotIndex : js[k] \in Checkpoint => js[k].count <= n

(* Slot k is the newest, and covers the other one and the acknowledged.    *)
Top(js, k) == Newest(js, k) /\ acked <= js[k].count /\ CountsWithin(js, js[k].count)

(* A file that survives a power loss with its header.                      *)
LogSafe == dlogHead = "valid" /\ "log" \in entries

(* A slot that counts records has a log behind it.                         *)
Grounded(js) == \A k \in SlotIndex : js[k] \in Checkpoint /\ js[k].count # 0 => LogSafe

(* What there is of the files.  A log whose header is not durable may hold *)
(* records of a writer that failed, but none that a slot counts.           *)
Files ==
  /\ dlogHead = "valid" => logHead = "valid"
  /\ logHead = "absent" => log = NoRecords
  /\ Grounded(slots) /\ Grounded(dslots)
  /\ journalLen # "full" /\ log # NoRecords => dlogHead = logHead /\ "log" \in entries
  /\ journalLen # "full" => \A i \in Position : log[i] \in Record => dlog[i] = log[i]
  /\ journalLen = "absent" => djournalLen = "absent"
  /\ journalLen \in {"absent", "empty"} => slots = NoSlots /\ dslots = NoSlots
  /\ djournalLen \in {"absent", "empty"} => dslots = NoSlots
  /\ "journal" \in entries => journalLen # "absent"
  /\ djournalLen = "full" => journalLen = "full"
  /\ djournalLen # "full" => acked = 0
  /\ acked # 0 => entries = File /\ dlogHead = "valid"

(* Both journal images have a slot that covers what matters.               *)
Covering ==
  /\ journalLen = "full" =>
       \E k \in SlotIndex : Top(slots, k) /\ CountsWithin(dslots, slots[k].count)
  /\ djournalLen = "full" => \E k \in SlotIndex : Top(dslots, k)

(* What recovery has established, step by step.                            *)
Recovering ==
  /\ (pc = "choose" /\ LogHealthy) \/ pc \in {"migrate", "migrateSync"} =>
       /\ HasLength(log, scanned)
       /\ \A i \in 1 .. scanned : log[i] \in Record
  /\ pc \in {"migrate", "migrateSync"} => logHead = "valid"
  /\ pc = "migrate" => /\ journalLen \in {"empty", "torn"}
                       /\ slots = NoSlots /\ dslots = NoSlots
  /\ pc = "migrateSync" => journalLen = "full"
  /\ pc = "migrateSync" => slots[0] \in Checkpoint /\ slots[0].count = scanned /\ slots[1] = Torn

(* What open() finds, after recovery or after an earlier use of the        *)
(* writer.  Only one that did not fail knows the length of the log.        *)
Reopening ==
  /\ pc \in Between =>
       /\ \A i \in 1 .. unsynced : log[i] \in Record
       /\ ~failed => HasLength(log, sequence)
       /\ ~failed /\ journalLen = "full" =>
            \E k \in SlotIndex : Top(slots, k) /\ slots[k].count = sequence
       /\ logHead # "valid" => journalLen \in {"absent", "empty"}
  /\ pc \notin Before /\ journalLen # "full" => log = NoRecords /\ count = 0
  /\ pc = "header" => logHead \in {"empty", "torn"}
  /\ pc \in {"headerSync", "openJournal", "load"} \cup Holding => logHead = "valid"
  /\ pc = "load" => journalLen # "absent"

(* What the running writer knows.                                          *)
Running ==
  /\ pc \in Holding =>
       /\ \A i \in 1 .. count : log[i] \in Record
       /\ acked <= count /\ CountsWithin(slots, count) /\ CountsWithin(dslots, count)
       /\ journalLen # "absent"
       /\ journalLen # "full" =>
            /\ pc \in {"ckptWrite", "ckptResize"} /\ caller = "open"
            /\ gen = 0 /\ active = 1 /\ slots[1] = Torn
  /\ pc \in Holding \ {"writing"} /\ ~failed => HasLength(log, count)
  /\ pc = "writing" =>
       /\ \A i \in 1 .. count + written : log[i] \in Record
       /\ ~failed => \/ HasLength(log, count + written)
                     \/ written < batch.size /\ HasLength(log, count + written + 1)
  /\ pc = "logSync" => ~failed /\ caller # "open"
  /\ pc \in Committing =>
       /\ Durable(count)
       /\ caller = "open" => count = 0
       /\ caller # "open" => ~failed /\ LogSafe
  /\ pc = "ckptWrite" /\ caller = "open" => journalLen # "full"
  /\ pc \in {"dirSync", "ready", "writing", "logSync", "ckptWrite"} /\ ~failed
       /\ journalLen = "full" =>
       /\ Top(slots, active) /\ CountsWithin(dslots, slots[active].count)
       /\ slots[active].gen = gen
  /\ pc \in {"dirSync", "ready"} /\ ~failed /\ unsynced = 0 => slots[active].count = count
  /\ pc \in {"ckptResize", "ckptSync"} =>
       /\ slots[OtherSlot(active)] \in Checkpoint
       /\ slots[OtherSlot(active)].gen = gen + 1
       /\ slots[OtherSlot(active)].count = count
       /\ slots[active] \in Checkpoint => slots[active].gen = gen

IInv == /\ TypeOK /\ Bounds /\ Numbered /\ Covered /\ Files
        /\ Covering /\ Recovering /\ Reopening /\ Running

-----------------------------------------------------------------------------
(* Facts about the format and the disk                                     *)

(* A remainder is one of the sequence numbers (BatchSeq, NextSeq).         *)
LEMMA SeqNumOf == ASSUME NEW a \in Nat PROVE a % SeqModulus \in SeqNum
  BY FormatAssumption DEF SeqNum

(* Both slots, by number.                                                  *)
LEMMA TwoSlots == SlotIndex = {0, 1} /\ OtherSlot(0) = 1 /\ OtherSlot(1) = 0
  BY DEF SlotIndex, OtherSlot

(* A cut file is a file.                                                   *)
LEMMA CutType ==
  ASSUME NEW cells \in [Position -> Cell], NEW n \in Nat
  PROVE  TruncateTo(cells, n) \in [Position -> Cell]
  BY DEF TruncateTo, Cell

(* The files keep their type when the kernel or a power loss moves them.   *)
LEMMA DiskTypeStep ==
  ASSUME DiskTypeOK, Writeback \/ LosePower
  PROVE  DiskTypeOK'
<1> USE DEF DiskTypeOK, HeadState, JournalState, File, logCache, logDurable,
            journalCache, journalDurable
<1>1. CASE WritebackHead
  BY <1>1 DEF WritebackHead
<1>2. ASSUME NEW i \in Position, WritebackRecord(i) PROVE DiskTypeOK'
  <2>1. dlog' \in [Position -> Cell]
    <3>1. PICK cell \in {log[i], Torn} :
             dlog' = [j \in Position |->
                        IF j = i THEN cell
                          ELSE IF j < i /\ dlog[j] = Absent THEN Torn ELSE dlog[j]]
      BY <1>2 DEF WritebackRecord
    <3>2. cell \in Cell /\ Torn \in Cell
      BY DEF Cell
    <3> QED BY <3>1, <3>2
  <2> QED BY <1>2, <2>1 DEF WritebackRecord
<1>3. CASE WritebackTruncate
  <2>1. dlog' = [i \in Position |-> IF log[i] = Absent THEN Absent ELSE dlog[i]]
    BY <1>3 DEF WritebackTruncate
  <2>2. dlog' \in [Position -> Cell]
    BY <2>1 DEF Cell
  <2> QED BY <1>3, <2>2 DEF WritebackTruncate
<1>4. CASE WritebackJournal
  BY <1>4 DEF WritebackJournal
<1>5. CASE WritebackEntry
  BY <1>5 DEF WritebackEntry
<1>6. CASE LosePower
  <2>1. NoRecords \in [Position -> Cell] /\ NoSlots \in [SlotIndex -> Slot]
    BY DEF NoRecords, NoSlots, Cell, Slot
  <2> QED BY <1>6, <2>1 DEF LosePower
<1> QED BY <1>1, <1>2, <1>3, <1>4, <1>5, <1>6 DEF Writeback

(* No other step of the kernel touches a record that is durable, and none  *)
(* makes a record of anything but the cached cell.                         *)
LEMMA KernelCells ==
  ASSUME log \in [Position -> Cell], dlog \in [Position -> Cell], Writeback
  PROVE  /\ log' = log
         /\ \A i \in Position : dlog'[i] \in {dlog[i], log[i], Torn, Absent}
         /\ \A i \in Position :
              log[i] \in Record /\ dlog[i] = log[i] => dlog'[i] = log[i]
<1> USE SentinelAssumption
<1>1. ASSUME NEW k \in Position, WritebackRecord(k)
      PROVE  /\ log' = log
             /\ \A i \in Position : dlog'[i] \in {dlog[i], log[i], Torn, Absent}
             /\ \A i \in Position :
                  log[i] \in Record /\ dlog[i] = log[i] => dlog'[i] = log[i]
  <2>1. PICK cell \in {log[k], Torn} :
           dlog' = [j \in Position |->
                      IF j = k THEN cell
                        ELSE IF j < k /\ dlog[j] = Absent THEN Torn ELSE dlog[j]]
    BY <1>1 DEF WritebackRecord
  <2> QED BY <1>1, <2>1 DEF WritebackRecord, logCache
<1>2. CASE WritebackTruncate
  <2>1. dlog' = [i \in Position |-> IF log[i] = Absent THEN Absent ELSE dlog[i]]
    BY <1>2 DEF WritebackTruncate
  <2> QED BY <1>2, <2>1 DEF WritebackTruncate
<1>3. CASE WritebackHead \/ WritebackJournal \/ WritebackEntry
  BY <1>3 DEF WritebackHead, WritebackJournal, WritebackEntry, logCache, logDurable
<1> QED BY <1>1, <1>2, <1>3 DEF Writeback

(* A file has one length.                                                  *)
LEMMA OneLength ==
  ASSUME NEW cells, NEW m \in 0 .. MaxRecords, NEW n \in 0 .. MaxRecords,
         HasLength(cells, m), HasLength(cells, n)
  PROVE  m = n
<1>1. CASE m < n
  <2>1. n \in Position /\ n > m /\ ~(n > n)
    BY <1>1 DEF Position
  <2> QED BY <2>1 DEF HasLength
<1>2. CASE n < m
  <2>1. m \in Position /\ m > n /\ ~(m > m)
    BY <1>2 DEF Position
  <2> QED BY <2>1 DEF HasLength
<1> QED BY <1>1, <1>2

(* Under the hypotheses the numbers of the records never wrap around.      *)
LEMMA SmallSeq ==
  ASSUME Hypotheses, NEW a \in 0 .. MaxRecords
  PROVE  a % SeqModulus = a
  BY FormatAssumption DEF Hypotheses

(* A journal has one newest slot.                                          *)
LEMMA OneNewest ==
  ASSUME NEW js \in [SlotIndex -> Slot], NEW k \in SlotIndex, NEW j \in SlotIndex,
         Newest(js, k), Newest(js, j)
  PROVE  k = j
<1>1. js[k].gen \in Int /\ js[j].gen \in Int
  BY FormatAssumption DEF Newest, Checkpoint
<1> QED BY <1>1 DEF Newest

-----------------------------------------------------------------------------
(* What recovery and open() decide                                         *)

(* The scan of a log does not stop inside a prefix of valid records.       *)
LEMMA ScanReaches ==
  ASSUME Hypotheses, InOrder(log),
         NEW m \in 0 .. MaxRecords, \A i \in 1 .. m : log[i] \in Record,
         NEW n \in 0 .. MaxRecords, ScanStopsAt(log, n)
  PROVE  m <= n
<1> SUFFICES ASSUME n < m PROVE FALSE
  OBVIOUS
<1>1. n + 1 <= m /\ n < MaxRecords /\ SeqModulus \in Nat /\ MaxRecords < SeqModulus
  BY FormatAssumption DEF Hypotheses
<1>2. \A i \in 1 .. n + 1 : log[i] \in Record /\ log[i].seq = i
  <2> TAKE i \in 1 .. n + 1
  <2>1. i \in 1 .. m /\ i \in Position
    BY <1>1, FormatAssumption DEF Position
  <2> QED BY <2>1 DEF InOrder
<1>3. \A i \in 2 .. n + 1 : Follows(log[i].seq, log[i - 1].seq)
  <2> TAKE i \in 2 .. n + 1
  <2>1. i \in Int /\ i <= m /\ i \in 1 .. n + 1 /\ i - 1 \in 1 .. n + 1
    BY <1>1
  <2>2. log[i].seq = i /\ log[i - 1].seq = i - 1
    BY <1>2, <2>1
  <2>3. i - 1 # SeqModulus - 1 /\ i = (i - 1) + 1
    BY <1>1, <2>1, FormatAssumption
  <2> QED BY <2>2, <2>3 DEF Follows
<1> QED BY <1>1, <1>2, <1>3 DEF ScanStopsAt, ValidPrefix

(* A checkpoint is always consistent with the scanned log.                 *)
LEMMA SlotsConsistent ==
  ASSUME IInv, pc = "choose", logHead = "valid", NEW k \in SlotIndex,
         slots[k] \in Checkpoint
  PROVE  Consistent(slots[k])
<1>1. /\ Durable(slots[k].count) /\ slots[k].last = slots[k].count
      /\ HasLength(log, scanned) /\ InOrder(log)
      /\ scanned \in 0 .. MaxRecords /\ slots[k].count \in 0 .. MaxRecords
  BY DEF IInv, TypeOK, Covered, SlotSound, Recovering, LogHealthy, Numbered, Checkpoint
<1>2. CASE slots[k].count = 0
  BY <1>1, <1>2, FormatAssumption DEF Consistent
<1>3. CASE slots[k].count # 0
  <2>1. slots[k].count \in Position /\ slots[k].count \in 1 .. slots[k].count
    BY <1>1, <1>3 DEF Position
  <2>2. log[slots[k].count] \in Record /\ log[slots[k].count].seq = slots[k].count
    BY <1>1, <2>1 DEF Durable, InOrder
  <2>3. slots[k].count <= scanned
    BY <1>1, <2>1, <2>2, SentinelAssumption DEF HasLength
  <2> QED BY <1>1, <1>3, <2>2, <2>3 DEF Consistent
<1> QED BY <1>2, <1>3

(* The slot recovery chooses is the newest.                                *)
LEMMA ChosenIsTop ==
  ASSUME IInv, NEW k \in SlotIndex, ChooseCheckpoint(k)
  PROVE  Top(slots, k) /\ CountsWithin(dslots, slots[k].count)
<1>1. pc = "choose" /\ journalLen = "full" /\ logHead = "valid" /\ Selected(k)
  BY DEF ChooseCheckpoint
<1>2. PICK j \in SlotIndex : Top(slots, j) /\ CountsWithin(dslots, slots[j].count)
  BY <1>1 DEF IInv, Covering
<1>3. slots[j] \in Checkpoint /\ Consistent(slots[j]) /\ slots[k] \in Checkpoint
  BY <1>1, <1>2, SlotsConsistent DEF Top, Newest, Selected, Consistent
<1>4. slots[j].gen <= slots[k].gen /\ slots[j].gen \in Int /\ slots[k].gen \in Int
  BY <1>1, <1>3, FormatAssumption DEF Selected, Checkpoint
<1>5. k = j
  BY <1>2, <1>3, <1>4 DEF Top, Newest
<1> QED BY <1>2, <1>5

(* The slot open() loads is the newest, for as long as the log may be.     *)
LEMMA LoadedIsTop ==
  ASSUME IInv, NEW k \in SlotIndex, LoadCheckpoint(k)
  PROVE  /\ Top(slots, k) /\ CountsWithin(dslots, slots[k].count)
         /\ HasLength(log, slots[k].count) /\ slots[k] \in Checkpoint
         /\ ~failed => slots[k].count = sequence
<1>1. /\ pc = "load" /\ journalLen = "full" /\ OpensWith(k)
      /\ \A j \in SlotIndex : OpensWith(j) =>
           slots[j].gen < slots[k].gen \/ slots[j].gen = slots[k].gen
  BY DEF LoadCheckpoint
<1>2. PICK j \in SlotIndex : Top(slots, j) /\ CountsWithin(dslots, slots[j].count)
  BY <1>1 DEF IInv, Covering
<1>3. /\ slots[k] \in Checkpoint /\ HasLength(log, slots[k].count)
      /\ slots[j] \in Checkpoint
      /\ slots[k].count \in 0 .. MaxRecords /\ slots[j].count \in 0 .. MaxRecords
  BY <1>1, <1>2 DEF OpensWith, Top, Newest, Checkpoint
<1>4. slots[j].count <= slots[k].count
  <2> SUFFICES ASSUME slots[j].count # 0 PROVE slots[j].count <= slots[k].count
    BY <1>3, FormatAssumption
  <2>1. slots[j].count \in Position /\ slots[j].count \in 1 .. slots[j].count
    BY <1>3 DEF Position
  <2>2. log[slots[j].count] \in Record
    BY <1>3, <2>1 DEF IInv, Covered, SlotSound, Durable
  <2> QED BY <1>3, <2>1, <2>2, SentinelAssumption DEF HasLength
<1>5. slots[k].count = slots[j].count
  BY <1>2, <1>3, <1>4 DEF Top, CountsWithin
<1>6. slots[j].gen <= slots[k].gen /\ slots[j].gen \in Int /\ slots[k].gen \in Int
  BY <1>1, <1>3, <1>5, FormatAssumption DEF OpensWith, Checkpoint
<1>7. k = j
  BY <1>2, <1>3, <1>6 DEF Top, Newest
<1>8. ~failed => slots[k].count = sequence
  <2> SUFFICES ASSUME ~failed PROVE slots[k].count = sequence
    OBVIOUS
  <2>1. PICK i \in SlotIndex : Top(slots, i) /\ slots[i].count = sequence
    BY <1>1 DEF IInv, Reopening, Between, Opening
  <2>2. i = j
    BY <1>2, <2>1, OneNewest DEF Top, IInv, TypeOK, DiskTypeOK
  <2> QED BY <1>5, <2>1, <2>2
<1> QED BY <1>2, <1>3, <1>7, <1>8

(* A file as long as the writer left it holds its pending batches.         *)
LEMMA UnsyncedWithin ==
  ASSUME IInv, pc \in Between, NEW n \in 0 .. MaxRecords, HasLength(log, n)
  PROVE  unsynced <= n
<1> SUFFICES ASSUME unsynced > n PROVE FALSE
  BY DEF IInv, TypeOK
<1>1. unsynced \in Position /\ unsynced \in 1 .. unsynced
  BY DEF IInv, TypeOK, Position
<1>2. log[unsynced] \in Record
  BY <1>1 DEF IInv, Reopening
<1> QED BY <1>1, <1>2, SentinelAssumption DEF HasLength

(* An open() that finds an empty journal finds an empty log.               *)
LEMMA InitializedEmpty ==
  ASSUME IInv, NEW n \in Nat, pc = "load", journalLen = "empty",
         HasLength(log, n)
  PROVE  n = 0 /\ count = 0 /\ lastSeq = 0 /\ log = NoRecords
<1>1. log = NoRecords /\ count = 0 /\ lastSeq = count
  BY DEF IInv, Reopening, Before, RecoveryPc, Numbered
<1>2. 1 \in Position /\ log[1] = Absent
  BY <1>1, FormatAssumption DEF NoRecords, Position
<1> QED BY <1>1, <1>2 DEF HasLength

-----------------------------------------------------------------------------
(* The parts of the invariant, each kept by every step.                    *)

(* Every step keeps the types; the counters stay in their bounds.          *)
LEMMA TypeStep == IInv /\ [ReuseNext]_vars => TypeOK'
<1> SUFFICES ASSUME IInv, [ReuseNext]_vars PROVE TypeOK'
  OBVIOUS
<1> USE FormatAssumption, OptionsAssumption
<1> USE DEF IInv, TypeOK, Pc, RecoveryPc, WriterPc, Caller
<1>d. DiskTypeOK /\ NoRecords \in [Position -> Cell] /\ NoSlots \in [SlotIndex -> Slot]
  BY DEF NoRecords, NoSlots, Cell, Slot
<1>0. 0 \in SeqNum
  BY DEF SeqNum
<1>f. FreshWriter => /\ batch' \in Batch /\ written' \in 0 .. BatchCapacity
                     /\ count' \in 0 .. MaxRecords /\ lastSeq' \in SeqNum
                     /\ unsynced' \in 0 .. MaxRecords /\ gen' \in 0 .. MaxGeneration
                     /\ active' \in SlotIndex /\ failed' \in BOOLEAN
  <2>1. FreshWriter => failed' \in BOOLEAN
    BY Zenon DEF FreshWriter
  <2> QED BY <1>0, <2>1 DEF FreshWriter, Batch, NoBatch, SlotIndex
<1>1. CASE Start
  <2>1. failed' \in BOOLEAN /\ created' \in BOOLEAN
    BY <1>1, Zenon DEF Start, writerState
  <2> QED
    BY <1>1, <2>1 DEF Start, diskVars, writerState, DiskTypeOK
<1>2. CASE Recover
  <2>1. UNCHANGED <<caller, writerState, created, history>>
    BY <1>2 DEF Recover
  <2>2. /\ caller' \in Caller /\ created' \in BOOLEAN /\ batch' \in Batch
        /\ written' \in 0 .. BatchCapacity /\ failed' \in BOOLEAN
    BY <2>1, Zenon DEF writerState
  <2>3. ASSUME DiskTypeOK', pc' \in Pc, scanned' \in 0 .. MaxRecords,
               pc' = "closed" /\ scanned' # 0 => log'[scanned'] \in Record
        PROVE  TypeOK'
    <3>1. sequence' \in SeqNum
      BY <1>2, <2>3, <1>0 DEF Recover, Record
    <3> QED BY <2>1, <2>2, <2>3, <3>1 DEF writerState, history
  <2>4. CASE Scan
    <3>1. \/ \E n \in 0 .. MaxRecords : log' = TruncateTo(log, n) /\ scanned' = n
          \/ log' = log /\ scanned' = 0
      BY <2>4 DEF Scan, TruncateLog
    <3>2. log' \in [Position -> Cell] /\ scanned' \in 0 .. MaxRecords
      BY <3>1, <1>d, CutType DEF DiskTypeOK
    <3> QED
      BY <2>3, <2>4, <3>2 DEF Scan, DiskTypeOK, logDurable, journalCache, journalDurable
  <2>5. ASSUME NEW k \in SlotIndex, ChooseCheckpoint(k) PROVE TypeOK'
    <3>1. slots[k].count \in 0 .. MaxRecords /\ slots[k].count <= scanned
      BY <2>5 DEF ChooseCheckpoint, Selected, Consistent, Checkpoint
    <3>2. log' = TruncateTo(log, slots[k].count) /\ scanned' = slots[k].count
      BY <2>5 DEF ChooseCheckpoint, TruncateLog
    <3>3. log' \in [Position -> Cell]
      BY <3>1, <3>2, <1>d, CutType DEF DiskTypeOK
    <3>4. scanned' # 0 => log'[scanned'] \in Record
      BY <3>1, <3>2, <2>5 DEF TruncateTo, Position, ChooseCheckpoint, Recovering, LogHealthy
    <3> QED BY <2>3, <2>5, <3>1, <3>2, <3>3, <3>4
            DEF ChooseCheckpoint, DiskTypeOK, logDurable, journalCache, journalDurable
  <2>6. CASE NothingToRecover \/ Refuse \/ StartMigration
    BY <2>3, <2>6 DEF NothingToRecover, Refuse, StartMigration, Recovering, LogHealthy, diskVars,
       DiskTypeOK
  <2>7. CASE MigrateJournal
    <3>1. FirstCheckpoint \in Slot /\ Torn \in Slot
      BY <2>7, <1>0 DEF MigrateJournal, FirstCheckpoint, Slot, Checkpoint, Recovering,
         Record
    <3>2. slots' \in [SlotIndex -> Slot] /\ journalLen' \in JournalState
      BY <2>7, <3>1 DEF MigrateJournal, DiskTypeOK, JournalState
    <3> QED
      BY <2>3, <2>7, <3>2 DEF MigrateJournal, DiskTypeOK, logCache, logDurable,
         journalDurable
  <2>8. CASE SyncMigration
    BY <2>3, <2>8
       DEF SyncMigration, SyncJournalFile, SyncEntry, DiskTypeOK, File, Recovering,
           logCache, logDurable, journalCache
  <2> QED BY <1>2, <2>4, <2>5, <2>6, <2>7, <2>8 DEF Recover, RecoveryStep

<1>3. CASE AppendBatch
  <2>1. UNCHANGED <<diskVars, caller, count, lastSeq, unsynced, gen, active, failed,
                    created, history, scanned>>
    BY <1>3 DEF AppendBatch, BeginBatch
  <2>2. caller' \in Caller /\ created' \in BOOLEAN /\ failed' \in BOOLEAN
    BY <2>1, Zenon
  <2>3. PICK size \in 1 .. BatchCapacity, first \in SeqNum : BeginBatch(first, size)
    BY <1>3, SeqNumOf DEF AppendBatch, NextSeq, SeqNum
  <2>4. batch' = [first |-> first, size |-> size] /\ written' = 0 /\ pc' = "writing"
    BY <2>3 DEF BeginBatch
  <2>5. batch' \in Batch
    BY <2>4 DEF Batch
  <2>6. sequence' \in SeqNum
    BY <1>3, <2>4, SeqNumOf DEF AppendBatch, SeqNum
  <2> QED BY <2>1, <2>2, <2>4, <2>5, <2>6 DEF diskVars, DiskTypeOK, history
<1>4. CASE Write
  <2>1. scanned' \in 0 .. MaxRecords /\ sequence' \in SeqNum
    BY <1>4, <1>0 DEF Write
  <2> SUFFICES ASSUME WriterStep PROVE TypeOK'
    BY <1>4 DEF Write
  <2>2. Exit => /\ pc' \in Pc /\ caller' \in Caller /\ created' \in BOOLEAN
                /\ batch' \in Batch /\ written' \in 0 .. BatchCapacity
                /\ count' \in 0 .. MaxRecords /\ lastSeq' \in SeqNum
                /\ unsynced' \in 0 .. MaxRecords /\ gen' \in 0 .. MaxGeneration
                /\ active' \in SlotIndex /\ failed' \in BOOLEAN
    BY <1>f DEF Exit
  <2>3. ASSUME UNCHANGED <<diskVars, history>>, Exit PROVE TypeOK'
    BY <2>1, <2>2, <2>3 DEF diskVars, history, DiskTypeOK
  <2>4. CASE OpenLogFails \/ OpenFails
    BY <2>3, <2>4 DEF OpenLogFails, OpenFails
  <2>5. ASSUME UNCHANGED writerState
        PROVE  /\ batch' \in Batch /\ written' \in 0 .. BatchCapacity
               /\ count' \in 0 .. MaxRecords /\ lastSeq' \in SeqNum
               /\ unsynced' \in 0 .. MaxRecords /\ gen' \in 0 .. MaxGeneration
               /\ active' \in SlotIndex /\ failed' \in BOOLEAN
    BY <2>5, Zenon DEF writerState
  <2>6. CASE OpenLog
    <3>1. created' \in BOOLEAN
      BY <2>6, Zenon DEF OpenLog
    <3> QED BY <2>1, <2>5, <2>6, <3>1 DEF OpenLog, DiskTypeOK, HeadState, history,
                                      logDurable, journalCache, journalDurable
  <2>7. CASE WriteHeader \/ SyncHeader \/ OpenJournal
    <3>1. created' \in BOOLEAN /\ UNCHANGED <<writerState, caller, history>>
      BY <2>7, Zenon DEF WriteHeader, SyncHeader, OpenJournal
    <3>2. DiskTypeOK'
      BY <2>7
         DEF WriteHeader, SyncHeader, OpenJournal, SyncLogFile, SyncEntry, DiskTypeOK,
             HeadState, JournalState, File, logCache, logDurable, journalCache,
             journalDurable
    <3> QED BY <2>1, <2>5, <2>7, <3>1, <3>2
            DEF WriteHeader, SyncHeader, OpenJournal, history
  <2>8. CASE InitializeCheckpoint
    <3>1. created' \in BOOLEAN /\ failed' \in BOOLEAN
      BY <2>8, Zenon DEF InitializeCheckpoint
    <3>2. PICK n \in 0 .. MaxRecords :
            /\ n > 0 => log[n] \in Record
            /\ count' = n
            /\ lastSeq' = IF n = 0 THEN lastSeq ELSE log[n].seq
      BY <2>8 DEF InitializeCheckpoint
    <3>3. count' \in 0 .. MaxRecords /\ lastSeq' \in SeqNum
      BY <3>2 DEF Record
    <3> QED BY <2>1, <2>8, <3>1, <3>3
            DEF InitializeCheckpoint, SlotIndex, diskVars, DiskTypeOK, history
  <2>9. ASSUME NEW k \in SlotIndex, LoadCheckpoint(k) PROVE TypeOK'
    <3>1. created' \in BOOLEAN /\ failed' \in BOOLEAN
      BY <2>9, Zenon DEF LoadCheckpoint
    <3>2. /\ gen' \in 0 .. MaxGeneration /\ count' \in 0 .. MaxRecords
          /\ lastSeq' \in SeqNum
      BY <2>9 DEF LoadCheckpoint, OpensWith, Checkpoint
    <3> QED BY <2>1, <2>9, <3>1, <3>2 DEF LoadCheckpoint, diskVars, DiskTypeOK, history
  <2>10. CASE SyncDirectory
    <3>1. failed' \in BOOLEAN
      BY <2>10, Zenon DEF SyncDirectory, writerState
    <3> QED BY <2>1, <2>10, <3>1 DEF SyncDirectory, writerState, history, DiskTypeOK, File,
                            logCache, logDurable, journalCache, journalDurable
  <2>11. CASE RejectBatch \/ WriteFails
    <3>1. created' \in BOOLEAN /\ failed' \in BOOLEAN
      BY <2>11, Zenon DEF RejectBatch, RecordFailure, WriteFails
    <3> QED BY <2>1, <2>11, <3>1, <1>0 DEF RejectBatch, RecordFailure, WriteFails,
                 NoBatch, Batch, diskVars, DiskTypeOK, history
  <2>12. CASE WriteRecord
    <3>1. created' \in BOOLEAN /\ failed' \in BOOLEAN
      BY <2>12, Zenon DEF WriteRecord
    <3>2. log' \in [Position -> Cell]
      <4>1. \E cell \in Cell : log' = [log EXCEPT ![count + written + 1] = cell]
        <5>1. session \in Session
          BY <2>12 DEF WriteRecord, Bounds, Session
        <5>2. [seq |-> BatchSeq(written), session |-> session] \in Cell /\ Torn \in Cell
          BY <5>1, SeqNumOf DEF BatchSeq, Record, Cell, Batch, SeqNum
        <5> QED BY <2>12, <5>2 DEF WriteRecord
      <4> QED BY <4>1 DEF DiskTypeOK
    <3>3. written' \in 0 .. BatchCapacity
      BY <2>12 DEF WriteRecord, Batch
    <3> QED BY <2>1, <2>12, <3>1, <3>2, <3>3 DEF WriteRecord, DiskTypeOK, history,
                    logDurable, journalCache, journalDurable
  <2>13. CASE FinishBatch
    <3>1. created' \in BOOLEAN /\ failed' \in BOOLEAN
      BY <2>13, Zenon DEF FinishBatch
    <3>2. count' \in 0 .. MaxRecords /\ unsynced' \in 0 .. MaxRecords
      BY <2>13 DEF FinishBatch, Holding, Bounds, Batch
    <3>3. lastSeq' \in SeqNum
      <4>1. batch.first + (batch.size - 1) \in Nat
        BY <2>13 DEF FinishBatch, Bounds, Batch, SeqNum
      <4> QED BY <2>13, <4>1, SeqNumOf DEF FinishBatch, BatchSeq
    <3>4. batch' \in Batch
      BY <2>13, <1>0 DEF FinishBatch, Batch, NoBatch
    <3> QED BY <2>1, <2>13, <3>1, <3>2, <3>3, <3>4
            DEF FinishBatch, diskVars, DiskTypeOK, history
  <2>14. CASE Flush
    <3>1. created' \in BOOLEAN
      BY <2>14, Zenon DEF Flush
    <3> QED BY <2>1, <2>5, <2>14, <3>1 DEF Flush, diskVars, DiskTypeOK, history
  <2>15. CASE Close
    <3>1. CASE Exit
      BY <2>3, <2>15, <3>1 DEF Close
    <3>2. CASE pc' = "logSync" /\ caller' = "close" /\ UNCHANGED <<writerState, created>>
      <4>1. created' \in BOOLEAN
        BY <3>2, Zenon
      <4> QED BY <2>1, <2>5, <2>15, <3>2, <4>1 DEF Close, diskVars, DiskTypeOK, history
    <3> QED BY <2>15, <3>1, <3>2 DEF Close
  <2>16. CASE SyncLog \/ ResizeJournal
    <3>1. created' \in BOOLEAN /\ UNCHANGED <<writerState, caller, history>>
      BY <2>16, Zenon DEF SyncLog, ResizeJournal
    <3> QED BY <2>1, <2>5, <2>16, <3>1 DEF SyncLog, ResizeJournal, SyncLogFile, SyncEntry,
                 DiskTypeOK, JournalState, File, history,
                 logCache, logDurable, journalCache, journalDurable
  <2>17. CASE WriteCheckpoint
    <3>1. created' \in BOOLEAN /\ UNCHANGED <<writerState, caller, history>>
      BY <2>17, Zenon DEF WriteCheckpoint
    <3>2. NewCheckpoint \in Slot /\ Torn \in Slot
      BY <2>17 DEF WriteCheckpoint, NewCheckpoint, Slot, Checkpoint
    <3>3. slots' \in [SlotIndex -> Slot]
      BY <2>17, <3>2 DEF WriteCheckpoint, DiskTypeOK
    <3> QED
      BY <2>1, <2>5, <2>17, <3>1, <3>3
         DEF WriteCheckpoint, DiskTypeOK, JournalState, history, logCache, logDurable,
             journalCache, journalDurable
  <2>18. CASE SyncJournal
    <3>1. DiskTypeOK' /\ acked' \in 0 .. MaxRecords /\ session' = session
      BY <2>18 DEF SyncJournal, SyncJournalFile, SyncEntry, DiskTypeOK, File,
                   logCache, logDurable, journalCache
    <3>2. CASE Exit
      BY <2>1, <2>2, <3>1, <3>2
    <3>3. CASE ~Exit
      <4>1. /\ gen' = gen + 1
            /\ active' = OtherSlot(active)
            /\ unsynced' = IF caller = "open" THEN unsynced ELSE 0
            /\ pc' = IF caller = "open" /\ created THEN "dirSync" ELSE "ready"
            /\ UNCHANGED <<caller, batch, written, count, lastSeq, failed, created>>
        BY <2>18, <3>3 DEF SyncJournal
      <4>2. created' \in BOOLEAN /\ failed' \in BOOLEAN
        BY <4>1, Zenon
      <4>3. gen' \in 0 .. MaxGeneration
        BY <2>18, <4>1 DEF SyncJournal, Bounds
      <4>4. active' \in SlotIndex
        BY <4>1, TwoSlots
      <4> QED BY <2>1, <3>1, <4>1, <4>2, <4>3, <4>4
    <3> QED BY <3>2, <3>3
  <2>19. CASE CommitFails
    <3>1. CASE Exit /\ UNCHANGED history
      BY <2>3, <2>19, <3>1 DEF CommitFails
    <3>2. CASE pc' = "ready" /\ RecordFailure
      <4>1. created' \in BOOLEAN
        BY <3>2, Zenon DEF RecordFailure
      <4> QED
        BY <2>1, <2>19, <3>2, <4>1 DEF CommitFails, RecordFailure, diskVars, DiskTypeOK,
           history
    <3> QED BY <2>19, <3>1, <3>2 DEF CommitFails
  <2> QED BY <2>4, <2>6, <2>7, <2>8, <2>9, <2>10, <2>11, <2>12, <2>13, <2>14, <2>15,
             <2>16, <2>17, <2>18, <2>19 DEF WriterStep
<1>e. Exit => pc' \in Pc /\ caller' \in Caller /\ created' \in BOOLEAN
  <2>1. Exit => created' \in BOOLEAN
    BY Zenon DEF Exit
  <2> QED BY <2>1 DEF Exit
<1>5. CASE Crash
  <2>1. Exit /\ FreshWriter
    BY <1>5 DEF Crash, Exit
  <2> QED BY <1>5, <1>f, <1>e, <1>0, <2>1 DEF Crash, diskVars, DiskTypeOK, history
<1>6. CASE PowerLoss
  <2>1. Exit /\ FreshWriter
    BY <1>6 DEF PowerLoss, Exit
  <2> QED BY <1>6, <1>f, <1>e, <1>0, <2>1, DiskTypeStep DEF PowerLoss, history
<1>7. CASE Kernel
  <2>1. failed' \in BOOLEAN /\ created' \in BOOLEAN
    BY <1>7, Zenon DEF Kernel, writerVars, writerState
  <2> QED
    BY <1>7, <2>1, DiskTypeStep DEF Kernel, writerVars, writerState, history, Writeback,
        WritebackHead, WritebackRecord, WritebackTruncate, WritebackJournal, WritebackEntry
<1>8. CASE UNCHANGED vars
  <2>1. failed' \in BOOLEAN /\ created' \in BOOLEAN
    BY <1>8, Zenon DEF vars, writerVars, writerState
  <2> QED BY <1>8, <2>1 DEF vars, diskVars, writerVars, writerState, history, DiskTypeOK
<1>9. CASE CloseKeeps \/ OpenFailsKeeps \/ Reopen
  <2>1. failed' \in BOOLEAN /\ created' \in BOOLEAN
    BY <1>9, Zenon DEF CloseKeeps, OpenFailsKeeps, Reopen, writerState
  <2> QED BY <1>9, <2>1 DEF CloseKeeps, OpenFailsKeeps, Reopen, diskVars, DiskTypeOK,
            writerState, history
<1> QED BY <1>1, <1>2, <1>3, <1>4, <1>5, <1>6, <1>7, <1>8, <1>9 DEF ReuseNext, Next

(* Every step keeps the writer's counters in order.                        *)
LEMMA BoundsStep == IInv /\ [ReuseNext]_vars => Bounds'
<1> SUFFICES ASSUME IInv, [ReuseNext]_vars PROVE Bounds'
  OBVIOUS
<1> USE FormatAssumption, OptionsAssumption
        DEF IInv, TypeOK, Bounds, Before, RecoveryPc, Holding, writerState, history
<1>1. CASE Start
  BY <1>1 DEF Start
<1>2. CASE Recover
  BY <1>2 DEF Recover, RecoveryStep, Scan, ChooseCheckpoint, NothingToRecover, Refuse,
              StartMigration, MigrateJournal, SyncMigration
<1>3. CASE AppendBatch
  BY <1>3 DEF AppendBatch, BeginBatch
<1>4. CASE Write
  <2>1. CASE Exit /\ UNCHANGED session
    BY <2>1 DEF Exit, FreshWriter
  <2>2. CASE OpenLog \/ WriteHeader \/ SyncHeader \/ OpenJournal \/ OpenLogFails \/ OpenFails
    BY <2>1, <2>2 DEF OpenLog, WriteHeader, SyncHeader, OpenJournal, OpenLogFails, OpenFails
  <2>3. CASE InitializeCheckpoint \/ \E k \in SlotIndex : LoadCheckpoint(k)
    <3>1. count' \in 0 .. MaxRecords /\ HasLength(log, count')
      BY <2>3 DEF InitializeCheckpoint, LoadCheckpoint, OpensWith, Checkpoint
    <3>2. pc \in Between
      BY <2>3 DEF InitializeCheckpoint, LoadCheckpoint, Between, Opening
    <3>3. unsynced <= count'
      BY <3>1, <3>2, UnsyncedWithin
    <3> QED BY <2>3, <3>1, <3>3 DEF InitializeCheckpoint, LoadCheckpoint
  <2>4. CASE SyncDirectory \/ RejectBatch \/ Flush
    BY <2>4 DEF SyncDirectory, RejectBatch, RecordFailure, Flush
  <2>5. CASE WriteRecord \/ WriteFails \/ FinishBatch
    BY <2>5 DEF WriteRecord, WriteFails, FinishBatch, Batch
  <2>6. CASE Close
    BY <2>1, <2>6 DEF Close
  <2>7. CASE SyncLog \/ WriteCheckpoint \/ ResizeJournal
    BY <2>7 DEF SyncLog, WriteCheckpoint, ResizeJournal
  <2>8. CASE SyncJournal
    <3>1. CASE Exit
      BY <2>1, <2>8, <3>1 DEF SyncJournal
    <3>2. CASE ~Exit
      <4>1. /\ unsynced' = IF caller = "open" THEN unsynced ELSE 0
            /\ pc' = IF caller = "open" /\ created THEN "dirSync" ELSE "ready"
            /\ UNCHANGED <<count, session>>
        BY <2>8, <3>2 DEF SyncJournal
      <4> QED BY <2>8, <4>1 DEF SyncJournal
    <3> QED BY <3>1, <3>2
  <2>9. CASE CommitFails
    BY <2>1, <2>9 DEF CommitFails, RecordFailure
  <2> QED BY <1>4, <2>2, <2>3, <2>4, <2>5, <2>6, <2>7, <2>8, <2>9 DEF Write, WriterStep
<1>5. CASE Crash \/ PowerLoss
  BY <1>5 DEF Crash, PowerLoss, Exit, FreshWriter
<1>6. CASE Kernel \/ UNCHANGED vars
  <2>1. UNCHANGED writerVars
    BY <1>6 DEF Kernel, vars
  <2> QED BY <2>1 DEF writerVars
<1>7. CASE CloseKeeps \/ OpenFailsKeeps \/ Reopen
  BY <1>7 DEF CloseKeeps, OpenFailsKeeps, Reopen
<1> QED BY <1>1, <1>2, <1>3, <1>4, <1>5, <1>6, <1>7 DEF ReuseNext, Next

(* A batch continues the numbers of the file.                              *)
LEMMA BatchNumbers ==
  ASSUME Hypotheses, IInv, pc = "writing", NEW i \in 0 .. batch.size - 1
  PROVE  BatchSeq(i) = count + 1 + i /\ count + 1 + i \in Position
<1>1. /\ batch.first = count + 1 /\ count \in Nat /\ batch.size \in Nat
      /\ count + batch.size <= MaxRecords /\ MaxRecords \in Nat
  BY FormatAssumption DEF IInv, TypeOK, Bounds, Numbered, Batch
<1>2. count + 1 + i \in 0 .. MaxRecords /\ count + 1 + i >= 1
  BY <1>1
<1> QED BY <1>1, <1>2, SmallSeq DEF BatchSeq, Position

(* Every step leaves records only at the position of their number.         *)
LEMMA InOrderStep == Hypotheses /\ IInv /\ [ReuseNext]_vars => InOrder(log)' /\ InOrder(dlog)'
<1> SUFFICES ASSUME Hypotheses, IInv, [ReuseNext]_vars PROVE InOrder(log)' /\ InOrder(dlog)'
  OBVIOUS
<1> USE SentinelAssumption
<1>0. InOrder(log) /\ InOrder(dlog) /\ DiskTypeOK
  BY DEF IInv, TypeOK, Numbered
<1>1. ASSUME NEW n, log' = TruncateTo(log, n), dlog' = dlog
      PROVE InOrder(log)' /\ InOrder(dlog)'
  BY <1>0, <1>1 DEF InOrder, TruncateTo
<1>2. CASE Recover
  BY <1>0, <1>1, <1>2
     DEF InOrder, Recover, RecoveryStep, Scan, ChooseCheckpoint, NothingToRecover,
         Refuse, StartMigration, MigrateJournal, SyncMigration, TruncateLog, diskVars,
         logCache, logDurable
<1>3. CASE \/ Start \/ AppendBatch \/ Crash \/ UNCHANGED vars
         \/ CloseKeeps \/ OpenFailsKeeps \/ Reopen
  BY <1>0, <1>3 DEF InOrder, Start, AppendBatch, BeginBatch, Crash, vars, diskVars,
              CloseKeeps, OpenFailsKeeps, Reopen
<1>4. CASE Write
  <2>1. CASE WriteRecord
    <3>1. InOrder(dlog)'
      BY <1>0, <2>1 DEF InOrder, WriteRecord, logDurable
    <3>2. /\ written \in 0 .. batch.size - 1 /\ pc = "writing"
      BY <2>1 DEF WriteRecord, IInv, TypeOK, Batch
    <3>3. BatchSeq(written) = count + written + 1
      BY <3>2, BatchNumbers DEF IInv, TypeOK
    <3>4. \/ log' = [log EXCEPT ![count + written + 1] =
                       [seq |-> count + written + 1, session |-> session]]
          \/ log' = [log EXCEPT ![count + written + 1] = Torn]
      BY <2>1, <3>3 DEF WriteRecord
    <3> QED BY <1>0, <3>1, <3>4 DEF InOrder, DiskTypeOK
  <2>2. CASE UNCHANGED diskVars
    BY <1>0, <2>2 DEF InOrder, diskVars
  <2>3. ASSUME UNCHANGED logCache, UNCHANGED logDurable \/ SyncLogFile
        PROVE InOrder(log)' /\ InOrder(dlog)'
    BY <1>0, <2>3 DEF InOrder, logCache, logDurable, SyncLogFile
  <2>4. CASE OpenLog \/ WriteHeader
    BY <1>0, <2>4 DEF InOrder, OpenLog, WriteHeader, logDurable
  <2> QED
    BY <1>4, <2>1, <2>2, <2>3, <2>4
       DEF Write, WriterStep, OpenLogFails, SyncHeader, OpenJournal,
           InitializeCheckpoint, SyncDirectory, OpenFails, LoadCheckpoint, RejectBatch,
           WriteFails, FinishBatch, Flush, Close, SyncLog, WriteCheckpoint,
           ResizeJournal, SyncJournal, CommitFails
<1>5. CASE PowerLoss
  BY <1>0, <1>5 DEF InOrder, PowerLoss, LosePower, NoRecords
<1>6. CASE Kernel
  BY <1>0, <1>6, KernelCells DEF InOrder, Kernel, DiskTypeOK
<1> QED BY <1>2, <1>3, <1>4, <1>5, <1>6 DEF ReuseNext, Next

(* Recovery ends with the number and the length of the log it leaves.      *)
LEMMA RecoveredNumber ==
  ASSUME Hypotheses, IInv, Recover, pc' = "closed"
  PROVE  /\ scanned' \in 0 .. MaxRecords /\ sequence' = scanned'
         /\ HasLength(log', scanned')
         /\ \A i \in 1 .. scanned' : log'[i] \in Record
<1> USE FormatAssumption, SentinelAssumption
<1>0. InOrder(log)' /\ TypeOK /\ TypeOK' /\ [ReuseNext]_vars
  BY InOrderStep, TypeStep DEF IInv, ReuseNext, Next
<1>1. scanned' \in 0 .. MaxRecords
  BY <1>0 DEF TypeOK
<1>2. /\ HasLength(log', scanned')
      /\ \A i \in 1 .. scanned' : log'[i] \in Record
  <2>1. ASSUME NEW k \in SlotIndex, ChooseCheckpoint(k)
        PROVE /\ HasLength(log', scanned')
              /\ \A i \in 1 .. scanned' : log'[i] \in Record
    <3>1. slots[k].count \in 0 .. MaxRecords /\ slots[k].count <= scanned
      BY <2>1 DEF ChooseCheckpoint, Selected, Consistent, Checkpoint
    <3>2. log' = TruncateTo(log, slots[k].count) /\ scanned' = slots[k].count
      BY <2>1 DEF ChooseCheckpoint, TruncateLog
    <3>3. \A i \in 1 .. scanned : log[i] \in Record
      BY <2>1 DEF ChooseCheckpoint, IInv, Recovering, LogHealthy
    <3>4. scanned \in 0 .. MaxRecords
      BY <1>0 DEF TypeOK
    <3>5. \A i \in Position : log'[i] = IF i <= scanned' THEN log[i] ELSE Absent
      BY <3>2 DEF TruncateTo
    <3>6. \A i \in 1 .. scanned' : i \in Position /\ log'[i] = log[i] /\ log[i] \in Record
      BY <3>1, <3>2, <3>3, <3>4, <3>5 DEF Position
    <3>7. ASSUME NEW i \in Position PROVE log'[i] = Absent <=> i > scanned'
      <4>1. CASE i <= scanned'
        <5>1. i \in 1 .. scanned'
          BY <1>1, <4>1 DEF Position
        <5> QED BY <1>1, <3>6, <4>1, <5>1 DEF Position
      <4>2. CASE ~(i <= scanned')
        BY <1>1, <3>5, <4>2 DEF Position
      <4> QED BY <4>1, <4>2
    <3> QED BY <3>6, <3>7 DEF HasLength
  <2>2. CASE /\ UNCHANGED <<log, scanned>>
             /\ (pc = "choose" /\ logHead = "absent") \/ pc = "migrateSync"
    BY <1>0, <2>2 DEF IInv, Recovering, LogHealthy, TypeOK, HasLength
  <2> QED
    BY <2>1, <2>2
       DEF Recover, RecoveryStep, Scan, NothingToRecover, Refuse, StartMigration,
           MigrateJournal, SyncMigration, diskVars, logCache
<1>3. sequence' = scanned'
  <2>1. CASE scanned' # 0
    <3>1. sequence' = log'[scanned'].seq /\ scanned' \in Position
      BY <1>1, <2>1 DEF Recover, Position
    <3>2. log'[scanned'] \in Record
      BY <1>1, <1>2, <2>1
    <3> QED BY <1>0, <3>1, <3>2 DEF InOrder
  <2>2. CASE scanned' = 0
    BY <2>2 DEF Recover
  <2> QED BY <2>1, <2>2
<1> QED BY <1>1, <1>2, <1>3

(* Every step keeps numbers and positions together.                        *)
LEMMA NumberedStep == Hypotheses /\ IInv /\ [ReuseNext]_vars => Numbered'
<1> SUFFICES ASSUME Hypotheses, IInv, [ReuseNext]_vars PROVE Numbered'
  OBVIOUS
<1>0. InOrder(log)' /\ InOrder(dlog)' /\ TypeOK /\ TypeOK'
  BY InOrderStep, TypeStep DEF IInv
<1> USE FormatAssumption DEF Holding, Opening, Before, RecoveryPc
<1>e. ASSUME Exit, sequence' = 0 PROVE Numbered'
  BY <1>0, <1>e DEF Numbered, Exit, FreshWriter
<1>f. /\ lastSeq = count
      /\ pc = "writing" => batch.first = count + 1
      /\ pc \in Holding \ {"writing"} /\ ~failed => sequence = count
      /\ pc = "writing" /\ ~failed => sequence = count + batch.size
  BY DEF IInv, Numbered
<1>1. CASE Start
  BY <1>0, <1>1, <1>f DEF Numbered, Start, writerState
<1>2. CASE Recover
  <2>1. pc' \in RecoveryPc \cup {"closed"} /\ UNCHANGED <<lastSeq, count>>
    BY <1>2 DEF Recover, RecoveryStep, Scan, ChooseCheckpoint, NothingToRecover, Refuse,
                StartMigration, MigrateJournal, SyncMigration, writerState
  <2> QED BY <1>0, <1>f, <2>1 DEF Numbered
<1>3. CASE AppendBatch
  <2>1. PICK size \in 1 .. BatchCapacity :
          \/ ~failed /\ BeginBatch(NextSeq(sequence), size)
          \/ failed /\ BeginBatch(NextSeq(lastSeq), size)
    BY <1>3 DEF AppendBatch
  <2>2. pc = "ready" /\ count + size <= MaxRecords /\ count \in Nat /\ size \in Nat /\ size >= 1
    BY <1>0, <2>1, OptionsAssumption DEF BeginBatch, TypeOK
  <2>3. NextSeq(count) = count + 1
    BY <2>2, SmallSeq DEF NextSeq
  <2>4. \/ ~failed /\ BeginBatch(count + 1, size)
        \/ failed /\ BeginBatch(count + 1, size)
    BY <1>f, <2>1, <2>2, <2>3
  <2>5. /\ batch' = [first |-> count + 1, size |-> size] /\ pc' = "writing"
        /\ UNCHANGED <<count, lastSeq, failed>>
    BY <2>4 DEF BeginBatch
  <2>6. sequence' = (count + size) % SeqModulus
    BY <1>3, <2>2, <2>5 DEF AppendBatch
  <2>7. sequence' = count + size
    BY <2>2, <2>6, SmallSeq
  <2> QED BY <1>0, <1>f, <2>5, <2>7 DEF Numbered
<1>4. CASE Write
  <2>1. pc' = "down" \/ UNCHANGED <<scanned, sequence>>
    BY <1>4 DEF Write
  <2>2. CASE Exit
    BY <1>4, <1>e, <2>2 DEF Write, Exit
  <2>3. ASSUME UNCHANGED <<batch, count, lastSeq, failed, sequence, scanned>>,
               \/ pc' \in Opening
               \/ pc \in Holding \ {"writing"} /\ pc' \in Holding \ {"writing"}
               \/ pc = "writing" /\ pc' = "writing"
        PROVE  Numbered'
    BY <1>0, <1>f, <2>3 DEF Numbered
  <2>4. CASE OpenLog \/ WriteHeader \/ SyncHeader \/ OpenJournal
    BY <2>1, <2>3, <2>4 DEF OpenLog, WriteHeader, SyncHeader, OpenJournal, writerState
  <2>5. CASE SyncDirectory \/ WriteRecord \/ Flush \/ SyncLog \/ WriteCheckpoint \/ ResizeJournal
    BY <2>1, <2>3, <2>5 DEF SyncDirectory, WriteRecord, Flush, SyncLog, WriteCheckpoint,
          ResizeJournal, writerState
  <2>6. CASE OpenLogFails \/ OpenFails
    BY <2>2, <2>6 DEF OpenLogFails, OpenFails
  <2>7. CASE Close
    <3>1. CASE pc' = "logSync" /\ UNCHANGED writerState
      BY <2>1, <2>3, <2>7, <3>1 DEF Close, writerState
    <3> QED BY <2>2, <2>7, <3>1 DEF Close
  <2>8. CASE InitializeCheckpoint
    <3>1. PICK n \in 0 .. MaxRecords :
            /\ HasLength(log, n)
            /\ n > 0 => log[n] \in Record
            /\ count' = n
            /\ lastSeq' = IF n = 0 THEN lastSeq ELSE log[n].seq
      BY <2>8 DEF InitializeCheckpoint
    <3>2. count' = 0 /\ lastSeq' = 0
      BY <1>0, <2>8, <3>1, InitializedEmpty DEF InitializeCheckpoint
    <3>3. ~failed => sequence = 0
      <4>1. ~failed => HasLength(log, sequence)
        BY <2>8 DEF InitializeCheckpoint, IInv, Reopening, Between
      <4>2. sequence \in Nat
        BY <1>0 DEF TypeOK, SeqNum
      <4> QED BY <2>8, <4>1, <4>2, InitializedEmpty DEF InitializeCheckpoint
    <3> QED BY <1>0, <2>1, <2>8, <3>2, <3>3 DEF InitializeCheckpoint, Numbered
  <2>9. ASSUME NEW k \in SlotIndex, LoadCheckpoint(k) PROVE Numbered'
    <3>1. slots[k] \in Checkpoint /\ HasLength(log, slots[k].count)
      BY <2>9 DEF LoadCheckpoint, OpensWith
    <3>2. slots[k].last = slots[k].count
      BY <3>1 DEF IInv, Covered, SlotSound
    <3>3. ~failed => slots[k].count = sequence
      BY <2>9, LoadedIsTop
    <3> QED BY <1>0, <1>f, <2>1, <2>9, <3>2, <3>3 DEF LoadCheckpoint, Numbered
  <2>10. CASE RejectBatch \/ WriteFails
    BY <1>0, <1>f, <2>1, <2>10 DEF RejectBatch, RecordFailure, WriteFails, Numbered
  <2>11. CASE FinishBatch
    <3>1. /\ batch.size \in Nat /\ batch.size >= 1 /\ pc = "writing"
          /\ count' = count + batch.size /\ count \in Nat
          /\ lastSeq' = BatchSeq(batch.size - 1)
          /\ pc' \in {"ready", "logSync"} /\ (failed => failed')
      BY <1>0, <2>11 DEF FinishBatch, IInv, Bounds, TypeOK, Batch
    <3>2. lastSeq' = count'
      BY <3>1, BatchNumbers
    <3> QED BY <1>0, <1>f, <2>1, <3>1, <3>2 DEF Numbered
  <2>12. CASE SyncJournal
    <3>1. CASE UNCHANGED <<batch, count, lastSeq, failed>> /\ pc' \in {"dirSync", "ready"}
      BY <2>1, <2>3, <2>12, <3>1 DEF SyncJournal
    <3> QED BY <2>2, <2>12, <3>1 DEF SyncJournal
  <2>13. CASE CommitFails
    <3>1. CASE pc' = "ready" /\ RecordFailure
      BY <1>0, <1>f, <2>13, <2>1, <3>1 DEF CommitFails, RecordFailure, Numbered
    <3> QED BY <2>2, <2>13, <3>1 DEF CommitFails
  <2> QED
    BY <1>4, <2>4, <2>5, <2>6, <2>7, <2>8, <2>9, <2>10, <2>11, <2>12, <2>13 DEF Write,
       WriterStep
<1>5. CASE Crash \/ PowerLoss
  BY <1>5, <1>e DEF Crash, PowerLoss
<1>6. CASE Kernel \/ UNCHANGED vars
  <2>1. UNCHANGED <<pc, batch, count, lastSeq, failed, sequence, scanned>>
    BY <1>6 DEF Kernel, vars, writerVars, writerState
  <2> QED BY <1>0, <1>f, <2>1 DEF Numbered
<1>7. CASE CloseKeeps \/ OpenFailsKeeps \/ Reopen
  BY <1>0, <1>f, <1>7 DEF Numbered, CloseKeeps, OpenFailsKeeps, Reopen, writerState
<1> QED BY <1>1, <1>2, <1>3, <1>4, <1>5, <1>6, <1>7 DEF ReuseNext, Next

(* A log that survives a power loss keeps surviving it.                    *)
LEMMA LogSafeStays == ASSUME Hypotheses, IInv, [ReuseNext]_vars, LogSafe PROVE LogSafe'
<1>0. logHead = "valid" /\ dlogHead = "valid" /\ "log" \in entries
  BY DEF LogSafe, IInv, Files
<1>1. ASSUME dlogHead' \in {dlogHead, logHead}, entries \subseteq entries' PROVE LogSafe'
  BY <1>0, <1>1 DEF LogSafe
<1>2. ASSUME UNCHANGED diskVars PROVE LogSafe'
  BY <1>0, <1>2 DEF LogSafe, diskVars
<1>3. CASE Recover
  BY <1>1, <1>2, <1>3
     DEF Recover, RecoveryStep, Scan, ChooseCheckpoint, NothingToRecover, Refuse,
         StartMigration, MigrateJournal, SyncMigration, SyncJournalFile, SyncEntry,
         logDurable, logCache, journalCache, journalDurable
<1>4. CASE Write
  <2>1. CASE UNCHANGED <<logDurable, entries>> \/ SyncLogFile
    BY <1>1, <2>1 DEF logDurable, SyncLogFile, SyncEntry
  <2>2. CASE SyncDirectory
    BY <1>0, <2>2 DEF SyncDirectory, logDurable, LogSafe, File
  <2>3. CASE SyncJournal
    BY <1>1, <2>3 DEF SyncJournal, logDurable, SyncJournalFile, SyncEntry
  <2> QED
    BY <1>2, <1>4, <2>1, <2>2, <2>3
       DEF Write, WriterStep, OpenLog, OpenLogFails, WriteHeader, SyncHeader, OpenJournal,
           InitializeCheckpoint, OpenFails, LoadCheckpoint, RejectBatch, WriteRecord,
           WriteFails, FinishBatch, Flush, Close, SyncLog, WriteCheckpoint,
           ResizeJournal, CommitFails
<1>5. CASE PowerLoss
  BY <1>0, <1>5 DEF PowerLoss, LosePower, LogSafe
<1>6. CASE Kernel
  BY <1>1, <1>6 DEF Kernel, Writeback, WritebackHead, WritebackRecord, WritebackTruncate,
                    WritebackJournal, WritebackEntry, logDurable
<1>7. CASE \/ Start \/ AppendBatch \/ Crash \/ UNCHANGED vars
           \/ CloseKeeps \/ OpenFailsKeeps \/ Reopen
  BY <1>2, <1>7 DEF Start, AppendBatch, BeginBatch, Crash, vars, CloseKeeps,
                    OpenFailsKeeps, Reopen
<1> QED BY <1>3, <1>4, <1>5, <1>6, <1>7 DEF ReuseNext, Next

(* A slot that counts records is written once the log survives.            *)
LEMMA GroundedStep ==
  Hypotheses /\ IInv /\ [ReuseNext]_vars => Grounded(slots)' /\ Grounded(dslots)'
<1> SUFFICES ASSUME Hypotheses, IInv, [ReuseNext]_vars
             PROVE  Grounded(slots)' /\ Grounded(dslots)'
  OBVIOUS
<1>0. Grounded(slots) /\ Grounded(dslots) /\ (LogSafe => LogSafe')
  BY LogSafeStays DEF IInv, Files
<1>1. ASSUME \A k \in SlotIndex :
               slots'[k] \in Checkpoint /\ slots'[k].count # 0 =>
                 LogSafe \/ slots'[k] \in {slots[k], dslots[k]},
             \A k \in SlotIndex : dslots'[k] \in {slots[k], dslots[k], Torn}
      PROVE  Grounded(slots)' /\ Grounded(dslots)'
  BY <1>0, <1>1, SlotAssumption DEF Grounded
<1>2. ASSUME slots' = slots, dslots' \in {slots, dslots}
      PROVE  Grounded(slots)' /\ Grounded(dslots)'
  BY <1>1, <1>2
<1>3. ASSUME UNCHANGED diskVars PROVE Grounded(slots)' /\ Grounded(dslots)'
  BY <1>2, <1>3 DEF diskVars
<1>4. CASE Recover
  <2>1. CASE MigrateJournal
    <3>1. \/ UNCHANGED slots
          \/ slots' = [k \in SlotIndex |-> IF k = 0 THEN FirstCheckpoint ELSE Torn]
      BY <2>1 DEF MigrateJournal
    <3>2. FirstCheckpoint.count # 0 => LogSafe
      <4>1. scanned # 0 => 1 \in Position /\ log[1] \in Record
        BY <2>1, FormatAssumption DEF MigrateJournal, IInv, Recovering, TypeOK, Position
      <4>2. scanned # 0 => log # NoRecords
        BY <4>1, SentinelAssumption DEF NoRecords
      <4> QED
        BY <2>1, <4>2 DEF MigrateJournal, IInv, Recovering, Files, LogSafe, FirstCheckpoint
    <3>3. dslots' = dslots
      BY <2>1 DEF MigrateJournal, journalDurable
    <3> QED BY <1>1, <3>1, <3>2, <3>3, SlotAssumption
  <2> QED
    BY <1>2, <1>3, <1>4, <2>1
       DEF Recover, RecoveryStep, Scan, ChooseCheckpoint, NothingToRecover, Refuse,
           StartMigration, SyncMigration, SyncJournalFile, journalCache, journalDurable
<1>5. CASE Write
  <2>1. CASE WriteCheckpoint
    <3>1. count # 0 => LogSafe
      BY <2>1 DEF WriteCheckpoint, IInv, Running, Committing
    <3>2. /\ dslots' = dslots
          /\ \/ slots' = [slots EXCEPT ![OtherSlot(active)] = Torn]
             \/ slots' = [slots EXCEPT ![OtherSlot(active)] = NewCheckpoint]
      BY <2>1 DEF WriteCheckpoint, journalDurable
    <3>3. NewCheckpoint.count = count
      BY DEF NewCheckpoint
    <3> QED BY <1>1, <3>1, <3>2, <3>3, SlotAssumption DEF IInv, TypeOK, DiskTypeOK
  <2> QED
    BY <1>2, <1>3, <1>5, <2>1
       DEF Write, WriterStep, OpenLog, OpenLogFails, WriteHeader, SyncHeader, OpenJournal,
           InitializeCheckpoint, SyncDirectory, OpenFails, LoadCheckpoint, RejectBatch,
           WriteRecord, WriteFails, FinishBatch, Flush, Close, SyncLog, ResizeJournal,
           SyncJournal, SyncJournalFile, CommitFails, journalCache, journalDurable
<1>6. CASE PowerLoss
  <2>1. slots' \in {dslots, NoSlots} /\ dslots' = slots'
    BY <1>6 DEF PowerLoss, LosePower
  <2> QED BY <1>1, <2>1, SlotAssumption DEF NoSlots
<1>7. CASE Kernel
  BY <1>2, <1>7 DEF Kernel, Writeback, WritebackHead, WritebackRecord, WritebackTruncate,
                    WritebackJournal, WritebackEntry, journalCache, journalDurable
<1>8. CASE \/ Start \/ AppendBatch \/ Crash \/ UNCHANGED vars
           \/ CloseKeeps \/ OpenFailsKeeps \/ Reopen
  BY <1>3, <1>8 DEF Start, AppendBatch, BeginBatch, Crash, vars, CloseKeeps,
                    OpenFailsKeeps, Reopen
<1> QED BY <1>4, <1>5, <1>6, <1>7, <1>8 DEF ReuseNext, Next

(* Files come into being, and reach the disk, in the order open() makes    *)
(* them.                                                                   *)
LEMMA FilesStep == Hypotheses /\ IInv /\ [ReuseNext]_vars => Files'
<1> SUFFICES ASSUME Hypotheses, IInv, [ReuseNext]_vars PROVE Files'
  OBVIOUS
<1> USE SentinelAssumption
<1>0. Files /\ TypeOK /\ DiskTypeOK /\ Grounded(slots)' /\ Grounded(dslots)'
  BY GroundedStep DEF IInv, TypeOK
<1>s. \A f : SyncEntry(f) => entries' = entries \cup {f}
  BY DEF Hypotheses, SyncEntry
<1>u. ASSUME UNCHANGED <<diskVars, acked>> PROVE Files'
  BY <1>0, <1>u DEF Files, diskVars
<1>n. \A n : log = NoRecords => TruncateTo(log, n) = NoRecords
  BY DEF TruncateTo, NoRecords
<1>c. pc \notin Before /\ journalLen # "full" => log = NoRecords
  BY DEF IInv, Reopening
<1>1. CASE \/ Start \/ AppendBatch \/ Crash \/ UNCHANGED vars
         \/ CloseKeeps \/ OpenFailsKeeps \/ Reopen
  BY <1>1, <1>u DEF Start, AppendBatch, BeginBatch, Crash, vars, writerVars, history,
                    CloseKeeps, OpenFailsKeeps, Reopen
<1>2. CASE Recover
  <2>1. CASE Scan \/ \E k \in SlotIndex : ChooseCheckpoint(k)
    <3>1. /\ UNCHANGED <<logHead, logDurable, journalCache, journalDurable, entries, acked>>
          /\ log' = log \/ \E n : log' = TruncateTo(log, n)
      BY <1>2, <2>1 DEF Recover, history, Scan, ChooseCheckpoint, TruncateLog
    <3>2. /\ log = NoRecords => log' = NoRecords
          /\ \A i \in Position : log'[i] \in Record => log'[i] = log[i]
      BY <1>n, <3>1 DEF TruncateTo
    <3> QED BY <1>0, <3>1, <3>2 DEF Files, logDurable, journalCache, journalDurable
  <2>2. CASE NothingToRecover \/ Refuse \/ StartMigration
    BY <1>2, <1>u, <2>2 DEF Recover, history, NothingToRecover, Refuse, StartMigration
  <2>3. CASE MigrateJournal
    <3>1. journalLen \in {"empty", "torn"}
      BY <2>3 DEF MigrateJournal, IInv, Recovering
    <3>2. \/ journalLen' = "torn" /\ UNCHANGED slots
          \/ journalLen' = "full"
      BY <2>3 DEF MigrateJournal
    <3> QED BY <1>0, <1>2, <2>3, <3>1, <3>2
            DEF Recover, history, MigrateJournal, Files, logCache, logDurable,
            journalDurable
  <2>4. CASE SyncMigration
    <3>1. journalLen = "full"
      BY <2>4 DEF SyncMigration, IInv, Recovering
    <3> QED BY <1>0, <1>2, <1>s, <2>4, <3>1
            DEF Recover, history, SyncMigration, SyncJournalFile, Files, File, DiskTypeOK,
            logCache, logDurable, journalCache
  <2> QED BY <1>2, <2>1, <2>2, <2>3, <2>4 DEF Recover, RecoveryStep
<1>4. CASE Write
  <2>1. CASE UNCHANGED <<diskVars, history>>
    BY <1>u, <2>1 DEF history
  <2>2. CASE OpenLog
    BY <1>0, <1>c, <2>2 DEF OpenLog, Before, RecoveryPc, Files, history, logDurable,
       journalCache, journalDurable
  <2>3. CASE WriteHeader
    <3>1. logHead \in {"empty", "torn"} /\ journalLen # "full" /\ log = NoRecords
      BY <1>c, <2>3 DEF WriteHeader, IInv, Reopening, Between, Opening, Before, RecoveryPc
    <3> QED
      BY <1>0, <2>3, <3>1 DEF WriteHeader, Files, history, logDurable, journalCache,
         journalDurable
  <2>4. CASE SyncHeader
    <3>1. logHead = "valid"
      BY <2>4 DEF SyncHeader, IInv, Reopening
    <3> QED
      BY <1>0, <1>s, <2>4, <3>1
         DEF SyncHeader, SyncLogFile, Files, File, DiskTypeOK, history, logCache,
             journalCache, journalDurable
  <2>5. CASE OpenJournal
    <3>1. journalLen # "full" => log = NoRecords
      BY <1>c, <2>5 DEF OpenJournal, Before, RecoveryPc
    <3> QED
      BY <1>0, <2>5, <3>1 DEF OpenJournal, Files, history, logCache, logDurable,
         journalDurable
  <2>6. CASE SyncDirectory
    <3>1. journalLen # "absent"
      BY <2>6 DEF SyncDirectory, IInv, Running, Holding
    <3> QED BY <1>0, <2>6, <3>1 DEF SyncDirectory, Files, File, DiskTypeOK, history,
              logCache, logDurable, journalCache, journalDurable
  <2>7. CASE WriteRecord
    <3>1. journalLen = "full" /\ logHead = "valid"
      BY <2>7 DEF WriteRecord, IInv, Running, Reopening, Holding
    <3> QED
      BY <1>0, <2>7, <3>1 DEF WriteRecord, Files, history, logDurable, journalCache,
         journalDurable
  <2>8. CASE SyncLog
    <3>1. journalLen = "full" /\ logHead = "valid"
      BY <2>8 DEF SyncLog, IInv, Running, Reopening, Holding
    <3> QED
      BY <1>0, <1>s, <2>8, <3>1 DEF SyncLog, SyncLogFile, Files, File, DiskTypeOK, history,
              logCache, journalCache, journalDurable
  <2>9. CASE WriteCheckpoint \/ ResizeJournal
    <3>1. journalLen # "absent"
      BY <2>9 DEF WriteCheckpoint, ResizeJournal, IInv, Running, Holding
    <3>2. journalLen' \in {"torn", "full"} /\ (journalLen = "full" => journalLen' = "full")
      BY <2>9 DEF WriteCheckpoint, ResizeJournal
    <3> QED BY <1>0, <2>9, <3>1, <3>2 DEF WriteCheckpoint, ResizeJournal, Files, history,
              logCache, logDurable, journalDurable
  <2>10. CASE SyncJournal
    <3>1. journalLen = "full" /\ (count # 0 => LogSafe)
      BY <2>10 DEF SyncJournal, IInv, Running, Holding, Committing
    <3> QED
      BY <1>0, <1>s, <2>10, <3>1 DEF SyncJournal, SyncJournalFile, Files, File, LogSafe, DiskTypeOK,
              logCache, logDurable, journalCache
  <2> QED BY <1>4, <2>1, <2>2, <2>3, <2>4, <2>5, <2>6, <2>7, <2>8, <2>9, <2>10
          DEF Write, WriterStep, OpenLogFails, InitializeCheckpoint, OpenFails,
          LoadCheckpoint,
              RejectBatch, RecordFailure, WriteFails, FinishBatch, Flush, Close,
              CommitFails, history
<1>5. CASE PowerLoss
  BY <1>0, <1>5 DEF PowerLoss, LosePower, Files, File, history
<1>6. CASE Kernel
  <2>1. acked' = acked
    BY <1>6 DEF Kernel, writerVars, history
  <2>2. CASE WritebackTruncate \/ \E i \in Position : WritebackRecord(i)
    <3>1. UNCHANGED <<logHead, log, dlogHead, journalCache, journalDurable, entries>>
      BY <2>2 DEF WritebackTruncate, WritebackRecord
    <3>2. \A i \in Position : log[i] \in Record /\ dlog[i] = log[i] => dlog'[i] = log[i]
      BY <1>0, <1>6, KernelCells DEF Kernel, DiskTypeOK
    <3> QED BY <1>0, <2>1, <3>1, <3>2 DEF Files, journalCache, journalDurable
  <2>3. CASE WritebackHead
    BY <1>0, <2>1, <2>3 DEF WritebackHead, Files, journalCache, journalDurable
  <2>4. CASE WritebackJournal
    BY <1>0, <2>1, <2>4 DEF WritebackJournal, Files, logCache, logDurable, journalCache
  <2>5. CASE WritebackEntry
    BY <1>0, <2>1, <2>5 DEF WritebackEntry, Files, File, DiskTypeOK, logCache, logDurable,
       journalCache, journalDurable
  <2> QED BY <1>6, <2>2, <2>3, <2>4, <2>5 DEF Kernel, Writeback
<1> QED BY <1>1, <1>2, <1>4, <1>5, <1>6 DEF ReuseNext, Next

(* What some slot claims, or was acknowledged, no step but a power loss    *)
(* takes away or changes.                                                  *)
Promised(n) ==
  \/ n = acked
  \/ \E k \in SlotIndex : slots[k] \in Checkpoint /\ n = slots[k].count
  \/ \E k \in SlotIndex : dslots[k] \in Checkpoint /\ n = dslots[k].count

(* The first n records are valid and durable after the step.               *)
StillDurable(n) == \A i \in 1 .. n : log'[i] \in Record /\ dlog'[i] = log'[i]

(* What a slot or an acknowledgement promises is durable.                  *)
LEMMA PromisesDurable ==
  ASSUME IInv, NEW n, Promised(n)
  PROVE  n \in 0 .. MaxRecords /\ Durable(n)
  BY DEF IInv, TypeOK, Covered, SlotSound, Promised, Checkpoint

(* What was promised before a step is durable after it, unchanged.         *)
LEMMA PromisesKept ==
  ASSUME Hypotheses, IInv, [ReuseNext]_vars, ~PowerLoss, NEW n, Promised(n)
  PROVE  StillDurable(n) /\ \A i \in 1 .. n : log'[i] = log[i]
<1>0. n \in 0 .. MaxRecords /\ n \in Nat /\ Durable(n) /\ TypeOK /\ DiskTypeOK
  BY PromisesDurable, FormatAssumption DEF IInv, TypeOK
<1>p. \A i \in 1 .. n : i \in Position /\ i \in Int /\ i <= n
  BY <1>0, FormatAssumption DEF Position
<1>u. ASSUME log' = log, dlog' \in {dlog, log}
      PROVE  StillDurable(n) /\ \A i \in 1 .. n : log'[i] = log[i]
  BY <1>0, <1>u DEF Durable, StillDurable
<1>t. ASSUME NEW m \in 0 .. MaxRecords, n <= m, log' = TruncateTo(log, m), dlog' = dlog
      PROVE  StillDurable(n) /\ \A i \in 1 .. n : log'[i] = log[i]
  <2>1. \A i \in 1 .. n : log'[i] = log[i]
    BY <1>0, <1>p, <1>t DEF TruncateTo
  <2> QED BY <1>0, <1>t, <2>1 DEF Durable, StillDurable
<1>1. CASE Scan
  <2>1. CASE logHead = "valid"
    <3>1. PICK m \in 0 .. MaxRecords : ScanStopsAt(log, m) /\ log' = TruncateTo(log, m)
      BY <1>1, <2>1 DEF Scan, TruncateLog
    <3>2. n <= m
      BY <1>0, <3>1, ScanReaches DEF Durable, StillDurable, IInv, Numbered
    <3> QED BY <1>1, <1>t, <3>1, <3>2 DEF Scan, logDurable
  <2>2. CASE logHead # "valid"
    BY <1>1, <1>u, <2>2 DEF Scan, logDurable
  <2> QED BY <2>1, <2>2
<1>2. ASSUME NEW k \in SlotIndex, ChooseCheckpoint(k)
      PROVE  StillDurable(n) /\ \A i \in 1 .. n : log'[i] = log[i]
  <2>1. Top(slots, k) /\ CountsWithin(dslots, slots[k].count)
    BY <1>2, ChosenIsTop
  <2>2. slots[k].count \in 0 .. MaxRecords /\ n <= slots[k].count
    BY <2>1 DEF Top, Newest, CountsWithin, Promised, Checkpoint
  <2> QED BY <1>2, <1>t, <2>2 DEF ChooseCheckpoint, TruncateLog, logDurable
<1>3. CASE WriteRecord
  <2>1. n <= count
    BY <1>3 DEF WriteRecord, IInv, Running, Holding, CountsWithin, Promised
  <2>2. \A i \in Position : i <= count => log'[i] = log[i]
    BY <1>0, <1>3, FormatAssumption DEF WriteRecord, TypeOK, DiskTypeOK
  <2>3. \A i \in 1 .. n : log'[i] = log[i]
    BY <1>0, <1>p, <2>1, <2>2 DEF TypeOK
  <2> QED BY <1>0, <1>3, <2>3 DEF WriteRecord, logDurable, Durable, StillDurable
<1>4. CASE Kernel
  <2>1. /\ log' = log
        /\ \A i \in Position : log[i] \in Record /\ dlog[i] = log[i] => dlog'[i] = log[i]
    BY <1>0, <1>4, KernelCells DEF Kernel, DiskTypeOK
  <2> QED BY <1>0, <1>p, <2>1 DEF Durable, StillDurable
<1>5. CASE Recover
  BY <1>1, <1>2, <1>5, <1>u
     DEF Recover, RecoveryStep, NothingToRecover, Refuse, StartMigration,
         MigrateJournal, SyncMigration, diskVars, logCache, logDurable
<1>6. CASE Write
  <2>1. CASE UNCHANGED diskVars \/ (UNCHANGED logCache /\ (UNCHANGED logDurable \/ SyncLogFile))
    BY <1>u, <2>1 DEF diskVars, logCache, logDurable, SyncLogFile
  <2>2. CASE OpenLog \/ WriteHeader
    BY <1>u, <2>2 DEF OpenLog, WriteHeader, logDurable
  <2> QED
    BY <1>3, <1>6, <2>1, <2>2
       DEF Write, WriterStep, OpenLogFails, SyncHeader, OpenJournal,
           InitializeCheckpoint, SyncDirectory, OpenFails, LoadCheckpoint, RejectBatch,
           WriteFails, FinishBatch, Flush, Close, SyncLog, WriteCheckpoint,
           ResizeJournal, SyncJournal, CommitFails
<1>7. CASE \/ Start \/ AppendBatch \/ Crash \/ UNCHANGED vars
         \/ CloseKeeps \/ OpenFailsKeeps \/ Reopen
  BY <1>7, <1>u DEF Start, AppendBatch, BeginBatch, Crash, vars, diskVars, CloseKeeps,
                    OpenFailsKeeps, Reopen
<1> QED BY <1>4, <1>5, <1>6, <1>7 DEF ReuseNext, Next

(* A power loss falls back to an image with every promise of its own.      *)
LEMMA PowerLossKeeps ==
  ASSUME IInv, PowerLoss, NEW n, n \in 0 .. MaxRecords,
         \/ n = acked
         \/ \E k \in SlotIndex : dslots'[k] \in Checkpoint /\ n = dslots'[k].count
  PROVE  StillDurable(n) /\ \A i \in 1 .. n : log'[i] = log[i]
<1>1. CASE n = acked /\ acked = 0
  BY <1>1 DEF Durable, StillDurable
<1>2. CASE n = acked /\ acked # 0
  <2>1. Durable(n)
    BY <1>2 DEF IInv, Covered
  <2>2. log' = dlog /\ dlog' = dlog
    BY <1>2 DEF IInv, Files, File, PowerLoss, LosePower
  <2> QED BY <2>1, <2>2 DEF Durable, StillDurable
<1>3. ASSUME NEW k \in SlotIndex, dslots'[k] \in Checkpoint, n = dslots'[k].count
      PROVE  StillDurable(n) /\ \A i \in 1 .. n : log'[i] = log[i]
  <2>1. "journal" \in entries /\ dslots' = dslots
    BY <1>3, SlotAssumption DEF PowerLoss, LosePower, NoSlots
  <2>2. CASE n = 0
    BY <2>2 DEF StillDurable
  <2>3. CASE n # 0
    <3>1. "log" \in entries
      BY <1>3, <2>1, <2>3 DEF IInv, Files, Grounded, LogSafe
    <3>2. log' = dlog /\ dlog' = dlog
      BY <3>1 DEF PowerLoss, LosePower
    <3>3. Durable(n)
      BY <1>3, <2>1 DEF IInv, Covered, SlotSound
    <3> QED BY <3>2, <3>3 DEF Durable, StillDurable
  <2> QED BY <2>2, <2>3
<1> QED BY <1>1, <1>2, <1>3

(* No step writes a slot, or acknowledges a record, ahead of the log.      *)
LEMMA CoveredStep == Hypotheses /\ IInv /\ [ReuseNext]_vars => Covered'
<1> SUFFICES ASSUME Hypotheses, IInv, [ReuseNext]_vars PROVE Covered'
  OBVIOUS
<1> DEFINE Sound(slot) ==
      slot \in Checkpoint => StillDurable(slot.count) /\ slot.last = slot.count
<1> USE SlotAssumption
<1>0. /\ Covered /\ TypeOK /\ DiskTypeOK
      /\ Torn \notin Checkpoint /\ \A k \in SlotIndex : NoSlots[k] = Torn
  BY DEF IInv, TypeOK, NoSlots
<1>s. ASSUME StillDurable(acked'), \A k \in SlotIndex : Sound(slots'[k]) /\ Sound(dslots'[k])
      PROVE  Covered'
  BY <1>s DEF Covered, SlotSound, Durable, StillDurable
<1>1. CASE PowerLoss
  <2>1. slots' = dslots' /\ acked' = acked /\ acked \in 0 .. MaxRecords
        /\ (dslots' = dslots \/ dslots' = NoSlots)
    BY <1>0, <1>1 DEF PowerLoss, LosePower, history, TypeOK
  <2>2. ASSUME NEW k \in SlotIndex, dslots'[k] \in Checkpoint
        PROVE  StillDurable(dslots'[k].count) /\ dslots'[k].last = dslots'[k].count
    <3>1. dslots'[k].count \in 0 .. MaxRecords
      BY <2>2 DEF Checkpoint
    <3>2. dslots'[k].last = dslots'[k].count
      BY <1>0, <2>1, <2>2 DEF Covered, SlotSound
    <3> QED BY <1>1, <2>2, <3>1, <3>2, PowerLossKeeps
  <2>3. StillDurable(acked')
    BY <1>1, <2>1, PowerLossKeeps
  <2> QED BY <1>s, <2>1, <2>2, <2>3
<1>2. CASE ~PowerLoss
  <2>a. StillDurable(acked)
    BY <1>2, PromisesKept DEF Promised
  <2>k. ASSUME NEW k \in SlotIndex, NEW slot \in {slots[k], dslots[k], Torn}
        PROVE Sound(slot)
    <3>1. CASE slot = Torn
      BY <1>0, <3>1
    <3>2. ASSUME slot # Torn, slot \in Checkpoint
          PROVE  Promised(slot.count) /\ slot.last = slot.count
      BY <1>0, <2>k, <3>2 DEF Promised, Covered, SlotSound
    <3>3. ASSUME slot # Torn, slot \in Checkpoint PROVE StillDurable(slot.count)
      BY <1>2, <3>2, <3>3, PromisesKept
    <3> QED BY <3>1, <3>2, <3>3
  <2> HIDE DEF Sound
  <2>1. ASSUME acked' = acked \/ StillDurable(acked'),
               \A k \in SlotIndex : slots'[k] \in {slots[k], dslots[k], Torn} \/ Sound(slots'[k]),
               dslots' \in {dslots, slots}
        PROVE  Covered'
    BY <1>s, <2>1, <2>a, <2>k
  <2>u. ASSUME UNCHANGED acked, slots' = slots, dslots' \in {dslots, slots} PROVE Covered'
    BY <2>1, <2>u
  <2>2. CASE Recover /\ MigrateJournal
    <3>1. FirstCheckpoint.last = FirstCheckpoint.count /\ FirstCheckpoint.count = scanned
      BY <1>0, <2>2
         DEF MigrateJournal, FirstCheckpoint, IInv, Recovering, Numbered, InOrder,
             TypeOK, Position
    <3>2. StillDurable(scanned)
      <4>1. \A i \in 1 .. scanned : i \in Position /\ log[i] \in Record
        BY <1>0, <2>2, FormatAssumption DEF MigrateJournal, IInv, Recovering, TypeOK,
           Position
      <4>2. \A i \in 1 .. scanned : dlog[i] = log[i]
        BY <2>2, <4>1 DEF MigrateJournal, IInv, Recovering, Files
      <4> QED BY <2>2, <4>1, <4>2 DEF MigrateJournal, StillDurable, logCache, logDurable
    <3>3. Sound(FirstCheckpoint)
      BY <3>1, <3>2 DEF Sound
    <3>4. \A k \in SlotIndex : slots'[k] \in {slots[k], Torn, FirstCheckpoint}
      BY <2>2 DEF MigrateJournal
    <3> QED BY <2>1, <2>2, <3>3, <3>4 DEF MigrateJournal, Recover, history, journalDurable
  <2>3. CASE Recover
    BY <2>u, <2>2, <2>3
       DEF Recover, history, RecoveryStep, Scan, ChooseCheckpoint, NothingToRecover,
           Refuse, StartMigration, SyncMigration, SyncJournalFile, diskVars,
           journalCache, journalDurable
  <2>4. CASE Write
    <3>1. CASE WriteCheckpoint
      <4>1. StillDurable(count) /\ lastSeq = count
        BY <3>1 DEF WriteCheckpoint, IInv, Running, Committing, Numbered, Durable, StillDurable,
             logCache, logDurable
      <4>2. Sound(NewCheckpoint)
        BY <4>1 DEF Sound, NewCheckpoint
      <4>3. \A k \in SlotIndex : slots'[k] \in {slots[k], Torn, NewCheckpoint}
        BY <1>0, <3>1 DEF WriteCheckpoint, DiskTypeOK
      <4>4. acked' = acked /\ dslots' = dslots
        BY <3>1 DEF WriteCheckpoint, history, journalDurable
      <4> QED BY <2>1, <4>2, <4>3, <4>4
    <3>2. CASE SyncJournal
      <4>1. StillDurable(count) /\ acked' = count
        BY <3>2 DEF SyncJournal, IInv, Running, Committing, Durable, StillDurable, logCache,
           logDurable
      <4> QED BY <2>1, <3>2, <4>1 DEF SyncJournal, SyncJournalFile, journalCache
    <3>3. CASE UNCHANGED <<slots, dslots, acked>>
      BY <2>u, <3>3
    <3> QED
      BY <2>4, <3>1, <3>2, <3>3
         DEF Write, WriterStep, OpenLog, WriteHeader, OpenLogFails, SyncHeader,
             OpenJournal, WriteRecord, InitializeCheckpoint, SyncDirectory, OpenFails,
             LoadCheckpoint, RejectBatch, RecordFailure, WriteFails, FinishBatch, Flush,
             Close, SyncLog, ResizeJournal, CommitFails, diskVars, journalCache,
             journalDurable, history
  <2>5. CASE Kernel
    BY <2>u, <2>5 DEF Kernel, Writeback, WritebackHead, WritebackRecord, WritebackTruncate,
       WritebackJournal, WritebackEntry, journalCache, journalDurable, writerVars, history
  <2>6. CASE \/ Start \/ AppendBatch \/ Crash \/ UNCHANGED vars
           \/ CloseKeeps \/ OpenFailsKeeps \/ Reopen
    BY <2>u, <2>6 DEF Start, AppendBatch, BeginBatch, Crash, vars, diskVars, writerVars,
       history, CloseKeeps, OpenFailsKeeps, Reopen
  <2> QED BY <1>2, <2>3, <2>4, <2>5, <2>6 DEF ReuseNext, Next
<1> QED BY <1>1, <1>2

(* Every step leaves a newest slot that covers the acknowledged records.   *)
LEMMA CoveringStep == Hypotheses /\ IInv /\ [ReuseNext]_vars => Covering'
<1> SUFFICES ASSUME Hypotheses, IInv, [ReuseNext]_vars PROVE Covering'
  OBVIOUS
<1> USE SlotAssumption
<1>0. Covering /\ Files /\ TypeOK /\ DiskTypeOK
  BY DEF IInv, TypeOK
<1>u. ASSUME UNCHANGED <<journalLen, slots, djournalLen, dslots, acked>> PROVE Covering'
  BY <1>0, <1>u DEF Covering, Top, Newest, CountsWithin
(* The journal becomes durable as it is.                                   *)
<1>w. ASSUME UNCHANGED <<journalLen, slots, acked>>, djournalLen' = journalLen, dslots' = slots
      PROVE  Covering'
  BY <1>0, <1>w DEF Covering, Top, Newest, CountsWithin
<1>1. CASE PowerLoss
  <2>1. acked' = acked /\ slots' = dslots' /\ journalLen' = djournalLen'
    BY <1>1 DEF PowerLoss, LosePower, history
  <2>2. journalLen' = "full" => djournalLen = "full" /\ dslots' = dslots
    BY <1>1 DEF PowerLoss, LosePower
  <2> QED BY <1>0, <2>1, <2>2 DEF Covering, Top, Newest, CountsWithin
<1>2. CASE Recover
  <2>1. CASE MigrateJournal
    <3>1. acked' = acked /\ djournalLen' = djournalLen /\ dslots' = dslots
      BY <1>2, <2>1 DEF Recover, history, MigrateJournal, journalDurable
    <3>2. /\ dslots = NoSlots /\ acked = 0 /\ djournalLen # "full" /\ scanned >= 0
      BY <1>0, <2>1 DEF MigrateJournal, IInv, Recovering, Files, TypeOK
    <3>3. CASE journalLen' = "torn"
      BY <3>1, <3>2, <3>3 DEF Covering
    <3>4. CASE slots' = [k \in SlotIndex |-> IF k = 0 THEN FirstCheckpoint ELSE Torn]
      <4>1. slots'[0] = FirstCheckpoint /\ slots'[1] = Torn /\ 0 \in SlotIndex
        BY <3>4, TwoSlots
      <4>2. FirstCheckpoint.count = scanned /\ FirstCheckpoint \in Checkpoint
        <5>1. scanned # 0 => log[scanned] \in Record
          BY <1>0, <2>1 DEF MigrateJournal, IInv, Recovering, TypeOK
        <5> QED BY <1>0, <5>1, FormatAssumption
                DEF FirstCheckpoint, Checkpoint, TypeOK, Record, SeqNum
      <4>3. Top(slots, 0)' /\ CountsWithin(dslots, slots[0].count)'
        BY <1>0, <3>1, <3>2, <4>1, <4>2, TwoSlots
           DEF Top, Newest, CountsWithin, NoSlots, TypeOK
      <4> QED BY <3>1, <3>2, <4>1, <4>3 DEF Covering
    <3> QED BY <2>1, <3>3, <3>4 DEF MigrateJournal
  <2> QED
    BY <1>2, <1>u, <1>w, <2>1
       DEF Recover, history, RecoveryStep, Scan, ChooseCheckpoint, NothingToRecover,
           Refuse, StartMigration, SyncMigration, SyncJournalFile, diskVars,
           journalCache, journalDurable
<1>3. CASE Write
  <2>o. PICK other \in SlotIndex :
          /\ other = OtherSlot(active) /\ active \in SlotIndex /\ other # active
          /\ \A k \in SlotIndex : k = active \/ k = other
    BY <1>0, TwoSlots DEF TypeOK
  <2>1. CASE WriteCheckpoint
    <3>1. /\ djournalLen' = djournalLen /\ dslots' = dslots /\ acked' = acked
          /\ journalLen' = IF journalLen = "full" THEN "full" ELSE "torn"
      BY <2>1 DEF WriteCheckpoint, history, journalDurable
    <3>2. /\ acked <= count /\ CountsWithin(slots, count) /\ CountsWithin(dslots, count)
          /\ count \in 0 .. MaxRecords /\ acked \in 0 .. MaxRecords /\ gen \in Int
          /\ journalLen = "full" =>
               Top(slots, active) /\ CountsWithin(dslots, slots[active].count) /\ slots[active].gen = gen
      BY <1>0, <2>1 DEF WriteCheckpoint, IInv, Running, Committing, Holding, TypeOK
    <3>3. \/ slots' = [slots EXCEPT ![other] = Torn]
          \/ slots' = [slots EXCEPT ![other] = NewCheckpoint]
      BY <2>o, <2>1 DEF WriteCheckpoint
    <3>4. slots'[active] = slots[active] /\ slots'[other] \in {Torn, NewCheckpoint}
      BY <1>0, <2>o, <3>3 DEF DiskTypeOK
    <3>5. NewCheckpoint \in Checkpoint /\ NewCheckpoint.gen = gen + 1 /\ NewCheckpoint.count = count
      BY <1>0, <2>1, FormatAssumption DEF WriteCheckpoint, NewCheckpoint, Checkpoint, TypeOK
    <3>6. CASE journalLen = "full" /\ slots'[other] = Torn
      BY <1>0, <2>o, <3>1, <3>2, <3>4, <3>6 DEF Covering, Top, Newest, CountsWithin
    <3>7. CASE journalLen = "full" /\ slots'[other] = NewCheckpoint
      <4>1. Newest(slots, other)'
        BY <2>o, <3>2, <3>4, <3>5, <3>7 DEF Newest
      <4>2. CountsWithin(slots, slots[other].count)' /\ CountsWithin(dslots, slots[other].count)'
        BY <2>o, <3>1, <3>2, <3>4, <3>5, <3>7 DEF CountsWithin
      <4>3. Top(slots, other)'
        BY <3>1, <3>2, <3>5, <3>7, <4>1, <4>2 DEF Top
      <4>4. djournalLen' = "full" => \E k \in SlotIndex : Top(dslots, k)'
        BY <1>0, <3>1 DEF Covering, Top, Newest, CountsWithin
      <4> QED BY <2>o, <4>2, <4>3, <4>4 DEF Covering
    <3>8. CASE journalLen # "full"
      BY <1>0, <3>1, <3>8 DEF Covering, Files
    <3> QED BY <3>4, <3>6, <3>7, <3>8
  <2>2. CASE ResizeJournal \/ SyncJournal
    <3>1. /\ acked <= count /\ CountsWithin(slots, count) /\ CountsWithin(dslots, count)
          /\ slots[other] \in Checkpoint /\ slots[other].gen = gen + 1
          /\ slots[other].count = count /\ gen \in Int /\ count \in Int
          /\ slots[active] \in Checkpoint => slots[active].gen = gen
      BY <1>0, <2>o, <2>2 DEF ResizeJournal, SyncJournal, IInv, Running, Holding, TypeOK
    <3>2. Newest(slots, other)
      BY <2>o, <3>1 DEF Newest
    <3>3. CASE ResizeJournal
      <4>1. UNCHANGED <<slots, djournalLen, dslots, acked>>
        BY <3>3 DEF ResizeJournal, history, journalDurable
      <4> QED BY <1>0, <2>o, <3>1, <3>2, <4>1 DEF Covering, Top, Newest, CountsWithin
    <3>4. CASE SyncJournal
      <4>1. slots' = slots /\ dslots' = slots /\ acked' = count /\ djournalLen' = journalLen'
        BY <3>4 DEF SyncJournal, SyncJournalFile, journalCache
      <4> QED BY <2>o, <3>1, <3>2, <4>1 DEF Covering, Top, Newest, CountsWithin
    <3> QED BY <2>2, <3>3, <3>4
  <2>3. CASE OpenJournal
    <3>1. UNCHANGED <<slots, djournalLen, dslots, acked>> /\ (journalLen' = "full" => journalLen = "full")
      BY <2>3 DEF OpenJournal, history, journalDurable
    <3> QED BY <1>0, <3>1 DEF Covering, Top, Newest, CountsWithin
  <2> QED
    BY <1>3, <1>u, <2>1, <2>2, <2>3
       DEF Write, WriterStep, OpenLog, WriteHeader, OpenLogFails, SyncHeader,
           WriteRecord, InitializeCheckpoint, SyncDirectory, OpenFails, LoadCheckpoint,
           RejectBatch, RecordFailure, WriteFails, FinishBatch, Flush, Close, SyncLog,
           CommitFails, diskVars, journalCache, journalDurable, history
<1>4. CASE Kernel
  BY <1>4, <1>u, <1>w
     DEF Kernel, Writeback, WritebackHead, WritebackRecord, WritebackTruncate,
         WritebackJournal, WritebackEntry, journalCache, journalDurable, writerVars,
         history
<1>5. CASE \/ Start \/ AppendBatch \/ Crash \/ UNCHANGED vars
         \/ CloseKeeps \/ OpenFailsKeeps \/ Reopen
  BY <1>5, <1>u DEF Start, AppendBatch, BeginBatch, Crash, vars, diskVars, writerVars,
     history, CloseKeeps, OpenFailsKeeps, Reopen
<1> QED BY <1>1, <1>2, <1>3, <1>4, <1>5 DEF ReuseNext, Next

(* Every step of recovery establishes what the next relies on.             *)
LEMMA RecoveringStep == Hypotheses /\ IInv /\ [ReuseNext]_vars => Recovering'
<1> SUFFICES ASSUME Hypotheses, IInv, [ReuseNext]_vars PROVE Recovering'
  OBVIOUS
<1> USE SentinelAssumption
<1>0. Recovering /\ Files /\ TypeOK /\ DiskTypeOK
  BY DEF IInv, TypeOK
<1>d. ASSUME pc' \notin {"choose", "migrate", "migrateSync"} PROVE Recovering'
  BY <1>d DEF Recovering
(* The cut file has the length it was cut to.                              *)
<1>c. ASSUME NEW n \in 0 .. MaxRecords, \A i \in 1 .. n : log[i] \in Record, log' = TruncateTo(log, n),
             scanned' = n
      PROVE  HasLength(log, scanned)' /\ \A i \in 1 .. scanned' : log'[i] \in Record
  <2>1. \A i \in Position : i <= n => i \in 1 .. n
    BY FormatAssumption DEF Position
  <2>2. \A i \in 1 .. n : i \in Position /\ i <= n
    BY FormatAssumption DEF Position
  <2>3. \A i \in 1 .. n : log'[i] = log[i]
    BY <1>c, <2>2 DEF TruncateTo
  <2>4. \A i \in Position : IF i <= n THEN log'[i] = log[i] ELSE log'[i] = Absent
    BY <1>c DEF TruncateTo
  <2>5. \A i \in Position : i > n <=> ~(i <= n)
    BY FormatAssumption DEF Position
  <2> QED BY <1>c, <2>1, <2>3, <2>4, <2>5 DEF HasLength
<1>1. CASE Recover
  <2>1. CASE Scan
    <3>1. CASE logHead = "valid"
      <4>1. HasLength(log, scanned)' /\ \A i \in 1 .. scanned' : log'[i] \in Record
        BY <1>c, <2>1, <3>1 DEF Scan, ScanStopsAt, ValidPrefix, TruncateLog
      <4> QED BY <2>1, <4>1 DEF Scan, Recovering
    <3>2. CASE logHead # "valid"
      <4>1. log' = log /\ scanned' = 0 /\ pc' = "choose" /\ logHead' = logHead
        BY <2>1, <3>2 DEF Scan
      <4>2. logHead = "absent" => HasLength(log, scanned)'
        BY <1>0, <4>1, FormatAssumption DEF Files, HasLength, NoRecords, Position
      <4> QED BY <3>2, <4>1, <4>2 DEF Recovering, LogHealthy
    <3> QED BY <3>1, <3>2
  <2>2. CASE StartMigration
    BY <1>0, <2>2 DEF StartMigration, Recovering, LogHealthy, Files, diskVars
  <2>3. CASE MigrateJournal
    <3>1. CASE pc' = "migrate"
      BY <1>0, <2>3, <3>1 DEF MigrateJournal, Recovering, logCache, logDurable,
         journalDurable
    <3>2. CASE pc' = "migrateSync"
      <4>1. slots' = [k \in SlotIndex |-> IF k = 0 THEN FirstCheckpoint ELSE Torn] /\ journalLen' = "full"
        BY <2>3, <3>2 DEF MigrateJournal
      <4>2. slots'[0] = FirstCheckpoint /\ slots'[1] = Torn
        BY <4>1, TwoSlots
      <4>3. FirstCheckpoint \in Checkpoint /\ FirstCheckpoint.count = scanned
        <5>1. scanned # 0 => log[scanned] \in Record
          BY <1>0, <2>3 DEF MigrateJournal, Recovering, TypeOK
        <5> QED
          BY <1>0, <5>1, FormatAssumption DEF FirstCheckpoint, Checkpoint, TypeOK, Record,
             SeqNum
      <4> QED BY <1>0, <2>3, <3>2, <4>1, <4>2, <4>3 DEF MigrateJournal, Recovering, logCache
    <3> QED BY <2>3, <3>1, <3>2 DEF MigrateJournal
  <2> QED
    BY <1>1, <1>d, <2>1, <2>2, <2>3
       DEF Recover, RecoveryStep, ChooseCheckpoint, NothingToRecover, Refuse, SyncMigration
<1>2. CASE Write
  BY <1>2, <1>d
     DEF Write, WriterStep, Exit, OpenLog, OpenLogFails, WriteHeader, SyncHeader,
         OpenJournal, WriteRecord, InitializeCheckpoint, SyncDirectory, OpenFails,
         LoadCheckpoint, RejectBatch, WriteFails, FinishBatch, Flush, Close, SyncLog,
         WriteCheckpoint, ResizeJournal, SyncJournal, CommitFails
<1>3. CASE Kernel
  <2>1. UNCHANGED <<pc, scanned, logHead, log, journalLen, slots>>
    BY <1>3 DEF Kernel, Writeback, WritebackHead, WritebackRecord, WritebackTruncate,
     WritebackJournal, WritebackEntry, logCache, journalCache, writerVars
  <2>2. dslots' = dslots \/ dslots' = slots
    BY <1>3 DEF Kernel, Writeback, WritebackHead, WritebackRecord, WritebackTruncate,
     WritebackJournal, WritebackEntry, journalDurable
  <2> QED BY <1>0, <2>1, <2>2 DEF Recovering, LogHealthy, HasLength
<1>4. CASE \/ Start \/ AppendBatch \/ Crash \/ PowerLoss
           \/ CloseKeeps \/ OpenFailsKeeps \/ Reopen
  BY <1>4, <1>d DEF Start, AppendBatch, BeginBatch, Crash, PowerLoss, Exit, CloseKeeps,
                    OpenFailsKeeps, Reopen
<1>5. CASE UNCHANGED vars
  BY <1>0, <1>5 DEF vars, diskVars, writerVars, Recovering, LogHealthy, HasLength
<1> QED BY <1>1, <1>2, <1>3, <1>4, <1>5 DEF ReuseNext, Next

(* Every step leaves files that open() accepts, unless the writer failed.  *)
LEMMA ReopeningStep == Hypotheses /\ IInv /\ [ReuseNext]_vars => Reopening'
<1> SUFFICES ASSUME Hypotheses, IInv, [ReuseNext]_vars PROVE Reopening'
  OBVIOUS
<1> USE DEF Between, Opening, Before, RecoveryPc, Holding
<1>0. Reopening /\ Files /\ TypeOK /\ DiskTypeOK /\ Bounds /\ Numbered
  BY DEF IInv, TypeOK
<1>d. ASSUME pc' \in Before PROVE Reopening'
  BY <1>d DEF Reopening
(* The writer goes on, or stops, with its files open.                      *)
<1>p. pc \in Holding => /\ logHead = "valid"
                        /\ \A i \in 1 .. unsynced : log[i] \in Record
  <2>1. unsynced \in Int /\ count \in Int
    BY <1>0 DEF TypeOK
  <2>2. pc \in Holding => unsynced <= count /\ \A i \in 1 .. count : log[i] \in Record
    BY <1>0 DEF Bounds, IInv, Running
  <2>3. pc \in Holding => \A i \in 1 .. unsynced : i \in 1 .. count
    BY <2>1, <2>2
  <2> QED BY <1>0, <2>2, <2>3 DEF Reopening
<1>h. ASSUME pc \in Holding, pc' \in Holding, logHead' = logHead,
             journalLen' # "full" => journalLen # "full" /\ UNCHANGED <<log, count>>
      PROVE  Reopening'
  BY <1>0, <1>p, <1>h DEF Reopening
<1>f. pc \in Holding \ {"ckptWrite", "ckptResize"} => journalLen = "full"
  BY DEF IInv, Running
(* What matters to open() does not change.                                 *)
<1>s. ASSUME UNCHANGED <<pc, logHead, log, journalLen, slots, unsynced, failed, sequence,
                         count, acked>>
      PROVE  Reopening'
  BY <1>0, <1>s DEF Reopening, HasLength, Top, Newest, CountsWithin
<1>1. CASE Recover
  <2>1. /\ pc \in Before /\ count' = count /\ count = 0 /\ unsynced' = unsynced /\ unsynced = 0
        /\ acked' = acked
    BY <1>0, <1>1
       DEF Recover, RecoveryStep, Scan, ChooseCheckpoint, NothingToRecover, Refuse,
           StartMigration, MigrateJournal, SyncMigration, Bounds, writerState, history
  <2>2. ASSUME pc' = "closed",
               journalLen' = "full" =>
                 /\ logHead' = "valid"
                 /\ \E k \in SlotIndex : Top(slots, k)' /\ slots'[k].count = sequence',
               journalLen' # "full" => journalLen' \in {"absent", "empty"} /\ log' = NoRecords
        PROVE  Reopening'
    <3>1. HasLength(log, sequence)'
      BY <1>1, <2>2, RecoveredNumber DEF HasLength
    <3> QED BY <2>1, <2>2, <3>1 DEF Reopening
  <2>3. ASSUME NEW k \in SlotIndex, ChooseCheckpoint(k) PROVE Reopening'
    <3>1. Top(slots, k) /\ pc' = "closed"
      BY <2>3, ChosenIsTop DEF ChooseCheckpoint
    <3>2. sequence' = slots[k].count
      BY <1>1, <2>3, <3>1, RecoveredNumber DEF ChooseCheckpoint
    <3>3. UNCHANGED <<slots, journalLen, acked, logHead>>
      BY <2>1, <2>3 DEF ChooseCheckpoint, journalCache
    <3>4. Top(slots, k)' /\ slots'[k].count = sequence'
      BY <3>1, <3>2, <3>3 DEF Top, Newest, CountsWithin
    <3> QED BY <2>2, <2>3, <3>1, <3>3, <3>4 DEF ChooseCheckpoint
  <2>4. CASE NothingToRecover
    BY <1>0, <2>2, <2>4 DEF NothingToRecover, Files, diskVars
  <2>5. CASE SyncMigration
    <3>1. /\ slots[0] \in Checkpoint /\ slots[0].count = scanned /\ slots[1] = Torn
          /\ journalLen = "full" /\ logHead = "valid" /\ pc' = "closed"
      BY <2>5 DEF SyncMigration, IInv, Recovering
    <3>2. PICK k \in SlotIndex : Top(slots, k)
      BY <3>1 DEF IInv, Covering
    <3>3. k = 0
      BY <3>1, <3>2, TwoSlots, SlotAssumption DEF Top, Newest
    <3>4. UNCHANGED <<slots, journalLen, acked, scanned, logHead>>
      BY <2>1, <2>5 DEF SyncMigration, journalCache, logCache
    <3>5. sequence' = scanned
      BY <1>1, <3>1, <3>4, RecoveredNumber
    <3>6. Top(slots, 0)' /\ slots'[0].count = sequence'
      BY <3>1, <3>2, <3>3, <3>4, <3>5 DEF Top, Newest, CountsWithin
    <3> QED BY <2>2, <3>1, <3>4, <3>6, TwoSlots
  <2> QED
    BY <1>1, <1>d, <2>3, <2>4, <2>5
       DEF Recover, RecoveryStep, Scan, Refuse, StartMigration, MigrateJournal
<1>2. CASE AppendBatch
  BY <1>2, <1>h DEF AppendBatch, BeginBatch, diskVars
<1>3. CASE Write
  <2>1. CASE Exit
    BY <1>d, <2>1 DEF Exit
  <2>2. ASSUME pc \in Opening, pc' \in Opening,
               UNCHANGED <<log, slots, writerState, history>>,
               journalLen' = "full" <=> journalLen = "full",
               logHead' # "valid" => logHead # "valid" /\ journalLen' = journalLen,
               pc' = "header" => logHead' \in {"empty", "torn"},
               pc' \in {"headerSync", "openJournal", "load"} => logHead' = "valid",
               pc' = "load" => journalLen' # "absent"
        PROVE  Reopening'
    <3>1. UNCHANGED <<unsynced, failed, count, acked, sequence>>
      BY <1>3, <2>2 DEF Write, writerState, history
    <3> QED BY <1>0, <2>2, <3>1 DEF Reopening, HasLength, Top, Newest, CountsWithin
  <2>3. CASE OpenLog
    BY <1>0, <2>2, <2>3 DEF OpenLog, DiskTypeOK, HeadState, journalCache
  <2>4. CASE WriteHeader
    BY <1>0, <2>2, <2>4 DEF WriteHeader, Reopening, journalCache
  <2>5. CASE SyncHeader
    BY <1>0, <2>2, <2>5 DEF SyncHeader, Reopening, logCache, journalCache
  <2>6. CASE OpenJournal
    BY <1>0, <2>2, <2>6 DEF OpenJournal, Reopening, logCache
  <2>7. CASE InitializeCheckpoint
    <3>1. count' \in Nat /\ HasLength(log, count')
      BY <2>7, FormatAssumption DEF InitializeCheckpoint
    <3>2. count' = 0 /\ log = NoRecords
      BY <2>7, <3>1, InitializedEmpty DEF InitializeCheckpoint
    <3>3. logHead' = "valid" /\ pc' = "ckptWrite" /\ log' = log
      BY <1>0, <2>7 DEF InitializeCheckpoint, Reopening, diskVars
    <3> QED BY <3>2, <3>3 DEF Reopening
  <2>8. ASSUME NEW k \in SlotIndex, LoadCheckpoint(k) PROVE Reopening'
    <3>1. logHead' = "valid" /\ pc' \in {"dirSync", "ready"} /\ journalLen' = "full"
      BY <1>0, <2>8 DEF LoadCheckpoint, Reopening, diskVars
    <3> QED BY <3>1 DEF Reopening
  <2>9. CASE SyncDirectory
    BY <1>h, <2>9 DEF SyncDirectory, logCache, journalCache, writerState
  <2>10. CASE RejectBatch \/ WriteFails \/ Flush
    BY <1>h, <2>10 DEF RejectBatch, RecordFailure, WriteFails, Flush, diskVars, writerState
  <2>11. CASE WriteRecord \/ FinishBatch
    BY <1>f, <1>h, <2>11 DEF WriteRecord, FinishBatch, journalCache, diskVars
  <2>12. CASE Close
    BY <1>h, <2>1, <2>12 DEF Close, diskVars, writerState
  <2>13. CASE SyncLog \/ WriteCheckpoint \/ ResizeJournal
    BY <1>h, <2>13 DEF SyncLog, WriteCheckpoint, ResizeJournal, logCache, journalCache,
       writerState
  <2>14. CASE SyncJournal
    <3>1. CASE pc' \in {"dirSync", "ready"}
      BY <1>f, <1>h, <2>14, <3>1 DEF SyncJournal, logCache, journalCache
    <3> QED BY <2>1, <2>14, <3>1 DEF SyncJournal
  <2>15. CASE CommitFails
    BY <1>h, <2>1, <2>15 DEF CommitFails, RecordFailure, diskVars
  <2>16. CASE OpenLogFails \/ OpenFails
    BY <2>1, <2>16 DEF OpenLogFails, OpenFails
  <2> QED
    BY <1>3, <2>3, <2>4, <2>5, <2>6, <2>7, <2>8, <2>9, <2>10, <2>11, <2>12, <2>13, <2>14,
       <2>15, <2>16 DEF Write, WriterStep
<1>4. CASE CloseKeeps
  <2>1. /\ pc = "ready" /\ pc' = "idle" /\ (unsynced = 0 \/ failed)
        /\ UNCHANGED <<logHead, log, journalLen, slots, unsynced, failed, sequence, count, acked>>
    BY <1>4 DEF CloseKeeps, diskVars, writerState, history
  <2>2. ~failed => sequence = count
    BY <1>0, <2>1 DEF Numbered
  <2>3. ~failed => HasLength(log, sequence)
    BY <2>1, <2>2 DEF IInv, Running
  <2>4. ~failed /\ journalLen = "full" =>
          \E k \in SlotIndex : Top(slots, k) /\ slots[k].count = sequence
    BY <1>0, <2>1, <2>2 DEF IInv, Running, TypeOK
  <2> QED
    BY <1>0, <1>p, <2>1, <2>3, <2>4 DEF Reopening, HasLength, Top, Newest, CountsWithin
<1>5. CASE OpenFailsKeeps
  <2>1. /\ pc \in Opening \/ pc \in Holding
        /\ pc' = "idle" /\ failed'
        /\ UNCHANGED <<logHead, log, journalLen, unsynced, count>>
    BY <1>5 DEF OpenFailsKeeps, diskVars
  <2> QED BY <1>0, <1>p, <2>1 DEF Reopening
<1>6. CASE Reopen
  <2>1. /\ pc = "idle" /\ pc' = "closed"
        /\ UNCHANGED <<logHead, log, journalLen, slots, unsynced, failed, sequence, count, acked>>
    BY <1>6 DEF Reopen, diskVars, writerState
  <2> QED BY <1>0, <2>1 DEF Reopening, HasLength, Top, Newest, CountsWithin
<1>7. CASE Start \/ Crash \/ PowerLoss
  BY <1>7, <1>d DEF Start, Crash, PowerLoss, Exit
<1>8. CASE Kernel \/ UNCHANGED vars
  BY <1>8, <1>s
     DEF Kernel, Writeback, WritebackHead, WritebackRecord, WritebackTruncate,
         WritebackJournal, WritebackEntry, logCache, journalCache, writerVars,
         writerState, history, vars, diskVars
<1> QED BY <1>1, <1>2, <1>3, <1>4, <1>5, <1>6, <1>7, <1>8 DEF ReuseNext, Next

(* The members of the writer agree with the files while it runs.           *)
LEMMA RunningStep == Hypotheses /\ IInv /\ [ReuseNext]_vars => Running'
<1> SUFFICES ASSUME Hypotheses, IInv, [ReuseNext]_vars PROVE Running'
  OBVIOUS
<1> USE SentinelAssumption, SlotAssumption, FormatAssumption DEF Holding, Committing
<1>0. Running /\ Files /\ TypeOK /\ DiskTypeOK
  BY DEF IInv, TypeOK
<1>d. ASSUME pc' \notin Holding PROVE Running'
  BY <1>d DEF Running
<1>c. count \in Int /\ acked \in Int /\ \A k \in SlotIndex : slots[k] \in Checkpoint => slots[k].count \in Int
  BY <1>0 DEF TypeOK, Checkpoint
<1>l. LogSafe => LogSafe'
  BY LogSafeStays
<1>v. pc \in Holding => logHead = "valid"
  BY DEF IInv, Reopening
(* The files, and what the writer knows of them, stay as they are.         *)
<1>s. ASSUME UNCHANGED <<log, journalLen, slots, count, gen, active, acked>>,
             UNCHANGED dlog \/ SyncLogFile, dslots' = dslots
      PROVE  /\ Durable(count) => Durable(count)'
             /\ HasLength(log, count) => HasLength(log, count)'
             /\ Top(slots, active) => Top(slots, active)'
             /\ CountsWithin(slots, count) => CountsWithin(slots, count)'
             /\ CountsWithin(dslots, count) => CountsWithin(dslots, count)'
             /\ CountsWithin(dslots, slots[active].count) => CountsWithin(dslots, slots[active].count)'
  BY <1>s DEF Durable, HasLength, SyncLogFile, Top, Newest, CountsWithin
<1>1. CASE \/ Start \/ Recover \/ Crash \/ PowerLoss
         \/ CloseKeeps \/ OpenFailsKeeps \/ Reopen
  BY <1>1, <1>d DEF Start, Recover, RecoveryStep, Scan, ChooseCheckpoint, NothingToRecover,
      Refuse, StartMigration, MigrateJournal, SyncMigration, Crash, PowerLoss, Exit,
      CloseKeeps, OpenFailsKeeps, Reopen
<1>2. CASE AppendBatch
  <2>1. /\ pc = "ready" /\ pc' = "writing" /\ written' = 0
        /\ UNCHANGED <<diskVars, count, gen, active, failed, acked>>
    BY <1>2 DEF AppendBatch, BeginBatch, history
  <2>2. ~failed => HasLength(log, count + written)'
    <3>1. count' + written' = count
      BY <1>c, <2>1
    <3> QED BY <1>0, <2>1, <3>1 DEF Running, HasLength, diskVars
  <2>3. \A i \in 1 .. count' + written' : log'[i] \in Record
    BY <1>0, <1>c, <2>1 DEF Running, diskVars
  <2> QED BY <1>0, <1>c, <1>s, <2>1, <2>2, <2>3 DEF Running, diskVars
<1>3. CASE Write
  <2>1. CASE OpenLog \/ OpenLogFails \/ WriteHeader \/ SyncHeader \/ OpenJournal \/ OpenFails
    BY <1>d, <2>1 DEF OpenLog, OpenLogFails, WriteHeader, SyncHeader, OpenJournal,
       OpenFails, Exit
  <2>2. CASE InitializeCheckpoint
    <3>1. HasLength(log, count') /\ count' \in Nat
      BY <2>2 DEF InitializeCheckpoint
    <3>2. count' = 0
      BY <2>2, <3>1, InitializedEmpty DEF InitializeCheckpoint
    <3>3. acked = 0 /\ slots = NoSlots /\ dslots = NoSlots
      BY <1>0, <2>2 DEF InitializeCheckpoint, Files
    <3>4. /\ gen' = 0 /\ active' = 1 /\ pc' = "ckptWrite" /\ caller' = "open"
          /\ UNCHANGED <<diskVars, failed, acked>> /\ journalLen = "empty"
      BY <2>2 DEF InitializeCheckpoint, history
    <3>5. HasLength(log, count)'
      BY <3>1, <3>4 DEF diskVars, HasLength
    <3> QED
      BY <3>2, <3>3, <3>4, <3>5, TwoSlots DEF Running, diskVars, NoSlots, CountsWithin,
         Durable
  <2>3. ASSUME NEW k \in SlotIndex, LoadCheckpoint(k) PROVE Running'
    <3>1. /\ Top(slots, k) /\ CountsWithin(dslots, slots[k].count)
          /\ HasLength(log, slots[k].count) /\ slots[k] \in Checkpoint
      BY <2>3, LoadedIsTop
    <3>2. /\ active' = k /\ gen' = slots[k].gen /\ count' = slots[k].count
          /\ pc' \in {"dirSync", "ready"} /\ journalLen = "full"
          /\ UNCHANGED <<diskVars, acked>>
      BY <2>3 DEF LoadCheckpoint, history
    <3>3. \A i \in 1 .. slots[k].count : log[i] \in Record
      BY <3>1 DEF IInv, Covered, SlotSound, Durable
    <3>4. UNCHANGED <<log, journalLen, slots, dslots>>
      BY <3>2 DEF diskVars
    <3>5. HasLength(log, count)'
      BY <3>1, <3>2, <3>4 DEF HasLength
    <3> QED BY <3>1, <3>2, <3>3, <3>4, <3>5 DEF Running, Top, Newest, CountsWithin
  <2>4. CASE SyncDirectory \/ Flush \/ RejectBatch \/ WriteFails
    <3>1. /\ UNCHANGED <<log, journalLen, slots, dslots, dlog, count, gen, active, acked,
                         unsynced>>
          /\ \/ failed' = TRUE /\ pc' = "ready" /\ pc \in {"ready", "writing"}
             \/ failed' = failed /\ pc' = "ready" /\ pc \in {"ready", "dirSync"}
             \/ failed' = failed /\ ~failed /\ pc = "ready"
                /\ pc' = "logSync" /\ caller' = "flush"
      BY <2>4
         DEF SyncDirectory, Flush, RejectBatch, RecordFailure, WriteFails, diskVars,
             logCache, logDurable, journalCache, journalDurable, writerState, history
    <3> QED BY <1>0, <1>s, <3>1 DEF Running
  <2>5. CASE Close
    <3>1. CASE Exit
      BY <1>d, <3>1 DEF Exit
    <3>2. CASE ~Exit
      <4>1. /\ UNCHANGED <<log, journalLen, slots, dslots, dlog, count, gen, active, acked, failed>>
            /\ pc = "ready" /\ pc' = "logSync" /\ ~failed /\ caller' = "close"
        BY <2>5, <3>2 DEF Close, diskVars, writerState, history
      <4> QED BY <1>0, <1>s, <4>1 DEF Running
    <3> QED BY <3>1, <3>2
  <2>6. CASE WriteRecord
    <3>1. /\ pc = "writing" /\ pc' = "writing" /\ written \in Nat
          /\ UNCHANGED <<journalLen, slots, dslots, count, gen, active, acked, failed>>
      BY <1>0, <2>6 DEF WriteRecord, journalCache, journalDurable, history, TypeOK
    <3>2. \A i \in Position : i <= count + written => log'[i] = log[i]
      BY <1>0, <1>c, <2>6, <3>1 DEF WriteRecord, DiskTypeOK
    <3>3. \A i \in 1 .. count + written : i \in Position /\ log'[i] \in Record
      <4>1. count + written <= MaxRecords
        BY <1>0, <2>6, OptionsAssumption DEF WriteRecord, IInv, Bounds, TypeOK, Batch
      <4> QED BY <1>0, <1>c, <3>1, <3>2, <4>1 DEF Running, Position
    <3>4. \A i \in 1 .. count + written' : log'[i] \in Record
      <4>1. CASE written' = written
        BY <3>3, <4>1
      <4>2. CASE log' = [log EXCEPT ![count + written + 1] =
                           [seq |-> BatchSeq(written), session |-> session]]
                 /\ written' = written + 1
        <5>1. written \in 0 .. batch.size - 1
          BY <1>0, <2>6, <3>1 DEF WriteRecord, TypeOK, Batch
        <5>2. count + written + 1 \in Position /\ BatchSeq(written) \in SeqNum
          <6>1. BatchSeq(written) = count + 1 + written /\ count + 1 + written \in Position
            BY <3>1, <5>1, BatchNumbers
          <6> QED BY <1>c, <3>1, <6>1 DEF Hypotheses, Position, SeqNum
        <5>3. session \in Session
          BY <1>0, <3>1 DEF IInv, Bounds, TypeOK, Session
        <5>4. log'[count + written + 1] \in Record
          BY <1>0, <4>2, <5>2, <5>3 DEF DiskTypeOK, Record
        <5>5. \A i \in 1 .. count + written' : i = count + written + 1 \/ i \in 1 .. count + written
          BY <1>c, <3>1, <4>2
        <5> QED BY <3>3, <5>4, <5>5
      <4> QED BY <2>6, <4>1, <4>2 DEF WriteRecord
    <3>5. \A i \in 1 .. count : log'[i] \in Record
      BY <1>c, <3>1, <3>3
    <3>6. ~failed => HasLength(log', count + written + 1)
      <4>1. /\ written < batch.size /\ count + written + 1 \in Position
            /\ batch.size \in Int
        BY <1>0, <1>c, <2>6, <3>1, OptionsAssumption
           DEF WriteRecord, IInv, Bounds, TypeOK, Batch, Position
      <4>2. /\ log'[count + written + 1] # Absent
            /\ \A i \in Position : i # count + written + 1 => log'[i] = log[i]
        <5>1. \E cell \in Record \cup {Torn} : log' = [log EXCEPT ![count + written + 1] = cell]
          <6>1. CASE written' = written
            BY <2>6, <3>1, <6>1 DEF WriteRecord
          <6>2. CASE written' = written + 1
            <7>1. log'[count + written + 1] \in Record
              <8>1. count + written + 1 \in 1 .. count + written'
                BY <1>c, <3>1, <4>1, <6>2 DEF Position
              <8> QED BY <3>4, <8>1
            <7>2. PICK cell : log' = [log EXCEPT ![count + written + 1] = cell]
              BY <2>6 DEF WriteRecord
            <7> QED BY <1>0, <4>1, <7>1, <7>2 DEF DiskTypeOK
          <6> QED BY <2>6, <6>1, <6>2 DEF WriteRecord
        <5> QED BY <1>0, <4>1, <5>1 DEF DiskTypeOK
      <4>3. ~failed => HasLength(log, count + written) \/ HasLength(log, count + written + 1)
        BY <1>0, <3>1 DEF Running
      <4> QED BY <1>c, <3>1, <4>1, <4>2, <4>3 DEF HasLength, Position
    <3>7. ~failed' => \/ HasLength(log, count + written)'
                      \/ written' < batch'.size /\ HasLength(log, count + written + 1)'
      <4>1. CASE written' = written
        <5>1. written' < batch'.size /\ count' + written' + 1 = count + written + 1
          BY <2>6, <3>1, <4>1 DEF WriteRecord
        <5> QED BY <3>1, <3>6, <5>1 DEF HasLength
      <4>2. CASE written' = written + 1
        <5>1. count' + written' = count + written + 1
          BY <1>c, <3>1, <4>2
        <5> QED BY <3>1, <3>6, <5>1 DEF HasLength
      <4> QED BY <2>6, <4>1, <4>2 DEF WriteRecord
    <3> QED BY <1>0, <3>1, <3>4, <3>5, <3>7 DEF Running, Top, Newest, CountsWithin
  <2>7. CASE FinishBatch
    <3>1. /\ pc = "writing" /\ batch.size \in Nat /\ batch.size >= 1 /\ written = batch.size
          /\ count' = count + batch.size /\ unsynced' # 0
          /\ UNCHANGED <<diskVars, gen, active, acked>>
          /\ \/ pc' = "ready" /\ (failed' = failed \/ failed' = TRUE)
             \/ pc' = "logSync" /\ failed' = failed /\ ~failed /\ caller' = "append"
      BY <1>0, <2>7 DEF FinishBatch, history, IInv, Bounds, TypeOK, Batch
    <3>2. UNCHANGED <<log, journalLen, slots, dslots>>
      BY <3>1 DEF diskVars
    <3>3. \A i \in 1 .. count' : log'[i] \in Record
      BY <1>0, <3>1, <3>2 DEF Running
    <3>4. acked' <= count' /\ CountsWithin(slots, count)' /\ CountsWithin(dslots, count)'
      <4>1. \A n \in Int : n <= count => n <= count'
        BY <1>c, <3>1
      <4>2. \A k \in SlotIndex : dslots[k] \in Checkpoint => dslots[k].count \in Int
        BY DEF Checkpoint
      <4> QED BY <1>0, <1>c, <3>1, <3>2, <4>1, <4>2 DEF Running, CountsWithin
    <3>5. ~failed => HasLength(log, count)'
      <4>1. ~failed => HasLength(log, count + written)
        BY <1>0, <3>1 DEF Running
      <4> QED BY <3>1, <3>2, <4>1 DEF HasLength
    <3> QED BY <1>0, <3>1, <3>2, <3>3, <3>4, <3>5 DEF Running, Top, Newest, CountsWithin
  <2>8. CASE SyncLog
    <3>1. /\ UNCHANGED <<log, journalLen, slots, dslots, count, gen, active, acked, failed,
                         caller>>
          /\ dlog' = log /\ SyncLogFile /\ pc = "logSync" /\ pc' = "ckptWrite"
      BY <2>8 DEF SyncLog, SyncLogFile, logCache, journalCache, journalDurable,
         writerState, history
    <3>2. Durable(count)'
      BY <1>0, <3>1 DEF Running, Durable
    <3>3. LogSafe'
      BY <1>v, <3>1 DEF SyncLogFile, SyncEntry, LogSafe, Hypotheses
    <3> QED BY <1>0, <1>s, <3>1, <3>2, <3>3 DEF Running
  <2>9. CASE WriteCheckpoint
    <3>1. PICK other \in SlotIndex : other = OtherSlot(active) /\ other # active /\ active \in SlotIndex
                                     /\ (active = 1 => other = 0)
      BY <1>0, TwoSlots DEF TypeOK
    <3>2. /\ pc = "ckptWrite" /\ journalLen' = (IF journalLen = "full" THEN "full" ELSE "torn")
          /\ UNCHANGED <<log, dlog, dslots, count, gen, active, acked, failed, lastSeq, caller>>
          /\ \/ slots' = [slots EXCEPT ![other] = Torn] /\ pc' = "ckptWrite"
             \/ slots' = [slots EXCEPT ![other] = NewCheckpoint] /\ pc' = "ckptResize"
      BY <2>9, <3>1 DEF WriteCheckpoint, logCache, logDurable, journalDurable, writerState,
         history
    <3>3. \A k \in SlotIndex : k = active \/ k = other
      BY <3>1, TwoSlots
    <3>4. slots'[active] = slots[active]
      BY <1>0, <3>1, <3>2 DEF DiskTypeOK
    <3>5. NewCheckpoint \in Checkpoint /\ NewCheckpoint.gen = gen + 1 /\ NewCheckpoint.count = count
      BY <1>0, <2>9 DEF WriteCheckpoint, NewCheckpoint, Checkpoint, TypeOK
    <3>6. Durable(count)' /\ \A i \in 1 .. count' : log'[i] \in Record
      BY <1>0, <3>2 DEF Running, Durable
    <3>7. slots'[other] \in {Torn, NewCheckpoint}
      BY <1>0, <3>1, <3>2 DEF DiskTypeOK
    <3>8. acked' <= count' /\ CountsWithin(slots, count)' /\ CountsWithin(dslots, count)'
      BY <1>0, <1>c, <3>2, <3>3, <3>4, <3>5, <3>7 DEF Running, CountsWithin
    <3>9. journalLen' # "absent" /\ (journalLen' # "full" =>
            caller' = "open" /\ count' = 0 /\ gen' = 0 /\ active' = 1 /\ slots'[1] = Torn)
      BY <1>0, <3>2, <3>4 DEF Running
    <3>l. /\ ~failed => HasLength(log, count)'
          /\ caller' = "open" => count' = 0
          /\ caller' # "open" => ~failed' /\ LogSafe'
      BY <1>0, <1>l, <3>2 DEF Running, HasLength
    <3>10. CASE pc' = "ckptWrite"
      <4>1. slots'[other] = Torn
        BY <1>0, <3>1, <3>2, <3>10 DEF DiskTypeOK
      <4>2. journalLen' = "full" =>
               /\ Top(slots, active) /\ CountsWithin(dslots, slots[active].count)
               /\ slots[active].gen = gen
        BY <1>0, <2>9, <3>2 DEF Running
      <4>3. journalLen' = "full" =>
               /\ Top(slots, active)' /\ CountsWithin(dslots, slots[active].count)'
               /\ slots'[active].gen = gen'
        BY <3>2, <3>3, <3>4, <4>1, <4>2 DEF Top, Newest, CountsWithin
      <4>4. caller' = "open" => journalLen' # "full"
        BY <1>0, <3>2 DEF Running
      <4> QED BY <3>2, <3>6, <3>8, <3>9, <3>l, <3>10, <4>3, <4>4 DEF Running
    <3>11. CASE pc' = "ckptResize"
      <4>1. slots'[other] = NewCheckpoint /\ other = OtherSlot(active)'
        BY <1>0, <3>1, <3>2, <3>11 DEF DiskTypeOK
      <4>2. slots'[active] \in Checkpoint => slots'[active].gen = gen
        BY <1>0, <3>2, <3>4 DEF Running
      <4> QED BY <3>2, <3>5, <3>6, <3>8, <3>9, <3>l, <3>11, <4>1, <4>2 DEF Running
    <3> QED BY <3>2, <3>10, <3>11
  <2>10. CASE ResizeJournal
    <3>1. /\ UNCHANGED <<log, dlog, slots, dslots, count, gen, active, acked, failed, caller>>
          /\ journalLen' = "full" /\ pc = "ckptResize" /\ pc' = "ckptSync"
      BY <2>10 DEF ResizeJournal, logCache, logDurable, journalDurable, writerState, history
    <3> QED BY <1>0, <1>l, <3>1 DEF Running, CountsWithin, Durable, HasLength, OtherSlot
  <2>11. CASE SyncJournal
    <3>1. CASE Exit
      BY <1>d, <3>1 DEF Exit
    <3>2. CASE ~Exit
      <4>1. /\ UNCHANGED <<log, journalLen, slots, count, failed>>
            /\ dslots' = slots /\ acked' = count /\ gen' = gen + 1 /\ active' = OtherSlot(active)
            /\ pc = "ckptSync" /\ pc' \in {"dirSync", "ready"}
        BY <2>11, <3>2 DEF SyncJournal, SyncJournalFile, logCache, journalCache
      <4>2. PICK other \in SlotIndex : other = OtherSlot(active) /\ other # active
                                       /\ \A k \in SlotIndex : k = active \/ k = other
        BY <1>0, TwoSlots DEF TypeOK
      <4>3. /\ slots[other] \in Checkpoint /\ slots[other].gen = gen + 1 /\ slots[other].count = count
            /\ slots[active] \in Checkpoint => slots[active].gen = gen
            /\ CountsWithin(slots, count) /\ gen \in Int /\ journalLen = "full"
            /\ \A i \in 1 .. count : log[i] \in Record
            /\ ~failed => HasLength(log, count)
        BY <1>0, <4>1, <4>2 DEF Running, TypeOK
      <4>4. active' = other
        BY <4>1, <4>2
      <4>5. Top(slots, active)'
        BY <1>c, <4>1, <4>2, <4>3, <4>4 DEF Top, Newest, CountsWithin
      <4>6. ~failed => HasLength(log, count)'
        BY <4>1, <4>3 DEF HasLength
      <4> QED BY <1>c, <4>1, <4>3, <4>4, <4>5, <4>6 DEF Running, CountsWithin
    <3> QED BY <3>1, <3>2
  <2>12. CASE CommitFails
    <3>1. CASE Exit
      BY <1>d, <3>1 DEF Exit
    <3>2. CASE ~Exit
      <4>1. /\ UNCHANGED <<log, journalLen, slots, dslots, count, acked, gen, active>>
            /\ failed' = TRUE /\ pc' = "ready" /\ pc \in Holding /\ caller # "open"
        BY <2>12, <3>2 DEF CommitFails, RecordFailure, diskVars, history
      <4>2. journalLen = "full"
        BY <1>0, <2>12, <4>1 DEF CommitFails, Running
      <4> QED BY <1>0, <4>1, <4>2 DEF Running, CountsWithin
    <3> QED BY <3>1, <3>2
  <2> QED BY <1>3, <2>1, <2>2, <2>3, <2>4, <2>5, <2>6, <2>7, <2>8, <2>9, <2>10, <2>11, <2>12
          DEF Write, WriterStep
<1>4. CASE Kernel
  <2>1. UNCHANGED <<pc, caller, batch, written, count, unsynced, acked, gen, active, failed,
                    log, journalLen, slots>>
    BY <1>4
       DEF Kernel, Writeback, WritebackHead, WritebackRecord, WritebackTruncate,
           WritebackJournal, WritebackEntry, logCache, journalCache, writerVars,
           writerState, history
  <2>2. dslots' = dslots \/ dslots' = slots
    BY <1>4 DEF Kernel, Writeback, WritebackHead, WritebackRecord, WritebackTruncate,
     WritebackJournal, WritebackEntry, journalDurable
  <2>3. Durable(count) => Durable(count)'
    <3>1. \A i \in Position : log[i] \in Record /\ dlog[i] = log[i] => dlog'[i] = log[i]
      BY <1>0, <1>4, KernelCells DEF Kernel, DiskTypeOK
    <3>2. \A i \in 1 .. count : i \in Position
      BY <1>0 DEF TypeOK, Position
    <3> QED BY <2>1, <3>1, <3>2 DEF Durable
  <2>4. HasLength(log, count) => HasLength(log, count)'
    BY <2>1 DEF HasLength
  <2>5. pc = "writing" /\ ~failed =>
          \/ HasLength(log, count + written)'
          \/ written' < batch'.size /\ HasLength(log, count + written + 1)'
    BY <1>0, <2>1 DEF Running, HasLength
  <2> QED
    BY <1>0, <1>l, <2>1, <2>2, <2>3, <2>4, <2>5 DEF Running, Top, Newest, CountsWithin,
       OtherSlot
<1>5. CASE UNCHANGED vars
  BY <1>0, <1>5, <1>l, <1>s DEF vars, diskVars, writerVars, writerState, history, Running,
     HasLength, OtherSlot
<1> QED BY <1>1, <1>2, <1>3, <1>4, <1>5 DEF ReuseNext, Next

-----------------------------------------------------------------------------
(* The invariant and what follows from it                                  *)

(* Two absent files satisfy the invariant.                                 *)
LEMMA InitInv == Init => IInv
<1> SUFFICES ASSUME Init PROVE IInv
  OBVIOUS
<1> USE FormatAssumption, SentinelAssumption, SlotAssumption DEF Init, DiskInit
<1>1. \A i \in Position : NoRecords[i] = Absent
  BY DEF NoRecords
<1>2. \A k \in SlotIndex : NoSlots[k] = Torn
  BY DEF NoSlots
<1>3. TypeOK
  <2>1. DiskTypeOK
    BY DEF DiskTypeOK, HeadState, JournalState, File, NoRecords, NoSlots, Cell, Slot
  <2>2. created \in BOOLEAN /\ failed \in BOOLEAN
    BY Zenon
  <2> QED
    BY <2>1, <2>2, OptionsAssumption DEF TypeOK, Pc, Caller, Batch, NoBatch, SeqNum,
       SlotIndex
<1>4. Bounds
  BY DEF Bounds, Holding
<1>5. Numbered
  BY <1>1 DEF Numbered, InOrder, Holding, Opening
<1>6. Covered /\ Covering /\ Files
  BY <1>1, <1>2 DEF Covered, SlotSound, Durable, Covering, Files, Grounded
<1>7. Recovering /\ Reopening /\ Running
  BY DEF Recovering, LogHealthy, Reopening, Between, Opening, Before, Running, Committing,
         Holding
<1> QED BY <1>3, <1>4, <1>5, <1>6, <1>7 DEF IInv

(* Every step of the program, the kernel or a failure keeps the invariant. *)
LEMMA StoreStep == ASSUME Hypotheses PROVE IInv /\ [ReuseNext]_vars => IInv'
BY TypeStep, BoundsStep, NumberedStep, CoveredStep, FilesStep, CoveringStep,
   RecoveringStep, ReopeningStep, RunningStep DEF IInv

(* IInv holds in every reachable state.                                    *)
THEOREM Invariance == ASSUME Hypotheses PROVE ReuseSpec => []IInv
<1> QED BY InitInv, StoreStep, PTL DEF ReuseSpec

(* A program that leaves after each use of its writer is one that may use  *)
(* it again.                                                               *)
LEMMA EndingIsReuse == Spec => ReuseSpec
<1>1. [Next]_vars => [ReuseNext]_vars
  BY DEF ReuseNext
<1> QED BY <1>1, PTL DEF Spec, ReuseSpec

(* Every variable of the store keeps its type: no generation, count or     *)
(* sequence leaves its range.                                              *)
THEOREM Typing == ASSUME Hypotheses PROVE ReuseSpec => []TypeOK
<1>1. IInv => TypeOK
  BY DEF IInv
<1> QED BY Invariance, <1>1, PTL

(* Write-ahead order: no checkpoint, cached or durable, ever claims a      *)
(* record that is not valid and on stable storage.                         *)
THEOREM WriteAhead == ASSUME Hypotheses PROVE ReuseSpec => []CheckpointsCovered
<1>1. IInv => CheckpointsCovered
  <2> SUFFICES ASSUME IInv, NEW slot, SlotSound(slot) PROVE SlotCovered(slot)
    BY DEF IInv, Covered, CheckpointsCovered
  <2> SUFFICES ASSUME slot \in Checkpoint PROVE SlotCovered(slot)
    BY DEF SlotCovered
  <2>1. Durable(slot.count) /\ slot.last = slot.count /\ slot.count \in 0 .. MaxRecords
    BY DEF SlotSound, Checkpoint
  <2>2. \A i \in 1 .. slot.count : log[i] \in Record /\ log[i].seq = i
    BY <2>1, FormatAssumption DEF Durable, IInv, Numbered, InOrder, Position
  <2>3. ASSUME NEW i \in 2 .. slot.count PROVE Follows(log[i].seq, log[i - 1].seq)
    <3>1. i \in Int /\ i <= MaxRecords /\ i \in 1 .. slot.count /\ i - 1 \in 1 .. slot.count
      BY <2>1, FormatAssumption
    <3>2. log[i].seq = i /\ log[i - 1].seq = i - 1
      BY <2>2, <3>1
    <3>3. i - 1 # SeqModulus - 1 /\ i = (i - 1) + 1
      BY <3>1, FormatAssumption DEF Hypotheses
    <3> QED BY <3>2, <3>3 DEF Follows
  <2>4. slot.count # 0 => log[slot.count].seq = slot.count
    BY <2>1, <2>2
  <2> QED BY <2>1, <2>2, <2>3, <2>4 DEF SlotCovered, ValidPrefix, Durable
<1> QED BY Invariance, <1>1, PTL

(* An acknowledged record is whole and on stable storage, while the        *)
(* program runs and after every crash, power loss and recovery.            *)
THEOREM Durability == ASSUME Hypotheses PROVE ReuseSpec => []AcknowledgedDurable
<1>1. IInv => AcknowledgedDurable
  BY DEF IInv, Covered, Durable, AcknowledgedDurable
<1> QED BY Invariance, <1>1, PTL

(* No step of any process, of recovery, of the kernel or of a power loss   *)
(* changes an acknowledged record or takes an acknowledgement back.        *)
THEOREM Permanence == ASSUME Hypotheses PROVE ReuseSpec => AcknowledgedForever
<1>1. IInv /\ [ReuseNext]_vars =>
        acked' >= acked /\ \A i \in 1 .. acked : log'[i] = log[i]
  <2> SUFFICES ASSUME IInv, [ReuseNext]_vars
               PROVE  acked' >= acked /\ \A i \in 1 .. acked : log'[i] = log[i]
    OBVIOUS
  <2>0. acked \in 0 .. MaxRecords
    BY DEF IInv, TypeOK
  <2>1. \A i \in 1 .. acked : log'[i] = log[i]
    BY <2>0, PromisesKept, PowerLossKeeps DEF Promised
  <2>2. acked' = acked \/ (pc = "ckptSync" /\ acked' = count)
    BY
       DEF ReuseNext, CloseKeeps, OpenFailsKeeps, Reopen, Next, Start, Recover, AppendBatch, BeginBatch, Write, WriterStep, OpenLog,
           OpenLogFails, WriteHeader, SyncHeader, OpenJournal, InitializeCheckpoint,
           SyncDirectory, OpenFails, LoadCheckpoint, RejectBatch, RecordFailure,
           WriteRecord, WriteFails, FinishBatch, Flush, Close, SyncLog, WriteCheckpoint,
           ResizeJournal, SyncJournal, CommitFails, Crash, PowerLoss, Kernel, history,
           writerVars, vars
  <2>3. pc = "ckptSync" => acked <= count
    BY DEF IInv, Running, Holding
  <2> QED BY <2>0, <2>1, <2>2, <2>3
<1> QED BY Invariance, <1>1, PTL DEF ReuseSpec, AcknowledgedForever

(* Whatever recovery hands over with a full journal, open() accepts: the   *)
(* newest slot covers exactly the file that recovery left.                 *)
THEOREM RecoveryAgrees == ASSUME Hypotheses PROVE ReuseSpec => []RecoveredLogOpens
<1>1. IInv => RecoveredLogOpens
  <2> SUFFICES ASSUME IInv, pc \in {"closed", "openJournal", "load"}, journalLen = "full",
                      ~failed
               PROVE  \E k \in SlotIndex : Newest(slots, k) /\ OpensWith(k)
    BY DEF RecoveredLogOpens
  <2>1. HasLength(log, sequence) /\ \E k \in SlotIndex : Top(slots, k) /\ slots[k].count = sequence
    BY DEF IInv, Reopening, Between, Opening
  <2> QED BY <2>1 DEF Top, Newest, OpensWith
<1> QED BY Invariance, <1>1, PTL

(* A writer that failed acknowledges nothing more, however often open() is *)
(* called again: without a commit behind it, all it can commit is the      *)
(* empty log of a first open().                                            *)
THEOREM FailureIsFinal == ASSUME Hypotheses PROVE ReuseSpec => FailedAcknowledgesNothing
<1>1. IInv /\ [ReuseNext]_vars => (failed => acked' = acked)
  <2> SUFFICES ASSUME IInv, [ReuseNext]_vars, failed PROVE acked' = acked
    OBVIOUS
  <2>1. CASE SyncJournal
    <3>1. acked' = count /\ pc = "ckptSync"
      BY <2>1 DEF SyncJournal
    <3>2. count = 0 /\ acked <= count
      BY <3>1 DEF IInv, Running, Holding, Committing
    <3> QED BY <3>1, <3>2 DEF IInv, TypeOK
  <2>2. CASE ~SyncJournal
    BY <2>2
       DEF ReuseNext, CloseKeeps, OpenFailsKeeps, Reopen, Next, Start, Recover,
           AppendBatch, BeginBatch, Write, WriterStep, OpenLog, OpenLogFails,
           WriteHeader, SyncHeader, OpenJournal, InitializeCheckpoint, SyncDirectory,
           OpenFails, LoadCheckpoint, RejectBatch, RecordFailure, WriteRecord, WriteFails,
           FinishBatch, Flush, Close, SyncLog, WriteCheckpoint, ResizeJournal, CommitFails,
           Crash, PowerLoss, Kernel, history, writerVars, vars
  <2> QED BY <2>1, <2>2
<1> QED BY Invariance, <1>1, PTL DEF ReuseSpec, FailedAcknowledgesNothing

(* The first batch of a session continues the numbers of the log.          *)
THEOREM NumbersContinue == ASSUME Hypotheses PROVE ReuseSpec => []SequenceContinues
<1>1. IInv => SequenceContinues
  BY DEF IInv, Numbered, Holding, SequenceContinues
<1> QED BY Invariance, <1>1, PTL

(* The newest slot of the cached and of the durable journal covers every   *)
(* acknowledged record: nothing brings an older checkpoint back.           *)
THEOREM NewestCovers == ASSUME Hypotheses PROVE ReuseSpec => []NewestCoversAcked
<1>1. IInv => NewestCoversAcked
  <2> SUFFICES ASSUME IInv, acked > 0 PROVE
        /\ \E k \in SlotIndex : Newest(slots, k) /\ slots[k].count >= acked
        /\ \E k \in SlotIndex : Newest(dslots, k) /\ dslots[k].count >= acked
    BY DEF NewestCoversAcked
  <2>1. acked \in Int
    BY DEF IInv, TypeOK
  <2>2. djournalLen = "full" /\ journalLen = "full"
    BY <2>1 DEF IInv, Files
  <2>3. \A js : \A k \in SlotIndex : Top(js, k) => js[k].count >= acked
    BY <2>1 DEF Top, Newest, Checkpoint
  <2> QED BY <2>2, <2>3 DEF IInv, Covering, Top
<1> QED BY Invariance, <1>1, PTL

(* Recovery refuses for good only files with nothing acknowledged: with    *)
(* an acknowledged record the journal is whole and its newest slot agrees  *)
(* with the log.                                                           *)
THEOREM RefusalHarmless == ASSUME Hypotheses PROVE ReuseSpec => []RefusalStrandsNothing
<1>1. Init => RefusalStrandsNothing
  BY DEF Init, RefusalStrandsNothing
<1>2. IInv /\ RefusalStrandsNothing /\ [ReuseNext]_vars => RefusalStrandsNothing'
  <2> SUFFICES ASSUME IInv, RefusalStrandsNothing, [ReuseNext]_vars, pc' = "refused"
               PROVE acked' = 0
    BY DEF RefusalStrandsNothing
  <2>1. CASE Refuse /\ acked' = acked
    <3>1. SUFFICES ASSUME acked # 0 PROVE FALSE
      BY <2>1
    <3>2. journalLen = "full" /\ logHead = "valid" /\ pc = "choose"
      BY <2>1, <3>1 DEF IInv, Files, Refuse
    <3>3. PICK k \in SlotIndex : Top(slots, k)
      BY <3>2 DEF IInv, Covering
    <3>4. Consistent(slots[k])
      BY <3>2, <3>3, SlotsConsistent DEF Top, Newest
    <3> QED BY <2>1, <3>2, <3>4 DEF Refuse
  <2>2. CASE pc = "refused" /\ acked' = acked
    BY <2>2 DEF RefusalStrandsNothing
  <2>3. /\ ~Start /\ ~AppendBatch /\ ~Crash /\ ~PowerLoss /\ ~Write
        /\ ~CloseKeeps /\ ~OpenFailsKeeps /\ ~Reopen
    BY
       DEF CloseKeeps, OpenFailsKeeps, Reopen, Start, AppendBatch, BeginBatch, Crash, PowerLoss, Exit, Write, WriterStep,
           OpenLog, OpenLogFails, WriteHeader, SyncHeader, OpenJournal,
           InitializeCheckpoint, SyncDirectory, OpenFails, LoadCheckpoint, RejectBatch,
           WriteRecord, WriteFails, FinishBatch, Flush, Close, SyncLog, WriteCheckpoint,
           ResizeJournal, SyncJournal, CommitFails
  <2> QED
    BY <2>1, <2>2, <2>3
       DEF ReuseNext, Next, Recover, RecoveryStep, Scan, ChooseCheckpoint, NothingToRecover,
           StartMigration, MigrateJournal, SyncMigration, Kernel, history, writerVars,
           vars
<1> QED BY Invariance, <1>1, <1>2, PTL DEF ReuseSpec

-----------------------------------------------------------------------------
(* The store implements the durable log                                    *)

(* Held, when no writer is running, is the count of the newest slot.       *)
LEMMA HeldNewest ==
  DiskTypeOK => \A j \in SlotIndex :
                  pc \notin Holding /\ Newest(slots, j) => Held = slots[j].count
<1> SUFFICES ASSUME DiskTypeOK, NEW k \in SlotIndex, pc \notin Holding, Newest(slots, k)
             PROVE  Held = slots[k].count
  OBVIOUS
<1> DEFINE j == CHOOSE i \in SlotIndex : Newest(slots, i)
<1>1. j \in SlotIndex /\ Newest(slots, j)
  OBVIOUS
<1> HIDE DEF j
<1>2. k = j
  BY <1>1, OneNewest DEF DiskTypeOK
<1> QED BY <1>1, <1>2 DEF Held, j

(* Held is between the acknowledged and the valid records.                 *)
LEMMA HeldSound ==
  IInv => /\ Held \in 0 .. MaxRecords /\ acked <= Held
          /\ \A i \in 1 .. Held : log[i] \in Record
<1> SUFFICES ASSUME IInv
             PROVE  Held \in 0 .. MaxRecords /\ acked <= Held /\ \A i \in 1 .. Held : log[i] \in Record
  OBVIOUS
<1>0. acked \in 0 .. MaxRecords /\ count \in 0 .. MaxRecords /\ DiskTypeOK /\ Durable(acked)
  BY DEF IInv, TypeOK, Covered
<1>1. CASE pc \in Holding
  BY <1>0, <1>1 DEF Held, IInv, Running
<1>2. ASSUME pc \notin Holding, NEW k \in SlotIndex, Newest(slots, k)
      PROVE  Held \in 0 .. MaxRecords /\ acked <= Held /\ \A i \in 1 .. Held : log[i] \in Record
  <2>1. Held = slots[k].count /\ slots[k].count \in 0 .. MaxRecords
    BY <1>0, <1>2, HeldNewest DEF Newest, Checkpoint
  <2>2. \A i \in 1 .. Held : log[i] \in Record
    BY <1>2, <2>1 DEF IInv, Covered, SlotSound, Newest, Durable
  <2>3. acked <= Held
    <3>1. CASE acked = 0
      BY <2>1, <3>1
    <3>2. CASE acked # 0
      <4>1. PICK j \in SlotIndex : Top(slots, j)
        BY <3>2 DEF IInv, Files, Covering
      <4>2. j = k
        BY <1>0, <1>2, <4>1, OneNewest DEF Top, DiskTypeOK
      <4> QED BY <2>1, <4>1, <4>2 DEF Top
    <3> QED BY <3>1, <3>2
  <2> QED BY <2>1, <2>2, <2>3
<1>3. CASE pc \notin Holding /\ ~\E k \in SlotIndex : Newest(slots, k)
  <2>1. Held = acked
    BY <1>3 DEF Held
  <2> QED BY <1>0, <2>1 DEF Durable
<1> QED BY <1>1, <1>2, <1>3

(* A step changes no record that is held before and after it.              *)
LEMMA HeldKept ==
  ASSUME Hypotheses, IInv, [ReuseNext]_vars, IInv'
  PROVE  \A i \in 1 .. Held' : i <= Held => log'[i] = log[i]
<1>0. DiskTypeOK /\ DiskTypeOK' /\ Held \in 0 .. MaxRecords /\ Held' \in 0 .. MaxRecords
  <2>1. (IInv => /\ Held \in 0 .. MaxRecords /\ acked <= Held
                 /\ \A i \in 1 .. Held : log[i] \in Record)'
    BY HeldSound, PTL
  <2> QED BY <2>1, HeldSound DEF IInv, TypeOK
<1>1. CASE PowerLoss
  <2>1. pc' \notin Holding /\ slots' = dslots' /\ acked' = acked
    BY <1>1 DEF PowerLoss, LosePower, Exit, Holding, history
  <2>2. \/ Held' = acked
        \/ \E k \in SlotIndex : dslots'[k] \in Checkpoint /\ Held' = dslots'[k].count
    <3>1. CASE \E k \in SlotIndex : Newest(slots, k)'
      <4>1. PICK k \in SlotIndex : Newest(slots, k)'
        BY <3>1
      <4>2. Held' = slots'[k].count
        <5>1. (DiskTypeOK => \A j \in SlotIndex :
                 pc \notin Holding /\ Newest(slots, j) => Held = slots[j].count)'
          BY HeldNewest, PTL
        <5> QED BY <1>0, <2>1, <4>1, <5>1
      <4> QED BY <2>1, <4>1, <4>2 DEF Newest
    <3>2. CASE ~\E k \in SlotIndex : Newest(slots, k)'
      BY <2>1, <3>2 DEF Held
    <3> QED BY <3>1, <3>2
  <2> QED BY <1>0, <1>1, <2>2, PowerLossKeeps
<1>2. CASE log' = log
  BY <1>2
<1>3. CASE WriteRecord
  <2>1. Held = count
    BY <1>3 DEF WriteRecord, Held, Holding
  <2>2. \A i \in Position : i <= count => log'[i] = log[i]
    BY <1>0, <1>3, FormatAssumption DEF WriteRecord, IInv, TypeOK, DiskTypeOK
  <2> QED BY <1>0, <2>1, <2>2, FormatAssumption DEF Position
<1>4. CASE pc \notin Holding /\ ~PowerLoss
  <2>1. Promised(Held)
    <3>1. CASE \E k \in SlotIndex : Newest(slots, k)
      BY <1>0, <1>4, <3>1, HeldNewest DEF Promised, Newest
    <3>2. CASE ~\E k \in SlotIndex : Newest(slots, k)
      BY <1>4, <3>2 DEF Held, Promised
    <3> QED BY <3>1, <3>2
  <2> QED BY <1>0, <1>4, <2>1, PromisesKept
<1>5. CASE pc \in Holding /\ ~PowerLoss /\ ~WriteRecord
  <2>1. ~Recover
    BY <1>5 DEF Holding, Recover, RecoveryStep, Scan, ChooseCheckpoint, NothingToRecover,
      Refuse, StartMigration, MigrateJournal, SyncMigration
  <2>2. log' = log
    BY <1>0, <1>5, <2>1, KernelCells
       DEF ReuseNext, CloseKeeps, OpenFailsKeeps, Reopen, Next, Start, AppendBatch, BeginBatch, Write, WriterStep, OpenLog,
           OpenLogFails, WriteHeader, SyncHeader, OpenJournal, InitializeCheckpoint,
           SyncDirectory, OpenFails, LoadCheckpoint, RejectBatch, WriteFails,
           FinishBatch, Flush, Close, SyncLog, WriteCheckpoint, ResizeJournal,
           SyncJournal, CommitFails, Crash, Kernel, vars, diskVars, logCache, DiskTypeOK
  <2> QED BY <2>2
<1> QED BY <1>1, <1>3, <1>4, <1>5

(* A stretch of m cells after the first a, and the first a cells.          *)
Stretch(cells, a, m) == [i \in 1 .. m |-> cells[a + i]]
Prefix(cells, a) == [i \in 1 .. a |-> cells[i]]

(* A stretch is a sequence, and what follows a prefix.                     *)
LEMMA StretchSeq ==
  ASSUME NEW cells, NEW a \in Nat, NEW m \in Nat, \A i \in 1 .. a + m : cells[i] \in Record
  PROVE  /\ Stretch(cells, a, m) \in Seq(Record)
         /\ Len(Stretch(cells, a, m)) = m
         /\ \A n \in 0 .. m : Stretch(cells, a, n) = SubSeq(Stretch(cells, a, m), 1, n)
         /\ Prefix(cells, a + m) = Prefix(cells, a) \o Stretch(cells, a, m)
<1>1. \A i \in 1 .. m : a + i \in 1 .. a + m
  OBVIOUS
<1>2. Stretch(cells, a, m) \in Seq(Record) /\ Len(Stretch(cells, a, m)) = m
  BY <1>1 DEF Stretch
<1>3. ASSUME NEW n \in 0 .. m
      PROVE Stretch(cells, a, n) = SubSeq(Stretch(cells, a, m), 1, n)
  BY <1>1, <1>2 DEF Stretch
<1>4. Prefix(cells, a) \in Seq(Record) /\ Len(Prefix(cells, a)) = a
  BY DEF Prefix
<1>5. Prefix(cells, a + m) = Prefix(cells, a) \o Stretch(cells, a, m)
  BY <1>2, <1>4 DEF Prefix, Stretch
<1> QED BY <1>2, <1>3, <1>5

(* The records up to h, split after the first a.                           *)
LEMMA Difference ==
  ASSUME NEW h \in Nat, NEW a \in Nat, a <= h
  PROVE  \E n \in Nat : n = h - a /\ a + n = h
  OBVIOUS

(* Two files of a + m and a + n records agree where they overlap.          *)
Overlap(old, new, a, m, n) ==
  /\ \A i \in 1 .. a + m : old[i] \in Record
  /\ \A i \in 1 .. a + n : new[i] \in Record
  /\ \A i \in 1 .. a + n : i <= a + m => new[i] = old[i]

(* One file holds more than the other, or a beginning of it.               *)
GrowsOrCuts(old, new, a, m, n) ==
  \/ /\ Len(Stretch(new, a, n)) > Len(Stretch(old, a, m))
     /\ \A i \in 1 .. Len(Stretch(old, a, m)) :
          Stretch(new, a, n)[i] = Stretch(old, a, m)[i]
  \/ \E k \in 0 .. Len(Stretch(old, a, m)) :
        Stretch(new, a, n) = SubSeq(Stretch(old, a, m), 1, k)

(* A change of the records after the first a is one the durable log        *)
(* allows.                                                                 *)
LEMMA StretchStep ==
  ASSUME NEW cells, NEW others, NEW a \in Nat, NEW m \in Nat, NEW n \in Nat,
         Overlap(cells, others, a, m, n)
  PROVE  /\ Prefix(others, a) = Prefix(cells, a)
         /\ Stretch(others, a, n) \in Seq(Record)
         /\ GrowsOrCuts(cells, others, a, m, n)
<1> USE DEF Overlap, GrowsOrCuts
<1>1. \A i \in 1 .. a : i \in 1 .. a + n /\ i <= a + m
  OBVIOUS
<1>2. Prefix(others, a) = Prefix(cells, a)
  BY <1>1 DEF Prefix
<1>3. /\ Stretch(others, a, n) \in Seq(Record) /\ Len(Stretch(others, a, n)) = n
      /\ Stretch(cells, a, m) \in Seq(Record) /\ Len(Stretch(cells, a, m)) = m
  BY StretchSeq
<1>4. CASE n > m
  <2>1. \A i \in 1 .. m : i \in 1 .. n /\ a + i \in 1 .. a + n /\ a + i <= a + m
    BY <1>4
  <2>2. \A i \in 1 .. m : Stretch(others, a, n)[i] = Stretch(cells, a, m)[i]
    BY <2>1 DEF Stretch
  <2> QED BY <1>2, <1>3, <1>4, <2>2
<1>5. CASE n <= m
  <2>1. \A i \in 1 .. n : a + i \in 1 .. a + n /\ a + i <= a + m
    BY <1>5
  <2>2. Stretch(others, a, n) = Stretch(cells, a, n)
    BY <2>1 DEF Stretch
  <2>3. n \in 0 .. m
    BY <1>5
  <2>4. Stretch(cells, a, n) = SubSeq(Stretch(cells, a, m), 1, n)
    BY <2>3, StretchSeq
  <2> QED BY <1>2, <1>3, <2>2, <2>3, <2>4
<1> QED BY <1>4, <1>5

(* The writing, cutting and acknowledging steps are those of the durable   *)
(* log, whatever else the process, the kernel or a power loss does.        *)
LEMMA AbstractStep ==
  ASSUME Hypotheses, IInv, [ReuseNext]_vars, IInv'
  PROVE  [Abstract!Next]_(Abstract!vars)
<1> DEFINE committed == [i \in 1 .. acked |-> log[i]]
           pending == [i \in 1 .. Held - acked |-> log[acked + i]]
<1>c. committed = Prefix(log, acked) /\ committed' = Prefix(log', acked')
  BY DEF Prefix
<1>p. pending = Stretch(log, acked, Held - acked)
  BY DEF Stretch
<1>q. pending' = Stretch(log', acked', Held' - acked')
  BY DEF Stretch
<1> HIDE DEF committed, pending
<1>0. /\ Held \in Nat /\ acked \in Nat /\ acked <= Held
      /\ \A i \in 1 .. Held : log[i] \in Record
  BY HeldSound, FormatAssumption DEF IInv, TypeOK
<1>1. /\ Held' \in Nat /\ acked' \in Nat /\ acked' <= Held'
      /\ \A i \in 1 .. Held' : log'[i] \in Record
  <2>1. (IInv => /\ Held \in 0 .. MaxRecords /\ acked <= Held
                 /\ \A i \in 1 .. Held : log[i] \in Record)'
    BY HeldSound, PTL
  <2> QED BY <2>1, FormatAssumption DEF IInv, TypeOK
<1>2. \A i \in 1 .. Held' : i <= Held => log'[i] = log[i]
  BY HeldKept
<1>m. PICK m \in Nat : m = Held - acked /\ acked + m = Held
  BY <1>0, Difference
<1>n. PICK n \in Nat : n = Held' - acked' /\ acked' + n = Held'
  BY <1>1, Difference
<1>3. CASE acked' = acked
  <2>a. PICK a, old, new : a = acked /\ a \in Nat /\ old = log /\ new = log'
    BY <1>0, Zenon
  <2>1. Overlap(old, new, a, m, n)
    BY <1>0, <1>1, <1>2, <1>3, <1>m, <1>n, <2>a DEF Overlap
  <2>2. /\ Prefix(new, a) = Prefix(old, a)
        /\ Stretch(new, a, n) \in Seq(Record)
        /\ GrowsOrCuts(old, new, a, m, n)
    BY <2>a, <2>1, StretchStep
  <2>3. committed' = committed
    BY <1>3, <1>c, <2>a, <2>2
  <2>4. pending = Stretch(old, a, m) /\ pending' = Stretch(new, a, n)
    BY <1>3, <1>m, <1>n, <1>p, <1>q, <2>a
  <2> QED BY <2>2, <2>3, <2>4
          DEF GrowsOrCuts, Abstract!Next, Abstract!Write, Abstract!Lose, committed, pending
<1>4. CASE acked' # acked
  <2>1. SyncJournal
    BY <1>4
       DEF ReuseNext, CloseKeeps, OpenFailsKeeps, Reopen, Next, Start, Recover, AppendBatch, BeginBatch, Write, WriterStep, OpenLog,
           OpenLogFails, WriteHeader, SyncHeader, OpenJournal, InitializeCheckpoint,
           SyncDirectory, OpenFails, LoadCheckpoint, RejectBatch, RecordFailure,
           WriteRecord, WriteFails, FinishBatch, Flush, Close, SyncLog, WriteCheckpoint,
           ResizeJournal, CommitFails, Crash, PowerLoss, Kernel, history, writerVars,
           vars
  <2>2. Held = count /\ acked' = count /\ log' = log /\ slots' = slots
    BY <2>1 DEF SyncJournal, Held, Holding, logCache, journalCache
  <2>3. Held' = count
    <3>1. CASE Exit
      <4>1. PICK k \in SlotIndex : k = OtherSlot(active) /\ \A j \in SlotIndex \ {k} : j = active
        BY TwoSlots DEF IInv, TypeOK
      <4>2. /\ slots[k] \in Checkpoint /\ slots[k].gen = gen + 1 /\ slots[k].count = count
            /\ slots[active] \in Checkpoint => slots[active].gen = gen
            /\ gen \in Int
        BY <2>1, <4>1 DEF SyncJournal, IInv, Running, TypeOK
      <4>3. Newest(slots, k)' /\ pc' \notin Holding
        BY <2>2, <3>1, <4>1, <4>2 DEF Newest, Exit, Holding
      <4>4. (DiskTypeOK => \A j \in SlotIndex :
                 pc \notin Holding /\ Newest(slots, j) => Held = slots[j].count)'
        BY HeldNewest, PTL
      <4> QED BY <2>2, <4>2, <4>3, <4>4 DEF IInv, TypeOK
    <3>2. CASE ~Exit
      BY <2>1, <3>2 DEF SyncJournal, Held, Holding
    <3> QED BY <3>1, <3>2
  <2>4. n = 0 /\ acked + m = count
    BY <2>2, <2>3, <1>0, <1>m, <1>n
  <2>5. pending' = <<>>
    BY <1>n, <1>q, <2>4 DEF Stretch
  <2>6. Prefix(log, acked + m) = Prefix(log, acked) \o Stretch(log, acked, m)
    BY <1>0, <1>m, StretchSeq
  <2>7. committed' = committed \o pending
    BY <1>c, <1>m, <1>p, <2>2, <2>4, <2>6
  <2> QED BY <2>5, <2>7 DEF Abstract!Next, Abstract!Acknowledge, committed, pending
<1> QED BY <1>3, <1>4

(* The files and every program that writes or recovers them implement the  *)
(* durable log: what is acknowledged stays, and a failure only cuts        *)
(* records that were not.                                                  *)
THEOREM StoreImplementsDurableLog == ASSUME Hypotheses PROVE ReuseSpec => ImplementsDurableLog
<1>1. Init => Abstract!Init
  <2> SUFFICES ASSUME Init PROVE Abstract!Init
    OBVIOUS
  <2>1. Held = 0 /\ acked = 0
    BY SlotAssumption DEF Init, DiskInit, Held, Holding, Newest, NoSlots
  <2> QED BY <2>1 DEF Abstract!Init
<1>2. IInv /\ [ReuseNext]_vars /\ IInv' => [Abstract!Next]_(Abstract!vars)
  BY AbstractStep
<1> QED BY Invariance, <1>1, <1>2, PTL DEF ReuseSpec, ImplementsDurableLog, Abstract!Spec

=============================================================================

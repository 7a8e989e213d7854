-------------------------- MODULE LegacyStoreProofs --------------------------
(***************************************************************************)
(* Proofs about the migration of a legacy log, for logs of every length,   *)
(* every entry of the old journal and any number of interruptions: no      *)
(* failure takes a legacy record, and the entry goes to its own place; if  *)
(* only kills or only power losses interrupt it, the entry stays in one of *)
(* the files, and recovery refuses for no reason that comes from the       *)
(* migration being interrupted between two of its steps.                   *)
(***************************************************************************)
EXTENDS LegacyStore, RecorderStoreProofs, FiniteSetTheorems

(* Where recovery works with what it scanned, and where the journal is     *)
(* being replaced.                                                         *)
Replacing == {"migrate", "migrateSync"}
Deciding  == {"choose"} \cup LegacyPc \cup Replacing

LegacyTypes ==
  /\ log \in [Position -> Cell] /\ dlog \in [Position -> Cell]
  /\ slots \in [SlotIndex -> Slot] /\ dslots \in [SlotIndex -> Slot]
  /\ batch \in Batch /\ written \in Nat /\ session \in Session
  /\ count \in 0 .. MaxRecords /\ scanned \in 0 .. MaxRecords
  /\ gen \in 0 .. MaxGeneration /\ active \in SlotIndex
  /\ pc = "writing" => written <= batch.size /\ count + batch.size <= MaxRecords
  /\ pc \in {"ckptResize", "ckptSync"} => gen < MaxGeneration

(* What this program found.                                                *)
Inheritance ==
  /\ legacy \in 0 .. MaxLegacy /\ faults \subseteq Fault
  /\ entry \in Record \cup {Torn, Absent}
  /\ entry \in Record => entry.seq >= 1

(* Every cell and every slot carries its own number; the writer, the       *)
(* recorder and the batch go on from the end of the log.                   *)
LegacyNumbered ==
  /\ InOrder(log) /\ InOrder(dlog)
  /\ \A k \in SlotIndex : /\ slots[k] \in Checkpoint => slots[k].last = slots[k].count
                          /\ dslots[k] \in Checkpoint => dslots[k].last = dslots[k].count
  /\ lastSeq = count
  /\ pc \in Opening => sequence = scanned
  /\ pc = "writing" => batch.first = count + 1
  /\ pc \in Holding \ {"writing"} /\ ~failed => sequence = count
  /\ pc = "writing" /\ ~failed => sequence = count + batch.size

(* A log with its header on stable storage, or a journal and nothing else. *)
WithLog ==
  /\ logHead = "valid" /\ dlogHead = "valid" /\ entries = File
  /\ pc \notin {"header", "headerSync"}

Headless ==
  /\ legacy = 0 /\ logHead # "valid" /\ dlogHead # "valid" /\ "journal" \in entries
  /\ journalLen = "legacy" /\ log = NoRecords /\ dlog = NoRecords
  /\ pc \in {"down", "scan", "choose", "refused"} \cup LegacyPc

(* The journal: the old one is on stable storage for as long as the        *)
(* program sees it, and the writer finds a whole one.                      *)
LegacyFiles ==
  /\ WithLog \/ Headless
  /\ journalLen # "absent" /\ djournalLen # "absent"
  /\ journalLen = "legacy" => djournalLen = "legacy" /\ slots = NoSlots
  /\ djournalLen = "legacy" => entry # Absent /\ dslots = NoSlots
  /\ pc \in LegacyPc => journalLen = "legacy"
  /\ pc = "migrate" => journalLen # "legacy"
  /\ pc = "migrateSync" => journalLen = "full"
  /\ pc \in WriterPc => journalLen = "full"

(* What a scan leaves to the steps that act on it.                         *)
LegacyScanned ==
  /\ pc \in Deciding \cup Opening => \A i \in 1 .. scanned : log[i] \in Record
  /\ pc \in {"choose"} \cup Replacing \cup Opening => HasLength(log, scanned)
  /\ pc \in LegacyPc => entry \in Record /\ entry.seq = scanned + 1
  /\ pc = "append" => HasLength(log, scanned) \/ HasLength(log, scanned + 1)
  /\ pc \in {"appendSync", "rescan"} /\ logHead = "valid" => HasLength(log, scanned + 1)

(* Once the journal is replaced nothing goes below the entry, and before   *)
(* nothing goes below the legacy log: no cut and no write.                 *)
Settled == OneFault /\ Pending /\ journalLen # "legacy"
Base == IF Settled THEN legacy + 1 ELSE legacy

LegacyKept ==
  /\ LegacyRecordsKept
  /\ OneFault /\ Pending =>
       /\ log[legacy + 1] \in Record => log[legacy + 1] = entry
       /\ dlog[legacy + 1] \in Record => dlog[legacy + 1] = entry
  /\ Settled => /\ log[legacy + 1] = entry
                /\ "power" \in faults => dlog[legacy + 1] = entry
  /\ \A k \in SlotIndex : slots[k] \in Checkpoint => slots[k].count >= Base
  /\ \A k \in SlotIndex : dslots[k] \in Checkpoint =>
       dslots[k].count >= IF "power" \in faults THEN Base ELSE legacy
  /\ pc \in Deciding => scanned >= Base
  /\ pc \in Holding => count >= Base

(* The entry alone is on its way: every other record that is in the log    *)
(* while the old journal is there is on stable storage, if no process that *)
(* appended it was killed.                                                 *)
Synchronized ==
  "kill" \notin faults /\ journalLen = "legacy" =>
    \A i \in Position : log[i] \in Record /\ dlog[i] # log[i] =>
      pc \in {"append", "appendSync"} /\ i = scanned + 1

LegacyRunning ==
  /\ pc \in Holding => \A i \in 1 .. count : log[i] \in Record
  /\ pc = "writing" => \A i \in 1 .. count + written : log[i] \in Record
  /\ pc \in Holding => slots[active] \in Checkpoint /\ slots[active].count <= count
  /\ pc \in {"ckptResize", "ckptSync"} =>
       slots[OtherSlot(active)] \in Checkpoint /\ slots[OtherSlot(active)].count = count

(* A slot that a killed process left is one the log can serve.             *)
Backed ==
  "power" \notin faults /\ journalLen = "full" =>
    \E k \in SlotIndex : slots[k] \in Checkpoint
                         /\ \A i \in 1 .. slots[k].count : log[i] \in Record

LInv == LegacyTypes /\ Inheritance /\ LegacyNumbered /\ LegacyFiles /\ LegacyScanned /\ LegacyKept
        /\ Synchronized /\ LegacyRunning /\ Backed

-----------------------------------------------------------------------------
(* What a step does to the files                                           *)

(* The records on the way to stable storage.                               *)
Cells == <<log, dlog>>
Journals == <<journalLen, slots, djournalLen, dslots>>

(* The power fails, in a behaviour where it may.                           *)
PowerFails == "power" \in faults /\ PowerLoss

(* A step leaves the records alone, cuts, appends or overwrites them as    *)
(* one of the named actions does, or synchronizes them.                    *)
LEMMA LogMoves ==
  ASSUME LInv, [LegacyNext]_legacyVars
  PROVE  \/ UNCHANGED Cells
         \/ Scan \/ \E k \in SlotIndex : ChooseCheckpoint(k)
         \/ AppendEntry \/ WriteRecord
         \/ log' = log /\ dlog' = log
         \/ Writeback \/ PowerFails
<1> USE DEF Cells, diskVars, logCache, logDurable, SyncLogFile
<1>1. CASE Recover
  BY <1>1 DEF Recover, RecoveryStep, NothingToRecover, Refuse, StartMigration,
     MigrateJournal, SyncMigration
<1>2. CASE MigrateLegacy
  BY <1>2 DEF MigrateLegacy, LegacyStep, DiscardCorrupt, AlreadyCommitted, RefuseLegacy,
     RollForward, SyncRollForward, Rescan, ReplaceJournal
<1>3. CASE Write
  BY <1>3 DEF Write, WriterStep, OpenLog, OpenLogFails, WriteHeader, SyncHeader,
     OpenJournal, InitializeCheckpoint, SyncDirectory, OpenFails, LoadCheckpoint,
     RejectBatch, WriteFails, FinishBatch, Flush, Close, SyncLog, WriteCheckpoint,
     ResizeJournal, SyncJournal, CommitFails
<1> QED
  BY <1>1, <1>2, <1>3 DEF LegacyNext, Start, AppendBatch, BeginBatch, Crash, Kernel,
     PowerFails,
     legacyVars, vars

(* A step leaves the journal alone, takes the entry out of it, writes it   *)
(* as one of the named actions does, or synchronizes it.                   *)
LEMMA JournalMoves ==
  ASSUME LInv, [LegacyNext]_legacyVars
  PROVE  \/ UNCHANGED Journals
         \/ ReplaceJournal \/ MigrateJournal \/ WriteCheckpoint
         \/ /\ UNCHANGED <<journalLen, slots>>
            /\ djournalLen' = journalLen /\ dslots' = slots
         \/ PowerFails
<1> USE DEF Journals, diskVars, logCache, logDurable, journalCache, journalDurable,
            SyncLogFile, SyncJournalFile
<1>1. CASE Recover
  BY <1>1 DEF Recover, RecoveryStep, Scan, ChooseCheckpoint, NothingToRecover, Refuse,
     StartMigration, SyncMigration
<1>2. CASE MigrateLegacy
  BY <1>2 DEF MigrateLegacy, LegacyStep, DiscardCorrupt, AlreadyCommitted, RefuseLegacy,
     RollForward, AppendEntry, SyncRollForward, Rescan
<1>3. CASE Write
  <2>1. pc \in WriterPc => journalLen = "full"
    BY DEF LInv, LegacyFiles
  <2> QED
    BY <1>3, <2>1 DEF Write, WriterStep, OpenLog, OpenLogFails, WriteHeader, SyncHeader,
       OpenJournal, InitializeCheckpoint, SyncDirectory, OpenFails, LoadCheckpoint,
       RejectBatch, WriteRecord, WriteFails, FinishBatch, Flush, Close, SyncLog,
       ResizeJournal, SyncJournal, CommitFails, WriterPc
<1>4. CASE Kernel
  BY <1>4 DEF Kernel, Writeback, WritebackHead, WritebackRecord, WritebackTruncate,
     WritebackJournal, WritebackEntry
<1> QED
  BY <1>1, <1>2, <1>3, <1>4 DEF LegacyNext, Start, AppendBatch, BeginBatch, Crash,
     PowerFails, legacyVars, vars

(* What recovery works with was scanned, and what the writer counts was    *)
(* loaded or written.                                                      *)
LEMMA ScannedMoves ==
  ASSUME LInv, [LegacyNext]_legacyVars, pc' \in Deciding
  PROVE  \/ pc \in Deciding /\ scanned' = scanned
         \/ Scan \/ Rescan
<1> USE DEF Deciding, Replacing, LegacyPc, RecoveryPc, WriterPc
<1>1. CASE Recover
  BY <1>1 DEF Recover, RecoveryStep, ChooseCheckpoint, NothingToRecover, Refuse,
     StartMigration, MigrateJournal, SyncMigration
<1>2. CASE MigrateLegacy
  BY <1>2 DEF MigrateLegacy, LegacyStep, DiscardCorrupt, AlreadyCommitted, RefuseLegacy,
     RollForward, AppendEntry, SyncRollForward, ReplaceJournal, AtLegacyJournal
<1>3. CASE Write
  BY <1>3 DEF Write, WriterStep, OpenLog, OpenLogFails, WriteHeader, SyncHeader,
     OpenJournal, InitializeCheckpoint, SyncDirectory, OpenFails, LoadCheckpoint,
     RejectBatch, WriteRecord, WriteFails, FinishBatch, Flush, Close, SyncLog,
     WriteCheckpoint, ResizeJournal, SyncJournal, CommitFails, Exit, RecordFailure
<1> QED
  BY <1>1, <1>2, <1>3 DEF LegacyNext, Start, AppendBatch, BeginBatch, Crash, PowerLoss,
     Exit, Kernel, writerVars, legacyVars, vars

(* A count is kept, loaded from a slot or grown by a batch.                *)
LEMMA CountMoves ==
  ASSUME LInv, [LegacyNext]_legacyVars, pc' \in Holding
  PROVE  \/ pc \in Holding /\ count' = count
         \/ FinishBatch
         \/ \E k \in SlotIndex : LoadCheckpoint(k)
<1> USE DEF Holding, LegacyPc, RecoveryPc, WriterPc
<1>1. CASE Recover
  BY <1>1 DEF Recover, RecoveryStep, Scan, ChooseCheckpoint, NothingToRecover, Refuse,
     StartMigration, MigrateJournal, SyncMigration
<1>2. CASE MigrateLegacy
  BY <1>2 DEF MigrateLegacy, LegacyStep, DiscardCorrupt, AlreadyCommitted, RefuseLegacy,
     RollForward, AppendEntry, SyncRollForward, Rescan, ReplaceJournal, AtLegacyJournal
<1>3. CASE Write
  <2>1. pc \in WriterPc => journalLen = "full"
    BY DEF LInv, LegacyFiles
  <2> QED
    BY <1>3, <2>1 DEF Write, WriterStep, OpenLog, OpenLogFails, WriteHeader, SyncHeader,
       OpenJournal, InitializeCheckpoint, SyncDirectory, OpenFails,
       RejectBatch, WriteRecord, WriteFails, Flush, Close, SyncLog,
       WriteCheckpoint, ResizeJournal, SyncJournal, CommitFails, Exit, RecordFailure,
       writerState
<1> QED
  BY <1>1, <1>2, <1>3 DEF LegacyNext, Start, AppendBatch, BeginBatch, Crash, PowerLoss,
     Exit, Kernel, writerVars, writerState, legacyVars, vars

-----------------------------------------------------------------------------
(* Types and numbers                                                       *)

(* What was found does not change.                                         *)
LEMMA InheritanceStep == LInv /\ [LegacyNext]_legacyVars => Inheritance'
BY DEF LInv, Inheritance, LegacyNext, inherited, legacyVars

(* The entry of the journal is a record when there is one to roll forward. *)
LEMMA EntryIsRecord ==
  ASSUME LInv, AtLegacyJournal, entry # Torn
  PROVE  entry \in Record
BY DEF LInv, Inheritance, LegacyFiles, AtLegacyJournal

(* The next record of a batch is a record of its own number.               *)
LEMMA WrittenRecord ==
  ASSUME Hypotheses, LInv, WriteRecord
  PROVE  LET at == count + written + 1
         IN /\ at \in Position
            /\ \/ log' = [log EXCEPT ![at] = Torn] /\ written' = written
               \/ /\ written' = written + 1
                  /\ \E cell \in Record : cell.seq = at /\ log' = [log EXCEPT ![at] = cell]
<1> USE FormatAssumption, OptionsAssumption
<1>1. /\ pc = "writing" /\ written < batch.size /\ written \in Nat /\ count \in Nat
      /\ batch.size \in Nat /\ batch.first = count + 1 /\ session \in Session
      /\ count + batch.size <= MaxRecords
  BY DEF WriteRecord, LInv, LegacyTypes, LegacyNumbered, Batch
<1>2. count + written + 1 \in Position /\ count + 1 + written \in 0 .. MaxRecords
  BY <1>1 DEF Position
<1>3. BatchSeq(written) = count + written + 1
  BY <1>1, <1>2, SmallSeq DEF BatchSeq
<1>4. BatchSeq(written) \in SeqNum
  BY <1>1, SeqNumOf DEF BatchSeq
<1>5. [seq |-> BatchSeq(written), session |-> session] \in Record
  BY <1>1, <1>4 DEF Record
<1> QED BY <1>2, <1>3, <1>5 DEF WriteRecord

(* A cell that a step leaves is one of the two images, a torn or a missing *)
(* one, or the one written at the end of the log.                          *)
LEMMA CellTypes ==
  ASSUME Hypotheses, LInv, [LegacyNext]_legacyVars
  PROVE  log' \in [Position -> Cell] /\ dlog' \in [Position -> Cell]
<1>0. /\ log \in [Position -> Cell] /\ dlog \in [Position -> Cell]
      /\ Torn \in Cell /\ Absent \in Cell /\ Record \subseteq Cell
  BY DEF LInv, LegacyTypes, Cell
<1>1. CASE UNCHANGED Cells \/ (log' = log /\ dlog' = log)
  BY <1>0, <1>1 DEF Cells
<1>2. CASE Scan
  BY <1>0, <1>2, CutType DEF Scan, TruncateLog, logDurable
<1>3. ASSUME NEW k \in SlotIndex, ChooseCheckpoint(k)
      PROVE  log' \in [Position -> Cell] /\ dlog' \in [Position -> Cell]
  <2>1. slots[k].count \in Nat
    BY <1>3 DEF ChooseCheckpoint, Selected, Consistent, Checkpoint
  <2> QED BY <1>0, <1>3, <2>1, CutType DEF ChooseCheckpoint, TruncateLog, logDurable
<1>4. CASE AppendEntry
  <2>1. entry \in Record
    BY <1>4 DEF AppendEntry, LInv, LegacyScanned, LegacyPc
  <2>2. \/ log' = log \/ \E cell \in Cell : log' = [log EXCEPT ![scanned + 1] = cell]
    BY <1>0, <1>4, <2>1 DEF AppendEntry
  <2> QED BY <1>0, <1>4, <2>2 DEF AppendEntry, logDurable
<1>5. CASE WriteRecord
  <2>1. \E at, cell : cell \in Cell /\ log' = [log EXCEPT ![at] = cell]
    BY <1>0, <1>5, WrittenRecord
  <2> QED BY <1>0, <1>5, <2>1 DEF WriteRecord, logDurable
<1>6. CASE Writeback
  <2>1. log' = log
    BY <1>0, <1>6, KernelCells
  <2>2. ASSUME NEW i \in Position, WritebackRecord(i) PROVE dlog' \in [Position -> Cell]
    <3>1. PICK cell \in {log[i], Torn} :
             dlog' = [j \in Position |->
                        IF j = i THEN cell
                          ELSE IF j < i /\ dlog[j] = Absent THEN Torn ELSE dlog[j]]
      BY <2>2 DEF WritebackRecord
    <3> QED BY <1>0, <3>1
  <2>3. CASE WritebackTruncate
    <3>1. dlog' = [i \in Position |-> IF log[i] = Absent THEN Absent ELSE dlog[i]]
      BY <2>3 DEF WritebackTruncate
    <3> QED BY <1>0, <2>1, <3>1
  <2> QED BY <1>0, <1>6, <2>1, <2>2, <2>3
          DEF Writeback, WritebackHead, WritebackJournal, WritebackEntry, logDurable
<1>7. CASE PowerFails
  <2>1. NoRecords \in [Position -> Cell]
    BY <1>0 DEF NoRecords
  <2> QED BY <1>0, <1>7, <2>1 DEF PowerFails, PowerLoss, LosePower
<1> QED BY <1>1, <1>2, <1>3, <1>4, <1>5, <1>6, <1>7, LogMoves

(* The record at position i carries number i, still.                       *)
LEMMA LegacyInOrder ==
  ASSUME Hypotheses, LInv, [LegacyNext]_legacyVars
  PROVE  InOrder(log)' /\ InOrder(dlog)'
<1> USE SentinelAssumption
<1>0. /\ InOrder(log) /\ InOrder(dlog)
      /\ log \in [Position -> Cell] /\ dlog \in [Position -> Cell]
  BY DEF LInv, LegacyTypes, LegacyNumbered
<1>1. CASE UNCHANGED Cells \/ (log' = log /\ dlog' = log)
  BY <1>0, <1>1 DEF Cells, InOrder
<1>2. CASE Scan \/ \E k \in SlotIndex : ChooseCheckpoint(k)
  BY <1>0, <1>2 DEF Scan, ChooseCheckpoint, TruncateLog, TruncateTo, logDurable, InOrder
<1>3. CASE AppendEntry
  <2>1. entry \in Record => entry.seq = scanned + 1
    BY <1>3 DEF AppendEntry, LInv, LegacyScanned, LegacyPc
  <2> QED BY <1>0, <1>3, <2>1 DEF AppendEntry, logDurable, InOrder
<1>4. CASE WriteRecord
  <2>1. PICK at, cell : /\ cell \in Record => cell.seq = at
                        /\ log' = [log EXCEPT ![at] = cell]
    BY <1>4, WrittenRecord
  <2> QED BY <1>0, <1>4, <2>1 DEF WriteRecord, logDurable, InOrder
<1>5. CASE Writeback
  BY <1>0, <1>5, KernelCells DEF InOrder
<1>6. CASE PowerFails
  BY <1>0, <1>6 DEF PowerFails, PowerLoss, LosePower, NoRecords, InOrder
<1> QED BY <1>1, <1>2, <1>3, <1>4, <1>5, <1>6, LogMoves

(* The checkpoint a migration writes.                                      *)
LEMMA MigratedSlot ==
  ASSUME LInv, MigrateJournal, pc' = "migrateSync"
  PROVE  /\ slots' = [k \in SlotIndex |-> IF k = 0 THEN FirstCheckpoint ELSE Torn]
         /\ FirstCheckpoint \in Checkpoint
         /\ FirstCheckpoint.count = scanned /\ FirstCheckpoint.last = scanned
<1> USE FormatAssumption
<1>1. slots' = [k \in SlotIndex |-> IF k = 0 THEN FirstCheckpoint ELSE Torn] /\ pc = "migrate"
  BY DEF MigrateJournal
<1>2. /\ scanned \in 0 .. MaxRecords /\ InOrder(log)
      /\ \A i \in 1 .. scanned : log[i] \in Record
  BY <1>1 DEF LInv, LegacyTypes, LegacyNumbered, LegacyScanned, Deciding, Replacing
<1>3. CASE scanned = 0
  <2>1. 0 \in SeqNum
    BY DEF SeqNum
  <2> QED BY <1>1, <1>3, <2>1 DEF FirstCheckpoint, Checkpoint
<1>4. CASE scanned # 0
  <2>1. scanned \in Position /\ scanned \in 1 .. scanned
    BY <1>2, <1>4 DEF Position
  <2>2. log[scanned] \in Record /\ log[scanned].seq = scanned
    BY <1>2, <2>1 DEF InOrder
  <2>3. log[scanned].seq \in SeqNum
    BY <2>2 DEF Record
  <2> QED BY <1>1, <1>2, <1>4, <2>2, <2>3 DEF FirstCheckpoint, Checkpoint
<1> QED BY <1>3, <1>4

(* The checkpoint a commit writes.                                         *)
LEMMA CommittedSlot ==
  ASSUME Hypotheses, LInv, WriteCheckpoint
  PROVE  /\ NewCheckpoint \in Checkpoint
         /\ NewCheckpoint.count = count /\ NewCheckpoint.last = count
         /\ \E cell \in {NewCheckpoint, Torn} :
              /\ slots' = [slots EXCEPT ![OtherSlot(active)] = cell]
              /\ pc' = "ckptResize" => cell = NewCheckpoint
<1> USE FormatAssumption
<1>1. /\ gen < MaxGeneration /\ gen \in Nat /\ count \in 0 .. MaxRecords /\ lastSeq = count
      /\ pc = "ckptWrite"
  BY DEF WriteCheckpoint, LInv, LegacyTypes, LegacyNumbered
<1>2. count \in SeqNum
  BY <1>1 DEF Hypotheses, SeqNum
<1>3. NewCheckpoint = [gen |-> gen + 1, count |-> count, last |-> count]
  BY <1>1 DEF NewCheckpoint
<1>4. \E cell \in {NewCheckpoint, Torn} :
        /\ slots' = [slots EXCEPT ![OtherSlot(active)] = cell]
        /\ pc' = "ckptResize" => cell = NewCheckpoint
  BY <1>1 DEF WriteCheckpoint
<1>5. NewCheckpoint \in Checkpoint
  BY <1>1, <1>2, <1>3 DEF Checkpoint
<1> QED BY <1>3, <1>4, <1>5

(* The slots of both images, typed and numbered.                           *)
LEMMA SlotTypes ==
  ASSUME Hypotheses, LInv, [LegacyNext]_legacyVars
  PROVE  /\ slots' \in [SlotIndex -> Slot] /\ dslots' \in [SlotIndex -> Slot]
         /\ \A k \in SlotIndex :
              /\ slots'[k] \in Checkpoint => slots'[k].last = slots'[k].count
              /\ dslots'[k] \in Checkpoint => dslots'[k].last = dslots'[k].count
<1> USE SlotAssumption
<1>0. /\ slots \in [SlotIndex -> Slot] /\ dslots \in [SlotIndex -> Slot]
      /\ \A k \in SlotIndex :
              /\ slots[k] \in Checkpoint => slots[k].last = slots[k].count
              /\ dslots[k] \in Checkpoint => dslots[k].last = dslots[k].count
      /\ Torn \in Slot /\ Checkpoint \subseteq Slot
  BY DEF LInv, LegacyTypes, LegacyNumbered, Slot
<1>1. CASE UNCHANGED Journals
  BY <1>0, <1>1 DEF Journals
<1>2. CASE ReplaceJournal
  BY <1>0, <1>2 DEF ReplaceJournal, journalDurable
<1>3. CASE MigrateJournal
  <2>1. CASE pc' = "migrateSync"
    BY <1>0, <1>3, <2>1, MigratedSlot DEF MigrateJournal, journalDurable
  <2>2. CASE pc' # "migrateSync"
    BY <1>0, <1>3, <2>2 DEF MigrateJournal, journalDurable
  <2> QED BY <2>1, <2>2
<1>4. CASE WriteCheckpoint
  <2>1. dslots' = dslots
    BY <1>4 DEF WriteCheckpoint, journalDurable
  <2>2. PICK cell \in {NewCheckpoint, Torn} : slots' = [slots EXCEPT ![OtherSlot(active)] = cell]
    BY <1>4, CommittedSlot
  <2>3. cell \in Slot /\ (cell \in Checkpoint => cell.last = cell.count)
    BY <1>0, <1>4, <2>2, CommittedSlot
  <2> QED BY <1>0, <2>1, <2>2, <2>3
<1>5. CASE slots' = slots /\ dslots' = slots
  BY <1>0, <1>5
<1>6. CASE PowerFails
  <2>1. NoSlots \in [SlotIndex -> Slot] /\ \A k \in SlotIndex : NoSlots[k] = Torn
    BY <1>0 DEF NoSlots
  <2>2. slots' = dslots' /\ dslots' \in {dslots, NoSlots}
    BY <1>6 DEF PowerFails, PowerLoss, LosePower
  <2> QED BY <1>0, <2>1, <2>2
<1> QED BY <1>1, <1>2, <1>3, <1>4, <1>5, <1>6, JournalMoves

(* A loaded checkpoint counts what was scanned.                            *)
LEMMA LoadedCount ==
  ASSUME LInv, NEW k \in SlotIndex, LoadCheckpoint(k)
  PROVE  /\ count' = scanned /\ gen' \in 0 .. MaxGeneration /\ active' = k
         /\ slots[k] \in Checkpoint /\ slots[k].count = scanned
         /\ lastSeq' = scanned /\ sequence = scanned
         /\ \A i \in 1 .. scanned : log[i] \in Record
<1>1. /\ pc = "load" /\ slots[k] \in Checkpoint /\ HasLength(log, slots[k].count)
      /\ count' = slots[k].count /\ lastSeq' = slots[k].last /\ gen' = slots[k].gen
      /\ active' = k
  BY DEF LoadCheckpoint, OpensWith
<1>2. /\ HasLength(log, scanned) /\ scanned \in 0 .. MaxRecords /\ sequence = scanned
      /\ slots[k].last = slots[k].count /\ \A i \in 1 .. scanned : log[i] \in Record
  BY <1>1 DEF LInv, LegacyTypes, LegacyNumbered, LegacyScanned, Opening, Deciding
<1>3. slots[k].count \in 0 .. MaxRecords /\ slots[k].gen \in 0 .. MaxGeneration
  BY <1>1, FormatAssumption DEF Checkpoint
<1>4. slots[k].count = scanned
  BY <1>1, <1>2, <1>3, OneLength
<1> QED BY <1>1, <1>2, <1>3, <1>4

(* A batch continues the numbers of the log.                               *)
LEMMA BatchContinues ==
  ASSUME Hypotheses, LInv, AppendBatch
  PROVE  /\ pc = "ready" /\ pc' = "writing" /\ count' = count /\ lastSeq' = lastSeq
         /\ written' = 0 /\ failed' = failed
         /\ batch' \in Batch /\ batch'.size >= 1 /\ count + batch'.size <= MaxRecords
         /\ batch'.first = count + 1
         /\ sequence' = count + batch'.size
<1> USE FormatAssumption, OptionsAssumption
<1>1. PICK size \in 1 .. BatchCapacity :
           \/ ~failed /\ BeginBatch(NextSeq(sequence), size)
           \/ failed /\ BeginBatch(NextSeq(lastSeq), size)
  BY DEF AppendBatch
<1>2. PICK first : /\ BeginBatch(first, size)
                   /\ \/ ~failed /\ first = NextSeq(sequence)
                      \/ failed /\ first = NextSeq(lastSeq)
  BY <1>1, Zenon
<1>3. /\ pc = "ready" /\ count + size <= MaxRecords /\ pc' = "writing" /\ written' = 0
      /\ batch' = [first |-> first, size |-> size]
      /\ count' = count /\ lastSeq' = lastSeq /\ failed' = failed
  BY <1>2 DEF BeginBatch
<1>4. lastSeq = count /\ count \in 0 .. MaxRecords /\ (~failed => sequence = count)
  BY <1>3 DEF LInv, LegacyTypes, LegacyNumbered, Holding
<1>5. first = NextSeq(count)
  BY <1>2, <1>4, Zenon
<1>6. count + 1 \in 0 .. MaxRecords /\ count + size \in 0 .. MaxRecords
  BY <1>3, <1>4
<1>7. first = count + 1
  BY <1>5, <1>6, SmallSeq DEF NextSeq
<1>8. first \in SeqNum
  BY <1>6, <1>7 DEF SeqNum, Hypotheses
<1>9. batch' \in Batch /\ batch'.first = count + 1 /\ batch'.size = size
  BY <1>3, <1>7, <1>8 DEF Batch
<1>10. sequence' = (count + size) % SeqModulus
  <2>1. sequence' = (batch'.first + batch'.size - 1) % SeqModulus
    BY DEF AppendBatch
  <2>2. batch'.first + batch'.size - 1 = count + size
    BY <1>9, <1>4
  <2> QED BY <2>1, <2>2
<1>11. sequence' = count + size
  BY <1>6, <1>10, SmallSeq
<1> QED BY <1>3, <1>9, <1>11

(* The batch that is done was the next one.                                *)
LEMMA BatchCounted ==
  ASSUME Hypotheses, LInv, FinishBatch
  PROVE  /\ pc = "writing" /\ pc' \in {"logSync", "ready"}
         /\ written = batch.size /\ count' = count + batch.size /\ count' \in 0 .. MaxRecords
         /\ lastSeq' = count' /\ count <= count'
         /\ ~failed' => ~failed
<1> USE FormatAssumption, OptionsAssumption
<1>1. /\ pc = "writing" /\ written = batch.size /\ count' = count + batch.size
      /\ lastSeq' = BatchSeq(batch.size - 1) /\ pc' \in {"logSync", "ready"}
  BY DEF FinishBatch
<1>2. /\ count \in 0 .. MaxRecords /\ batch.size \in Nat /\ batch.first = count + 1
      /\ count + batch.size <= MaxRecords
  BY <1>1 DEF LInv, LegacyTypes, LegacyNumbered, Batch
<1>3. count + batch.size \in 0 .. MaxRecords
  BY <1>2
<1>4. batch.first + (batch.size - 1) = count + batch.size
  BY <1>2
<1>5. lastSeq' = count + batch.size
  BY <1>1, <1>3, <1>4, SmallSeq DEF BatchSeq
<1>6. ~failed' => ~failed
  BY Zenon DEF FinishBatch
<1> QED BY <1>1, <1>2, <1>3, <1>5, <1>6

(* Every variable keeps its type.                                          *)
LEMMA LegacyTypesStep ==
  ASSUME Hypotheses, LInv, [LegacyNext]_legacyVars
  PROVE  LegacyTypes'
<1> USE FormatAssumption, OptionsAssumption
<1> DEFINE Values ==
      /\ batch \in Batch /\ written \in Nat /\ session \in Session
      /\ count \in 0 .. MaxRecords /\ scanned \in 0 .. MaxRecords
      /\ gen \in 0 .. MaxGeneration /\ active \in SlotIndex
      /\ pc = "writing" => written <= batch.size /\ count + batch.size <= MaxRecords
      /\ pc \in {"ckptResize", "ckptSync"} => gen < MaxGeneration
<1> SUFFICES Values'
  BY CellTypes, SlotTypes DEF LegacyTypes
<1>0. LegacyTypes
  BY DEF LInv
<1>f. FreshWriter /\ pc' \notin {"writing", "ckptResize", "ckptSync"}
        /\ session' = session /\ scanned' \in 0 .. MaxRecords => Values'
  <2>1. NoBatch \in Batch
    BY DEF NoBatch, Batch, SeqNum
  <2> QED BY <1>0, <2>1 DEF FreshWriter, SlotIndex, LegacyTypes
<1>u. UNCHANGED <<batch, written, count, gen, active, session>>
        /\ pc' \notin {"writing", "ckptResize", "ckptSync"} /\ scanned' \in 0 .. MaxRecords
        => Values'
  BY <1>0 DEF LegacyTypes
<1>1. CASE Start
  BY <1>0, <1>1 DEF Start, writerState, Session, LegacyTypes
<1>2. CASE Recover
  <2>1. scanned' \in 0 .. MaxRecords /\ pc' \in RecoveryPc \cup {"closed"}
    BY <1>0, <1>2 DEF Recover, RecoveryStep, Scan, ChooseCheckpoint, NothingToRecover,
       Refuse, StartMigration, MigrateJournal, SyncMigration, Selected, Consistent,
       Checkpoint, RecoveryPc, LegacyTypes
  <2> QED BY <1>2, <1>u, <2>1 DEF Recover, writerState, history, RecoveryPc
<1>3. CASE MigrateLegacy
  <2>1. scanned' \in 0 .. MaxRecords /\ pc' \in RecoveryPc \cup LegacyPc
    BY <1>0, <1>3 DEF MigrateLegacy, LegacyStep, DiscardCorrupt, AlreadyCommitted,
       RefuseLegacy, RollForward, AppendEntry, SyncRollForward, Rescan, ReplaceJournal,
       RecoveryPc, LegacyPc, LegacyTypes
  <2> QED BY <1>3, <1>u, <2>1 DEF MigrateLegacy, writerState, history, RecoveryPc, LegacyPc
<1>4. CASE AppendBatch
  <2>1. scanned' = scanned /\ UNCHANGED <<gen, active, session>>
    BY <1>4 DEF AppendBatch, BeginBatch, history
  <2>2. batch'.size \in Nat
    BY <1>4, BatchContinues, OptionsAssumption DEF Batch
  <2> QED BY <1>0, <1>4, <2>1, <2>2, BatchContinues DEF LegacyTypes
<1>5. CASE Write
  <2>1. session' = session /\ scanned' \in 0 .. MaxRecords
    BY <1>0, <1>5 DEF Write, WriterStep, OpenLog, OpenLogFails, WriteHeader, SyncHeader,
       OpenJournal, InitializeCheckpoint, SyncDirectory, OpenFails, LoadCheckpoint,
       RejectBatch, WriteRecord, WriteFails, FinishBatch, Flush, Close, SyncLog,
       WriteCheckpoint, ResizeJournal, SyncJournal, CommitFails, RecordFailure,
       history, LegacyTypes
  <2>2. ASSUME NEW k \in SlotIndex, LoadCheckpoint(k) PROVE Values'
    <3>1. UNCHANGED <<batch, written, session>> /\ pc' \in {"dirSync", "ready"}
      BY <2>2 DEF LoadCheckpoint, history
    <3> QED BY <1>0, <2>1, <2>2, <3>1, LoadedCount DEF LegacyTypes
  <2>3. CASE WriteRecord
    <3>1. UNCHANGED <<batch, pc, count, gen, active>> /\ written < batch.size /\ pc = "writing"
      BY <2>3 DEF WriteRecord
    <3>2. written' \in {written, written + 1} /\ batch.size \in Nat
      BY <2>3, WrittenRecord, <1>0, OptionsAssumption DEF LegacyTypes, Batch
    <3> QED BY <1>0, <2>1, <3>1, <3>2 DEF LegacyTypes
  <2>4. CASE FinishBatch
    <3>1. UNCHANGED <<gen, active>> /\ batch' = NoBatch /\ written' = 0
      BY <2>4 DEF FinishBatch
    <3>2. NoBatch \in Batch
      BY DEF NoBatch, Batch, SeqNum
    <3> QED BY <1>0, <2>1, <2>4, <3>1, <3>2, BatchCounted DEF LegacyTypes
  <2>5. CASE WriteFails
    <3>1. NoBatch \in Batch
      BY DEF NoBatch, Batch, SeqNum
    <3> QED BY <1>0, <2>1, <2>5, <3>1 DEF WriteFails, LegacyTypes
  <2>6. CASE WriteCheckpoint \/ ResizeJournal
    BY <1>0, <2>1, <2>6 DEF WriteCheckpoint, ResizeJournal, writerState, LegacyTypes
  <2>7. CASE SyncJournal
    <3>1. CASE Exit
      BY <1>f, <2>1, <3>1 DEF Exit
    <3>2. CASE ~Exit
      <4>1. UNCHANGED <<batch, written, count>> /\ pc' \in {"dirSync", "ready"}
        BY <2>7, <3>2 DEF SyncJournal
      <4>2. gen' = gen + 1 /\ active' = OtherSlot(active) /\ pc = "ckptSync"
        BY <2>7, <3>2 DEF SyncJournal
      <4>3. gen' \in 0 .. MaxGeneration /\ active' \in SlotIndex
        BY <1>0, <4>2, TwoSlots DEF LegacyTypes
      <4> QED BY <1>0, <2>1, <4>1, <4>3 DEF LegacyTypes
    <3> QED BY <3>1, <3>2
  <2>8. CASE Exit
    BY <1>f, <2>1, <2>8 DEF Exit
  <2>9. CASE /\ UNCHANGED <<batch, written, count, gen, active>>
             /\ pc' \notin {"writing", "ckptResize", "ckptSync"}
    BY <1>u, <2>1, <2>9
  <2>10. pc \in WriterPc => journalLen = "full"
    BY DEF LInv, LegacyFiles
  <2> QED
    BY <1>5, <2>2, <2>3, <2>4, <2>5, <2>6, <2>7, <2>8, <2>9, <2>10
       DEF Write, WriterStep, OpenLog, OpenLogFails, WriteHeader, SyncHeader,
           OpenJournal, InitializeCheckpoint, SyncDirectory, OpenFails, RejectBatch,
           Flush, Close, SyncLog, CommitFails, RecordFailure, writerState, WriterPc
<1>6. CASE Crash \/ PowerLoss
  BY <1>f, <1>6 DEF Crash, PowerLoss, Exit, history
<1>7. CASE Kernel \/ UNCHANGED legacyVars
  BY <1>0, <1>7 DEF Kernel, writerVars, writerState, history, legacyVars, vars, LegacyTypes
<1> QED BY <1>1, <1>2, <1>3, <1>4, <1>5, <1>6, <1>7 DEF LegacyNext

(* Records, slots, writer, recorder and batch keep their numbers.          *)
LEMMA LegacyNumberedStep ==
  ASSUME Hypotheses, LInv, [LegacyNext]_legacyVars
  PROVE  LegacyNumbered'
<1> USE FormatAssumption DEF Opening, Holding
<1> DEFINE Numbers ==
      /\ lastSeq = count
      /\ pc \in Opening => sequence = scanned
      /\ pc = "writing" => batch.first = count + 1
      /\ pc \in Holding \ {"writing"} /\ ~failed => sequence = count
      /\ pc = "writing" /\ ~failed => sequence = count + batch.size
<1> SUFFICES Numbers'
  BY LegacyInOrder, SlotTypes DEF LegacyNumbered
<1>0. LegacyNumbered /\ LegacyTypes
  BY DEF LInv
<1>e. Exit => Numbers'
  BY DEF Exit, FreshWriter
<1>u. UNCHANGED <<lastSeq, count>> /\ pc' \notin Opening \cup Holding => Numbers'
  BY <1>0 DEF LegacyNumbered
<1>1. CASE Start
  BY <1>1, <1>u DEF Start, writerState
<1>2. CASE Recover
  <2>1. UNCHANGED <<lastSeq, count>>
    BY <1>2 DEF Recover, writerState
  <2>2. CASE pc' # "closed"
    <3>1. pc' \in RecoveryPc
      BY <1>2, <2>2 DEF Recover, RecoveryStep, Scan, ChooseCheckpoint, NothingToRecover,
         Refuse, StartMigration, MigrateJournal, SyncMigration, RecoveryPc
    <3> QED BY <1>u, <2>1, <3>1 DEF RecoveryPc
  <2>3. CASE pc' = "closed"
    <3>1. scanned' \in 0 .. MaxRecords /\ InOrder(log)' /\ log' \in [Position -> Cell]
      BY LegacyTypesStep, LegacyInOrder DEF LegacyTypes
    <3>2. scanned' # 0 => log'[scanned'] \in Record
      <4>1. CASE SyncMigration
        BY <4>1, <3>1 DEF SyncMigration, logCache, LInv, LegacyScanned, Deciding, Replacing
      <4>2. ASSUME NEW k \in SlotIndex, ChooseCheckpoint(k)
            PROVE  scanned' # 0 => log'[scanned'] \in Record
        <5>1. /\ slots[k].count <= scanned /\ slots[k].count \in 0 .. MaxRecords
              /\ scanned' = slots[k].count /\ log' = TruncateTo(log, slots[k].count)
              /\ \A i \in 1 .. scanned : log[i] \in Record
          BY <4>2 DEF ChooseCheckpoint, Selected, Consistent, Checkpoint, TruncateLog,
             LInv, LegacyScanned, Deciding
        <5> QED BY <5>1, <1>0 DEF TruncateTo, Position, LegacyTypes
      <4>3. ~NothingToRecover
        BY DEF NothingToRecover, LInv, LegacyFiles, WithLog, Headless
      <4> QED
        BY <1>2, <2>3, <4>1, <4>2, <4>3 DEF Recover, RecoveryStep, Scan, Refuse,
           StartMigration, MigrateJournal
    <3>3. sequence' = scanned'
      <4>1. sequence' = IF scanned' # 0 THEN log'[scanned'].seq ELSE 0
        BY <1>2, <2>3 DEF Recover
      <4>2. scanned' # 0 => scanned' \in Position
        BY <3>1 DEF Position
      <4> QED BY <3>1, <3>2, <4>1, <4>2 DEF InOrder
    <3> QED BY <1>0, <2>1, <2>3, <3>3 DEF LegacyNumbered
  <2> QED BY <2>2, <2>3
<1>3. CASE MigrateLegacy
  <2>1. pc' \in RecoveryPc \cup LegacyPc
    BY <1>3 DEF MigrateLegacy, LegacyStep, DiscardCorrupt, AlreadyCommitted,
       RefuseLegacy, RollForward, AppendEntry, SyncRollForward, Rescan, ReplaceJournal,
       RecoveryPc, LegacyPc
  <2> QED BY <1>3, <1>u, <2>1 DEF MigrateLegacy, writerState, RecoveryPc, LegacyPc
<1>4. CASE AppendBatch
  BY <1>0, <1>4, BatchContinues DEF LegacyNumbered
<1>5. CASE Write
  <2>1. CASE pc' = "down"
    <3>1. Exit
      BY <1>5, <2>1 DEF Write, WriterStep, OpenLog, OpenLogFails, WriteHeader, SyncHeader,
         OpenJournal, InitializeCheckpoint, SyncDirectory, OpenFails, LoadCheckpoint,
         RejectBatch, WriteRecord, WriteFails, FinishBatch, Flush, Close, SyncLog,
         WriteCheckpoint, ResizeJournal, SyncJournal, CommitFails, RecordFailure
    <3> QED BY <1>e, <3>1
  <2>2. CASE pc' # "down"
    <3>1. UNCHANGED <<scanned, sequence>> /\ (pc \in WriterPc => journalLen = "full")
      BY <1>5, <2>2 DEF Write, LInv, LegacyFiles
    <3>2. ASSUME NEW k \in SlotIndex, LoadCheckpoint(k) PROVE Numbers'
      <4>1. pc' \in {"dirSync", "ready"}
        BY <3>2 DEF LoadCheckpoint
      <4> QED BY <3>1, <3>2, <4>1, LoadedCount
    <3>3. CASE FinishBatch
      BY <1>0, <3>1, <3>3, BatchCounted DEF LegacyNumbered
    <3>4. CASE WriteRecord
      BY <1>0, <3>1, <3>4 DEF WriteRecord, LegacyNumbered
    <3>5. CASE WriteFails
      BY <1>0, <3>5 DEF WriteFails, LegacyNumbered
    <3>6. CASE /\ UNCHANGED <<lastSeq, count>> /\ pc \in Holding \ {"writing"}
               /\ pc' \in Holding \ {"writing"} /\ (~failed' => ~failed)
      BY <1>0, <3>1, <3>6 DEF LegacyNumbered
    <3>7. CASE UNCHANGED <<lastSeq, count>> /\ pc \in Opening /\ pc' \in Opening
      BY <1>0, <3>1, <3>7 DEF LegacyNumbered
    <3>8. CASE OpenLog \/ WriteHeader \/ SyncHeader \/ OpenJournal
      BY <3>7, <3>8 DEF OpenLog, WriteHeader, SyncHeader, OpenJournal, writerState
    <3>9. CASE SyncDirectory \/ Flush \/ SyncLog \/ WriteCheckpoint \/ ResizeJournal
      BY <3>6, <3>9 DEF SyncDirectory, Flush, SyncLog, WriteCheckpoint, ResizeJournal,
         writerState
    <3>10. CASE RejectBatch \/ SyncJournal \/ CommitFails \/ Close
      BY <2>2, <3>6, <3>10 DEF RejectBatch, SyncJournal, CommitFails, Close, RecordFailure,
         Exit, writerState
    <3> QED
      BY <1>5, <2>2, <3>1, <3>2, <3>3, <3>4, <3>5, <3>8, <3>9, <3>10
         DEF Write, WriterStep, OpenLogFails, InitializeCheckpoint, OpenFails, Exit, WriterPc
  <2> QED BY <2>1, <2>2
<1>6. CASE Crash \/ PowerLoss
  BY <1>e, <1>6 DEF Crash, PowerLoss
<1>7. CASE Kernel \/ UNCHANGED legacyVars
  BY <1>0, <1>7 DEF Kernel, writerVars, writerState, legacyVars, vars, LegacyNumbered
<1> QED BY <1>1, <1>2, <1>3, <1>4, <1>5, <1>6, <1>7 DEF LegacyNext

-----------------------------------------------------------------------------
(* What recovery finds                                                     *)

(* A scan finds every valid record in front of the first bad one, and cuts *)
(* behind them.                                                            *)
LEMMA ScanFinds ==
  ASSUME Hypotheses, LInv, Scan
  PROVE  /\ scanned' \in 0 .. MaxRecords /\ dlog' = dlog
         /\ \A i \in 1 .. scanned' : log'[i] \in Record /\ log'[i] = log[i]
         /\ HasLength(log', scanned')
         /\ \A m \in 0 .. MaxRecords : (\A i \in 1 .. m : log[i] \in Record) => m <= scanned'
         /\ \A i \in Position : log'[i] # Absent => log'[i] = log[i]
<1> USE FormatAssumption, SentinelAssumption
<1>0. log \in [Position -> Cell] /\ InOrder(log) /\ dlog' = dlog
  BY DEF LInv, LegacyTypes, LegacyNumbered, Scan, logDurable
<1>1. CASE logHead = "valid"
  <2>1. PICK n \in 0 .. MaxRecords :
             ScanStopsAt(log, n) /\ log' = TruncateTo(log, n) /\ scanned' = n
    BY <1>1 DEF Scan, TruncateLog
  <2>2. \A i \in Position : log'[i] = IF i <= n THEN log[i] ELSE Absent
    BY <2>1 DEF TruncateTo
  <2>3. \A i \in 1 .. n : i \in Position /\ log[i] \in Record
    BY <2>1 DEF ScanStopsAt, ValidPrefix, Position
  <2>4. \A i \in 1 .. n : log'[i] \in Record /\ log'[i] = log[i]
    BY <2>1, <2>2, <2>3
  <2>5. HasLength(log', n)
    <3> SUFFICES ASSUME NEW i \in Position PROVE (log'[i] = Absent) <=> (i > n)
      BY DEF HasLength
    <3>1. CASE i <= n
      <4>1. i \in 1 .. n
        BY <2>1, <3>1 DEF Position
      <4> QED BY <2>1, <2>4, <3>1, <4>1 DEF Position
    <3>2. CASE i > n
      BY <2>1, <2>2, <3>2 DEF Position
    <3> QED BY <2>1, <3>1, <3>2 DEF Position
  <2>6. \A m \in 0 .. MaxRecords : (\A i \in 1 .. m : log[i] \in Record) => m <= n
    BY <1>0, <2>1, ScanReaches
  <2> QED BY <1>0, <2>1, <2>2, <2>4, <2>5, <2>6
<1>2. CASE logHead # "valid"
  <2>1. log = NoRecords /\ log' = log /\ scanned' = 0
    BY <1>2 DEF Scan, LInv, LegacyFiles, WithLog, Headless
  <2>2. \A i \in Position : log[i] = Absent
    BY <2>1 DEF NoRecords
  <2>3. HasLength(log', 0)
    BY <2>1, <2>2 DEF HasLength, Position
  <2>4. ASSUME NEW m \in 0 .. MaxRecords, \A i \in 1 .. m : log[i] \in Record
        PROVE  m <= 0
    <3> SUFFICES ASSUME m # 0 PROVE FALSE
      OBVIOUS
    <3>1. 1 \in 1 .. m /\ 1 \in Position
      BY DEF Position
    <3> QED BY <2>2, <2>4, <3>1
  <2> QED BY <1>0, <2>1, <2>3, <2>4
<1> QED BY <1>1, <1>2

(* Choosing a checkpoint cuts the log behind the records it counts.        *)
LEMMA ChooseFinds ==
  ASSUME LInv, NEW k \in SlotIndex, ChooseCheckpoint(k)
  PROVE  /\ scanned' = slots[k].count /\ slots[k].count \in 0 .. MaxRecords
         /\ slots[k] \in Checkpoint /\ dlog' = dlog
         /\ \A i \in 1 .. scanned' : log'[i] \in Record
         /\ \A i \in Position : i <= scanned' => log'[i] = log[i]
         /\ HasLength(log', scanned')
         /\ \A i \in Position : log'[i] # Absent => log'[i] = log[i]
<1> USE FormatAssumption, SentinelAssumption
<1>1. /\ slots[k] \in Checkpoint /\ slots[k].count <= scanned
      /\ scanned' = slots[k].count /\ log' = TruncateTo(log, slots[k].count)
      /\ dlog' = dlog /\ pc = "choose"
  BY DEF ChooseCheckpoint, Selected, Consistent, TruncateLog, logDurable
<1>2. PICK n \in 0 .. MaxRecords : n = slots[k].count
  BY <1>1 DEF Checkpoint
<1>3. scanned \in 0 .. MaxRecords /\ \A i \in 1 .. scanned : log[i] \in Record
  BY <1>1 DEF LInv, LegacyTypes, LegacyScanned, Deciding
<1>4. \A i \in Position : log'[i] = IF i <= n THEN log[i] ELSE Absent
  BY <1>1, <1>2 DEF TruncateTo
<1>5. \A i \in Position : i <= n => log'[i] \in Record
  <2> TAKE i \in Position
  <2> HAVE i <= n
  <2>1. i \in 1 .. scanned
    BY <1>1, <1>2, <1>3 DEF Position
  <2> QED BY <1>3, <1>4, <2>1
<1>6. HasLength(log', n)
  <2> SUFFICES ASSUME NEW i \in Position PROVE (log'[i] = Absent) <=> (i > n)
    BY DEF HasLength
  <2>1. CASE i <= n
    BY <1>5, <2>1 DEF Position
  <2>2. CASE i > n
    BY <1>4, <2>2 DEF Position
  <2> QED BY <2>1, <2>2 DEF Position
<1>7. \A i \in 1 .. n : i \in Position /\ i <= n
  BY DEF Position
<1> QED BY <1>1, <1>2, <1>4, <1>5, <1>6, <1>7

(* The second scan ends at the entry, which is then the last record.       *)
LEMMA RescanFinds ==
  ASSUME Hypotheses, LInv, Rescan, logHead = "valid"
  PROVE  /\ scanned' = entry.seq /\ entry.seq = scanned + 1 /\ entry \in Record
         /\ scanned' \in Position /\ UNCHANGED Cells
         /\ \A i \in 1 .. scanned' : log[i] \in Record
         /\ HasLength(log, scanned')
         /\ ReplaceJournal
<1> USE FormatAssumption
<1>1. /\ pc = "rescan" /\ ReplaceJournal
      /\ \E n \in 1 .. MaxRecords :
           ScanStopsAt(log, n) /\ log[n].seq = entry.seq /\ scanned' = n
  BY DEF Rescan
<1>2. PICK n \in Position :
           ScanStopsAt(log, n) /\ log[n].seq = entry.seq /\ scanned' = n
  BY <1>1 DEF Position
<1>3. \A i \in 1 .. n : log[i] \in Record
  BY <1>2 DEF ScanStopsAt, ValidPrefix
<1>4. n \in 1 .. n
  BY DEF Position
<1>5. log[n].seq = n
  BY <1>3, <1>4 DEF LInv, LegacyNumbered, InOrder
<1>6. entry \in Record /\ entry.seq = scanned + 1 /\ HasLength(log, scanned + 1)
  BY <1>1 DEF LInv, LegacyScanned, LegacyPc
<1>7. UNCHANGED Cells
  BY <1>1 DEF ReplaceJournal, Cells, logCache, logDurable
<1> QED BY <1>1, <1>2, <1>3, <1>5, <1>6, <1>7

(* The last record's number, as the migration sees it.                     *)
LEMMA LastIsScanned ==
  ASSUME LInv, AtLegacyJournal
  PROVE  LastSequence = scanned /\ scanned \in 0 .. MaxRecords
<1>1. /\ scanned \in 0 .. MaxRecords /\ InOrder(log)
      /\ \A i \in 1 .. scanned : log[i] \in Record
  BY DEF LInv, LegacyTypes, LegacyNumbered, LegacyScanned, AtLegacyJournal, Deciding
<1>2. scanned # 0 => scanned \in Position /\ scanned \in 1 .. scanned
  BY <1>1, FormatAssumption DEF Position
<1> QED BY <1>1, <1>2 DEF LastSequence, InOrder

(* Without a log there is nothing that the entry could already be in.      *)
LEMMA HeadlessScan ==
  ASSUME LInv, Headless, pc \in Deciding
  PROVE  scanned = 0
<1>1. scanned \in 0 .. MaxRecords /\ log = NoRecords /\ \A i \in 1 .. scanned : log[i] \in Record
  BY DEF LInv, LegacyTypes, LegacyScanned, Headless
<1>2. SUFFICES ASSUME scanned # 0 PROVE FALSE
  OBVIOUS
<1>3. 1 \in 1 .. scanned /\ 1 \in Position
  BY <1>1, <1>2, FormatAssumption DEF Position
<1>4. log[1] = Absent
  BY <1>1, <1>3 DEF NoRecords
<1> QED BY <1>1, <1>3, <1>4, SentinelAssumption

(* The header of a log that has one is never lost, and a log without one   *)
(* is not opened.                                                          *)
LEMMA HeadStep ==
  ASSUME Hypotheses, LInv, [LegacyNext]_legacyVars
  PROVE  WithLog' \/ Headless'
<1> USE DEF File
<1>s. \A f \in File : SyncEntry(f) => entries' = entries \cup {f}
  BY DEF SyncEntry, Hypotheses
<1>1. CASE WithLog
  <2> SUFFICES WithLog'
    OBVIOUS
  <2>0. logHead = "valid" /\ dlogHead = "valid" /\ entries = File
        /\ pc \notin {"header", "headerSync"} /\ (pc \in WriterPc => journalLen = "full")
    BY <1>1 DEF WithLog, LInv, LegacyFiles
  <2> USE DEF WithLog, diskVars
  <2>1. CASE Start \/ AppendBatch \/ Crash \/ UNCHANGED legacyVars
    BY <2>0, <2>1 DEF Start, AppendBatch, BeginBatch, Crash, Exit, legacyVars, vars, writerVars
  <2>2. CASE Recover
    <3>1. UNCHANGED <<logHead, dlogHead>>
      BY <2>2 DEF Recover, RecoveryStep, Scan, ChooseCheckpoint, NothingToRecover, Refuse,
         StartMigration, MigrateJournal, SyncMigration, logCache, logDurable
    <3>2. entries' = File
      BY <1>s, <2>0, <2>2 DEF Recover, RecoveryStep, Scan, ChooseCheckpoint,
         NothingToRecover, Refuse, StartMigration, MigrateJournal, SyncMigration,
         SyncJournalFile
    <3>3. pc' \notin {"header", "headerSync"}
      BY <2>2 DEF Recover, RecoveryStep, Scan, ChooseCheckpoint, NothingToRecover, Refuse,
         StartMigration, MigrateJournal, SyncMigration
    <3> QED BY <2>0, <3>1, <3>2, <3>3
  <2>3. CASE MigrateLegacy
    <3>1. logHead' = "valid" /\ dlogHead' = "valid" /\ entries' = File
      BY <1>s, <2>0, <2>3 DEF MigrateLegacy, LegacyStep, DiscardCorrupt, AlreadyCommitted,
         RefuseLegacy, RollForward, AppendEntry, SyncRollForward, Rescan, ReplaceJournal,
         SyncLogFile, logCache, logDurable
    <3>2. pc' \notin {"header", "headerSync"}
      BY <2>3 DEF MigrateLegacy, LegacyStep, DiscardCorrupt, AlreadyCommitted,
         RefuseLegacy, RollForward, AppendEntry, SyncRollForward, Rescan, ReplaceJournal
    <3> QED BY <3>1, <3>2
  <2>4. CASE Write
    <3>1. logHead' = "valid" /\ dlogHead' = "valid" /\ entries' = File
      BY <1>s, <2>0, <2>4
         DEF Write, WriterStep, OpenLog, OpenLogFails, WriteHeader, SyncHeader,
             OpenJournal, InitializeCheckpoint, SyncDirectory, OpenFails, LoadCheckpoint,
             RejectBatch, WriteRecord, WriteFails, FinishBatch, Flush, Close, SyncLog,
             WriteCheckpoint, ResizeJournal, SyncJournal, CommitFails, SyncLogFile,
             SyncJournalFile, logCache, logDurable
    <3>2. pc' \notin {"header", "headerSync"}
      BY <2>0, <2>4
         DEF Write, WriterStep, OpenLog, OpenLogFails, WriteHeader, SyncHeader,
             OpenJournal, InitializeCheckpoint, SyncDirectory, OpenFails, LoadCheckpoint,
             RejectBatch, WriteRecord, WriteFails, FinishBatch, Flush, Close, SyncLog,
             WriteCheckpoint, ResizeJournal, SyncJournal, CommitFails, RecordFailure, Exit
    <3> QED BY <3>1, <3>2
  <2>5. CASE Kernel
    BY <2>0, <2>5 DEF Kernel, Writeback, WritebackHead, WritebackRecord, WritebackTruncate,
       WritebackJournal, WritebackEntry, logCache, logDurable, writerVars
  <2>6. CASE PowerLoss
    BY <2>0, <2>6 DEF PowerLoss, LosePower, Exit
  <2> QED BY <2>1, <2>2, <2>3, <2>4, <2>5, <2>6 DEF LegacyNext
<1>2. CASE Headless
  <2> SUFFICES Headless'
    OBVIOUS
  <2>0. /\ legacy = 0 /\ logHead # "valid" /\ dlogHead # "valid" /\ "journal" \in entries
        /\ journalLen = "legacy" /\ djournalLen = "legacy" /\ log = NoRecords /\ dlog = NoRecords
        /\ pc \in {"down", "scan", "choose", "refused"} \cup LegacyPc
    BY <1>2 DEF Headless, LInv, LegacyFiles
  <2>i. legacy' = legacy
    BY DEF LegacyNext, inherited, legacyVars
  <2> USE DEF Headless, LegacyPc, logCache, logDurable, journalCache, journalDurable, diskVars
  <2>1. CASE Start \/ Crash \/ UNCHANGED legacyVars
    BY <2>0, <2>1, <2>i DEF Start, Crash, Exit, legacyVars, vars, writerVars
  <2>2. CASE Recover
    BY <2>0, <2>2, <2>i DEF Recover, RecoveryStep, Scan, ChooseCheckpoint,
       NothingToRecover, Refuse, StartMigration, MigrateJournal, SyncMigration
  <2>3. CASE MigrateLegacy
    <3>1. ~AlreadyCommitted
      <4>1. ASSUME AlreadyCommitted PROVE FALSE
        <5>1. AtLegacyJournal /\ entry \in Record /\ LastSequence >= entry.seq
          BY <4>1, EntryIsRecord DEF AlreadyCommitted
        <5>2. LastSequence = 0
          BY <1>2, <5>1, LastIsScanned, HeadlessScan DEF AtLegacyJournal, Deciding
        <5>3. entry.seq \in Nat /\ entry.seq >= 1
          BY <5>1, FormatAssumption DEF LInv, Inheritance, Record, SeqNum
        <5> QED BY <5>1, <5>2, <5>3
      <4> QED BY <4>1
    <3>2. CASE RefuseLegacy \/ RollForward
      BY <2>0, <2>i, <3>2 DEF RefuseLegacy, RollForward, AtLegacyJournal
    <3>3. CASE AppendEntry
      BY <2>0, <2>i, <3>3 DEF AppendEntry
    <3>4. CASE SyncRollForward
      BY <1>s, <2>0, <2>i, <3>4 DEF SyncRollForward, SyncLogFile
    <3>5. CASE Rescan
      BY <2>0, <2>i, <3>5 DEF Rescan
    <3>6. ~DiscardCorrupt
      BY <2>0 DEF DiscardCorrupt
    <3> QED BY <2>3, <3>1, <3>2, <3>3, <3>4, <3>5, <3>6 DEF MigrateLegacy, LegacyStep
  <2>4. CASE Kernel
    <3>1. NoRecords \in [Position -> Cell] /\ \A i \in Position : NoRecords[i] = Absent
      BY DEF NoRecords, Cell
    <3>2. \A i \in Position : ~WritebackRecord(i)
      BY <2>0, <3>1 DEF WritebackRecord
    <3>3. ~WritebackTruncate
      BY <2>0, <3>1 DEF WritebackTruncate
    <3>4. CASE WritebackHead \/ WritebackJournal \/ WritebackEntry
      BY <2>0, <2>i, <2>4, <3>4 DEF Kernel, WritebackHead, WritebackJournal, WritebackEntry,
         writerVars
    <3> QED BY <2>4, <3>2, <3>3, <3>4 DEF Kernel, Writeback
  <2>5. CASE PowerLoss
    BY <2>0, <2>5, <2>i DEF PowerLoss, LosePower, Exit
  <2>6. ~Write /\ ~AppendBatch
    BY <2>0 DEF AppendBatch, BeginBatch, Write, WriterStep, OpenLog, OpenLogFails,
       WriteHeader, SyncHeader, OpenJournal, InitializeCheckpoint, SyncDirectory, OpenFails,
       LoadCheckpoint, RejectBatch, WriteRecord, WriteFails, FinishBatch, Flush, Close,
       SyncLog, WriteCheckpoint, ResizeJournal, SyncJournal, CommitFails
  <2> QED BY <2>1, <2>2, <2>3, <2>4, <2>5, <2>6 DEF LegacyNext
<1> QED BY <1>1, <1>2 DEF LInv, LegacyFiles

(* The old journal stays on stable storage until the process has taken     *)
(* the entry out of it.                                                    *)
LEMMA JournalStep ==
  ASSUME Hypotheses, LInv, [LegacyNext]_legacyVars
  PROVE  /\ journalLen' # "absent" /\ djournalLen' # "absent"
         /\ journalLen' = "legacy" => djournalLen' = "legacy" /\ slots' = NoSlots
         /\ djournalLen' = "legacy" => entry' # Absent /\ dslots' = NoSlots
<1>0. /\ journalLen # "absent" /\ djournalLen # "absent" /\ "journal" \in entries
      /\ journalLen = "legacy" => djournalLen = "legacy" /\ slots = NoSlots
      /\ djournalLen = "legacy" => entry # Absent /\ dslots = NoSlots
  BY DEF LInv, LegacyFiles, WithLog, Headless, File
<1>i. entry' = entry
  BY DEF LegacyNext, inherited, legacyVars
<1>1. CASE UNCHANGED Journals
  BY <1>0, <1>1, <1>i DEF Journals
<1>2. CASE ReplaceJournal
  BY <1>0, <1>2, <1>i DEF ReplaceJournal, journalDurable
<1>3. CASE MigrateJournal
  BY <1>0, <1>3, <1>i DEF MigrateJournal, journalDurable, LInv, LegacyFiles
<1>4. CASE WriteCheckpoint
  BY <1>0, <1>4, <1>i DEF WriteCheckpoint, journalDurable, LInv, LegacyFiles, WriterPc
<1>5. CASE /\ UNCHANGED <<journalLen, slots>>
           /\ djournalLen' = journalLen /\ dslots' = slots
  BY <1>0, <1>5, <1>i
<1>6. CASE PowerFails
  BY <1>0, <1>6, <1>i DEF PowerFails, PowerLoss, LosePower
<1> QED BY <1>1, <1>2, <1>3, <1>4, <1>5, <1>6, JournalMoves

(* The files stay in one of the states a migration goes through.           *)
LEMMA LegacyFilesStep ==
  ASSUME Hypotheses, LInv, [LegacyNext]_legacyVars
  PROVE  LegacyFiles'
<1> USE DEF LegacyPc, WriterPc, RecoveryPc
<1> DEFINE Journal ==
      /\ pc \in LegacyPc => journalLen = "legacy"
      /\ pc = "migrate" => journalLen # "legacy"
      /\ pc = "migrateSync" => journalLen = "full"
      /\ pc \in WriterPc => journalLen = "full"
<1> SUFFICES Journal'
  BY HeadStep, JournalStep DEF LegacyFiles
<1>0. Journal /\ journalLen # "absent" /\ (WithLog \/ Headless)
  BY DEF LInv, LegacyFiles
<1>1. CASE Start
  BY <1>0, <1>1 DEF Start
<1>2. CASE Recover
  <2>1. ~NothingToRecover
    BY <1>0 DEF NothingToRecover, WithLog, Headless
  <2> QED
    BY <1>0, <1>2, <2>1 DEF Recover, RecoveryStep, Scan, ChooseCheckpoint, Refuse,
       StartMigration, MigrateJournal, SyncMigration, journalCache, diskVars
<1>3. CASE MigrateLegacy
  BY <1>0, <1>3 DEF MigrateLegacy, LegacyStep, DiscardCorrupt, AlreadyCommitted,
     RefuseLegacy, RollForward, AppendEntry, SyncRollForward, Rescan, ReplaceJournal,
     AtLegacyJournal, journalCache, diskVars
<1>4. CASE AppendBatch
  BY <1>0, <1>4 DEF AppendBatch, BeginBatch, diskVars
<1>5. CASE Write
  <2>1. pc \in WriterPc /\ pc' \in WriterPc \cup {"down"}
    BY <1>5 DEF Write, WriterStep, OpenLog, OpenLogFails, WriteHeader, SyncHeader,
       OpenJournal, InitializeCheckpoint, SyncDirectory, OpenFails, LoadCheckpoint,
       RejectBatch, WriteRecord, WriteFails, FinishBatch, Flush, Close, SyncLog,
       WriteCheckpoint, ResizeJournal, SyncJournal, CommitFails, RecordFailure, Exit
  <2>2. journalLen' = "full"
    BY <1>0, <1>5, <2>1
       DEF Write, WriterStep, OpenLog, OpenLogFails, WriteHeader, SyncHeader,
       OpenJournal, InitializeCheckpoint, SyncDirectory, OpenFails, LoadCheckpoint,
       RejectBatch, WriteRecord, WriteFails, FinishBatch, Flush, Close, SyncLog,
       WriteCheckpoint, ResizeJournal, SyncJournal, CommitFails, journalCache, diskVars
  <2> QED BY <2>1, <2>2
<1>6. CASE Crash \/ PowerLoss
  BY <1>6 DEF Crash, PowerLoss, Exit
<1>7. CASE Kernel
  <2>1. pc' = pc /\ journalLen' = journalLen
    BY <1>7 DEF Kernel, Writeback, WritebackHead, WritebackRecord, WritebackTruncate,
       WritebackJournal, WritebackEntry, writerVars, journalCache
  <2> QED BY <1>0, <2>1
<1>8. CASE UNCHANGED legacyVars
  BY <1>0, <1>8 DEF legacyVars, vars, writerVars, diskVars
<1> QED BY <1>1, <1>2, <1>3, <1>4, <1>5, <1>6, <1>7, <1>8 DEF LegacyNext

(* A step hands on what recovery found, and finds no less.                 *)
LEMMA LegacyScannedStep ==
  ASSUME Hypotheses, LInv, [LegacyNext]_legacyVars
  PROVE  LegacyScanned'
<1> USE DEF LegacyPc, Deciding, Replacing, Opening
<1>0. LegacyScanned
  BY DEF LInv
<1>i. entry' = entry
  BY DEF LegacyNext, inherited, legacyVars
<1>d. ASSUME pc' \notin Deciding \cup Opening PROVE LegacyScanned'
  BY <1>d DEF LegacyScanned
<1>u. ASSUME UNCHANGED <<log, scanned>>, pc \in {"choose"} \cup Replacing \cup Opening,
             pc' \in {"choose"} \cup Replacing \cup Opening
      PROVE  LegacyScanned'
  BY <1>0, <1>u DEF LegacyScanned
<1>1. CASE Start \/ Crash \/ PowerLoss
  BY <1>1, <1>d DEF Start, Crash, PowerLoss, Exit
<1>2. CASE Recover
  <2>1. CASE Scan
    <3>1. pc' = "choose"
      BY <2>1 DEF Scan
    <3> QED BY <2>1, <3>1, ScanFinds DEF LegacyScanned
  <2>2. ASSUME NEW k \in SlotIndex, ChooseCheckpoint(k) PROVE LegacyScanned'
    <3>1. pc' = "closed"
      BY <2>2 DEF ChooseCheckpoint
    <3> QED BY <2>2, <3>1, ChooseFinds DEF LegacyScanned
  <2>3. CASE NothingToRecover \/ StartMigration \/ MigrateJournal \/ SyncMigration
    BY <1>u, <2>3 DEF NothingToRecover, StartMigration, MigrateJournal, SyncMigration,
       logCache, diskVars
  <2>4. CASE Refuse
    BY <1>d, <2>4 DEF Refuse
  <2> QED BY <1>2, <2>1, <2>2, <2>3, <2>4 DEF Recover, RecoveryStep
<1>3. CASE MigrateLegacy
  <2>1. CASE DiscardCorrupt \/ AlreadyCommitted
    BY <1>u, <2>1 DEF DiscardCorrupt, AlreadyCommitted, ReplaceJournal, AtLegacyJournal,
       logCache
  <2>2. CASE RefuseLegacy
    BY <1>d, <2>2 DEF RefuseLegacy
  <2>3. CASE RollForward
    <3>1. AtLegacyJournal /\ pc' = "append" /\ UNCHANGED <<log, scanned>>
          /\ LastSequence + 1 = entry.seq /\ entry \in Record
      BY <2>3, EntryIsRecord DEF RollForward, diskVars
    <3> QED BY <1>0, <1>i, <3>1, LastIsScanned DEF LegacyScanned, AtLegacyJournal
  <2>4. CASE AppendEntry
    <3>1. /\ pc = "append" /\ scanned \in 0 .. MaxRecords /\ log \in [Position -> Cell]
          /\ scanned' = scanned /\ entry \in Record
          /\ HasLength(log, scanned) \/ HasLength(log, scanned + 1)
      BY <1>0, <2>4 DEF AppendEntry, LegacyScanned, LInv, LegacyTypes
    <3>2. CASE logHead = "valid"
      <4>1. PICK cell \in {Torn, entry} : log' = [log EXCEPT ![scanned + 1] = cell]
        BY <2>4, <3>2 DEF AppendEntry
      <4>2. cell # Absent
        BY <3>1, SentinelAssumption
      <4>3. HasLength(log', scanned + 1)
        BY <3>1, <4>1, <4>2, FormatAssumption DEF HasLength, Position
      <4>4. \A i \in 1 .. scanned : log'[i] = log[i]
        BY <3>1, <4>1, FormatAssumption DEF Position
      <4> QED BY <1>0, <1>i, <2>4, <3>1, <3>2, <4>3, <4>4 DEF AppendEntry, LegacyScanned
    <3>3. CASE logHead # "valid"
      <4>1. log' = log /\ logHead' # "valid" /\ pc' \in {"append", "appendSync"}
        BY <2>4, <3>1, <3>3 DEF AppendEntry
      <4> QED BY <1>0, <1>i, <3>1, <4>1 DEF LegacyScanned
    <3> QED BY <3>2, <3>3
  <2>5. CASE SyncRollForward
    BY <1>0, <1>i, <2>5 DEF SyncRollForward, logCache, LegacyScanned
  <2>6. CASE Rescan
    <3>1. CASE logHead = "valid"
      <4>1. pc' = "migrate"
        BY <2>6, <3>1 DEF Rescan, ReplaceJournal
      <4> QED BY <2>6, <3>1, <4>1, RescanFinds DEF LegacyScanned, Cells
    <3>2. CASE logHead # "valid"
      BY <1>d, <2>6, <3>2 DEF Rescan
    <3> QED BY <3>1, <3>2
  <2> QED BY <1>3, <2>1, <2>2, <2>3, <2>4, <2>5, <2>6 DEF MigrateLegacy, LegacyStep
<1>4. CASE AppendBatch
  BY <1>4, <1>d, BatchContinues
<1>5. CASE Write
  <2>1. CASE OpenLog \/ WriteHeader \/ SyncHeader \/ OpenJournal
    BY <1>5, <1>u, <2>1 DEF Write, OpenLog, WriteHeader, SyncHeader, OpenJournal, logCache
  <2> QED
    BY <1>5, <1>d, <2>1
       DEF Write, WriterStep, OpenLogFails,
       InitializeCheckpoint, SyncDirectory, OpenFails, LoadCheckpoint,
       RejectBatch, WriteRecord, WriteFails, FinishBatch, Flush, Close, SyncLog,
       WriteCheckpoint, ResizeJournal, SyncJournal, CommitFails, RecordFailure, Exit
<1>6. CASE Kernel \/ UNCHANGED legacyVars
  <2>1. UNCHANGED <<pc, log, logHead, scanned>>
    BY <1>6 DEF Kernel, Writeback, WritebackHead, WritebackRecord, WritebackTruncate,
       WritebackJournal, WritebackEntry, writerVars, logCache, legacyVars, vars, diskVars
  <2> QED BY <1>0, <1>i, <2>1 DEF LegacyScanned
<1> QED BY <1>1, <1>2, <1>3, <1>4, <1>5, <1>6 DEF LegacyNext

-----------------------------------------------------------------------------
(* What is never lost                                                      *)

(* Two failures are all there are.                                         *)
LEMMA OnlyOne ==
  ASSUME LInv, OneFault, "power" \in faults
  PROVE  "kill" \notin faults
<1> SUFFICES ASSUME "kill" \in faults PROVE FALSE
  OBVIOUS
<1>1. faults = {"kill"} \cup {"power"}
  BY DEF LInv, Inheritance, Fault
<1>2. IsFiniteSet({"kill"}) /\ Cardinality({"kill"}) = 1
  BY FS_Singleton
<1>3. Cardinality({"kill"} \cup {"power"}) = 2
  BY <1>2, FS_AddElement
<1> QED BY <1>1, <1>3 DEF OneFault

(* The legacy records, and the entry once settled, are records.            *)
LEMMA BelowBase ==
  ASSUME LInv
  PROVE  /\ legacy \in Nat /\ legacy + 1 \in Position
         /\ Base \in 0 .. MaxRecords /\ legacy <= Base /\ Base <= legacy + 1
         /\ \A i \in 1 .. Base : log[i] \in Record
         /\ \A i \in 1 .. legacy : i \in Position /\ LegacyRecord(i) \in Record
<1> USE FormatAssumption, LegacyAssumption
<1>1. legacy \in 0 .. MaxLegacy /\ LegacyRecordsKept
  BY DEF LInv, Inheritance, LegacyKept
<1>2. legacy \in Nat /\ legacy + 1 \in Position /\ legacy + 1 < SeqModulus
  BY <1>1 DEF Position
<1>3. Base \in 0 .. MaxRecords /\ legacy <= Base /\ Base <= legacy + 1
  BY <1>1, <1>2 DEF Base, Position
<1>4. \A i \in 1 .. legacy : i \in Position /\ LegacyRecord(i) \in Record
  <2> TAKE i \in 1 .. legacy
  <2>1. i \in SeqNum /\ 1 \in Session
    BY <1>2 DEF SeqNum, Session
  <2> QED BY <1>2, <2>1 DEF LegacyRecord, Record, Position
<1>5. \A i \in 1 .. Base : log[i] \in Record
  <2> TAKE i \in 1 .. Base
  <2>1. CASE i <= legacy
    <3>1. i \in 1 .. legacy
      BY <1>2, <1>3, <2>1
    <3> QED BY <1>1, <1>4, <3>1 DEF LegacyRecordsKept
  <2>2. CASE i > legacy
    <3>1. i = legacy + 1 /\ Settled
      BY <1>2, <1>3, <2>2 DEF Base
    <3> QED BY <3>1 DEF LInv, LegacyKept, Settled, Pending
  <2> QED BY <1>2, <1>3, <2>1, <2>2
<1> QED BY <1>2, <1>3, <1>4, <1>5

(* No step but a power loss touches a record below the base.               *)
LEMMA BaseUntouched ==
  ASSUME Hypotheses, LInv, [LegacyNext]_legacyVars, ~PowerFails, NEW i \in 1 .. Base
  PROVE  log'[i] = log[i] /\ (dlog[i] = log[i] => dlog'[i] = log[i])
<1> USE FormatAssumption
<1>0. /\ i \in Position /\ i <= Base /\ log[i] \in Record /\ Base \in 0 .. MaxRecords
      /\ log \in [Position -> Cell] /\ dlog \in [Position -> Cell]
  BY BelowBase DEF Position, LInv, LegacyTypes
<1>1. CASE UNCHANGED Cells \/ (log' = log /\ dlog' = log)
  BY <1>1 DEF Cells
<1>2. CASE Scan
  <2>1. Base <= scanned' /\ scanned' \in 0 .. MaxRecords
    BY <1>2, ScanFinds, BelowBase
  <2>2. i \in 1 .. scanned'
    BY <1>0, <2>1 DEF Position
  <2> QED BY <1>2, <2>2, ScanFinds
<1>3. ASSUME NEW k \in SlotIndex, ChooseCheckpoint(k)
      PROVE  log'[i] = log[i] /\ (dlog[i] = log[i] => dlog'[i] = log[i])
  <2>1. slots[k] \in Checkpoint /\ scanned' = slots[k].count /\ scanned' \in 0 .. MaxRecords
    BY <1>3, ChooseFinds
  <2>2. Base <= scanned'
    BY <2>1 DEF LInv, LegacyKept
  <2>3. i <= scanned'
    BY <1>0, <2>1, <2>2 DEF Position
  <2> QED BY <1>0, <1>3, <2>3, ChooseFinds
<1>4. CASE AppendEntry
  <2>1. scanned >= Base /\ scanned \in 0 .. MaxRecords
    BY <1>4 DEF AppendEntry, LInv, LegacyTypes, LegacyKept, Deciding, LegacyPc
  <2>2. i # scanned + 1
    BY <1>0, <2>1 DEF Position
  <2> QED BY <1>0, <1>4, <2>2 DEF AppendEntry, logDurable
<1>5. CASE WriteRecord
  <2>1. count >= Base /\ count \in 0 .. MaxRecords /\ written \in Nat
    BY <1>5 DEF WriteRecord, LInv, LegacyTypes, LegacyKept, Holding
  <2>2. i # count + written + 1
    BY <1>0, <2>1 DEF Position
  <2>3. \E cell : log' = [log EXCEPT ![count + written + 1] = cell]
    BY <1>5, WrittenRecord
  <2> QED BY <1>0, <1>5, <2>2, <2>3 DEF WriteRecord, logDurable
<1>6. CASE Writeback
  BY <1>0, <1>6, KernelCells
<1> QED BY <1>1, <1>2, <1>3, <1>4, <1>5, <1>6, LogMoves

(* A power loss leaves what is on stable storage, or a log without a       *)
(* header lost nothing.                                                    *)
LEMMA PowerLossLeaves ==
  ASSUME LInv, PowerLoss
  PROVE  /\ dlog' = log' /\ dlogHead' = logHead' /\ dslots' = slots'
         /\ log' = dlog \/ Headless
         /\ journalLen' = djournalLen /\ slots' = dslots
         /\ pc' = "down"
<1>1. "journal" \in entries /\ djournalLen # "absent"
  BY DEF LInv, LegacyFiles, WithLog, Headless, File
<1>2. log' = dlog \/ Headless
  BY DEF LInv, LegacyFiles, WithLog, File, PowerLoss, LosePower
<1> QED BY <1>1, <1>2 DEF PowerLoss, LosePower, Exit

(* The legacy records stay, in the file and on stable storage.             *)
LEMMA LegacyRecordsStay ==
  ASSUME Hypotheses, LInv, [LegacyNext]_legacyVars
  PROVE  LegacyRecordsKept'
<1>i. legacy' = legacy
  BY DEF LegacyNext, inherited, legacyVars
<1> SUFFICES ASSUME NEW i \in 1 .. legacy
             PROVE  log'[i] = LegacyRecord(i) /\ dlog'[i] = LegacyRecord(i)
  BY <1>i DEF LegacyRecordsKept, LegacyRecord
<1>0. log[i] = LegacyRecord(i) /\ dlog[i] = LegacyRecord(i)
  BY DEF LInv, LegacyKept, LegacyRecordsKept
<1>1. CASE ~PowerFails
  <2>1. i \in 1 .. Base
    BY BelowBase, FormatAssumption
  <2> QED BY <1>0, <1>1, <2>1, BaseUntouched
<1>2. CASE PowerFails
  <2>1. ~Headless
    BY DEF Headless
  <2> QED BY <1>0, <1>2, <2>1, PowerLossLeaves DEF PowerFails
<1> QED BY <1>1, <1>2

(* The base moves when the entry is taken out of the journal, and when a   *)
(* power loss brings the journal back.                                     *)
LEMMA BaseMoves ==
  ASSUME LInv, [LegacyNext]_legacyVars
  PROVE  \/ (Settled' <=> Settled) /\ Base' = Base
         \/ PowerFails
         \/ /\ journalLen = "legacy"
            /\ DiscardCorrupt \/ AlreadyCommitted \/ (Rescan /\ logHead = "valid")
<1>i. UNCHANGED <<legacy, entry, faults>>
  BY DEF LegacyNext, inherited, legacyVars
<1>o. (OneFault' <=> OneFault) /\ (Pending' <=> Pending)
  BY <1>i DEF OneFault, Pending
<1>u. ASSUME journalLen' = "legacy" <=> journalLen = "legacy"
      PROVE  (Settled' <=> Settled) /\ Base' = Base
  <2>1. Settled' <=> Settled
    BY <1>o, <1>u DEF Settled
  <2> QED BY <1>i, <2>1 DEF Base
<1>1. CASE UNCHANGED Journals \/ (UNCHANGED <<journalLen, slots>>)
  BY <1>1, <1>u DEF Journals
<1>2. CASE MigrateJournal \/ WriteCheckpoint
  BY <1>2, <1>u DEF MigrateJournal, WriteCheckpoint, LInv, LegacyFiles, WriterPc
<1>3. CASE ReplaceJournal /\ journalLen # "legacy"
  BY <1>3, <1>u DEF ReplaceJournal
<1>4. CASE ReplaceJournal /\ journalLen = "legacy"
  <2>1. journalLen' # journalLen /\ pc' = "migrate"
    BY <1>4 DEF ReplaceJournal
  <2>2. CASE Recover
    BY <1>4, <2>1, <2>2 DEF Recover, RecoveryStep, Scan, ChooseCheckpoint,
       NothingToRecover, Refuse, StartMigration, MigrateJournal, SyncMigration,
       LInv, LegacyFiles, journalCache, diskVars
  <2>3. CASE MigrateLegacy
    BY <1>4, <2>1, <2>3 DEF MigrateLegacy, LegacyStep, RefuseLegacy, RollForward,
       AppendEntry, SyncRollForward, Rescan, journalCache, diskVars
  <2>4. ~Write
    BY <2>1 DEF Write, WriterStep, OpenLog, OpenLogFails,
       WriteHeader, SyncHeader, OpenJournal, InitializeCheckpoint, SyncDirectory, OpenFails,
       LoadCheckpoint, RejectBatch, WriteRecord, WriteFails, FinishBatch, Flush, Close,
       SyncLog, WriteCheckpoint, ResizeJournal, SyncJournal, CommitFails, RecordFailure, Exit
  <2> QED
    BY <2>1, <2>2, <2>3, <2>4
       DEF LegacyNext, Start, AppendBatch, BeginBatch, Crash, PowerLoss, PowerFails, Exit, Kernel,
           Writeback, WritebackHead, WritebackRecord, WritebackTruncate, WritebackJournal,
           WritebackEntry, journalCache, diskVars, legacyVars, vars
<1> QED BY <1>1, <1>2, <1>3, <1>4, JournalMoves

(* A step that takes a promised entry out of the journal finds it in the   *)
(* log, and where the power can fail it finds it on stable storage.        *)
LEMMA EntryThere ==
  ASSUME Hypotheses, LInv, [LegacyNext]_legacyVars, OneFault, Pending,
         AlreadyCommitted \/ (Rescan /\ logHead = "valid")
  PROVE  /\ journalLen = "legacy"
         /\ UNCHANGED Cells /\ scanned' >= legacy + 1 /\ log[legacy + 1] = entry
         /\ "power" \in faults => dlog[legacy + 1] = entry
<1> USE FormatAssumption
<1>0. /\ legacy \in Nat /\ legacy + 1 \in Position /\ entry.seq = legacy + 1
      /\ journalLen = "legacy" /\ pc \in {"choose", "rescan"}
  BY BelowBase
     DEF Pending, AlreadyCommitted, AtLegacyJournal, Rescan, LInv, LegacyFiles, LegacyPc
<1>1. /\ UNCHANGED Cells /\ scanned' \in Nat /\ scanned' >= legacy + 1
      /\ log[legacy + 1] \in Record
  <2>1. CASE AlreadyCommitted
    <3>1. AtLegacyJournal /\ LastSequence >= entry.seq /\ scanned' = scanned
          /\ UNCHANGED Cells
      BY <2>1 DEF AlreadyCommitted, ReplaceJournal, Cells, logCache, logDurable
    <3>2. scanned \in 0 .. MaxRecords /\ scanned >= legacy + 1
      BY <1>0, <3>1, LastIsScanned
    <3>3. legacy + 1 \in 1 .. scanned /\ pc = "choose"
      BY <1>0, <3>1, <3>2 DEF AtLegacyJournal
    <3> QED BY <3>1, <3>2, <3>3 DEF LInv, LegacyScanned, Deciding
  <2>2. CASE Rescan /\ logHead = "valid"
    <3>1. /\ scanned' = legacy + 1 /\ UNCHANGED Cells
          /\ \A i \in 1 .. scanned' : log[i] \in Record
      BY <1>0, <2>2, RescanFinds
    <3>2. legacy + 1 \in 1 .. scanned'
      BY <1>0, <3>1
    <3> QED BY <1>0, <3>1, <3>2
  <2> QED BY <2>1, <2>2
<1>2. log[legacy + 1] = entry
  BY <1>1 DEF LInv, LegacyKept
<1>3. ASSUME "power" \in faults PROVE dlog[legacy + 1] = entry
  <2>1. "kill" \notin faults
    BY <1>3, OnlyOne
  <2> QED BY <1>0, <1>1, <1>2, <2>1 DEF LInv, Synchronized
<1> QED BY <1>0, <1>1, <1>2, <1>3

(* A power loss brings back an old journal, never a new one.               *)
LEMMA PowerUnsettles ==
  ASSUME LInv, [LegacyNext]_legacyVars, PowerFails
  PROVE  /\ Settled' => Settled /\ log' = dlog
         /\ Base' <= Base
<1>i. UNCHANGED <<legacy, entry, faults>> /\ legacy \in Nat
  BY BelowBase DEF LegacyNext, inherited, legacyVars
<1>1. journalLen' = djournalLen /\ (log' = dlog \/ Headless)
  BY PowerLossLeaves DEF PowerFails
<1>2. Settled' => journalLen # "legacy"
  BY <1>1 DEF Settled, LInv, LegacyFiles
<1>3. Settled' => Settled /\ log' = dlog
  BY <1>i, <1>1, <1>2 DEF Settled, OneFault, Pending, Headless
<1> QED BY <1>i, <1>3 DEF Base

(* No other record comes to the place of the entry.                        *)
LEMMA PlaceKept ==
  ASSUME Hypotheses, LInv, [LegacyNext]_legacyVars, OneFault, Pending
  PROVE  /\ log'[legacy + 1] \in Record => log'[legacy + 1] = entry
         /\ dlog'[legacy + 1] \in Record => dlog'[legacy + 1] = entry
<1> USE FormatAssumption, SentinelAssumption
<1>0. /\ log[legacy + 1] \in Record => log[legacy + 1] = entry
      /\ dlog[legacy + 1] \in Record => dlog[legacy + 1] = entry
      /\ legacy + 1 \in Position /\ legacy \in Nat
      /\ log \in [Position -> Cell] /\ dlog \in [Position -> Cell]
  BY BelowBase DEF LInv, LegacyKept, LegacyTypes
<1>1. CASE UNCHANGED Cells \/ (log' = log /\ dlog' = log)
  BY <1>0, <1>1 DEF Cells
<1>2. CASE Scan
  BY <1>0, <1>2, ScanFinds
<1>3. CASE \E k \in SlotIndex : ChooseCheckpoint(k)
  BY <1>0, <1>3, ChooseFinds
<1>4. CASE AppendEntry
  <2>1. dlog' = dlog
    BY <1>4 DEF AppendEntry, logDurable
  <2>2. log' = log \/ \E cell \in {Torn, entry} : log' = [log EXCEPT ![scanned + 1] = cell]
    BY <1>4 DEF AppendEntry
  <2> QED BY <1>0, <2>1, <2>2
<1>5. CASE WriteRecord
  <2>1. dlog' = dlog /\ pc = "writing"
    BY <1>5 DEF WriteRecord, logDurable
  <2>2. journalLen = "full"
    BY <2>1 DEF LInv, LegacyFiles, WriterPc
  <2>3. count >= legacy + 1 /\ count \in 0 .. MaxRecords /\ written \in Nat
    BY <2>1, <2>2 DEF LInv, LegacyKept, LegacyTypes, Base, Settled, Holding
  <2>4. legacy + 1 # count + written + 1
    BY <1>0, <2>3
  <2>5. \E cell : log' = [log EXCEPT ![count + written + 1] = cell]
    BY <1>5, WrittenRecord
  <2> QED BY <1>0, <2>1, <2>4, <2>5
<1>6. CASE Writeback
  BY <1>0, <1>6, KernelCells
<1>7. CASE PowerFails
  <2>1. dlog' = log' /\ (log' = dlog \/ log' = NoRecords)
    BY <1>7 DEF PowerFails, PowerLoss, LosePower
  <2>2. NoRecords[legacy + 1] = Absent
    BY <1>0 DEF NoRecords
  <2> QED BY <1>0, <2>1, <2>2
<1> QED BY <1>1, <1>2, <1>3, <1>4, <1>5, <1>6, <1>7, LogMoves

(* Once out of the journal the entry stays in the log.                     *)
LEMMA SettledStays ==
  ASSUME Hypotheses, LInv, [LegacyNext]_legacyVars, Settled'
  PROVE  /\ log'[legacy + 1] = entry
         /\ "power" \in faults => dlog'[legacy + 1] = entry
<1>i. UNCHANGED <<legacy, entry, faults>>
  BY DEF LegacyNext, inherited, legacyVars
<1>0. OneFault /\ Pending /\ legacy \in Nat
  BY <1>i, BelowBase DEF Settled, OneFault, Pending
<1>1. CASE Settled /\ ~PowerFails
  <2>1. /\ log[legacy + 1] = entry
        /\ "power" \in faults => dlog[legacy + 1] = entry
        /\ Base = legacy + 1
    BY <1>1 DEF LInv, LegacyKept, Base
  <2>2. legacy + 1 \in 1 .. Base
    BY <1>0, <2>1
  <2> QED BY <1>1, <2>1, <2>2, BaseUntouched
<1>2. CASE PowerFails
  <2>1. Settled /\ log' = dlog /\ dlog' = log' /\ "power" \in faults
    BY <1>2, PowerUnsettles, PowerLossLeaves DEF PowerFails
  <2> QED BY <2>1 DEF LInv, LegacyKept
<1>3. CASE DiscardCorrupt
  BY <1>0, <1>3, SentinelAssumption DEF DiscardCorrupt, Pending
<1>4. CASE AlreadyCommitted \/ (Rescan /\ logHead = "valid")
  <2>1. /\ log' = log /\ dlog' = dlog /\ log[legacy + 1] = entry
        /\ "power" \in faults => dlog[legacy + 1] = entry
    BY <1>0, <1>4, EntryThere DEF Cells
  <2> QED BY <2>1
<1> QED BY <1>1, <1>2, <1>3, <1>4, BaseMoves

(* The slots of both images count the base at least.                       *)
LEMMA SlotsAboveBase ==
  ASSUME Hypotheses, LInv, [LegacyNext]_legacyVars
  PROVE  /\ \A k \in SlotIndex : slots'[k] \in Checkpoint => slots'[k].count >= Base'
         /\ \A k \in SlotIndex : dslots'[k] \in Checkpoint =>
              dslots'[k].count >= IF "power" \in faults THEN Base' ELSE legacy
<1> USE FormatAssumption, SlotAssumption
<1> DEFINE Least == IF "power" \in faults THEN Base ELSE legacy
<1>0. /\ \A k \in SlotIndex : slots[k] \in Checkpoint => slots[k].count >= Base
      /\ \A k \in SlotIndex : dslots[k] \in Checkpoint => dslots[k].count >= Least
      /\ slots \in [SlotIndex -> Slot] /\ dslots \in [SlotIndex -> Slot]
  BY DEF LInv, LegacyKept, LegacyTypes
<1>c. \A s \in Checkpoint : s.count \in Int
  BY DEF Checkpoint
<1>b. Base \in Int /\ legacy \in Int /\ legacy <= Base /\ legacy <= Least /\ Least <= Base
  BY BelowBase
<1>1. CASE Base' = Base /\ ~PowerFails
  <2>1. CASE UNCHANGED Journals
    BY <1>0, <1>1, <2>1 DEF Journals
  <2>2. CASE ReplaceJournal
    BY <1>0, <1>1, <2>2 DEF ReplaceJournal, journalDurable
  <2>3. CASE MigrateJournal
    <3>0. dslots' = dslots
      BY <2>3 DEF MigrateJournal, journalDurable
    <3>1. CASE pc' = "migrateSync"
      <4>1. scanned >= Base
        BY <2>3 DEF MigrateJournal, LInv, LegacyKept, Deciding, Replacing
      <4>2. /\ slots' = [k \in SlotIndex |-> IF k = 0 THEN FirstCheckpoint ELSE Torn]
            /\ FirstCheckpoint.count = scanned
        BY <2>3, <3>1, MigratedSlot
      <4> QED BY <1>0, <1>1, <3>0, <4>1, <4>2
    <3>2. CASE pc' # "migrateSync"
      BY <1>0, <1>1, <2>3, <3>0, <3>2 DEF MigrateJournal
    <3> QED BY <3>1, <3>2
  <2>4. CASE WriteCheckpoint
    <3>0. dslots' = dslots /\ count >= Base
      BY <2>4 DEF WriteCheckpoint, journalDurable, LInv, LegacyKept, Holding
    <3>1. PICK cell \in {NewCheckpoint, Torn} :
               slots' = [slots EXCEPT ![OtherSlot(active)] = cell]
      BY <2>4, CommittedSlot
    <3>2. cell \in Checkpoint => cell.count = count
      BY <2>4, <3>1, CommittedSlot
    <3> QED BY <1>0, <1>1, <3>0, <3>1, <3>2
  <2>5. CASE slots' = slots /\ dslots' = slots
    <3>1. \A k \in SlotIndex : slots[k] \in Checkpoint => slots[k].count >= Least
      BY <1>0, <1>b, <1>c
    <3> QED BY <1>0, <1>1, <2>5, <3>1
  <2> QED BY <1>1, <2>1, <2>2, <2>3, <2>4, <2>5, JournalMoves
<1>2. CASE PowerFails
  <2>1. slots' = dslots /\ dslots' = dslots /\ "power" \in faults
    BY <1>2, PowerLossLeaves DEF PowerFails
  <2>2. Base' <= Base /\ Base' \in Int
    <3>1. legacy' = legacy
      BY DEF LegacyNext, inherited, legacyVars
    <3> QED BY <1>2, <1>b, <3>1, PowerUnsettles DEF Base
  <2>3. \A k \in SlotIndex : dslots[k] \in Checkpoint => dslots[k].count >= Base'
    <3> TAKE k \in SlotIndex
    <3>1. dslots[k] \in Checkpoint => dslots[k].count >= Base /\ dslots[k].count \in Int
      BY <1>0, <1>c, <2>1
    <3> QED BY <1>b, <2>2, <3>1
  <2> QED BY <2>1, <2>3
<1>3. CASE /\ journalLen = "legacy"
           /\ DiscardCorrupt \/ AlreadyCommitted \/ (Rescan /\ logHead = "valid")
  <2>1. slots = NoSlots /\ dslots = NoSlots
    BY <1>3 DEF LInv, LegacyFiles
  <2>2. slots' = slots /\ dslots' = dslots
    BY <1>3 DEF DiscardCorrupt, AlreadyCommitted, Rescan, ReplaceJournal, journalDurable
  <2>3. \A k \in SlotIndex : NoSlots[k] \notin Checkpoint
    BY DEF NoSlots
  <2> QED BY <2>1, <2>2, <2>3
<1> QED BY <1>1, <1>2, <1>3, BaseMoves

(* What recovery works with, and what the writer counts, reaches the base. *)
LEMMA WorkAboveBase ==
  ASSUME Hypotheses, LInv, [LegacyNext]_legacyVars
  PROVE  /\ pc' \in Deciding => scanned' >= Base'
         /\ pc' \in Holding => count' >= Base'
<1> USE FormatAssumption
<1>0. /\ pc \in Deciding => scanned >= Base
      /\ pc \in Holding => count >= Base
      /\ \A k \in SlotIndex : slots[k] \in Checkpoint => slots[k].count >= Base
      /\ scanned \in 0 .. MaxRecords /\ count \in 0 .. MaxRecords
  BY DEF LInv, LegacyKept, LegacyTypes
<1>b. Base \in Int /\ legacy \in Int /\ legacy <= Base
  BY BelowBase
<1>1. CASE Base' = Base
  <2>1. ASSUME pc' \in Deciding PROVE scanned' >= Base
    <3>1. CASE pc \in Deciding /\ scanned' = scanned
      BY <1>0, <3>1
    <3>2. CASE Scan
      BY <3>2, ScanFinds, BelowBase
    <3>3. CASE Rescan
      <4>1. logHead = "valid"
        BY <2>1, <3>3 DEF Rescan, Deciding, LegacyPc, Replacing
      <4>2. scanned' = scanned + 1 /\ scanned >= Base
        BY <1>0, <3>3, <4>1, RescanFinds DEF Rescan, Deciding, LegacyPc
      <4> QED BY <1>0, <1>b, <4>2
    <3> QED BY <2>1, <3>1, <3>2, <3>3, ScannedMoves
  <2>2. ASSUME pc' \in Holding PROVE count' >= Base
    <3>1. CASE pc \in Holding /\ count' = count
      BY <1>0, <3>1
    <3>2. CASE FinishBatch
      <4>1. count >= Base /\ count <= count' /\ count' \in 0 .. MaxRecords
        BY <1>0, <3>2, BatchCounted DEF Holding
      <4> QED BY <1>0, <1>b, <4>1
    <3>3. ASSUME NEW k \in SlotIndex, LoadCheckpoint(k) PROVE count' >= Base
      BY <1>0, <3>3, LoadedCount
    <3> QED BY <2>2, <3>1, <3>2, <3>3, CountMoves
  <2> QED BY <1>1, <2>1, <2>2
<1>2. CASE PowerFails
  BY <1>2, PowerLossLeaves DEF PowerFails, Deciding, Holding, LegacyPc, Replacing
<1>3. CASE /\ journalLen = "legacy"
           /\ DiscardCorrupt \/ AlreadyCommitted \/ (Rescan /\ logHead = "valid")
  <2>0. pc' = "migrate"
    BY <1>3 DEF DiscardCorrupt, AlreadyCommitted, Rescan, ReplaceJournal
  <2>i. UNCHANGED <<legacy, entry, faults>>
    BY DEF LegacyNext, inherited, legacyVars
  <2>1. scanned' >= legacy
    <3>1. scanned >= Base
      BY <1>0, <1>3 DEF DiscardCorrupt, AlreadyCommitted, AtLegacyJournal, Rescan, Deciding,
         LegacyPc
    <3>2. scanned' \in {scanned, scanned + 1}
      BY <1>3, RescanFinds DEF DiscardCorrupt, AlreadyCommitted
    <3> QED BY <1>0, <1>b, <3>1, <3>2
  <2>2. ASSUME OneFault, Pending PROVE scanned' >= legacy + 1
    <3>1. ~DiscardCorrupt
      BY <2>2, SentinelAssumption DEF DiscardCorrupt, Pending
    <3> QED BY <1>3, <2>2, <3>1, EntryThere
  <2>3. scanned' >= Base'
    BY <2>i, <2>1, <2>2 DEF Base, Settled, OneFault, Pending
  <2> QED BY <2>0, <2>3 DEF Holding
<1> QED BY <1>1, <1>2, <1>3, BaseMoves

(* What is kept stays.                                                     *)
LEMMA LegacyKeptStep ==
  ASSUME Hypotheses, LInv, [LegacyNext]_legacyVars
  PROVE  LegacyKept'
<1>i. UNCHANGED <<legacy, entry, faults>>
  BY DEF LegacyNext, inherited, legacyVars
<1>1. (OneFault' <=> OneFault) /\ (Pending' <=> Pending)
  BY <1>i DEF OneFault, Pending
<1>2. LegacyRecordsKept'
  BY LegacyRecordsStay
<1>3. OneFault' /\ Pending' =>
       /\ log'[legacy + 1] \in Record => log'[legacy + 1] = entry
       /\ dlog'[legacy + 1] \in Record => dlog'[legacy + 1] = entry
  BY <1>1, PlaceKept
<1>4. Settled' => /\ log'[legacy + 1] = entry
                  /\ "power" \in faults => dlog'[legacy + 1] = entry
  BY SettledStays
<1> QED BY <1>i, <1>2, <1>3, <1>4, SlotsAboveBase, WorkAboveBase DEF LegacyKept

-----------------------------------------------------------------------------
(* What a process relies on                                                *)

(* Only the entry is on its way to stable storage.                         *)
LEMMA SynchronizedStep ==
  ASSUME Hypotheses, LInv, [LegacyNext]_legacyVars
  PROVE  Synchronized'
<1> USE SentinelAssumption DEF LegacyPc, RecoveryPc, WriterPc
<1>i. faults' = faults
  BY DEF LegacyNext, inherited, legacyVars
<1> SUFFICES ASSUME "kill" \notin faults, journalLen' = "legacy", NEW i \in Position,
                    log'[i] \in Record, dlog'[i] # log'[i]
             PROVE  pc' \in {"append", "appendSync"} /\ i = scanned' + 1
  BY <1>i DEF Synchronized
<1>0. log \in [Position -> Cell] /\ dlog \in [Position -> Cell]
  BY DEF LInv, LegacyTypes
<1>p. ~PowerFails
  BY DEF PowerFails, PowerLoss, LosePower
<1>j. journalLen = "legacy"
  BY <1>p, JournalMoves DEF Journals, ReplaceJournal, MigrateJournal, WriteCheckpoint
<1>w. pc \notin WriterPc
  BY <1>j DEF LInv, LegacyFiles
<1>k. log[i] \in Record /\ dlog[i] # log[i] =>
        pc \in {"append", "appendSync"} /\ i = scanned + 1
  BY <1>j DEF LInv, Synchronized
<1>1. CASE Scan \/ \E k \in SlotIndex : ChooseCheckpoint(k)
  <2>1. log[i] = log'[i] /\ dlog' = dlog
    BY <1>1, ScanFinds, ChooseFinds
  <2> QED BY <1>1, <1>k, <2>1 DEF Scan, ChooseCheckpoint
<1>2. CASE AppendEntry
  <2>1. scanned' = scanned /\ dlog' = dlog /\ pc' \in {"append", "appendSync"}
    BY <1>2 DEF AppendEntry, logDurable
  <2>2. i # scanned + 1 => log'[i] = log[i]
    BY <1>0, <1>2 DEF AppendEntry
  <2> QED BY <1>k, <2>1, <2>2
<1>3. CASE dlog' = log'
  BY <1>3
<1>4. CASE Kernel
  <2>1. log' = log /\ (log[i] \in Record /\ dlog[i] = log[i] => dlog'[i] = log[i])
    BY <1>0, <1>4, KernelCells DEF Kernel
  <2> QED BY <1>4, <1>k, <2>1 DEF Kernel, writerVars
<1>5. CASE UNCHANGED legacyVars
  BY <1>5, <1>k DEF legacyVars, vars, diskVars, writerVars
<1>6. CASE Recover /\ ~Scan /\ ~(\E k \in SlotIndex : ChooseCheckpoint(k))
  <2>1. UNCHANGED Cells /\ pc \in RecoveryPc
    BY <1>6 DEF Recover, RecoveryStep, NothingToRecover, Refuse, StartMigration,
       MigrateJournal, SyncMigration, Cells, diskVars, logCache, logDurable
  <2> QED BY <1>k, <2>1 DEF Cells
<1>7. CASE MigrateLegacy /\ ~AppendEntry
  <2>1. dlog' = log' \/ (UNCHANGED Cells /\ pc \in {"choose", "rescan"})
    BY <1>7 DEF MigrateLegacy, LegacyStep, DiscardCorrupt, AlreadyCommitted, RefuseLegacy,
       RollForward, SyncRollForward, Rescan, ReplaceJournal, AtLegacyJournal, SyncLogFile,
       Cells, diskVars, logCache, logDurable
  <2> QED BY <1>k, <2>1 DEF Cells
<1>8. CASE Start
  BY <1>8, <1>k DEF Start, diskVars
<1>9. CASE pc = "refused" /\ Crash
  BY <1>9, <1>k DEF Crash, diskVars
<1>10. ~AppendBatch /\ ~Write
  <2>1. ~AppendBatch
    BY <1>w DEF AppendBatch, BeginBatch
  <2>2. ~Write
    BY <1>w DEF Write, WriterStep, OpenLog, OpenLogFails, WriteHeader, SyncHeader,
       OpenJournal, InitializeCheckpoint, SyncDirectory, OpenFails, LoadCheckpoint,
       RejectBatch, WriteRecord, WriteFails, FinishBatch, Flush, Close, SyncLog,
       WriteCheckpoint, ResizeJournal, SyncJournal, CommitFails
  <2> QED BY <2>1, <2>2
<1> QED
  BY <1>p, <1>1, <1>2, <1>3, <1>4, <1>5, <1>6, <1>7, <1>8, <1>9, <1>10
     DEF LegacyNext, MigrateLegacy, LegacyStep, PowerFails

(* What the running writer counts is in the log, and so is what its slots  *)
(* count.                                                                  *)
LEMMA LegacyRunningStep ==
  ASSUME Hypotheses, LInv, [LegacyNext]_legacyVars
  PROVE  LegacyRunning'
<1> USE FormatAssumption DEF Holding
<1>0. /\ LegacyRunning /\ count \in 0 .. MaxRecords /\ written \in Nat
      /\ active \in SlotIndex /\ log \in [Position -> Cell]
      /\ slots \in [SlotIndex -> Slot]
  BY DEF LInv, LegacyTypes
<1>u. ASSUME UNCHANGED <<log, slots, count, active>>,
             pc \in Holding, pc' \in Holding \ {"writing", "ckptResize", "ckptSync"}
      PROVE  LegacyRunning'
  BY <1>0, <1>u DEF LegacyRunning
<1>1. CASE pc' \notin Holding
  BY <1>1 DEF LegacyRunning
<1>2. CASE AppendBatch
  <2>1. UNCHANGED <<log, slots, active>>
    BY <1>2 DEF AppendBatch, BeginBatch, diskVars
  <2>2. pc = "ready" /\ pc' = "writing" /\ count' = count /\ written' = 0
    BY <1>2, BatchContinues
  <2> QED BY <1>0, <2>1, <2>2 DEF LegacyRunning
<1>3. ASSUME NEW k \in SlotIndex, LoadCheckpoint(k) PROVE LegacyRunning'
  <2>1. UNCHANGED <<log, slots>> /\ pc' \in {"dirSync", "ready"}
    BY <1>3 DEF LoadCheckpoint, diskVars
  <2>2. scanned \in 0 .. MaxRecords
    BY DEF LInv, LegacyTypes
  <2> QED BY <1>3, <2>1, <2>2, LoadedCount DEF LegacyRunning
<1>4. CASE WriteRecord
  <2>1. UNCHANGED <<slots, count, active>> /\ pc = "writing" /\ pc' = "writing"
    BY <1>4 DEF WriteRecord, journalCache
  <2>2. count + written + 1 \in Position
    BY <1>4, WrittenRecord
  <2>3. \A i \in 1 .. count + written : i \in Position /\ i # count + written + 1
                                        /\ log[i] \in Record
    BY <1>0, <2>1, <2>2 DEF LegacyRunning, Position
  <2>4. CASE written' = written
    <3>1. PICK cell : log' = [log EXCEPT ![count + written + 1] = cell]
      BY <1>4, WrittenRecord
    <3>2. \A i \in 1 .. count + written : log'[i] \in Record
      BY <1>0, <2>3, <3>1
    <3>3. \A i \in 1 .. count : i \in 1 .. count + written
      BY <1>0
    <3> QED BY <1>0, <2>1, <2>4, <3>2, <3>3 DEF LegacyRunning
  <2>5. CASE written' # written
    <3>1. PICK cell \in Record : log' = [log EXCEPT ![count + written + 1] = cell]
      BY <1>4, <2>5, WrittenRecord
    <3>2. written' = written + 1
      BY <1>4, <2>5, WrittenRecord
    <3>3. \A i \in 1 .. count + written' : log'[i] \in Record
      BY <1>0, <2>2, <2>3, <3>1, <3>2
    <3>4. \A i \in 1 .. count : i \in 1 .. count + written'
      BY <1>0, <3>2
    <3> QED BY <1>0, <2>1, <3>3, <3>4 DEF LegacyRunning
  <2> QED BY <2>4, <2>5
<1>5. CASE FinishBatch
  <2>1. UNCHANGED <<log, slots, active>>
    BY <1>5 DEF FinishBatch, diskVars
  <2>2. pc = "writing" /\ pc' \in {"logSync", "ready"} /\ count' = count + written
        /\ count <= count' /\ count' \in 0 .. MaxRecords
    BY <1>5, BatchCounted
  <2>3. slots[active].count \in Int /\ slots[active].count <= count'
    BY <1>0, <2>2 DEF LegacyRunning, Checkpoint
  <2> QED BY <1>0, <2>1, <2>2, <2>3 DEF LegacyRunning
<1>6. CASE WriteCheckpoint
  <2>1. UNCHANGED <<log, count, active>> /\ pc = "ckptWrite" /\ pc' \in {"ckptWrite", "ckptResize"}
    BY <1>6 DEF WriteCheckpoint, logCache, writerState
  <2>2. PICK cell \in {NewCheckpoint, Torn} :
             /\ slots' = [slots EXCEPT ![OtherSlot(active)] = cell]
             /\ pc' = "ckptResize" => cell = NewCheckpoint
    BY <1>6, CommittedSlot
  <2>3. OtherSlot(active) # active /\ OtherSlot(active) \in SlotIndex
    BY <1>0, TwoSlots
  <2>4. slots'[active] = slots[active] /\ slots'[OtherSlot(active)] = cell
    BY <1>0, <2>2, <2>3
  <2>5. NewCheckpoint \in Checkpoint /\ NewCheckpoint.count = count
    BY <1>6, CommittedSlot
  <2> QED BY <1>0, <2>1, <2>2, <2>4, <2>5 DEF LegacyRunning
<1>7. CASE ResizeJournal
  BY <1>0, <1>7 DEF ResizeJournal, logCache, writerState, LegacyRunning
<1>8. CASE SyncJournal /\ pc' # "down"
  <2>1. UNCHANGED <<log, slots, count>> /\ active' = OtherSlot(active) /\ pc = "ckptSync"
        /\ pc' \in {"dirSync", "ready"}
    BY <1>8 DEF SyncJournal, Exit, logCache, journalCache
  <2> QED BY <1>0, <2>1 DEF LegacyRunning
<1>9. CASE SyncDirectory \/ RejectBatch \/ WriteFails \/ Flush \/ SyncLog
           \/ ((Close \/ CommitFails) /\ pc' # "down")
  BY <1>9, <1>u DEF SyncDirectory, RejectBatch, WriteFails, Flush, Close, SyncLog,
     CommitFails, RecordFailure, Exit, writerState, diskVars, logCache, journalCache
<1>10. CASE Kernel \/ UNCHANGED legacyVars
  <2>1. UNCHANGED <<log, slots, pc, count, written, active>>
    BY <1>10 DEF Kernel, Writeback, WritebackHead, WritebackRecord, WritebackTruncate,
       WritebackJournal, WritebackEntry, logCache, journalCache, writerVars, writerState,
       legacyVars, vars, diskVars
  <2> QED BY <1>0, <2>1 DEF LegacyRunning
<1>11. CASE Recover \/ MigrateLegacy
  <2>1. pc' \in RecoveryPc \cup LegacyPc \cup {"closed"}
    BY <1>11 DEF Recover, RecoveryStep, Scan, ChooseCheckpoint, NothingToRecover, Refuse,
       StartMigration, MigrateJournal, SyncMigration, MigrateLegacy, LegacyStep,
       DiscardCorrupt, AlreadyCommitted, RefuseLegacy, RollForward, AppendEntry,
       SyncRollForward, Rescan, ReplaceJournal, RecoveryPc, LegacyPc
  <2> QED BY <1>1, <2>1 DEF RecoveryPc, LegacyPc
<1>12. CASE Start \/ Crash \/ PowerLoss
  BY <1>1, <1>12 DEF Start, Crash, PowerLoss, Exit
<1>13. CASE Write /\ pc' \in Holding
  <2>1. ~OpenLog /\ ~OpenLogFails /\ ~WriteHeader /\ ~SyncHeader /\ ~OpenJournal /\ ~OpenFails
    BY <1>13 DEF OpenLog, OpenLogFails, WriteHeader, SyncHeader, OpenJournal, OpenFails, Exit
  <2>2. ~InitializeCheckpoint
    BY DEF InitializeCheckpoint, LInv, LegacyFiles, WriterPc
  <2>3. pc' # "down"
    BY <1>13
  <2> QED
    BY <1>13, <1>3, <1>4, <1>5, <1>6, <1>7, <1>8, <1>9, <2>1, <2>2, <2>3
       DEF Write, WriterStep
<1> QED BY <1>1, <1>2, <1>10, <1>11, <1>12, <1>13 DEF LegacyNext

(* A process that is killed leaves a slot that the log can serve.          *)
LEMMA BackedStep ==
  ASSUME Hypotheses, LInv, [LegacyNext]_legacyVars
  PROVE  Backed'
<1> USE FormatAssumption
<1> DEFINE Serves(k) ==
      slots[k] \in Checkpoint /\ \A i \in 1 .. slots[k].count : log[i] \in Record
<1> DEFINE ServesNext(k) ==
      slots'[k] \in Checkpoint /\ \A i \in 1 .. slots'[k].count : log'[i] \in Record
<1>i. faults' = faults
  BY DEF LegacyNext, inherited, legacyVars
<1> SUFFICES ASSUME "power" \notin faults, journalLen' = "full"
             PROVE  \E k \in SlotIndex : ServesNext(k)
  BY <1>i DEF Backed
<1>p. ~PowerFails
  BY DEF PowerFails
<1>0. /\ log \in [Position -> Cell] /\ slots \in [SlotIndex -> Slot] /\ active \in SlotIndex
      /\ count \in 0 .. MaxRecords /\ written \in Nat
  BY DEF LInv, LegacyTypes
<1>c. \A k \in SlotIndex : slots[k] \in Checkpoint => slots[k].count \in 0 .. MaxRecords
  BY DEF Checkpoint
<1>1. CASE journalLen' = journalLen /\ slots' = slots
  <2>1. PICK k \in SlotIndex : Serves(k)
    BY <1>1 DEF LInv, Backed
  <2>2. CASE log' = log
    BY <1>1, <2>1, <2>2
  <2>3. CASE Scan
    <3>1. slots[k].count <= scanned' /\ scanned' \in 0 .. MaxRecords
      BY <1>c, <2>1, <2>3, ScanFinds
    <3>2. \A i \in 1 .. slots[k].count : i \in 1 .. scanned'
      BY <1>c, <2>1, <3>1
    <3>3. ServesNext(k)
      BY <1>1, <2>1, <2>3, <3>2, ScanFinds
    <3> QED BY <3>3
  <2>4. ASSUME NEW j \in SlotIndex, ChooseCheckpoint(j) PROVE ServesNext(j)
    BY <1>1, <2>4, ChooseFinds
  <2>5. ~AppendEntry
    BY <1>1 DEF AppendEntry, LInv, LegacyFiles, LegacyPc
  <2>6. CASE WriteRecord
    <3>1. pc = "writing"
      BY <2>6 DEF WriteRecord
    <3>2. /\ slots[active] \in Checkpoint /\ slots[active].count <= count
          /\ \A i \in 1 .. count : log[i] \in Record
      BY <3>1 DEF LInv, LegacyRunning, Holding
    <3>3. PICK cell : log' = [log EXCEPT ![count + written + 1] = cell]
      BY <2>6, WrittenRecord
    <3>4. \A i \in 1 .. slots[active].count :
             i \in 1 .. count /\ i \in Position /\ i # count + written + 1
      BY <1>0, <1>c, <3>2 DEF Position
    <3>5. ServesNext(active)
      BY <1>0, <1>1, <3>2, <3>3, <3>4
    <3> QED BY <1>0, <3>5
  <2>7. CASE Writeback
    BY <1>1, <2>1, <2>7, KernelCells DEF LInv, LegacyTypes
  <2> QED BY <1>p, <2>2, <2>3, <2>4, <2>5, <2>6, <2>7, LogMoves DEF Cells
<1>2. CASE MigrateJournal
  <2>1. log' = log /\ pc = "migrate" /\ journalLen # "legacy"
    BY <1>2 DEF MigrateJournal, logCache, LInv, LegacyFiles
  <2>2. pc' = "migrateSync"
    BY <1>2 DEF MigrateJournal
  <2>3. /\ slots'[0] = FirstCheckpoint /\ FirstCheckpoint \in Checkpoint
        /\ FirstCheckpoint.count = scanned
    BY <1>2, <2>2, MigratedSlot, TwoSlots
  <2>4. \A i \in 1 .. scanned : log[i] \in Record
    BY <2>1 DEF LInv, LegacyScanned, Deciding, Replacing
  <2>5. ServesNext(0)
    BY <2>1, <2>3, <2>4
  <2> QED BY <2>5, TwoSlots
<1>3. CASE WriteCheckpoint
  <2>1. log' = log /\ pc = "ckptWrite"
    BY <1>3 DEF WriteCheckpoint, logCache
  <2>2. /\ slots[active] \in Checkpoint /\ slots[active].count <= count
        /\ \A i \in 1 .. count : log[i] \in Record
    BY <2>1 DEF LInv, LegacyRunning, Holding
  <2>3. OtherSlot(active) # active
    BY <1>0, TwoSlots
  <2>4. slots'[active] = slots[active]
    BY <1>0, <1>3, <2>3, CommittedSlot
  <2>5. \A i \in 1 .. slots[active].count : i \in 1 .. count
    BY <1>0, <1>c, <2>2
  <2>6. ServesNext(active)
    BY <2>1, <2>2, <2>4, <2>5
  <2> QED BY <1>0, <2>6
<1>4. ~ReplaceJournal
  BY DEF ReplaceJournal
<1> QED BY <1>p, <1>1, <1>2, <1>3, <1>4, JournalMoves DEF Journals

-----------------------------------------------------------------------------
(* The invariant, and what follows                                         *)

(* What a legacy recorder leaves satisfies the invariant.                  *)
LEMMA LegacyInitInv == LegacyInit => LInv
<1> SUFFICES ASSUME LegacyInit PROVE LInv
  OBVIOUS
<1> USE FormatAssumption, OptionsAssumption, SentinelAssumption, SlotAssumption,
        LegacyAssumption
<1>1. /\ legacy \in 0 .. MaxLegacy /\ legacy \in Nat /\ legacy + 1 \in Position
      /\ MaxLegacy \in Nat
  BY DEF LegacyInit, Position
<1>2. \A i \in (legacy .. legacy + 2) \ {0} :
        LegacyRecord(i) \in Record /\ LegacyRecord(i).seq = i /\ i >= 1
  BY <1>1 DEF LegacyRecord, Record, SeqNum, Session
<1>3. \A i \in 1 .. legacy :
        i \in Position /\ LegacyRecord(i) \in Record /\ LegacyRecord(i).seq = i
  BY <1>1 DEF LegacyRecord, Record, SeqNum, Session, Position
<1>4. PICK tail \in {Absent, Torn} :
           /\ log = [i \in Position |-> IF i <= legacy THEN LegacyRecord(i)
                                          ELSE IF i = legacy + 1 THEN tail ELSE Absent]
           /\ logHead # "valid" => tail = Absent
  BY DEF LegacyInit
<1>5. \A i \in Position : \/ i \in 1 .. legacy /\ log[i] = LegacyRecord(i)
                          \/ i > legacy /\ log[i] \notin Record /\ log[i] \in {Torn, Absent}
  BY <1>1, <1>4 DEF Position
<1>6. log \in [Position -> Cell] /\ InOrder(log)
  <2>1. \A i \in Position : log[i] \in Cell
    BY <1>3, <1>5 DEF Cell
  <2> QED BY <1>3, <1>4, <1>5, <2>1 DEF InOrder
<1>7. dlog = log /\ slots = NoSlots /\ dslots = NoSlots /\ pc = "down"
      /\ djournalLen = journalLen /\ dlogHead = logHead
  BY DEF LegacyInit
<1>8. NoSlots \in [SlotIndex -> Slot] /\ \A k \in SlotIndex : NoSlots[k] \notin Checkpoint
  BY DEF NoSlots, Slot
<1>9. LegacyTypes
  <2>1. NoBatch \in Batch
    BY DEF NoBatch, Batch, SeqNum
  <2> QED BY <1>6, <1>7, <1>8, <2>1 DEF LegacyInit, LegacyTypes, Session, SlotIndex
<1>10. Inheritance
  BY <1>1, <1>2 DEF LegacyInit, Inheritance
<1>11. LegacyNumbered
  BY <1>6, <1>7, <1>8 DEF LegacyInit, LegacyNumbered, Opening, Holding
<1>12. LegacyFiles
  <2>1. CASE logHead = "valid"
    BY <1>7, <2>1 DEF LegacyInit, LegacyFiles, WithLog, LegacyPc, WriterPc
  <2>2. CASE logHead # "valid"
    <3>1. legacy = 0 /\ entry # Absent /\ logHead = "absent" /\ journalLen = "legacy"
          /\ entries = {"journal"}
      BY <2>2 DEF LegacyInit
    <3>2. log = NoRecords
      BY <1>1, <1>4, <2>2, <3>1 DEF NoRecords, Position
    <3> QED BY <1>7, <3>1, <3>2 DEF LegacyFiles, Headless, LegacyPc, WriterPc
  <2> QED BY <2>1, <2>2
<1>13. LegacyScanned
  BY <1>7 DEF LegacyScanned, Deciding, Replacing, LegacyPc, Opening
<1>14. LegacyKept
  <2>1. LegacyRecordsKept
    BY <1>3, <1>4, <1>7 DEF LegacyRecordsKept
  <2>2. log[legacy + 1] \notin Record
    BY <1>1, <1>5
  <2>3. ~Settled
    BY <1>7 DEF LegacyInit, Settled, Pending
  <2> QED
    BY <1>7, <1>8, <2>1, <2>2, <2>3
       DEF LegacyKept, Deciding, Replacing, LegacyPc, Holding
<1>15. Synchronized
  BY <1>7 DEF Synchronized
<1>16. LegacyRunning /\ Backed
  BY <1>7 DEF LegacyInit, LegacyRunning, Backed, Holding
<1> QED BY <1>9, <1>10, <1>11, <1>12, <1>13, <1>14, <1>15, <1>16 DEF LInv

(* The steps, put together.                                                *)
LEMMA LegacyStepInv ==
  ASSUME Hypotheses PROVE LInv /\ [LegacyNext]_legacyVars => LInv'
BY LegacyTypesStep, InheritanceStep, LegacyNumberedStep, LegacyFilesStep,
   LegacyScannedStep, LegacyKeptStep, SynchronizedStep, LegacyRunningStep, BackedStep
   DEF LInv

(* Every reachable state of files that a legacy recorder left satisfies    *)
(* the invariant, whatever fails on the way.                               *)
THEOREM LegacyInvariance == ASSUME Hypotheses PROVE LegacySpec => []LInv
BY LegacyInitInv, LegacyStepInv, PTL DEF LegacySpec

(* No migration, finished or interrupted, and no crash or power loss takes *)
(* a record of the legacy log from the file or from stable storage         *)
(* (recover_startup_state, recover_checkpoint_journal).                    *)
THEOREM LegacyRecordsNeverLost == ASSUME Hypotheses PROVE LegacySpec => []LegacyRecordsKept
<1>1. LInv => LegacyRecordsKept
  BY DEF LInv, LegacyKept
<1> QED BY <1>1, LegacyInvariance, PTL

(* Until the log has the entry that the old journal promised it, the old   *)
(* journal has it: as the process sees the files and, where the power can  *)
(* fail, on stable storage (write_checkpoint_journal's O_TRUNC comes last).*)
THEOREM EntryNeverLost == ASSUME Hypotheses PROVE LegacySpec => []EntrySurvives
<1>1. LInv => EntrySurvives
  BY DEF LInv, LegacyKept, LegacyFiles, Settled, EntrySurvives, InEither
<1> QED BY <1>1, LegacyInvariance, PTL

(* The entry goes to its own place in the log at most, and no recorder is  *)
(* opened on a log without it (append_recovered_record, and the scan that  *)
(* follows it).                                                            *)
THEOREM EntryPlaced == ASSUME Hypotheses PROVE LegacySpec => []EntryInItsPlace
<1>1. LInv => EntryInItsPlace
  <2> SUFFICES ASSUME LInv PROVE EntryInItsPlace
    OBVIOUS
  <2>1. entry \in Record => \A i \in Position : entry \in {log[i], dlog[i]} => i = entry.seq
    BY DEF LInv, LegacyNumbered, InOrder
  <2>2. OneFault /\ Pending /\ pc \in WriterPc => log[legacy + 1] = entry
    BY DEF LInv, LegacyKept, LegacyFiles, Settled
  <2> QED BY <2>1, <2>2 DEF EntryInItsPlace
<1> QED BY <1>1, LegacyInvariance, PTL

-----------------------------------------------------------------------------
(* What recovery refuses                                                   *)

(* A writer as constructed, that has acknowledged nothing.                 *)
NewWriter ==
  /\ caller = "open" /\ created = FALSE /\ batch = NoBatch /\ written = 0
  /\ count = 0 /\ lastSeq = 0 /\ unsynced = 0
  /\ gen = 0 /\ active = 1 /\ failed = FALSE /\ acked = 0

AllDurable == \A i \in Position : log[i] \in Record => dlog[i] = log[i]

(* The journal of the migration, once whole.                               *)
NewJournal ==
  /\ journalLen = "full"
  /\ slots[0] \in Checkpoint /\ slots[0].count = scanned /\ slots[1] = Torn

(* Until the new journal reaches stable storage, a power loss brings back  *)
(* the old one.                                                            *)
Awaiting ==
  /\ djournalLen = "legacy" /\ NewWriter /\ sequence = 0
  /\ \/ journalLen = "legacy" /\ pc \in {"down", "scan", "choose", "refused"} \cup LegacyPc
     \/ pc = "migrate" /\ journalLen \in {"empty", "torn"} /\ slots = NoSlots
     \/ pc = "migrateSync" /\ NewJournal
  /\ pc \in Replacing => AllDurable

(* When it does, the files are ones that the recorder's storage can be in  *)
(* (IInv of RecorderStoreProofs), and from there on they are that storage. *)
HandedOver ==
  /\ NewWriter /\ AllDurable
  /\ djournalLen = journalLen /\ dslots = slots
  /\ \/ pc = "down" /\ journalLen = "empty" /\ slots = NoSlots /\ sequence = 0
     \/ pc = "migrate" /\ journalLen \in {"empty", "torn"} /\ slots = NoSlots /\ sequence = 0
     \/ pc = "migrateSync" /\ NewJournal /\ sequence = 0
     \/ pc = "closed" /\ NewJournal

PowerAlone == OneFault /\ "power" \in faults => Awaiting \/ IInv

RInv == LInv /\ PowerAlone /\ RefusalExplained

(* The handed-over files are a state of the storage.                       *)
LEMMA Handover == Hypotheses /\ LInv /\ HandedOver => IInv
<1> SUFFICES ASSUME Hypotheses, LInv, HandedOver PROVE IInv
  OBVIOUS
<1> USE FormatAssumption, OptionsAssumption, SentinelAssumption, SlotAssumption
        DEF RecoveryPc, WriterPc
<1>0. /\ LegacyTypes /\ LegacyNumbered /\ NewWriter /\ AllDurable /\ WithLog
      /\ djournalLen = journalLen /\ dslots = slots
      /\ pc \in {"down", "migrate", "migrateSync", "closed"}
      /\ journalLen \in {"empty", "torn", "full"}
  BY DEF HandedOver, NewJournal, LInv, LegacyFiles, Headless
<1>1. \/ pc \in {"down", "migrate"} /\ journalLen # "full" /\ slots = NoSlots
      \/ pc \in {"migrateSync", "closed"} /\ NewJournal
  BY DEF HandedOver
<1>2. pc # "closed" => sequence = 0
  BY DEF HandedOver
<1>3. pc = "closed" => sequence = scanned
  BY <1>0 DEF LegacyNumbered, Opening
<1>4. pc \in {"migrate", "migrateSync", "closed"} =>
        HasLength(log, scanned) /\ Durable(scanned)
  <2> SUFFICES ASSUME pc \in {"migrate", "migrateSync", "closed"}
               PROVE  HasLength(log, scanned) /\ Durable(scanned)
    OBVIOUS
  <2>1. HasLength(log, scanned) /\ \A i \in 1 .. scanned : log[i] \in Record
    BY DEF LInv, LegacyScanned, Deciding, Replacing, Opening
  <2>2. \A i \in 1 .. scanned : i \in Position
    BY <1>0 DEF LegacyTypes, Position
  <2> QED BY <1>0, <2>1, <2>2 DEF AllDurable, Durable
<1>5. \A k \in SlotIndex : slots[k] \in Checkpoint =>
        /\ k = 0 /\ NewJournal /\ slots[k].count = scanned /\ slots[k].last = slots[k].count
  <2> TAKE k \in SlotIndex
  <2>1. slots = NoSlots => slots[k] = Torn
    BY DEF NoSlots
  <2>2. k \in {0, 1}
    BY TwoSlots
  <2> QED BY <1>0, <1>1, <2>1, <2>2 DEF NewJournal, LegacyNumbered
<1>6. TypeOK
  <2>1. pc \in Pc /\ caller \in Caller /\ created \in BOOLEAN /\ failed \in BOOLEAN
    BY <1>0 DEF Pc, Caller, NewWriter
  <2>2. 0 \in SeqNum /\ scanned \in SeqNum
    BY <1>0 DEF SeqNum, Hypotheses, LegacyTypes
  <2>3. sequence \in SeqNum /\ lastSeq \in SeqNum
    BY <1>0, <1>2, <1>3, <2>2 DEF NewWriter
  <2>4. DiskTypeOK
    BY <1>0 DEF WithLog, LegacyTypes, DiskTypeOK, HeadState, JournalState, File
  <2>5. /\ written \in 0 .. BatchCapacity /\ unsynced \in 0 .. MaxRecords
        /\ acked \in 0 .. MaxRecords /\ session \in 0 .. MaxSessions
    BY <1>0 DEF NewWriter, LegacyTypes, Session
  <2> QED BY <1>0, <2>1, <2>3, <2>4, <2>5 DEF TypeOK, LegacyTypes
<1>7. Bounds
  <2>1. session >= 1
    BY <1>0 DEF LegacyTypes, Session
  <2>2. pc \notin Holding /\ pc # "writing" /\ pc \notin {"ckptResize", "ckptSync"}
    BY <1>0 DEF Holding
  <2>3. count = 0 /\ lastSeq = 0 /\ unsynced = 0 /\ gen = 0 /\ active = 1 /\ failed = FALSE
    BY <1>0 DEF NewWriter
  <2> QED BY <2>1, <2>2, <2>3 DEF Bounds
<1>8. Numbered
  BY <1>0 DEF LegacyNumbered, Numbered, NewWriter, Holding
<1>9. Covered
  <2>1. \A k \in SlotIndex : SlotSound(slots[k])
    BY <1>0, <1>1, <1>4, <1>5 DEF SlotSound, NewJournal
  <2>2. Durable(acked)
    BY <1>0 DEF NewWriter, Durable
  <2> QED BY <1>0, <2>1, <2>2 DEF Covered
<1>10. Files
  BY <1>0, <1>1
     DEF Files, WithLog, File, Grounded, LogSafe, AllDurable, NewWriter, NewJournal
<1>11. journalLen = "full" => /\ Top(slots, 0) /\ CountsWithin(slots, slots[0].count)
                              /\ slots[0].count = scanned
  <2> SUFFICES ASSUME journalLen = "full"
               PROVE  Top(slots, 0) /\ slots[0].count = scanned
    BY DEF Top
  <2>1. NewJournal
    BY <1>1
  <2>2. 0 \in SlotIndex /\ \A k \in SlotIndex : k # 0 => slots[k] = Torn
    BY <2>1, TwoSlots DEF NewJournal
  <2>3. Newest(slots, 0)
    BY <2>1, <2>2 DEF Newest, NewJournal
  <2>4. slots[0].count \in Nat /\ CountsWithin(slots, slots[0].count)
    BY <2>1, <2>2 DEF CountsWithin, NewJournal, Checkpoint
  <2> QED BY <1>0, <2>1, <2>3, <2>4 DEF Top, NewJournal, NewWriter
<1>12. Covering
  BY <1>0, <1>11, TwoSlots DEF Covering
<1>13. Recovering
  BY <1>0, <1>1, <1>4 DEF Recovering, Durable, WithLog, NewJournal
<1>14. Reopening
  BY <1>0, <1>1, <1>3, <1>4, <1>11, TwoSlots
     DEF Reopening, Between, Opening, Before, Holding, WithLog, NewJournal, NewWriter
<1>15. Running
  BY <1>0 DEF Running, Holding, Committing
<1> QED BY <1>6, <1>7, <1>8, <1>9, <1>10, <1>12, <1>13, <1>14, <1>15 DEF IInv

(* Until the hand-over a power loss alone brings back the old journal.     *)
LEMMA AwaitingStep ==
  ASSUME Hypotheses, LInv, [LegacyNext]_legacyVars, Awaiting, "kill" \notin faults
  PROVE  Awaiting' \/ HandedOver'
<1> USE DEF LegacyPc
<1>0. /\ djournalLen = "legacy" /\ NewWriter /\ sequence = 0
      /\ \/ journalLen = "legacy" /\ pc \in {"down", "scan", "choose", "refused"} \cup LegacyPc
         \/ pc = "migrate" /\ journalLen \in {"empty", "torn"} /\ slots = NoSlots
         \/ pc = "migrateSync" /\ NewJournal
      /\ pc \in Replacing => AllDurable
  BY DEF Awaiting
<1>w. pc \notin WriterPc
  BY <1>0 DEF WriterPc
<1>n. UNCHANGED writerState /\ UNCHANGED <<caller, created, acked>> => NewWriter'
  BY <1>0 DEF writerState, NewWriter
<1>d. UNCHANGED Cells /\ AllDurable => AllDurable'
  BY DEF Cells, AllDurable
<1>a. ASSUME journalLen = "legacy", journalLen' = "legacy", djournalLen' = "legacy", NewWriter',
             sequence' = 0, pc' \in {"down", "scan", "choose", "refused"} \cup LegacyPc
      PROVE  Awaiting'
  BY <1>a DEF Awaiting, Replacing
<1>1. CASE Start
  <2>1. journalLen = "legacy"
    BY <1>0, <1>1 DEF Start
  <2> QED BY <1>0, <1>1, <1>n, <1>a, <2>1 DEF Start, diskVars
<1>2. CASE Recover
  <2>1. UNCHANGED writerState /\ UNCHANGED <<caller, created, acked>>
    BY <1>2 DEF Recover, history
  <2>2. CASE Scan
    BY <1>0, <1>2, <1>n, <1>a, <2>1, <2>2 DEF Recover, Scan, journalCache, journalDurable
  <2>3. ~(\E k \in SlotIndex : ChooseCheckpoint(k)) /\ ~NothingToRecover /\ ~Refuse
        /\ ~StartMigration
    BY <1>0 DEF ChooseCheckpoint, NothingToRecover, Refuse, StartMigration
  <2>4. CASE MigrateJournal
    <3>1. pc = "migrate" /\ UNCHANGED Cells /\ djournalLen' = djournalLen /\ scanned' = scanned
      BY <2>4 DEF MigrateJournal, Cells, logCache, logDurable, journalDurable
    <3>2. AllDurable' /\ NewWriter' /\ journalLen \in {"empty", "torn"} /\ slots = NoSlots
      BY <1>0, <1>d, <1>n, <2>1, <3>1 DEF Replacing
    <3>3. CASE pc' = "migrateSync"
      <4>1. /\ slots' = [k \in SlotIndex |-> IF k = 0 THEN FirstCheckpoint ELSE Torn]
            /\ FirstCheckpoint \in Checkpoint /\ FirstCheckpoint.count = scanned
        BY <2>4, <3>3, MigratedSlot
      <4>2. slots'[0] = FirstCheckpoint /\ slots'[1] = Torn
        BY <4>1, TwoSlots
      <4>3. journalLen' = "full"
        BY <2>4, <3>1, <3>3 DEF MigrateJournal
      <4>4. NewJournal'
        BY <3>1, <4>1, <4>2, <4>3 DEF NewJournal
      <4>5. sequence' = 0
        BY <1>2, <3>3 DEF Recover
      <4> QED BY <1>0, <3>1, <3>2, <3>3, <4>4, <4>5 DEF Awaiting
    <3>4. CASE pc' # "migrateSync"
      <4>1. journalLen' = "torn" /\ slots' = slots /\ pc' = "migrate" /\ sequence' = 0
        BY <1>2, <2>4, <3>1, <3>4 DEF MigrateJournal, Recover
      <4> QED BY <1>0, <3>1, <3>2, <4>1 DEF Awaiting
    <3> QED BY <3>3, <3>4
  <2>5. CASE SyncMigration
    <3>1. /\ pc = "migrateSync" /\ pc' = "closed" /\ UNCHANGED <<log, journalLen, slots, scanned>>
          /\ djournalLen' = journalLen /\ dslots' = slots /\ UNCHANGED <<dlog>>
      BY <2>5 DEF SyncMigration, SyncJournalFile, logCache, logDurable, journalCache
    <3>2. AllDurable' /\ NewWriter' /\ NewJournal
      BY <1>0, <1>d, <1>n, <2>1, <3>1 DEF Replacing, Cells
    <3> QED BY <3>1, <3>2 DEF HandedOver, NewJournal
  <2> QED BY <1>2, <2>2, <2>3, <2>4, <2>5 DEF Recover, RecoveryStep
<1>3. CASE MigrateLegacy
  <2>1. NewWriter' /\ sequence' = 0 /\ djournalLen' = "legacy"
    <3>1. djournalLen' = djournalLen
      BY <1>3 DEF MigrateLegacy, LegacyStep, DiscardCorrupt, AlreadyCommitted, RefuseLegacy,
         RollForward, AppendEntry, SyncRollForward, Rescan, ReplaceJournal, journalDurable,
         diskVars
    <3>2. UNCHANGED writerState /\ UNCHANGED <<caller, created, acked>> /\ sequence' = sequence
      BY <1>3 DEF MigrateLegacy, history
    <3> QED BY <1>0, <1>n, <3>1, <3>2
  <2>2. CASE ReplaceJournal /\ pc \in {"choose", "rescan"}
    <3>1. journalLen = "legacy"
      BY <1>0, <2>2
    <3>2. slots = NoSlots
      BY <3>1 DEF LInv, LegacyFiles
    <3>3. AllDurable
      BY <2>2, <3>1 DEF LInv, Synchronized, AllDurable
    <3>4. UNCHANGED Cells /\ slots' = slots /\ journalLen' = "empty" /\ pc' = "migrate"
      BY <2>2 DEF ReplaceJournal, Cells, logCache, logDurable
    <3> QED BY <1>d, <2>1, <3>2, <3>3, <3>4 DEF Awaiting
  <2>3. CASE /\ journalLen' = journalLen
             /\ pc \in {"choose"} \cup LegacyPc /\ pc' \in {"refused"} \cup LegacyPc
    BY <1>0, <1>a, <2>1, <2>3
  <2> QED
    BY <1>3, <2>2, <2>3 DEF MigrateLegacy, LegacyStep, DiscardCorrupt, AlreadyCommitted,
       RefuseLegacy, RollForward, AppendEntry, SyncRollForward, Rescan, AtLegacyJournal,
       journalCache, diskVars
<1>4. ~AppendBatch /\ ~Write
  <2>1. ~AppendBatch
    BY <1>w DEF AppendBatch, BeginBatch, WriterPc
  <2>2. ~Write
    BY <1>w DEF Write, WriterStep, OpenLog, OpenLogFails, WriteHeader, SyncHeader,
       OpenJournal, InitializeCheckpoint, SyncDirectory, OpenFails, LoadCheckpoint,
       RejectBatch, WriteRecord, WriteFails, FinishBatch, Flush, Close, SyncLog,
       WriteCheckpoint, ResizeJournal, SyncJournal, CommitFails, WriterPc
  <2> QED BY <2>1, <2>2
<1>e. Exit /\ acked' = acked => NewWriter' /\ pc' = "down"
  BY <1>0 DEF Exit, FreshWriter, NewWriter
<1>5. CASE pc = "refused" /\ Crash
  BY <1>0, <1>5, <1>a, <1>e DEF Crash, history, diskVars
<1>6. CASE PowerLoss
  <2>1. journalLen' = "legacy" /\ djournalLen' = "legacy" /\ sequence' = 0 /\ NewWriter'
        /\ pc' = "down"
    BY <1>0, <1>6, <1>e, PowerLossLeaves DEF PowerLoss, LosePower, history
  <2> QED BY <2>1 DEF Awaiting, Replacing
<1>7. CASE Kernel
  <2>1. /\ UNCHANGED writerState /\ UNCHANGED <<pc, caller, created, acked, scanned, sequence>>
        /\ UNCHANGED <<journalLen, slots>>
    BY <1>7 DEF Kernel, Writeback, WritebackHead, WritebackRecord, WritebackTruncate,
       WritebackJournal, WritebackEntry, writerVars, history, journalCache
  <2>2. NewWriter' /\ (NewJournal => NewJournal')
    BY <1>n, <2>1 DEF NewJournal
  <2>3. AllDurable => AllDurable'
    BY <1>7, KernelCells DEF Kernel, LInv, LegacyTypes, AllDurable
  <2>4. CASE djournalLen' = djournalLen
    BY <1>0, <2>1, <2>2, <2>3, <2>4 DEF Awaiting
  <2>5. CASE djournalLen' # djournalLen
    <3>1. djournalLen' = journalLen /\ dslots' = slots
      BY <1>7, <2>5 DEF Kernel, Writeback, WritebackHead, WritebackRecord, WritebackTruncate,
         WritebackJournal, WritebackEntry, journalDurable
    <3>2. pc \in Replacing /\ AllDurable
      BY <1>0, <2>5, <3>1 DEF Replacing
    <3> QED BY <1>0, <2>1, <2>2, <2>3, <2>5, <3>1, <3>2 DEF HandedOver
  <2> QED BY <2>4, <2>5
<1>8. CASE UNCHANGED legacyVars
  <2>1. /\ UNCHANGED writerState /\ UNCHANGED <<pc, caller, created, acked, scanned, sequence>>
        /\ UNCHANGED <<journalLen, slots, djournalLen>> /\ UNCHANGED Cells
    BY <1>8 DEF legacyVars, vars, diskVars, writerVars, history, Cells
  <2> QED BY <1>0, <1>n, <1>d, <2>1 DEF Awaiting, NewJournal
<1> QED BY <1>1, <1>2, <1>3, <1>4, <1>5, <1>6, <1>7, <1>8 DEF LegacyNext

(* From the hand-over on every step is one of the storage's own.           *)
LEMMA StoreGoesOn == IInv /\ [LegacyNext]_legacyVars => [ReuseNext]_vars
<1> SUFFICES ASSUME IInv, [LegacyNext]_legacyVars PROVE [ReuseNext]_vars
  OBVIOUS
<1>1. journalLen # "legacy" /\ pc \notin LegacyPc
  BY DEF IInv, TypeOK, DiskTypeOK, JournalState, Pc, RecoveryPc, WriterPc, LegacyPc
<1>2. ~MigrateLegacy
  BY <1>1 DEF MigrateLegacy, LegacyStep, DiscardCorrupt, AlreadyCommitted, RefuseLegacy,
     RollForward, AppendEntry, SyncRollForward, Rescan, AtLegacyJournal, LegacyPc
<1> QED BY <1>2 DEF LegacyNext, ReuseNext, Next, legacyVars

(* Where only the power fails, a state is before the hand-over or after it.*)
LEMMA PowerAloneStep ==
  ASSUME Hypotheses
  PROVE  LInv /\ LInv' /\ PowerAlone /\ [LegacyNext]_legacyVars => PowerAlone'
<1> SUFFICES ASSUME LInv, LInv', PowerAlone, [LegacyNext]_legacyVars PROVE PowerAlone'
  OBVIOUS
<1>i. faults' = faults
  BY DEF LegacyNext, inherited, legacyVars
<1> SUFFICES ASSUME OneFault, "power" \in faults PROVE Awaiting' \/ IInv'
  BY <1>i DEF PowerAlone, OneFault
<1>1. "kill" \notin faults
  BY OnlyOne
<1>2. CASE Awaiting
  <2>1. (Hypotheses /\ LInv /\ HandedOver => IInv)'
    BY Handover, PTL
  <2> QED BY <1>1, <1>2, <2>1, AwaitingStep DEF Hypotheses
<1>3. CASE IInv
  BY <1>3, StoreGoesOn, StoreStep
<1> QED BY <1>2, <1>3 DEF PowerAlone

(* A refusal has its reason, and the reason stays for as long as it does.  *)
LEMMA ExplainedStep ==
  ASSUME Hypotheses, LInv, PowerAlone, RefusalExplained, [LegacyNext]_legacyVars
  PROVE  RefusalExplained'
<1> USE FormatAssumption
<1>i. UNCHANGED <<legacy, entry, faults>>
  BY DEF LegacyNext, inherited, legacyVars
<1> SUFFICES ASSUME OneFault, pc' = "refused"
             PROVE  \/ logHead' # "valid"
                    \/ journalLen' = "torn"
                    \/ entry \in Record /\ entry.seq > legacy + 1
  BY <1>i DEF RefusalExplained, MigrationRecovers, OneFault
<1>1. CASE Refuse
  <2>1. UNCHANGED <<logHead, journalLen>> /\ pc = "choose"
    BY <1>1 DEF Refuse, diskVars
  <2>2. journalLen = "empty" /\ ~LogHealthy => logHead # "valid"
    BY DEF LogHealthy
  <2>3. journalLen # "absent"
    BY DEF LInv, LegacyFiles
  <2>4. ASSUME journalLen = "full", logHead = "valid" PROVE \E k \in SlotIndex : Consistent(slots[k])
    <3>1. CASE "power" \notin faults
      <4>1. PICK k \in SlotIndex : slots[k] \in Checkpoint
                                   /\ \A i \in 1 .. slots[k].count : log[i] \in Record
        BY <2>4, <3>1 DEF LInv, Backed
      <4>2. /\ slots[k].count \in 0 .. MaxRecords /\ slots[k].last = slots[k].count
            /\ HasLength(log, scanned) /\ scanned \in 0 .. MaxRecords /\ InOrder(log)
        BY <2>1, <4>1 DEF LInv, LegacyScanned, LegacyNumbered, LegacyTypes, Checkpoint
      <4>3. CASE slots[k].count = 0
        BY <4>1, <4>2, <4>3 DEF Consistent
      <4>4. CASE slots[k].count # 0
        <5>1. slots[k].count \in Position /\ slots[k].count \in 1 .. slots[k].count
          BY <4>2, <4>4 DEF Position
        <5>2. log[slots[k].count] \in Record /\ log[slots[k].count].seq = slots[k].count
          BY <4>1, <4>2, <5>1 DEF InOrder
        <5>3. slots[k].count <= scanned
          BY <4>2, <5>1, <5>2, SentinelAssumption DEF HasLength
        <5> QED BY <4>1, <4>2, <4>4, <5>2, <5>3 DEF Consistent
      <4> QED BY <4>3, <4>4
    <3>2. CASE "power" \in faults
      <4>1. IInv
        BY <2>1, <2>4, <3>2 DEF PowerAlone, Awaiting, LegacyPc
      <4>2. PICK k \in SlotIndex : slots[k] \in Checkpoint
        BY <2>4, <4>1 DEF IInv, Covering, Top, Newest
      <4> QED BY <2>1, <2>4, <4>1, <4>2, SlotsConsistent
    <3> QED BY <3>1, <3>2
  <2> QED BY <1>1, <2>1, <2>2, <2>3, <2>4 DEF Refuse
<1>2. CASE RefuseLegacy
  <2>1. AtLegacyJournal /\ UNCHANGED <<logHead, journalLen>>
    BY <1>2 DEF RefuseLegacy, diskVars
  <2>2. ~LogHealthy => logHead # "valid"
    BY DEF LogHealthy
  <2>3. ASSUME entry # Torn, LastSequence + 1 < entry.seq
        PROVE  entry \in Record /\ entry.seq > legacy + 1
    <3>1. entry \in Record /\ LastSequence = scanned /\ scanned \in 0 .. MaxRecords
      BY <2>1, <2>3, EntryIsRecord, LastIsScanned
    <3>2. scanned >= Base /\ Base >= legacy /\ Base \in Int /\ legacy \in Int
      BY <2>1, BelowBase DEF AtLegacyJournal, Deciding, LInv, LegacyKept
    <3>3. entry.seq \in Int
      BY <3>1 DEF Record, SeqNum
    <3> QED BY <2>3, <3>1, <3>2, <3>3
  <2> QED BY <1>2, <2>1, <2>2, <2>3 DEF RefuseLegacy
<1>3. CASE Rescan
  BY <1>3 DEF Rescan, ReplaceJournal, diskVars
<1>4. CASE pc = "refused"
  <2>1. UNCHANGED <<logHead, journalLen>>
    <3>1. CASE Kernel \/ UNCHANGED legacyVars
      BY <3>1 DEF Kernel, Writeback, WritebackHead, WritebackRecord, WritebackTruncate,
         WritebackJournal, WritebackEntry, logCache, journalCache, legacyVars, vars, diskVars
    <3>2. ~Recover /\ ~MigrateLegacy /\ ~AppendBatch /\ ~Start
      BY <1>4 DEF Recover, RecoveryStep, Scan, ChooseCheckpoint, NothingToRecover, Refuse,
         StartMigration, MigrateJournal, SyncMigration, MigrateLegacy, LegacyStep,
         DiscardCorrupt, AlreadyCommitted, RefuseLegacy, RollForward, AppendEntry,
         SyncRollForward, Rescan, AtLegacyJournal, AppendBatch, BeginBatch, Start
    <3>3. ~Write
      BY <1>4 DEF Write, WriterStep, OpenLog, OpenLogFails, WriteHeader, SyncHeader,
         OpenJournal, InitializeCheckpoint, SyncDirectory, OpenFails, LoadCheckpoint,
         RejectBatch, WriteRecord, WriteFails, FinishBatch, Flush, Close, SyncLog,
         WriteCheckpoint, ResizeJournal, SyncJournal, CommitFails
    <3>4. ~Crash /\ ~PowerLoss
      BY DEF Crash, PowerLoss, Exit
    <3> QED BY <3>1, <3>2, <3>3, <3>4 DEF LegacyNext
  <2> QED BY <1>4, <2>1 DEF RefusalExplained, MigrationRecovers
<1>5. CASE pc # "refused" /\ ~Refuse /\ ~RefuseLegacy /\ ~Rescan
  <2>1. CASE Recover
    BY <1>5, <2>1 DEF Recover, RecoveryStep, Scan, ChooseCheckpoint, NothingToRecover,
       StartMigration, MigrateJournal, SyncMigration
  <2>2. CASE MigrateLegacy
    BY <1>5, <2>2 DEF MigrateLegacy, LegacyStep, DiscardCorrupt, AlreadyCommitted,
       RollForward, AppendEntry, SyncRollForward, ReplaceJournal
  <2>3. CASE Write
    BY <1>5, <2>3 DEF Write, WriterStep, OpenLog, OpenLogFails, WriteHeader, SyncHeader,
       OpenJournal, InitializeCheckpoint, SyncDirectory, OpenFails, LoadCheckpoint,
       RejectBatch, WriteRecord, WriteFails, FinishBatch, Flush, Close, SyncLog,
       WriteCheckpoint, ResizeJournal, SyncJournal, CommitFails, RecordFailure, Exit
  <2> QED
    BY <1>5, <2>1, <2>2, <2>3
       DEF LegacyNext, Start, AppendBatch, BeginBatch, Crash, PowerLoss, Exit, Kernel,
           writerVars, legacyVars, vars
<1> QED BY <1>1, <1>2, <1>3, <1>4, <1>5

(* At the start the old journal waits, or there is none.                   *)
LEMMA PowerAloneInit == Hypotheses /\ LegacyInit => PowerAlone /\ RefusalExplained
<1> SUFFICES ASSUME Hypotheses, LegacyInit PROVE PowerAlone /\ RefusalExplained
  OBVIOUS
<1>1. LInv
  BY LegacyInitInv
<1>2. NewWriter /\ pc = "down" /\ sequence = 0 /\ dslots = slots /\ slots = NoSlots
      /\ djournalLen = journalLen /\ dlog = log
  BY DEF LegacyInit, NewWriter
<1>3. CASE entry = Absent
  <2>1. HandedOver
    BY <1>2, <1>3 DEF LegacyInit, HandedOver, AllDurable
  <2> QED BY <1>1, <1>2, <2>1, Handover DEF PowerAlone, RefusalExplained, MigrationRecovers
<1>4. CASE entry # Absent
  BY <1>2, <1>4 DEF LegacyInit, Awaiting, Replacing, PowerAlone, RefusalExplained,
     MigrationRecovers
<1> QED BY <1>3, <1>4

(* If processes are only killed, or if only the power fails, recovery      *)
(* refuses what a legacy recorder left for one of three reasons: a log     *)
(* without a header, a replacement of the journal that was cut short, or   *)
(* a gap before the entry (recover_startup_state).                         *)
THEOREM RefusalHasReason == ASSUME Hypotheses PROVE LegacySpec => []RefusalExplained
<1>1. LegacyInit => RInv
  BY LegacyInitInv, PowerAloneInit DEF RInv
<1>2. RInv /\ [LegacyNext]_legacyVars => RInv'
  <2> SUFFICES ASSUME RInv, [LegacyNext]_legacyVars PROVE RInv'
    OBVIOUS
  <2>1. LInv'
    BY LegacyStepInv DEF RInv
  <2>2. PowerAlone'
    BY <2>1, PowerAloneStep DEF RInv
  <2>3. RefusalExplained'
    BY ExplainedStep DEF RInv
  <2> QED BY <2>1, <2>2, <2>3 DEF RInv
<1>3. RInv => RefusalExplained
  BY DEF RInv
<1> QED BY <1>1, <1>2, <1>3, PTL DEF LegacySpec
=============================================================================

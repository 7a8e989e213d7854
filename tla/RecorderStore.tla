--------------------------- MODULE RecorderStore ---------------------------
(***************************************************************************)
(* The recorder's storage over many runs of the program (main.cpp): each   *)
(* process recovers the files, opens the writer, appends batches and       *)
(* stops, and may be killed or lose power at any step.                     *)
(***************************************************************************)
EXTENDS BinaryLogWriter, RecoveryManager

VARIABLE
  sequence   \* FlightRecorder.sequence_: the last number given to a record

vars == <<diskVars, writerVars, scanned, sequence>>

(* "idle": a writer that closed its files or failed to open them, see      *)
(* WriterReuse.                                                            *)
Pc == {"down", "idle"} \cup RecoveryPc \cup WriterPc

Init ==
  /\ DiskInit
  /\ pc = "down" /\ caller = "open" /\ created = FALSE
  /\ batch = NoBatch /\ written = 0
  /\ count = 0 /\ lastSeq = 0 /\ unsynced = 0
  /\ gen = 0 /\ active = 1 /\ failed = FALSE
  /\ session = 0 /\ acked = 0
  /\ scanned = 0 /\ sequence = 0

(* The program is started.                                                 *)
Start ==
  /\ pc = "down"
  /\ session < MaxSessions
  /\ session' = session + 1
  /\ pc' = "scan"
  /\ UNCHANGED <<diskVars, caller, writerState, created, acked,
                 scanned, sequence>>

(* Recovery's report gives the recorder the number to continue from.       *)
Recover ==
  /\ RecoveryStep
  /\ sequence' = IF pc' = "closed" /\ scanned' # 0 THEN log'[scanned'].seq ELSE 0
  /\ UNCHANGED <<caller, writerState, created, history>>

(* A recorder numbers its batches on from the last one.  A caller that     *)
(* retries after a failure continues the log as the writer left it.        *)
AppendBatch ==
  /\ \E size \in 1 .. BatchCapacity :
       \/ ~failed /\ BeginBatch(NextSeq(sequence), size)
       \/ failed /\ BeginBatch(NextSeq(lastSeq), size)
  /\ sequence' = (batch'.first + batch'.size - 1) % SeqModulus
  /\ UNCHANGED scanned

Write ==
  /\ WriterStep
  /\ scanned' = IF pc' = "down" THEN 0 ELSE scanned
  /\ sequence' = IF pc' = "down" THEN 0 ELSE sequence

(* The process is killed, gives up on an I/O error, or leaves after        *)
(* recovery refused: the files stay as the kernel sees them.               *)
Crash ==
  /\ pc # "down"
  /\ Exit
  /\ scanned' = 0 /\ sequence' = 0
  /\ UNCHANGED <<diskVars, history>>

PowerLoss ==
  /\ LosePower
  /\ Exit
  /\ scanned' = 0 /\ sequence' = 0
  /\ UNCHANGED history

Kernel ==
  /\ Writeback
  /\ UNCHANGED <<writerVars, scanned, sequence>>

Next == Start \/ Recover \/ AppendBatch \/ Write \/ Crash \/ PowerLoss \/ Kernel

Spec == Init /\ [][Next]_vars

-----------------------------------------------------------------------------
(* Properties                                                              *)

(* Every variable keeps its type.                                          *)
TypeOK ==
  /\ DiskTypeOK
  /\ pc \in Pc /\ caller \in Caller /\ created \in BOOLEAN
  /\ batch \in Batch /\ written \in 0 .. BatchCapacity
  /\ count \in 0 .. MaxRecords /\ lastSeq \in SeqNum
  /\ unsynced \in 0 .. MaxRecords
  /\ gen \in 0 .. MaxGeneration /\ active \in SlotIndex /\ failed \in BOOLEAN
  /\ session \in 0 .. MaxSessions /\ acked \in 0 .. MaxRecords
  /\ scanned \in 0 .. MaxRecords /\ sequence \in SeqNum

(* Write-ahead order (flush, "synchronize the log" before the checkpoint): *)
(* whatever a checkpoint slot claims, in the cache or on stable storage,   *)
(* the records are valid and already durable, so that no moment of power   *)
(* loss leaves a checkpoint that promises more than the log holds.         *)
SlotCovered(slot) ==
  slot \in Checkpoint =>
    /\ ValidPrefix(log, slot.count)
    /\ \A i \in 1 .. slot.count : dlog[i] = log[i]
    /\ slot.last = IF slot.count = 0 THEN 0 ELSE log[slot.count].seq

CheckpointsCovered ==
  \A k \in SlotIndex : SlotCovered(slots[k]) /\ SlotCovered(dslots[k])

(* "Records reported as committed must remain in the selected prefix": an  *)
(* acknowledged record is in the log, whole, and on stable storage, while  *)
(* the program runs and after every crash, power loss and recovery.        *)
AcknowledgedDurable ==
  \A i \in 1 .. acked : log[i] \in Record /\ dlog[i] = log[i]

(* No crash, power loss, recovery or later session ever changes an         *)
(* acknowledged record, and acknowledgements are never taken back.         *)
AcknowledgedForever ==
  [][/\ acked' >= acked
     /\ \A i \in 1 .. acked : log'[i] = log[i]]_vars

(* A recovery that succeeds leaves a pair of files that open() accepts,    *)
(* and open() then continues from the newest checkpoint: recovery and the  *)
(* writer choose a slot by two different rules.  A writer that failed may  *)
(* find more in the log than its checkpoint counts.                        *)
Newest(js, k) ==
  /\ js[k] \in Checkpoint
  /\ \A j \in SlotIndex \ {k} : js[j] \in Checkpoint => js[j].gen < js[k].gen

RecoveredLogOpens ==
  pc \in {"closed", "openJournal", "load"} /\ journalLen = "full" /\ ~failed =>
    \E k \in SlotIndex : Newest(slots, k) /\ OpensWith(k)

(* Recovery gives up for good only on files with nothing acknowledged: no  *)
(* crash can lock committed records in a log the recorder refuses.         *)
RefusalStrandsNothing ==
  pc = "refused" => acked = 0

(* The number recovery reports is the one the writer expects next, so the  *)
(* first batch of a session is never rejected as out of sequence.          *)
SequenceContinues ==
  pc = "ready" /\ ~failed /\ count # 0 => sequence = lastSeq

(* The newest slot of either journal image covers what was acknowledged:   *)
(* neither a torn slot, nor a failed commit, nor a crash between choosing  *)
(* a checkpoint and the next commit brings back an older one.              *)
NewestCoversAcked ==
  acked > 0 =>
    /\ \E k \in SlotIndex : Newest(slots, k) /\ slots[k].count >= acked
    /\ \E k \in SlotIndex : Newest(dslots, k) /\ dslots[k].count >= acked

(* What the running writer, or else the newest checkpoint, holds beyond    *)
(* the acknowledged records.                                               *)
Holding == {"dirSync", "ready", "writing", "logSync", "ckptWrite",
            "ckptResize", "ckptSync"}
Held ==
  IF pc \in Holding THEN count
  ELSE IF \E k \in SlotIndex : Newest(slots, k)
       THEN slots[CHOOSE k \in SlotIndex : Newest(slots, k)].count
       ELSE acked

Abstract == INSTANCE DurableLog WITH
  Data      <- Record,
  committed <- [i \in 1 .. acked |-> log[i]],
  pending   <- [i \in 1 .. Held - acked |-> log[acked + i]]

(* The files and the program that writes and recovers them implement the   *)
(* durable log.                                                            *)
ImplementsDurableLog == Abstract!Spec

=============================================================================

----------------------------- MODULE CrashMatrix -----------------------------
(***************************************************************************)
(* tools/crash_matrix.cpp and the writer's armed faults (RuntimeFaultMode). *)
(* A case commits pre records, lets a child process open the log and       *)
(* append one batch of size records with a fault armed at the batch, and   *)
(* recovers the files twice in a third process.  The tool draws 30 cases   *)
(* for each of six faults; here every pre, every size, every cut of a      *)
(* partial write and all eleven faults are taken.                          *)
(***************************************************************************)
EXTENDS RecorderStore

CONSTANT MaxBatch   \* largest pre and size

ASSUME MatrixAssumption ==
  /\ MaxBatch \in 1 .. BatchCapacity
  /\ 2 * MaxBatch <= MaxRecords /\ 2 * MaxBatch < SeqModulus
  /\ MaxSessions >= 3 /\ MaxGeneration >= 3 /\ SyncEvery = 1

VARIABLES
  mode, pre, size,  \* the case
  stage,            \* "initialize", "child", "recover", "again", "done"
  ackFile,          \* acknowledgement_fd: the sequence last acknowledged
  first, second     \* what the two recoveries report

case == <<mode, pre, size>>
matrixVars == <<vars, case, stage, ackFile, first, second>>

(* Faults of kSites, and the ones the tool leaves out.                     *)
AcknowledgingSite == {"CrashAfterJournalSync"}
Site == AcknowledgingSite \cup
  {"CrashBeforeMainLogWrite", "CrashDuringMainLogWrite", "CrashAfterMainLogWrite",
   "CrashAfterMainLogSync", "CrashDuringCheckpointWrite"}
OtherMode ==
  {"CrashBeforeMainLogSync", "CrashBeforeCheckpointWrite",
   "CrashAfterCheckpointWrite", "CrashBeforeJournalSync", "DropCommit"}

NoReport == [healthy |-> FALSE, records |-> 0, gen |-> 0]

MatrixInit ==
  /\ Init
  /\ mode \in Site \cup OtherMode
  /\ pre \in 1 .. MaxBatch /\ size \in 1 .. MaxBatch
  /\ stage = "initialize"
  /\ ackFile = 0 /\ first = NoReport /\ second = NoReport

-----------------------------------------------------------------------------
(* The writer processes.  I/O errors are not part of the matrix.           *)

(* The place in append_batch, flush and commit_checkpoint where the armed  *)
(* fault ends the process.  A partial write ends anywhere in the write.    *)
AtFault ==
  /\ stage = "child"
  /\ \/ mode = "CrashBeforeMainLogWrite" /\ pc = "writing" /\ log[count + 1] = Absent
     \/ mode = "CrashDuringMainLogWrite" /\ pc = "writing"
     \/ mode = "CrashAfterMainLogWrite" /\ pc = "writing" /\ written = size
     \/ mode = "CrashBeforeMainLogSync" /\ pc = "logSync"
     \/ /\ mode \in {"CrashAfterMainLogSync", "CrashBeforeCheckpointWrite",
                     "CrashDuringCheckpointWrite"}
        /\ pc = "ckptWrite"
     \/ /\ mode \in {"CrashAfterCheckpointWrite", "CrashBeforeJournalSync"}
        /\ pc = "ckptSync"
     \/ mode = "CrashAfterJournalSync" /\ pc = "ready" /\ acked = pre + size

(* A write that is cut short stops before its last record is whole.        *)
PartialWrite ==
  \/ mode = "CrashDuringMainLogWrite" /\ WriteRecord /\ written' < size
  \/ mode = "CrashDuringCheckpointWrite" /\ WriteCheckpoint /\ pc' = pc

(* DropCommit returns an error once the batch is in the file.              *)
BatchEnds ==
  /\ FinishBatch
  /\ pc' = IF stage = "child" /\ mode = "DropCommit" THEN "ready" ELSE "logSync"

WriterWorks ==
  \/ OpenLog \/ WriteHeader \/ SyncHeader \/ OpenJournal \/ InitializeCheckpoint
  \/ SyncDirectory \/ (\E k \in SlotIndex : LoadCheckpoint(k))
  \/ WriteRecord \/ BatchEnds
  \/ SyncLog \/ WriteCheckpoint \/ ResizeJournal \/ SyncJournal

Works ==
  /\ stage \in {"initialize", "child"}
  /\ IF AtFault THEN PartialWrite ELSE WriterWorks
  /\ UNCHANGED <<case, stage, ackFile, first, second, scanned, sequence>>

(* The program opens the writer without a recovery.                        *)
Launch(next) ==
  /\ pc = "down"
  /\ session' = session + 1
  /\ pc' = next
  /\ UNCHANGED <<diskVars, caller, writerState, created, acked, scanned, sequence>>

StartInitialize ==
  /\ stage = "initialize" /\ session = 0
  /\ Launch("closed")
  /\ UNCHANGED <<case, stage, ackFile, first, second>>

Append ==
  /\ \/ stage = "initialize" /\ count = 0 /\ BeginBatch(1, pre)
     \/ stage = "child" /\ count = pre /\ BeginBatch(pre + 1, size)
  /\ UNCHANGED <<case, stage, ackFile, first, second, scanned, sequence>>

CloseInitialized ==
  /\ stage = "initialize" /\ acked = pre
  /\ Close
  /\ UNCHANGED <<case, stage, ackFile, first, second, scanned, sequence>>

StartChild ==
  /\ stage = "initialize" /\ acked = pre
  /\ Launch("closed")
  /\ stage' = "child"
  /\ ackFile' = pre
  /\ UNCHANGED <<case, first, second>>

(* _exit: the fault, or the child's last line.                             *)
ChildExits ==
  /\ \/ AtFault /\ (mode = "CrashDuringMainLogWrite" => log[count + 1] # Absent)
     \/ stage = "child" /\ pc = "ready" /\ failed
  /\ Exit
  /\ stage' = "recover"
  /\ ackFile' = IF mode = "CrashAfterJournalSync" THEN lastSeq ELSE ackFile
  /\ IF mode = "CrashDuringMainLogWrite"
     THEN SyncLogFile /\ UNCHANGED <<logCache, journalCache, journalDurable>>
     ELSE UNCHANGED diskVars
  /\ UNCHANGED <<case, first, second, history, scanned, sequence>>

-----------------------------------------------------------------------------
(* recover_in_fresh_process                                                *)

StartRecovery ==
  /\ stage = "recover"
  /\ Launch("scan")
  /\ UNCHANGED <<case, stage, ackFile, first, second>>

Recovers ==
  /\ stage \in {"recover", "again"}
  /\ Recover
  /\ UNCHANGED <<case, stage, ackFile, first, second>>

Report ==
  [healthy |-> pc = "closed",
   records |-> scanned,
   gen |-> IF \E k \in SlotIndex : Selected(k)
           THEN slots[CHOOSE k \in SlotIndex : Selected(k)].gen ELSE 0]

Reports ==
  /\ pc \in {"closed", "refused"}
  /\ \/ /\ stage = "recover" /\ first' = Report /\ UNCHANGED second
        /\ stage' = "again" /\ pc' = "scan"
     \/ /\ stage = "again" /\ second' = Report /\ UNCHANGED first
        /\ stage' = "done" /\ pc' = "down"
  /\ UNCHANGED <<diskVars, caller, writerState, created, history, scanned,
                 sequence, case, ackFile>>

MatrixNext ==
  \/ StartInitialize \/ Works \/ Append \/ CloseInitialized
  \/ StartChild \/ ChildExits
  \/ StartRecovery \/ Recovers \/ Reports

(* Nothing else runs: a process that can go on does.                       *)
MatrixSpec == MatrixInit /\ [][MatrixNext]_matrixVars /\ WF_matrixVars(MatrixNext)

-----------------------------------------------------------------------------
(* Properties                                                              *)

ExpectedRecords == IF mode \in AcknowledgingSite THEN pre + size ELSE pre

(* result.passed, without the exit status: recovery brought back what was  *)
(* acknowledged, no more and no less, in a file of that length, and the    *)
(* second recovery found the same and cut nothing.  Whatever fault ends    *)
(* the child, also one the tool does not try, the batch is recovered whole *)
(* or not at all.                                                          *)
CasePasses ==
  stage = "done" =>
    /\ first.healthy /\ second = first
    /\ second.records \in {pre, pre + size} /\ second.records >= ackFile
    /\ mode \in Site =>
         /\ second.records = ExpectedRecords /\ ackFile = ExpectedRecords
         /\ ValidPrefix(log, ExpectedRecords) /\ HasLength(log, ExpectedRecords)

(* Every case comes to its end: the child can open what the first process  *)
(* left and append to it, and recovery can open what the child left.       *)
CasesEnd == <>(stage = "done")

=============================================================================

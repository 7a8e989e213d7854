-------------------------- MODULE BinaryLogWriter --------------------------
(***************************************************************************)
(* BinaryLogWriter (src/src/binary_log_writer.cpp), one action per write,  *)
(* synchronization or decision the process can crash after.  open() makes  *)
(* both files and the first checkpoint, append_batch() writes a batch and  *)
(* commits when sync_every_batches batches are pending, flush() and        *)
(* close() commit what is pending.  A commit is: synchronize the log,      *)
(* write the older checkpoint slot, synchronize the journal.               *)
(***************************************************************************)
EXTENDS Disk

CONSTANTS
  BatchCapacity,  \* WriterOptions.batch_capacity_records
  SyncEvery       \* WriterOptions.sync_every_batches

ASSUME OptionsAssumption ==
  /\ BatchCapacity \in Nat \ {0}
  /\ SyncEvery \in Nat \ {0}

VARIABLES
  caller,    \* who asked for the commit under way: "open", "append", "flush", "close"
  batch,     \* the batch being written: first sequence and number of records
  written,   \* how many of them are in the file
  count,     \* file_record_count_, and logical_end_ in records
  lastSeq,   \* last_written_sequence_
  unsynced,  \* unsynced_batches_
  gen,       \* checkpoint_generation_
  active,    \* active_checkpoint_slot_
  failed,    \* failed_
  created,   \* open() found a file missing: the directory must be synchronized
  session,   \* the use of the writer, for telling its records apart
  acked      \* records covered by the last commit that returned success

writerState == <<batch, written, count, lastSeq, unsynced, gen, active, failed>>
history     == <<session, acked>>
writerVars  == <<pc, caller, writerState, created, history>>

Batch == [first : SeqNum, size : 0 .. BatchCapacity]
NoBatch == [first |-> 0, size |-> 0]
Caller == {"open", "append", "flush", "close"}
WriterPc == {"closed", "header", "headerSync", "openJournal", "load", "dirSync",
             "ready", "writing", "logSync", "ckptWrite", "ckptResize", "ckptSync"}

(* The member initializers of a BinaryLogWriter.                           *)
FreshWriter ==
  /\ batch' = NoBatch /\ written' = 0
  /\ count' = 0 /\ lastSeq' = 0 /\ unsynced' = 0
  /\ gen' = 0 /\ active' = 1 /\ failed' = FALSE

(* The process leaves: its memory is gone.                                 *)
Exit ==
  /\ pc' = "down"
  /\ caller' = "open"
  /\ created' = FALSE
  /\ FreshWriter

-----------------------------------------------------------------------------
(* open(): a failure closes the files and start() gives up.                *)

OpenLog ==
  /\ pc = "closed"
  /\ created' = (logHead = "absent" \/ journalLen = "absent")
  /\ logHead' = IF logHead = "absent" THEN "empty" ELSE logHead
  /\ pc' = IF logHead' = "empty" THEN "header" ELSE "openJournal"
  /\ logHead # "torn"
  /\ UNCHANGED <<log, logDurable, journalCache, journalDurable, entries,
                 caller, writerState, history>>

(* open(2) fails, or the header check of an existing log, or its length is *)
(* no whole number of records.                                             *)
OpenLogFails ==
  /\ pc = "closed"
  /\ Exit
  /\ UNCHANGED <<diskVars, history>>

WriteHeader ==
  /\ pc = "header"
  /\ \/ logHead' = "torn" /\ logHead # "torn" /\ pc' = pc
     \/ logHead' = "valid" /\ pc' = "headerSync"
  /\ UNCHANGED <<log, logDurable, journalCache, journalDurable, entries,
                 caller, writerState, created, history>>

SyncHeader ==
  /\ pc = "headerSync"
  /\ SyncLogFile
  /\ pc' = "openJournal"
  /\ UNCHANGED <<logCache, journalCache, journalDurable,
                 caller, writerState, created, history>>

OpenJournal ==
  /\ pc = "openJournal"
  /\ journalLen' = IF journalLen = "absent" THEN "empty" ELSE journalLen
  /\ pc' = "load"
  /\ UNCHANGED <<logCache, logDurable, slots, journalDurable, entries,
                 caller, writerState, created, history>>

(* An empty journal: commit what the file holds as generation 1.           *)
InitializeCheckpoint ==
  /\ pc = "load"
  /\ journalLen = "empty"
  /\ \E n \in 0 .. MaxRecords :
       /\ HasLength(log, n)
       /\ n > 0 => log[n] \in Record
       /\ count' = n
       /\ lastSeq' = IF n = 0 THEN lastSeq ELSE log[n].seq
  /\ gen' = 0
  /\ active' = 1
  /\ caller' = "open"
  /\ pc' = "ckptWrite"
  /\ UNCHANGED <<diskVars, batch, written, unsynced, failed, created, history>>

(* The slots open() accepts cover exactly the whole file.                  *)
OpensWith(k) ==
  /\ slots[k] \in Checkpoint
  /\ HasLength(log, slots[k].count)

-----------------------------------------------------------------------------
(* Mistakes the code does not make.  Each stands in for the definition its *)
(* comment names, to show that a property would notice it.                 *)

(* LoadCheckpoint without last_written_sequence_.                          *)
LoadForgetsSequence(k) ==
  /\ pc = "load"
  /\ journalLen = "full"
  /\ OpensWith(k)
  /\ \A j \in SlotIndex : OpensWith(j) =>
       \/ slots[j].gen < slots[k].gen
       \/ slots[j].gen = slots[k].gen /\ k <= j
  /\ active' = k
  /\ gen' = slots[k].gen
  /\ count' = slots[k].count
  /\ pc' = IF created THEN "dirSync" ELSE "ready"
  /\ UNCHANGED <<diskVars, caller, batch, written, lastSeq, unsynced, failed,
                 created, history>>

(* Flush that tries again after a failure.                                 *)
FlushAfterFailure ==
  /\ pc = "ready"
  /\ failed \/ unsynced # 0
  /\ pc' = "logSync" /\ caller' = "flush"
  /\ UNCHANGED <<diskVars, writerState, created, history>>

(* SyncLog that only moves on: the log is not synchronized first.          *)
CommitSkipsLog ==
  /\ pc = "logSync"
  /\ pc' = "ckptWrite"
  /\ UNCHANGED <<diskVars, caller, writerState, created, history>>

(* WriteCheckpoint into the slot in use.                                   *)
OverwriteActive ==
  /\ pc = "ckptWrite"
  /\ gen < MaxGeneration
  /\ \/ /\ slots[active] # Torn
        /\ slots' = [slots EXCEPT ![active] = Torn]
        /\ UNCHANGED pc
     \/ /\ slots' = [slots EXCEPT ![active] =
                        [gen |-> gen + 1, count |-> count, last |-> lastSeq]]
        /\ pc' = "ckptResize"
  /\ journalLen' = IF journalLen = "full" THEN "full" ELSE "torn"
  /\ UNCHANGED <<logCache, logDurable, journalDurable, entries,
                 caller, writerState, created, history>>

(* WriteCheckpoint without the generation limit.                           *)
GenerationUnlimited ==
  /\ pc = "ckptWrite"
  /\ slots' = [slots EXCEPT ![OtherSlot(active)] =
                  [gen |-> gen + 1, count |-> count, last |-> lastSeq]]
  /\ pc' = "ckptResize"
  /\ journalLen' = IF journalLen = "full" THEN "full" ELSE "torn"
  /\ UNCHANGED <<logCache, logDurable, journalDurable, entries,
                 caller, writerState, created, history>>

(* SyncJournal that acknowledges without synchronizing.                    *)
AcknowledgeUnsynced ==
  /\ pc = "ckptSync"
  /\ acked' = count
  /\ IF caller = "close" THEN Exit
     ELSE /\ gen' = gen + 1
          /\ active' = OtherSlot(active)
          /\ unsynced' = IF caller = "open" THEN unsynced ELSE 0
          /\ pc' = IF caller = "open" /\ created THEN "dirSync" ELSE "ready"
          /\ UNCHANGED <<caller, batch, written, count, lastSeq, failed, created>>
  /\ UNCHANGED <<diskVars, session>>

(* SyncJournal that goes on using the old slot: the next checkpoint        *)
(* overwrites the newest one.                                              *)
SlotNotFlipped ==
  /\ pc = "ckptSync"
  /\ SyncJournalFile
  /\ acked' = count
  /\ IF caller = "close" THEN Exit
     ELSE /\ gen' = gen + 1
          /\ unsynced' = IF caller = "open" THEN unsynced ELSE 0
          /\ pc' = IF caller = "open" /\ created THEN "dirSync" ELSE "ready"
          /\ UNCHANGED <<caller, batch, written, count, lastSeq, active, failed, created>>
  /\ UNCHANGED <<logCache, logDurable, journalCache, session>>

-----------------------------------------------------------------------------
LoadCheckpoint(k) ==
  /\ pc = "load"
  /\ journalLen = "full"
  /\ OpensWith(k)
  /\ \A j \in SlotIndex : OpensWith(j) =>
       \/ slots[j].gen < slots[k].gen
       \/ slots[j].gen = slots[k].gen /\ k <= j
  /\ active' = k
  /\ gen' = slots[k].gen
  /\ count' = slots[k].count
  /\ lastSeq' = slots[k].last
  /\ pc' = IF created THEN "dirSync" ELSE "ready"
  /\ UNCHANGED <<diskVars, caller, batch, written, unsynced, failed, created,
                 history>>

SyncDirectory ==
  /\ pc = "dirSync"
  /\ entries' = File
  /\ pc' = "ready"
  /\ created' = FALSE
  /\ UNCHANGED <<logCache, logDurable, journalCache, journalDurable,
                 caller, writerState, history>>

(* An error return of any call of open(), or a journal of another length   *)
(* or without a slot to load.                                              *)
OpenFails ==
  /\ pc \in {"header", "headerSync", "openJournal", "load", "dirSync"}
  /\ Exit
  /\ UNCHANGED <<diskVars, history>>

-----------------------------------------------------------------------------
(* append_batch()                                                          *)

RecordFailure ==
  /\ failed' = TRUE
  /\ UNCHANGED <<caller, batch, written, count, lastSeq, unsynced, gen, active,
                 created, history>>

(* The batch is empty or too long, has a gap, or does not follow the last  *)
(* record written; or preallocation fails.  Nothing reaches the file.      *)
RejectBatch ==
  /\ pc = "ready"
  /\ RecordFailure
  /\ UNCHANGED <<diskVars, pc>>

(* Accepted: the sequences continue the last one written, unless the file  *)
(* holds no record yet.  A record that does not fit the modelled file is   *)
(* out of bounds.                                                          *)
BeginBatch(first, size) ==
  /\ pc = "ready"
  /\ size \in 1 .. BatchCapacity
  /\ count + size <= MaxRecords
  /\ count # 0 => first = NextSeq(lastSeq)
  /\ batch' = [first |-> first, size |-> size]
  /\ written' = 0
  /\ pc' = "writing"
  /\ UNCHANGED <<diskVars, caller, count, lastSeq, unsynced, gen, active, failed,
                 created, history>>

BatchSeq(i) == (batch.first + i) % SeqModulus

(* pwrite moves one more record of the batch, or a part of one, into the   *)
(* file.  A retry after a failed batch starts over at logical_end_.        *)
WriteRecord ==
  /\ pc = "writing"
  /\ written < batch.size
  /\ LET at == count + written + 1
     IN \/ /\ log' = [log EXCEPT ![at] = [seq |-> BatchSeq(written), session |-> session]]
           /\ written' = written + 1
        \/ /\ log[at] # Torn
           /\ log' = [log EXCEPT ![at] = Torn]
           /\ UNCHANGED written
  /\ UNCHANGED <<logHead, logDurable, journalCache, journalDurable, entries,
                 pc, caller, batch, count, lastSeq, unsynced, gen, active, failed,
                 created, history>>

WriteFails ==
  /\ pc = "writing"
  /\ failed' = TRUE
  /\ batch' = NoBatch
  /\ written' = 0
  /\ pc' = "ready"
  /\ UNCHANGED <<diskVars, caller, count, lastSeq, unsynced, gen, active,
                 created, history>>

(* The whole batch is in the file: it is counted, and it may be the one    *)
(* that completes the group.  An armed DropCommit fault fails here.        *)
FinishBatch ==
  /\ pc = "writing"
  /\ written = batch.size
  /\ count' = count + batch.size
  /\ lastSeq' = BatchSeq(batch.size - 1)
  /\ unsynced' = unsynced + 1
  /\ batch' = NoBatch
  /\ written' = 0
  /\ \/ /\ unsynced' >= SyncEvery /\ ~failed
        /\ pc' = "logSync" /\ caller' = "append" /\ UNCHANGED failed
     \/ /\ unsynced' < SyncEvery
        /\ pc' = "ready" /\ UNCHANGED <<caller, failed>>
     \/ /\ pc' = "ready" /\ failed' = TRUE /\ UNCHANGED caller
  /\ UNCHANGED <<diskVars, gen, active, created, history>>

-----------------------------------------------------------------------------
(* flush(), close() and the commit                                         *)

Flush ==
  /\ pc = "ready"
  /\ \/ /\ failed                  \* an error return and nothing else
        /\ UNCHANGED <<pc, caller>>
     \/ /\ ~failed /\ unsynced # 0
        /\ pc' = "logSync" /\ caller' = "flush"
  /\ UNCHANGED <<diskVars, writerState, created, history>>

Close ==
  /\ pc = "ready"
  /\ \/ /\ unsynced # 0 /\ ~failed
        /\ pc' = "logSync" /\ caller' = "close"
        /\ UNCHANGED <<writerState, created>>
     \/ /\ unsynced = 0 \/ failed
        /\ Exit
  /\ UNCHANGED <<diskVars, history>>

SyncLog ==
  /\ pc = "logSync"
  /\ SyncLogFile
  /\ pc' = "ckptWrite"
  /\ UNCHANGED <<logCache, journalCache, journalDurable,
                 caller, writerState, created, history>>

NewCheckpoint == [gen |-> gen + 1, count |-> count, last |-> lastSeq]

(* The older slot is overwritten, perhaps in part only.  The first slot of *)
(* an empty journal leaves it shorter than its full length.                *)
WriteCheckpoint ==
  /\ pc = "ckptWrite"
  /\ gen < MaxGeneration
  /\ \/ /\ slots[OtherSlot(active)] # Torn
        /\ slots' = [slots EXCEPT ![OtherSlot(active)] = Torn]
        /\ UNCHANGED pc
     \/ /\ slots' = [slots EXCEPT ![OtherSlot(active)] = NewCheckpoint]
        /\ pc' = "ckptResize"
  /\ journalLen' = IF journalLen = "full" THEN "full" ELSE "torn"
  /\ UNCHANGED <<logCache, logDurable, journalDurable, entries,
                 caller, writerState, created, history>>

ResizeJournal ==
  /\ pc = "ckptResize"
  /\ journalLen' = "full"
  /\ pc' = "ckptSync"
  /\ UNCHANGED <<logCache, logDurable, slots, journalDurable, entries,
                 caller, writerState, created, history>>

(* The group is committed: everything counted so far is acknowledged.      *)
SyncJournal ==
  /\ pc = "ckptSync"
  /\ SyncJournalFile
  /\ acked' = count
  /\ IF caller = "close" THEN Exit
     ELSE /\ gen' = gen + 1
          /\ active' = OtherSlot(active)
          /\ unsynced' = IF caller = "open" THEN unsynced ELSE 0
          /\ pc' = IF caller = "open" /\ created THEN "dirSync" ELSE "ready"
          /\ UNCHANGED <<caller, batch, written, count, lastSeq, failed, created>>
  /\ UNCHANGED <<logCache, logDurable, journalCache, session>>

(* Any step of a commit returns an error, the generation limit included.   *)
CommitFails ==
  /\ pc \in {"logSync", "ckptWrite", "ckptResize", "ckptSync"}
  /\ IF caller \in {"append", "flush"}
     THEN pc' = "ready" /\ RecordFailure
     ELSE Exit /\ UNCHANGED history
  /\ UNCHANGED diskVars

WriterStep ==
  \/ OpenLog \/ OpenLogFails \/ WriteHeader \/ SyncHeader \/ OpenJournal
  \/ InitializeCheckpoint \/ SyncDirectory \/ OpenFails
  \/ \E k \in SlotIndex : LoadCheckpoint(k)
  \/ RejectBatch \/ WriteRecord \/ WriteFails \/ FinishBatch
  \/ Flush \/ Close
  \/ SyncLog \/ WriteCheckpoint \/ ResizeJournal \/ SyncJournal \/ CommitFails

=============================================================================

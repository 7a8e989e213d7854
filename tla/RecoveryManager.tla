-------------------------- MODULE RecoveryManager --------------------------
(***************************************************************************)
(* recover_startup_state (src/src/recovery_manager.cpp): scan the log and  *)
(* cut its invalid tail, choose the newest checkpoint slot that agrees     *)
(* with it, and cut the log to that slot's length.  An empty journal is    *)
(* migrated to a first checkpoint; any other state is refused.  The legacy *)
(* one-entry journal (112 bytes) is not modelled here.                     *)
(*                                                                         *)
(* Recovery shares pc with the writer: it runs first in each process and   *)
(* hands over with pc = "closed".                                          *)
(***************************************************************************)
EXTENDS Disk

VARIABLE
  scanned   \* valid records found by the scan (RecoveryReport.valid_records)

RecoveryPc == {"scan", "choose", "migrate", "migrateSync", "refused"}

(* The log is absent, or a valid header and prefix once its tail is cut.   *)
LogHealthy == logHead \in {"absent", "valid"}

(* scan_healthy_prefix(path, true).  An unreadable header is reported      *)
(* unhealthy and nothing is cut.                                           *)
Scan ==
  /\ pc = "scan"
  /\ IF logHead = "valid"
     THEN \E n \in 0 .. MaxRecords :
            /\ ScanStopsAt(log, n)
            /\ TruncateLog(n)
            /\ scanned' = n
     ELSE scanned' = 0 /\ UNCHANGED log
  /\ pc' = "choose"
  /\ UNCHANGED <<logHead, logDurable, journalCache, journalDurable, entries>>

(* checkpoint_consistent_with_log                                          *)
Consistent(slot) ==
  /\ slot \in Checkpoint
  /\ slot.count <= scanned
  /\ slot.last = IF slot.count = 0 THEN 0 ELSE log[slot.count].seq

-----------------------------------------------------------------------------
(* Mistakes the code does not make.  Each stands in for the definition its *)
(* comment names, to show that a property would notice it.                 *)

(* Selected with the comparison of the generations reversed.               *)
SelectsOldest(k) ==
  /\ Consistent(slots[k])
  /\ \A j \in SlotIndex : Consistent(slots[j]) =>
       \/ slots[j].gen > slots[k].gen
       \/ slots[j].gen = slots[k].gen /\ k <= j

(* ChooseCheckpoint that leaves the tail in the file.                      *)
ChoosesWithoutCutting(k) ==
  /\ pc = "choose"
  /\ journalLen = "full"
  /\ logHead = "valid"
  /\ Consistent(slots[k])
  /\ \A j \in SlotIndex : Consistent(slots[j]) =>
       \/ slots[j].gen < slots[k].gen
       \/ slots[j].gen = slots[k].gen /\ k <= j
  /\ scanned' = slots[k].count
  /\ pc' = "closed"
  /\ UNCHANGED diskVars

-----------------------------------------------------------------------------
(* The slot the loop over the slots ends with: the newest consistent one,  *)
(* the first of two equally new ones.                                      *)
Selected(k) ==
  /\ Consistent(slots[k])
  /\ \A j \in SlotIndex : Consistent(slots[j]) =>
       \/ slots[j].gen < slots[k].gen
       \/ slots[j].gen = slots[k].gen /\ k <= j

(* recover_checkpoint_journal: the unacknowledged tail is cut, and the     *)
(* second scan sees the committed prefix.                                  *)
ChooseCheckpoint(k) ==
  /\ pc = "choose"
  /\ journalLen = "full"
  /\ logHead = "valid"
  /\ Selected(k)
  /\ TruncateLog(slots[k].count)
  /\ scanned' = slots[k].count
  /\ pc' = "closed"
  /\ UNCHANGED <<logHead, logDurable, journalCache, journalDurable, entries>>

(* Neither file: a first start.                                            *)
NothingToRecover ==
  /\ pc = "choose"
  /\ logHead = "absent"
  /\ journalLen \in {"absent", "empty"}
  /\ pc' = "closed"
  /\ UNCHANGED <<diskVars, scanned>>

(* Every way the state of the files makes recovery give up.                *)
Refuse ==
  /\ pc = "choose"
  /\ \/ journalLen = "full" /\ logHead # "valid"
     \/ journalLen = "full" /\ \A k \in SlotIndex : ~Consistent(slots[k])
     \/ journalLen = "torn"
     \/ journalLen = "absent" /\ logHead # "absent"
     \/ journalLen = "empty" /\ ~LogHealthy
  /\ pc' = "refused"
  /\ UNCHANGED <<diskVars, scanned>>

(* Empty journal, healthy log: write_checkpoint_journal.                   *)
StartMigration ==
  /\ pc = "choose"
  /\ journalLen = "empty"
  /\ logHead = "valid"
  /\ pc' = "migrate"
  /\ UNCHANGED <<diskVars, scanned>>

FirstCheckpoint ==
  [gen |-> 1, count |-> scanned,
   last |-> IF scanned = 0 THEN 0 ELSE log[scanned].seq]

(* Both slots are written, perhaps in part only.                           *)
MigrateJournal ==
  /\ pc = "migrate"
  /\ \/ /\ journalLen # "torn"
        /\ journalLen' = "torn"
        /\ UNCHANGED <<slots, pc>>
     \/ /\ journalLen' = "full"
        /\ slots' = [k \in SlotIndex |-> IF k = 0 THEN FirstCheckpoint ELSE Torn]
        /\ pc' = "migrateSync"
  /\ UNCHANGED <<logCache, logDurable, journalDurable, entries, scanned>>

SyncMigration ==
  /\ pc = "migrateSync"
  /\ SyncJournalFile
  /\ pc' = "closed"
  /\ UNCHANGED <<logCache, logDurable, journalCache, scanned>>

RecoveryStep ==
  \/ Scan
  \/ \E k \in SlotIndex : ChooseCheckpoint(k)
  \/ NothingToRecover \/ Refuse
  \/ StartMigration \/ MigrateJournal \/ SyncMigration

=============================================================================

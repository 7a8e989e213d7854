----------------------------- MODULE LegacyStore -----------------------------
(***************************************************************************)
(* Files left by the format before checkpoint slots: a log whose records   *)
(* were synchronized one by one, and a journal of 112 bytes that holds at  *)
(* most one entry, the record about to be appended.  The first start of    *)
(* this program (recover_startup_state, the part that follows              *)
(* inspect_journal) rolls the entry forward into the log and replaces the  *)
(* journal by checkpoint slots; RecorderStore goes on from there.  The     *)
(* process may be killed and the power may fail at any step, once or more; *)
(* a step that fails with an error ends the start with the files as they   *)
(* are, as a kill does.                                                    *)
(***************************************************************************)
EXTENDS RecorderStore, FiniteSets

CONSTANTS
  MaxLegacy,   \* records of a legacy log
  FaultSets    \* which failures a behaviour may have, each a set of Fault

Fault == {"kill", "power"}

ASSUME LegacyAssumption ==
  /\ MaxLegacy \in Nat /\ MaxLegacy < MaxRecords
  /\ MaxLegacy + 2 < SeqModulus
  /\ MaxSessions > 1
  /\ FaultSets \subseteq SUBSET Fault

VARIABLES
  legacy,   \* records the legacy log held when this program was installed
  entry,    \* the journal's entry then: a record, Torn if damaged, Absent if none
  faults    \* the failures of this behaviour

inherited == <<legacy, entry, faults>>
legacyVars == <<vars, inherited>>

(* The legacy recorder counts as the first session.                        *)
LegacyRecord(i) == [seq |-> i, session |-> 1]
LegacyPc == {"append", "appendSync", "rescan"}

(* The entry follows the log's last record, is that record, or leaves a    *)
(* gap; the log may end in a part of a record, or be missing.              *)
LegacyInit ==
  /\ legacy \in 0 .. MaxLegacy
  /\ entry \in {Torn, Absent}
               \cup {LegacyRecord(i) : i \in (legacy .. legacy + 2) \ {0}}
  /\ faults \in FaultSets
  /\ logHead \in IF legacy = 0 /\ entry # Absent THEN {"absent", "valid"} ELSE {"valid"}
  /\ \E tail \in IF logHead = "valid" THEN {Absent, Torn} ELSE {Absent} :
       log = [i \in Position |-> IF i <= legacy THEN LegacyRecord(i)
                                 ELSE IF i = legacy + 1 THEN tail ELSE Absent]
  /\ journalLen = IF entry = Absent THEN "empty" ELSE "legacy"
  /\ slots = NoSlots
  /\ dlogHead = logHead /\ dlog = log /\ djournalLen = journalLen /\ dslots = slots
  /\ entries = IF logHead = "absent" THEN {"journal"} ELSE File
  /\ pc = "down" /\ caller = "open" /\ created = FALSE
  /\ batch = NoBatch /\ written = 0
  /\ count = 0 /\ lastSeq = 0 /\ unsynced = 0
  /\ gen = 0 /\ active = 1 /\ failed = FALSE
  /\ session = 1 /\ acked = 0
  /\ scanned = 0 /\ sequence = 0

-----------------------------------------------------------------------------
LastSequence == IF scanned = 0 THEN 0 ELSE log[scanned].seq

AtLegacyJournal == pc = "choose" /\ journalLen = "legacy"

(* write_checkpoint_journal opens the journal with O_TRUNC: from here the  *)
(* entry is no longer in it.                                               *)
ReplaceJournal ==
  /\ journalLen' = "empty"
  /\ pc' = "migrate"
  /\ UNCHANGED <<logCache, logDurable, slots, journalDurable, entries>>

DiscardCorrupt ==
  /\ AtLegacyJournal
  /\ entry = Torn
  /\ logHead = "valid"
  /\ ReplaceJournal
  /\ UNCHANGED scanned

-----------------------------------------------------------------------------
(* Mistakes the code does not make.  Each stands in for the definition its *)
(* comment names, to show that a property would notice it.                 *)

(* RollForward that appends whatever the entry's number is.                *)
RollsAnythingForward ==
  /\ AtLegacyJournal
  /\ entry # Torn /\ LogHealthy
  /\ pc' = "append"
  /\ UNCHANGED <<diskVars, scanned>>

(* RollForward that takes the entry for recorded.                          *)
DropsEntry ==
  /\ AtLegacyJournal
  /\ entry # Torn /\ LogHealthy
  /\ LastSequence + 1 = entry.seq
  /\ ReplaceJournal
  /\ UNCHANGED scanned

(* AppendEntry one record short of the end of the file.                    *)
OverwritesLast ==
  /\ pc = "append"
  /\ log' = [log EXCEPT ![IF scanned = 0 THEN 1 ELSE scanned] = entry]
  /\ pc' = "appendSync"
  /\ UNCHANGED <<logHead, logDurable, journalCache, journalDurable, entries, scanned>>

(* RefuseLegacy that also gives up on an entry the log already holds.      *)
RefusesCommitted ==
  /\ AtLegacyJournal
  /\ \/ entry = Torn
     \/ entry # Torn /\ (~LogHealthy \/ LastSequence + 1 # entry.seq)
  /\ pc' = "refused"
  /\ UNCHANGED <<diskVars, scanned>>

(* Rescan that keeps the report of the scan before the append.             *)
KeepsOldReport ==
  /\ pc = "rescan"
  /\ ReplaceJournal
  /\ UNCHANGED scanned

-----------------------------------------------------------------------------
(* The log ends at or after the entry's number.  Nothing tells whether     *)
(* that record was ever synchronized.                                      *)
AlreadyCommitted ==
  /\ AtLegacyJournal
  /\ entry # Torn /\ LogHealthy
  /\ LastSequence >= entry.seq
  /\ ReplaceJournal
  /\ UNCHANGED scanned

RefuseLegacy ==
  /\ AtLegacyJournal
  /\ \/ entry = Torn /\ logHead # "valid"
     \/ entry # Torn /\ (~LogHealthy \/ LastSequence + 1 < entry.seq)
  /\ pc' = "refused"
  /\ UNCHANGED <<diskVars, scanned>>

RollForward ==
  /\ AtLegacyJournal
  /\ entry # Torn /\ LogHealthy
  /\ LastSequence + 1 = entry.seq
  /\ pc' = "append"
  /\ UNCHANGED <<diskVars, scanned>>

(* append_recovered_record: O_APPEND writes the record, perhaps in part.   *)
(* A missing log is created by O_CREAT, and has no header then.            *)
AppendEntry ==
  /\ pc = "append"
  /\ \/ /\ logHead = "valid"
        /\ \/ log' = [log EXCEPT ![scanned + 1] = Torn] /\ pc' = pc
           \/ log' = [log EXCEPT ![scanned + 1] = entry] /\ pc' = "appendSync"
        /\ UNCHANGED logHead
     \/ /\ logHead # "valid"
        /\ \/ logHead' = "empty" /\ pc' = pc
           \/ logHead' = "torn" /\ pc' = "appendSync"
        /\ UNCHANGED log
  /\ UNCHANGED <<logDurable, journalCache, journalDurable, entries, scanned>>

SyncRollForward ==
  /\ pc = "appendSync"
  /\ SyncLogFile
  /\ pc' = "rescan"
  /\ UNCHANGED <<logCache, journalCache, journalDurable, scanned>>

(* The second scan must end at the entry, in a file with a header.         *)
Rescan ==
  /\ pc = "rescan"
  /\ IF logHead = "valid"
     THEN /\ \E n \in 1 .. MaxRecords :
               ScanStopsAt(log, n) /\ log[n].seq = entry.seq /\ scanned' = n
          /\ ReplaceJournal
     ELSE pc' = "refused" /\ UNCHANGED <<diskVars, scanned>>

LegacyStep ==
  \/ DiscardCorrupt \/ AlreadyCommitted \/ RefuseLegacy
  \/ RollForward \/ AppendEntry \/ SyncRollForward \/ Rescan

MigrateLegacy ==
  /\ LegacyStep
  /\ UNCHANGED <<caller, writerState, created, history, sequence>>

LegacyNext ==
  /\ \/ Start \/ Recover \/ MigrateLegacy \/ AppendBatch \/ Write \/ Kernel
     \/ ("kill" \in faults \/ pc = "refused") /\ Crash
     \/ "power" \in faults /\ PowerLoss
  /\ UNCHANGED inherited

LegacySpec == LegacyInit /\ [][LegacyNext]_legacyVars

-----------------------------------------------------------------------------
(* Properties                                                              *)

OneFault == Cardinality(faults) <= 1

(* The entry was promised to the log: it is what follows the last record.  *)
Pending == entry \in Record /\ entry.seq = legacy + 1

(* Whatever fails, and however often, the records of the legacy log stay   *)
(* in the file and on stable storage: no migration, and no checkpoint      *)
(* written by one, ever cuts or overwrites them.                           *)
LegacyRecordsKept ==
  \A i \in 1 .. legacy : log[i] = LegacyRecord(i) /\ dlog[i] = LegacyRecord(i)

(* The journal is replaced only once the log has the entry: no step of a   *)
(* migration leaves the entry in neither file, as the process sees them    *)
(* when it can be killed, on stable storage when the power can fail.       *)
InEither(journal, records) ==
  journal = "legacy" \/ records[legacy + 1] = entry

EntrySurvives ==
  OneFault /\ Pending =>
    /\ InEither(journalLen, log)
    /\ "power" \in faults => InEither(djournalLen, dlog)

(* However many times a migration is interrupted and started again, the    *)
(* entry is in the log at its own place at most, never twice, never after  *)
(* a gap; and a recorder is never opened, and so never appends, on a log   *)
(* that lacks it: its number cannot go to another record.                  *)
EntryInItsPlace ==
  /\ entry \in Record =>
       \A i \in Position : entry \in {log[i], dlog[i]} => i = entry.seq
  /\ OneFault /\ Pending /\ pc \in WriterPc => log[legacy + 1] = entry

(* Files that a legacy recorder can have left are migrated sooner or later *)
(* ("recovery to a durably acknowledged checkpoint after interruption"):   *)
(* recovery refuses for no other reason than a log without a header, a gap *)
(* before the entry, or a journal whose replacement was cut short.         *)
MigrationRecovers ==
  pc = "refused" =>
    \/ logHead # "valid"
    \/ journalLen = "torn"
    \/ entry \in Record /\ entry.seq > legacy + 1

(* The same when processes are only killed, or the power only fails.       *)
RefusalExplained == OneFault => MigrationRecovers

=============================================================================

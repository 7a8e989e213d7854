-------------------------------- MODULE Disk --------------------------------
(***************************************************************************)
(* The files as the operating system keeps them: a cached image that every *)
(* read and write of the process sees, and a durable image that a power    *)
(* loss falls back to.  Nothing here is code of the repository: it is what *)
(* the code assumes of open, pwrite, ftruncate, truncate, fdatasync and    *)
(* fsync of a directory.                                                   *)
(*                                                                         *)
(*  - a process crash keeps the cached image;                              *)
(*  - the kernel may write any dirty record back at any time, in any       *)
(*    order, and a record interrupted by the power loss reads back Torn;   *)
(*  - a file whose directory entry is not durable is gone after power loss;*)
(*    POSIX makes it durable when the directory is synchronized, many file *)
(*    systems already when the file is (SyncCarriesEntry);                 *)
(*  - the journal (104 bytes, one sector) is written back as a whole.      *)
(***************************************************************************)
EXTENDS LogFormat

CONSTANT
  SyncCarriesEntry   \* fdatasync of a file makes its directory entry durable

ASSUME DiskAssumption == SyncCarriesEntry \in BOOLEAN

VARIABLES
  pc,          \* the step of the process that uses the files, "down" if none
  logHead,     \* the log's header: "absent" file, "empty" file, "torn", "valid"
  log,         \* the log's cells, as the process sees them
  journalLen,  \* the journal: "absent", "empty", "torn" (1..103 bytes), "full"
  slots,       \* the journal's two checkpoint slots
  dlogHead, dlog, djournalLen, dslots,  \* the same, on stable storage
  entries      \* the files whose directory entry is durable

logCache     == <<logHead, log>>
logDurable   == <<dlogHead, dlog>>
journalCache == <<journalLen, slots>>
journalDurable == <<djournalLen, dslots>>
diskVars == <<logHead, log, dlogHead, dlog,
              journalLen, slots, djournalLen, dslots, entries>>

HeadState    == {"absent", "empty", "torn", "valid"}
JournalState == {"absent", "empty", "torn", "full"}
File         == {"log", "journal"}

DiskTypeOK ==
  /\ logHead \in HeadState /\ dlogHead \in HeadState
  /\ log \in [Position -> Cell] /\ dlog \in [Position -> Cell]
  /\ journalLen \in JournalState /\ djournalLen \in JournalState
  /\ slots \in [SlotIndex -> Slot] /\ dslots \in [SlotIndex -> Slot]
  /\ entries \subseteq File

DiskInit ==
  /\ logHead = "absent" /\ dlogHead = "absent"
  /\ log = NoRecords /\ dlog = NoRecords
  /\ journalLen = "absent" /\ djournalLen = "absent"
  /\ slots = NoSlots /\ dslots = NoSlots
  /\ entries = {}

(* fdatasync on either file: content and length become durable.            *)
SyncEntry(f) ==
  entries' = IF SyncCarriesEntry THEN entries \cup {f} ELSE entries

SyncLogFile ==
  /\ dlogHead' = logHead
  /\ dlog' = log
  /\ SyncEntry("log")

SyncJournalFile ==
  /\ djournalLen' = journalLen
  /\ dslots' = slots
  /\ SyncEntry("journal")

(* truncate(2) of the log to n records.                                    *)
TruncateLog(n) == log' = TruncateTo(log, n)

-----------------------------------------------------------------------------
(* What the kernel does on its own.                                        *)

WritebackHead ==
  /\ dlogHead # logHead
  /\ dlogHead' = logHead
  /\ UNCHANGED <<logHead, log, dlog, journalCache, journalDurable, entries>>

(* One dirty record reaches stable storage, whole or in part.  The file    *)
(* grows with it: whatever was not written below it is a hole.             *)
WritebackRecord(i) ==
  /\ log[i] # Absent
  /\ dlog[i] # log[i]
  /\ \E cell \in {log[i], Torn} :
       dlog' = [j \in Position |->
                  IF j = i THEN cell
                    ELSE IF j < i /\ dlog[j] = Absent THEN Torn ELSE dlog[j]]
  /\ UNCHANGED <<logHead, log, dlogHead, journalCache, journalDurable, entries>>

(* A truncation reaches stable storage.                                    *)
WritebackTruncate ==
  /\ \E i \in Position : log[i] = Absent /\ dlog[i] # Absent
  /\ dlog' = [i \in Position |-> IF log[i] = Absent THEN Absent ELSE dlog[i]]
  /\ UNCHANGED <<logHead, log, dlogHead, journalCache, journalDurable, entries>>

WritebackJournal ==
  /\ <<djournalLen, dslots>> # <<journalLen, slots>>
  /\ djournalLen' = journalLen
  /\ dslots' = slots
  /\ UNCHANGED <<logCache, logDurable, journalCache, entries>>

WritebackEntry ==
  /\ \/ logHead # "absent" /\ "log" \notin entries /\ entries' = entries \cup {"log"}
     \/ /\ journalLen # "absent" /\ "journal" \notin entries
        /\ entries' = entries \cup {"journal"}
  /\ UNCHANGED <<logCache, logDurable, journalCache, journalDurable>>

Writeback ==
  \/ WritebackHead
  \/ \E i \in Position : WritebackRecord(i)
  \/ WritebackTruncate
  \/ WritebackJournal
  \/ WritebackEntry

(* Power is lost: both images become what stable storage can reach.        *)
LosePower ==
  /\ logHead' = IF "log" \in entries THEN
                  (IF dlogHead = "absent" THEN "empty" ELSE dlogHead) ELSE "absent"
  /\ log' = IF "log" \in entries THEN dlog ELSE NoRecords
  /\ journalLen' = IF "journal" \in entries THEN
                     (IF djournalLen = "absent" THEN "empty" ELSE djournalLen)
                   ELSE "absent"
  /\ slots' = IF "journal" \in entries THEN dslots ELSE NoSlots
  /\ dlogHead' = logHead' /\ dlog' = log'
  /\ djournalLen' = journalLen' /\ dslots' = slots'
  /\ UNCHANGED entries

=============================================================================

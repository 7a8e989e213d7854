-------------------------- MODULE CrashMatrixProofs --------------------------
(***************************************************************************)
(* A case of the crash matrix that comes to its end passes, whatever the   *)
(* sizes of its batches: the writer and the recovery run through a handful *)
(* of places, and the invariant says what the files hold at each of them.  *)
(***************************************************************************)
EXTENDS CrashMatrix, TLAPS

Ckpt(g, n) == [gen |-> g, count |-> n, last |-> n]

(* The batch of a writer process: the records before it, its size, and the *)
(* slot and generation of the checkpoint it starts from.                   *)
Base    == IF stage = "initialize" THEN 0 ELSE pre
Amount  == IF stage = "initialize" THEN pre ELSE size
Current == IF stage = "initialize" THEN 0 ELSE 1
Other   == 1 - Current

(* The log holds the records 1 .. n, and nothing above the position top.   *)
Numbered(n)  == \A i \in 1 .. n : log[i] \in Record /\ log[i].seq = i
Within(top)  == \A i \in Position : i > top => log[i] = Absent
Exactly(n)   == Numbered(n) /\ Within(n)

WholeFiles == logHead = "valid" /\ journalLen = "full"

(* A writer object as constructed.                                         *)
NewWriter ==
  /\ caller = "open" /\ count = 0 /\ lastSeq = 0 /\ unsynced = 0
  /\ gen = 0 /\ active = 1 /\ failed = FALSE

CaseTypes ==
  /\ mode \in Site \cup OtherMode
  /\ pre \in 1 .. MaxBatch /\ size \in 1 .. MaxBatch
  /\ log \in [Position -> Cell] /\ slots \in [SlotIndex -> Slot]
  /\ stage = "child" => ackFile = pre

(* The first process makes the files.                                      *)
Making ==
  /\ stage = "initialize" /\ NewWriter /\ acked = 0
  /\ log = NoRecords /\ slots[1] = Torn
  /\ \/ pc = "down" /\ session = 0
     \/ pc # "down" /\ session = 1
  /\ \/ pc \in {"down", "closed"} /\ logHead = "absent" /\ journalLen = "absent"
     \/ pc = "header" /\ logHead \in {"empty", "torn"} /\ journalLen = "absent"
     \/ pc \in {"headerSync", "openJournal"} /\ logHead = "valid" /\ journalLen = "absent"
     \/ pc = "load" /\ logHead = "valid" /\ journalLen = "empty"
     \/ pc = "ckptWrite" /\ logHead = "valid" /\ journalLen \in {"empty", "torn"}
     \/ pc = "ckptResize" /\ logHead = "valid" /\ slots[0] = Ckpt(1, 0)
     \/ pc = "ckptSync" /\ WholeFiles /\ slots[0] = Ckpt(1, 0)

(* A process that appends: the writer is on its last checkpoint.           *)
OnCheckpoint ==
  /\ stage \in {"initialize", "child"} /\ session = Current + 1
  /\ WholeFiles /\ acked = Base /\ gen = Current + 1 /\ active = Current
  /\ slots[Current] = Ckpt(Current + 1, Base)

Waiting ==
  /\ OnCheckpoint /\ pc \in {"dirSync", "ready"}
  /\ count = Base /\ lastSeq = Base /\ unsynced = 0 /\ ~failed
  /\ slots[Other] \in {Torn, Ckpt(1, 0)}
  /\ Exactly(Base)

Appending ==
  /\ OnCheckpoint /\ pc = "writing"
  /\ batch = [first |-> Base + 1, size |-> Amount] /\ written \in 0 .. Amount
  /\ count = Base /\ lastSeq = Base /\ unsynced = 0 /\ ~failed
  /\ slots[Other] \in {Torn, Ckpt(1, 0)}
  /\ Numbered(Base + written) /\ Within(Base + Amount)
  /\ stage = "child" /\ mode = "CrashBeforeMainLogWrite" => log[count + 1] = Absent

(* The faults that end the child before a step.                            *)
BeforeFinish == {"CrashBeforeMainLogWrite", "CrashDuringMainLogWrite", "CrashAfterMainLogWrite"}
BeforeWrite  == {"DropCommit", "CrashBeforeMainLogSync"} \cup BeforeFinish
BeforeResize ==
  {"CrashAfterMainLogSync", "CrashBeforeCheckpointWrite", "CrashDuringCheckpointWrite"}
    \cup BeforeWrite

Committing ==
  /\ OnCheckpoint /\ pc \in {"logSync", "ckptWrite", "ckptResize", "ckptSync"}
  /\ caller = "append" /\ ~failed
  /\ count = Base + Amount /\ lastSeq = Base + Amount
  /\ Exactly(Base + Amount)
  /\ pc \in {"logSync", "ckptWrite"} => slots[Other] \in {Torn, Ckpt(1, 0)}
  /\ pc \in {"ckptResize", "ckptSync"} => slots[Other] = Ckpt(Current + 2, Base + Amount)
  /\ stage = "child" =>
       CASE pc = "logSync"   -> mode \notin BeforeFinish \cup {"DropCommit"}
         [] pc = "ckptWrite" -> mode \notin BeforeWrite
         [] OTHER            -> mode \notin BeforeResize

Committed ==
  /\ stage \in {"initialize", "child"} /\ session = Current + 1
  /\ WholeFiles /\ pc = "ready" /\ unsynced = 0 /\ ~failed
  /\ acked = Base + Amount /\ count = Base + Amount /\ lastSeq = Base + Amount
  /\ slots[Current] = Ckpt(Current + 1, Base)
  /\ slots[Other] = Ckpt(Current + 2, Base + Amount)
  /\ Exactly(Base + Amount)
  /\ stage = "child" => mode \notin BeforeResize

(* The child whose batch was written and not committed (DropCommit).       *)
Dropped ==
  /\ stage = "child" /\ mode = "DropCommit" /\ WholeFiles /\ pc = "ready" /\ failed
  /\ acked = pre /\ count = pre + size
  /\ slots[1] = Ckpt(2, pre) /\ slots[0] \in {Torn, Ckpt(1, 0)}
  /\ Exactly(pre + size)

(* Between the two processes, and while the child opens the files.         *)
Reopening ==
  /\ \/ stage = "initialize" /\ session = 1 /\ pc = "down"
     \/ stage = "child" /\ session = 2 /\ pc \in {"closed", "openJournal", "load"}
  /\ WholeFiles /\ NewWriter /\ acked = pre
  /\ slots[1] = Ckpt(2, pre) /\ slots[0] = Ckpt(1, 0)
  /\ Exactly(pre)

(* What the child left: the checkpoint of its batch, or the one before.    *)
NewCheckpointIn == slots[0] = Ckpt(3, pre + size)
Kept    == IF NewCheckpointIn THEN pre + size ELSE pre
Outcome == [healthy |-> TRUE, records |-> Kept, gen |-> IF NewCheckpointIn THEN 3 ELSE 2]

Recovering ==
  /\ stage \in {"recover", "again", "done"} /\ WholeFiles
  /\ slots[1] = Ckpt(2, pre) /\ slots[0] \in {Torn, Ckpt(1, 0), Ckpt(3, pre + size)}
  /\ Numbered(Kept) /\ Within(pre + size)
  /\ mode \in Site => (NewCheckpointIn <=> mode \in AcknowledgingSite)
  /\ ackFile = IF mode \in AcknowledgingSite THEN pre + size ELSE pre
  /\ pc \in {"down", "scan", "choose", "closed"}
  /\ stage = "again" => pc # "down"
  /\ stage = "done" => pc = "down"
  /\ pc = "choose" => scanned \in Kept .. MaxRecords
  /\ pc = "closed" => scanned = Kept
  /\ pc = "closed" \/ stage \in {"again", "done"} => Within(Kept)
  /\ stage \in {"again", "done"} => first = Outcome
  /\ stage = "done" => second = Outcome

Place ==
  Making \/ Waiting \/ Appending \/ Committing \/ Committed \/ Dropped \/ Reopening \/ Recovering

MInv == CaseTypes /\ Place

-----------------------------------------------------------------------------
(* Facts about the bounds and the cells                                    *)

LEMMA Slots2 == SlotIndex = {0, 1} /\ OtherSlot(0) = 1 /\ OtherSlot(1) = 0
  BY DEF SlotIndex, OtherSlot

(* The batches of a case fit the file and the sequence numbers.            *)
LEMMA Fits ==
  ASSUME CaseTypes
  PROVE  /\ MaxRecords \in Nat /\ 1 \in Position /\ SeqModulus \in Nat
         /\ MaxBatch \in Nat /\ BatchCapacity \in Nat /\ MaxGeneration \in Nat
         /\ pre \in Nat /\ size \in Nat /\ pre >= 1 /\ size >= 1
         /\ pre + size <= MaxRecords /\ pre + size < SeqModulus
         /\ pre <= BatchCapacity /\ size <= BatchCapacity
         /\ MaxGeneration >= 3 /\ MaxSessions >= 3 /\ MaxSessions \in Nat /\ SyncEvery = 1
BY FormatAssumption, OptionsAssumption, MatrixAssumption DEF CaseTypes, Position

LEMMA Batches ==
  ASSUME CaseTypes, stage \in {"initialize", "child"}
  PROVE  /\ Base \in 0 .. MaxRecords /\ Amount \in 1 .. MaxRecords
         /\ Base + Amount \in 1 .. MaxRecords /\ Base + Amount < SeqModulus
         /\ Base + Amount \in SeqNum /\ Base \in SeqNum
         /\ Current \in {0, 1} /\ Other \in {0, 1} /\ Other # Current
         /\ OtherSlot(Current) = Other /\ OtherSlot(Other) = Current
BY Fits, Slots2 DEF Base, Amount, Current, Other, SeqNum, Position

LEMMA SmallSeq ==
  ASSUME CaseTypes, NEW a \in Nat, a < SeqModulus PROVE a % SeqModulus = a
BY Fits

LEMMA Apart ==
  /\ \A r \in Record : r # Torn /\ r # Absent
  /\ Torn # Absent
  /\ \A g, n : Ckpt(g, n).gen = g /\ Ckpt(g, n).count = n /\ Ckpt(g, n).last = n
  /\ \A g, n : Ckpt(g, n) \in Checkpoint => Ckpt(g, n) # Torn
BY SentinelAssumption, SlotAssumption DEF Ckpt

LEMMA Checkpoints ==
  ASSUME CaseTypes
  PROVE  Ckpt(1, 0) \in Checkpoint /\ Ckpt(2, pre) \in Checkpoint
         /\ Ckpt(3, pre + size) \in Checkpoint /\ Ckpt(1, 0) # Ckpt(3, pre + size)
         /\ Ckpt(1, 0) # Torn /\ Ckpt(3, pre + size) # Torn /\ Ckpt(2, pre) # Torn
<1>1. Ckpt(1, 0) \in Checkpoint /\ Ckpt(2, pre) \in Checkpoint /\ Ckpt(3, pre + size) \in Checkpoint
  BY Fits DEF Ckpt, Checkpoint, SeqNum
<1> QED BY <1>1, Apart

(* What Numbered says of a file's length, and of a prefix of it.           *)
LEMMA Prefix ==
  ASSUME CaseTypes, NEW n \in 0 .. MaxRecords, n < SeqModulus, Numbered(n)
  PROVE  /\ ValidPrefix(log, n)
         /\ Within(n) => HasLength(log, n)
         /\ n > 0 => n \in Position /\ log[n] \in Record /\ log[n].seq = n
                     /\ ~HasLength(log, 0)
         /\ \A m \in 0 .. n : Numbered(m)
<1> USE Fits, Apart
<1>1. ValidPrefix(log, n)
  BY DEF ValidPrefix, Numbered, Follows
<1>2. Within(n) => HasLength(log, n)
  BY DEF HasLength, Within, Numbered, Position
<1>3. n > 0 => n \in Position /\ log[n] \in Record /\ log[n].seq = n
  BY DEF Numbered, Position
<1>4. n > 0 => ~HasLength(log, 0)
  BY DEF HasLength, Numbered, Position
<1>5. \A m \in 0 .. n : Numbered(m)
  BY DEF Numbered
<1> QED BY <1>1, <1>2, <1>3, <1>4, <1>5

(* Only one place fits a pc while a process writes.                        *)
LEMMA PlaceNumbers ==
  ASSUME CaseTypes, Place
  PROVE  stage \in {"initialize", "child", "recover", "again", "done"}
BY DEF Place, Making, Waiting, Appending, Committing, Committed, Dropped, Reopening, Recovering,
       OnCheckpoint

-----------------------------------------------------------------------------
(* The writer processes                                                    *)

LEMMA OpenLogStep ==
  ASSUME CaseTypes, Place, Works, OpenLog PROVE Place'
<1>1. Making \/ Reopening
  BY DEF Works, OpenLog, Place, Waiting, Appending, Committing, Committed, Dropped, Recovering
<1>2. UNCHANGED <<case, stage, log, journalCache, caller, writerState, history>>
  BY DEF Works, OpenLog, case
<1> USE <1>2 DEF OpenLog, case, journalCache, writerState, history, NewWriter
<1>3. CASE Making
  <2>1. Making'
    BY <1>3 DEF Making
  <2> QED BY <2>1 DEF Place
<1>4. CASE Reopening
  <2>1. Reopening'
    BY <1>4 DEF Reopening, WholeFiles, Exactly, Numbered, Within
  <2> QED BY <2>1 DEF Place
<1> QED BY <1>1, <1>3, <1>4

LEMMA HeaderStep ==
  ASSUME CaseTypes, Place, Works, WriteHeader \/ SyncHeader PROVE Place'
<1>1. Making
  BY DEF Works, WriteHeader, SyncHeader, Place, Waiting, Appending, Committing, Committed,
         Dropped, Recovering, Reopening
<1>2. Making'
  BY <1>1 DEF Works, WriteHeader, SyncHeader, case, logCache, journalCache, writerState,
              history, NewWriter, Making
<1> QED BY <1>2 DEF Place

LEMMA OpenJournalStep ==
  ASSUME CaseTypes, Place, Works, OpenJournal PROVE Place'
<1>1. Making \/ Reopening
  BY DEF Works, OpenJournal, Place, Waiting, Appending, Committing, Committed, Dropped, Recovering
<1>2. UNCHANGED <<case, stage, logCache, slots, caller, writerState, history>>
  BY DEF Works, OpenJournal, case
<1> USE <1>2 DEF OpenJournal, case, logCache, writerState, history, NewWriter
<1>3. CASE Making
  <2>1. Making'
    BY <1>3 DEF Making
  <2> QED BY <2>1 DEF Place
<1>4. CASE Reopening
  <2>1. Reopening'
    BY <1>4 DEF Reopening, WholeFiles, Exactly, Numbered, Within
  <2> QED BY <2>1 DEF Place
<1> QED BY <1>1, <1>3, <1>4

(* The first process finds an empty log and commits it as generation 1.    *)
LEMMA InitializeStep ==
  ASSUME CaseTypes, Place, Works, InitializeCheckpoint PROVE Place'
<1>1. Making
  BY DEF Works, InitializeCheckpoint, Place, Waiting, Appending, Committing, Committed,
         Dropped, Recovering, Reopening, WholeFiles
<1>2. UNCHANGED <<case, stage, diskVars, unsynced, failed, history>> /\ pc = "load" /\ pc' = "ckptWrite"
      /\ gen' = 0 /\ active' = 1 /\ caller' = "open"
  BY DEF Works, InitializeCheckpoint, case
<1>3. count' = 0 /\ lastSeq' = 0
  <2>1. PICK n \in 0 .. MaxRecords : HasLength(log, n) /\ count' = n
                                     /\ lastSeq' = IF n = 0 THEN lastSeq ELSE log[n].seq
    BY DEF InitializeCheckpoint
  <2>2. n = 0
    BY <1>1, <2>1, Fits DEF HasLength, Making, NoRecords, Position
  <2> QED BY <1>1, <2>1, <2>2 DEF Making, NewWriter
<1>4. Making'
  BY <1>1, <1>2, <1>3 DEF case, diskVars, history, NewWriter, Making
<1> QED BY <1>4 DEF Place

(* The child finds the checkpoint that the first process left; the other   *)
(* slot counts no records, and the log is not empty.                       *)
LEMMA LoadStep ==
  ASSUME CaseTypes, Place, Works, NEW k \in SlotIndex, LoadCheckpoint(k) PROVE Place'
<1>1. Reopening /\ stage = "child"
  BY DEF Works, LoadCheckpoint, Place, Waiting, Appending, Committing, Committed,
         Dropped, Recovering, Reopening, Making
<1>2. UNCHANGED <<case, stage, diskVars, unsynced, failed, history>> /\ pc' \in {"dirSync", "ready"}
  BY DEF Works, LoadCheckpoint, case
<1>3. k = 1
  <2>1. ~HasLength(log, 0)
    BY <1>1, Fits, Prefix DEF Reopening, Exactly
  <2>2. ~OpensWith(0)
    BY <1>1, <2>1, Apart DEF OpensWith, Reopening
  <2> QED BY <2>2, Slots2 DEF LoadCheckpoint
<1>4. active' = 1 /\ gen' = 2 /\ count' = pre /\ lastSeq' = pre
  BY <1>1, <1>3, Apart DEF LoadCheckpoint, Reopening
<1>5. Waiting'
  BY <1>1, <1>2, <1>4, Fits DEF case, diskVars, history, NewWriter, Reopening, Waiting,
     OnCheckpoint,
     Base, Current, Other, WholeFiles, Exactly, Numbered, Within
<1> QED BY <1>5 DEF Place

LEMMA DirectoryStep ==
  ASSUME CaseTypes, Place, Works, SyncDirectory PROVE Place'
<1>1. Waiting
  BY DEF Works, SyncDirectory, Place, Making, Appending, Committing, Committed,
         Dropped, Recovering, Reopening
<1>2. Waiting'
  BY <1>1 DEF Works, SyncDirectory, case, logCache, journalCache, writerState, history, Waiting,
     OnCheckpoint,
     Base, Current, Other, WholeFiles, Exactly, Numbered, Within
<1> QED BY <1>2 DEF Place

(* A process appends its one batch.                                        *)
LEMMA AppendStep ==
  ASSUME CaseTypes, Place, Append PROVE Place'
<1>0. pc = "ready" /\ stage \in {"initialize", "child"} /\ count = Base
  BY DEF Append, BeginBatch, Base
<1>1. Waiting
  BY <1>0, Fits DEF Place, Waiting, Making, Appending, Committing, Committed, Dropped,
     Recovering, Reopening,
     Base, Amount
<1>2. /\ UNCHANGED <<case, stage, diskVars, count, lastSeq, unsynced, gen, active, failed, history>>
      /\ pc' = "writing" /\ batch' = [first |-> Base + 1, size |-> Amount] /\ written' = 0
  BY <1>0, Fits DEF Append, BeginBatch, Base, Amount, case
<1>3. stage = "child" => log[count + 1] = Absent
  BY <1>0, <1>1, Fits DEF Waiting, Exactly, Within, Base, Position
<1>4. UNCHANGED <<Base, Amount, Current, Other>>
  BY <1>2 DEF case, Base, Amount, Current, Other
<1>5. OnCheckpoint'
  BY <1>1, <1>2, <1>4 DEF diskVars, history, Waiting, OnCheckpoint, WholeFiles
<1>6. Numbered(Base)' /\ Within(Base + Amount)'
  BY <1>0, <1>1, <1>2, <1>4, Batches DEF diskVars, Waiting, Exactly, Numbered, Within, Position
<1>7. Appending'
  BY <1>0, <1>1, <1>2, <1>3, <1>4, <1>5, <1>6, Batches DEF case, diskVars, Waiting, Appending
<1> QED BY <1>7 DEF Place

(* One more record, or a part of one, also of a write that is cut short.   *)
LEMMA WriteStep ==
  ASSUME CaseTypes, Place, UNCHANGED <<case, stage>>, WriteRecord,
         stage \in {"initialize", "child"},
         AtFault => mode # "CrashBeforeMainLogWrite"
  PROVE  Place' /\ log' \in [Position -> Cell]
<1>1. Appending
  BY DEF WriteRecord, Place, Making, Waiting, Committing, Committed, Dropped, Recovering, Reopening
<1>2. /\ UNCHANGED <<Base, Amount, Current, Other, logHead, journalLen, slots, pc, batch, count, lastSeq,
                     unsynced, gen, active, failed, session, acked>>
      /\ written < Amount
  BY <1>1 DEF WriteRecord, case, Base, Amount, Current, Other, journalCache, history, Appending
<1>3. OnCheckpoint'
  BY <1>1, <1>2 DEF OnCheckpoint, WholeFiles, Appending
<1> DEFINE at == Base + written + 1
           r == [seq |-> BatchSeq(written), session |-> session]
<1>b. /\ Base \in Nat /\ Amount \in Nat /\ Base + Amount < SeqModulus /\ SeqModulus \in Nat
      /\ MaxRecords \in Nat /\ Base + Amount <= MaxRecords /\ Current \in {0, 1}
  BY Batches, Fits
<1>4. /\ at \in Position /\ at <= Base + Amount /\ written \in Nat
      /\ \/ log' = [log EXCEPT ![at] = r] /\ written' = written + 1
         \/ log' = [log EXCEPT ![at] = Torn] /\ written' = written
  BY <1>1, <1>2, Batches, Fits DEF WriteRecord, Appending, Position
<1>5. r \in Record /\ r.seq = at
  <2>1. BatchSeq(written) = at
    <3>1. BatchSeq(written) = (Base + 1 + written) % SeqModulus
      BY <1>1 DEF BatchSeq, Appending
    <3>2. Base + 1 + written = at /\ at \in Nat /\ at < SeqModulus
      BY <1>b, <1>4
    <3> QED BY <3>1, <3>2, SmallSeq
  <2>2. session \in Session
    BY <1>1, Batches, Fits DEF Appending, OnCheckpoint, Session
  <2>3. at \in SeqNum
    BY <1>b, <1>4 DEF SeqNum
  <2> QED BY <2>1, <2>2, <2>3 DEF Record
<1>6. log' \in [Position -> Cell]
  BY <1>4, <1>5 DEF CaseTypes, Cell
<1>7. Numbered(Base + written)' /\ Within(Base + Amount)'
  <2>0. log \in [Position -> Cell]
    BY DEF CaseTypes
  <2>1. \A i \in 1 .. Base + written : log'[i] = log[i]
    BY <1>b, <1>4, <2>0 DEF Position
  <2>2. \A i \in Position : i > Base + Amount => log'[i] = log[i]
    BY <1>b, <1>4, <2>0 DEF Position
  <2>3. Within(Base + Amount)'
    BY <1>1, <1>2, <2>2 DEF Within, Appending
  <2>4. CASE log' = [log EXCEPT ![at] = r] /\ written' = written + 1
    <3>1. log'[at] = r
      BY <2>4, <1>4 DEF CaseTypes
    <3> QED BY <1>1, <1>2, <1>4, <1>5, <2>1, <2>3, <2>4, <3>1, Batches DEF Numbered, Appending
  <2>5. CASE written' = written
    BY <1>1, <1>2, <1>4, <2>1, <2>3, <2>5, Batches DEF Numbered, Appending
  <2> QED BY <1>4, <2>4, <2>5
<1>8. written' \in 0 .. Amount
  BY <1>1, <1>2, <1>4, Batches
<1>9. ~(stage = "child" /\ mode = "CrashBeforeMainLogWrite")
  BY <1>1 DEF AtFault, Appending
<1>10. Appending'
  BY <1>1, <1>2, <1>3, <1>7, <1>8, <1>9 DEF Appending, case
<1> QED BY <1>6, <1>10 DEF Place

(* The batch is in the file: it is committed, or the commit is dropped.    *)
LEMMA FinishStep ==
  ASSUME CaseTypes, Place, Works, BatchEnds, ~AtFault PROVE Place'
<1>1. Appending /\ written = Amount
  BY DEF BatchEnds, FinishBatch, Place, Making, Waiting, Appending, Committing, Committed, Dropped,
         Recovering, Reopening
<1>2. /\ UNCHANGED <<Base, Amount, Current, Other, logHead, log, journalLen, slots,
                     gen, active, session, acked, case, stage>>
  BY DEF Works, BatchEnds, FinishBatch, case, diskVars, history, Base, Amount, Current, Other
<1>3. OnCheckpoint'
  BY <1>1, <1>2 DEF OnCheckpoint, WholeFiles, Appending
<1>4. count' = Base + Amount /\ unsynced' = 1
  BY <1>1 DEF BatchEnds, FinishBatch, Appending
<1>5. lastSeq' = Base + Amount
  <2>1. lastSeq' = (Base + 1 + (Amount - 1)) % SeqModulus
    BY <1>1, Batches DEF BatchEnds, FinishBatch, BatchSeq, Appending
  <2> QED BY <1>1, <2>1, Batches, SmallSeq DEF Appending, OnCheckpoint
<1>6. Exactly(Base + Amount)'
  BY <1>1, <1>2 DEF Appending, Exactly, Numbered, Within
<1>7. stage \in {"initialize", "child"}
  BY DEF Works
<1>8. CASE stage = "child" /\ mode = "DropCommit"
  <2>1. pc' = "ready" /\ failed' = TRUE
    BY <1>8, <1>4, Fits DEF BatchEnds, FinishBatch
  <2>2. Dropped'
    BY <1>1, <1>2, <1>3, <1>4, <1>6, <1>8, <2>1 DEF Appending, Dropped, OnCheckpoint, Base,
       Amount, Current, Other, case
  <2> QED BY <2>2 DEF Place
<1>9. CASE ~(stage = "child" /\ mode = "DropCommit")
  <2>1. pc' = "logSync" /\ caller' = "append" /\ failed' = failed
    BY <1>9 DEF BatchEnds, FinishBatch
  <2>2. stage = "child" => mode \notin BeforeFinish
    BY <1>1 DEF AtFault, Appending, BeforeFinish, Amount
  <2>3. Committing'
    BY <1>1, <1>2, <1>3, <1>4, <1>5, <1>6, <1>7, <1>9, <2>1, <2>2 DEF Committing, Appending, case
  <2> QED BY <2>3 DEF Place
<1> QED BY <1>8, <1>9

LEMMA SyncLogStep ==
  ASSUME CaseTypes, Place, Works, SyncLog, ~AtFault PROVE Place'
<1>1. Committing /\ pc = "logSync" /\ pc' = "ckptWrite"
  BY DEF SyncLog, Place, Making, Waiting, Appending, Committed, Dropped, Recovering, Reopening
<1>2. /\ UNCHANGED <<Base, Amount, Current, Other, logHead, log, journalLen, slots, caller, count, lastSeq,
                     unsynced, gen, active, failed, session, acked, case, stage>>
  BY DEF Works, SyncLog, case, logCache, journalCache, writerState, history, Base, Amount,
     Current, Other
<1>3. stage = "child" => mode \notin BeforeWrite
  BY <1>1 DEF AtFault, Committing, BeforeWrite
<1>4. OnCheckpoint' /\ Exactly(Base + Amount)'
  BY <1>1, <1>2 DEF OnCheckpoint, WholeFiles, Exactly, Numbered, Within, Committing
<1>5. Committing'
  BY <1>1, <1>2, <1>3, <1>4 DEF Committing, case
<1> QED BY <1>5 DEF Place

(* The other slot is torn or holds the batch's checkpoint.                 *)
LEMMA CheckpointStep ==
  ASSUME CaseTypes, Place, UNCHANGED <<case, stage>>, WriteCheckpoint,
         stage \in {"initialize", "child"}, AtFault => pc' = pc
  PROVE  Place' /\ slots' \in [SlotIndex -> Slot]
<1>1. (Making \/ Committing) /\ pc = "ckptWrite"
  BY DEF WriteCheckpoint, Place, Waiting, Appending, Committed, Dropped, Recovering, Reopening
<1>2. /\ UNCHANGED <<Base, Amount, Current, Other, logHead, log, caller, count, lastSeq,
                     unsynced, gen, active, failed, session, acked>>
  BY DEF WriteCheckpoint, case, logCache, writerState, history, Base, Amount, Current, Other
<1> DEFINE new == [gen |-> gen + 1, count |-> count, last |-> lastSeq]
<1>3. \/ slots' = [slots EXCEPT ![OtherSlot(active)] = Torn] /\ pc' = pc
      \/ slots' = [slots EXCEPT ![OtherSlot(active)] = new] /\ pc' = "ckptResize"
  BY DEF WriteCheckpoint, NewCheckpoint
<1>4. CASE Making
  <2>1. new = Ckpt(1, 0) /\ OtherSlot(active) = 0
    BY <1>4, Slots2 DEF Making, NewWriter, Ckpt
  <2>2. slots'[0] \in {Torn, Ckpt(1, 0)} /\ slots'[1] = Torn
        /\ (pc' = "ckptResize" => slots'[0] = Ckpt(1, 0)) /\ slots' \in [SlotIndex -> Slot]
    BY <1>1, <1>3, <1>4, <2>1, Slots2, Checkpoints DEF CaseTypes, Slot, Making
  <2>3. journalLen' \in {"torn", "full"} /\ (pc' = pc => journalLen' = "torn")
    BY <1>1, <1>4 DEF WriteCheckpoint, Making
  <2>4. Making'
    BY <1>1, <1>2, <1>3, <1>4, <2>2, <2>3 DEF Making, NewWriter, case
  <2> QED BY <2>2, <2>4 DEF Place
<1>5. CASE Committing
  <2>1. new = Ckpt(Current + 2, Base + Amount) /\ OtherSlot(active) = Other /\ Other # Current
        /\ Other \in {0, 1} /\ Current \in {0, 1}
    BY <1>5, Batches DEF Committing, OnCheckpoint, Ckpt
  <2>2. new \in Checkpoint
    BY <1>5, Fits, Batches DEF Committing, OnCheckpoint, Checkpoint, WriteCheckpoint
  <2>3. slots' \in [SlotIndex -> Slot] /\ slots'[Current] = slots[Current]
        /\ slots'[Other] \in {Torn, new} /\ (pc' = "ckptResize" => slots'[Other] = new)
        /\ (pc' = pc => slots'[Other] = Torn)
    BY <1>1, <1>3, <2>1, <2>2, Slots2 DEF CaseTypes, Slot
  <2>4. journalLen' = "full"
    BY <1>5 DEF WriteCheckpoint, Committing, OnCheckpoint, WholeFiles
  <2>5. OnCheckpoint' /\ Exactly(Base + Amount)'
    BY <1>2, <1>5, <2>3, <2>4 DEF OnCheckpoint, WholeFiles, Exactly, Numbered, Within, Committing
  <2>6. stage = "child" /\ pc' # pc => mode \notin BeforeResize
    BY <1>1, <1>5 DEF AtFault, Committing, BeforeResize
  <2>7. Committing'
    BY <1>1, <1>2, <1>3, <1>5, <2>1, <2>3, <2>5, <2>6 DEF Committing, case
  <2> QED BY <2>3, <2>7 DEF Place
<1> QED BY <1>1, <1>4, <1>5

LEMMA ResizeStep ==
  ASSUME CaseTypes, Place, Works, ResizeJournal PROVE Place'
<1>1. (Making \/ Committing) /\ pc = "ckptResize" /\ pc' = "ckptSync" /\ journalLen' = "full"
  BY DEF ResizeJournal, Place, Waiting, Appending, Committed, Dropped, Recovering, Reopening
<1>2. /\ UNCHANGED <<Base, Amount, Current, Other, logHead, log, slots, caller, count, lastSeq,
                     unsynced, gen, active, failed, session, acked, case, stage>>
  BY DEF Works, ResizeJournal, case, logCache, writerState, history, Base, Amount, Current, Other
<1>3. CASE Making
  <2>1. Making'
    BY <1>1, <1>2, <1>3 DEF Making, NewWriter, WholeFiles
  <2> QED BY <2>1 DEF Place
<1>4. CASE Committing
  <2>1. OnCheckpoint' /\ Exactly(Base + Amount)'
    BY <1>1, <1>2, <1>4 DEF OnCheckpoint, WholeFiles, Exactly, Numbered, Within, Committing
  <2>2. Committing'
    BY <1>1, <1>2, <1>4, <2>1 DEF Committing, case
  <2> QED BY <2>2 DEF Place
<1> QED BY <1>1, <1>3, <1>4

(* The first checkpoint is acknowledged, or the one of the batch.          *)
LEMMA SyncJournalStep ==
  ASSUME CaseTypes, Place, Works, SyncJournal PROVE Place'
<1>1. (Making \/ Committing) /\ pc = "ckptSync"
  BY DEF SyncJournal, Place, Waiting, Appending, Committed, Dropped, Recovering, Reopening
<1>2. /\ UNCHANGED <<Base, Amount, Current, Other, logHead, log, journalLen, slots, session, case, stage>>
      /\ acked' = count
  BY DEF Works, SyncJournal, case, logCache, journalCache, Base, Amount, Current, Other
<1>3. CASE Making
  <2>1. /\ gen' = 1 /\ active' = 0 /\ unsynced' = 0 /\ count' = 0 /\ lastSeq' = 0 /\ failed' = FALSE
        /\ pc' \in {"dirSync", "ready"} /\ acked' = 0
    BY <1>2, <1>3, Slots2 DEF Making, NewWriter, SyncJournal
  <2>2. Waiting'
    BY <1>1, <1>2, <1>3, <2>1 DEF Making, Waiting, OnCheckpoint, WholeFiles, Exactly, Numbered,
       Within,
       Base, Current, Other, NoRecords, Position, Exactly, Numbered, Within
  <2> QED BY <2>2 DEF Place
<1>4. CASE Committing
  <2>1. /\ unsynced' = 0 /\ count' = count /\ lastSeq' = lastSeq /\ failed' = failed /\ pc' = "ready"
    BY <1>4 DEF Committing, SyncJournal
  <2>2. Exactly(Base + Amount)'
    BY <1>2, <1>4 DEF Exactly, Numbered, Within, Committing
  <2>3. Committed'
    BY <1>1, <1>2, <1>4, <2>1, <2>2 DEF Committing, Committed, OnCheckpoint, WholeFiles, case
  <2> QED BY <2>3 DEF Place
<1> QED BY <1>1, <1>3, <1>4

LEMMA StartStep ==
  ASSUME CaseTypes, Place, StartInitialize PROVE Place'
<1>1. Making /\ pc = "down"
  BY DEF StartInitialize, Launch, Place, Waiting, Appending, Committing, Committed, Dropped,
     Recovering, Reopening
<1>2. Making'
  BY <1>1 DEF StartInitialize, Launch, case, diskVars, writerState, NewWriter, Making
<1> QED BY <1>2 DEF Place

LEMMA CloseStep ==
  ASSUME CaseTypes, Place, CloseInitialized PROVE Place'
<1>1. Committed /\ stage = "initialize"
  BY Fits DEF CloseInitialized, Close, Place, Waiting, Making, Appending, Committing, Dropped,
     Recovering,
     Reopening, OnCheckpoint, Base
<1>2. pc' = "down" /\ NewWriter' /\ UNCHANGED <<case, stage, diskVars, history>>
  BY <1>1 DEF CloseInitialized, Close, Exit, FreshWriter, Committed, NewWriter, case
<1>3. Base = 0 /\ Amount = pre /\ Current = 0 /\ Other = 1 /\ 0 + pre = pre
  BY <1>1, Fits DEF Base, Amount, Current, Other
<1>4. /\ WholeFiles /\ acked = pre /\ slots[0] = Ckpt(1, 0) /\ slots[1] = Ckpt(2, pre) /\ Exactly(pre)
      /\ session = 1
  BY <1>1, <1>3 DEF Committed
<1>5. Reopening'
  BY <1>1, <1>2, <1>4 DEF Reopening, case, diskVars, history, WholeFiles, Exactly, Numbered, Within
<1> QED BY <1>5 DEF Place

LEMMA StartChildStep ==
  ASSUME CaseTypes, Place, StartChild PROVE Place'
<1>1. Reopening /\ stage = "initialize"
  BY Fits DEF StartChild, Launch, Place, Waiting, Making, Appending, Committing, Committed,
     Dropped, Recovering
<1>2. Reopening'
  BY <1>1 DEF StartChild, Launch, Reopening, case, diskVars, writerState, NewWriter, WholeFiles,
     Exactly,
     Numbered, Within
<1> QED BY <1>2 DEF Place

(* The child leaves the checkpoint of its batch only if the fault comes    *)
(* after the checkpoint is whole, and has said so only if it is committed. *)
LEMMA ExitStep ==
  ASSUME CaseTypes, Place, ChildExits PROVE Place'
<1>1. stage = "child" /\ ackFile = pre /\ mode \in Site \cup OtherMode
  BY DEF ChildExits, AtFault, CaseTypes
<1>2. /\ UNCHANGED <<case, log, logHead, journalLen, slots>>
      /\ stage' = "recover" /\ pc' = "down"
      /\ ackFile' = IF mode = "CrashAfterJournalSync" THEN lastSeq ELSE pre
  BY <1>1 DEF ChildExits, Exit, diskVars, logCache, journalCache, case
<1>3. Base = pre /\ Amount = size /\ Current = 1 /\ Other = 0
  BY <1>1 DEF Base, Amount, Current, Other
<1> DEFINE Left == /\ slots[1] = Ckpt(2, pre) /\ WholeFiles
                   /\ Within(pre + size)
                   /\ \/ /\ slots[0] \in {Torn, Ckpt(1, 0)} /\ Numbered(pre)
                         /\ mode \notin AcknowledgingSite
                      \/ /\ slots[0] = Ckpt(3, pre + size) /\ Numbered(pre + size)
                         /\ mode \in AcknowledgingSite \/ mode \notin Site
                         /\ mode = "CrashAfterJournalSync" => lastSeq = pre + size
<1>4. \/ Appending \/ Committing \/ Committed \/ Dropped
  BY <1>1, Fits DEF ChildExits, AtFault, Place, Making, Waiting, Reopening, Recovering,
     OnCheckpoint, Base
<1>5. Left
  <2>1. \A n \in 0 .. MaxRecords : Numbered(n) /\ pre <= n => Numbered(pre)
    BY Fits DEF Numbered
  <2>2. CASE Appending
    <3>1. Numbered(pre) /\ Within(pre + size)
      BY <1>3, <2>2, Fits DEF Appending, Numbered
    <3>2. mode \notin AcknowledgingSite
      BY <2>2 DEF ChildExits, AtFault, Appending, AcknowledgingSite
    <3> QED BY <1>3, <2>2, <3>1, <3>2 DEF Appending, OnCheckpoint
  <2>3. CASE Committing
    <3>1. Numbered(pre) /\ Numbered(pre + size) /\ Within(pre + size)
      BY <1>3, <2>1, <2>3, Fits DEF Committing, Exactly
    <3>2. mode \notin AcknowledgingSite /\ (pc = "ckptSync" => mode \notin Site) /\ pc # "ckptResize"
      BY <2>3 DEF ChildExits, AtFault, Committing, AcknowledgingSite, Site
    <3> QED BY <1>3, <2>3, <3>1, <3>2 DEF Committing, OnCheckpoint
  <2>4. CASE Committed
    <3>1. mode = "CrashAfterJournalSync"
      BY <2>4 DEF ChildExits, AtFault, Committed
    <3> QED BY <1>3, <2>4, <3>1 DEF Committed, Exactly, AcknowledgingSite
  <2>5. CASE Dropped
    <3>1. Numbered(pre) /\ Within(pre + size)
      BY <2>1, <2>5, Fits DEF Dropped, Exactly
    <3> QED BY <2>5, <3>1 DEF Dropped, AcknowledgingSite
  <2> QED BY <1>4, <2>2, <2>3, <2>4, <2>5
<1>6. Numbered(Kept) /\ (mode \in Site => (NewCheckpointIn <=> mode \in AcknowledgingSite))
      /\ slots[0] \in {Torn, Ckpt(1, 0), Ckpt(3, pre + size)}
  BY <1>5, Checkpoints DEF Kept, NewCheckpointIn, Site
<1>7. ackFile' = IF mode \in AcknowledgingSite THEN pre + size ELSE pre
  BY <1>2, <1>5 DEF AcknowledgingSite
<1>8. Recovering'
  BY <1>2, <1>5, <1>6, <1>7 DEF Recovering, WholeFiles, Numbered, Within, Kept, NewCheckpointIn,
     case
<1> QED BY <1>8 DEF Place

-----------------------------------------------------------------------------
(* The recoveries                                                          *)

LEMMA StartRecoveryStep ==
  ASSUME CaseTypes, Place, StartRecovery PROVE Place'
<1>1. Recovering
  BY DEF StartRecovery, Place, Waiting, Making, Appending, Committing, Committed, Dropped,
     Reopening, OnCheckpoint
<1>2. Recovering'
  BY <1>1 DEF StartRecovery, Launch, Recovering, case, diskVars, WholeFiles, Numbered, Within,
     Kept,
     NewCheckpointIn, Outcome
<1> QED BY <1>2 DEF Place

LEMMA KeptBounds ==
  ASSUME CaseTypes
  PROVE  /\ Kept \in 1 .. MaxRecords /\ Kept < SeqModulus /\ Kept \in {pre, pre + size}
         /\ Kept <= pre + size
BY Fits DEF Kept

(* The scan finds the records that the checkpoint counts, and more only if *)
(* the file has more.                                                      *)
LEMMA ScanStep ==
  ASSUME CaseTypes, Place, Recovers, Scan PROVE Place' /\ log' \in [Position -> Cell]
<1>1. Recovering
  BY DEF Recovers, Place, Waiting, Making, Appending, Committing, Committed, Dropped, Reopening,
     OnCheckpoint
<1>2. /\ UNCHANGED <<case, stage, logHead, journalLen, slots, ackFile, first, second>>
      /\ pc = "scan" /\ pc' = "choose" /\ stage \in {"recover", "again"}
  BY DEF Recovers, Scan, journalCache, case
<1>3. PICK n \in 0 .. MaxRecords : ScanStopsAt(log, n) /\ TruncateLog(n) /\ scanned' = n
  BY <1>1 DEF Scan, Recovering, WholeFiles
<1>4. log' = [i \in Position |-> IF i <= n THEN log[i] ELSE Absent]
  BY <1>3 DEF TruncateLog, TruncateTo
<1>5. log' \in [Position -> Cell]
  BY <1>4 DEF CaseTypes, Cell
<1>6. n >= Kept
  <2>1. SUFFICES ASSUME n < Kept PROVE FALSE
    BY <1>3, KeptBounds
  <2>2. n + 1 \in 0 .. Kept /\ n + 1 \in 0 .. MaxRecords /\ n + 1 < SeqModulus /\ n < MaxRecords
    BY <1>3, <2>1, KeptBounds, Fits
  <2>3. Numbered(n + 1)
    BY <1>1, <2>2, KeptBounds DEF Recovering, Numbered
  <2> QED BY <1>3, <2>2, <2>3, Prefix DEF ScanStopsAt
<1>7. Numbered(Kept)' /\ Within(pre + size)' /\ (Within(Kept) => Within(Kept)')
  <2>1. UNCHANGED Kept
    BY <1>2 DEF Kept, NewCheckpointIn, case
  <2>2. \A i \in 1 .. Kept : log'[i] = log[i]
    BY <1>4, <1>6, KeptBounds, Fits DEF Position
  <2>3. Numbered(Kept)'
    BY <1>1, <2>1, <2>2 DEF Numbered, Recovering
  <2>4. \A i \in Position : log[i] = Absent => log'[i] = Absent
    BY <1>4
  <2> QED BY <1>1, <1>2, <2>1, <2>3, <2>4, KeptBounds, Fits DEF Within, Recovering, Position, case
<1>8. Recovering'
  BY <1>1, <1>2, <1>3, <1>6, <1>7 DEF Recovering, WholeFiles, Kept, NewCheckpointIn, Outcome, case
<1> QED BY <1>5, <1>8 DEF Place

(* The checkpoint in slot k is the newest that the log can serve.          *)
Chosen == IF NewCheckpointIn THEN 0 ELSE 1

LEMMA ChosenConsistent ==
  ASSUME CaseTypes, Recovering, scanned \in Kept .. MaxRecords
  PROVE  /\ Chosen \in SlotIndex /\ Consistent(slots[Chosen])
         /\ slots[Chosen].count = Kept /\ slots[Chosen].gen = Outcome.gen
         /\ \A k \in SlotIndex : Selected(k) => k = Chosen
         /\ Selected(Chosen)
<1> USE Slots2, Checkpoints, Apart, Fits
<1>1. /\ Chosen \in SlotIndex /\ slots[Chosen] \in Checkpoint
      /\ slots[Chosen].count = Kept /\ slots[Chosen].last = Kept /\ slots[Chosen].gen = Outcome.gen
  BY DEF Chosen, Kept, Outcome, NewCheckpointIn, Recovering
<1>2. log[Kept].seq = Kept
  BY KeptBounds, Prefix DEF Recovering
<1>3. Consistent(slots[Chosen])
  BY <1>1, <1>2, KeptBounds DEF Consistent
<1>4. \A j \in SlotIndex : Consistent(slots[j]) /\ j # Chosen => slots[j].gen < slots[Chosen].gen
  BY <1>1, SlotAssumption DEF Consistent, Chosen, Recovering, NewCheckpointIn, Outcome
<1>5. slots[Chosen].gen \in {2, 3}
  BY <1>1 DEF Outcome
<1>6. \A j \in SlotIndex : Consistent(slots[j]) => slots[j].gen \in Int
  BY DEF Consistent, Checkpoint
<1>7. Selected(Chosen)
  BY <1>1, <1>3, <1>4 DEF Selected
<1>8. \A k \in SlotIndex : Selected(k) => k = Chosen
  BY <1>1, <1>3, <1>4, <1>5, <1>6 DEF Selected
<1> QED BY <1>1, <1>3, <1>7, <1>8

LEMMA ChooseStep ==
  ASSUME CaseTypes, Place, Recovers, NEW k \in SlotIndex, ChooseCheckpoint(k)
  PROVE  Place' /\ log' \in [Position -> Cell]
<1>1. Recovering /\ pc = "choose"
  BY DEF ChooseCheckpoint, Recovers, Place, Waiting, Making, Appending, Committing, Committed,
     Dropped,
         Reopening, OnCheckpoint
<1>2. /\ UNCHANGED <<case, stage, logHead, journalLen, slots, ackFile, first, second>>
      /\ pc' = "closed" /\ stage \in {"recover", "again"}
  BY DEF Recovers, ChooseCheckpoint, journalCache, case
<1>3. slots[k].count = Kept
  BY <1>1, ChosenConsistent DEF ChooseCheckpoint, Recovering
<1>4. scanned' = Kept /\ log' = [i \in Position |-> IF i <= Kept THEN log[i] ELSE Absent]
  BY <1>3 DEF ChooseCheckpoint, TruncateLog, TruncateTo
<1>5. log' \in [Position -> Cell]
  BY <1>4 DEF CaseTypes, Cell
<1>6. UNCHANGED Kept /\ UNCHANGED <<pre, size>>
  BY <1>2 DEF Kept, NewCheckpointIn, case
<1>7. Numbered(Kept)' /\ Within(Kept)' /\ Within(pre + size)'
  <2>1. \A i \in 1 .. Kept : log'[i] = log[i]
    BY <1>4, KeptBounds, Fits DEF Position
  <2>2. \A i \in Position : i > Kept => log'[i] = Absent
    BY <1>4, KeptBounds DEF Position
  <2> QED BY <1>1, <1>6, <2>1, <2>2, KeptBounds, Fits DEF Numbered, Within, Recovering, Position
<1>8. Recovering'
  BY <1>1, <1>2, <1>4, <1>6, <1>7 DEF Recovering, WholeFiles, NewCheckpointIn, Outcome, case
<1> QED BY <1>5, <1>8 DEF Place

(* Recovery takes no other way: the journal is whole and a slot agrees.    *)
LEMMA RecoversStep ==
  ASSUME CaseTypes, Place, Recovers PROVE Place' /\ log' \in [Position -> Cell]
<1>1. Recovering
  BY DEF Recovers, Place, Waiting, Making, Appending, Committing, Committed, Dropped, Reopening,
     OnCheckpoint
<1>2. ~Refuse
  <2>1. pc = "choose" => Consistent(slots[Chosen]) /\ Chosen \in SlotIndex
    BY <1>1, ChosenConsistent DEF Recovering
  <2> QED BY <1>1, <2>1 DEF Refuse, Recovering, WholeFiles
<1>3. ~(NothingToRecover \/ StartMigration \/ MigrateJournal \/ SyncMigration)
  BY <1>1 DEF NothingToRecover, StartMigration, MigrateJournal, SyncMigration, Recovering,
     WholeFiles
<1>4. Scan \/ \E k \in SlotIndex : ChooseCheckpoint(k)
  BY <1>2, <1>3 DEF Recovers, Recover, RecoveryStep
<1> QED BY <1>4, ScanStep, ChooseStep

LEMMA ReportsStep ==
  ASSUME CaseTypes, Place, Reports PROVE Place'
<1>1. Recovering /\ pc = "closed"
  BY DEF Reports, Place, Waiting, Making, Appending, Committing, Committed, Dropped, Reopening,
     Recovering,
         OnCheckpoint
<1>2. Report = Outcome
  <2>1. scanned = Kept /\ scanned \in Kept .. MaxRecords
    BY <1>1, KeptBounds DEF Recovering
  <2>2. \E k \in SlotIndex : Selected(k)
    BY <1>1, <2>1, ChosenConsistent
  <2>3. (CHOOSE k \in SlotIndex : Selected(k)) = Chosen
    BY <1>1, <2>1, <2>2, ChosenConsistent
  <2>4. slots[Chosen].gen = Outcome.gen
    BY <1>1, <2>1, ChosenConsistent
  <2> QED BY <1>1, <2>1, <2>2, <2>3, <2>4 DEF Report, Outcome
<1>3. UNCHANGED <<case, logHead, log, journalLen, slots, ackFile, Kept, Outcome>>
  BY DEF Reports, diskVars, case, Kept, Outcome, NewCheckpointIn
<1>4. Recovering'
  BY <1>1, <1>2, <1>3 DEF Reports, Recovering, WholeFiles, Numbered, Within, NewCheckpointIn, case
<1> QED BY <1>4 DEF Place

-----------------------------------------------------------------------------
(* The invariant                                                           *)

LEMMA InitInv == MatrixInit => MInv
<1> SUFFICES ASSUME MatrixInit PROVE MInv
  OBVIOUS
<1>1. CaseTypes
  BY DEF MatrixInit, Init, DiskInit, CaseTypes, NoRecords, NoSlots, Cell, Slot
<1>2. Making
  BY DEF MatrixInit, Init, DiskInit, Making, NewWriter, NoSlots, SlotIndex
<1> QED BY <1>1, <1>2 DEF MInv, Place

LEMMA WorksStep ==
  ASSUME CaseTypes, Place, Works
  PROVE  Place' /\ log' \in [Position -> Cell] /\ slots' \in [SlotIndex -> Slot]
<1>0. UNCHANGED <<case, stage>> /\ stage \in {"initialize", "child"}
      /\ log \in [Position -> Cell] /\ slots \in [SlotIndex -> Slot]
  BY DEF Works, CaseTypes
<1>1. ASSUME WriteRecord, AtFault => mode # "CrashBeforeMainLogWrite"
      PROVE  Place' /\ log' \in [Position -> Cell] /\ slots' = slots
  BY <1>0, <1>1, WriteStep DEF WriteRecord, journalCache
<1>2. ASSUME WriteCheckpoint, AtFault => pc' = pc
      PROVE  Place' /\ log' = log /\ slots' \in [SlotIndex -> Slot]
  BY <1>0, <1>2, CheckpointStep DEF WriteCheckpoint, logCache
<1>3. CASE AtFault
  BY <1>0, <1>1, <1>2, <1>3 DEF Works, PartialWrite
<1>4. CASE ~AtFault
  <2>1. CASE WriteRecord \/ WriteCheckpoint
    BY <1>0, <1>1, <1>2, <1>4, <2>1
  <2>2. CASE ~(WriteRecord \/ WriteCheckpoint)
    <3>1. Place'
      BY <1>4, <2>2, OpenLogStep, HeaderStep, OpenJournalStep, InitializeStep, DirectoryStep,
         LoadStep,
         FinishStep, SyncLogStep, ResizeStep, SyncJournalStep DEF Works, WriterWorks
    <3>2. log' = log /\ slots' = slots
      BY <1>4, <2>2 DEF Works, WriterWorks, OpenLog, WriteHeader, SyncHeader, OpenJournal,
         InitializeCheckpoint, SyncDirectory, LoadCheckpoint, BatchEnds, FinishBatch, SyncLog,
         ResizeJournal, SyncJournal, diskVars, logCache, journalCache
    <3> QED BY <1>0, <3>1, <3>2
  <2> QED BY <2>1, <2>2
<1> QED BY <1>3, <1>4

LEMMA StepInv == MInv /\ [MatrixNext]_matrixVars => MInv'
<1> SUFFICES ASSUME CaseTypes, Place, [MatrixNext]_matrixVars PROVE CaseTypes' /\ Place'
  BY DEF MInv
<1>1. CASE MatrixNext
  <2>1. Place' /\ log' \in [Position -> Cell] /\ slots' \in [SlotIndex -> Slot]
    <3>1. CASE Works
      BY <3>1, WorksStep
    <3>2. CASE Recovers
      <4>1. ~(MigrateJournal)
        BY <3>2 DEF Recovers, MigrateJournal, Place, Making, Waiting, Appending, Committing,
           Committed,
           Dropped, Reopening, Recovering, OnCheckpoint
      <4>2. slots' = slots
        BY <3>2, <4>1 DEF Recovers, Recover, RecoveryStep, Scan, ChooseCheckpoint,
           NothingToRecover, Refuse,
           StartMigration, SyncMigration, journalCache, diskVars
      <4> QED BY <3>2, <4>2, RecoversStep DEF CaseTypes
    <3>3. CASE ~(Works \/ Recovers)
      <4>1. Place'
        BY <1>1, <3>3, StartStep, AppendStep, CloseStep, StartChildStep, ExitStep,
           StartRecoveryStep, ReportsStep
           DEF MatrixNext
      <4>2. log' = log /\ slots' = slots
        <5>1. Close => UNCHANGED diskVars
          BY DEF Close
        <5> QED
          BY <1>1, <3>3, <5>1 DEF MatrixNext, StartInitialize, StartChild, StartRecovery,
             Launch, Append, BeginBatch,
             CloseInitialized, ChildExits, Reports, diskVars, logCache, journalCache
      <4> QED BY <4>1, <4>2 DEF CaseTypes
    <3> QED BY <3>1, <3>2, <3>3
  <2>2. UNCHANGED case /\ (stage' = "child" => ackFile' = pre)
    BY <1>1 DEF MatrixNext, StartInitialize, Works, Append, CloseInitialized, StartChild,
       ChildExits,
       StartRecovery, Recovers, Reports, CaseTypes, case
  <2> QED BY <2>1, <2>2 DEF CaseTypes, case
<1>2. CASE UNCHANGED matrixVars
  BY <1>2 DEF matrixVars, vars, diskVars, writerVars, writerState, history, case, CaseTypes,
     Place, Making,
     Waiting, Appending, Committing, Committed, Dropped, Reopening, Recovering, OnCheckpoint,
     NewWriter,
     WholeFiles, Exactly, Numbered, Within, Kept, Outcome, NewCheckpointIn, Base, Amount,
     Current, Other
<1> QED BY <1>1, <1>2

(* At every moment of a case, for batches of every size and a file of any  *)
(* length, the process is at one of eight places and the files hold what   *)
(* belongs there.                                                          *)
THEOREM MatrixInvariance == MatrixSpec => []MInv
BY InitInv, StepInv, PTL DEF MatrixSpec

(* A case that comes to its end passes, whatever fault ended the child:    *)
(* recovery brings back exactly what was acknowledged, or the whole batch, *)
(* and a second recovery changes nothing (tools/crash_matrix.cpp's         *)
(* result.passed).                                                         *)
THEOREM MatrixPasses == MatrixSpec => []CasePasses
<1>1. MInv => CasePasses
  <2> SUFFICES ASSUME MInv, stage = "done" PROVE
         /\ first.healthy /\ second = first
         /\ second.records \in {pre, pre + size} /\ second.records >= ackFile
         /\ mode \in Site =>
              /\ second.records = ExpectedRecords /\ ackFile = ExpectedRecords
              /\ ValidPrefix(log, ExpectedRecords) /\ HasLength(log, ExpectedRecords)
    BY DEF CasePasses
  <2>1. CaseTypes /\ Recovering
    BY DEF MInv, Place, Making, Waiting, Appending, Committing, Committed, Dropped, Reopening,
       OnCheckpoint
  <2>2. first = Outcome /\ second = Outcome /\ Numbered(Kept) /\ Within(Kept)
        /\ (mode \in Site => (NewCheckpointIn <=> mode \in AcknowledgingSite))
        /\ ackFile = IF mode \in AcknowledgingSite THEN pre + size ELSE pre
    BY <2>1 DEF Recovering
  <2>3. Outcome.healthy = TRUE /\ Outcome.records = Kept
    BY DEF Outcome
  <2>4. mode \in Site => Kept = ExpectedRecords /\ ackFile = ExpectedRecords
    BY <2>2 DEF Kept, ExpectedRecords
  <2>5. Kept >= ackFile
    BY <2>1, <2>2, Fits DEF Kept, Site
  <2>6. ValidPrefix(log, Kept) /\ HasLength(log, Kept)
    BY <2>1, <2>2, KeptBounds, Prefix
  <2> QED BY <2>1, <2>2, <2>3, <2>4, <2>5, <2>6, KeptBounds
<1> QED BY <1>1, MatrixInvariance, PTL
=============================================================================

--------------------------- MODULE FlightRecorder ---------------------------
(***************************************************************************)
(* The running recorder (flight_recorder.cpp and the loop of main.cpp):    *)
(* the sensor thread pushes samples into the buffer, the writer thread     *)
(* pops them, appends batches and commits on a count or on a timer, and    *)
(* the main thread starts them, watches for errors and stops them.         *)
(*                                                                         *)
(* The buffer is used through BoundedFifo, which CircularBuffer            *)
(* implements; of a pop that finds nothing the two reads, of the cursor    *)
(* and then of the closed flag, stay two steps.  The BinaryLogWriter is    *)
(* used through its results and its counters.  Each shared total and flag   *)
(* is a step of its own, as other threads read them in between.  Time is   *)
(* counted in ticks of flush_interval_ms.                                  *)
(***************************************************************************)
EXTENDS Integers, Sequences, FiniteSetsExt

CONSTANTS
  Capacity,     \* buffer_size
  BatchSize,    \* batch_size
  SyncEvery,    \* sync_every_batches
  Interval,     \* flush_interval_ms in ticks, 0 for no timer
  IdleWait,     \* the 250 ms of a wait with nothing to commit, in ticks
  MaxSamples    \* bound: samples of a run

ASSUME RecorderAssumption ==
  /\ Capacity \in Nat \ {0} /\ BatchSize \in Nat \ {0} /\ SyncEvery \in Nat \ {0}
  /\ Interval \in Nat /\ IdleWait \in Nat /\ MaxSamples \in Nat

VARIABLES
  queue, sent, closed,       \* buffer_
  stopRequested, writerError, overflow,
  sequence,                  \* sequence_, from start_sequence_
  generated, dropped, written, committed,  \* the four totals of RecorderStats
  sensor, flag,              \* the sensor thread; its sample's overflow status
  writer, batch,             \* the writer thread; records in writer_batch_
  pending, remaining,        \* pending_commit; ticks to commit_deadline
  batchAge,                  \* ticks since batch_started
  patience,                  \* ticks until pop_wait_for times out
  main,                      \* the main thread
  logged, safe, unsynced, failed,  \* writer_: records_written, records_committed,
                             \* unsynced_batches_, failed_
  unreported,                \* records were dropped since the last one accepted
  oldestAge                  \* ticks since the oldest uncommitted batch started

buffer  == <<queue, sent, closed>>
totals  == <<generated, dropped, written, committed>>
logWriter == <<logged, safe, unsynced, failed>>
clock   == <<remaining, batchAge, oldestAge, patience>>
flags   == <<stopRequested, writerError>>
vars == <<buffer, flags, overflow, sequence, totals, sensor, flag, writer, batch,
          pending, clock, main, logWriter, unreported>>

Buffer == INSTANCE BoundedFifo

Init ==
  /\ Buffer!Init
  /\ stopRequested = FALSE /\ writerError = FALSE /\ overflow = FALSE
  /\ sequence = 0
  /\ generated = 0 /\ dropped = 0 /\ written = 0 /\ committed = 0
  /\ sensor = "off" /\ flag = FALSE
  /\ writer = "off" /\ batch = 0
  /\ pending = FALSE /\ remaining = 0 /\ batchAge = 0 /\ oldestAge = 0
  /\ patience = 0
  /\ main = "off"
  /\ logged = 0 /\ safe = 0 /\ unsynced = 0 /\ failed = FALSE
  /\ unreported = FALSE

-----------------------------------------------------------------------------
(* Mistakes the code does not make.  Each stands in for the definition its *)
(* comment names, to show that a property would notice it.                 *)

(* PushWaits that sleeps through close().                                  *)
WaitIgnoresClose ==
  /\ \/ sensor = "room" /\ Len(queue) = Capacity /\ sensor' = "wait"
     \/ sensor = "wait" /\ Len(queue) < Capacity /\ sensor' = "push"
  /\ UNCHANGED <<buffer, flags, overflow, sequence, totals, flag, writer, batch,
                 pending, clock, main, logWriter, unreported>>

(* CountDropped without overflow_since_last_sample_.                       *)
DropNotNoted ==
  /\ sensor = "drop"
  /\ dropped' = dropped + 1
  /\ flag' = FALSE
  /\ unreported' = TRUE
  /\ sensor' = "loop"
  /\ UNCHANGED <<buffer, flags, overflow, sequence, generated, written, committed,
                 writer, batch, pending, clock, main, logWriter>>

(* CommitDue for a writer that only looks when records keep coming.        *)
DueWithRecords == pending /\ remaining = 0 /\ queue # <<>>

(* PopRest with room for batch_size records after the first one.           *)
DrainsOneMore ==
  /\ writer = "drain"
  /\ LET more == Min({BatchSize, Len(queue)})
     IN /\ IF more = 0 THEN UNCHANGED buffer
           ELSE Buffer!Pop /\ Len(queue') = Len(queue) - more
        /\ batch' = batch + more
        /\ sequence' = sequence + more
  /\ batchAge' = 0
  /\ writer' = "append"
  /\ UNCHANGED <<flags, overflow, totals, sensor, flag, pending, remaining,
                 oldestAge, patience, main, logWriter, unreported>>

(* WaitForRecord that sleeps as long with a deadline as without.           *)
SleepsOn ==
  /\ writer = "loop"
  /\ ~(pending /\ remaining = 0)
  /\ patience' = IdleWait
  /\ writer' = "pop"
  /\ UNCHANGED <<buffer, flags, overflow, sequence, totals, sensor, flag, batch,
                 pending, remaining, batchAge, oldestAge, main, logWriter, unreported>>

(* CountCommitted that reports what was written as committed.              *)
ReportsWritten ==
  /\ writer = "commit"
  /\ committed' = logged
  /\ batchAge' = 0
  /\ writer' = "loop"
  /\ UNCHANGED <<buffer, flags, overflow, sequence, generated, dropped, written,
                 sensor, flag, batch, pending, remaining, oldestAge, patience, main,
                 logWriter, unreported>>

(* CountCommitted with a deadline that every batch sets anew.              *)
BatchMovesDeadline ==
  /\ writer = "commit"
  /\ committed' = safe
  /\ pending' = (logged # safe /\ Interval # 0)
  /\ remaining' = IF pending' THEN Interval - batchAge ELSE remaining
  /\ batchAge' = 0
  /\ writer' = "loop"
  /\ UNCHANGED <<buffer, flags, overflow, sequence, generated, dropped, written,
                 sensor, flag, batch, oldestAge, patience, main, logWriter, unreported>>

(* LastFlush that leaves the pending group alone.                          *)
EndsWithoutFlush ==
  /\ writer = "lastFlush"
  /\ writer' = "lastFlushed"
  /\ UNCHANGED <<buffer, flags, overflow, sequence, totals, sensor, flag, batch,
                 pending, clock, main, logWriter, unreported>>

-----------------------------------------------------------------------------
(* The sensor thread.                                                      *)

Sample ==
  /\ sensor = "loop"
  /\ ~stopRequested
  /\ generated < MaxSamples
  /\ flag' = overflow
  /\ overflow' = FALSE
  /\ sensor' = "push"
  /\ UNCHANGED <<buffer, flags, sequence, totals, writer, batch, pending, clock,
                 main, logWriter, unreported>>

(* push_wait_for: a buffer that is not closed is tried, and tried again    *)
(* when there is room or it was closed while waiting.                      *)
PushStarts ==
  /\ sensor = "push"
  /\ ~closed
  /\ sensor' = "room"
  /\ UNCHANGED <<buffer, flags, overflow, sequence, totals, flag, writer, batch,
                 pending, clock, main, logWriter, unreported>>

PushWaits ==
  /\ \/ sensor = "room" /\ Len(queue) = Capacity /\ sensor' = "wait"
     \/ sensor = "wait" /\ (closed \/ Len(queue) < Capacity) /\ sensor' = "push"
  /\ UNCHANGED <<buffer, flags, overflow, sequence, totals, flag, writer, batch,
                 pending, clock, main, logWriter, unreported>>

(* The record is taken; it is counted afterwards.                          *)
PushAccepted ==
  /\ sensor = "room"
  /\ Buffer!Push
  /\ flag' = FALSE
  /\ unreported' = FALSE
  /\ sensor' = "pushed"
  /\ UNCHANGED <<flags, overflow, sequence, totals, writer, batch, pending, clock,
                 main, logWriter>>

(* The buffer stayed full for a whole sample period.                       *)
PushTimesOut ==
  /\ sensor = "wait"
  /\ ~closed /\ Len(queue) = Capacity
  /\ sensor' = "timedOut"
  /\ UNCHANGED <<buffer, flags, overflow, sequence, totals, flag, writer, batch,
                 pending, clock, main, logWriter, unreported>>

CountGenerated ==
  /\ generated' = generated + 1
  /\ \/ sensor = "pushed" /\ sensor' = "loop"
     \/ sensor = "timedOut" /\ sensor' = "drop"
  /\ UNCHANGED <<buffer, flags, overflow, sequence, dropped, written, committed,
                 flag, writer, batch, pending, clock, main, logWriter, unreported>>

(* No other thread sees the overflow status that is kept with the count.   *)
CountDropped ==
  /\ sensor = "drop"
  /\ dropped' = dropped + 1
  /\ overflow' = TRUE
  /\ flag' = FALSE
  /\ unreported' = TRUE
  /\ sensor' = "loop"
  /\ UNCHANGED <<buffer, flags, sequence, generated, written, committed, writer,
                 batch, pending, clock, main, logWriter>>

SensorEnds ==
  /\ \/ sensor = "loop" /\ stopRequested
     \/ sensor = "push" /\ closed
  /\ sensor' = "ended"
  /\ UNCHANGED <<buffer, flags, overflow, sequence, totals, flag, writer, batch,
                 pending, clock, main, logWriter, unreported>>

SensorStep ==
  \/ Sample \/ PushStarts \/ PushWaits \/ PushAccepted \/ PushTimesOut
  \/ CountGenerated \/ CountDropped \/ SensorEnds

-----------------------------------------------------------------------------
(* BinaryLogWriter.flush() as the threads see it: nothing to do, a commit, *)
(* or a failure that stays.                                                *)

FlushSucceeds ==
  /\ ~failed
  /\ safe' = IF unsynced = 0 THEN safe ELSE logged
  /\ unsynced' = 0
  /\ oldestAge' = 0
  /\ UNCHANGED <<logged, failed>>

FlushFails ==
  /\ failed \/ unsynced # 0
  /\ failed' = TRUE
  /\ UNCHANGED <<logged, safe, unsynced, oldestAge>>

(* After a failed append or timed flush the thread stores stop_requested_, *)
(* then writer_error_, and then closes the buffer.                         *)
GiveUp ==
  /\ stopRequested' = TRUE
  /\ writer' = "report"

ReportError ==
  /\ writer = "report"
  /\ writerError' = TRUE
  /\ batch' = 0
  /\ writer' = "close"
  /\ UNCHANGED <<buffer, stopRequested, overflow, sequence, totals, sensor, flag,
                 pending, clock, main, logWriter, unreported>>

CloseBuffer ==
  /\ writer = "close"
  /\ Buffer!Close
  /\ writer' = "lastFlush"
  /\ UNCHANGED <<flags, overflow, sequence, totals, sensor, flag, batch, pending,
                 clock, main, logWriter, unreported>>

CommitDue == pending /\ remaining = 0

TimedFlush ==
  /\ writer = "loop"
  /\ CommitDue
  /\ \/ FlushSucceeds /\ writer' = "flushed" /\ UNCHANGED stopRequested
     \/ FlushFails /\ GiveUp
  /\ UNCHANGED <<buffer, writerError, overflow, sequence, totals, sensor, flag, batch,
                 pending, remaining, batchAge, patience, main, unreported>>

(* After a timed flush, or the last one.                                   *)
CountFlushed ==
  /\ committed' = safe
  /\ \/ /\ writer = "flushed" /\ writer' = "pop"
        /\ pending' = FALSE /\ patience' = IdleWait
     \/ /\ writer = "lastFlushed" /\ writer' = "ended"
        /\ UNCHANGED <<pending, patience>>
  /\ UNCHANGED <<buffer, flags, overflow, sequence, generated, dropped, written,
                 sensor, flag, batch, remaining, batchAge, oldestAge, main, logWriter,
                 unreported>>

(* pop_wait_for starts, to wait no longer than to the deadline.            *)
WaitForRecord ==
  /\ writer = "loop"
  /\ ~CommitDue
  /\ patience' = IF pending THEN Min({IdleWait, remaining}) ELSE IdleWait
  /\ writer' = "pop"
  /\ UNCHANGED <<buffer, flags, overflow, sequence, totals, sensor, flag, batch,
                 pending, remaining, batchAge, oldestAge, main, logWriter, unreported>>

FindsEmpty ==
  /\ writer = "pop"
  /\ queue = <<>>
  /\ writer' = "sawEmpty"
  /\ UNCHANGED <<buffer, flags, overflow, sequence, totals, sensor, flag, batch,
                 pending, clock, main, logWriter, unreported>>

(* The flag is read after the cursor.                                      *)
ReadsClosed ==
  /\ writer = "sawEmpty"
  /\ writer' = IF closed THEN "lastFlush" ELSE "waiting"
  /\ UNCHANGED <<buffer, flags, overflow, sequence, totals, sensor, flag, batch,
                 pending, clock, main, logWriter, unreported>>

(* The wait ends with a new attempt, or when its time is over.             *)
WaitEnds ==
  /\ writer = "waiting"
  /\ IF closed \/ queue # <<>> THEN writer' = "pop"
     ELSE patience = 0 /\ writer' = "loop"
  /\ UNCHANGED <<buffer, flags, overflow, sequence, totals, sensor, flag, batch,
                 pending, clock, main, logWriter, unreported>>

(* pop_wait_for gives one record.                                          *)
PopFirst ==
  /\ writer = "pop"
  /\ Buffer!Pop
  /\ Len(queue') = Len(queue) - 1
  /\ batch' = 1
  /\ sequence' = sequence + 1
  /\ patience' = 0
  /\ writer' = "drain"
  /\ UNCHANGED <<flags, overflow, totals, sensor, flag, pending, remaining, batchAge,
                 oldestAge, main, logWriter, unreported>>

(* try_pop_batch fills the batch with what else there is, and the clock is *)
(* read.                                                                   *)
PopRest ==
  /\ writer = "drain"
  /\ LET more == Min({BatchSize - 1, Len(queue)})
     IN /\ IF more = 0 THEN UNCHANGED buffer
           ELSE Buffer!Pop /\ Len(queue') = Len(queue) - more
        /\ batch' = batch + more
        /\ sequence' = sequence + more
  /\ batchAge' = 0
  /\ writer' = "append"
  /\ UNCHANGED <<flags, overflow, totals, sensor, flag, pending, remaining,
                 oldestAge, patience, main, logWriter, unreported>>

(* append_batch() returns success; it committed if the group is complete.  *)
AppendSucceeds ==
  /\ writer = "append"
  /\ ~failed
  /\ logged' = logged + batch
  /\ IF unsynced + 1 >= SyncEvery
     THEN unsynced' = 0 /\ safe' = logged' /\ oldestAge' = 0
     ELSE /\ unsynced' = unsynced + 1
          /\ oldestAge' = IF unsynced = 0 THEN batchAge ELSE oldestAge
          /\ UNCHANGED safe
  /\ writer' = "count"
  /\ UNCHANGED <<buffer, flags, overflow, sequence, totals, sensor, flag, batch,
                 pending, remaining, batchAge, patience, main, failed, unreported>>

CountWritten ==
  /\ writer = "count"
  /\ written' = written + batch
  /\ batch' = 0
  /\ writer' = "commit"
  /\ UNCHANGED <<buffer, flags, overflow, sequence, generated, dropped, committed,
                 sensor, flag, pending, clock, main, logWriter, unreported>>

(* The timer is the thread's own and is set with the last of the totals.   *)
CountCommitted ==
  /\ writer = "commit"
  /\ committed' = safe
  /\ IF logged = safe
     THEN pending' = FALSE /\ UNCHANGED remaining
     ELSE IF Interval # 0 /\ ~pending
          THEN pending' = TRUE /\ remaining' = Interval - batchAge
          ELSE UNCHANGED <<pending, remaining>>
  /\ batchAge' = 0
  /\ writer' = "loop"
  /\ UNCHANGED <<buffer, flags, overflow, sequence, generated, dropped, written,
                 sensor, flag, batch, oldestAge, patience, main, logWriter, unreported>>

(* It returns failure, with the batch in the log or not.                   *)
AppendFails ==
  /\ writer = "append"
  /\ failed' = TRUE
  /\ \/ logged' = logged + batch /\ unsynced' = unsynced + 1
     \/ UNCHANGED <<logged, unsynced>>
  /\ batchAge' = 0
  /\ GiveUp
  /\ UNCHANGED <<buffer, writerError, overflow, sequence, totals, sensor, flag, batch,
                 pending, remaining, oldestAge, patience, main, safe, unreported>>

LastFlush ==
  /\ writer = "lastFlush"
  /\ \/ FlushSucceeds /\ UNCHANGED writerError
     \/ FlushFails /\ writerError' = TRUE
  /\ writer' = "lastFlushed"
  /\ UNCHANGED <<buffer, stopRequested, overflow, sequence, totals, sensor, flag,
                 batch, pending, remaining, batchAge, patience, main, unreported>>

WriterStep ==
  \/ TimedFlush \/ CountFlushed \/ WaitForRecord \/ FindsEmpty \/ ReadsClosed
  \/ WaitEnds \/ PopFirst \/ PopRest
  \/ AppendSucceeds \/ CountWritten \/ CountCommitted
  \/ AppendFails \/ ReportError \/ CloseBuffer \/ LastFlush

-----------------------------------------------------------------------------
(* The main thread.                                                        *)

StartThreads ==
  /\ main = "off"
  /\ main' = "running" /\ sensor' = "loop" /\ writer' = "loop"
  /\ UNCHANGED <<buffer, flags, overflow, sequence, totals, flag, batch, pending,
                 clock, logWriter, unreported>>

(* The duration is over, a signal came, or the writer reported an error.   *)
RequestStop ==
  /\ main = "running"
  /\ stopRequested' = TRUE
  /\ main' = "joinSensor"
  /\ UNCHANGED <<buffer, writerError, overflow, sequence, totals, sensor, flag,
                 writer, batch, pending, clock, logWriter, unreported>>

JoinSensor ==
  /\ main = "joinSensor"
  /\ sensor = "ended"
  /\ Buffer!Close
  /\ main' = "joinWriter"
  /\ UNCHANGED <<flags, overflow, sequence, totals, sensor, flag, writer, batch,
                 pending, clock, logWriter, unreported>>

(* flush() and close(): nothing is left to commit, or the writer failed.   *)
JoinWriter ==
  /\ main = "joinWriter"
  /\ writer = "ended"
  /\ FlushSucceeds \/ FlushFails
  /\ main' = "stopped"
  /\ UNCHANGED <<buffer, flags, overflow, sequence, totals, sensor, flag, writer,
                 batch, pending, remaining, batchAge, patience, unreported>>

StopStep == JoinSensor \/ JoinWriter

(* A tick of the clock, as far as anything measures it.                    *)
Tick ==
  /\ batchAge' = IF writer \in {"append", "count", "commit"}
                 THEN Min({Interval, batchAge + 1}) ELSE 0
  /\ remaining' = IF pending THEN Max({0, remaining - 1}) ELSE remaining
  /\ oldestAge' = IF unsynced = 0 THEN 0 ELSE Min({Interval, oldestAge + 1})
  /\ patience' = Max({0, patience - 1})
  /\ clock' # clock
  /\ UNCHANGED <<buffer, flags, overflow, sequence, totals, sensor, flag, writer,
                 batch, pending, main, logWriter, unreported>>

Next == SensorStep \/ WriterStep \/ StartThreads \/ RequestStop \/ StopStep \/ Tick

(* The threads are scheduled and time passes; main polls for an error.     *)
Fairness ==
  /\ WF_vars(SensorStep) /\ WF_vars(WriterStep) /\ WF_vars(StopStep)
  /\ WF_vars(Tick)
  /\ WF_vars(writerError /\ RequestStop)

Spec == Init /\ [][Next]_vars /\ Fairness

-----------------------------------------------------------------------------
(* Properties                                                              *)

(* Every variable keeps its type.                                          *)
TypeOK ==
  /\ Len(queue) \in 0 .. Capacity /\ sent \in Nat /\ closed \in BOOLEAN
  /\ stopRequested \in BOOLEAN /\ writerError \in BOOLEAN /\ overflow \in BOOLEAN
  /\ {sequence, generated, dropped, written, committed} \subseteq Nat
  /\ sensor \in {"off", "loop", "push", "room", "wait", "pushed", "timedOut", "drop",
                "ended"} /\ flag \in BOOLEAN
  /\ writer \in {"off", "loop", "flushed", "pop", "sawEmpty", "waiting", "drain",
                "append", "count", "commit", "report", "close", "lastFlush",
                "lastFlushed", "ended"}
  /\ batch \in 0 .. BatchSize /\ pending \in BOOLEAN
  /\ {remaining, batchAge, oldestAge} \subseteq 0 .. Interval
  /\ patience \in 0 .. IdleWait
  /\ main \in {"off", "running", "joinSensor", "joinWriter", "stopped"}
  /\ {logged, safe, unsynced} \subseteq Nat
  /\ failed \in BOOLEAN /\ unreported \in BOOLEAN

(* "Further batches must not postpone the oldest uncommitted data": when   *)
(* the writer thread looks at its deadline, written data that is not       *)
(* committed has one, an interval after the oldest of it was taken up.     *)
DeadlineFollowsOldest ==
  writer = "loop" /\ Interval # 0 =>
    /\ pending <=> logged # safe
    /\ pending => remaining = Interval - oldestAge

(* While the writer thread sleeps and written data is not committed, the   *)
(* sleep ends by itself no later than an interval after the oldest of it   *)
(* was taken up, whatever was appended, committed or waited for before.    *)
WakesForDeadline ==
  writer = "waiting" /\ logged # safe /\ Interval # 0 =>
    patience <= Interval - oldestAge

(* The totals tell of no commit that did not happen, and of no record      *)
(* twice: what was accepted is written, held in a batch, queued, or lost   *)
(* with a failed append.                                                   *)
TotalsSound ==
  /\ committed <= written /\ committed <= safe /\ written <= logged
  /\ sent = sequence + Len(queue)
  /\ IF writerError THEN written <= sequence ELSE sequence = written + batch

(* A drop is reported in the status of the next record that is accepted,   *)
(* however many samples are dropped before, and nothing else is.           *)
DropsReported ==
  sensor \in {"loop", "push", "room", "wait"} => (unreported <=> (overflow \/ flag))

(* "Whichever trigger fires first commits the group", even when no sample  *)
(* arrives: with a timer, written data is committed or an error reported.  *)
TimedCommit ==
  Interval # 0 /\ logged # safe ~> logged = safe \/ writerError

(* A failure of the log stops the program, and a stop always completes.    *)
FailureStops == failed ~> main = "stopped"
StopCompletes == main = "joinSensor" ~> main = "stopped"

(* total_records_written = total_records_generated - dropped_records once  *)
(* the recorder stopped without an error: shutdown drains the buffer.      *)
StopDrains ==
  main = "stopped" /\ ~writerError => written = generated - dropped

=============================================================================

------------------------ MODULE FlightRecorderProofs ------------------------
(***************************************************************************)
(* Proofs about the running recorder for every buffer, batch, group and    *)
(* interval: its totals are sound, drops are reported, the deadline        *)
(* belongs to the oldest data, and no wait for a record lasts longer.      *)
(***************************************************************************)
EXTENDS FlightRecorder, TLAPS

(* The type invariant in three parts, which different provers handle.      *)
Numbers ==
  /\ queue \in Seq(Nat) /\ Len(queue) \in 0 .. Capacity /\ sent \in Nat
  /\ sequence \in Nat /\ generated \in Nat /\ dropped \in Nat
  /\ written \in Nat /\ committed \in Nat
  /\ batch \in 0 .. BatchSize
  /\ remaining \in 0 .. Interval /\ batchAge \in 0 .. Interval
  /\ oldestAge \in 0 .. Interval /\ patience \in 0 .. IdleWait
  /\ logged \in Nat /\ safe \in Nat /\ unsynced \in Nat

Places ==
  /\ sensor \in {"off", "loop", "push", "room", "wait", "pushed", "timedOut", "drop",
                "ended"}
  /\ writer \in {"off", "loop", "flushed", "pop", "sawEmpty", "waiting", "drain",
                "append", "count", "commit", "report", "close", "lastFlush",
                "lastFlushed", "ended"}
  /\ main \in {"off", "running", "joinSensor", "joinWriter", "stopped"}

Booleans ==
  /\ closed \in BOOLEAN /\ stopRequested \in BOOLEAN /\ writerError \in BOOLEAN
  /\ overflow \in BOOLEAN /\ flag \in BOOLEAN /\ pending \in BOOLEAN
  /\ failed \in BOOLEAN /\ unreported \in BOOLEAN

(* The places where the writer thread gave up, is about to end, or ended.  *)
Leaving == {"report", "close", "lastFlush", "lastFlushed", "ended"}

(* writer_batch_ by the writer thread's place.                             *)
Held ==
  /\ writer = "drain" => batch = 1
  /\ writer \in {"append", "count"} => batch # 0
  /\ writer \notin {"drain", "append", "count", "report"} => batch = 0

(* A failure of the writer makes its thread give up at once, and is known  *)
(* to the recorder before anything else happens to the log.                *)
Failing ==
  /\ writerError => failed
  /\ failed => writer \in Leaving
  /\ failed /\ writer # "report" => writerError
  /\ writer \in {"report", "close"} => failed
  /\ writer = "report" => ~writerError

(* What each total counts, against the writer's own counts.                *)
Ledger ==
  /\ committed <= safe /\ safe <= logged
  /\ writer # "count" => safe <= written
  /\ committed <= written /\ written <= logged
  /\ ~failed => logged = written + (IF writer = "count" THEN batch ELSE 0)
  /\ ~writerError => sequence = written + batch
  /\ written + batch <= sequence
  /\ sent = sequence + Len(queue)
  /\ ~failed => (unsynced = 0 <=> safe = logged)

(* The last flush commits what is there, or fails.                         *)
Ending ==
  /\ main = "off" => sensor = "off" /\ writer = "off"
  /\ writer \in {"flushed", "lastFlushed", "ended"} /\ ~failed => unsynced = 0
  /\ writer = "ended" /\ ~failed => committed = written
  /\ main = "stopped" => writer = "ended"

(* The overflow status is in the recorder or in the sensor thread's sample *)
(* but never in both.                                                      *)
Reporting ==
  /\ sensor \in {"push", "room", "wait", "pushed", "timedOut", "drop"} => ~overflow
  /\ sensor \in {"loop", "pushed"} => ~flag
  /\ sensor = "pushed" => ~unreported
  /\ sensor = "off" => ~overflow /\ ~flag /\ ~unreported
  /\ DropsReported

(* The deadline at every place of the writer thread, not only where it is  *)
(* looked at: it is set and taken back a step after the log moved.         *)
Deadline ==
  Interval # 0 /\ writer \notin Leaving =>
    /\ pending => unsynced = 0 \/ remaining = Interval - oldestAge
    /\ writer \notin {"count", "commit", "flushed"} => (pending <=> unsynced # 0)
    /\ writer \in {"count", "commit"} /\ unsynced # 0 /\ ~pending =>
         oldestAge = batchAge

(* A wait for a record ends by the deadline.                               *)
Patience ==
  writer \in {"pop", "sawEmpty", "waiting"} /\ pending => patience <= remaining

IInv ==
  Numbers /\ Places /\ Booleans /\ Held /\ Failing /\ Ledger
  /\ Ending /\ Reporting /\ Deadline /\ Patience

-----------------------------------------------------------------------------
(* The smaller and the larger of two numbers.                              *)
LEMMA MinOfTwo ==
  ASSUME NEW a \in Int, NEW b \in Int
  PROVE  Min({a, b}) = IF a <= b THEN a ELSE b
  BY DEF Min

LEMMA MaxOfTwo ==
  ASSUME NEW a \in Int, NEW b \in Int
  PROVE  Max({a, b}) = IF a >= b THEN a ELSE b
  BY DEF Max

(* What a push and a pop do to the queue's length and to its bounds.       *)
LEMMA Pushed ==
  ASSUME Numbers, Buffer!Push
  PROVE  /\ queue' \in Seq(Nat) /\ Len(queue') = Len(queue) + 1
         /\ Len(queue') <= Capacity
         /\ sent' = sent + 1 /\ closed' = closed
  BY RecorderAssumption DEF Numbers, Buffer!Push

LEMMA Popped ==
  ASSUME Numbers, Buffer!Pop
  PROVE  /\ queue' \in Seq(Nat) /\ Len(queue') < Len(queue)
         /\ sent' = sent /\ closed' = closed
<1>1. PICK n \in 1 .. Len(queue) : queue' = SubSeq(queue, n + 1, Len(queue))
  BY DEF Buffer!Pop
<1>2. queue \in Seq(Nat) /\ Len(queue) \in Nat
  BY DEF Numbers
<1>3. queue' \in Seq(Nat) /\ Len(queue') = Len(queue) - n
  BY <1>1, <1>2
<1>4. sent' = sent /\ closed' = closed
  BY DEF Buffer!Pop
<1> QED
  BY <1>2, <1>3, <1>4

(* What a tick leaves of the counts of ticks.                              *)
LEMMA Ticked ==
  ASSUME Numbers, Tick
  PROVE  /\ batchAge' \in 0 .. Interval /\ remaining' \in 0 .. Interval
         /\ oldestAge' \in 0 .. Interval /\ patience' \in 0 .. IdleWait
         /\ patience' = IF patience = 0 THEN 0 ELSE patience - 1
         /\ writer \in {"append", "count", "commit"} =>
              batchAge' = IF batchAge = Interval THEN Interval ELSE batchAge + 1
         /\ pending => remaining' = IF remaining = 0 THEN 0 ELSE remaining - 1
         /\ unsynced # 0 =>
              oldestAge' = IF oldestAge = Interval THEN Interval ELSE oldestAge + 1
<1>1. batchAge \in 0 .. Interval /\ remaining \in 0 .. Interval
      /\ oldestAge \in 0 .. Interval /\ Interval \in Nat
      /\ patience \in 0 .. IdleWait /\ IdleWait \in Nat
  BY RecorderAssumption DEF Numbers
<1>2. /\ Min({Interval, batchAge + 1}) = IF Interval <= batchAge + 1 THEN Interval ELSE batchAge + 1
      /\ Min({Interval, oldestAge + 1}) = IF Interval <= oldestAge + 1 THEN Interval ELSE oldestAge + 1
      /\ Max({0, remaining - 1}) = IF 0 >= remaining - 1 THEN 0 ELSE remaining - 1
      /\ Max({0, patience - 1}) = IF 0 >= patience - 1 THEN 0 ELSE patience - 1
  BY <1>1, MinOfTwo, MaxOfTwo
<1> QED
  BY <1>1, <1>2 DEF Tick

(* How long a wait for a record lasts.                                     *)
LEMMA Waits ==
  ASSUME Numbers, WaitForRecord
  PROVE  /\ patience' \in 0 .. IdleWait
         /\ pending => patience' <= remaining
<1>1. Min({IdleWait, remaining}) = IF IdleWait <= remaining THEN IdleWait ELSE remaining
  BY RecorderAssumption, MinOfTwo DEF Numbers
<1> QED
  BY <1>1, RecorderAssumption DEF Numbers, WaitForRecord

-----------------------------------------------------------------------------
(* try_pop_batch takes no more than fits beside the first record.          *)
LEMMA RestTaken ==
  ASSUME Numbers, PopRest
  PROVE  /\ queue' \in Seq(Nat) /\ Len(queue') \in 0 .. Capacity
         /\ sent' = sent /\ closed' = closed
         /\ Len(queue) - Len(queue') \in 0 .. BatchSize - 1
         /\ batch' = batch + (Len(queue) - Len(queue'))
         /\ sequence' = sequence + (Len(queue) - Len(queue'))
<1> DEFINE more == Min({BatchSize - 1, Len(queue)})
<1>1. /\ BatchSize - 1 \in Nat /\ Len(queue) \in 0 .. Capacity /\ Capacity \in Nat
      /\ batch \in Nat /\ sequence \in Nat /\ queue \in Seq(Nat)
  BY RecorderAssumption DEF Numbers
<1>2. more \in 0 .. BatchSize - 1 /\ more <= Len(queue)
  BY <1>1, MinOfTwo
<1>3. batch' = batch + more /\ sequence' = sequence + more
  BY DEF PopRest
<1>4. CASE more = 0
  <2>1. UNCHANGED <<queue, sent, closed>>
    BY <1>4 DEF PopRest, buffer
  <2> QED
    BY <1>1, <1>3, <1>4, <2>1
<1>5. CASE more # 0
  <2>1. Buffer!Pop /\ Len(queue') = Len(queue) - more
    BY <1>5 DEF PopRest
  <2>2. queue' \in Seq(Nat) /\ sent' = sent /\ closed' = closed
    BY <2>1, Popped
  <2>3. Len(queue') \in 0 .. Capacity /\ Len(queue) - Len(queue') = more
    BY <1>1, <1>2, <2>1
  <2> QED
    BY <1>2, <1>3, <2>2, <2>3
<1> QED
  BY <1>4, <1>5

-----------------------------------------------------------------------------
(* The parts of the invariant, each kept by every step of every thread.    *)
(* Totals only grow, and no count of ticks leaves its range.               *)
LEMMA NumbersKept == IInv /\ [Next]_vars => Numbers'
<1> SUFFICES ASSUME IInv, [Next]_vars PROVE Numbers'
  OBVIOUS
<1> USE RecorderAssumption DEF IInv, Numbers, Held, vars, buffer, flags,
        totals, clock, logWriter
<1>1. CASE Sample
  BY <1>1 DEF Sample
<1>2. CASE PushStarts
  BY <1>2 DEF PushStarts
<1>3. CASE PushWaits
  BY <1>3 DEF PushWaits
<1>4. CASE PushAccepted
  BY <1>4, Pushed DEF PushAccepted
<1>5. CASE PushTimesOut
  BY <1>5 DEF PushTimesOut
<1>6. CASE CountGenerated
  BY <1>6 DEF CountGenerated
<1>7. CASE CountDropped
  BY <1>7 DEF CountDropped
<1>8. CASE SensorEnds
  BY <1>8 DEF SensorEnds
<1>9. CASE TimedFlush
  <2>1. CASE FlushSucceeds /\ writer' = "flushed"
    BY <1>9, <2>1 DEF TimedFlush, FlushSucceeds, GiveUp
  <2>2. CASE FlushFails /\ GiveUp
    BY <1>9, <2>2 DEF TimedFlush, FlushFails, GiveUp
  <2> QED
    BY <1>9, <2>1, <2>2 DEF TimedFlush
<1>10. CASE CountFlushed
  BY <1>10 DEF CountFlushed
<1>11. CASE WaitForRecord
  BY <1>11, Waits DEF WaitForRecord
<1>12. CASE FindsEmpty
  BY <1>12 DEF FindsEmpty
<1>13. CASE ReadsClosed
  BY <1>13 DEF ReadsClosed
<1>14. CASE WaitEnds
  BY <1>14 DEF WaitEnds
<1>15. CASE PopFirst
  BY <1>15, Popped DEF PopFirst
<1>16. CASE PopRest
  BY <1>16, RestTaken DEF PopRest
<1>17. CASE AppendSucceeds
  BY <1>17 DEF AppendSucceeds
<1>18. CASE CountWritten
  BY <1>18 DEF CountWritten
<1>19. CASE CountCommitted
  BY <1>19 DEF CountCommitted
<1>20. CASE AppendFails
  BY <1>20 DEF AppendFails, GiveUp
<1>21. CASE ReportError
  BY <1>21 DEF ReportError
<1>22. CASE CloseBuffer
  BY <1>22 DEF CloseBuffer, Buffer!Close
<1>23. CASE LastFlush
  BY <1>23 DEF LastFlush, FlushSucceeds, FlushFails
<1>24. CASE StartThreads
  BY <1>24 DEF StartThreads
<1>25. CASE RequestStop
  BY <1>25 DEF RequestStop
<1>26. CASE JoinSensor
  BY <1>26 DEF JoinSensor, Buffer!Close
<1>27. CASE JoinWriter
  BY <1>27 DEF JoinWriter, FlushSucceeds, FlushFails
<1>28. CASE Tick
  BY <1>28, Ticked DEF Tick
<1>29. CASE UNCHANGED vars
  BY <1>29
<1> QED
  BY <1>1, <1>2, <1>3, <1>4, <1>5, <1>6, <1>7, <1>8, <1>9, <1>10, <1>11,
     <1>12, <1>13, <1>14, <1>15, <1>16, <1>17, <1>18, <1>19, <1>20, <1>21,
     <1>22, <1>23, <1>24, <1>25, <1>26, <1>27, <1>28, <1>29
     DEF Next, SensorStep, WriterStep, StopStep

(* Each thread goes from one of its places to another.                     *)
LEMMA PlacesKept == IInv /\ [Next]_vars => Places'
<1> SUFFICES ASSUME IInv, [Next]_vars PROVE Places'
  OBVIOUS
<1> USE RecorderAssumption DEF IInv, Places, vars, buffer, flags, totals,
        clock, logWriter
<1>1. CASE Sample
  BY <1>1 DEF Sample
<1>2. CASE PushStarts
  BY <1>2 DEF PushStarts
<1>3. CASE PushWaits
  BY <1>3 DEF PushWaits
<1>4. CASE PushAccepted
  BY <1>4 DEF PushAccepted
<1>5. CASE PushTimesOut
  BY <1>5 DEF PushTimesOut
<1>6. CASE CountGenerated
  BY <1>6 DEF CountGenerated
<1>7. CASE CountDropped
  BY <1>7 DEF CountDropped
<1>8. CASE SensorEnds
  BY <1>8 DEF SensorEnds
<1>9. CASE TimedFlush
  BY <1>9 DEF TimedFlush, FlushSucceeds, FlushFails, GiveUp
<1>10. CASE CountFlushed
  BY <1>10 DEF CountFlushed
<1>11. CASE WaitForRecord
  BY <1>11, Waits DEF WaitForRecord
<1>12. CASE FindsEmpty
  BY <1>12 DEF FindsEmpty
<1>13. CASE ReadsClosed
  BY <1>13 DEF ReadsClosed
<1>14. CASE WaitEnds
  BY <1>14 DEF WaitEnds
<1>15. CASE PopFirst
  BY <1>15 DEF PopFirst
<1>16. CASE PopRest
  BY <1>16 DEF PopRest
<1>17. CASE AppendSucceeds
  BY <1>17 DEF AppendSucceeds
<1>18. CASE CountWritten
  BY <1>18 DEF CountWritten
<1>19. CASE CountCommitted
  BY <1>19 DEF CountCommitted
<1>20. CASE AppendFails
  BY <1>20 DEF AppendFails, GiveUp
<1>21. CASE ReportError
  BY <1>21 DEF ReportError
<1>22. CASE CloseBuffer
  BY <1>22 DEF CloseBuffer, Buffer!Close
<1>23. CASE LastFlush
  BY <1>23 DEF LastFlush, FlushSucceeds, FlushFails
<1>24. CASE StartThreads
  BY <1>24 DEF StartThreads
<1>25. CASE RequestStop
  BY <1>25 DEF RequestStop
<1>26. CASE JoinSensor
  BY <1>26 DEF JoinSensor, Buffer!Close
<1>27. CASE JoinWriter
  BY <1>27 DEF JoinWriter, FlushSucceeds, FlushFails
<1>28. CASE Tick
  BY <1>28 DEF Tick
<1>29. CASE UNCHANGED vars
  BY <1>29
<1> QED
  BY <1>1, <1>2, <1>3, <1>4, <1>5, <1>6, <1>7, <1>8, <1>9, <1>10, <1>11,
     <1>12, <1>13, <1>14, <1>15, <1>16, <1>17, <1>18, <1>19, <1>20, <1>21,
     <1>22, <1>23, <1>24, <1>25, <1>26, <1>27, <1>28, <1>29
     DEF Next, SensorStep, WriterStep, StopStep

(* A flag is set to a truth value.                                         *)
LEMMA BooleansKept == IInv /\ [Next]_vars => Booleans'
<1> SUFFICES ASSUME IInv, [Next]_vars PROVE Booleans'
  OBVIOUS
<1> USE RecorderAssumption DEF IInv, Booleans, vars, buffer, flags, totals,
        clock, logWriter
<1>1. CASE Sample
  BY <1>1 DEF Sample
<1>2. CASE PushStarts
  BY <1>2 DEF PushStarts
<1>3. CASE PushWaits
  BY <1>3 DEF PushWaits
<1>4. CASE PushAccepted
  BY <1>4, Pushed DEF PushAccepted
<1>5. CASE PushTimesOut
  BY <1>5 DEF PushTimesOut
<1>6. CASE CountGenerated
  BY <1>6 DEF CountGenerated
<1>7. CASE CountDropped
  BY <1>7 DEF CountDropped
<1>8. CASE SensorEnds
  BY <1>8 DEF SensorEnds
<1>9. CASE TimedFlush
  BY <1>9 DEF TimedFlush, FlushSucceeds, FlushFails, GiveUp
<1>10. CASE CountFlushed
  BY <1>10 DEF CountFlushed
<1>11. CASE WaitForRecord
  BY <1>11, Waits DEF WaitForRecord
<1>12. CASE FindsEmpty
  BY <1>12 DEF FindsEmpty
<1>13. CASE ReadsClosed
  BY <1>13 DEF ReadsClosed
<1>14. CASE WaitEnds
  BY <1>14 DEF WaitEnds
<1>15. CASE PopFirst
  BY <1>15, Popped DEF PopFirst
<1>16. CASE PopRest
  BY <1>16, RestTaken DEF PopRest
<1>17. CASE AppendSucceeds
  BY <1>17 DEF AppendSucceeds
<1>18. CASE CountWritten
  BY <1>18 DEF CountWritten
<1>19. CASE CountCommitted
  BY <1>19 DEF CountCommitted
<1>20. CASE AppendFails
  BY <1>20 DEF AppendFails, GiveUp
<1>21. CASE ReportError
  BY <1>21 DEF ReportError
<1>22. CASE CloseBuffer
  BY <1>22 DEF CloseBuffer, Buffer!Close
<1>23. CASE LastFlush
  BY <1>23 DEF LastFlush, FlushSucceeds, FlushFails
<1>24. CASE StartThreads
  BY <1>24 DEF StartThreads
<1>25. CASE RequestStop
  BY <1>25 DEF RequestStop
<1>26. CASE JoinSensor
  BY <1>26 DEF JoinSensor, Buffer!Close
<1>27. CASE JoinWriter
  BY <1>27 DEF JoinWriter, FlushSucceeds, FlushFails
<1>28. CASE Tick
  BY <1>28, Ticked DEF Tick
<1>29. CASE UNCHANGED vars
  BY <1>29
<1> QED
  BY <1>1, <1>2, <1>3, <1>4, <1>5, <1>6, <1>7, <1>8, <1>9, <1>10, <1>11,
     <1>12, <1>13, <1>14, <1>15, <1>16, <1>17, <1>18, <1>19, <1>20, <1>21,
     <1>22, <1>23, <1>24, <1>25, <1>26, <1>27, <1>28, <1>29
     DEF Next, SensorStep, WriterStep, StopStep

(* Records are held from the pop to the append.                            *)
LEMMA HeldKept == IInv /\ [Next]_vars => Held'
<1> SUFFICES ASSUME IInv, [Next]_vars PROVE Held'
  OBVIOUS
<1> USE RecorderAssumption DEF IInv, Numbers, Places, Held, Failing, Leaving,
        Ending, vars, buffer, flags, totals, clock, logWriter
<1>1. CASE Sample
  BY <1>1 DEF Sample
<1>2. CASE PushStarts
  BY <1>2 DEF PushStarts
<1>3. CASE PushWaits
  BY <1>3 DEF PushWaits
<1>4. CASE PushAccepted
  BY <1>4, Pushed DEF PushAccepted
<1>5. CASE PushTimesOut
  BY <1>5 DEF PushTimesOut
<1>6. CASE CountGenerated
  BY <1>6 DEF CountGenerated
<1>7. CASE CountDropped
  BY <1>7 DEF CountDropped
<1>8. CASE SensorEnds
  BY <1>8 DEF SensorEnds
<1>9. CASE TimedFlush
  BY <1>9 DEF TimedFlush, FlushSucceeds, FlushFails, GiveUp
<1>10. CASE CountFlushed
  BY <1>10 DEF CountFlushed
<1>11. CASE WaitForRecord
  BY <1>11, Waits DEF WaitForRecord
<1>12. CASE FindsEmpty
  BY <1>12 DEF FindsEmpty
<1>13. CASE ReadsClosed
  BY <1>13 DEF ReadsClosed
<1>14. CASE WaitEnds
  BY <1>14 DEF WaitEnds
<1>15. CASE PopFirst
  BY <1>15, Popped DEF PopFirst
<1>16. CASE PopRest
  BY <1>16, RestTaken DEF PopRest
<1>17. CASE AppendSucceeds
  BY <1>17 DEF AppendSucceeds
<1>18. CASE CountWritten
  BY <1>18 DEF CountWritten
<1>19. CASE CountCommitted
  BY <1>19 DEF CountCommitted
<1>20. CASE AppendFails
  BY <1>20 DEF AppendFails, GiveUp
<1>21. CASE ReportError
  BY <1>21 DEF ReportError
<1>22. CASE CloseBuffer
  BY <1>22 DEF CloseBuffer, Buffer!Close
<1>23. CASE LastFlush
  BY <1>23 DEF LastFlush, FlushSucceeds, FlushFails
<1>24. CASE StartThreads
  BY <1>24 DEF StartThreads
<1>25. CASE RequestStop
  BY <1>25 DEF RequestStop
<1>26. CASE JoinSensor
  BY <1>26 DEF JoinSensor, Buffer!Close
<1>27. CASE JoinWriter
  BY <1>27 DEF JoinWriter, FlushSucceeds, FlushFails
<1>28. CASE Tick
  BY <1>28, Ticked DEF Tick
<1>29. CASE UNCHANGED vars
  BY <1>29
<1> QED
  BY <1>1, <1>2, <1>3, <1>4, <1>5, <1>6, <1>7, <1>8, <1>9, <1>10, <1>11,
     <1>12, <1>13, <1>14, <1>15, <1>16, <1>17, <1>18, <1>19, <1>20, <1>21,
     <1>22, <1>23, <1>24, <1>25, <1>26, <1>27, <1>28, <1>29
     DEF Next, SensorStep, WriterStep, StopStep

(* A failure is noted where it happens; stop() meets none of its own.      *)
LEMMA FailingKept == IInv /\ [Next]_vars => Failing'
<1> SUFFICES ASSUME IInv, [Next]_vars PROVE Failing'
  OBVIOUS
<1> USE RecorderAssumption DEF IInv, Places, Booleans, Failing, Ending,
        Leaving, vars, buffer, flags, totals, clock, logWriter
<1>1. CASE Sample
  BY <1>1 DEF Sample
<1>2. CASE PushStarts
  BY <1>2 DEF PushStarts
<1>3. CASE PushWaits
  BY <1>3 DEF PushWaits
<1>4. CASE PushAccepted
  BY <1>4 DEF PushAccepted
<1>5. CASE PushTimesOut
  BY <1>5 DEF PushTimesOut
<1>6. CASE CountGenerated
  BY <1>6 DEF CountGenerated
<1>7. CASE CountDropped
  BY <1>7 DEF CountDropped
<1>8. CASE SensorEnds
  BY <1>8 DEF SensorEnds
<1>9. CASE TimedFlush
  BY <1>9 DEF TimedFlush, FlushSucceeds, FlushFails, GiveUp
<1>10. CASE CountFlushed
  BY <1>10 DEF CountFlushed
<1>11. CASE WaitForRecord
  BY <1>11, Waits DEF WaitForRecord
<1>12. CASE FindsEmpty
  BY <1>12 DEF FindsEmpty
<1>13. CASE ReadsClosed
  BY <1>13 DEF ReadsClosed
<1>14. CASE WaitEnds
  BY <1>14 DEF WaitEnds
<1>15. CASE PopFirst
  BY <1>15 DEF PopFirst
<1>16. CASE PopRest
  BY <1>16 DEF PopRest
<1>17. CASE AppendSucceeds
  BY <1>17 DEF AppendSucceeds
<1>18. CASE CountWritten
  BY <1>18 DEF CountWritten
<1>19. CASE CountCommitted
  BY <1>19 DEF CountCommitted
<1>20. CASE AppendFails
  BY <1>20 DEF AppendFails, GiveUp
<1>21. CASE ReportError
  BY <1>21 DEF ReportError
<1>22. CASE CloseBuffer
  BY <1>22 DEF CloseBuffer, Buffer!Close
<1>23. CASE LastFlush
  BY <1>23 DEF LastFlush, FlushSucceeds, FlushFails
<1>24. CASE StartThreads
  BY <1>24 DEF StartThreads
<1>25. CASE RequestStop
  BY <1>25 DEF RequestStop
<1>26. CASE JoinSensor
  BY <1>26 DEF JoinSensor, Buffer!Close
<1>27. CASE JoinWriter
  BY <1>27 DEF JoinWriter, FlushSucceeds, FlushFails
<1>28. CASE Tick
  BY <1>28 DEF Tick
<1>29. CASE UNCHANGED vars
  BY <1>29
<1> QED
  BY <1>1, <1>2, <1>3, <1>4, <1>5, <1>6, <1>7, <1>8, <1>9, <1>10, <1>11,
     <1>12, <1>13, <1>14, <1>15, <1>16, <1>17, <1>18, <1>19, <1>20, <1>21,
     <1>22, <1>23, <1>24, <1>25, <1>26, <1>27, <1>28, <1>29
     DEF Next, SensorStep, WriterStep, StopStep

(* Every count moves with the one it is compared with.                     *)
LEMMA LedgerKept == IInv /\ [Next]_vars => Ledger'
<1> SUFFICES ASSUME IInv, [Next]_vars PROVE Ledger'
  OBVIOUS
<1> USE RecorderAssumption DEF IInv, Numbers, Held, Failing, Ledger, Ending,
        Leaving, vars, buffer, flags, totals, clock, logWriter
<1>1. CASE Sample
  BY <1>1 DEF Sample
<1>2. CASE PushStarts
  BY <1>2 DEF PushStarts
<1>3. CASE PushWaits
  BY <1>3 DEF PushWaits
<1>4. CASE PushAccepted
  <2>1. /\ sent' = sent + 1 /\ Len(queue') = Len(queue) + 1 /\ writer' = writer
        /\ UNCHANGED <<flags, sequence, totals, batch, logWriter>>
    BY <1>4, Pushed DEF PushAccepted
  <2> QED
    BY <2>1
<1>5. CASE PushTimesOut
  BY <1>5 DEF PushTimesOut
<1>6. CASE CountGenerated
  BY <1>6 DEF CountGenerated
<1>7. CASE CountDropped
  BY <1>7 DEF CountDropped
<1>8. CASE SensorEnds
  BY <1>8 DEF SensorEnds
<1>9. CASE TimedFlush
  BY <1>9 DEF TimedFlush, FlushSucceeds, FlushFails, GiveUp
<1>10. CASE CountFlushed
  BY <1>10 DEF CountFlushed
<1>11. CASE WaitForRecord
  BY <1>11, Waits DEF WaitForRecord
<1>12. CASE FindsEmpty
  BY <1>12 DEF FindsEmpty
<1>13. CASE ReadsClosed
  BY <1>13 DEF ReadsClosed
<1>14. CASE WaitEnds
  BY <1>14 DEF WaitEnds
<1>15. CASE PopFirst
  BY <1>15, Popped DEF PopFirst
<1>16. CASE PopRest
  <2> DEFINE taken == Len(queue) - Len(queue')
  <2>1. /\ taken \in Nat /\ Len(queue') \in Nat /\ Len(queue) \in Nat
        /\ batch' = batch + taken /\ sequence' = sequence + taken /\ sent' = sent
    BY <1>16, RestTaken
  <2>2. /\ UNCHANGED <<written, committed, logged, safe, unsynced, failed, writerError>>
        /\ writer = "drain" /\ writer' = "append"
    BY <1>16 DEF PopRest
  <2>3. sent' = sequence' + Len(queue')
    BY <2>1
  <2> QED
    BY <2>1, <2>2, <2>3
<1>17. CASE AppendSucceeds
  BY <1>17 DEF AppendSucceeds
<1>18. CASE CountWritten
  BY <1>18 DEF CountWritten
<1>19. CASE CountCommitted
  BY <1>19 DEF CountCommitted
<1>20. CASE AppendFails
  BY <1>20 DEF AppendFails, GiveUp
<1>21. CASE ReportError
  BY <1>21 DEF ReportError
<1>22. CASE CloseBuffer
  BY <1>22 DEF CloseBuffer, Buffer!Close
<1>23. CASE LastFlush
  BY <1>23 DEF LastFlush, FlushSucceeds, FlushFails
<1>24. CASE StartThreads
  BY <1>24 DEF StartThreads
<1>25. CASE RequestStop
  BY <1>25 DEF RequestStop
<1>26. CASE JoinSensor
  BY <1>26 DEF JoinSensor, Buffer!Close
<1>27. CASE JoinWriter
  BY <1>27 DEF JoinWriter, FlushSucceeds, FlushFails
<1>28. CASE Tick
  BY <1>28, Ticked DEF Tick
<1>29. CASE UNCHANGED vars
  BY <1>29
<1> QED
  BY <1>1, <1>2, <1>3, <1>4, <1>5, <1>6, <1>7, <1>8, <1>9, <1>10, <1>11,
     <1>12, <1>13, <1>14, <1>15, <1>16, <1>17, <1>18, <1>19, <1>20, <1>21,
     <1>22, <1>23, <1>24, <1>25, <1>26, <1>27, <1>28, <1>29
     DEF Next, SensorStep, WriterStep, StopStep

(* The threads start together and the writer thread ends with a flush.     *)
LEMMA EndingKept == IInv /\ [Next]_vars => Ending'
<1> SUFFICES ASSUME IInv, [Next]_vars PROVE Ending'
  OBVIOUS
<1> USE RecorderAssumption DEF IInv, Numbers, Places, Held, Failing, Ledger,
        Ending, Leaving, vars, buffer, flags, totals, clock, logWriter
<1>1. CASE Sample
  BY <1>1 DEF Sample
<1>2. CASE PushStarts
  BY <1>2 DEF PushStarts
<1>3. CASE PushWaits
  BY <1>3 DEF PushWaits
<1>4. CASE PushAccepted
  BY <1>4, Pushed DEF PushAccepted
<1>5. CASE PushTimesOut
  BY <1>5 DEF PushTimesOut
<1>6. CASE CountGenerated
  BY <1>6 DEF CountGenerated
<1>7. CASE CountDropped
  BY <1>7 DEF CountDropped
<1>8. CASE SensorEnds
  BY <1>8 DEF SensorEnds
<1>9. CASE TimedFlush
  BY <1>9 DEF TimedFlush, FlushSucceeds, FlushFails, GiveUp
<1>10. CASE CountFlushed
  BY <1>10 DEF CountFlushed
<1>11. CASE WaitForRecord
  BY <1>11, Waits DEF WaitForRecord
<1>12. CASE FindsEmpty
  BY <1>12 DEF FindsEmpty
<1>13. CASE ReadsClosed
  BY <1>13 DEF ReadsClosed
<1>14. CASE WaitEnds
  BY <1>14 DEF WaitEnds
<1>15. CASE PopFirst
  BY <1>15, Popped DEF PopFirst
<1>16. CASE PopRest
  BY <1>16, RestTaken DEF PopRest
<1>17. CASE AppendSucceeds
  BY <1>17 DEF AppendSucceeds
<1>18. CASE CountWritten
  BY <1>18 DEF CountWritten
<1>19. CASE CountCommitted
  BY <1>19 DEF CountCommitted
<1>20. CASE AppendFails
  BY <1>20 DEF AppendFails, GiveUp
<1>21. CASE ReportError
  BY <1>21 DEF ReportError
<1>22. CASE CloseBuffer
  BY <1>22 DEF CloseBuffer, Buffer!Close
<1>23. CASE LastFlush
  BY <1>23 DEF LastFlush, FlushSucceeds, FlushFails
<1>24. CASE StartThreads
  BY <1>24 DEF StartThreads
<1>25. CASE RequestStop
  BY <1>25 DEF RequestStop
<1>26. CASE JoinSensor
  BY <1>26 DEF JoinSensor, Buffer!Close
<1>27. CASE JoinWriter
  BY <1>27 DEF JoinWriter, FlushSucceeds, FlushFails
<1>28. CASE Tick
  BY <1>28, Ticked DEF Tick
<1>29. CASE UNCHANGED vars
  BY <1>29
<1> QED
  BY <1>1, <1>2, <1>3, <1>4, <1>5, <1>6, <1>7, <1>8, <1>9, <1>10, <1>11,
     <1>12, <1>13, <1>14, <1>15, <1>16, <1>17, <1>18, <1>19, <1>20, <1>21,
     <1>22, <1>23, <1>24, <1>25, <1>26, <1>27, <1>28, <1>29
     DEF Next, SensorStep, WriterStep, StopStep

(* The overflow status goes from the recorder to a sample and back.        *)
LEMMA ReportingKept == IInv /\ [Next]_vars => Reporting'
<1> SUFFICES ASSUME IInv, [Next]_vars PROVE Reporting'
  OBVIOUS
<1> USE RecorderAssumption DEF IInv, Places, Booleans, Reporting, Ending,
        DropsReported, vars, buffer, flags, totals, clock, logWriter
<1>1. CASE Sample
  BY <1>1 DEF Sample
<1>2. CASE PushStarts
  BY <1>2 DEF PushStarts
<1>3. CASE PushWaits
  BY <1>3 DEF PushWaits
<1>4. CASE PushAccepted
  BY <1>4 DEF PushAccepted
<1>5. CASE PushTimesOut
  BY <1>5 DEF PushTimesOut
<1>6. CASE CountGenerated
  BY <1>6 DEF CountGenerated
<1>7. CASE CountDropped
  BY <1>7 DEF CountDropped
<1>8. CASE SensorEnds
  BY <1>8 DEF SensorEnds
<1>9. CASE TimedFlush
  BY <1>9 DEF TimedFlush, FlushSucceeds, FlushFails, GiveUp
<1>10. CASE CountFlushed
  BY <1>10 DEF CountFlushed
<1>11. CASE WaitForRecord
  BY <1>11, Waits DEF WaitForRecord
<1>12. CASE FindsEmpty
  BY <1>12 DEF FindsEmpty
<1>13. CASE ReadsClosed
  BY <1>13 DEF ReadsClosed
<1>14. CASE WaitEnds
  BY <1>14 DEF WaitEnds
<1>15. CASE PopFirst
  BY <1>15 DEF PopFirst
<1>16. CASE PopRest
  BY <1>16 DEF PopRest
<1>17. CASE AppendSucceeds
  BY <1>17 DEF AppendSucceeds
<1>18. CASE CountWritten
  BY <1>18 DEF CountWritten
<1>19. CASE CountCommitted
  BY <1>19 DEF CountCommitted
<1>20. CASE AppendFails
  BY <1>20 DEF AppendFails, GiveUp
<1>21. CASE ReportError
  BY <1>21 DEF ReportError
<1>22. CASE CloseBuffer
  BY <1>22 DEF CloseBuffer, Buffer!Close
<1>23. CASE LastFlush
  BY <1>23 DEF LastFlush, FlushSucceeds, FlushFails
<1>24. CASE StartThreads
  BY <1>24 DEF StartThreads
<1>25. CASE RequestStop
  BY <1>25 DEF RequestStop
<1>26. CASE JoinSensor
  BY <1>26 DEF JoinSensor, Buffer!Close
<1>27. CASE JoinWriter
  BY <1>27 DEF JoinWriter, FlushSucceeds, FlushFails
<1>28. CASE Tick
  BY <1>28 DEF Tick
<1>29. CASE UNCHANGED vars
  BY <1>29
<1> QED
  BY <1>1, <1>2, <1>3, <1>4, <1>5, <1>6, <1>7, <1>8, <1>9, <1>10, <1>11,
     <1>12, <1>13, <1>14, <1>15, <1>16, <1>17, <1>18, <1>19, <1>20, <1>21,
     <1>22, <1>23, <1>24, <1>25, <1>26, <1>27, <1>28, <1>29
     DEF Next, SensorStep, WriterStep, StopStep

(* The deadline is set with the first pending batch and follows its age.   *)
LEMMA DeadlineKept == IInv /\ [Next]_vars => Deadline'
<1> SUFFICES ASSUME IInv, [Next]_vars PROVE Deadline'
  OBVIOUS
<1> USE RecorderAssumption DEF IInv, Numbers, Held, Failing, Ledger, Deadline,
        Ending, Leaving, vars, buffer, flags, totals, clock, logWriter
<1>1. CASE Sample
  BY <1>1 DEF Sample
<1>2. CASE PushStarts
  BY <1>2 DEF PushStarts
<1>3. CASE PushWaits
  BY <1>3 DEF PushWaits
<1>4. CASE PushAccepted
  BY <1>4, Pushed DEF PushAccepted
<1>5. CASE PushTimesOut
  BY <1>5 DEF PushTimesOut
<1>6. CASE CountGenerated
  BY <1>6 DEF CountGenerated
<1>7. CASE CountDropped
  BY <1>7 DEF CountDropped
<1>8. CASE SensorEnds
  BY <1>8 DEF SensorEnds
<1>9. CASE TimedFlush
  BY <1>9 DEF TimedFlush, FlushSucceeds, FlushFails, GiveUp
<1>10. CASE CountFlushed
  BY <1>10 DEF CountFlushed
<1>11. CASE WaitForRecord
  BY <1>11, Waits DEF WaitForRecord
<1>12. CASE FindsEmpty
  BY <1>12 DEF FindsEmpty
<1>13. CASE ReadsClosed
  BY <1>13 DEF ReadsClosed
<1>14. CASE WaitEnds
  BY <1>14 DEF WaitEnds
<1>15. CASE PopFirst
  BY <1>15, Popped DEF PopFirst
<1>16. CASE PopRest
  BY <1>16, RestTaken DEF PopRest
<1>17. CASE AppendSucceeds
  BY <1>17 DEF AppendSucceeds
<1>18. CASE CountWritten
  BY <1>18 DEF CountWritten
<1>19. CASE CountCommitted
  BY <1>19 DEF CountCommitted
<1>20. CASE AppendFails
  BY <1>20 DEF AppendFails, GiveUp
<1>21. CASE ReportError
  BY <1>21 DEF ReportError
<1>22. CASE CloseBuffer
  BY <1>22 DEF CloseBuffer, Buffer!Close
<1>23. CASE LastFlush
  BY <1>23 DEF LastFlush, FlushSucceeds, FlushFails
<1>24. CASE StartThreads
  BY <1>24 DEF StartThreads
<1>25. CASE RequestStop
  BY <1>25 DEF RequestStop
<1>26. CASE JoinSensor
  BY <1>26 DEF JoinSensor, Buffer!Close
<1>27. CASE JoinWriter
  BY <1>27 DEF JoinWriter, FlushSucceeds, FlushFails
<1>28. CASE Tick
  BY <1>28, Ticked DEF Tick
<1>29. CASE UNCHANGED vars
  BY <1>29
<1> QED
  BY <1>1, <1>2, <1>3, <1>4, <1>5, <1>6, <1>7, <1>8, <1>9, <1>10, <1>11,
     <1>12, <1>13, <1>14, <1>15, <1>16, <1>17, <1>18, <1>19, <1>20, <1>21,
     <1>22, <1>23, <1>24, <1>25, <1>26, <1>27, <1>28, <1>29
     DEF Next, SensorStep, WriterStep, StopStep

(* A wait is no longer than to the deadline, and both pass together.       *)
LEMMA PatienceKept == IInv /\ [Next]_vars => Patience'
<1> SUFFICES ASSUME IInv, [Next]_vars PROVE Patience'
  OBVIOUS
<1> USE RecorderAssumption DEF IInv, Numbers, Held, Failing, Ledger, Deadline, Patience,
        Ending, Leaving, vars, buffer, flags, totals, clock, logWriter
<1>1. CASE Sample
  BY <1>1 DEF Sample
<1>2. CASE PushStarts
  BY <1>2 DEF PushStarts
<1>3. CASE PushWaits
  BY <1>3 DEF PushWaits
<1>4. CASE PushAccepted
  BY <1>4, Pushed DEF PushAccepted
<1>5. CASE PushTimesOut
  BY <1>5 DEF PushTimesOut
<1>6. CASE CountGenerated
  BY <1>6 DEF CountGenerated
<1>7. CASE CountDropped
  BY <1>7 DEF CountDropped
<1>8. CASE SensorEnds
  BY <1>8 DEF SensorEnds
<1>9. CASE TimedFlush
  BY <1>9 DEF TimedFlush, FlushSucceeds, FlushFails, GiveUp
<1>10. CASE CountFlushed
  BY <1>10 DEF CountFlushed
<1>11. CASE WaitForRecord
  BY <1>11, Waits DEF WaitForRecord
<1>12. CASE FindsEmpty
  BY <1>12 DEF FindsEmpty
<1>13. CASE ReadsClosed
  BY <1>13 DEF ReadsClosed
<1>14. CASE WaitEnds
  BY <1>14 DEF WaitEnds
<1>15. CASE PopFirst
  BY <1>15, Popped DEF PopFirst
<1>16. CASE PopRest
  BY <1>16, RestTaken DEF PopRest
<1>17. CASE AppendSucceeds
  BY <1>17 DEF AppendSucceeds
<1>18. CASE CountWritten
  BY <1>18 DEF CountWritten
<1>19. CASE CountCommitted
  BY <1>19 DEF CountCommitted
<1>20. CASE AppendFails
  BY <1>20 DEF AppendFails, GiveUp
<1>21. CASE ReportError
  BY <1>21 DEF ReportError
<1>22. CASE CloseBuffer
  BY <1>22 DEF CloseBuffer, Buffer!Close
<1>23. CASE LastFlush
  BY <1>23 DEF LastFlush, FlushSucceeds, FlushFails
<1>24. CASE StartThreads
  BY <1>24 DEF StartThreads
<1>25. CASE RequestStop
  BY <1>25 DEF RequestStop
<1>26. CASE JoinSensor
  BY <1>26 DEF JoinSensor, Buffer!Close
<1>27. CASE JoinWriter
  BY <1>27 DEF JoinWriter, FlushSucceeds, FlushFails
<1>28. CASE Tick
  BY <1>28, Ticked DEF Tick
<1>29. CASE UNCHANGED vars
  BY <1>29
<1> QED
  BY <1>1, <1>2, <1>3, <1>4, <1>5, <1>6, <1>7, <1>8, <1>9, <1>10, <1>11,
     <1>12, <1>13, <1>14, <1>15, <1>16, <1>17, <1>18, <1>19, <1>20, <1>21,
     <1>22, <1>23, <1>24, <1>25, <1>26, <1>27, <1>28, <1>29
     DEF Next, SensorStep, WriterStep, StopStep

-----------------------------------------------------------------------------
(* Nothing is running, held, written or pending at first.                  *)
LEMMA InitInv == Init => IInv
<1> SUFFICES ASSUME Init PROVE IInv
  OBVIOUS
<1> USE DEF Init, Buffer!Init
<1>1. Numbers
  BY RecorderAssumption DEF Numbers
<1>2. Places /\ Booleans
  BY DEF Places, Booleans
<1>3. Held /\ Failing /\ Ending
  BY DEF Held, Failing, Ending
<1>4. Ledger
  BY DEF Ledger
<1>5. Reporting
  BY DEF Reporting, DropsReported
<1>6. Deadline /\ Patience
  BY DEF Deadline, Patience
<1> QED
  BY <1>1, <1>2, <1>3, <1>4, <1>5, <1>6 DEF IInv

(* Every step of every thread keeps the whole invariant.                   *)
LEMMA IInvStep == IInv /\ [Next]_vars => IInv'
  BY NumbersKept, PlacesKept, BooleansKept, HeldKept, FailingKept, LedgerKept, EndingKept,
     ReportingKept, DeadlineKept, PatienceKept DEF IInv

(* The invariant holds in every state of every run.                        *)
THEOREM Invariance == Spec => []IInv
  BY InitInv, IInvStep, PTL DEF Spec

(* Every variable keeps its type, for every buffer, batch, group and       *)
(* interval.                                                               *)
THEOREM Typing == Spec => []TypeOK
<1>1. IInv => TypeOK
  BY DEF IInv, Numbers, Places, Booleans, TypeOK
<1> QED
  BY Invariance, <1>1, PTL

(* The totals of RecorderStats tell of no commit that did not happen, and  *)
(* of no record twice.                                                     *)
THEOREM TotalsHold == Spec => []TotalsSound
<1>1. IInv => TotalsSound
  BY DEF IInv, Numbers, Booleans, Held, Failing, Ledger, TotalsSound
<1> QED
  BY Invariance, <1>1, PTL

(* A dropped sample is reported by the next record that is accepted.       *)
THEOREM Drops == Spec => []DropsReported
<1>1. IInv => DropsReported
  BY DEF IInv, Reporting
<1> QED
  BY Invariance, <1>1, PTL

(* The commit deadline always belongs to the oldest uncommitted batch.     *)
THEOREM DeadlineOfOldest == Spec => []DeadlineFollowsOldest
<1>1. IInv => DeadlineFollowsOldest
  BY DEF IInv, Numbers, Booleans, Failing, Ledger, Deadline, Leaving, DeadlineFollowsOldest
<1> QED
  BY Invariance, <1>1, PTL

(* The writer thread never sleeps past the deadline of the oldest          *)
(* uncommitted batch.                                                      *)
THEOREM WakesInTime == Spec => []WakesForDeadline
<1>1. IInv => WakesForDeadline
  BY DEF IInv, Numbers, Booleans, Failing, Ledger, Deadline, Patience, Leaving,
         WakesForDeadline
<1> QED
  BY Invariance, <1>1, PTL

=============================================================================

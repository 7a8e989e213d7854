------------------------ MODULE RecorderStatusProofs ------------------------
(***************************************************************************)
(* Proofs about the status the main thread shows: for every buffer, batch, *)
(* group and interval, and however the threads move while the fields are   *)
(* loaded, what is shown as committed is durable.                          *)
(***************************************************************************)
EXTENDS RecorderStatus, FlightRecorderProofs

(* With the status calls the recorder still does what it does without.     *)
LEMMA StatusKeepsSpec == StatusSpec => Spec
<1>1. StatusInit => Init
  BY DEF StatusInit
<1>2. [StatusNext]_<<vars, statusVars>> => [Next]_vars
  BY DEF StatusNext, CallStats, LoadField, Run, statusVars
<1> QED
  BY <1>1, <1>2, PTL DEF StatusSpec, Spec

(* The fields of RecorderStats that count, and all of them.                *)
Counters == {"generated", "written", "committed", "dropped"}
Names == Counters \cup {"error"}

(* The fields of the call under way that are still to be loaded.           *)
Remaining == {loading[i] : i \in 1 .. Len(loading)}

(* The snapshot has its fields; after stop() nothing moves any more, so    *)
(* that what was loaded stays what the recorder counts.                    *)
Loaded ==
  /\ loading \in Seq(Names)
  /\ snapshot = [f \in Names |-> snapshot[f]] /\ \A f \in Counters : snapshot[f] \in Nat
  /\ final \in BOOLEAN /\ (final => main = "stopped")
  /\ main \in {"joinWriter", "stopped"} => sensor = "ended"
  /\ final => \A f \in Names \ Remaining : snapshot[f] = Totals[f]

(* The inductive invariant.                                                *)
SInv == IInv /\ Loaded /\ ShownIsDurable

(* The writer's counts never fall.                                         *)
LEMMA CountsGrow ==
  ASSUME IInv, [Next]_vars
  PROVE  safe' >= safe /\ logged' >= logged
<1> USE RecorderAssumption DEF IInv, Numbers, Ledger, Held, Failing, Leaving, vars, logWriter
<1>1. CASE SensorStep \/ StartThreads \/ RequestStop \/ JoinSensor \/ Tick \/ UNCHANGED vars
  BY <1>1 DEF SensorStep, Sample, PushStarts, PushWaits, PushAccepted, PushTimesOut,
     CountGenerated, CountDropped, SensorEnds, StartThreads, RequestStop, JoinSensor, Tick
<1>2. CASE TimedFlush \/ LastFlush \/ JoinWriter
  BY <1>2 DEF TimedFlush, LastFlush, JoinWriter, FlushSucceeds, FlushFails
<1>3. CASE WaitForRecord \/ FindsEmpty \/ ReadsClosed \/ WaitEnds \/ PopFirst \/ PopRest
  BY <1>3 DEF WaitForRecord, FindsEmpty, ReadsClosed, WaitEnds, PopFirst, PopRest
<1>4. CASE CountFlushed \/ CountWritten \/ CountCommitted \/ ReportError \/ CloseBuffer
  BY <1>4 DEF CountFlushed, CountWritten, CountCommitted, ReportError, CloseBuffer
<1>5. CASE AppendSucceeds
  BY <1>5 DEF AppendSucceeds
<1>6. CASE AppendFails
  BY <1>6 DEF AppendFails
<1> QED
  BY <1>1, <1>2, <1>3, <1>4, <1>5, <1>6 DEF Next, WriterStep, StopStep

(* Once the recorder stopped, none of its threads moves a total.           *)
LEMMA StoppedStays ==
  ASSUME IInv, [Next]_vars, main = "stopped", sensor = "ended"
  PROVE  UNCHANGED <<main, sensor, generated, written, committed, dropped, writerError>>
<1>1. writer = "ended"
  BY DEF IInv, Ending
<1>2. ~SensorStep /\ ~WriterStep
  BY <1>1 DEF SensorStep, WriterStep, Sample, PushStarts, PushWaits, PushAccepted,
     PushTimesOut, CountGenerated, CountDropped, SensorEnds, TimedFlush, CountFlushed,
     WaitForRecord, FindsEmpty, ReadsClosed, WaitEnds, PopFirst, PopRest, AppendSucceeds,
     CountWritten, CountCommitted, AppendFails, ReportError, CloseBuffer, LastFlush
<1>3. ~StartThreads /\ ~RequestStop /\ ~StopStep
  BY DEF StartThreads, RequestStop, StopStep, JoinSensor, JoinWriter
<1>4. Tick \/ UNCHANGED vars
  BY <1>2, <1>3 DEF Next
<1> QED
  BY <1>4 DEF Tick, vars, totals, flags

(* stop() joins the sensor thread before the writer thread.                *)
LEMMA SensorJoined ==
  ASSUME IInv, [Next]_vars, main \in {"joinWriter", "stopped"} => sensor = "ended",
         main' \in {"joinWriter", "stopped"}
  PROVE  sensor' = "ended"
<1>1. CASE SensorStep
  BY <1>1 DEF SensorStep, Sample, PushStarts, PushWaits, PushAccepted, PushTimesOut,
     CountGenerated, CountDropped, SensorEnds
<1>2. CASE WriterStep
  BY <1>2 DEF WriterStep, TimedFlush, CountFlushed, WaitForRecord, FindsEmpty,
     ReadsClosed, WaitEnds, PopFirst, PopRest, AppendSucceeds, CountWritten,
     CountCommitted, AppendFails, ReportError, CloseBuffer, LastFlush
<1>3. CASE StartThreads \/ RequestStop \/ StopStep \/ Tick \/ UNCHANGED vars
  BY <1>3 DEF StartThreads, RequestStop, StopStep, JoinSensor, JoinWriter, Tick, vars
<1> QED
  BY <1>1, <1>2, <1>3 DEF Next

-----------------------------------------------------------------------------
(* Nothing is shown at first.                                              *)
LEMMA StatusStarts == StatusInit => SInv
<1> SUFFICES ASSUME StatusInit PROVE SInv
  OBVIOUS
<1>1. IInv
  BY InitInv DEF StatusInit
<1>2. Loaded
  <2>1. loading \in Seq(Names) /\ final = FALSE /\ main = "off"
    BY DEF StatusInit, Init
  <2>2. snapshot = Zeros
    BY DEF StatusInit
  <2>3. DOMAIN Zeros = Names /\ \A f \in Counters : Zeros[f] = 0
    BY DEF Zeros, Names, Counters
  <2>4. Zeros = [f \in Names |-> Zeros[f]]
    BY DEF Zeros, Names, Counters
  <2>5. snapshot = [f \in Names |-> snapshot[f]]
    BY <2>2, <2>4
  <2>6. \A f \in Counters : snapshot[f] \in Nat
    BY <2>2, <2>3
  <2> QED
    BY <2>1, <2>5, <2>6 DEF Loaded
<1>3. ShownIsDurable
  BY DEF StatusInit, Init, ShownIsDurable, Zeros
<1> QED
  BY <1>1, <1>2, <1>3 DEF SInv

(* Each step of a call, and each of the recorder, keeps what is shown      *)
(* true.                                                                   *)
LEMMA StatusSteps == SInv /\ [StatusNext]_<<vars, statusVars>> => SInv'
<1> SUFFICES ASSUME SInv, [StatusNext]_<<vars, statusVars>> PROVE SInv'
  OBVIOUS
<1>1. [Next]_vars
  BY DEF StatusNext, CallStats, LoadField, Run, statusVars
<1>2. IInv'
  BY <1>1, IInvStep DEF SInv
<1>3. CASE CallStats
  <2>1. UNCHANGED vars /\ loading' = Fields /\ snapshot' = Zeros
        /\ final' = (main = "stopped")
    BY <1>3 DEF CallStats
  <2>2. loading' \in Seq(Names)
    BY <2>1 DEF Fields, Names, Counters
  <2>3. Names \ Remaining' = {}
    <3>1. loading' = <<"generated", "written", "committed", "dropped", "error">>
      BY <2>1 DEF Fields
    <3>2. /\ 1 \in 1 .. Len(loading') /\ 2 \in 1 .. Len(loading') /\ 3 \in 1 .. Len(loading')
          /\ 4 \in 1 .. Len(loading') /\ 5 \in 1 .. Len(loading')
      BY <3>1
    <3>3. /\ loading'[1] = "generated" /\ loading'[2] = "written"
          /\ loading'[3] = "committed" /\ loading'[4] = "dropped" /\ loading'[5] = "error"
      BY <3>1
    <3> QED
      BY <3>2, <3>3 DEF Remaining, Names, Counters
  <2>4. Loaded'
    <3>1. /\ snapshot' = [f \in Names |-> snapshot'[f]]
          /\ \A f \in Counters : snapshot'[f] \in Nat
      BY <2>1 DEF Zeros, Names, Counters
    <3> QED
      BY <2>1, <2>2, <2>3, <3>1 DEF SInv, Loaded, vars
  <2>5. ShownIsDurable'
    BY <2>1 DEF SInv, IInv, Numbers, ShownIsDurable, Zeros, vars, logWriter
  <2> QED
    BY <1>2, <2>4, <2>5 DEF SInv
<1>4. CASE LoadField
  <2> DEFINE field == Head(loading)
             now == [snapshot EXCEPT ![field] = Totals[field]]
  <2>1. /\ UNCHANGED vars /\ loading # <<>> /\ loading' = Tail(loading) /\ final' = final
        /\ snapshot' = IF Len(loading) = 1 /\ ~final THEN Zeros ELSE now
    BY <1>4 DEF LoadField
  <2>2. loading \in Seq(Names) /\ field \in Names /\ loading' \in Seq(Names)
    BY <2>1 DEF SInv, Loaded
  <2>3. /\ now = [f \in Names |-> now[f]]
        /\ now[field] = Totals[field]
        /\ \A f \in Names \ {field} : now[f] = snapshot[f]
    BY <2>2 DEF SInv, Loaded
  <2>4. \A f \in Counters : Totals[f] \in Nat
    BY DEF SInv, IInv, Numbers, Totals, Counters
  <2>5. Zeros = [f \in Names |-> Zeros[f]] /\ \A f \in Counters : Zeros[f] = 0
    BY DEF Zeros, Names, Counters
  <2>6. \A f \in Counters : now[f] \in Nat
    BY <2>3, <2>4 DEF SInv, Loaded, Names
  <2>7. Totals' = Totals
    BY <2>1 DEF Totals, vars, totals, flags
  <2>8. Loaded'
    <3>1. /\ snapshot' = [f \in Names |-> snapshot'[f]]
          /\ \A f \in Counters : snapshot'[f] \in Nat
      BY <2>1, <2>3, <2>5, <2>6
    <3>2. ASSUME final' PROVE \A f \in Names \ Remaining' : snapshot'[f] = Totals'[f]
      <4> SUFFICES ASSUME NEW f \in Names, f \notin Remaining' PROVE now[f] = Totals[f]
        BY <2>1, <2>7, <3>2
      <4>1. CASE f = field
        BY <4>1, <2>3
      <4>2. CASE f # field
        <5>1. f \notin Remaining
          <6> SUFFICES ASSUME NEW i \in 1 .. Len(loading), loading[i] = f PROVE FALSE
            BY DEF Remaining
          <6>1. i # 1
            BY <4>2, <2>2
          <6>2. i - 1 \in 1 .. Len(loading') /\ loading'[i - 1] = f
            BY <2>1, <2>2, <6>1
          <6> QED
            BY <6>2 DEF Remaining
        <5> QED
          BY <4>2, <5>1, <2>1, <2>3, <3>2 DEF SInv, Loaded
      <4> QED
        BY <4>1, <4>2
    <3> QED
      BY <2>1, <2>2, <3>1, <3>2 DEF SInv, Loaded, vars
  <2>9. ShownIsDurable'
    <3>1. /\ snapshot.committed <= safe /\ snapshot.written <= logged
          /\ Totals.committed <= safe /\ Totals.written <= logged
          /\ safe \in Nat /\ logged \in Nat
      BY DEF SInv, ShownIsDurable, IInv, Numbers, Ledger, Totals
    <3>2. now.committed <= safe /\ now.written <= logged
      BY <2>3, <3>1 DEF Names, Counters
    <3>3. Zeros.committed <= safe /\ Zeros.written <= logged
      BY <3>1 DEF Zeros
    <3> QED
      BY <2>1, <3>2, <3>3 DEF ShownIsDurable, vars, logWriter
  <2> QED
    BY <1>2, <2>8, <2>9 DEF SInv
<1>5. CASE Run \/ UNCHANGED <<vars, statusVars>>
  <2>1. UNCHANGED statusVars
    BY <1>5 DEF Run
  <2>2. Loaded'
    <3>1. main' \in {"joinWriter", "stopped"} => sensor' = "ended"
      BY <1>1, SensorJoined DEF SInv, Loaded
    <3>2. CASE final
      <4>1. UNCHANGED <<main, sensor, generated, written, committed, dropped, writerError>>
        BY <1>1, <3>2, StoppedStays DEF SInv, Loaded
      <4>2. Totals' = Totals
        BY <4>1 DEF Totals
      <4> QED
        BY <2>1, <3>2, <4>1, <4>2 DEF SInv, Loaded, statusVars, Remaining
    <3>3. CASE ~final
      BY <2>1, <3>1, <3>3 DEF SInv, Loaded, statusVars
    <3> QED
      BY <3>2, <3>3
  <2>3. ShownIsDurable'
    <3>1. safe' >= safe /\ logged' >= logged
      BY <1>1, CountsGrow DEF SInv
    <3>2. /\ safe \in Nat /\ logged \in Nat /\ safe' \in Nat /\ logged' \in Nat
          /\ snapshot.committed \in Nat /\ snapshot.written \in Nat
      BY <1>2 DEF SInv, IInv, Numbers, Loaded, Counters
    <3> QED
      BY <2>1, <3>1, <3>2 DEF SInv, ShownIsDurable, statusVars
  <2> QED
    BY <1>2, <2>2, <2>3 DEF SInv
<1> QED
  BY <1>3, <1>4, <1>5 DEF StatusNext

(* The invariant holds in every state of every run with status calls.      *)
THEOREM StatusInvariance == StatusSpec => []SInv
  BY StatusStarts, StatusSteps, PTL DEF StatusSpec

(* No call of stats() ever shows a record as committed that no checkpoint  *)
(* covers, whatever moved while its fields were loaded.                    *)
THEOREM ShownDurable == StatusSpec => []ShownIsDurable
<1>1. SInv => ShownIsDurable
  BY DEF SInv
<1> QED
  BY StatusInvariance, <1>1, PTL

(* The report after stop() is exact; it shows an error exactly if the log  *)
(* failed, and otherwise the whole log as committed, which it is.          *)
THEOREM FinalExact == StatusSpec => []FinalIsExact
<1>1. SInv => FinalIsExact
  <2> SUFFICES ASSUME SInv, final, loading = <<>>
               PROVE  /\ snapshot = Totals
                      /\ snapshot.error <=> failed
                      /\ ~snapshot.error =>
                           snapshot.committed = snapshot.written /\ safe = logged
    BY DEF FinalIsExact
  <2>1. Remaining = {}
    BY DEF Remaining
  <2>2. /\ snapshot = [f \in Names |-> snapshot[f]]
        /\ \A f \in Names : snapshot[f] = Totals[f]
    BY <2>1 DEF SInv, Loaded
  <2>3. Totals = [f \in Names |-> Totals[f]]
    BY DEF Totals, Names, Counters
  <2>4. snapshot.error = writerError /\ snapshot.committed = committed
        /\ snapshot.written = written
    BY <2>2 DEF Names, Counters, Totals
  <2>5. writer = "ended" /\ (failed <=> writerError)
    BY DEF SInv, Loaded, IInv, Ending, Failing
  <2>6. ~failed => committed = written /\ safe = logged
    BY <2>5 DEF SInv, IInv, Ending, Ledger
  <2>7. snapshot = Totals
    BY <2>2, <2>3
  <2> QED
    BY <2>4, <2>5, <2>6, <2>7
<1> QED
  BY StatusInvariance, <1>1, PTL

=============================================================================

--------------------------- MODULE RecorderStatus ---------------------------
(***************************************************************************)
(* FlightRecorder::stats() as the main thread of main.cpp calls it, in its *)
(* loop and once more after stop(): the totals are loaded one by one while *)
(* the sensor and the writer thread move them.                             *)
(***************************************************************************)
EXTENDS FlightRecorder

VARIABLES
  loading,      \* the fields of the call under way still to be loaded
  snapshot,     \* the RecorderStats it fills
  final         \* it is the call after stop()

statusVars == <<loading, snapshot, final>>

Fields == <<"generated", "written", "committed", "dropped", "error">>

Zeros == [generated |-> 0, written |-> 0, committed |-> 0, dropped |-> 0,
          error |-> FALSE]

Totals == [generated |-> generated, written |-> written, committed |-> committed,
           dropped |-> dropped, error |-> writerError]

StatusInit ==
  /\ Init
  /\ loading = <<>> /\ final = FALSE
  /\ snapshot = Zeros

(* Any number of times while the recorder runs, once when it stopped.      *)
CallStats ==
  /\ loading = <<>> /\ ~final
  /\ main \in {"running", "stopped"}
  /\ final' = (main = "stopped")
  /\ loading' = Fields /\ snapshot' = Zeros
  /\ UNCHANGED vars

(* LoadField of a code that shows what was written as committed.           *)
LoadWrittenTwice ==
  /\ loading # <<>>
  /\ snapshot' = [snapshot EXCEPT ![Head(loading)] =
       IF Head(loading) = "committed" THEN written ELSE Totals[Head(loading)]]
  /\ loading' = Tail(loading)
  /\ UNCHANGED <<vars, final>>

(* The loop prints what it was given and forgets it.                       *)
LoadField ==
  /\ loading # <<>>
  /\ LET now == [snapshot EXCEPT ![Head(loading)] = Totals[Head(loading)]]
     IN snapshot' = IF Len(loading) = 1 /\ ~final THEN Zeros ELSE now
  /\ loading' = Tail(loading)
  /\ UNCHANGED <<vars, final>>

(* The main thread does nothing else during the call.                      *)
Run ==
  /\ Next
  /\ main' # main => loading = <<>>
  /\ UNCHANGED statusVars

StatusNext == CallStats \/ LoadField \/ Run

StatusSpec ==
  /\ StatusInit /\ [][StatusNext]_<<vars, statusVars>>
  /\ Fairness /\ WF_statusVars(LoadField)

-----------------------------------------------------------------------------
(* Properties                                                              *)

(* "committed" is never shown for a record that no checkpoint covers, and  *)
(* "written" for none that is not in the log, whatever moved while the     *)
(* fields were loaded.                                                     *)
ShownIsDurable ==
  snapshot.committed <= safe /\ snapshot.written <= logged

(* The call after stop() is exact, and it shows an error if and only if    *)
(* the log failed, however late: the program's exit status rests on it.    *)
(* Without an error all that was written is shown as committed, and is.    *)
FinalIsExact ==
  final /\ loading = <<>> =>
    /\ snapshot = Totals
    /\ snapshot.error <=> failed
    /\ ~snapshot.error => snapshot.committed = snapshot.written /\ safe = logged

=============================================================================

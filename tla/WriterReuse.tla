---------------------------- MODULE WriterReuse ----------------------------
(***************************************************************************)
(* A BinaryLogWriter object that outlives close(): open() may be called    *)
(* again, by the caller or by append_batch(), after a close or after an    *)
(* open() that failed.  RecorderStore lets the process leave instead.  The *)
(* object's members are not reset: failed_ and unsynced_batches_ keep      *)
(* their values, and open() sets the others again from the files as far as *)
(* it gets.                                                                *)
(*                                                                         *)
(* pc = "idle": the process runs and the writer has no file open.  An      *)
(* open() counts as a session of its own, so that MaxSessions bounds them. *)
(***************************************************************************)
EXTENDS RecorderStore

(* close().  What it commits first is a flush() whose result it ignores.   *)
CloseKeeps ==
  /\ pc = "ready"
  /\ unsynced = 0 \/ failed
  /\ pc' = "idle"
  /\ created' = FALSE
  /\ UNCHANGED <<diskVars, caller, writerState, history, scanned, sequence>>

(* An error return of open().                                              *)
OpenFailsKeeps ==
  /\ \/ pc \in {"closed", "header", "headerSync", "openJournal", "load", "dirSync"}
     \/ pc \in {"ckptWrite", "ckptResize", "ckptSync"} /\ caller = "open"
  /\ pc' = "idle"
  /\ failed' = TRUE
  /\ created' = FALSE
  /\ UNCHANGED <<diskVars, caller, batch, written, count, lastSeq, unsynced, gen,
                 active, history, scanned, sequence>>

Reopen ==
  /\ pc = "idle"
  /\ session < MaxSessions
  /\ session' = session + 1
  /\ pc' = "closed"
  /\ UNCHANGED <<diskVars, caller, writerState, created, acked, scanned, sequence>>

ReuseNext == Next \/ CloseKeeps \/ OpenFailsKeeps \/ Reopen

ReuseSpec == Init /\ [][ReuseNext]_vars

-----------------------------------------------------------------------------
(* Properties, besides those of RecorderStore                              *)

(* A writer that failed once acknowledges nothing more, however often it   *)
(* is opened again: files made by an open() that could not synchronize the *)
(* directory look old to the next one, which does not try again.           *)
FailedAcknowledgesNothing ==
  [][failed => acked' = acked]_vars

=============================================================================

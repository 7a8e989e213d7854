----------------------------- MODULE DurableLog -----------------------------
(***************************************************************************)
(* What a recorder promises about its records, whatever happens to the     *)
(* process and the machine: a record that was acknowledged stays where it  *)
(* is for ever, and of the records written after the last acknowledgement  *)
(* a failure can only take some from the end.                              *)
(***************************************************************************)
EXTENDS Sequences, Naturals

CONSTANT
  Data   \* records

VARIABLES
  committed,   \* records that were acknowledged
  pending      \* records that were written and not acknowledged

vars == <<committed, pending>>

TypeOK ==
  /\ committed \in Seq(Data)
  /\ pending \in Seq(Data)

Init ==
  /\ committed = <<>>
  /\ pending = <<>>

(* A batch is written.                                                     *)
Write ==
  /\ pending' \in Seq(Data)
  /\ Len(pending') > Len(pending)
  /\ \A i \in 1 .. Len(pending) : pending'[i] = pending[i]
  /\ UNCHANGED committed

(* Everything written so far is acknowledged at once.                      *)
Acknowledge ==
  /\ committed' = committed \o pending
  /\ pending' = <<>>

(* A failure cuts the pending records.                                     *)
Lose ==
  /\ \E n \in 0 .. Len(pending) : pending' = SubSeq(pending, 1, n)
  /\ UNCHANGED committed

Next == Write \/ Acknowledge \/ Lose

Spec == Init /\ [][Next]_vars

=============================================================================

---------------------------- MODULE BoundedFifo ----------------------------
(***************************************************************************)
(* What CircularBuffer promises to its producer and consumer: a bounded    *)
(* first-in first-out queue of numbered records, none lost, repeated or    *)
(* reordered, that can be closed, and emptied again for another run.       *)
(***************************************************************************)
EXTENDS Sequences, Naturals

CONSTANT
  Capacity

VARIABLES
  queue,   \* records pushed and not popped, oldest first
  sent,    \* records pushed so far: the next one's number
  closed

vars == <<queue, sent, closed>>

Init ==
  /\ queue = <<>>
  /\ sent = 0
  /\ closed = FALSE

Push ==
  /\ Len(queue) < Capacity
  /\ queue' = Append(queue, sent)
  /\ sent' = sent + 1
  /\ UNCHANGED closed

Pop ==
  /\ \E n \in 1 .. Len(queue) : queue' = SubSeq(queue, n + 1, Len(queue))
  /\ UNCHANGED <<sent, closed>>

Close ==
  /\ closed' = TRUE
  /\ UNCHANGED <<queue, sent>>

Reset ==
  /\ closed
  /\ queue' = <<>>
  /\ sent' = 0
  /\ closed' = FALSE

Next == Push \/ Pop \/ Close \/ Reset

Spec == Init /\ [][Next]_vars

=============================================================================

----------------------------- MODULE FrameRelay -----------------------------
(* What the client promises once it is in step with the frames in its FIFO:  *)
(* it stays in step until something outside of it fails, and while it is in  *)
(* step the datagrams it sends are the frames, whole, in order, none twice.  *)
EXTENDS Naturals, Sequences

VARIABLES
  step,     \* the client is in step
  queue,    \* while it is: the frames on their way, oldest first
  given,    \* the frame the source began last
  sent,     \* the datagram sent last
  failure   \* turns over whenever something outside fails

OutOfStep == ~step /\ queue = <<>>

Init == OutOfStep /\ given = <<>> /\ sent = <<>> /\ failure = FALSE

Put ==
  /\ step
  /\ queue' = Append(queue, given')
  /\ UNCHANGED <<step, sent, failure>>

Forward ==
  /\ step /\ queue /= <<>>
  /\ sent' = Head(queue)
  /\ queue' = Tail(queue)
  /\ UNCHANGED <<step, given, failure>>

\* A failure costs the step, or at least the frame that was begun last.
Slip ==
  /\ failure' = ~failure
  /\ \/ OutOfStep'
     \/ queue /= <<>> /\ queue' = SubSeq(queue, 1, Len(queue) - 1) /\ UNCHANGED step
  /\ UNCHANGED <<given, sent>>

Drift == OutOfStep /\ OutOfStep' /\ UNCHANGED failure

CatchStep == OutOfStep /\ step' /\ failure' \in BOOLEAN

Next == Put \/ Forward \/ Slip \/ Drift \/ CatchStep

Spec == Init /\ [][Next]_<<step, queue, given, sent, failure>>
=============================================================================

----------------------------- MODULE ByteQueue -----------------------------
(* What the circular buffer promises its callers: a bounded first-in        *)
(* first-out queue of bytes, filled several at a time, emptied one by one.  *)
EXTENDS Integers, Sequences

CONSTANTS Capacity, Bytes

VARIABLES
  queue,   \* the bytes put and not yet taken, oldest first
  put,     \* the bytes the last Put was given
  taken    \* the byte the last Take returned

Chunks == UNION {[1 .. n -> Bytes] : n \in 1 .. Capacity}

Init == queue = <<>> /\ put = <<>> /\ taken \in Bytes

Put(chunk) ==
  /\ Len(queue) + Len(chunk) <= Capacity
  /\ queue' = queue \o chunk
  /\ put' = chunk
  /\ UNCHANGED taken

Take ==
  /\ queue /= <<>>
  /\ taken' = Head(queue)
  /\ queue' = Tail(queue)
  /\ UNCHANGED put

Next == Take \/ \E chunk \in Chunks : Put(chunk)

Spec == Init /\ [][Next]_<<queue, put, taken>>
=============================================================================

----------------------------- MODULE ByteQueue -----------------------------
(***************************************************************************)
(* What an output buffer promises its connection: a FIFO queue of bytes.   *)
(* Bytes leave in the order in which they were put, none is lost,          *)
(* duplicated or invented, and a message that still fits in the capacity   *)
(* the buffer was created with is never refused.                           *)
(***************************************************************************)
EXTENDS Naturals, Sequences

CONSTANTS
  Message,   \* the messages, each a non-empty sequence of bytes
  Capacity   \* the capacity the buffer is created with

VARIABLES
  queue,     \* the bytes put and not yet taken
  out        \* the bytes the last operation took, << >> if it took none

vars == <<queue, out>>

Init == queue = << >> /\ out = << >>

Put(d) == queue' = queue \o d /\ out' = << >>

Refuse(d) ==
  /\ Len(queue) + Len(d) > Capacity
  /\ out' = << >>
  /\ UNCHANGED queue

Take(n) ==
  /\ out' = SubSeq(queue, 1, n)
  /\ queue' = SubSeq(queue, n + 1, Len(queue))

Next ==
  \/ \E d \in Message : Put(d) \/ Refuse(d)
  \/ \E n \in 1..Len(queue) : Take(n)

Spec == Init /\ [][Next]_vars
============================================================================

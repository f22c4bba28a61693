------------------------------- MODULE Buffer -------------------------------
(***************************************************************************)
(* The growable ring buffer a CtlConn or a ProxyConn queues its outgoing   *)
(* messages in (lib/Buffer.h, lib/Buffer.cpp).                             *)
(*                                                                         *)
(* One action per call, except WriteToSock and the growth loop of          *)
(* ensureInsert: an iteration of either loop is an action.  A message is   *)
(* the sequence of its bytes; memory that malloc returned and nobody wrote *)
(* holds Junk.                                                             *)
(***************************************************************************)
EXTENDS Integers, Sequences

CONSTANTS
  Byte,          \* the byte values
  Junk,          \* what uninitialised memory holds
  InitCapacity,  \* constructor argument capacity
  MaxCapacity,   \* constructor argument max_capacity
  DoubleBorder,  \* DOUBLE_BORDER_LINE: from here on, grow by a quarter
  MaxLen,        \* bound: the longest message written
  SizeMod,       \* 2^w for the w-bit size_t write() is stored in
  WriteMayFail   \* whether write() on the socket can return -1

ASSUME BufferAssumption ==
  /\ Junk \notin Byte
  /\ InitCapacity \in Nat \ {0}
  /\ MaxCapacity \in Nat
  /\ DoubleBorder \in Nat /\ DoubleBorder >= 4
  /\ MaxLen \in Nat
  /\ SizeMod \in Nat /\ SizeMod > 2 * (MaxCapacity + InitCapacity + 1)
  /\ WriteMayFail \in BOOLEAN

VARIABLES
  capacity, data_size, data, read_index, write_index,
  pending,       \* the message ensureInsert is growing the buffer for, or << >>
  newcap,        \* the local variable of ensureInsert's growth loop
  out            \* bytes handed over by the last read or write()

vars == <<capacity, data_size, data, read_index, write_index, pending, newcap, out>>

max_capacity == IF MaxCapacity > InitCapacity THEN MaxCapacity ELSE InitCapacity

\* What WriteToBuffer may be given; a length of 0 or less changes nothing.
Message == UNION {[1..n -> Byte] : n \in 1..MaxLen}

----------------------------------------------------------------------------
GetUnreadSize ==
  IF write_index >= read_index
  THEN write_index - read_index
  ELSE (data_size - read_index) + write_index

\* Mutated form: counts the slot that separates a full buffer from an empty one.
FreeSizeAllSlots == data_size - GetUnreadSize

getFreeSize == capacity - GetUnreadSize

\* Mutated form: an index that runs on past the end of the array.
AdvanceNoWrap(i, n) == i + n

\* Where an index stands after n bytes.
Advance(i, n) == (i + n) % data_size

\* The unread bytes, oldest first: the abstract queue.
Unread == [i \in 1..GetUnreadSize |-> data[Advance(read_index, i - 1)]]

\* The copy loop of WriteToBuffer: array a of n slots once d is stored from w on.
Stored(a, n, w, d) ==
  [i \in 0..n - 1 |->
     IF (i + n - w) % n < Len(d) THEN d[((i + n - w) % n) + 1] ELSE a[i]]

\* Mutated form: copies from the start of the old array, not from read_index_.
MovedFromStart(c) ==
  [i \in 0..c |-> IF i < GetUnreadSize THEN data[i] ELSE Junk]

\* The copy loop of resize: the unread bytes moved to the front of a new array.
Moved(c) ==
  [i \in 0..c |->
     IF i < GetUnreadSize THEN data[Advance(read_index, i)] ELSE Junk]

\* What follows ensureInsert in WriteToBuffer when there was room.
Insert(d) ==
  /\ data' = Stored(data, data_size, write_index, d)
  /\ write_index' = Advance(write_index, Len(d))
  /\ UNCHANGED <<capacity, data_size, read_index>>

\* resize(c), then the rest of WriteToBuffer.  resize returns early, and the
\* bytes are then stored in the old array, when c is no usable new capacity.
ResizeAndInsert(c, d) ==
  \/ /\ c < GetUnreadSize \/ c = capacity
     /\ Insert(d)
  \/ /\ c >= GetUnreadSize /\ c # capacity
     /\ capacity' = c
     /\ data_size' = c + 1
     /\ data' = Stored(Moved(c), c + 1, GetUnreadSize, d)
     /\ read_index' = 0
     /\ write_index' = (GetUnreadSize + Len(d)) % (c + 1)

min_cap_need(d) == capacity + Len(d)

\* The capacity ensureInsert chooses without entering its loop.
DirectCap(d) ==
  IF min_cap_need(d) > capacity * 2 THEN min_cap_need(d)
  ELSE IF capacity * 2 <= max_capacity THEN capacity * 2 ELSE max_capacity

NeedsLoop(d) == min_cap_need(d) <= capacity * 2 /\ capacity >= DoubleBorder

----------------------------------------------------------------------------
Init ==
  /\ capacity = InitCapacity
  /\ data_size = InitCapacity + 1
  /\ data = [i \in 0..InitCapacity |-> Junk]
  /\ read_index = 0 /\ write_index = 0
  /\ pending = << >> /\ newcap = 0 /\ out = << >>

\* There is room: ensureInsert returns at once.
WriteFits(d) ==
  /\ pending = << >>
  /\ getFreeSize >= Len(d)
  /\ Insert(d)
  /\ out' = << >>
  /\ UNCHANGED <<pending, newcap>>

\* ensureInsert throws "out of capacity"; WriteToBuffer returns 0.
WriteRefused(d) ==
  /\ pending = << >>
  /\ getFreeSize < Len(d)
  /\ min_cap_need(d) > max_capacity
  /\ out' = << >>
  /\ UNCHANGED <<capacity, data_size, data, read_index, write_index, pending, newcap>>

\* One resize, to twice the capacity or to exactly what is needed.
WriteGrows(d) ==
  /\ pending = << >>
  /\ getFreeSize < Len(d)
  /\ min_cap_need(d) <= max_capacity
  /\ ~NeedsLoop(d)
  /\ ResizeAndInsert(DirectCap(d), d)
  /\ out' = << >>
  /\ UNCHANGED <<pending, newcap>>

\* A large buffer: enter the loop that grows it by quarters.
WriteEntersLoop(d) ==
  /\ pending = << >>
  /\ getFreeSize < Len(d)
  /\ min_cap_need(d) <= max_capacity
  /\ NeedsLoop(d)
  /\ pending' = d
  /\ newcap' = capacity
  /\ UNCHANGED <<capacity, data_size, data, read_index, write_index, out>>

\* Mutated forms: without the clamp, and with a step that may be 0.
QuarterUnclamped(c) == c + c \div 4
QuarterStalls(c) ==
  IF c + c \div 16 > max_capacity THEN max_capacity ELSE c + c \div 16

\* The capacity after one iteration of the loop.
Quarter(c) ==
  IF c + c \div 4 > max_capacity THEN max_capacity ELSE c + c \div 4

GrowStep ==
  /\ pending # << >>
  /\ newcap < min_cap_need(pending)
  /\ newcap' = Quarter(newcap)
  /\ UNCHANGED <<capacity, data_size, data, read_index, write_index, pending, out>>

GrowDone ==
  /\ pending # << >>
  /\ newcap >= min_cap_need(pending)
  /\ ResizeAndInsert(newcap, pending)
  /\ pending' = << >> /\ newcap' = 0 /\ out' = << >>

WriteToBuffer(d) ==
  WriteFits(d) \/ WriteRefused(d) \/ WriteGrows(d) \/ WriteEntersLoop(d)

\* read(data, n); a longer request than GetUnreadSize returns -1 and changes nothing.
read(n) ==
  /\ pending = << >>
  /\ n <= GetUnreadSize
  /\ out' = SubSeq(Unread, 1, n)
  /\ read_index' = Advance(read_index, n)
  /\ UNCHANGED <<capacity, data_size, data, write_index, pending, newcap>>

\* The contiguous stretch one iteration of WriteToSock offers to write().
cur_send_len ==
  IF read_index > write_index THEN data_size - read_index ELSE write_index - read_index

\* An iteration of WriteToSock in which the socket accepts n bytes.
SockWrite(n) ==
  /\ pending = << >>
  /\ GetUnreadSize > 0
  /\ n <= cur_send_len
  /\ out' = [i \in 1..n |-> data[read_index + i - 1]]
  /\ read_index' = Advance(read_index, n)
  /\ UNCHANGED <<capacity, data_size, data, write_index, pending, newcap>>

\* Mutated form: the index is taken as it is.
BackUnwrapped(r) == (r + (SizeMod - 1)) % SizeMod

\* read_index_ after -1 was added to it as a size_t
Back(r) == ((r + (SizeMod - 1)) % SizeMod) % data_size

\* An iteration in which write() returns -1: stored in a size_t, it is not 0,
\* so the loop adds it to read_index_ and goes on.
SockWriteError ==
  /\ pending = << >>
  /\ WriteMayFail
  /\ GetUnreadSize > 0
  /\ read_index' = Back(read_index)
  /\ out' = << >>
  /\ UNCHANGED <<capacity, data_size, data, write_index, pending, newcap>>

Next ==
  \/ \E d \in Message : WriteToBuffer(d)
  \/ GrowStep \/ GrowDone
  \/ \E n \in 1..max_capacity : read(n) \/ SockWrite(n)
  \/ SockWriteError

Spec == Init /\ [][Next]_vars

\* The thread inside ensureInsert runs on; nothing else is promised.
FairSpec == Spec /\ WF_vars(GrowStep \/ GrowDone)

----------------------------------------------------------------------------
(***************************************************************************)
(* Properties                                                              *)
(***************************************************************************)
TypeOK ==
  /\ capacity \in InitCapacity..max_capacity
  /\ data_size = capacity + 1
  /\ data \in [0..data_size - 1 -> Byte \cup {Junk}]
  /\ read_index \in 0..data_size - 1
  /\ write_index \in 0..data_size - 1
  /\ pending = << >> \/ pending \in Message
  /\ newcap \in 0..max_capacity
  /\ out \in Seq(Byte \cup {Junk})

\* The growth loop of ensureInsert, once entered for a message that the
\* capacity check let pass, is only left with room for that message and
\* without exceeding max_capacity_.
GrowthInBounds ==
  pending # << >> =>
    /\ Len(pending) > getFreeSize
    /\ min_cap_need(pending) <= max_capacity
    /\ newcap \in capacity..max_capacity
    /\ capacity >= DoubleBorder

Queue == INSTANCE ByteQueue WITH
  queue <- Unread, Capacity <- InitCapacity, Message <- Message

\* As long as write() does not fail, the ring buffer is the FIFO byte queue:
\* nothing is lost, repeated or reordered across wrap-around and growth, and
\* what fits in the initial capacity is never refused.
Fifo == Queue!Spec

\* The growth loop of ensureInsert terminates.
GrowthTerminates == (pending # << >>) ~> (pending = << >>)
============================================================================

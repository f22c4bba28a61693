---------------------------- MODULE BufferProofs ----------------------------
(***************************************************************************)
(* Proofs about the ring buffer of lib/Buffer.cpp, for every capacity, limit *)
(* of growth and length of message.                                        *)
(*                                                                         *)
(*   TypeCorrect          indices stay in the array, also when write fails *)
(*   GrowthStaysInBounds  the growth loop respects max_capacity_           *)
(*   BufferIsFifo         the buffer implements ByteQueue                  *)
(*                                                                         *)
(* TypeOK and GrowthInBounds are inductive together; BufferIsFifo follows  *)
(* from them and from what each operation does to the unread bytes.        *)
(***************************************************************************)
EXTENDS Buffer, SequenceTheorems, TLAPS

\* An index inside the array wraps round once at most (the % data_size_ of Buffer.cpp).
LEMMA WrapOnce ==
  ASSUME NEW m \in Nat \ {0}, NEW i \in 0..m - 1, NEW n \in 0..m
  PROVE  (i + n) % m = IF i + n < m THEN i + n ELSE i + n - m
  BY SMTT(30)

\* An index taken modulo the size of the array is inside it.
LEMMA ModInRange ==
  ASSUME NEW m \in Nat \ {0}, NEW k \in Nat
  PROVE  k % m \in 0..m - 1
  BY SMTT(30)

\* What WriteToBuffer is given: a non-empty sequence of at most MaxLen bytes.
LEMMA MessageProperties ==
  ASSUME NEW d \in Message
  PROVE  /\ d \in Seq(Byte)
         /\ Len(d) \in 1..MaxLen
         /\ d # << >>
         /\ \A i \in 1..Len(d) : d[i] \in Byte
<1>1. PICK n \in 1..MaxLen : d \in [1..n -> Byte]
  BY DEF Message
<1>2. n \in Nat /\ n > 0
  BY BufferAssumption DEF BufferAssumption
<1>3. d \in Seq(Byte) /\ Len(d) = n
  BY <1>1, <1>2
<1>4. d # << >>
  BY <1>2, <1>3
<1> QED
  BY <1>1, <1>2, <1>3, <1>4

\* The constructor's max_capacity_ is at least the capacity it starts with.
LEMMA MaxCapacityProperties ==
  max_capacity \in Nat /\ max_capacity >= InitCapacity
  BY BufferAssumption DEF BufferAssumption, max_capacity

\* GetUnreadSize leaves one slot free, and is 0 exactly when the indices meet.
LEMMA UnreadBounds ==
  ASSUME TypeOK
  PROVE  /\ capacity \in Nat /\ capacity > 0 /\ data_size = capacity + 1
         /\ data_size \in Nat \ {0}
         /\ read_index \in Nat /\ write_index \in Nat
         /\ GetUnreadSize \in 0..capacity
         /\ GetUnreadSize = 0 <=> write_index = read_index
  BY BufferAssumption, MaxCapacityProperties
     DEF BufferAssumption, TypeOK, GetUnreadSize

\* A moved index is inside the array.
LEMMA AdvanceInRange ==
  ASSUME TypeOK, NEW i \in Nat, NEW n \in Nat
  PROVE  Advance(i, n) \in 0..data_size - 1
  BY UnreadBounds, ModInRange DEF Advance

\* WriteToBuffer's copy loop leaves an array of bytes.
LEMMA StoredType ==
  ASSUME NEW n \in Nat \ {0}, NEW a \in [0..n - 1 -> Byte \cup {Junk}],
         NEW w \in 0..n - 1, NEW d \in Message
  PROVE  Stored(a, n, w, d) \in [0..n - 1 -> Byte \cup {Junk}]
<1> SUFFICES ASSUME NEW i \in 0..n - 1, (i + n - w) % n < Len(d)
             PROVE  d[((i + n - w) % n) + 1] \in Byte
  BY DEF Stored
<1>1. i + n - w \in Nat
  OBVIOUS
<1>2. (i + n - w) % n \in Nat
  BY <1>1, ModInRange
<1> QED
  BY <1>2, MessageProperties

\* What WriteToBuffer's copy loop leaves in one slot.
LEMMA StoredAt ==
  ASSUME NEW a, NEW n, NEW w, NEW d, NEW j \in 0..n - 1
  PROVE  Stored(a, n, w, d)[j] =
           IF (j + n - w) % n < Len(d) THEN d[((j + n - w) % n) + 1] ELSE a[j]
  BY DEF Stored

\* resize's copy loop leaves an array of bytes.
LEMMA MovedType ==
  ASSUME TypeOK, NEW c \in Nat
  PROVE  Moved(c) \in [0..c -> Byte \cup {Junk}]
<1> SUFFICES ASSUME NEW i \in 0..c
             PROVE  data[Advance(read_index, i)] \in Byte \cup {Junk}
  BY DEF Moved
<1>0. i \in Nat /\ read_index \in Nat
  BY UnreadBounds
<1>1. Advance(read_index, i) \in 0..data_size - 1
  BY <1>0, AdvanceInRange
<1> QED
  BY <1>1 DEF TypeOK

\* The unread bytes are a sequence, read off the array from read_index_ on.
LEMMA UnreadType ==
  ASSUME TypeOK
  PROVE  /\ Unread \in Seq(Byte \cup {Junk})
         /\ Len(Unread) = GetUnreadSize
         /\ \A i \in 1..GetUnreadSize : Unread[i] = data[Advance(read_index, i - 1)]
<1>1. \A i \in 1..GetUnreadSize : data[Advance(read_index, i - 1)] \in Byte \cup {Junk}
  <2> SUFFICES ASSUME NEW i \in 1..GetUnreadSize
               PROVE  data[Advance(read_index, i - 1)] \in Byte \cup {Junk}
    OBVIOUS
  <2>1. i - 1 \in Nat
    BY UnreadBounds
  <2>2. Advance(read_index, i - 1) \in 0..data_size - 1
    BY <2>1, AdvanceInRange, UnreadBounds
  <2> QED
    BY <2>2 DEF TypeOK
<1>2. GetUnreadSize \in Nat
  BY UnreadBounds
<1> QED
  BY <1>1, <1>2 DEF Unread

\* Storing a message keeps the types of the array and of its indices.
LEMMA InsertType ==
  ASSUME TypeOK, NEW d \in Message, Insert(d)
  PROVE  /\ capacity' \in InitCapacity..max_capacity
         /\ data_size' = capacity' + 1
         /\ data' \in [0..data_size' - 1 -> Byte \cup {Junk}]
         /\ read_index' \in 0..data_size' - 1
         /\ write_index' \in 0..data_size' - 1
<1>1. data' \in [0..data_size - 1 -> Byte \cup {Junk}]
  BY StoredType, UnreadBounds DEF Insert, TypeOK
<1>2. write_index' \in 0..data_size - 1
  BY AdvanceInRange, UnreadBounds, MessageProperties, SMTT(30) DEF Insert
<1> QED
  BY <1>1, <1>2 DEF Insert, TypeOK

\* So does growing first, to a capacity between the two bounds.
LEMMA ResizeType ==
  ASSUME TypeOK, NEW d \in Message, NEW c \in InitCapacity..max_capacity,
         ResizeAndInsert(c, d)
  PROVE  /\ capacity' \in InitCapacity..max_capacity
         /\ data_size' = capacity' + 1
         /\ data' \in [0..data_size' - 1 -> Byte \cup {Junk}]
         /\ read_index' \in 0..data_size' - 1
         /\ write_index' \in 0..data_size' - 1
<1>1. CASE Insert(d)
  BY <1>1, InsertType
<1>2. CASE ~Insert(d)
  <2>1. /\ c >= GetUnreadSize
        /\ capacity' = c /\ data_size' = c + 1 /\ read_index' = 0
        /\ data' = Stored(Moved(c), c + 1, GetUnreadSize, d)
        /\ write_index' = (GetUnreadSize + Len(d)) % (c + 1)
    BY <1>2 DEF ResizeAndInsert
  <2>2. c \in Nat /\ c + 1 \in Nat \ {0} /\ GetUnreadSize \in 0..(c + 1) - 1
    BY <2>1, UnreadBounds, MaxCapacityProperties, BufferAssumption DEF BufferAssumption
  <2>3. Moved(c) \in [0..(c + 1) - 1 -> Byte \cup {Junk}]
    BY <2>2, MovedType
  <2>4. data' \in [0..(c + 1) - 1 -> Byte \cup {Junk}]
    BY <2>1, <2>2, <2>3, StoredType
  <2>5. write_index' \in 0..(c + 1) - 1
    <3>1. GetUnreadSize + Len(d) \in Nat
      BY <2>2, MessageProperties
    <3> QED
      BY <2>1, <2>2, <3>1, ModInRange
  <2> QED
    BY <2>1, <2>2, <2>4, <2>5
<1> QED
  BY <1>1, <1>2

\* The capacity ensureInsert picks for a message that passed its check.
LEMMA DirectCapBounds ==
  ASSUME TypeOK, NEW d \in Message, min_cap_need(d) <= max_capacity, ~NeedsLoop(d)
  PROVE  DirectCap(d) \in capacity..max_capacity /\ DirectCap(d) >= min_cap_need(d)
  BY UnreadBounds, MaxCapacityProperties, MessageProperties
     DEF DirectCap, NeedsLoop, min_cap_need, TypeOK

\* An iteration of the growth loop never shrinks the buffer nor passes its limit.
LEMMA QuarterBounds ==
  ASSUME NEW c \in 0..max_capacity
  PROVE  Quarter(c) \in c..max_capacity
  BY MaxCapacityProperties DEF Quarter

----------------------------------------------------------------------------
(***************************************************************************)
(* TypeOK is inductive by itself.                                          *)
(***************************************************************************)
\* The constructor establishes TypeOK.
LEMMA InitTypeOK == Init => TypeOK
  BY BufferAssumption, MaxCapacityProperties DEF BufferAssumption, Init, TypeOK

\* Every operation of the buffer preserves TypeOK.
LEMMA NextTypeOK == TypeOK /\ [Next]_vars => TypeOK'
<1> SUFFICES ASSUME TypeOK, [Next]_vars
             PROVE  TypeOK'
  OBVIOUS
<1>a. << >> \in Seq(Byte \cup {Junk})
  OBVIOUS
<1>1. ASSUME NEW d \in Message, WriteFits(d) PROVE TypeOK'
  BY <1>1, <1>a, InsertType DEF WriteFits, TypeOK
<1>2. ASSUME NEW d \in Message, WriteRefused(d) PROVE TypeOK'
  BY <1>2, <1>a DEF WriteRefused, TypeOK
<1>3. ASSUME NEW d \in Message, WriteGrows(d) PROVE TypeOK'
  <2>1. DirectCap(d) \in InitCapacity..max_capacity
    <3>1. DirectCap(d) \in capacity..max_capacity
      BY <1>3, DirectCapBounds DEF WriteGrows
    <3> QED
      BY <3>1, MaxCapacityProperties, BufferAssumption DEF TypeOK, BufferAssumption
  <2> QED
    BY <1>3, <1>a, <2>1, ResizeType DEF WriteGrows, TypeOK
<1>4. ASSUME NEW d \in Message, WriteEntersLoop(d) PROVE TypeOK'
  BY <1>4, <1>a, UnreadBounds, MaxCapacityProperties DEF WriteEntersLoop, TypeOK
<1>5. CASE GrowStep
  <2>1. Quarter(newcap) \in 0..max_capacity
    BY QuarterBounds, MaxCapacityProperties DEF TypeOK
  <2> QED
    BY <1>5, <2>1 DEF GrowStep, TypeOK
<1>6. CASE GrowDone
  <2>1. pending \in Message
    BY <1>6 DEF GrowDone, TypeOK
  <2>2. newcap \in InitCapacity..max_capacity
    <3>1. newcap >= capacity
      BY <1>6, <2>1, UnreadBounds, MessageProperties, MaxCapacityProperties
         DEF GrowDone, min_cap_need, TypeOK
    <3> QED
      BY <3>1, MaxCapacityProperties, BufferAssumption DEF TypeOK, BufferAssumption
  <2> QED
    BY <1>6, <1>a, <2>1, <2>2, ResizeType, MaxCapacityProperties DEF GrowDone, TypeOK
<1>7. ASSUME NEW n \in 1..max_capacity, read(n) PROVE TypeOK'
  <2>1. n \in Nat /\ n <= GetUnreadSize
    BY <1>7, MaxCapacityProperties DEF read
  <2>2. read_index' \in 0..data_size - 1
    BY <1>7, <2>1, UnreadBounds, AdvanceInRange DEF read
  <2>3. out' \in Seq(Byte \cup {Junk})
    <3>1. \A i \in 1..n : Unread[i] \in Byte \cup {Junk}
      BY <2>1, UnreadType, UnreadBounds
    <3> QED
      BY <1>7, <2>1, <3>1, SubSeqProperties DEF read
  <2> QED
    BY <1>7, <2>2, <2>3 DEF read, TypeOK
<1>8. ASSUME NEW n \in 1..max_capacity, SockWrite(n) PROVE TypeOK'
  <2>1. n \in Nat /\ n <= cur_send_len /\ n > 0
    BY <1>8, MaxCapacityProperties DEF SockWrite
  <2>2. read_index' \in 0..data_size - 1
    BY <1>8, <2>1, UnreadBounds, AdvanceInRange DEF SockWrite
  <2>3. out' \in Seq(Byte \cup {Junk})
    <3>1. \A i \in 1..n : read_index + i - 1 \in 0..data_size - 1
      BY <2>1, UnreadBounds DEF cur_send_len, TypeOK
    <3>2. \A i \in 1..n : data[read_index + i - 1] \in Byte \cup {Junk}
      BY <3>1 DEF TypeOK
    <3> QED
      BY <1>8, <2>1, <3>2 DEF SockWrite
  <2> QED
    BY <1>8, <2>2, <2>3 DEF SockWrite, TypeOK
<1>9. CASE SockWriteError
  <2>1. (read_index + (SizeMod - 1)) % SizeMod \in Nat
    <3>1. SizeMod \in Nat \ {0} /\ read_index + (SizeMod - 1) \in Nat
      BY UnreadBounds, BufferAssumption DEF BufferAssumption
    <3> QED
      BY <3>1, ModInRange
  <2>2. read_index' \in 0..data_size - 1
    BY <1>9, <2>1, UnreadBounds, ModInRange DEF SockWriteError, Back
  <2> QED
    BY <1>9, <1>a, <2>2 DEF SockWriteError, TypeOK, Back
<1>10. CASE UNCHANGED vars
  BY <1>10 DEF vars, TypeOK
<1> QED
  BY <1>1, <1>2, <1>3, <1>4, <1>5, <1>6, <1>7, <1>8, <1>9, <1>10
     DEF Next, WriteToBuffer

\* Whatever write() returns, every index stays inside the array that is
\* allocated and the capacity between its two bounds (lib/Buffer.cpp).
THEOREM TypeCorrect == Spec => []TypeOK
  BY InitTypeOK, NextTypeOK, PTL DEF Spec

----------------------------------------------------------------------------
\* Every operation of the buffer preserves GrowthInBounds.
LEMMA NextGrowthInBounds ==
  TypeOK /\ GrowthInBounds /\ [Next]_vars => GrowthInBounds'
<1> SUFFICES ASSUME TypeOK, GrowthInBounds, [Next]_vars
             PROVE  GrowthInBounds'
  OBVIOUS
<1>1. CASE pending' = << >>
  BY <1>1 DEF GrowthInBounds
<1>2. ASSUME NEW d \in Message, WriteEntersLoop(d) PROVE GrowthInBounds'
  <2>1. /\ pending' = d /\ newcap' = capacity
        /\ capacity' = capacity /\ getFreeSize' = getFreeSize
        /\ min_cap_need(pending)' = min_cap_need(d)
    BY <1>2 DEF WriteEntersLoop, getFreeSize, GetUnreadSize, min_cap_need
  <2>2. /\ Len(d) > getFreeSize
        /\ min_cap_need(d) <= max_capacity
        /\ capacity \in capacity..max_capacity
        /\ capacity >= DoubleBorder
    BY <1>2, UnreadBounds, MessageProperties, MaxCapacityProperties
       DEF WriteEntersLoop, NeedsLoop, getFreeSize, TypeOK
  <2> QED
    BY <2>1, <2>2 DEF GrowthInBounds
<1>3. CASE GrowStep
  <2>1. /\ pending' = pending /\ newcap' = Quarter(newcap)
        /\ capacity' = capacity /\ getFreeSize' = getFreeSize
        /\ min_cap_need(pending)' = min_cap_need(pending)
    BY <1>3 DEF GrowStep, getFreeSize, GetUnreadSize, min_cap_need
  <2>2. Quarter(newcap) \in capacity..max_capacity
    BY <1>3, QuarterBounds, UnreadBounds, MaxCapacityProperties
       DEF GrowStep, GrowthInBounds, TypeOK
  <2> QED
    BY <1>3, <2>1, <2>2 DEF GrowthInBounds, GrowStep
<1>4. CASE UNCHANGED vars
  BY <1>4 DEF vars, GrowthInBounds, getFreeSize, GetUnreadSize, min_cap_need
<1> QED
  BY <1>1, <1>2, <1>3, <1>4
     DEF Next, WriteToBuffer, WriteFits, WriteRefused, WriteGrows, GrowDone, read,
         SockWrite, SockWriteError

\* The growth loop of ensureInsert never runs past max_capacity_ and never
\* starts for a message that would be refused or that fits already.
THEOREM GrowthStaysInBounds == Spec => []GrowthInBounds
<1>1. Init => GrowthInBounds
  BY DEF Init, GrowthInBounds
<1> QED
  BY <1>1, TypeCorrect, NextGrowthInBounds, PTL DEF Spec

----------------------------------------------------------------------------
(***************************************************************************)
(* The refinement: while write() does not fail, the unread bytes are the   *)
(* abstract queue.                                                         *)
(***************************************************************************)

\* The unread bytes followed by a message, position by position.
LEMMA UnreadThenMessage ==
  ASSUME TypeOK, NEW d \in Message
  PROVE  /\ Unread \o d \in Seq(Byte \cup {Junk})
         /\ Len(Unread \o d) = GetUnreadSize + Len(d)
         /\ \A i \in 1..GetUnreadSize + Len(d) :
              (Unread \o d)[i] = IF i <= GetUnreadSize THEN Unread[i] ELSE d[i - GetUnreadSize]
<1>1. d \in Seq(Byte \cup {Junk})
  BY MessageProperties, SeqMonotonic
<1>2. Unread \in Seq(Byte \cup {Junk}) /\ Len(Unread) = GetUnreadSize
  BY UnreadType
<1> HIDE DEF Unread, GetUnreadSize
<1>3. /\ Unread \o d \in Seq(Byte \cup {Junk})
      /\ Len(Unread \o d) = Len(Unread) + Len(d)
      /\ \A i \in 1..Len(Unread) + Len(d) :
           (Unread \o d)[i] = IF i <= Len(Unread) THEN Unread[i] ELSE d[i - Len(Unread)]
  BY <1>1, <1>2, ConcatProperties
<1> QED
  BY <1>2, <1>3

\* UnreadType of the next state.
LEMMA UnreadTypeNext ==
  ASSUME TypeOK'
  PROVE  /\ Unread' \in Seq(Byte \cup {Junk})
         /\ Len(Unread') = GetUnreadSize'
         /\ \A i \in 1..GetUnreadSize' :
              Unread'[i] = data'[(read_index' + (i - 1)) % data_size']
<1>1. (TypeOK => /\ Unread \in Seq(Byte \cup {Junk})
                 /\ Len(Unread) = GetUnreadSize
                 /\ \A i \in 1..GetUnreadSize : Unread[i] = data[Advance(read_index, i - 1)])'
  BY UnreadType, PTL
<1> QED
  BY <1>1 DEF Advance

\* WriteToBuffer with enough room appends the message to the unread bytes: the
\* slots it fills are the ones behind write_index_, wrapping round once at most.
LEMMA InsertAppends ==
  ASSUME TypeOK, TypeOK', NEW d \in Message, Len(d) <= getFreeSize, Insert(d)
  PROVE  Unread' = Unread \o d
<1> DEFINE n == data_size
           r == read_index
           w == write_index
           u == GetUnreadSize
           k == Len(d)
<1>1. /\ n \in Nat \ {0} /\ r \in 0..n - 1 /\ w \in 0..n - 1
      /\ k \in Nat /\ u \in Nat /\ u + k <= n - 1
      /\ u = IF w >= r THEN w - r ELSE n - r + w
  BY UnreadBounds, MessageProperties DEF TypeOK, getFreeSize, GetUnreadSize
<1>2. /\ read_index' = r /\ data_size' = n
      /\ write_index' = IF w + k < n THEN w + k ELSE w + k - n
  <2>1. w \in 0..n - 1 /\ k \in 0..n
    BY <1>1
  <2> QED
    BY <1>1, <2>1, WrapOnce DEF Insert, Advance
<1>3. GetUnreadSize' = u + k
  BY <1>1, <1>2 DEF GetUnreadSize
<1>4. /\ Unread' \in Seq(Byte \cup {Junk}) /\ Len(Unread') = u + k
      /\ \A i \in 1..u + k : Unread'[i] = data'[(r + (i - 1)) % n]
  BY UnreadTypeNext, <1>2, <1>3
<1>5. /\ Unread \o d \in Seq(Byte \cup {Junk}) /\ Len(Unread \o d) = u + k
      /\ \A i \in 1..u + k : (Unread \o d)[i] = IF i <= u THEN Unread[i] ELSE d[i - u]
  BY UnreadThenMessage
<1>6. ASSUME NEW i \in 1..u + k
      PROVE  Unread'[i] = (Unread \o d)[i]
  <2> DEFINE j == IF r + (i - 1) < n THEN r + (i - 1) ELSE r + (i - 1) - n
             q == IF j >= w THEN j - w ELSE j + n - w
  <2>1. (r + (i - 1)) % n = j /\ Advance(r, i - 1) = j /\ j \in 0..n - 1
    <3>1. i - 1 \in 0..n
      BY <1>1
    <3>2. (r + (i - 1)) % n = j
      BY <1>1, <3>1, WrapOnce
    <3> QED
      BY <1>1, <1>2, <3>2 DEF Advance
  <2>2. (j + n - w) % n = q
    <3>1. n - w \in 0..n /\ j + n - w = j + (n - w)
      BY <1>1, <2>1
    <3>2. (j + (n - w)) % n = IF j + (n - w) < n THEN j + (n - w) ELSE j + (n - w) - n
      BY <1>1, <2>1, <3>1, WrapOnce
    <3> QED
      BY <1>1, <2>1, <3>1, <3>2
  <2>3. data'[j] = IF q < k THEN d[q + 1] ELSE data[j]
    BY <2>1, <2>2 DEF Insert, Stored
  <2>4. CASE i <= u
    <3>1. ~(q < k)
      BY <1>1, <2>4
    <3>2. i \in 1..GetUnreadSize
      BY <1>1, <2>4
    <3>3. Unread[i] = data[Advance(read_index, i - 1)]
      BY <3>2, UnreadType
    <3> QED
      BY <1>4, <1>5, <2>1, <2>3, <2>4, <3>1, <3>3
  <2>5. CASE i > u
    <3>1. q + 1 = i - u /\ q < k /\ ~(i <= u)
      BY <1>1, <2>5
    <3> QED
      BY <1>4, <1>5, <2>1, <2>3, <3>1
  <2>6. i <= u \/ i > u
    BY <1>1
  <2> QED
    BY <2>4, <2>5, <2>6
<1> QED
  BY <1>4, <1>5, <1>6, SeqEqual

\* Growing moves the unread bytes to the front and the message behind them.
LEMMA ResizeAppends ==
  ASSUME TypeOK, TypeOK', NEW d \in Message, NEW c \in Nat,
         c >= capacity + Len(d), ResizeAndInsert(c, d)
  PROVE  Unread' = Unread \o d
<1> DEFINE u == GetUnreadSize
           k == Len(d)
<1>1. k \in Nat \ {0} /\ u \in Nat /\ u + k <= c /\ c # capacity /\ c >= u
  BY UnreadBounds, MessageProperties
<1>2. /\ data_size' = c + 1 /\ read_index' = 0
      /\ data' = Stored(Moved(c), c + 1, u, d)
      /\ write_index' = u + k
  <2>1. (u + k) % (c + 1) = u + k
    <3>1. c + 1 \in Nat \ {0} /\ u \in 0..(c + 1) - 1 /\ k \in 0..c + 1
      BY <1>1
    <3> QED
      BY <1>1, <3>1, WrapOnce
  <2> QED
    BY <1>1, <2>1 DEF ResizeAndInsert
<1>3. GetUnreadSize' = u + k
  BY <1>1, <1>2 DEF GetUnreadSize
<1>4. /\ Unread' \in Seq(Byte \cup {Junk}) /\ Len(Unread') = u + k
      /\ \A i \in 1..u + k : Unread'[i] = data'[(0 + (i - 1)) % (c + 1)]
  BY UnreadTypeNext, <1>2, <1>3
<1>5. /\ Unread \o d \in Seq(Byte \cup {Junk}) /\ Len(Unread \o d) = u + k
      /\ \A i \in 1..u + k : (Unread \o d)[i] = IF i <= u THEN Unread[i] ELSE d[i - u]
  BY UnreadThenMessage
<1>6. ASSUME NEW i \in 1..u + k
      PROVE  Unread'[i] = (Unread \o d)[i]
  <2> DEFINE q == IF i - 1 >= u THEN i - 1 - u ELSE i - 1 + (c + 1) - u
  <2>1. (0 + (i - 1)) % (c + 1) = i - 1 /\ i - 1 \in 0..c
    <3>1. c + 1 \in Nat \ {0} /\ 0 \in 0..(c + 1) - 1 /\ i - 1 \in 0..c + 1 /\ i - 1 < c + 1
      BY <1>1
    <3>2. (0 + (i - 1)) % (c + 1) = IF 0 + (i - 1) < c + 1 THEN 0 + (i - 1) ELSE 0 + (i - 1) - (c + 1)
      BY <3>1, WrapOnce
    <3> QED
      BY <3>1, <3>2
  <2>2. ((i - 1) + (c + 1) - u) % (c + 1) = q
    <3>1. /\ c + 1 \in Nat \ {0} /\ i - 1 \in 0..(c + 1) - 1 /\ (c + 1) - u \in 0..c + 1
          /\ (i - 1) + (c + 1) - u = (i - 1) + ((c + 1) - u)
      BY <1>1
    <3>2. ((i - 1) + ((c + 1) - u)) % (c + 1) =
            IF (i - 1) + ((c + 1) - u) < c + 1 THEN (i - 1) + ((c + 1) - u)
            ELSE (i - 1) + ((c + 1) - u) - (c + 1)
      BY <3>1, WrapOnce
    <3> QED
      BY <1>1, <3>1, <3>2
  <2>3. data'[i - 1] = IF q < k THEN d[q + 1] ELSE Moved(c)[i - 1]
    <3>1. i - 1 \in 0..(c + 1) - 1
      BY <2>1
    <3> QED
      BY <1>2, <2>2, <3>1, StoredAt
  <2>4. CASE i <= u
    <3>1. ~(q < k)
      BY <1>1, <2>4
    <3>2. Moved(c)[i - 1] = data[Advance(read_index, i - 1)]
      BY <1>1, <2>1, <2>4 DEF Moved
    <3>3. Unread[i] = data[Advance(read_index, i - 1)]
      BY <1>1, <2>4, UnreadType
    <3> QED
      BY <1>4, <1>5, <2>1, <2>3, <2>4, <3>1, <3>2, <3>3
  <2>5. CASE i > u
    <3>1. q + 1 = i - u /\ q < k /\ ~(i <= u)
      BY <1>1, <2>5
    <3> QED
      BY <1>4, <1>5, <2>1, <2>3, <3>1
  <2>6. i <= u \/ i > u
    BY <1>1
  <2> QED
    BY <2>4, <2>5, <2>6
<1> QED
  BY <1>4, <1>5, <1>6, SeqEqual

\* Taking n bytes from the front, whether by read or by a write() that accepted
\* them, leaves the rest in place.
LEMMA AdvanceTakes ==
  ASSUME TypeOK, TypeOK', NEW n \in 1..GetUnreadSize,
         read_index' = Advance(read_index, n),
         UNCHANGED <<data_size, data, write_index>>
  PROVE  Unread' = SubSeq(Unread, n + 1, Len(Unread))
<1> DEFINE m == data_size
           r == read_index
           w == write_index
           u == GetUnreadSize
<1>1. /\ m \in Nat \ {0} /\ r \in 0..m - 1 /\ w \in 0..m - 1 /\ n \in Nat
      /\ u \in 0..m - 1 /\ 1 <= n /\ n <= u
      /\ u = IF w >= r THEN w - r ELSE m - r + w
  BY UnreadBounds DEF TypeOK, GetUnreadSize
<1>2. read_index' = IF r + n < m THEN r + n ELSE r + n - m
  <2>1. n \in 0..m
    BY <1>1
  <2> QED
    BY <1>1, <2>1, WrapOnce DEF Advance
<1>3. GetUnreadSize' = u - n
  BY <1>1, <1>2 DEF GetUnreadSize
<1>4. /\ Unread' \in Seq(Byte \cup {Junk}) /\ Len(Unread') = u - n
      /\ \A i \in 1..u - n : Unread'[i] = data[(read_index' + (i - 1)) % m]
  BY UnreadTypeNext, <1>3
<1>5. Unread \in Seq(Byte \cup {Junk}) /\ Len(Unread) = u
  BY UnreadType
<1>6. /\ SubSeq(Unread, n + 1, u) \in Seq(Byte \cup {Junk})
      /\ Len(SubSeq(Unread, n + 1, u)) = u - n
      /\ \A i \in 1..u - n : SubSeq(Unread, n + 1, u)[i] = Unread[n + i]
  <2>1. \A i \in n + 1..u : Unread[i] \in Byte \cup {Junk}
    BY <1>1, <1>5
  <2>2. /\ SubSeq(Unread, n + 1, u) \in Seq(Byte \cup {Junk})
        /\ Len(SubSeq(Unread, n + 1, u)) = IF n + 1 <= u THEN u - (n + 1) + 1 ELSE 0
        /\ \A i \in 1..u - (n + 1) + 1 : SubSeq(Unread, n + 1, u)[i] = Unread[n + 1 + i - 1]
    <3>1. n + 1 \in Int /\ u \in Int
      BY <1>1
    <3> QED
      BY <2>1, <3>1, SubSeqProperties
  <2> QED
    BY <1>1, <2>2
<1>7. ASSUME NEW i \in 1..u - n
      PROVE  Unread'[i] = SubSeq(Unread, n + 1, u)[i]
  <2>1. n + i \in 1..GetUnreadSize /\ (n + i) - 1 \in 0..m
    BY <1>1
  <2>2. Unread[n + i] = data[Advance(r, (n + i) - 1)]
    BY <2>1, UnreadType
  <2>3. (r + ((n + i) - 1)) % m =
          IF r + ((n + i) - 1) < m THEN r + ((n + i) - 1) ELSE r + ((n + i) - 1) - m
    BY <1>1, <2>1, WrapOnce
  <2>4. (read_index' + (i - 1)) % m =
          IF read_index' + (i - 1) < m THEN read_index' + (i - 1) ELSE read_index' + (i - 1) - m
    <3>1. read_index' \in 0..m - 1 /\ i - 1 \in 0..m
      BY <1>1, <1>2
    <3> QED
      BY <1>1, <3>1, WrapOnce
  <2>5. (read_index' + (i - 1)) % m = (r + ((n + i) - 1)) % m
    BY <1>1, <1>2, <2>3, <2>4
  <2> QED
    BY <1>4, <1>6, <2>2, <2>5 DEF Advance
<1>8. Unread' = SubSeq(Unread, n + 1, u)
  BY <1>4, <1>6, <1>7, SeqEqual
<1> QED
  BY <1>5, <1>8

\* What one write() accepts is the front of the unread bytes.
LEMMA SockTakesFront ==
  ASSUME TypeOK, NEW n \in 1..max_capacity, n <= cur_send_len, GetUnreadSize > 0
  PROVE  /\ n \in 1..GetUnreadSize
         /\ [i \in 1..n |-> data[read_index + i - 1]] = SubSeq(Unread, 1, n)
<1> DEFINE f == [i \in 1..n |-> data[read_index + i - 1]]
<1>1. /\ n \in Nat /\ n > 0 /\ n <= GetUnreadSize /\ n \in Int /\ GetUnreadSize \in Nat
      /\ read_index + n <= data_size
      /\ data_size \in Nat \ {0} /\ read_index \in 0..data_size - 1
  BY MaxCapacityProperties, UnreadBounds DEF cur_send_len, GetUnreadSize, TypeOK
<1>2. \A i \in 1..n : Unread[i] = data[read_index + i - 1]
  <2> SUFFICES ASSUME NEW i \in 1..n
               PROVE  Unread[i] = data[read_index + i - 1]
    OBVIOUS
  <2>1. i \in 1..GetUnreadSize /\ i - 1 \in 0..data_size
    BY <1>1
  <2>2. (read_index + (i - 1)) % data_size = read_index + i - 1
    <3>1. (read_index + (i - 1)) % data_size =
            IF read_index + (i - 1) < data_size THEN read_index + (i - 1)
            ELSE read_index + (i - 1) - data_size
      BY <1>1, <2>1, WrapOnce
    <3> QED
      BY <1>1, <3>1
  <2> QED
    BY <2>1, <2>2, UnreadType DEF Advance
<1>3. \A i \in 1..n : Unread[i] \in Byte \cup {Junk}
  BY <1>1, UnreadType
<1>4. /\ SubSeq(Unread, 1, n) \in Seq(Byte \cup {Junk})
      /\ Len(SubSeq(Unread, 1, n)) = n
      /\ \A i \in 1..n : SubSeq(Unread, 1, n)[i] = Unread[i]
  <2>1. /\ SubSeq(Unread, 1, n) \in Seq(Byte \cup {Junk})
        /\ Len(SubSeq(Unread, 1, n)) = IF 1 <= n THEN n - 1 + 1 ELSE 0
        /\ \A i \in 1..n - 1 + 1 : SubSeq(Unread, 1, n)[i] = Unread[1 + i - 1]
    BY <1>1, <1>3, SubSeqProperties
  <2> QED
    BY <1>1, <2>1
<1>5. f \in Seq(Byte \cup {Junk}) /\ Len(f) = n
  <2>1. \A i \in 1..n : data[read_index + i - 1] \in Byte \cup {Junk}
    BY <1>2, <1>3
  <2> QED
    BY <1>1, <2>1
<1>6. \A i \in 1..n : f[i] = SubSeq(Unread, 1, n)[i]
  BY <1>2, <1>4
<1>7. f = SubSeq(Unread, 1, n)
  BY <1>4, <1>5, <1>6, SeqEqual
<1> QED
  BY <1>1, <1>7

\* The unread bytes depend on the array and its two indices only.
LEMMA UnreadUnchanged ==
  UNCHANGED <<data_size, data, read_index, write_index>> => Unread' = Unread
  BY DEF Unread, GetUnreadSize, Advance

\* Every operation is one of the abstract queue or changes nothing there.
LEMMA RefinesNext ==
  ASSUME WriteMayFail = FALSE, TypeOK, TypeOK', GrowthInBounds, [Next]_vars
  PROVE  [Queue!Next]_(Queue!vars)
<1>1. ASSUME NEW d \in Message, WriteFits(d) PROVE Queue!Next
  <2>1. Unread' = Unread \o d
    <3>1. Len(d) <= getFreeSize
      BY <1>1, MessageProperties, UnreadBounds DEF WriteFits, getFreeSize
    <3> QED
      BY <1>1, <3>1, InsertAppends DEF WriteFits
  <2> QED
    BY <1>1, <2>1 DEF WriteFits, Queue!Next, Queue!Put
<1>2. ASSUME NEW d \in Message, WriteRefused(d) PROVE Queue!Next
  <2>1. Unread' = Unread
    BY <1>2, UnreadUnchanged DEF WriteRefused
  <2>2. Len(Unread) + Len(d) > InitCapacity
    BY <1>2, UnreadType, UnreadBounds, MessageProperties, MaxCapacityProperties,
       BufferAssumption
       DEF WriteRefused, getFreeSize, TypeOK, BufferAssumption
  <2> QED
    BY <1>2, <2>1, <2>2 DEF WriteRefused, Queue!Next, Queue!Refuse
<1>3. ASSUME NEW d \in Message, WriteGrows(d) PROVE Queue!Next
  <2>1. DirectCap(d) \in Nat /\ DirectCap(d) >= capacity + Len(d)
    BY <1>3, DirectCapBounds, UnreadBounds, MaxCapacityProperties
       DEF WriteGrows, min_cap_need
  <2>2. Unread' = Unread \o d
    BY <1>3, <2>1, ResizeAppends DEF WriteGrows
  <2> QED
    BY <1>3, <2>2 DEF WriteGrows, Queue!Next, Queue!Put
<1>4. ASSUME NEW d \in Message, WriteEntersLoop(d) PROVE UNCHANGED Queue!vars
  BY <1>4, UnreadUnchanged DEF WriteEntersLoop, Queue!vars
<1>5. CASE GrowStep
  BY <1>5, UnreadUnchanged DEF GrowStep, Queue!vars
<1>6. CASE GrowDone
  <2>1. pending \in Message /\ newcap \in Nat /\ newcap >= capacity + Len(pending)
    BY <1>6, MaxCapacityProperties DEF GrowDone, min_cap_need, TypeOK
  <2>2. Unread' = Unread \o pending
    BY <1>6, <2>1, ResizeAppends DEF GrowDone
  <2> QED
    BY <1>6, <2>1, <2>2 DEF GrowDone, Queue!Next, Queue!Put
<1>7. ASSUME NEW n \in 1..max_capacity, read(n) PROVE Queue!Next
  <2>1. n \in 1..GetUnreadSize /\ n \in 1..Len(Unread)
    BY <1>7, MaxCapacityProperties, UnreadBounds, UnreadType DEF read
  <2>2. Unread' = SubSeq(Unread, n + 1, Len(Unread))
    BY <1>7, <2>1, AdvanceTakes DEF read
  <2> QED
    BY <1>7, <2>1, <2>2 DEF read, Queue!Next, Queue!Take
<1>8. ASSUME NEW n \in 1..max_capacity, SockWrite(n) PROVE Queue!Next
  <2>1. n \in 1..GetUnreadSize /\ out' = SubSeq(Unread, 1, n)
    BY <1>8, SockTakesFront DEF SockWrite
  <2>2. n \in 1..Len(Unread)
    BY <2>1, UnreadType
  <2>3. Unread' = SubSeq(Unread, n + 1, Len(Unread))
    BY <1>8, <2>1, AdvanceTakes DEF SockWrite
  <2> QED
    BY <2>1, <2>2, <2>3 DEF Queue!Next, Queue!Take
<1>9. CASE UNCHANGED vars
  BY <1>9, UnreadUnchanged DEF vars, Queue!vars
<1>10. ~SockWriteError
  BY DEF SockWriteError
<1>11. Queue!Next \/ UNCHANGED Queue!vars
  <2>1. ASSUME \E d \in Message : WriteToBuffer(d)
        PROVE  Queue!Next \/ UNCHANGED Queue!vars
    BY ONLY <1>1, <1>2, <1>3, <1>4, <2>1, Zenon DEF WriteToBuffer
  <2>2. ASSUME \E n \in 1..max_capacity : read(n) \/ SockWrite(n)
        PROVE  Queue!Next
    BY ONLY <1>7, <1>8, <2>2, Zenon
  <2> QED
    BY <1>5, <1>6, <1>9, <1>10, <2>1, <2>2, Zenon DEF Next
<1> QED
  BY ONLY <1>11, Zenon

\* For every capacity, growth limit and message length: as long as write()
\* on the socket does not return an error, the ring buffer with its
\* wrap-around and its two ways of growing is a FIFO queue of bytes.
THEOREM BufferIsFifo ==
  ASSUME WriteMayFail = FALSE
  PROVE  Spec => Fifo
<1>1. Init => Queue!Init
  <2> SUFFICES ASSUME Init PROVE Unread = << >> /\ out = << >>
    BY DEF Queue!Init
  <2>1. GetUnreadSize = 0
    BY DEF Init, GetUnreadSize
  <2> QED
    BY <2>1 DEF Init, Unread
<1>2. TypeOK /\ TypeOK' /\ GrowthInBounds /\ [Next]_vars => [Queue!Next]_(Queue!vars)
  BY RefinesNext
<1> QED
  BY <1>1, <1>2, TypeCorrect, GrowthStaysInBounds, PTL DEF Spec, Fifo, Queue!Spec
============================================================================

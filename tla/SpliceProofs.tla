---------------------------- MODULE SpliceProofs ----------------------------
(***************************************************************************)
(* Proofs about Splice, for every capacity of pipes and sockets, every     *)
(* amount of data and every width of the counts.                           *)
(***************************************************************************)
EXTENDS Splice, TLAPS

\* The smallest of two or three naturals is one of them.
LEMMA MinOfTwo ==
  ASSUME NEW a \in Nat, NEW b \in Nat
  PROVE  Min({a, b}) \in {a, b} /\ Min({a, b}) <= a /\ Min({a, b}) <= b
<1>1. \E x \in {a, b} : \A y \in {a, b} : x <= y
  <2>1. CASE a <= b
    BY <2>1
  <2>2. CASE ~(a <= b)
    BY <2>2
  <2> QED BY <2>1, <2>2
<1> QED BY <1>1 DEF Min

LEMMA MinOfThree ==
  ASSUME NEW a \in Nat, NEW b \in Nat, NEW c \in Nat
  PROVE  /\ Min({a, b, c}) \in {a, b, c}
         /\ Min({a, b, c}) <= a /\ Min({a, b, c}) <= b /\ Min({a, b, c}) <= c
<1>1. \E x \in {a, b, c} : \A y \in {a, b, c} : x <= y
  <2>1. CASE a <= b /\ a <= c
    BY <2>1
  <2>2. CASE b <= a /\ b <= c
    BY <2>2
  <2>3. CASE c <= a /\ c <= b
    BY <2>3
  <2> QED BY <2>1, <2>2, <2>3
<1> QED BY <1>1 DEF Min

\* Counts are residues, and below 2^w they are the sums they stand for.
LEMMA AddIsCount ==
  ASSUME NEW i \in Nat, NEW n \in Nat
  PROVE  /\ Add(i, n) \in 0..MinusOne
         /\ i + n <= MinusOne => Add(i, n) = i + n
  BY SpliceAssumption DEF Add, MinusOne
----------------------------------------------------------------------------
(***************************************************************************)
(* Where the bytes are                                                     *)
(***************************************************************************)

\* Every byte is in one place; a hop is about to write what its pipe holds, and
\* on the server it leaves nothing there.
Flow ==
  /\ \A h \in Hop : todo[h] <= pipe[h]
  /\ sent = sock[0] + pipe[1] + sock[1] + pipe[2] + sock[2] + got
  /\ dir = "toLocal" => pipe[1] = todo[1]

\* Below 2^w - 1 bytes the counts are what was moved, the announced one is that
\* of the end of the stream, and the receiver is shut when they agree.
Counted ==
  sent < MinusOne =>
    /\ recv_count = got + sock[2]
    /\ tran_count = recv_count + pipe[2] + sock[1]
    /\ notified # {} => /\ closing /\ notified = {tran_count}
                       /\ theoretical_total_recv_count = MinusOne
    /\ theoretical_total_recv_count # MinusOne =>
         closing /\ theoretical_total_recv_count = tran_count
    /\ shut => closing /\ recv_count = tran_count

\* At the end of the stream hop 1 is done.
Ended == closing => closed /\ sock[0] = 0 /\ todo[1] = 0

Inv == TypeOK /\ Flow /\ Counted /\ Ended

LEMMA InvInit == Init => Inv
<1> SUFFICES ASSUME Init PROVE Inv
  OBVIOUS
<1>1. TypeOK
  <2>1. closed \in BOOLEAN /\ closing \in BOOLEAN /\ shut \in BOOLEAN
    BY Zenon DEF Init
  <2>2. /\ sock \in [0..2 -> 0..SockCap]
        /\ pipe \in [Hop -> 0..PipeCap] /\ todo \in [Hop -> 0..Length]
    BY SpliceAssumption DEF Init
  <2>3. {tran_count, recv_count, theoretical_total_recv_count} \subseteq 0..MinusOne
    BY SpliceAssumption DEF Init, MinusOne
  <2>4. sent \in 0..Total /\ got \in 0..Total
    BY SpliceAssumption DEF Init
  <2> QED BY <2>1, <2>2, <2>3, <2>4 DEF Init, TypeOK
<1>2. Flow
  BY DEF Init, Flow, Hop
<1>3. Counted /\ Ended
  BY DEF Init, Counted, Ended, Hop
<1> QED BY <1>1, <1>2, <1>3 DEF Inv

LEMMA InvSender == Inv /\ SenderWrites => Inv'
  BY SpliceAssumption, SMT
  DEF SenderWrites, Inv, TypeOK, Flow, Counted, Ended, MinusOne, Hop

LEMMA InvCloses == Inv /\ SenderCloses => Inv'
  BY SpliceAssumption, SMT
  DEF SenderCloses, Inv, TypeOK, Flow, Counted, Ended, MinusOne, Hop

LEMMA InvReceiver == Inv /\ ReceiverReads => Inv'
  BY SpliceAssumption, SMT
  DEF ReceiverReads, Inv, TypeOK, Flow, Counted, Ended, MinusOne, Hop

LEMMA InvReadEof == Inv /\ ReadEof => Inv'
  BY SpliceAssumption, SMT
  DEF ReadEof, Inv, TypeOK, Flow, Counted, Ended, MinusOne, Hop

LEMMA InvReadIntoPipe ==
  ASSUME Inv, NEW h \in Hop, ReadIntoPipe(h)
  PROVE  Inv'
<1> USE SpliceAssumption
<1>0. /\ Length \in Nat /\ sock[h - 1] \in Nat /\ PipeCap - pipe[h] \in Nat
  BY DEF Inv, TypeOK, Hop
<1>1. /\ Spliced(h) \in Nat /\ Spliced(h) <= Length /\ Spliced(h) <= sock[h - 1]
      /\ Spliced(h) <= PipeCap - pipe[h]
  BY <1>0, MinOfThree DEF Spliced
<1>2. CASE h = 1
  BY <1>1, <1>2 DEF ReadIntoPipe, Inv, TypeOK, Flow, Counted, Ended, MinusOne, Hop
<1>3. CASE h = 2
  BY <1>1, <1>3 DEF ReadIntoPipe, Inv, TypeOK, Flow, Counted, Ended, MinusOne, Hop
<1> QED BY <1>2, <1>3 DEF Hop

\* What the second splice moves is no more than was read and than there is room.
LEMMA MovedBounds ==
  ASSUME TypeOK, NEW h \in Hop
  PROVE  /\ Moved(h) \in Nat /\ Moved(h) <= todo[h]
         /\ Moved(h) <= SockCap - sock[h]
<1>1. todo[h] \in Nat /\ SockCap - sock[h] \in Nat
  BY SpliceAssumption DEF TypeOK, Hop
<1> QED BY <1>1, MinOfTwo DEF Moved

LEMMA InvWriteToProxy == Inv /\ WriteFromPipe(1) => Inv'
<1> SUFFICES ASSUME Inv, WriteFromPipe(1) PROVE Inv'
  OBVIOUS
<1> USE SpliceAssumption
<1>1. /\ Moved(1) \in Nat /\ Moved(1) <= todo[1] /\ Moved(1) <= SockCap - sock[1]
  BY MovedBounds DEF Inv, Hop
<1>2. tran_count \in Nat
  BY DEF Inv, TypeOK, MinusOne
<1>3. /\ tran_count' \in 0..MinusOne
      /\ tran_count + Moved(1) <= MinusOne => tran_count' = tran_count + Moved(1)
  BY <1>1, <1>2, AddIsCount DEF WriteFromPipe, CountMoved
<1>4. dir = "toLocal" => Moved(1) = todo[1]
  BY DEF WriteFromPipe, Blocks, SinkShut
<1>5. ~closing
  BY DEF WriteFromPipe, Inv, Ended
<1>6. TypeOK'
  BY <1>1, <1>3 DEF WriteFromPipe, Inv, TypeOK, Flow, Hop
<1>7. Flow'
  BY <1>1, <1>4 DEF WriteFromPipe, Inv, TypeOK, Flow, Hop
<1>8. Counted'
  BY <1>1, <1>3, <1>5 DEF WriteFromPipe, Inv, TypeOK, Flow, Counted, MinusOne, Hop
<1>9. Ended'
  BY <1>5 DEF WriteFromPipe, Ended
<1> QED BY <1>6, <1>7, <1>8, <1>9 DEF Inv

LEMMA InvWriteToEnd == Inv /\ WriteFromPipe(2) => Inv'
<1> SUFFICES ASSUME Inv, WriteFromPipe(2) PROVE Inv'
  OBVIOUS
<1> USE SpliceAssumption
<1>1. /\ Moved(2) \in Nat /\ Moved(2) <= todo[2] /\ Moved(2) <= SockCap - sock[2]
  BY MovedBounds DEF Inv, Hop
<1>2. recv_count \in Nat
  BY DEF Inv, TypeOK, MinusOne
<1>3. /\ recv_count' \in 0..MinusOne
      /\ recv_count + Moved(2) <= MinusOne => recv_count' = recv_count + Moved(2)
  BY <1>1, <1>2, AddIsCount DEF WriteFromPipe, CountMoved
<1>6. TypeOK'
  BY <1>1, <1>3 DEF WriteFromPipe, Inv, TypeOK, Flow, Hop
<1>7. Flow'
  BY <1>1 DEF WriteFromPipe, Inv, TypeOK, Flow, Hop
<1>8. Counted'
  BY <1>1, <1>3 DEF WriteFromPipe, Inv, TypeOK, Flow, Counted, MinusOne, Hop
<1>9. Ended'
  BY DEF WriteFromPipe, Inv, TypeOK, Ended, Hop
<1> QED BY <1>6, <1>7, <1>8, <1>9 DEF Inv

LEMMA InvHandleShutdown ==
  ASSUME Inv, NEW n \in notified, HandleShutdown(n)
  PROVE  Inv'
<1> USE SpliceAssumption
<1>1. n \in 0..MinusOne /\ theoretical_total_recv_count \in Nat
  BY DEF Inv, TypeOK, MinusOne
<1>2. theoretical_total_recv_count' \in 0..MinusOne
  BY <1>1, AddIsCount DEF HandleShutdown, IncrTheoretical
<1>3. sent < MinusOne => closing /\ theoretical_total_recv_count' = tran_count
  BY <1>1 DEF HandleShutdown, IncrTheoretical, Inv, Counted
<1>4. TypeOK'
  BY <1>2 DEF HandleShutdown, Inv, TypeOK
<1>5. Flow' /\ Ended'
  BY DEF HandleShutdown, Inv, Flow, Ended
<1>6. Counted'
  BY <1>3 DEF HandleShutdown, Inv, TypeOK, Counted, MinusOne
<1> QED BY <1>4, <1>5, <1>6 DEF Inv

LEMMA InvStutter == Inv /\ UNCHANGED vars => Inv'
  BY SMT DEF vars, Inv, TypeOK, Flow, Counted, Ended

LEMMA InvNext == Inv /\ [Next]_vars => Inv'
<1> SUFFICES ASSUME Inv, [Next]_vars PROVE Inv'
  OBVIOUS
<1>1. CASE SenderWrites
  BY <1>1, InvSender
<1>2. CASE SenderCloses
  BY <1>2, InvCloses
<1>3. CASE ReceiverReads
  BY <1>3, InvReceiver
<1>4. ASSUME NEW h \in Hop, HopStep(h) PROVE Inv'
  BY <1>4, InvReadIntoPipe, InvWriteToProxy, InvWriteToEnd DEF HopStep, Hop
<1>5. CASE ReadEof
  BY <1>5, InvReadEof
<1>6. CASE Notified
  BY <1>6, InvHandleShutdown DEF Notified
<1>7. CASE UNCHANGED vars
  BY <1>7, InvStutter
<1> QED BY <1>1, <1>2, <1>3, <1>4, <1>5, <1>6, <1>7 DEF Next

LEMMA InvForwards == Inv => EofAfterForwarded
<1> SUFFICES ASSUME Inv, shut, sent < MinusOne
             PROVE  /\ sock[0] = 0 /\ sock[1] = 0 /\ pipe[2] = 0
                    /\ got + sock[2] + pipe[1] = sent
                    /\ dir = "toLocal" => pipe[1] = 0
  BY DEF EofAfterForwarded
<1>1. closing /\ recv_count = tran_count
  BY DEF Inv, Counted
<1>2. sock[0] = 0 /\ todo[1] = 0
  BY <1>1 DEF Inv, Ended
<1>3. sock[1] = 0 /\ pipe[2] = 0
  BY <1>1 DEF Inv, TypeOK, Counted, MinusOne, Hop
<1>4. got + sock[2] + pipe[1] = sent
  BY <1>2, <1>3 DEF Inv, TypeOK, Flow, Hop
<1> QED BY <1>2, <1>3, <1>4 DEF Inv, Flow

\* No pipe or socket is ever asked to hold more than it can, and the counts are
\* int values, however full the connections of a session get.
THEOREM TypeCorrect == Spec => []TypeOK
<1>1. Inv => TypeOK
  BY DEF Inv
<1> QED BY <1>1, InvInit, InvNext, PTL DEF Spec

\* shutdownPublicConn and shutdonwLocalConn shut the receiving end only when all
\* that was sent has been forwarded, but for what the client's pipe kept: for
\* every capacity and every amount of data the counts can tell from -1.
THEOREM ForwardsBeforeShut == Spec => []EofAfterForwarded
<1> QED BY InvForwards, InvInit, InvNext, PTL DEF Spec
============================================================================

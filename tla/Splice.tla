------------------------------- MODULE Splice --------------------------------
(***************************************************************************)
(* One direction of one session, with sockets that fill up: from an end to *)
(* its connection (hop 1: PublicConn or LocalConn::handleRead), over the   *)
(* proxy connection, to the other end (hop 2: ProxyConn::handleRead).      *)
(*                                                                         *)
(* A hop splices from its source socket into its pipe and from the pipe    *)
(* into its sink.  The server's sockets come from accept and block, the    *)
(* client's come from tcp_connect and do not.  Bytes are counted; that     *)
(* sockets and pipes keep their order is the kernel's.  In units of bytes, *)
(* sizes are small.                                                        *)
(***************************************************************************)
EXTENDS Integers, FiniteSetsExt

CONSTANTS
  Total,     \* bound: the bytes the sending end writes
  Length,    \* the length given to splice (2048)
  PipeCap,   \* what a pipe holds
  SockCap,   \* what a connection holds between its two applications
  CountMod   \* 2^w for the w-bit int the counts are kept in

ASSUME SpliceAssumption ==
  /\ Total \in Nat /\ Length \in Nat \ {0}
  /\ PipeCap \in Nat /\ PipeCap >= Length
  /\ SockCap \in Nat /\ SockCap >= Length
  /\ CountMod \in Nat /\ CountMod > 1

Hop == {1, 2}
Direction == {"toLocal", "toPublic"}

VARIABLES
  dir,        \* which way the bytes go
  sent, got,  \* written by the one end, read by the other
  closed,     \* the sending end has closed
  sock,       \* bytes in the connections: 0 sender's, 1 proxy, 2 receiver's
  pipe,       \* bytes in the pipe of each hop
  todo,       \* bytes a hop has read and is about to write: bs
  tran_count, recv_count, theoretical_total_recv_count,
  closing,    \* closing_ of hop 1
  notified,   \* the tran_count on its way to the other side, if there is one
  shut        \* shutdown() was called on the receiving end

vars == <<dir, sent, got, closed, sock, pipe, todo, tran_count, recv_count,
          theoretical_total_recv_count, closing, notified, shut>>

\* The hop runs on the server.
Blocks(h) == (dir = "toLocal") = (h = 1)

\* An int is the residue it has in two's complement, and -1 the largest one.
MinusOne == CountMod - 1
Add(i, n) == (i + n) % CountMod

Init ==
  /\ dir \in Direction
  /\ sent = 0 /\ got = 0 /\ closed = FALSE
  /\ sock = [s \in 0..2 |-> 0]
  /\ pipe = [h \in Hop |-> 0] /\ todo = [h \in Hop |-> 0]
  /\ tran_count = 0 /\ recv_count = 0 /\ theoretical_total_recv_count = MinusOne
  /\ closing = FALSE /\ notified = {} /\ shut = FALSE

----------------------------------------------------------------------------
\* The applications
SenderWrites ==
  /\ ~closed /\ sent < Total /\ sock[0] < SockCap
  /\ sent' = sent + 1
  /\ sock' = [sock EXCEPT ![0] = @ + 1]
  /\ UNCHANGED <<dir, got, closed, pipe, todo, tran_count, recv_count,
                 theoretical_total_recv_count, closing, notified, shut>>

SenderCloses ==
  /\ ~closed /\ closed' = TRUE
  /\ UNCHANGED <<dir, sent, got, sock, pipe, todo, tran_count, recv_count,
                 theoretical_total_recv_count, closing, notified, shut>>

ReceiverReads ==
  /\ sock[2] > 0
  /\ got' = got + 1
  /\ sock' = [sock EXCEPT ![2] = @ - 1]
  /\ UNCHANGED <<dir, sent, closed, pipe, todo, tran_count, recv_count,
                 theoretical_total_recv_count, closing, notified, shut>>

----------------------------------------------------------------------------
\* Mutated form: the pipe takes whatever there is.
PipeTakesAll(h) == Min({Length, sock[h - 1]})

\* What the first splice of a hop moves; with a full pipe it fails, and so it
\* does at each event that follows.
Spliced(h) == Min({Length, sock[h - 1], PipeCap - pipe[h]})

\* handleRead: from the source into the pipe
ReadIntoPipe(h) ==
  /\ todo[h] = 0 /\ Spliced(h) > 0
  /\ sock' = [sock EXCEPT ![h - 1] = @ - Spliced(h)]
  /\ pipe' = [pipe EXCEPT ![h] = @ + Spliced(h)]
  /\ todo' = [todo EXCEPT ![h] = Spliced(h)]
  /\ UNCHANGED <<dir, sent, got, closed, tran_count, recv_count,
                 theoretical_total_recv_count, closing, notified, shut>>

\* The sink was shut before: the second splice fails.
SinkShut(h) == h = 2 /\ shut

\* What the second splice moves: all that was read, or what a socket that does
\* not block has room for.  Older bytes of the pipe go first.
Moved(h) == IF SinkShut(h) THEN 0 ELSE Min({todo[h], SockCap - sock[h]})

\* Mutated form: what was read is counted.
CountRead(h) == todo[h]

\* bs after the second splice, by which the count is increased
CountMoved(h) == Moved(h)

\* handleRead: from the pipe into the sink.  The bytes that did not fit stay in
\* the pipe, and nothing but the next bytes from the source moves them on.
WriteFromPipe(h) ==
  /\ todo[h] > 0
  /\ Blocks(h) => SinkShut(h) \/ Moved(h) = todo[h]
  /\ sock' = [sock EXCEPT ![h] = @ + Moved(h)]
  /\ pipe' = [pipe EXCEPT ![h] = @ - Moved(h)]
  /\ todo' = [todo EXCEPT ![h] = 0]
  /\ IF h = 1
     THEN /\ tran_count' = Add(tran_count, CountMoved(h))
          /\ UNCHANGED <<recv_count, shut>>
     ELSE /\ recv_count' = Add(recv_count, CountMoved(h))
          /\ shut' = (shut \/ (Moved(h) > 0 /\ recv_count' = theoretical_total_recv_count))
          /\ UNCHANGED tran_count
  /\ UNCHANGED <<dir, sent, got, closed, theoretical_total_recv_count, closing, notified>>

----------------------------------------------------------------------------
\* handleRead of hop 1 reads end-of-stream: shutdownFromPublic, shutdownFromLocal.
\* With a full pipe splice fails before it looks at the socket.
ReadEof ==
  /\ closed /\ sock[0] = 0
  /\ todo[1] = 0 /\ pipe[1] < PipeCap /\ ~closing
  /\ closing' = TRUE
  /\ notified' = {tran_count}
  /\ UNCHANGED <<dir, sent, got, closed, sock, pipe, todo, tran_count, recv_count,
                 theoretical_total_recv_count, shut>>

\* Mutated form: without the sentinel's case.
IncrPlain(n) == Add(theoretical_total_recv_count, n)

\* TranConn::incrTheoreticalTotalRecvCount
IncrTheoretical(n) ==
  IF theoretical_total_recv_count = MinusOne THEN n
  ELSE Add(theoretical_total_recv_count, n)

\* handleShutdownPublicConn / handleShutdownLocalConn with the comparison and
\* ProxyConn::shutdownFromRemote
HandleShutdown(n) ==
  /\ n \in notified
  /\ notified' = {}
  /\ theoretical_total_recv_count' = IncrTheoretical(n)
  /\ shut' = (shut \/ recv_count = theoretical_total_recv_count')
  /\ UNCHANGED <<dir, sent, got, closed, sock, pipe, todo, tran_count, recv_count, closing>>

----------------------------------------------------------------------------
HopStep(h) == ReadIntoPipe(h) \/ WriteFromPipe(h)
Notified == \E n \in notified : HandleShutdown(n)

Next ==
  \/ SenderWrites \/ SenderCloses \/ ReceiverReads
  \/ \E h \in Hop : HopStep(h)
  \/ ReadEof \/ Notified

Spec == Init /\ [][Next]_vars

\* The threads serve what is ready, and the receiver goes on reading.  The
\* sender need not close.
FairSpec ==
  /\ Spec
  /\ \A h \in Hop : WF_vars(HopStep(h))
  /\ WF_vars(ReadEof) /\ WF_vars(Notified) /\ WF_vars(ReceiverReads)

----------------------------------------------------------------------------
(***************************************************************************)
(* Properties                                                              *)
(***************************************************************************)
TypeOK ==
  /\ dir \in Direction
  /\ sent \in 0..Total /\ got \in 0..Total
  /\ closed \in BOOLEAN /\ closing \in BOOLEAN /\ shut \in BOOLEAN
  /\ sock \in [0..2 -> 0..SockCap]
  /\ pipe \in [Hop -> 0..PipeCap] /\ todo \in [Hop -> 0..Length]
  /\ {tran_count, recv_count, theoretical_total_recv_count} \subseteq 0..MinusOne
  /\ notified \subseteq 0..MinusOne

\* The receiving end is shut only after everything that reached the proxy connection
\* was forwarded to it: however full the sockets get, nothing is left behind on the
\* side that calls shutdown or on its way there, and the server as the sender's side
\* keeps nothing back.  All this below 2^w - 1 bytes: there recv_count_ runs into the
\* -1 that stands for a count that was not announced.
EofAfterForwarded ==
  shut /\ sent < MinusOne =>
    /\ sock[0] = 0 /\ sock[1] = 0 /\ pipe[2] = 0
    /\ got + sock[2] + pipe[1] = sent
    /\ dir = "toLocal" => pipe[1] = 0

\* README: all data must be forwarded before shutdown is called.  It is not: what
\* the client's LocalConn spliced into its pipe and could not move on into a full
\* proxy connection is neither counted nor waited for, and the public client sees
\* a clean end of the stream without it.
AllForwarded == shut /\ sent < MinusOne => got + sock[2] = sent

\* The receiving end is told of the end of the stream, unless bytes stay behind
\* in the second pipe or the first one stays full; also when the counts wrap.
EndsUnlessStuck ==
  []<>(pipe[2] = 0 /\ pipe[1] < PipeCap) => (closed ~> shut)
============================================================================

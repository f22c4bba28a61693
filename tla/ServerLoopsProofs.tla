------------------------- MODULE ServerLoopsProofs --------------------------
(***************************************************************************)
(* Proofs about ServerLoops, for every number of workers, ports and        *)
(* connections, and whatever accept, the flags and the workers do.         *)
(***************************************************************************)
EXTENDS ServerLoops, TLAPS

USE DEF Listener, Thread, Poller

LEMMA TypeInit == Init => TypeOK
<1> SUFFICES ASSUME Init PROVE TypeOK
  OBVIOUS
<1> USE ServerLoopsAssumption DEF Init
<1>1. main \in [pc : {"new", "create", "start", "loop"}, i : Thread]
  OBVIOUS
<1>2. thread \in [Thread -> {"absent", "running", "ready", "looping"}]
  OBVIOUS
<1>3. started \in [Thread -> BOOLEAN]
  OBVIOUS
<1>4. listening \subseteq Acceptor /\ edge \subseteq Acceptor \cup Conn
  BY DEF Acceptor
<1>5. /\ batch \in [Poller -> SUBSET Acceptor] /\ cur \in [Poller -> Acceptor \cup {None}]
      /\ \A l \in Poller : batch[l] \subseteq {a \in Acceptor : LoopOf(a) = l}
  OBVIOUS
<1>6. conn \in [Conn -> ConnState]
  BY DEF ConnState
<1>7. sent \in [Conn -> 0..MaxMsg] /\ read \in [Conn -> 0..MaxMsg]
  OBVIOUS
<1>8. next_work_thread_Idx \in 0..(N - 1) /\ fails \in 0..MaxFail
  OBVIOUS
<1>9. adding \in Conn \cup Port \cup {None} /\ down \in BOOLEAN
  BY Zenon
<1> QED BY <1>1, <1>2, <1>3, <1>4, <1>5, <1>6, <1>7, <1>8, <1>9 DEF TypeOK

\* The parts of a connection that change keep their types.
LEMMA ConnChange ==
  ASSUME conn \in [Conn -> ConnState], NEW c \in Conn,
         NEW s \in {"none", "backlog", "accepted", "added", "mounted"},
         NEW a \in Acceptor, NEW w \in Thread
  PROVE  /\ [conn EXCEPT ![c].st = s] \in [Conn -> ConnState]
         /\ [conn EXCEPT ![c].st = s, ![c].to = a] \in [Conn -> ConnState]
         /\ [conn EXCEPT ![c].st = s, ![c].worker = w] \in [Conn -> ConnState]
  BY DEF ConnState

LEMMA TypeCreateThread ==
  ASSUME TypeOK, NEW t \in Thread, CreateThread(t)
  PROVE  TypeOK'
<1> USE ServerLoopsAssumption
<1>1. main' \in [pc : {"new", "create", "start", "loop"}, i : Thread]
  <2>1. CASE main.pc = "new"
    BY <2>1 DEF CreateThread
  <2>2. CASE main.pc = "create"
    BY <2>2 DEF CreateThread, TypeOK
  <2> QED BY <2>1, <2>2 DEF CreateThread
<1>2. thread' \in [Thread -> {"absent", "running", "ready", "looping"}]
  BY DEF CreateThread, TypeOK
<1> QED BY <1>1, <1>2 DEF CreateThread, NotStarting, pollVars, TypeOK

LEMMA TypeMakeLoop ==
  ASSUME TypeOK, NEW t \in Thread, MakeLoop(t)
  PROVE  TypeOK'
  BY ServerLoopsAssumption DEF MakeLoop, NotStarting, pollVars, TypeOK

LEMMA TypeSignalStarted ==
  ASSUME TypeOK, NEW t \in Thread, SignalStarted(t)
  PROVE  TypeOK'
  BY ServerLoopsAssumption DEF SignalStarted, Signalled, NotStarting, pollVars, TypeOK

LEMMA TypeStartLoop ==
  ASSUME TypeOK, NEW t \in Thread, StartLoop(t)
  PROVE  TypeOK'
  BY ServerLoopsAssumption DEF StartLoop, NotStarting, pollVars, TypeOK

LEMMA TypeArrive ==
  ASSUME TypeOK, NEW c \in Conn, NEW a \in Acceptor, Arrive(c, a)
  PROVE  TypeOK'
<1> USE ServerLoopsAssumption
<1>1. conn' \in [Conn -> ConnState]
  BY ConnChange DEF Arrive, TypeOK
<1> QED BY <1>1 DEF Arrive, startVars, TypeOK

LEMMA TypeAddTunnel ==
  ASSUME TypeOK, NEW a \in Port, AddTunnel(a)
  PROVE  TypeOK'
<1> USE ServerLoopsAssumption
<1>1. listening' \subseteq Acceptor
  <2>1. a \in Acceptor /\ listening \subseteq Acceptor
    BY DEF TypeOK, Acceptor
  <2>2. listening' \in {listening, listening \cup {a}}
    BY Zenon DEF AddTunnel
  <2> QED BY <2>1, <2>2
<1>2. down' \in BOOLEAN
  BY Zenon DEF AddTunnel, TypeOK
<1>3. adding' \in Conn \cup Port \cup {None}
  <2>1. adding' \in {adding, a}
    BY Zenon DEF AddTunnel
  <2> QED BY <2>1 DEF TypeOK
<1> QED BY <1>1, <1>2, <1>3 DEF AddTunnel, startVars, pollVars, TypeOK

LEMMA TypeEnterAcceptor ==
  ASSUME TypeOK, NEW a \in Port, EnterAcceptor(a)
  PROVE  TypeOK'
  BY ServerLoopsAssumption DEF EnterAcceptor, startVars, pollVars, TypeOK

LEMMA TypeWait ==
  ASSUME TypeOK, NEW l \in Poller, Wait(l)
  PROVE  TypeOK'
  BY ServerLoopsAssumption DEF Wait, startVars, TypeOK

LEMMA TypeHandleEvents ==
  ASSUME TypeOK, NEW l \in Poller, NEW a \in Acceptor, HandleEvents(l, a)
  PROVE  TypeOK'
  BY ServerLoopsAssumption DEF HandleEvents, startVars, TypeOK

LEMMA TypeAccept ==
  ASSUME TypeOK, NEW l \in Poller, NEW c \in Conn, Accept(l, c)
  PROVE  TypeOK'
<1> USE ServerLoopsAssumption
<1>1. conn' \in [Conn -> ConnState]
  BY ConnChange, ZenonT(60) DEF Accept, TypeOK, Acceptor
<1> QED BY <1>1 DEF Accept, AcceptAgain, startVars, TypeOK

LEMMA TypeAcceptProxy ==
  ASSUME TypeOK, NEW c \in Conn, AcceptProxy(c)
  PROVE  TypeOK'
<1> USE ServerLoopsAssumption
<1>1. next_work_thread_Idx + 1 \in Thread /\ next_work_thread_Idx' \in 0..(N - 1)
  BY DEF AcceptProxy, NextIdx, TypeOK
<1>2. conn' \in [Conn -> ConnState]
  BY <1>1, ConnChange DEF AcceptProxy, TypeOK, Acceptor
<1> QED BY <1>1, <1>2 DEF AcceptProxy, startVars, pollVars, TypeOK

LEMMA TypeAcceptNone ==
  ASSUME TypeOK, NEW l \in Poller, AcceptNone(l)
  PROVE  TypeOK'
  BY ServerLoopsAssumption DEF AcceptNone, EndAccept, Rearmed, startVars, Acceptor, TypeOK

LEMMA TypeAcceptFails ==
  ASSUME TypeOK, NEW l \in Poller, AcceptFails(l)
  PROVE  TypeOK'
<1> USE ServerLoopsAssumption
<1>1. fails' \in 0..MaxFail
  BY DEF AcceptFails, TypeOK
<1>2. edge' \subseteq Acceptor \cup Conn /\ cur' \in [Poller -> Acceptor \cup {None}]
  BY DEF AcceptFails, EndAccept, Rearmed, TypeOK, Acceptor
<1> QED BY <1>1, <1>2 DEF AcceptFails, EndAccept, startVars, TypeOK

LEMMA TypeEpollAdd ==
  ASSUME TypeOK, NEW c \in Conn, EpollAdd(c)
  PROVE  TypeOK'
<1> USE ServerLoopsAssumption
<1>1. conn' \in [Conn -> ConnState]
  <2>1. conn \in [Conn -> ConnState] /\ "ctl" \in Acceptor /\ 0 \in Thread
    BY DEF TypeOK, Acceptor
  <2>2. conn' \in {conn, [conn EXCEPT ![c].st = "added"]}
    BY Zenon DEF EpollAdd
  <2>3. [conn EXCEPT ![c].st = "added"] \in [Conn -> ConnState]
    BY <2>1, ConnChange
  <2> QED BY <2>1, <2>2, <2>3, Zenon
<1>2. down' \in BOOLEAN
  BY Zenon DEF EpollAdd, TypeOK
<1> QED BY <1>1, <1>2 DEF EpollAdd, startVars, TypeOK

LEMMA TypeEnterChannel ==
  ASSUME TypeOK, NEW c \in Conn, EnterChannel(c)
  PROVE  TypeOK'
<1> USE ServerLoopsAssumption
<1>1. conn' \in [Conn -> ConnState]
  BY ConnChange DEF EnterChannel, TypeOK, Acceptor
<1> QED BY <1>1 DEF EnterChannel, startVars, pollVars, TypeOK

LEMMA TypeClientSends ==
  ASSUME TypeOK, NEW c \in Conn, ClientSends(c)
  PROVE  TypeOK'
  BY ServerLoopsAssumption DEF ClientSends, startVars, TypeOK

LEMMA TypeWorkerReads ==
  ASSUME TypeOK, NEW c \in Conn, WorkerReads(c)
  PROVE  TypeOK'
  BY ServerLoopsAssumption DEF WorkerReads, ReadAndRearm, startVars, TypeOK

LEMMA TypeWorkerMisses ==
  ASSUME TypeOK, NEW c \in Conn, WorkerMisses(c)
  PROVE  TypeOK'
  BY ServerLoopsAssumption DEF WorkerMisses, startVars, TypeOK
LEMMA TypeNext == TypeOK /\ [Next]_vars => TypeOK'
<1> SUFFICES ASSUME TypeOK, [Next]_vars PROVE TypeOK'
  OBVIOUS
<1>1. CASE MainStarts
  BY <1>1, TypeCreateThread, TypeStartLoop DEF MainStarts
<1>2. ASSUME NEW t \in Thread, ThreadStarts(t) PROVE TypeOK'
  BY <1>2, TypeMakeLoop, TypeSignalStarted DEF ThreadStarts
<1>3. ASSUME NEW l \in Poller, Serve(l) PROVE TypeOK'
  BY <1>3, TypeWait, TypeHandleEvents, TypeAccept, TypeAcceptNone, TypeAcceptFails DEF Serve
<1>4. CASE HandOver
  BY <1>4, TypeAcceptProxy, TypeEpollAdd, TypeEnterChannel, TypeEnterAcceptor DEF HandOver
<1>5. ASSUME NEW a \in Port, AddTunnel(a) PROVE TypeOK'
  BY <1>5, TypeAddTunnel
<1>6. ASSUME NEW c \in Conn, \/ \E a \in Acceptor : Arrive(c, a)
                             \/ ClientSends(c) \/ WorkerReads(c) \/ WorkerMisses(c)
      PROVE  TypeOK'
  BY <1>6, TypeArrive, TypeClientSends, TypeWorkerReads, TypeWorkerMisses
<1>7. CASE UNCHANGED vars
  BY <1>7 DEF vars, startVars, pollVars, TypeOK
<1> QED BY <1>1, <1>2, <1>3, <1>4, <1>5, <1>6, <1>7 DEF Next

\* PickRandThread stays inside threads_, and the state components keep their
\* types, for any number of threads, ports and connections.
THEOREM TypeCorrect == Spec => []TypeOK
  BY TypeInit, TypeNext, PTL DEF Spec

----------------------------------------------------------------------------
(***************************************************************************)
(* Start                                                                   *)
(***************************************************************************)

\* The threads the main thread has waited for
Waited ==
  {t \in Thread : \/ main.pc = "loop"
                  \/ main.pc = "start" /\ main.i = 0 /\ t > 0
                  \/ main.pc \in {"create", "start"} /\ 0 < t /\ t < main.i}

\* The threads that are still to be made
ToMake ==
  {t \in Thread : \/ main.pc = "new"
                  \/ main.pc = "create" /\ t >= main.i
                  \/ main.pc = "start" /\ main.i > 0 /\ t > main.i}

\* A thread sets its started_ after its loop_, no thread is made twice, and main
\* has waited for all threads before the one it waits for.
StartInv ==
  /\ main.pc = "create" => main.i > 0
  /\ \A t \in ToMake : thread[t] = "absent"
  /\ \A t \in Thread \ Dirty : started[t] <=> thread[t] = "looping"
  /\ \A t \in Waited \ Dirty : started[t]

LEMMA StartInit == Init => StartInv
<1> SUFFICES ASSUME Init PROVE StartInv
  OBVIOUS
<1>1. main.pc = "new" /\ \A t \in Thread : thread[t] = "absent"
  BY DEF Init
<1>2. ASSUME NEW t \in Thread \ Dirty PROVE ~started[t]
  BY DEF Init
<1> QED BY <1>1, <1>2 DEF StartInv, ToMake, Waited

LEMMA StartCreate ==
  ASSUME TypeOK, StartInv, NEW t \in Thread, CreateThread(t)
  PROVE  StartInv'
<1> USE ServerLoopsAssumption
<1>1. CASE main.pc = "new"
  BY <1>1 DEF CreateThread, StartInv, ToMake, Waited, TypeOK
<1>2. CASE main.pc = "create"
  <2>1. /\ t = main.i /\ main.i > 0 /\ main'.pc = "start" /\ main'.i = t
        /\ thread' = [thread EXCEPT ![t] = "running"] /\ started' = started
    BY <1>2 DEF CreateThread, StartInv, TypeOK
  <2>2. t \notin Dirty => ~started[t]
    BY <1>2, <2>1 DEF StartInv, ToMake
  <2>3. \A u \in ToMake' : thread'[u] = "absent"
    BY <1>2, <2>1 DEF StartInv, ToMake, TypeOK
  <2>4. \A u \in Thread \ Dirty : started'[u] <=> thread'[u] = "looping"
    BY <2>1, <2>2 DEF StartInv, TypeOK
  <2>5. Waited' = Waited
    BY <1>2, <2>1 DEF Waited
  <2> QED BY <2>1, <2>3, <2>4, <2>5 DEF StartInv
<1> QED BY <1>1, <1>2 DEF CreateThread

LEMMA StartMake ==
  ASSUME TypeOK, StartInv, NEW t \in Thread, MakeLoop(t)
  PROVE  StartInv'
  BY ServerLoopsAssumption DEF MakeLoop, StartInv, ToMake, Waited, TypeOK

LEMMA StartSignal ==
  ASSUME TypeOK, StartInv, NEW t \in Thread, SignalStarted(t)
  PROVE  StartInv'
  BY ServerLoopsAssumption DEF SignalStarted, Signalled, StartInv, ToMake, Waited, TypeOK

LEMMA StartWaits ==
  ASSUME TypeOK, StartInv, NEW t \in Thread, StartLoop(t)
  PROVE  StartInv'
<1> USE ServerLoopsAssumption
<1>1. main.pc = "start" /\ main.i = t /\ started[t] /\ UNCHANGED <<thread, started>>
  BY DEF StartLoop, HasStarted
<1>2. CASE t = Listener
  BY <1>1, <1>2 DEF StartLoop, StartInv, ToMake, Waited, TypeOK
<1>3. CASE t # Listener /\ t = N
  BY <1>1, <1>3 DEF StartLoop, StartInv, ToMake, Waited, TypeOK
<1>4. CASE t # Listener /\ t # N
  BY <1>1, <1>4 DEF StartLoop, StartInv, ToMake, Waited, TypeOK
<1> QED BY <1>2, <1>3, <1>4

LEMMA StartElse ==
  ASSUME StartInv, UNCHANGED startVars
  PROVE  StartInv'
  BY DEF StartInv, ToMake, Waited, startVars

LEMMA StartNext == TypeOK /\ StartInv /\ [Next]_vars => StartInv'
<1> SUFFICES ASSUME TypeOK, StartInv, [Next]_vars PROVE StartInv'
  OBVIOUS
<1>1. CASE MainStarts
  BY <1>1, StartCreate, StartWaits DEF MainStarts
<1>2. ASSUME NEW t \in Thread, ThreadStarts(t) PROVE StartInv'
  BY <1>2, StartMake, StartSignal DEF ThreadStarts
<1>3. ASSUME NEW l \in Poller, Serve(l) PROVE UNCHANGED startVars
  BY <1>3 DEF Serve, Wait, HandleEvents, Accept, AcceptNone, AcceptFails, EndAccept
<1>4. CASE HandOver
  BY <1>4, StartElse DEF HandOver, AcceptProxy, EpollAdd, EnterChannel, EnterAcceptor
<1>5. ASSUME NEW a \in Port, AddTunnel(a) PROVE UNCHANGED startVars
  BY <1>5 DEF AddTunnel
<1>6. ASSUME NEW c \in Conn, \/ \E a \in Acceptor : Arrive(c, a)
                             \/ ClientSends(c) \/ WorkerReads(c) \/ WorkerMisses(c)
      PROVE  UNCHANGED startVars
  BY <1>6 DEF Arrive, ClientSends, WorkerReads, WorkerMisses
<1>7. CASE UNCHANGED vars
  BY <1>7, StartElse DEF vars
<1> QED BY <1>1, <1>2, <1>3, <1>4, <1>5, <1>6, <1>7, StartElse DEF Next

LEMMA StartSuffices == TypeOK /\ StartInv => LoopBeforeUse
  BY DEF StartInv, Waited, LoopBeforeUse, HasLoop

\* StartLoop waits for started_, which its thread sets after it has made loop_:
\* when Server::start begins to serve, every loop_ is there, for any number of
\* workers, but for threads whose uninitialised started_ was true.
THEOREM LoopsExist == Spec => []LoopBeforeUse
<1>1. Init => StartInv
  BY StartInit
<1> QED BY <1>1, StartNext, StartSuffices, TypeCorrect, PTL DEF Spec
----------------------------------------------------------------------------
(***************************************************************************)
(* Accepting                                                               *)
(***************************************************************************)

\* Connections wait at sockets that listen, and a loop serves its own sockets.
WatchInv ==
  /\ \A c \in Conn : conn[c].st = "backlog" => conn[c].to \in listening
  /\ \A l \in Poller : cur[l] # None => LoopOf(cur[l]) = l
  /\ NoneOverlooked

LEMMA WatchInit == Init => WatchInv
  BY DEF Init, WatchInv, NoneOverlooked, Backlog

\* Nothing is overlooked by a step that adds no waiting connection and leaves
\* events, batches and handlers alone.
LEMMA WatchKept ==
  ASSUME WatchInv,
         listening' = listening, batch' = batch, cur' = cur,
         edge \cap Acceptor \subseteq edge', TypeOK,
         \A c \in Conn : conn'[c].st = "backlog" => conn'[c] = conn[c]
  PROVE  WatchInv'
<1>1. \A a : Backlog(a)' \subseteq Backlog(a)
  BY DEF Backlog
<1>2. NoneOverlooked'
  BY <1>1, Zenon DEF WatchInv, NoneOverlooked, TypeOK
<1> QED BY <1>2 DEF WatchInv
\* Removing a connection's event leaves those of the acceptors.
LEMMA EventsKept ==
  ASSUME NEW c \in Conn
  PROVE  edge \cap Acceptor \subseteq edge \ {c}
  BY ServerLoopsAssumption

LEMMA WatchAccept ==
  ASSUME TypeOK, WatchInv, NEW l \in Poller, NEW c \in Conn, Accept(l, c)
  PROVE  WatchInv'
<1>1. \A d \in Conn : conn'[d].st = "backlog" => conn'[d] = conn[d]
  BY DEF Accept, TypeOK, ConnState
<1> QED BY <1>1, WatchKept DEF Accept, AcceptAgain

LEMMA WatchHandOver ==
  ASSUME TypeOK, WatchInv, NEW c \in Conn,
         AcceptProxy(c) \/ EpollAdd(c) \/ EnterChannel(c)
  PROVE  WatchInv'
<1>1. CASE AcceptProxy(c)
  <2>1. \A d \in Conn : conn'[d].st = "backlog" => conn'[d] = conn[d]
    BY <1>1 DEF AcceptProxy, TypeOK, ConnState
  <2> QED BY <1>1, <2>1, WatchKept DEF AcceptProxy, pollVars
<1>2. CASE EpollAdd(c)
  <2>1. \A d \in Conn : conn'[d].st = "backlog" => conn'[d] = conn[d]
    <3>1. conn' \in {conn, [conn EXCEPT ![c].st = "added"]}
      BY <1>2, Zenon DEF EpollAdd
    <3> QED BY <3>1 DEF TypeOK, ConnState
  <2>2. edge' \in {edge, edge \cup {c}}
    BY <1>2, Zenon DEF EpollAdd
  <2> QED BY <1>2, <2>1, <2>2, WatchKept DEF EpollAdd
<1>3. CASE EnterChannel(c)
  <2>1. \A d \in Conn : conn'[d].st = "backlog" => conn'[d] = conn[d]
    BY <1>3 DEF EnterChannel, TypeOK, ConnState
  <2> QED BY <1>3, <2>1, WatchKept DEF EnterChannel, pollVars
<1> QED BY <1>1, <1>2, <1>3

LEMMA WatchData ==
  ASSUME TypeOK, WatchInv, NEW c \in Conn,
         ClientSends(c) \/ WorkerReads(c) \/ WorkerMisses(c)
  PROVE  WatchInv'
<1>1. edge \cap Acceptor \subseteq edge'
  BY EventsKept DEF ClientSends, WorkerReads, ReadAndRearm, WorkerMisses
<1>2. UNCHANGED <<listening, batch, cur, conn>>
  BY DEF ClientSends, WorkerReads, WorkerMisses
<1> QED BY <1>1, <1>2, WatchKept

LEMMA WatchArrive ==
  ASSUME TypeOK, WatchInv, NEW c \in Conn, NEW a \in Acceptor, Arrive(c, a)
  PROVE  WatchInv'
<1>1. /\ UNCHANGED <<listening, batch, cur>> /\ edge' = edge \cup {a} /\ a \in listening
      /\ conn'[c].st = "backlog" /\ conn'[c].to = a
      /\ \A d \in Conn \ {c} : conn'[d] = conn[d]
  BY DEF Arrive, TypeOK, ConnState
<1>2. \A b : b # a => Backlog(b)' \subseteq Backlog(b)
  BY <1>1 DEF Backlog
<1>3. NoneOverlooked'
  BY <1>1, <1>2, Zenon DEF WatchInv, NoneOverlooked
<1>4. \A d \in Conn : conn'[d].st = "backlog" => conn'[d].to \in listening'
  BY <1>1 DEF WatchInv
<1> QED BY <1>1, <1>3, <1>4 DEF WatchInv

\* Nobody waits at a socket that did not listen.
LEMMA WatchAddTunnel ==
  ASSUME TypeOK, WatchInv, NEW a \in Port, AddTunnel(a)
  PROVE  WatchInv'
<1>1. /\ UNCHANGED <<batch, cur, edge, conn>>
      /\ listening' \in {listening, listening \cup {a}} /\ a \notin listening
  BY Zenon DEF AddTunnel, pollVars
<1>2. Backlog(a) = {}
  BY <1>1 DEF Backlog, WatchInv
<1>3. \A b : Backlog(b)' = Backlog(b)
  BY <1>1 DEF Backlog
<1>4. NoneOverlooked'
  BY <1>1, <1>2, <1>3, Zenon DEF WatchInv, NoneOverlooked
<1> QED BY <1>1, <1>4 DEF WatchInv

LEMMA WatchWait ==
  ASSUME TypeOK, WatchInv, NEW l \in Poller, Wait(l)
  PROVE  WatchInv'
<1> DEFINE ready == {a \in listening : LoopOf(a) = l /\ (a = adding => a \in Overtaken)} \cap edge
<1>1. /\ UNCHANGED <<listening, cur, conn>> /\ batch[l] = {} /\ cur[l] = None
      /\ batch' = [batch EXCEPT ![l] = ready \ {adding}] /\ edge' = edge \ ready
  BY DEF Wait
<1>2. \A b : Backlog(b)' = Backlog(b)
  BY <1>1 DEF Backlog
<1>3. /\ batch'[l] = ready \ {adding}
      /\ \A k \in Poller \ {l} : batch'[k] = batch[k]
  BY <1>1 DEF TypeOK
<1>4. ASSUME NEW a \in listening \ (Overtaken \cup (Failing \ {"ctl"})), Backlog(a) # {}
      PROVE  a \in edge' \/ a \in batch'[LoopOf(a)] \/ cur'[LoopOf(a)] = a
  <2>1. a \in edge \/ a \in batch[LoopOf(a)] \/ cur[LoopOf(a)] = a
    BY <1>4 DEF WatchInv, NoneOverlooked
  <2>2. a # None /\ LoopOf(a) \in Poller
    BY ServerLoopsAssumption DEF TypeOK, LoopOf
  <2> QED BY <1>1, <1>3, <2>1, <2>2
<1>5. NoneOverlooked'
  BY <1>1, <1>2, <1>4 DEF NoneOverlooked
<1> QED BY <1>1, <1>5 DEF WatchInv

LEMMA WatchHandleEvents ==
  ASSUME TypeOK, WatchInv, NEW l \in Poller, NEW b \in Acceptor, HandleEvents(l, b)
  PROVE  WatchInv'
<1>1. /\ UNCHANGED <<listening, edge, conn>> /\ cur[l] = None /\ b \in batch[l]
      /\ batch' = [batch EXCEPT ![l] = @ \ {b}] /\ cur' = [cur EXCEPT ![l] = b]
  BY DEF HandleEvents
<1>2. \A a : Backlog(a)' = Backlog(a)
  BY <1>1 DEF Backlog
<1>3. /\ batch'[l] = batch[l] \ {b} /\ cur'[l] = b
      /\ \A k \in Poller \ {l} : batch'[k] = batch[k] /\ cur'[k] = cur[k]
  BY <1>1 DEF TypeOK
<1>4. ASSUME NEW a \in listening \ (Overtaken \cup (Failing \ {"ctl"})), Backlog(a) # {}
      PROVE  a \in edge' \/ a \in batch'[LoopOf(a)] \/ cur'[LoopOf(a)] = a
  <2>1. a \in edge \/ a \in batch[LoopOf(a)] \/ cur[LoopOf(a)] = a
    BY <1>4 DEF WatchInv, NoneOverlooked
  <2>2. a # None /\ LoopOf(a) \in Poller
    BY ServerLoopsAssumption DEF TypeOK, LoopOf
  <2> QED BY <1>1, <1>3, <2>1, <2>2
<1>5. NoneOverlooked'
  BY <1>1, <1>2, <1>4 DEF NoneOverlooked
<1>6. LoopOf(b) = l
  BY <1>1 DEF TypeOK
<1>7. \A k \in Poller : cur'[k] # None => LoopOf(cur'[k]) = k
  BY <1>3, <1>6 DEF WatchInv
<1>8. \A c \in Conn : conn'[c].st = "backlog" => conn'[c].to \in listening'
  BY <1>1 DEF WatchInv
<1> QED BY <1>5, <1>7, <1>8 DEF WatchInv

\* A handler ends with nothing left to accept, or on a port that postHandler
\* arms again, or on one where accept may fail.
LEMMA WatchEndAccept ==
  ASSUME TypeOK, WatchInv, NEW l \in Poller, AcceptNone(l) \/ AcceptFails(l)
  PROVE  WatchInv'
<1>1. /\ UNCHANGED <<listening, batch, conn>>
      /\ cur' = [cur EXCEPT ![l] = None] /\ edge' = edge \cup Rearmed(l)
  BY DEF AcceptNone, AcceptFails, EndAccept
<1>2. \A a : Backlog(a)' = Backlog(a)
  BY <1>1 DEF Backlog
<1>3. /\ cur'[l] = None
      /\ \A k \in Poller \ {l} : cur'[k] = cur[k]
  BY <1>1 DEF TypeOK
<1>4. ASSUME NEW a \in listening \ (Overtaken \cup (Failing \ {"ctl"})), Backlog(a) # {}
      PROVE  a \in edge' \/ a \in batch'[LoopOf(a)] \/ cur'[LoopOf(a)] = a
  <2>1. a \in edge \/ a \in batch[LoopOf(a)] \/ cur[LoopOf(a)] = a
    BY <1>4 DEF WatchInv, NoneOverlooked
  <2>2. a # None /\ LoopOf(a) \in Poller
    BY ServerLoopsAssumption DEF TypeOK, LoopOf
  <2>3. CASE cur[LoopOf(a)] = a /\ LoopOf(a) = l
    <3>1. a = "ctl"
      BY <1>4, <2>3 DEF AcceptNone, AcceptFails
    <3>2. l = "main"
      BY <2>3, <3>1, ServerLoopsAssumption DEF LoopOf
    <3>3. a \in Rearmed(l)
      BY <1>4, <3>1, <3>2 DEF Rearmed
    <3> QED BY <1>1, <3>3
  <2>4. CASE ~(cur[LoopOf(a)] = a /\ LoopOf(a) = l)
    BY <1>1, <1>3, <2>1, <2>2, <2>4
  <2> QED BY <2>3, <2>4
<1>5. NoneOverlooked'
  BY <1>1, <1>2, <1>4 DEF NoneOverlooked
<1>6. \A k \in Poller : cur'[k] # None => LoopOf(cur'[k]) = k
  BY <1>3 DEF WatchInv
<1>7. \A c \in Conn : conn'[c].st = "backlog" => conn'[c].to \in listening'
  BY <1>1 DEF WatchInv
<1> QED BY <1>5, <1>6, <1>7 DEF WatchInv

LEMMA WatchNext == TypeOK /\ WatchInv /\ [Next]_vars => WatchInv'
<1> SUFFICES ASSUME TypeOK, WatchInv, [Next]_vars PROVE WatchInv'
  OBVIOUS
<1>1. CASE MainStarts
  <2>1. UNCHANGED <<listening, edge, batch, cur, conn>>
    BY <1>1 DEF MainStarts, CreateThread, StartLoop, NotStarting, pollVars
  <2> QED BY <2>1, WatchKept
<1>2. ASSUME NEW t \in Thread, ThreadStarts(t) PROVE WatchInv'
  <2>1. UNCHANGED <<listening, edge, batch, cur, conn>>
    BY <1>2 DEF ThreadStarts, MakeLoop, SignalStarted, NotStarting, pollVars
  <2> QED BY <2>1, WatchKept
<1>3. ASSUME NEW l \in Poller, Serve(l) PROVE WatchInv'
  BY <1>3, WatchWait, WatchHandleEvents, WatchAccept, WatchEndAccept DEF Serve
<1>4. CASE HandOver
  <2>1. ASSUME NEW a \in Port, EnterAcceptor(a) PROVE WatchInv'
    <3>1. UNCHANGED <<listening, edge, batch, cur, conn>>
      BY <2>1 DEF EnterAcceptor, pollVars
    <3> QED BY <3>1, WatchKept
  <2> QED BY <1>4, <2>1, WatchHandOver DEF HandOver
<1>5. ASSUME NEW a \in Port, AddTunnel(a) PROVE WatchInv'
  BY <1>5, WatchAddTunnel
<1>6. ASSUME NEW c \in Conn, \/ \E a \in Acceptor : Arrive(c, a)
                             \/ ClientSends(c) \/ WorkerReads(c) \/ WorkerMisses(c)
      PROVE  WatchInv'
  BY <1>6, WatchArrive, WatchData
<1>7. CASE UNCHANGED vars
  <2>1. UNCHANGED <<listening, edge, batch, cur, conn>>
    BY <1>7 DEF vars, pollVars
  <2> QED BY <2>1, WatchKept
<1> QED BY <1>1, <1>2, <1>3, <1>4, <1>5, <1>6, <1>7 DEF Next

\* Edge-triggered waiting overlooks no connection: one that waits to be accepted
\* has an event, a place in a batch or its handler running, for any number of
\* tunnels and connections, and on the control port also when accept fails; only
\* the first event of a port can be lost, to a loop that overtakes PollAdd.
THEOREM NothingOverlooked == Spec => []NoneOverlooked
<1>1. WatchInv => NoneOverlooked
  BY DEF WatchInv
<1> QED BY <1>1, WatchInit, WatchNext, TypeCorrect, PTL DEF Spec
============================================================================

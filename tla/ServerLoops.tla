---------------------------- MODULE ServerLoops ------------------------------
(***************************************************************************)
(* The threads of the server and what wakes them: the start of the event   *)
(* loop threads (EventLoopThread, EventLoopThreadPool, Server::Server,     *)
(* Server::start), the accept loops of the main and of the listening       *)
(* thread, and the hand-over of a proxy connection to a worker.            *)
(*                                                                         *)
(* Every descriptor is watched edge-triggered: an edge is there after an   *)
(* arrival or an epoll_ctl on a ready descriptor, and epoll_wait takes it. *)
(***************************************************************************)
EXTENDS Integers, FiniteSets

CONSTANTS
  N,          \* thread_num_ of the pool
  Port,       \* the public ports of the tunnels
  Conn,       \* the connections that arrive
  None,
  MaxMsg,     \* bound: messages sent on a proxy connection
  MaxFail,    \* bound: calls of accept that fail
  Failing,    \* listening sockets on which accept may fail
  Dirty,      \* threads whose started_, which is never initialised, is true
  Overtaken   \* connections and ports whose loop may run between epoll_ctl and
              \* the entry in its fd2chan_

Worker == 1..N
Listener == 0                \* publicListenThread_
Thread == 0..N

\* ctl_acceptor_, proxy_acceptor_ and the acceptor_ of each Tunnel
Acceptor == {"ctl", "proxy"} \cup Port
Poller == {"main", "listener"}   \* the loops that accept
LoopOf(a) == IF a \in Port THEN "listener" ELSE "main"

ASSUME ServerLoopsAssumption ==
  /\ N \in Nat \ {0} /\ MaxMsg \in Nat /\ MaxFail \in Nat
  /\ None \notin Acceptor \cup Conn
  /\ Port \cap {"ctl", "proxy"} = {} /\ Conn \cap Acceptor = {}
  /\ Failing \subseteq Acceptor /\ Dirty \subseteq Thread /\ Overtaken \subseteq Conn \cup Port

VARIABLES
  main,       \* where the main thread is: [pc, i]
  thread,     \* where each EventLoopThread is; loop_ is set from "ready" on
  started,    \* started_ of each thread
  listening,  \* the sockets that listen
  edge,       \* descriptors (acceptors and connections) with an event to report
  batch,      \* ready_channels of a Poller that are still to be handled
  cur,        \* the acceptor whose handler a Poller is in
  conn,       \* connections: state, the acceptor, the worker
  sent, read, \* messages written to and read from each proxy connection
  next_work_thread_Idx,
  adding,     \* the connection or port the main thread is handing over
  fails,      \* calls of accept that failed
  down        \* a null pointer was dereferenced

startVars == <<main, thread, started>>
pollVars == <<edge, batch, cur>>
vars == <<startVars, listening, pollVars, conn, sent, read, next_work_thread_Idx,
          adding, fails, down>>

----------------------------------------------------------------------------
\* loop_ of thread t was made.
HasLoop(t) == thread[t] \in {"ready", "looping"}

Looping(l) == IF l = "main" THEN main.pc = "loop" ELSE thread[Listener] = "looping"

\* The connections that wait to be accepted by a
Backlog(a) == {c \in Conn : conn[c].st = "backlog" /\ conn[c].to = a}

\* Loop l is free to go on: the main thread is not in the middle of PollAdd.
Running(l) == ~down /\ (l = "main" => adding = None)

\* Server::Server up to its threads: both acceptors are in the main poller.
Init ==
  /\ main = [pc |-> "new", i |-> 0]
  /\ thread = [t \in Thread |-> "absent"]
  /\ started = [t \in Thread |-> t \in Dirty]
  /\ listening = {"ctl", "proxy"}
  /\ edge = {}
  /\ batch = [l \in Poller |-> {}]
  /\ cur = [l \in Poller |-> None]
  /\ conn = [c \in Conn |-> [st |-> "none", to |-> None, worker |-> 0]]
  /\ sent = [c \in Conn |-> 0] /\ read = [c \in Conn |-> 0]
  /\ next_work_thread_Idx = 0
  /\ adding = None
  /\ fails = 0
  /\ down = FALSE

----------------------------------------------------------------------------
(***************************************************************************)
(* Start                                                                   *)
(***************************************************************************)
NotStarting == UNCHANGED <<listening, pollVars, conn, sent, read, next_work_thread_Idx,
                           adding, fails, down>>

\* new EventLoopThread(): publicListenThread_ in Server::Server, a worker in
\* EventLoopThreadPool::start
CreateThread(t) ==
  /\ \/ main.pc = "new" /\ t = Listener /\ main' = [pc |-> "create", i |-> 1]
     \/ main.pc = "create" /\ t = main.i /\ main' = [main EXCEPT !.pc = "start"]
  /\ thread' = [thread EXCEPT ![t] = "running"]
  /\ UNCHANGED started
  /\ NotStarting

\* EventLoopThread::ThreadFunc: makes loop_, ...
MakeLoop(t) ==
  /\ thread[t] = "running"
  /\ thread' = [thread EXCEPT ![t] = "ready"]
  /\ UNCHANGED <<main, started>>
  /\ NotStarting

\* Mutated form: the flag is left alone.
NotSignalled(t) == started

\* started_ under mutex_, before notify_all
Signalled(t) == [started EXCEPT ![t] = TRUE]

\* ... sets started_ and notifies, and loops.
SignalStarted(t) ==
  /\ thread[t] = "ready"
  /\ thread' = [thread EXCEPT ![t] = "looping"]
  /\ started' = Signalled(t)
  /\ UNCHANGED main
  /\ NotStarting

\* Mutated form: the condition is not waited for.
NotWaited(t) == TRUE

\* The condition of EventLoopThread::StartLoop, waited for under mutex_
HasStarted(t) == started[t]

\* EventLoopThread::StartLoop of t, as called in EventLoopThreadPool::start for
\* one worker after the other and then in Server::start for the listener
StartLoop(t) ==
  /\ main.pc = "start" /\ t = main.i
  /\ HasStarted(t)
  /\ main' = CASE t = Listener -> [pc |-> "loop", i |-> 0]
               [] t = N        -> [pc |-> "start", i |-> Listener]
               [] OTHER        -> [pc |-> "create", i |-> t + 1]
  /\ UNCHANGED <<thread, started>>
  /\ NotStarting

----------------------------------------------------------------------------
(***************************************************************************)
(* Accepting                                                               *)
(***************************************************************************)

\* Somebody connects.
Arrive(c, a) ==
  /\ ~down
  /\ conn[c].st = "none" /\ a \in listening
  /\ conn' = [conn EXCEPT ![c].st = "backlog", ![c].to = a]
  /\ edge' = edge \cup {a}
  /\ UNCHANGED <<startVars, listening, batch, cur, sent, read, next_work_thread_Idx,
                 adding, fails, down>>

\* Tunnel::Tunnel, for a registration the main thread serves: the socket listens,
\* and AddChannel, which uses loop_ of the listening thread, calls epoll_ctl.
AddTunnel(a) ==
  /\ Running("main") /\ Looping("main") /\ cur["main"] = None
  /\ a \in Port \ listening
  /\ IF HasLoop(Listener)
     THEN listening' = listening \cup {a} /\ adding' = a /\ UNCHANGED down
     ELSE down' = TRUE /\ UNCHANGED <<listening, adding>>
  /\ UNCHANGED <<startVars, pollVars, conn, sent, read, next_work_thread_Idx, fails>>

\* fd2chan_[fd] = channel, for the acceptor
EnterAcceptor(a) ==
  /\ ~down
  /\ adding = a
  /\ adding' = None
  /\ UNCHANGED <<startVars, listening, pollVars, conn, sent, read, next_work_thread_Idx,
                 fails, down>>

\* Epoll::WaitForReadyChannels takes all edges there are, and drops that of a port
\* which is not in fd2chan_ yet.
Wait(l) ==
  LET ready == {a \in listening : LoopOf(a) = l /\ (a = adding => a \in Overtaken)} \cap edge
  IN /\ Running(l)
     /\ Looping(l) /\ cur[l] = None /\ batch[l] = {}
     /\ ready # {}
     /\ batch' = [batch EXCEPT ![l] = ready \ {adding}]
     /\ edge' = edge \ ready
     /\ UNCHANGED <<startVars, listening, cur, conn, sent, read, next_work_thread_Idx,
                    adding, fails, down>>

\* EventLoop::Loop goes on to the handler of the next ready channel.
HandleEvents(l, a) ==
  /\ Running(l)
  /\ cur[l] = None /\ a \in batch[l]
  /\ cur' = [cur EXCEPT ![l] = a]
  /\ batch' = [batch EXCEPT ![l] = @ \ {a}]
  /\ UNCHANGED <<startVars, listening, edge, conn, sent, read, next_work_thread_Idx,
                 adding, fails, down>>

\* Mutated form: one connection is accepted for each event.
AcceptOnce(l) == [cur EXCEPT ![l] = None]

\* The accept loops go on after a connection.
AcceptAgain(l) == cur

\* newCtlConnHandler and Tunnel::newPublicConnHandler accept c.
Accept(l, c) ==
  /\ Running(l)
  /\ cur[l] \in {"ctl"} \cup Port /\ c \in Backlog(cur[l])
  /\ conn' = [conn EXCEPT ![c].st = "accepted"]
  /\ cur' = AcceptAgain(l)
  /\ UNCHANGED <<startVars, listening, edge, batch, sent, read, next_work_thread_Idx,
                 adding, fails, down>>

\* Mutated form: the index runs past the last thread.
NextIdxPastEnd == (next_work_thread_Idx + 1) % (N + 1)

\* The index PickRandThread leaves
NextIdx == (next_work_thread_Idx + 1) % N

\* newProxyConnHandler accepts c and picks its thread: PickRandThread.
AcceptProxy(c) ==
  /\ Running("main")
  /\ cur["main"] = "proxy" /\ c \in Backlog("proxy")
  /\ conn' = [conn EXCEPT ![c].st = "accepted", ![c].worker = next_work_thread_Idx + 1]
  /\ next_work_thread_Idx' = NextIdx
  /\ adding' = c
  /\ UNCHANGED <<startVars, listening, pollVars, sent, read, fails, down>>

\* Mutated form: no descriptor is armed again.
NotRearmed(l) == {}

\* What Server::postHandler arms again, after either acceptor of the main
\* thread: the epoll_ctl reports what is ready.  A tunnel's acceptor has no
\* post handler.
Rearmed(l) == {a \in {"ctl"} : l = "main" /\ Backlog(a) # {}}

\* The accept loop ends and HandleEvents goes on to the post handler.
EndAccept(l) ==
  /\ cur' = [cur EXCEPT ![l] = None]
  /\ edge' = edge \cup Rearmed(l)
  /\ UNCHANGED <<startVars, listening, batch, conn, sent, read, next_work_thread_Idx,
                 adding, down>>

\* There is nothing to accept.  The tunnels' sockets block instead: only the two
\* of Server::Server are made non-blocking.
AcceptNone(l) ==
  /\ Running(l)
  /\ cur[l] \in {"ctl", "proxy"} /\ Backlog(cur[l]) = {}
  /\ EndAccept(l) /\ UNCHANGED fails

\* accept fails although a connection waits (no descriptor left, for one).
AcceptFails(l) ==
  /\ Running(l)
  /\ cur[l] \in Failing /\ Backlog(cur[l]) # {}
  /\ fails < MaxFail /\ fails' = fails + 1
  /\ EndAccept(l)

----------------------------------------------------------------------------
(***************************************************************************)
(* The hand-over of a proxy connection: EventLoopThread::AddConn in the    *)
(* main thread, Epoll::PollAdd on the poller of the worker                 *)
(***************************************************************************)

\* epoll_ctl: a new connection is writable, which is asked for too.
EpollAdd(c) ==
  /\ ~down
  /\ adding = c /\ conn[c].st = "accepted"
  /\ IF HasLoop(conn[c].worker)
     THEN /\ conn' = [conn EXCEPT ![c].st = "added"]
          /\ edge' = edge \cup {c}
          /\ UNCHANGED down
     ELSE down' = TRUE /\ UNCHANGED <<conn, edge>>
  /\ UNCHANGED <<startVars, listening, batch, cur, sent, read, next_work_thread_Idx,
                 adding, fails>>

\* fd2chan_[fd] = channel
EnterChannel(c) ==
  /\ ~down
  /\ adding = c /\ conn[c].st = "added"
  /\ conn' = [conn EXCEPT ![c].st = "mounted"]
  /\ adding' = None
  /\ UNCHANGED <<startVars, listening, pollVars, sent, read, next_work_thread_Idx, fails, down>>

\* The client writes to the connection, the meta message first.
ClientSends(c) ==
  /\ ~down
  /\ conn[c].to = "proxy" /\ sent[c] < MaxMsg
  /\ sent' = [sent EXCEPT ![c] = @ + 1]
  /\ edge' = IF conn[c].st \in {"added", "mounted"} THEN edge \cup {c} ELSE edge
  /\ UNCHANGED <<startVars, listening, batch, cur, conn, read, next_work_thread_Idx,
                 adding, fails, down>>

\* Mutated form: the events are not given to epoll_ctl again.
ReadOnly(c) == edge \ {c}

\* The edges after ProxyConn::postHandle has armed the connection again
ReadAndRearm(c) == IF sent[c] > read[c] + 1 THEN edge ELSE edge \ {c}

\* The worker handles an event of c: ProxyConn::handleRead takes one message.
WorkerReads(c) ==
  /\ ~down
  /\ conn[c].st = "mounted" /\ c \in edge
  /\ thread[conn[c].worker] = "looping"
  /\ read' = [read EXCEPT ![c] = IF @ < sent[c] THEN @ + 1 ELSE @]
  /\ edge' = ReadAndRearm(c)
  /\ UNCHANGED <<startVars, listening, batch, cur, conn, sent, next_work_thread_Idx,
                 adding, fails, down>>

\* Epoll::getReadyChannels finds no entry for c and drops the event.
WorkerMisses(c) ==
  /\ ~down
  /\ c \in Overtaken
  /\ conn[c].st = "added" /\ c \in edge
  /\ thread[conn[c].worker] = "looping"
  /\ edge' = edge \ {c}
  /\ UNCHANGED <<startVars, listening, batch, cur, conn, sent, read, next_work_thread_Idx,
                 adding, fails, down>>

----------------------------------------------------------------------------
MainStarts == \E t \in Thread : CreateThread(t) \/ StartLoop(t)
ThreadStarts(t) == MakeLoop(t) \/ SignalStarted(t)

\* A step of the loop l
Serve(l) ==
  \/ Wait(l) \/ \E a \in Acceptor : HandleEvents(l, a)
  \/ (\E c \in Conn : Accept(l, c)) \/ AcceptNone(l) \/ AcceptFails(l)

HandOver ==
  \/ \E c \in Conn : AcceptProxy(c) \/ EpollAdd(c) \/ EnterChannel(c)
  \/ \E a \in Port : EnterAcceptor(a)

Next ==
  \/ MainStarts
  \/ \E t \in Thread : ThreadStarts(t)
  \/ \E l \in Poller : Serve(l)
  \/ HandOver
  \/ \E a \in Port : AddTunnel(a)
  \/ \E c \in Conn : \/ \E a \in Acceptor : Arrive(c, a)
                     \/ ClientSends(c) \/ WorkerReads(c) \/ WorkerMisses(c)

Spec == Init /\ [][Next]_vars

\* Threads run.  Nobody has to connect, to register a tunnel or to send.
FairSpec ==
  /\ Spec
  /\ WF_vars(MainStarts) /\ WF_vars(HandOver)
  /\ \A t \in Thread : WF_vars(ThreadStarts(t))
  /\ \A l \in Poller : WF_vars(Serve(l))
  /\ \A c \in Conn : WF_vars(WorkerReads(c))

----------------------------------------------------------------------------
(***************************************************************************)
(* Properties                                                              *)
(***************************************************************************)
ConnState ==
  [st : {"none", "backlog", "accepted", "added", "mounted"},
   to : Acceptor \cup {None}, worker : Thread]

\* The state components have their types; next_work_thread_Idx_ stays inside
\* threads_ and no poller holds a descriptor of another one.
TypeOK ==
  /\ main \in [pc : {"new", "create", "start", "loop"}, i : Thread]
  /\ thread \in [Thread -> {"absent", "running", "ready", "looping"}]
  /\ started \in [Thread -> BOOLEAN]
  /\ listening \subseteq Acceptor
  /\ edge \subseteq Acceptor \cup Conn
  /\ batch \in [Poller -> SUBSET Acceptor]
  /\ \A l \in Poller : batch[l] \subseteq {a \in Acceptor : LoopOf(a) = l}
  /\ cur \in [Poller -> Acceptor \cup {None}]
  /\ conn \in [Conn -> ConnState]
  /\ sent \in [Conn -> 0..MaxMsg] /\ read \in [Conn -> 0..MaxMsg]
  /\ next_work_thread_Idx \in 0..(N - 1)
  /\ adding \in Conn \cup Port \cup {None}
  /\ fails \in 0..MaxFail
  /\ down \in BOOLEAN

\* Server::start lets the main loop run only when every thread has made its
\* loop_, which AddConn and AddChannel dereference; a started_ that happens to be
\* true takes that away for its own thread only.
LoopBeforeUse ==
  main.pc = "loop" => \A t \in Thread \ Dirty : HasLoop(t)

\* A connection that waits to be accepted has an edge or a handler under way:
\* no arrival falls between two calls of epoll_wait, even if accept fails on the
\* control port.  The other acceptors are not armed again after a failure, and the
\* first event of a port is lost if its loop overtakes PollAdd.
NoneOverlooked ==
  \A a \in listening \ (Overtaken \cup (Failing \ {"ctl"})) :
    LET l == LoopOf(a)
    IN Backlog(a) # {} => a \in edge \/ a \in batch[l] \/ cur[l] = a

\* The server gets its threads started and begins to serve.
StartCompletes == <>(main.pc = "loop")

\* Control and proxy connections are accepted, unless a thread with a dirty
\* started_ brings the server down or accept fails on the proxy port.
Accepted ==
  \A c \in Conn :
    conn[c].st = "backlog" /\ conn[c].to \in {"ctl", "proxy"} \ (Failing \ {"ctl"})
      ~> conn[c].st # "backlog" \/ down

\* A connection to a tunnel's public port is accepted, unless the listening thread
\* overtakes the main thread in adding that port.
PublicAccepted ==
  \A c \in Conn :
    conn[c].st = "backlog" /\ conn[c].to \in Port \ (Failing \cup Overtaken)
      ~> conn[c].st # "backlog" \/ down

\* What the client sends on a proxy connection is read by its worker, also what
\* arrived before the connection was handed over, unless the worker overtakes.
HandedOverIsRead ==
  \A c \in Conn \ Overtaken, n \in 1..MaxMsg :
    conn[c].st = "mounted" /\ sent[c] >= n ~> read[c] >= n \/ down
============================================================================

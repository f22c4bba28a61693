---------------------------- MODULE ProxyTunnel -----------------------------
(***************************************************************************)
(* One tunnel of CProxy: how public connections are bound to proxy         *)
(* connections and to local connections, how data and end-of-stream cross, *)
(* and how a proxy connection is put back into the free list and reused.   *)
(*                                                                         *)
(* server/Tunnel, server/Control (the handlers of a running tunnel),       *)
(* server/public_conn, client/Tunnel, client/Client (likewise),            *)
(* client/local_conn, lib/proxy_conn and lib/tran_conn.                    *)
(*                                                                         *)
(* Threads: per side a main thread that serves the control connection, a   *)
(* worker per proxy connection that serves the ProxyConn and the end bound *)
(* to it, and the server's listening thread.  An action is a stretch of a  *)
(* handler that no other thread can tell from an atomic step; pc[t] says   *)
(* where thread t stopped.  A chunk is what one splice moves and counts 1. *)
(***************************************************************************)
EXTENDS Integers, FiniteSets, Sequences, SequencesExt

CONSTANTS
  Proxy,          \* the proxy connections the client may create
  Pub,            \* the public connections
  Loc,            \* the connections the client may open to the local server
  None,           \* no end: the fd 0 of resetConn, or an uninitialised fd
  PubChunks,      \* bound: chunks a public client sends
  LocChunks,      \* bound: chunks the local server sends on a connection
  Env,            \* how the two applications behave, see MaySend and MayClose
  Closers         \* the public clients that close first in a dialogue

ASSUME TunnelAssumption ==
  /\ None \notin Pub \cup Loc
  /\ Proxy \cap {None, "main", "listen"} = {}
  /\ Pub \cap Loc = {}
  /\ PubChunks \in Nat /\ LocChunks \in Nat
  /\ Env \in {"any", "banner", "dialogue"}
  /\ Closers \subseteq Pub

VARIABLES
  \* ProxyConn, one record per side and proxy connection
  conn,
  \* the bytes of proxy and control connections still to be read by a side
  net, ctl,
  \* Tunnel: proxy_conn_map_ of each side, and the server's three lists
  proxy_conn_map, free_proxy_conns, undeal_public_fds, wait_for_start,
  \* PublicConn and LocalConn, one record per end; the ends that exist
  end, opened,
  \* threads
  th

vars == <<conn, net, ctl, proxy_conn_map, free_proxy_conns, undeal_public_fds,
          wait_for_start, end, opened, th>>

----------------------------------------------------------------------------
Side == {"S", "C"}                         \* server, client
Other(s) == IF s = "S" THEN "C" ELSE "S"

MaxChunks == PubChunks + LocChunks

End == Pub \cup Loc
SideOf(e) == IF e \in Pub THEN "S" ELSE "C"

Conn == Side \X Proxy
Main(s) == <<s, "main">>
Listener == <<"S", "listen">>
Thread == Conn \cup {Main(s) : s \in Side} \cup {Listener}

\* What travels on a proxy connection, and on the control connection.
Chunk(e, n) == [type |-> "data", end |-> e, seq |-> n]   \* the n-th e sent
MetaSet     == [type |-> "ProxyMetaSet", end |-> None, seq |-> 0]
StartReq(x) == [type |-> "StartProxyConnReq", end |-> x, seq |-> 0]
StartRsp(x) == [type |-> "StartProxyConnRsp", end |-> x, seq |-> 0]

NeedProxy      == [type |-> "NotifyClientNeedProxy", proxy |-> None, count |-> 0]
Shutdown(p, n) == [type |-> "NotifyProxyShutdownPeerConn", proxy |-> p, count |-> n]
FreeReq(p)     == [type |-> "FreeProxyConnReq", proxy |-> p, count |-> 0]

\* Mutated form: the initial values of the two counters swapped.
ResetSwapped == [is_start |-> FALSE, half_close |-> FALSE, peer |-> None,
                 recv |-> -1, theo |-> 0]

\* A ProxyConn as constructed, and as resetConn leaves it.
Reset == [is_start |-> FALSE, half_close |-> FALSE, peer |-> None,
          recv |-> 0, theo |-> -1]

\* Mutated form: without the sentinel's case.
IncrPlain(theo, n) == theo + n

\* TranConn::incrTheoreticalTotalRecvCount
IncrTheoretical(theo, n) == IF theo = -1 THEN n ELSE theo + n

\* Mutated form: one chunk too early.
AllButOneForwarded(recv, theo) == theo # -1 /\ recv + 1 >= theo

\* Everything the other side announced was forwarded.
AllForwarded(recv, theo) == recv = theo

Idle == [pc |-> "idle", proxy |-> None, end |-> None]
At(l, p, e) == [pc |-> l, proxy |-> p, end |-> e]

IsIdle(t) == th[t].pc = "idle"
Goto(t, r) == th' = [th EXCEPT ![t] = r]
Send(c, i) == net' = [net EXCEPT ![c] = Append(@, i)]

----------------------------------------------------------------------------
Init ==
  /\ conn = [c \in Conn |-> Reset]
  /\ net = [c \in Conn |-> << >>]
  /\ ctl = [s \in Side |-> << >>]
  /\ proxy_conn_map = [s \in Side |-> {}]
  /\ free_proxy_conns = << >>
  /\ undeal_public_fds = << >>
  /\ wait_for_start = {}
  /\ end = [e \in End |-> [on |-> None, tran |-> 0, closing |-> FALSE,
                           out |-> << >>, fin |-> FALSE]]
  /\ opened = {}
  /\ th = [t \in Thread |-> Idle]

\* ends once start() binds e to p: peerConn_ held the last reference to the end
\* bound before, whose destructor takes it out of the poller.
Mounted(e, p) ==
  [f \in End |->
     IF f = e THEN [end[f] EXCEPT !.on = p]
     ELSE IF SideOf(f) = SideOf(e) /\ end[f].on = p THEN [end[f] EXCEPT !.on = None]
     ELSE end[f]]

----------------------------------------------------------------------------
(***************************************************************************)
(* The server's listening thread: Tunnel::newPublicConnHandler             *)
(***************************************************************************)

\* Mutated form: the connection handed out stays in the list.
PopKeepsFree == free_proxy_conns

\* The list after Tunnel::popFreeProxyConn
PopFree == Front(free_proxy_conns)

\* A free proxy connection is asked to start ...
AcceptOnFree(x) ==
  /\ IsIdle(Listener)
  /\ x \notin opened
  /\ free_proxy_conns # << >>
  /\ opened' = opened \cup {x}
  /\ free_proxy_conns' = PopFree
  /\ Send(<<"C", Last(free_proxy_conns)>>, StartReq(x))
  /\ Goto(Listener, At("wait", Last(free_proxy_conns), None))
  /\ UNCHANGED <<conn, ctl, proxy_conn_map, undeal_public_fds, wait_for_start, end>>

\* ... and only then put into the map in which its answer is looked up.
AddWait ==
  /\ th[Listener].pc = "wait"
  /\ wait_for_start' = wait_for_start \cup {th[Listener].proxy}
  /\ Goto(Listener, Idle)
  /\ UNCHANGED <<conn, net, ctl, proxy_conn_map, free_proxy_conns,
                 undeal_public_fds, end, opened>>

\* No proxy connection is free: the client is asked for one.
AcceptNeedsProxy(x) ==
  /\ IsIdle(Listener)
  /\ x \notin opened
  /\ free_proxy_conns = << >>
  /\ opened' = opened \cup {x}
  /\ undeal_public_fds' = Append(undeal_public_fds, x)
  /\ ctl' = [ctl EXCEPT !["C"] = Append(@, NeedProxy)]
  /\ UNCHANGED <<conn, net, proxy_conn_map, free_proxy_conns, wait_for_start, end, th>>

----------------------------------------------------------------------------
(***************************************************************************)
(* Creating and starting a proxy connection                                *)
(***************************************************************************)

\* New connections of the client are taken in a fixed order: one name is as good as
\* another.
FreshProxy == CHOOSE p \in Proxy : p \notin proxy_conn_map["C"]
FreshLoc == CHOOSE l \in Loc : l \notin opened

\* Tunnel::createProxyConn on the client: p gets an id that is not in the map,
\* under which Client::handleProxyNotify registers it.
CreateProxyConn(p) ==
  /\ p \notin proxy_conn_map["C"] /\ p = FreshProxy
  /\ proxy_conn_map' = [proxy_conn_map EXCEPT !["C"] = @ \cup {p}]

\* Tunnel::createLocalConn on the client: a new connection to the local server
CreateLocalConn(l) ==
  /\ l \notin opened /\ l = FreshLoc
  /\ opened' = opened \cup {l}

\* Client::handleProxyNotify up to its call of start: connects p to the proxy
\* port and l to the local server, registers p, and writes the meta message.
HandleProxyNotify(p, l) ==
  /\ IsIdle(Main("C"))
  /\ ctl["C"] # << >> /\ Head(ctl["C"]) = NeedProxy
  /\ CreateProxyConn(p)
  /\ CreateLocalConn(l)
  /\ ctl' = [ctl EXCEPT !["C"] = Tail(@)]
  /\ Send(<<"S", p>>, MetaSet)
  /\ Goto(Main("C"), At("start", p, l))
  /\ UNCHANGED <<conn, free_proxy_conns, undeal_public_fds, wait_for_start, end>>

\* ProxyConn::start on the client, in the main thread for a new proxy connection:
\* its worker sees is_start_ before the peer's fd.
StartFlag(t) ==
  /\ th[t].pc = "start"
  /\ conn' = [conn EXCEPT ![<<"C", th[t].proxy>>].is_start = TRUE]
  /\ Goto(t, At("bind", th[t].proxy, th[t].end))
  /\ UNCHANGED <<net, ctl, proxy_conn_map, free_proxy_conns, undeal_public_fds,
                 wait_for_start, end, opened>>

StartBind(t) ==
  /\ th[t].pc = "bind"
  /\ conn' = [conn EXCEPT ![<<"C", th[t].proxy>>].peer = th[t].end]
  /\ end' = Mounted(th[t].end, th[t].proxy)
  /\ Goto(t, Idle)
  /\ UNCHANGED <<net, ctl, proxy_conn_map, free_proxy_conns, undeal_public_fds,
                 wait_for_start, opened>>

\* A worker that finds is_start_ false reads one control message.
InCtlMode(c, m) ==
  /\ IsIdle(c)
  /\ ~conn[c].is_start
  /\ net[c] # << >>
  /\ Head(net[c]).type = m

\* Tunnel::bindPublicFdToProxyConn
BindPublicFdToProxyConn(p, x) ==
  /\ conn' = [conn EXCEPT ![<<"S", p>>].is_start = TRUE, ![<<"S", p>>].peer = x]
  /\ end' = Mounted(x, p)
  /\ proxy_conn_map' = [proxy_conn_map EXCEPT !["S"] = @ \cup {p}]
  /\ net' = [net EXCEPT ![<<"S", p>>] = Tail(@)]

\* Mutated form: the list after reading the public fd without taking it out.
ReadKeepsUndeal == undeal_public_fds

\* The list after Tunnel::getAndPopUndealPublicFd
PopUndeal == Front(undeal_public_fds)

\* Server::claimProxyConn and Tunnel::claimProxyConn
ClaimProxyConn(p) ==
  /\ InCtlMode(<<"S", p>>, "ProxyMetaSet")
  /\ undeal_public_fds # << >>
  /\ BindPublicFdToProxyConn(p, Last(undeal_public_fds))
  /\ undeal_public_fds' = PopUndeal
  /\ UNCHANGED <<ctl, free_proxy_conns, wait_for_start, opened, th>>

\* Tunnel::handleStartProxyConnReq on the client, up to its call of start
HandleStartProxyConnReq(p, l) ==
  /\ InCtlMode(<<"C", p>>, "StartProxyConnReq")
  /\ CreateLocalConn(l)
  /\ net' = [net EXCEPT ![<<"C", p>>] = Tail(@),
                        ![<<"S", p>>] = Append(@, StartRsp(Head(net[<<"C", p>>]).end))]
  /\ Goto(<<"C", p>>, At("start", p, l))
  /\ UNCHANGED <<conn, ctl, proxy_conn_map, free_proxy_conns, undeal_public_fds,
                 wait_for_start, end>>

\* Tunnel::handleStartProxyConnRsp on the server, for a proxy that is waited for
HandleStartProxyConnRsp(p) ==
  /\ InCtlMode(<<"S", p>>, "StartProxyConnRsp")
  /\ p \in wait_for_start
  /\ BindPublicFdToProxyConn(p, Head(net[<<"S", p>>]).end)
  /\ wait_for_start' = wait_for_start \ {p}
  /\ UNCHANGED <<ctl, free_proxy_conns, undeal_public_fds, opened, th>>

\* Whatever else a worker reads in control mode is consumed and logged at most:
\* forwarded data, and an answer that is not waited for.
DropInCtlMode(c) ==
  /\ \/ InCtlMode(c, "data")
     \/ /\ InCtlMode(c, "StartProxyConnRsp")
        /\ c[2] \notin wait_for_start
  /\ net' = [net EXCEPT ![c] = Tail(@)]
  /\ UNCHANGED <<conn, ctl, proxy_conn_map, free_proxy_conns, undeal_public_fds,
                 wait_for_start, end, opened, th>>

----------------------------------------------------------------------------
(***************************************************************************)
(* Forwarding                                                              *)
(***************************************************************************)

\* What the applications do.  "any": they send and close when they like.
\* "banner": the public client waits for the local server's first chunk.
\* "dialogue": the local server speaks first, then an end speaks once it has heard
\* the other; one of the two, the public client if it is in Closers, closes when
\* it has heard the other's last chunk, and the other when it is told so.
Heard(e) == Len(end[e].out)
Quota(e) == IF e \in Pub THEN PubChunks ELSE LocChunks
PartnerQuota(e) == IF e \in Pub THEN LocChunks ELSE PubChunks

\* e is the end of its dialogue that closes first; a local server knows from the
\* first chunk it hears whom it talks to.
ClosesFirst(e) ==
  IF e \in Pub THEN e \in Closers
  ELSE Heard(e) > 0 /\ end[e].out[1][1] \notin Closers

MayClose(e) ==
  CASE Env = "any" -> TRUE
    [] Env = "banner" -> e \in Pub => Heard(e) > 0
    [] OTHER -> end[e].fin \/ (ClosesFirst(e) /\ Heard(e) = PartnerQuota(e))

MaySend(e) ==
  /\ end[e].tran < Quota(e)
  /\ CASE Env = "any" -> TRUE
       [] Env = "banner" -> e \in Pub => Heard(e) > 0
       [] OTHER -> /\ Heard(e) >= end[e].tran + IF e \in Pub THEN 1 ELSE 0
                   /\ ~MayClose(e)

\* The worker of e's proxy connection polls e and is idle.
Readable(e) ==
  /\ end[e].on # None
  /\ ~end[e].closing
  /\ IsIdle(<<SideOf(e), end[e].on>>)

\* PublicConn::handleRead and LocalConn::handleRead, when data is read
ReadEnd(e) ==
  /\ Readable(e)
  /\ MaySend(e)
  /\ Send(<<Other(SideOf(e)), end[e].on>>, Chunk(e, end[e].tran + 1))
  /\ end' = [end EXCEPT ![e].tran = @ + 1]
  /\ UNCHANGED <<conn, ctl, proxy_conn_map, free_proxy_conns, undeal_public_fds,
                 wait_for_start, opened, th>>

\* ProxyConn::handleRead in data mode.  The chunk is lost when the peer's fd is
\* not set (and then counted or not) or no longer writable (not counted).
TransferChunk(c, counted) ==
  LET e == conn[c].peer
      recv == conn[c].recv + IF counted THEN 1 ELSE 0
  IN /\ IsIdle(c)
     /\ conn[c].is_start
     /\ net[c] # << >>
     /\ e # None => counted = ~end[e].fin
     /\ net' = [net EXCEPT ![c] = Tail(@)]
     /\ end' = IF e # None /\ counted
               THEN [end EXCEPT ![e].out = Append(@, <<Head(net[c]).end, Head(net[c]).seq>>)]
               ELSE end
     /\ conn' = [conn EXCEPT ![c].recv = recv]
     /\ Goto(c, IF counted /\ AllForwarded(recv, conn[c].theo) THEN At("check", c[2], None) ELSE Idle)
     /\ UNCHANGED <<ctl, proxy_conn_map, free_proxy_conns, undeal_public_fds,
                    wait_for_start, opened>>

----------------------------------------------------------------------------
(***************************************************************************)
(* Closing                                                                 *)
(***************************************************************************)

\* A ProxyConn's state r after ProxyConn::shutdownFromLocal
ShutdownFromLocal(r) ==
  IF r.half_close THEN Reset ELSE [r EXCEPT !.half_close = TRUE]

\* Tunnel::shutdownFromPublic on the server, Tunnel::shutdownFromLocal on the
\* client, up to the message
ShutdownFromEnd(c, e) ==
  IF c[2] \in proxy_conn_map[c[1]]
  THEN /\ conn' = [conn EXCEPT ![c] = ShutdownFromLocal(@)]
       /\ Goto(c, At("notify", c[2], e))
  ELSE UNCHANGED <<conn, th>>

\* handleRead of a PublicConn or LocalConn that reads end-of-stream
ReadEof(e) ==
  /\ Readable(e)
  /\ MayClose(e)
  /\ end' = [end EXCEPT ![e].closing = TRUE]
  /\ ShutdownFromEnd(<<SideOf(e), end[e].on>>, e)
  /\ UNCHANGED <<net, ctl, proxy_conn_map, free_proxy_conns, undeal_public_fds,
                 wait_for_start, opened>>

\* Control::shutdownFromPublic, Client::shutdownFromLocal
NotifyPeer(t) ==
  /\ th[t].pc = "notify"
  /\ ctl' = [ctl EXCEPT ![Other(t[1])] =
               Append(@, Shutdown(th[t].proxy, end[th[t].end].tran))]
  /\ Goto(t, Idle)
  /\ UNCHANGED <<conn, net, proxy_conn_map, free_proxy_conns, undeal_public_fds,
                 wait_for_start, end, opened>>

\* The two handlers below up to the comparison: a notification for an unknown
\* proxy connection is dropped.
HandleShutdown(s) ==
  LET m == Head(ctl[s])
      c == <<s, m.proxy>>
  IN /\ IsIdle(Main(s))
     /\ ctl[s] # << >> /\ m.type = "NotifyProxyShutdownPeerConn"
     /\ ctl' = [ctl EXCEPT ![s] = Tail(@)]
     /\ IF m.proxy \in proxy_conn_map[s]
        THEN /\ conn' = [conn EXCEPT ![c].theo = IncrTheoretical(@, m.count)]
             /\ Goto(Main(s), At("check", m.proxy, None))
        ELSE UNCHANGED <<conn, th>>
     /\ UNCHANGED <<net, proxy_conn_map, free_proxy_conns, undeal_public_fds,
                    wait_for_start, end, opened>>

HandleShutdownPublicConn == HandleShutdown("S")   \* of Control
HandleShutdownLocalConn == HandleShutdown("C")    \* of Client

\* The comparison in shutdownPublicConn / shutdonwLocalConn, by a main thread or
\* by a worker that has found the counts equal before
CheckCounts(t) ==
  LET c == conn[<<t[1], th[t].proxy>>]
  IN /\ th[t].pc = "check"
     /\ Goto(t, IF AllForwarded(c.recv, c.theo) THEN At("shut", th[t].proxy, None) ELSE Idle)
     /\ UNCHANGED <<conn, net, ctl, proxy_conn_map, free_proxy_conns,
                    undeal_public_fds, wait_for_start, end, opened>>

\* Mutated form: resets on the first of the two directions.
ResetAtOnce(c) == TRUE

\* Whether the other direction of c was shut before.
HalfClosed(c) == conn[c].half_close

\* ProxyConn::shutdownFromRemote, called by a main thread or by a worker
ShutdownFromRemote(t) ==
  LET c == <<t[1], th[t].proxy>>
      e == conn[c].peer
  IN /\ th[t].pc = "shut"
     /\ end' = IF e = None THEN end ELSE [end EXCEPT ![e].fin = TRUE]
     /\ IF HalfClosed(c)
        THEN /\ conn' = [conn EXCEPT ![c] = Reset]
             /\ Goto(t, At(IF t[1] = "S" THEN "free" ELSE "reqfree", th[t].proxy, None))
        ELSE /\ conn' = [conn EXCEPT ![c].half_close = TRUE]
             /\ Goto(t, Idle)
     /\ UNCHANGED <<net, ctl, proxy_conn_map, free_proxy_conns, undeal_public_fds,
                    wait_for_start, opened>>

\* The end of Tunnel::shutdonwLocalConn on the client
RequestFree(t) ==
  /\ th[t].pc = "reqfree"
  /\ ctl' = [ctl EXCEPT !["S"] = Append(@, FreeReq(th[t].proxy))]
  /\ Goto(t, Idle)
  /\ UNCHANGED <<conn, net, proxy_conn_map, free_proxy_conns, undeal_public_fds,
                 wait_for_start, end, opened>>

\* Control::handleFreeProxyConnReq
HandleFreeProxyConnReq ==
  /\ IsIdle(Main("S"))
  /\ ctl["S"] # << >> /\ Head(ctl["S"]).type = "FreeProxyConnReq"
  /\ ctl' = [ctl EXCEPT !["S"] = Tail(@)]
  /\ Goto(Main("S"), At("free", Head(ctl["S"]).proxy, None))
  /\ UNCHANGED <<conn, net, proxy_conn_map, free_proxy_conns, undeal_public_fds,
                 wait_for_start, end, opened>>

\* Tunnel::freeProxyConn: its two checks ...
FreeProxyConn(t) ==
  LET p == th[t].proxy
  IN /\ th[t].pc = "free"
     /\ Goto(t, IF p \in proxy_conn_map["S"] /\ ~conn[<<"S", p>>].is_start
                THEN At("push", p, None) ELSE Idle)
     /\ UNCHANGED <<conn, net, ctl, proxy_conn_map, free_proxy_conns,
                    undeal_public_fds, wait_for_start, end, opened>>

\* ... and, with neither lock held in between, its two updates.
PushFree(t) ==
  /\ th[t].pc = "push"
  /\ proxy_conn_map' = [proxy_conn_map EXCEPT !["S"] = @ \ {th[t].proxy}]
  /\ free_proxy_conns' = Append(free_proxy_conns, th[t].proxy)
  /\ Goto(t, Idle)
  /\ UNCHANGED <<conn, net, ctl, undeal_public_fds, wait_for_start, end, opened>>

----------------------------------------------------------------------------
ThreadStep(t) ==
  \/ StartFlag(t) \/ StartBind(t)
  \/ NotifyPeer(t) \/ CheckCounts(t) \/ ShutdownFromRemote(t) \/ RequestFree(t)
  \/ FreeProxyConn(t) \/ PushFree(t)

ReadProxy(c) ==
  \/ DropInCtlMode(c)
  \/ \E counted \in BOOLEAN : TransferChunk(c, counted)

StartProxy(p) ==
  \/ \E l \in Loc : HandleProxyNotify(p, l) \/ HandleStartProxyConnReq(p, l)
  \/ ClaimProxyConn(p) \/ HandleStartProxyConnRsp(p)

Next ==
  \/ \E x \in Pub : AcceptOnFree(x) \/ AcceptNeedsProxy(x)
  \/ AddWait \/ HandleFreeProxyConnReq
  \/ \E t \in Thread : ThreadStep(t)
  \/ HandleShutdownPublicConn \/ HandleShutdownLocalConn
  \/ \E c \in Conn : ReadProxy(c)
  \/ \E p \in Proxy : StartProxy(p)
  \/ \E e \in End : ReadEnd(e) \/ ReadEof(e)

Spec == Init /\ [][Next]_vars

\* What each thread does next: inside a handler, or with what its poller reports
MainStep(s) ==
  \/ ThreadStep(Main(s))
  \/ s = "S" /\ (HandleFreeProxyConnReq \/ HandleShutdownPublicConn)
  \/ s = "C" /\ (HandleShutdownLocalConn \/ \E p \in Proxy, l \in Loc : HandleProxyNotify(p, l))

WorkerStep(c) ==
  \/ ThreadStep(c) \/ ReadProxy(c)
  \/ c[1] = "S" /\ (ClaimProxyConn(c[2]) \/ HandleStartProxyConnRsp(c[2]))
  \/ c[1] = "C" /\ \E l \in Loc : HandleStartProxyConnReq(c[2], l)

\* Every thread goes on, and the applications go on with their dialogue.  No
\* client has to connect.
FairSpec ==
  /\ Spec
  /\ WF_vars(AddWait)
  /\ \A s \in Side : WF_vars(MainStep(s))
  /\ \A c \in Conn : WF_vars(WorkerStep(c))
  /\ \A e \in End : WF_vars(ReadEnd(e) \/ ReadEof(e))

----------------------------------------------------------------------------
(***************************************************************************)
(* Properties                                                              *)
(***************************************************************************)
Item ==
  {MetaSet} \cup {StartReq(x) : x \in Pub} \cup {StartRsp(x) : x \in Pub}
    \cup {Chunk(e, n) : e \in End, n \in 1..MaxChunks}

CtlMsg ==
  {NeedProxy} \cup {FreeReq(p) : p \in Proxy}
    \cup {Shutdown(p, n) : p \in Proxy, n \in 0..MaxChunks}

\* Where a thread may stop inside a handler.
Frame ==
  {Idle} \cup {At(l, p, e) : l \in {"start", "bind"}, p \in Proxy, e \in Loc}
    \cup {At("notify", p, e) : p \in Proxy, e \in End}
    \cup {At(l, p, None) : p \in Proxy,
            l \in {"wait", "check", "shut", "free", "push", "reqfree"}}

ProxyConnState ==
  [is_start : BOOLEAN, half_close : BOOLEAN, peer : End \cup {None},
   recv : Nat, theo : Nat \cup {-1}]

EndState ==
  [on : Proxy \cup {None}, tran : 0..MaxChunks, closing : BOOLEAN,
   out : Seq((End \cup {None}) \X Nat), fin : BOOLEAN]

\* The state components have their types; in particular a message names the
\* connection it is about, and a thread inside a handler knows its ProxyConn.
TypeOK ==
  /\ conn \in [Conn -> ProxyConnState]
  /\ net \in [Conn -> Seq(Item)]
  /\ ctl \in [Side -> Seq(CtlMsg)]
  /\ proxy_conn_map \in [Side -> SUBSET Proxy]
  /\ free_proxy_conns \in Seq(Proxy)
  /\ undeal_public_fds \in Seq(Pub)
  /\ wait_for_start \subseteq Proxy
  /\ end \in [End -> EndState]
  /\ opened \subseteq End
  /\ th \in [Thread -> Frame]

\* Every public connection parked in undeal_public_fds_ has exactly one request
\* for a proxy connection, or one meta message, on its way: claimProxyConn never
\* pops an empty vector and no public connection is forgotten there.
ClaimFindsPublic ==
  Len(undeal_public_fds) =
    Cardinality({i \in DOMAIN ctl["C"] : ctl["C"][i] = NeedProxy})
      + Cardinality({p \in Proxy : \E i \in DOMAIN net[<<"S", p>>] : net[<<"S", p>>][i] = MetaSet})

\* No two ProxyConns forward to the same end, however connections are reused.
NoSharedEnd ==
  \A c, d \in Conn : conn[c].peer = conn[d].peer /\ conn[c].peer # None => c = d

\* A proxy connection in the free list is there once, is in control mode with
\* cleared counters on both sides, and has nothing left in flight.
FreeIsQuiet ==
  \A i \in DOMAIN free_proxy_conns :
    LET p == free_proxy_conns[i]
    IN /\ \A j \in DOMAIN free_proxy_conns : free_proxy_conns[j] = p => j = i
       /\ \A s \in Side : conn[<<s, p>>] = Reset /\ net[<<s, p>>] = << >>
       /\ p \notin proxy_conn_map["S"]

Relaying == INSTANCE Relay WITH
  sent <- [e \in End |-> end[e].tran],
  closed <- [e \in End |-> end[e].closing],
  out <- [e \in End |-> end[e].out],
  fin <- [e \in End |-> end[e].fin]

\* The tunnel behaves like one TCP connection per public client.
RelaysLikeTcp == Relaying!Spec

\* The answer of p overtook the listening thread and was dropped: the client has
\* started p, the server waits for an answer and there is none.
AnswerLost(p) ==
  /\ conn[<<"C", p>>].is_start
  /\ p \in wait_for_start
  /\ \A i \in DOMAIN net[<<"S", p>>] : net[<<"S", p>>][i].type # "StartProxyConnRsp"

\* Nothing in the server refers to x: it is not parked, not in a request to start
\* or its answer, and not bound.
Forgotten(x) ==
  /\ \A i \in DOMAIN undeal_public_fds : undeal_public_fds[i] # x
  /\ \A c \in Conn : \A i \in DOMAIN net[c] : net[c][i].end # x
  /\ end[x].on = None

\* In an orderly dialogue every accepted public connection is served to its end,
\* unless the answer to its request to start overtook the listening thread.
SessionsComplete ==
  \A x \in Pub :
    x \in opened ~> \/ end[x].closing /\ end[x].fin
                   \/ (Forgotten(x) /\ \E p \in Proxy : AnswerLost(p))

\* When the last public client (Pub is finite) has been served, every proxy connection
\* the client has made is back in the free list, with the same exception.
ProxyReturns ==
  <>[](\A p \in proxy_conn_map["C"] : p \in Range(free_proxy_conns) \/ AnswerLost(p))
============================================================================

------------------------- MODULE ProxyTunnelProofs --------------------------
(***************************************************************************)
(* Type correctness of ProxyTunnel: one lemma per group of handlers, each  *)
(* with a step per action and, under it, one per variable it changes.      *)
(* Then how the ends of a tunnel find their proxy connection: no end is    *)
(* ever bound to two of them (NoSharedEnd), and a worker that is told of a *)
(* new proxy connection always finds a parked public connection for it     *)
(* (ClaimFindsPublic).                                                     *)
(***************************************************************************)
EXTENDS ProxyTunnel, SequenceTheorems, Counting, TLAPS

\* Threads and the side a thread runs on.
LEMMA Threads ==
  /\ Conn \subseteq Thread
  /\ \A s \in Side : Main(s) \in Thread /\ Other(s) \in Side
  /\ Listener \in Thread
  /\ \A t \in Thread : t[1] \in Side
  /\ \A s \in Side, p \in Proxy : <<s, p>> \in Conn
  /\ \A c \in Conn : c[1] \in Side /\ c[2] \in Proxy /\ c = <<c[1], c[2]>>
  BY DEF Thread, Conn, Main, Side, Other, Listener

\* The ends and the side each is on.
LEMMA Ends ==
  /\ Pub \subseteq End /\ Loc \subseteq End
  /\ \A e \in End : SideOf(e) \in Side /\ Other(SideOf(e)) \in Side
  BY DEF End, SideOf, Side, Other

\* The bounds on the numbers of chunks.
LEMMA Chunks ==
  /\ MaxChunks \in Nat
  /\ \A e \in End : Quota(e) \in 0..MaxChunks
  BY TunnelAssumption DEF TunnelAssumption, MaxChunks, Quota

\* What the messages on a proxy connection carry.
LEMMA Items ==
  /\ MetaSet \in Item
  /\ \A x \in Pub : StartReq(x) \in Item /\ StartRsp(x) \in Item
  /\ \A e \in End, n \in 1..MaxChunks : Chunk(e, n) \in Item
  /\ \A i \in Item : /\ i.end \in End \cup {None}
                     /\ i.seq \in Nat
                     /\ i.type = "StartProxyConnReq" => i.end \in Pub
                     /\ i.type = "StartProxyConnRsp" => i.end \in Pub
<1>1. \A i \in Item : /\ i.end \in End \cup {None}
                      /\ i.seq \in Nat
                      /\ i.type = "StartProxyConnReq" => i.end \in Pub
                      /\ i.type = "StartProxyConnRsp" => i.end \in Pub
  BY Ends, Chunks DEF Item, MetaSet, StartReq, StartRsp, Chunk
<1> QED
  BY <1>1 DEF Item

\* What the messages on the control connection carry.
LEMMA CtlMsgs ==
  /\ NeedProxy \in CtlMsg
  /\ \A p \in Proxy : FreeReq(p) \in CtlMsg
  /\ \A p \in Proxy, n \in 0..MaxChunks : Shutdown(p, n) \in CtlMsg
  /\ \A m \in CtlMsg :
       /\ m.type = "FreeProxyConnReq" => m.proxy \in Proxy
       /\ m.type = "NotifyProxyShutdownPeerConn" => m.proxy \in Proxy /\ m.count \in Nat
<1>1. /\ NeedProxy \in CtlMsg
      /\ \A p \in Proxy : FreeReq(p) \in CtlMsg
      /\ \A p \in Proxy, n \in 0..MaxChunks : Shutdown(p, n) \in CtlMsg
  BY DEF CtlMsg
<1>2. \A m \in CtlMsg :
        /\ m.type = "FreeProxyConnReq" => m.proxy \in Proxy
        /\ m.type = "NotifyProxyShutdownPeerConn" => m.proxy \in Proxy /\ m.count \in Nat
  BY Chunks DEF CtlMsg, NeedProxy, FreeReq, Shutdown
<1> QED
  BY <1>1, <1>2

\* What a thread that stopped inside a handler remembers.
LEMMA Frames ==
  /\ Idle \in Frame
  /\ \A p \in Proxy, e \in Loc : At("start", p, e) \in Frame /\ At("bind", p, e) \in Frame
  /\ \A p \in Proxy, e \in End : At("notify", p, e) \in Frame
  /\ \A p \in Proxy, l \in {"wait", "check", "shut", "free", "push", "reqfree"} :
       At(l, p, None) \in Frame
  /\ \A r \in Frame :
       /\ r.pc \in {"start", "bind"} => r.proxy \in Proxy /\ r.end \in Loc
       /\ r.pc = "notify" => r.proxy \in Proxy /\ r.end \in End
       /\ r.pc \in {"wait", "check", "shut", "free", "push", "reqfree"} => r.proxy \in Proxy
<1>1. /\ Idle \in Frame
      /\ \A p \in Proxy, e \in Loc : At("start", p, e) \in Frame /\ At("bind", p, e) \in Frame
      /\ \A p \in Proxy, e \in End : At("notify", p, e) \in Frame
      /\ \A p \in Proxy, l \in {"wait", "check", "shut", "free", "push", "reqfree"} :
           At(l, p, None) \in Frame
  BY DEF Frame
<1>2. \A r \in Frame :
        /\ r.pc \in {"start", "bind"} => r.proxy \in Proxy /\ r.end \in Loc
        /\ r.pc = "notify" => r.proxy \in Proxy /\ r.end \in End
        /\ r.pc \in {"wait", "check", "shut", "free", "push", "reqfree"} => r.proxy \in Proxy
  BY DEF Frame, Idle, At
<1> QED
  BY <1>1, <1>2

\* The sequence without its last element, and that element.
LEMMA FrontLast ==
  ASSUME NEW S, NEW q \in Seq(S), q # << >>
  PROVE  Front(q) \in Seq(S) /\ Last(q) \in S
  BY DEF Front, Last

\* Where start() leaves the ends.
LEMMA MountedType ==
  ASSUME TypeOK, NEW e \in End, NEW p \in Proxy
  PROVE  Mounted(e, p) \in [End -> EndState]
<1>1. \A f \in End : end[f] \in EndState
  BY DEF TypeOK
<1>2. \A f \in End : [end[f] EXCEPT !.on = p] \in EndState /\ [end[f] EXCEPT !.on = None] \in EndState
  BY <1>1 DEF EndState
<1> QED
  BY <1>1, <1>2 DEF Mounted

----------------------------------------------------------------------------
\* The initial state has the types.
LEMMA InitTypeOK == Init => TypeOK
<1> SUFFICES ASSUME Init PROVE TypeOK
  OBVIOUS
<1>1. Reset \in ProxyConnState
  BY DEF Reset, ProxyConnState
<1>2. [on |-> None, tran |-> 0, closing |-> FALSE, out |-> << >>, fin |-> FALSE] \in EndState
  BY Chunks DEF EndState
<1> QED
  BY <1>1, <1>2, Frames DEF Init, TypeOK

\* The listening thread keeps the types.
LEMMA ListenerTypeOK ==
  ASSUME TypeOK, NEW x \in Pub, AcceptOnFree(x) \/ AcceptNeedsProxy(x)
  PROVE  TypeOK'
<1>1. CASE AcceptOnFree(x)
  <2> DEFINE q == Last(free_proxy_conns)
  <2>1. PopFree \in Seq(Proxy) /\ q \in Proxy
    BY <1>1, FrontLast DEF AcceptOnFree, PopFree, TypeOK
  <2>2. <<"C", q>> \in Conn /\ StartReq(x) \in Item /\ At("wait", q, None) \in Frame
    BY <2>1, Threads, Items, Frames DEF Side
  <2>3. net' \in [Conn -> Seq(Item)]
    BY <1>1, <2>2, AppendProperties DEF AcceptOnFree, Send, TypeOK
  <2>4. th' \in [Thread -> Frame]
    BY <1>1, <2>2 DEF AcceptOnFree, Goto, TypeOK
  <2> QED
    BY <1>1, <2>1, <2>3, <2>4, Ends DEF AcceptOnFree, TypeOK
<1>2. CASE AcceptNeedsProxy(x)
  BY <1>2, CtlMsgs, Ends, AppendProperties DEF AcceptNeedsProxy, TypeOK, Side
<1> QED
  BY <1>1, <1>2

\* Removing the front of a queue and appending to one keep its type.
LEMMA QueueTypes ==
  ASSUME TypeOK
  PROVE  /\ \A c \in Conn : net[c] # << >> =>
              Head(net[c]) \in Item /\ [net EXCEPT ![c] = Tail(@)] \in [Conn -> Seq(Item)]
         /\ \A s \in Side : ctl[s] # << >> =>
              Head(ctl[s]) \in CtlMsg /\ [ctl EXCEPT ![s] = Tail(@)] \in [Side -> Seq(CtlMsg)]
         /\ \A c \in Conn, i \in Item : [net EXCEPT ![c] = Append(@, i)] \in [Conn -> Seq(Item)]
         /\ \A s \in Side, m \in CtlMsg :
              [ctl EXCEPT ![s] = Append(@, m)] \in [Side -> Seq(CtlMsg)]
<1>1. \A c \in Conn : net[c] \in Seq(Item)
  BY DEF TypeOK
<1>2. \A s \in Side : ctl[s] \in Seq(CtlMsg)
  BY DEF TypeOK
<1>3. \A c \in Conn : net[c] # << >> => Head(net[c]) \in Item /\ Tail(net[c]) \in Seq(Item)
  BY <1>1, HeadTailProperties
<1>4. \A s \in Side : ctl[s] # << >> => Head(ctl[s]) \in CtlMsg /\ Tail(ctl[s]) \in Seq(CtlMsg)
  BY <1>2, HeadTailProperties
<1>5. \A c \in Conn, i \in Item : Append(net[c], i) \in Seq(Item)
  BY <1>1, AppendProperties
<1>6. \A s \in Side, m \in CtlMsg : Append(ctl[s], m) \in Seq(CtlMsg)
  BY <1>2, AppendProperties
<1> QED
  BY <1>3, <1>4, <1>5, <1>6 DEF TypeOK

\* A state change of one ProxyConn, of one end or of one thread keeps the types.
LEMMA ComponentTypes ==
  ASSUME TypeOK
  PROVE  /\ \A c \in Conn, r \in ProxyConnState : [conn EXCEPT ![c] = r] \in [Conn -> ProxyConnState]
         /\ \A e \in End, r \in EndState : [end EXCEPT ![e] = r] \in [End -> EndState]
         /\ \A t \in Thread, r \in Frame : [th EXCEPT ![t] = r] \in [Thread -> Frame]
         /\ \A c \in Conn : conn[c] \in ProxyConnState
         /\ \A e \in End : end[e] \in EndState
         /\ \A t \in Thread : th[t] \in Frame
  BY DEF TypeOK

\* Changing what an end has received keeps its type.
LEMMA OutType ==
  ASSUME NEW r \in EndState, NEW q \in Seq((End \cup {None}) \X Nat)
  PROVE  [r EXCEPT !.out = q] \in EndState
<1> DEFINE Q == Seq((End \cup {None}) \X Nat)
           R == [on : Proxy \cup {None}, tran : 0..MaxChunks, closing : BOOLEAN,
                 out : Q, fin : BOOLEAN]
<1>1. EndState = R /\ q \in Q
  BY DEF EndState
<1> HIDE DEF Q
<1>2. r \in R
  BY <1>1
<1>3. [r EXCEPT !.out = q] \in R
  BY <1>1, <1>2
<1> QED
  BY <1>1, <1>3

\* Creating and starting a proxy connection keeps the types.
LEMMA StartTypeOK ==
  ASSUME TypeOK, NEW p \in Proxy, StartProxy(p)
  PROVE  TypeOK'
<1>0. <<"C", p>> \in Conn /\ <<"S", p>> \in Conn /\ <<"C", p>> # <<"S", p>>
  BY Threads DEF Side
<1>1. ASSUME NEW l \in Loc, HandleProxyNotify(p, l) PROVE TypeOK'
  <2>1. ctl' \in [Side -> Seq(CtlMsg)]
    BY <1>1, QueueTypes DEF HandleProxyNotify, CreateProxyConn, CreateLocalConn, Side
  <2>2. net' \in [Conn -> Seq(Item)]
    BY <1>0, <1>1, Items, QueueTypes DEF HandleProxyNotify, CreateProxyConn, CreateLocalConn, Send
  <2>3. th' \in [Thread -> Frame]
    BY <1>1, Frames, Threads, ComponentTypes DEF HandleProxyNotify, CreateProxyConn, CreateLocalConn, Goto, Side
  <2>4. proxy_conn_map' \in [Side -> SUBSET Proxy] /\ opened' \subseteq End
    BY <1>1, Ends DEF HandleProxyNotify, CreateProxyConn, CreateLocalConn, TypeOK, Side
  <2> QED
    BY <1>1, <2>1, <2>2, <2>3, <2>4 DEF HandleProxyNotify, CreateProxyConn, CreateLocalConn, TypeOK
<1>2. ASSUME NEW l \in Loc, HandleStartProxyConnReq(p, l) PROVE TypeOK'
  <2> DEFINE x == Head(net[<<"C", p>>]).end
  <2>1. StartRsp(x) \in Item
    BY <1>0, <1>2, Items, QueueTypes DEF HandleStartProxyConnReq, CreateLocalConn, InCtlMode
  <2>2. net' \in [Conn -> Seq(Item)]
    <3>1. net[<<"C", p>>] \in Seq(Item) /\ net[<<"S", p>>] \in Seq(Item) /\ net[<<"C", p>>] # << >>
      BY <1>0, <1>2 DEF TypeOK, HandleStartProxyConnReq, InCtlMode
    <3>2. Tail(net[<<"C", p>>]) \in Seq(Item) /\ Append(net[<<"S", p>>], StartRsp(x)) \in Seq(Item)
      BY <2>1, <3>1, HeadTailProperties, AppendProperties
    <3> HIDE DEF x
    <3>3. net' = [net EXCEPT ![<<"C", p>>] = Tail(@), ![<<"S", p>>] = Append(@, StartRsp(x))]
      BY <1>2 DEF HandleStartProxyConnReq, CreateLocalConn, x
    <3> QED
      BY <1>0, <3>2, <3>3 DEF TypeOK
  <2>3. th' \in [Thread -> Frame] /\ opened' \subseteq End
    BY <1>0, <1>2, Frames, Threads, Ends, ComponentTypes DEF HandleStartProxyConnReq, CreateLocalConn, Goto, TypeOK
  <2> QED
    BY <1>2, <2>2, <2>3 DEF HandleStartProxyConnReq, CreateLocalConn, TypeOK
<1>3. ASSUME NEW x \in Pub, BindPublicFdToProxyConn(p, x), net[<<"S", p>>] # << >>
      PROVE  /\ conn' \in [Conn -> ProxyConnState]
             /\ end' \in [End -> EndState]
             /\ proxy_conn_map' \in [Side -> SUBSET Proxy]
             /\ net' \in [Conn -> Seq(Item)]
  <2>1. conn' \in [Conn -> ProxyConnState]
    <3>1. [conn[<<"S", p>>] EXCEPT !.is_start = TRUE, !.peer = x] \in ProxyConnState
      BY <1>0, Ends, ComponentTypes DEF ProxyConnState
    <3>2. conn' = [conn EXCEPT ![<<"S", p>>] = [@ EXCEPT !.is_start = TRUE, !.peer = x]]
      BY <1>3 DEF BindPublicFdToProxyConn
    <3> QED
      BY <1>0, <3>1, <3>2, ComponentTypes
  <2> QED
    BY <1>0, <1>3, <2>1, Ends, MountedType, QueueTypes DEF BindPublicFdToProxyConn, TypeOK
<1>4. CASE ClaimProxyConn(p)
  <2>1. Last(undeal_public_fds) \in Pub /\ undeal_public_fds' \in Seq(Pub)
    BY <1>4, FrontLast DEF ClaimProxyConn, PopUndeal, TypeOK
  <2> QED
    BY <1>3, <1>4, <2>1 DEF ClaimProxyConn, InCtlMode, TypeOK
<1>5. CASE HandleStartProxyConnRsp(p)
  <2>1. Head(net[<<"S", p>>]).end \in Pub
    BY <1>0, <1>5, Items, QueueTypes DEF HandleStartProxyConnRsp, InCtlMode
  <2> QED
    BY <1>3, <1>5, <2>1 DEF HandleStartProxyConnRsp, InCtlMode, TypeOK
<1> QED
  BY <1>1, <1>2, <1>4, <1>5 DEF StartProxy

\* The continuation of a handler keeps the types.
LEMMA ThreadTypeOK ==
  ASSUME TypeOK, NEW t \in Thread, ThreadStep(t)
  PROVE  TypeOK'
<1>0. t[1] \in Side /\ Other(t[1]) \in Side /\ th[t] \in Frame
  BY Threads, ComponentTypes
<1>1. CASE StartFlag(t)
  <2> DEFINE c == <<"C", th[t].proxy>>
  <2>1. th[t].proxy \in Proxy /\ th[t].end \in Loc /\ c \in Conn
    BY <1>0, <1>1, Frames, Threads DEF StartFlag, Side
  <2>2. [conn[c] EXCEPT !.is_start = TRUE] \in ProxyConnState
    BY <2>1, ComponentTypes DEF ProxyConnState
  <2>3. conn' \in [Conn -> ProxyConnState]
    BY <1>1, <2>1, <2>2, ComponentTypes DEF StartFlag
  <2>4. th' \in [Thread -> Frame]
    BY <1>1, <2>1, Frames, ComponentTypes DEF StartFlag, Goto
  <2> QED
    BY <1>1, <2>3, <2>4 DEF StartFlag, TypeOK
<1>2. CASE StartBind(t)
  <2> DEFINE c == <<"C", th[t].proxy>>
  <2>1. th[t].proxy \in Proxy /\ th[t].end \in End /\ c \in Conn
    BY <1>0, <1>2, Frames, Threads, Ends DEF StartBind, Side
  <2>2. [conn[c] EXCEPT !.peer = th[t].end] \in ProxyConnState
    BY <2>1, ComponentTypes DEF ProxyConnState
  <2>3. conn' \in [Conn -> ProxyConnState]
    BY <1>2, <2>1, <2>2, ComponentTypes DEF StartBind
  <2>4. th' \in [Thread -> Frame] /\ end' \in [End -> EndState]
    BY <1>2, <2>1, Frames, ComponentTypes, MountedType DEF StartBind, Goto
  <2> QED
    BY <1>2, <2>3, <2>4 DEF StartBind, TypeOK
<1>3. CASE NotifyPeer(t)
  <2>1. th[t].proxy \in Proxy /\ th[t].end \in End
    BY <1>0, <1>3, Frames DEF NotifyPeer
  <2>2. end[th[t].end].tran \in 0..MaxChunks
    BY <2>1, ComponentTypes DEF EndState
  <2>3. Shutdown(th[t].proxy, end[th[t].end].tran) \in CtlMsg
    BY <2>1, <2>2, CtlMsgs
  <2>4. ctl' \in [Side -> Seq(CtlMsg)] /\ th' \in [Thread -> Frame]
    BY <1>0, <1>3, <2>3, Frames, QueueTypes, ComponentTypes DEF NotifyPeer, Goto
  <2> QED
    BY <1>3, <2>4 DEF NotifyPeer, TypeOK
<1>4. CASE CheckCounts(t)
  <2>1. th' \in [Thread -> Frame]
    BY <1>0, <1>4, Frames, ComponentTypes DEF CheckCounts, Goto
  <2> QED
    BY <1>4, <2>1 DEF CheckCounts, TypeOK
<1>5. CASE ShutdownFromRemote(t)
  <2> DEFINE c == <<t[1], th[t].proxy>>
             e == conn[c].peer
  <2>1. th[t].proxy \in Proxy /\ c \in Conn
    BY <1>0, <1>5, Frames, Threads DEF ShutdownFromRemote
  <2>2. e \in End \cup {None} /\ Reset \in ProxyConnState
        /\ [conn[c] EXCEPT !.half_close = TRUE] \in ProxyConnState
    BY <2>1, ComponentTypes DEF ProxyConnState, Reset
  <2>3. end' \in [End -> EndState]
    <3>1. CASE e = None
      BY <1>5, <3>1 DEF ShutdownFromRemote, TypeOK
    <3>2. CASE e # None
      <4>1. e \in End /\ [end[e] EXCEPT !.fin = TRUE] \in EndState
        BY <2>2, <3>2, ComponentTypes, ZenonT(60) DEF EndState
      <4> QED
        BY <1>5, <3>2, <4>1, ComponentTypes DEF ShutdownFromRemote
    <3> QED
      BY <3>1, <3>2
  <2>4. conn' \in [Conn -> ProxyConnState] /\ th' \in [Thread -> Frame]
    <3>1. CASE HalfClosed(c)
      BY <1>5, <2>1, <2>2, <3>1, Frames, ComponentTypes DEF ShutdownFromRemote, Goto
    <3>2. CASE ~HalfClosed(c)
      BY <1>5, <2>1, <2>2, <3>2, Frames, ComponentTypes DEF ShutdownFromRemote, Goto
    <3> QED
      BY <3>1, <3>2
  <2> QED
    BY <1>5, <2>3, <2>4 DEF ShutdownFromRemote, TypeOK
<1>6. CASE RequestFree(t)
  <2>1. FreeReq(th[t].proxy) \in CtlMsg
    BY <1>0, <1>6, Frames, CtlMsgs DEF RequestFree
  <2>2. ctl' \in [Side -> Seq(CtlMsg)] /\ th' \in [Thread -> Frame]
    BY <1>6, <2>1, Frames, QueueTypes, ComponentTypes DEF RequestFree, Goto, Side
  <2> QED
    BY <1>6, <2>2 DEF RequestFree, TypeOK
<1>7. CASE FreeProxyConn(t)
  <2>1. th' \in [Thread -> Frame]
    BY <1>0, <1>7, Frames, ComponentTypes DEF FreeProxyConn, Goto
  <2> QED
    BY <1>7, <2>1 DEF FreeProxyConn, TypeOK
<1>8. CASE PushFree(t)
  <2>1. th[t].proxy \in Proxy
    BY <1>0, <1>8, Frames DEF PushFree
  <2>2. th' \in [Thread -> Frame]
    BY <1>8, Frames, ComponentTypes DEF PushFree, Goto
  <2>3. free_proxy_conns' \in Seq(Proxy)
    BY <1>8, <2>1, AppendProperties DEF PushFree, TypeOK
  <2>4. proxy_conn_map' \in [Side -> SUBSET Proxy]
    BY <1>8 DEF PushFree, TypeOK, Side
  <2> QED
    BY <1>8, <2>2, <2>3, <2>4 DEF PushFree, TypeOK
<1> QED
  BY <1>1, <1>2, <1>3, <1>4, <1>5, <1>6, <1>7, <1>8 DEF ThreadStep

\* The control connection's handlers keep the types.
LEMMA MainTypeOK ==
  ASSUME TypeOK, (\E s \in Side : HandleShutdown(s)) \/ HandleFreeProxyConnReq
  PROVE  TypeOK'
<1>1. ASSUME NEW s \in Side, HandleShutdown(s) PROVE TypeOK'
  <2> DEFINE m == Head(ctl[s])
             c == <<s, m.proxy>>
  <2>1. m.proxy \in Proxy /\ m.count \in Nat /\ c \in Conn /\ Main(s) \in Thread
    BY <1>1, QueueTypes, CtlMsgs, Threads DEF HandleShutdown
  <2>2. ctl' \in [Side -> Seq(CtlMsg)]
    BY <1>1, QueueTypes DEF HandleShutdown
  <2>3. conn' \in [Conn -> ProxyConnState] /\ th' \in [Thread -> Frame]
    <3>1. CASE m.proxy \in proxy_conn_map[s]
      <4> DEFINE v == IncrTheoretical(conn[c].theo, m.count)
      <4>1. v \in Nat
        BY <2>1, ComponentTypes DEF ProxyConnState, IncrTheoretical
      <4>2. conn' = [conn EXCEPT ![c] = [conn[c] EXCEPT !.theo = v]]
        BY <1>1, <3>1 DEF HandleShutdown
      <4> HIDE DEF v
      <4>3. [conn[c] EXCEPT !.theo = v] \in ProxyConnState
        BY <2>1, <4>1, ComponentTypes DEF ProxyConnState
      <4>4. conn' \in [Conn -> ProxyConnState]
        BY <2>1, <4>2, <4>3, ComponentTypes
      <4> QED
        BY <1>1, <2>1, <3>1, <4>4, Frames, ComponentTypes DEF HandleShutdown, Goto
    <3>2. CASE m.proxy \notin proxy_conn_map[s]
      BY <1>1, <3>2 DEF HandleShutdown, TypeOK
    <3> QED
      BY <3>1, <3>2
  <2> QED
    BY <1>1, <2>2, <2>3 DEF HandleShutdown, TypeOK
<1>2. CASE HandleFreeProxyConnReq
  <2>1. Head(ctl["S"]).proxy \in Proxy /\ Main("S") \in Thread
    BY <1>2, QueueTypes, CtlMsgs, Threads DEF HandleFreeProxyConnReq, Side
  <2>2. ctl' \in [Side -> Seq(CtlMsg)] /\ th' \in [Thread -> Frame]
    BY <1>2, <2>1, QueueTypes, Frames, ComponentTypes DEF HandleFreeProxyConnReq, Goto, Side
  <2> QED
    BY <1>2, <2>2 DEF HandleFreeProxyConnReq, TypeOK
<1> QED
  BY <1>1, <1>2

\* Reading and forwarding data keeps the types.
LEMMA ForwardTypeOK ==
  ASSUME TypeOK, (\E c \in Conn : ReadProxy(c)) \/ (\E e \in End : ReadEnd(e) \/ ReadEof(e))
  PROVE  TypeOK'
<1>1. ASSUME NEW c \in Conn, DropInCtlMode(c) PROVE TypeOK'
  <2>1. net' \in [Conn -> Seq(Item)]
    BY <1>1, QueueTypes DEF DropInCtlMode, InCtlMode
  <2> QED
    BY <1>1, <2>1 DEF DropInCtlMode, TypeOK
<1>2. ASSUME NEW c \in Conn, NEW counted \in BOOLEAN, TransferChunk(c, counted) PROVE TypeOK'
  <2> DEFINE e == conn[c].peer
             recv == conn[c].recv + IF counted THEN 1 ELSE 0
             i == <<Head(net[c]).end, Head(net[c]).seq>>
  <2>1. /\ e \in End \cup {None} /\ recv \in Nat /\ c[2] \in Proxy /\ c \in Thread
        /\ [conn[c] EXCEPT !.recv = recv] \in ProxyConnState
    BY Threads, ComponentTypes DEF ProxyConnState
  <2>2. net' \in [Conn -> Seq(Item)] /\ i \in (End \cup {None}) \X Nat
    BY <1>2, QueueTypes, Items DEF TransferChunk
  <2>3. conn' \in [Conn -> ProxyConnState]
    BY <1>2, <2>1, ComponentTypes DEF TransferChunk
  <2>4. th' \in [Thread -> Frame]
    BY <1>2, <2>1, Frames, ComponentTypes DEF TransferChunk, Goto
  <2>5. end' \in [End -> EndState]
    <3>1. CASE e # None /\ counted
      <4>1. e \in End /\ end[e].out \in Seq((End \cup {None}) \X Nat)
        BY <2>1, <3>1, ComponentTypes DEF EndState
      <4>2. Append(end[e].out, i) \in Seq((End \cup {None}) \X Nat)
        BY <2>2, <4>1, AppendProperties
      <4> DEFINE q == Append(end[e].out, i)
      <4>3. end' = [end EXCEPT ![e] = [end[e] EXCEPT !.out = q]]
        BY <1>2, <3>1 DEF TransferChunk
      <4>4. q \in Seq((End \cup {None}) \X Nat)
        BY <4>2
      <4> HIDE DEF q
      <4>5. [end[e] EXCEPT !.out = q] \in EndState
        BY <4>1, <4>4, ComponentTypes, OutType
      <4> QED
        BY <4>1, <4>3, <4>5, ComponentTypes
    <3>2. CASE ~(e # None /\ counted)
      BY <1>2, <3>2 DEF TransferChunk, TypeOK
    <3> QED
      BY <3>1, <3>2
  <2> QED
    BY <1>2, <2>2, <2>3, <2>4, <2>5 DEF TransferChunk, TypeOK
<1>3. ASSUME NEW e \in End, ReadEnd(e) PROVE TypeOK'
  <2>1. end[e].on \in Proxy /\ end[e].tran + 1 \in 1..MaxChunks
    BY <1>3, Chunks, ComponentTypes DEF ReadEnd, Readable, MaySend, EndState
  <2>2. <<Other(SideOf(e)), end[e].on>> \in Conn /\ Chunk(e, end[e].tran + 1) \in Item
    BY <2>1, Threads, Ends, Items
  <2>3. net' \in [Conn -> Seq(Item)]
    BY <1>3, <2>2, QueueTypes DEF ReadEnd, Send
  <2>4. end[e].tran + 1 \in 0..MaxChunks
    BY <2>1
  <2>5. end' \in [End -> EndState]
    <3> DEFINE n == end[e].tran + 1
    <3>1. end' = [end EXCEPT ![e] = [end[e] EXCEPT !.tran = n]]
      BY <1>3 DEF ReadEnd
    <3> HIDE DEF n
    <3>2. [end[e] EXCEPT !.tran = n] \in EndState
      BY <2>4, ComponentTypes DEF EndState, n
    <3> QED
      BY <3>1, <3>2, ComponentTypes
  <2> QED
    BY <1>3, <2>3, <2>5 DEF ReadEnd, TypeOK
<1>4. ASSUME NEW e \in End, ReadEof(e) PROVE TypeOK'
  <2> DEFINE c == <<SideOf(e), end[e].on>>
  <2>1. end[e].on \in Proxy /\ c \in Conn /\ c \in Thread
    BY <1>4, Ends, Threads, ComponentTypes DEF ReadEof, Readable, EndState
  <2>2. [end[e] EXCEPT !.closing = TRUE] \in EndState
    BY ComponentTypes DEF EndState
  <2>3. end' \in [End -> EndState]
    BY <1>4, <2>2, ComponentTypes DEF ReadEof
  <2>4. Reset \in ProxyConnState /\ [conn[c] EXCEPT !.half_close = TRUE] \in ProxyConnState
    BY <2>1, ComponentTypes DEF ProxyConnState, Reset
  <2>5. conn' \in [Conn -> ProxyConnState] /\ th' \in [Thread -> Frame]
    <3>1. CASE end[e].on \in proxy_conn_map[SideOf(e)]
      <4>1. conn' \in [Conn -> ProxyConnState]
        BY <1>4, <2>1, <2>4, <3>1, ComponentTypes DEF ReadEof, ShutdownFromEnd, ShutdownFromLocal
      <4>2. th' \in [Thread -> Frame]
        BY <1>4, <2>1, <3>1, Frames, ComponentTypes, SMTT(30) DEF ReadEof, ShutdownFromEnd, Goto
      <4> QED
        BY <4>1, <4>2
    <3>2. CASE end[e].on \notin proxy_conn_map[SideOf(e)]
      BY <1>4, <3>2 DEF ReadEof, ShutdownFromEnd, TypeOK
    <3> QED
      BY <3>1, <3>2
  <2> QED
    BY <1>4, <2>3, <2>5 DEF ReadEof, TypeOK
<1> QED
  BY <1>1, <1>2, <1>3, <1>4 DEF ReadProxy

\* Every step of the tunnel keeps the types.
LEMMA NextTypeOK == TypeOK /\ [Next]_vars => TypeOK'
<1> SUFFICES ASSUME TypeOK, [Next]_vars PROVE TypeOK'
  OBVIOUS
<1>1. CASE UNCHANGED vars
  BY <1>1 DEF vars, TypeOK
<1>2. CASE AddWait
  <2>1. th[Listener].proxy \in Proxy
    BY <1>2, Threads, Frames DEF AddWait, TypeOK
  <2> QED
    BY <1>2, <2>1, Frames DEF AddWait, Goto, TypeOK
<1>3. CASE HandleShutdownPublicConn \/ HandleShutdownLocalConn
  BY <1>3, MainTypeOK DEF HandleShutdownPublicConn, HandleShutdownLocalConn, Side
<1> QED
  BY <1>1, <1>2, <1>3, ListenerTypeOK, StartTypeOK, ThreadTypeOK, MainTypeOK, ForwardTypeOK
    DEF Next

\* For any number of proxy, public and local connections and of chunks, every
\* message names a connection of the right kind, a thread inside a handler knows
\* its ProxyConn, and only public connections are parked or asked for.
THEOREM TypeCorrect == Spec => []TypeOK
  BY InitTypeOK, NextTypeOK, PTL DEF Spec
----------------------------------------------------------------------------
\* Public connection x is bound to p or on its way to it: in the request to
\* start p, in its answer, or as the peer of p's server side.
PubOn(x, p) ==
  \/ StartReq(x) \in Range(net[<<"C", p>>])
  \/ StartRsp(x) \in Range(net[<<"S", p>>])
  \/ conn[<<"S", p>>].peer = x

\* Likewise a local connection: a thread is inside start(), or it was.
LocOn(l, p) ==
  \/ \E t \in Thread : /\ th[t].pc \in {"start", "bind"}
                       /\ th[t].proxy = p /\ th[t].end = l
  \/ conn[<<"C", p>>].peer = l

\* A public connection is parked, once, or on its way to one proxy connection.
PubInv ==
  /\ \A x \in Pub, p, q \in Proxy : PubOn(x, p) /\ PubOn(x, q) => p = q
  /\ \A x \in Pub, p \in Proxy : PubOn(x, p) => x \in opened /\ x \notin Range(undeal_public_fds)
  /\ Range(undeal_public_fds) \subseteq opened
  /\ \A i, j \in DOMAIN undeal_public_fds : undeal_public_fds[i] = undeal_public_fds[j] => i = j
  /\ \A p \in Proxy : conn[<<"S", p>>].peer \in Pub \cup {None}

\* A local connection is opened for one proxy connection.
LocInv ==
  /\ \A l \in Loc, p, q \in Proxy : LocOn(l, p) /\ LocOn(l, q) => p = q
  /\ \A l \in Loc, p \in Proxy : LocOn(l, p) => l \in opened
  /\ \A p \in Proxy : conn[<<"C", p>>].peer \in Loc \cup {None}

\* Nothing anywhere refers to a proxy connection the client has not created.
KnownInv ==
  /\ \A c \in Conn : net[c] # << >> => c[2] \in proxy_conn_map["C"]
  /\ \A p \in Proxy : conn[<<"S", p>>].is_start => p \in proxy_conn_map["C"]
  /\ Range(free_proxy_conns) \subseteq proxy_conn_map["C"]
  /\ proxy_conn_map["S"] \subseteq proxy_conn_map["C"]
  /\ \A e \in End : end[e].on # None => end[e].on \in proxy_conn_map["C"]
  /\ \A t \in Thread : th[t].pc \in {"start", "bind", "push"} => th[t].proxy \in proxy_conn_map["C"]
  /\ IsFiniteSet(proxy_conn_map["C"])

\* The meta message is the first thing the server reads of a proxy connection.
MetaFirst ==
  \A p \in Proxy : \A i \in DOMAIN net[<<"S", p>>] :
    net[<<"S", p>>][i] = MetaSet => i = 1 /\ ~conn[<<"S", p>>].is_start

\* The proxy connections whose meta message is under way.
Announced == {p \in Proxy : MetaSet \in Range(net[<<"S", p>>])}

\* How many requests for a proxy connection are on the control connection.
Requests == Cardinality(Positions(ctl["C"], {NeedProxy}))

BindingInv == PubInv /\ LocInv /\ KnownInv /\ MetaFirst /\ ClaimFindsPublic

----------------------------------------------------------------------------
\* What a queue holds after it is read from either end or appended to.
LEMMA Ranges ==
  ASSUME NEW S, NEW q \in Seq(S)
  PROVE  /\ Range(<< >>) = {}
         /\ \A m \in S : Range(Append(q, m)) = Range(q) \cup {m}
         /\ q # << >> => /\ Head(q) \in Range(q) /\ Range(Tail(q)) \subseteq Range(q)
                         /\ Last(q) \in Range(q) /\ Range(Front(q)) \subseteq Range(q)
<1>1. Range(<< >>) = {}
  BY DEF Range
<1>2. ASSUME NEW m \in S PROVE Range(Append(q, m)) = Range(q) \cup {m}
  <2>1. \A i \in DOMAIN q : i \in DOMAIN Append(q, m) /\ Append(q, m)[i] = q[i]
    OBVIOUS
  <2>2. Len(q) + 1 \in DOMAIN Append(q, m) /\ Append(q, m)[Len(q) + 1] = m
    OBVIOUS
  <2>3. \A i \in DOMAIN Append(q, m) : i \in DOMAIN q \/ i = Len(q) + 1
    OBVIOUS
  <2> QED BY <2>1, <2>2, <2>3 DEF Range
<1>3. ASSUME q # << >>
      PROVE  /\ Head(q) \in Range(q) /\ Range(Tail(q)) \subseteq Range(q)
             /\ Last(q) \in Range(q) /\ Range(Front(q)) \subseteq Range(q)
  <2>1. 1 \in DOMAIN q /\ Len(q) \in DOMAIN q
    BY <1>3
  <2>2. \A i \in DOMAIN Tail(q) : i + 1 \in DOMAIN q /\ Tail(q)[i] = q[i + 1]
    BY <1>3
  <2>3. \A i \in DOMAIN Front(q) : i \in DOMAIN q /\ Front(q)[i] = q[i]
    BY <1>3 DEF Front
  <2>4. Head(q) = q[1] /\ Last(q) = q[Len(q)]
    BY DEF Last
  <2> QED BY <2>1, <2>2, <2>3, <2>4 DEF Range
<1> QED BY <1>1, <1>2, <1>3

\* What is under way on the proxy connections after one is written to or read.
LEMMA NetRanges ==
  ASSUME TypeOK, NEW c \in Conn
  PROVE  /\ \A i \in Item, d \in Conn :
              Range([net EXCEPT ![c] = Append(@, i)][d]) =
                Range(net[d]) \cup (IF d = c THEN {i} ELSE {})
         /\ net[c] # << >> =>
              /\ Head(net[c]) \in Range(net[c]) /\ Head(net[c]) \in Item
              /\ \A d \in Conn : Range([net EXCEPT ![c] = Tail(@)][d]) \subseteq Range(net[d])
<1>1. net \in [Conn -> Seq(Item)]
  BY DEF TypeOK
<1>2. ASSUME NEW i \in Item PROVE Range(Append(net[c], i)) = Range(net[c]) \cup {i}
  BY <1>1, Ranges
<1>3. net[c] # << >> => /\ Head(net[c]) \in Range(net[c]) /\ Head(net[c]) \in Item
                        /\ Range(Tail(net[c])) \subseteq Range(net[c])
  BY <1>1, Ranges, QueueTypes
<1> QED BY <1>1, <1>2, <1>3

\* A message of a kind is told from those of the others.
LEMMA Kinds ==
  /\ \A x : StartReq(x).type = "StartProxyConnReq" /\ StartReq(x).end = x
  /\ \A x : StartRsp(x).type = "StartProxyConnRsp" /\ StartRsp(x).end = x
  /\ \A e, n : Chunk(e, n).type = "data"
  /\ MetaSet.type = "ProxyMetaSet"
  /\ \A i \in Item : /\ i.type = "StartProxyConnReq" => i = StartReq(i.end)
                     /\ i.type = "StartProxyConnRsp" => i = StartRsp(i.end)
                     /\ i.type = "ProxyMetaSet" => i = MetaSet
<1>1. /\ \A x : StartReq(x).type = "StartProxyConnReq" /\ StartReq(x).end = x
      /\ \A x : StartRsp(x).type = "StartProxyConnRsp" /\ StartRsp(x).end = x
      /\ \A e, n : Chunk(e, n).type = "data"
      /\ MetaSet.type = "ProxyMetaSet"
  BY DEF StartReq, StartRsp, Chunk, MetaSet
<1>2. ASSUME NEW i \in Item
      PROVE  /\ i.type = "StartProxyConnReq" => i = StartReq(i.end)
             /\ i.type = "StartProxyConnRsp" => i = StartRsp(i.end)
             /\ i.type = "ProxyMetaSet" => i = MetaSet
  <2>1. \/ i = MetaSet
        \/ \E x \in Pub : i = StartReq(x)
        \/ \E x \in Pub : i = StartRsp(x)
        \/ \E e \in End, n \in 1..MaxChunks : i = Chunk(e, n)
    BY DEF Item
  <2> QED BY <1>1, <2>1
<1> QED BY <1>1, <1>2

----------------------------------------------------------------------------
(***************************************************************************)
(* Public connections                                                      *)
(***************************************************************************)

\* A step that starts no request, parks nothing and binds nothing keeps PubInv.
LEMMA PubFrame ==
  ASSUME PubInv,
         \A c \in Conn : \A i \in Range(net'[c]) :
           i \in Range(net[c]) \/ i.type \notin {"StartProxyConnReq", "StartProxyConnRsp"},
         \A p \in Proxy : conn'[<<"S", p>>].peer \in {conn[<<"S", p>>].peer, None},
         undeal_public_fds' = undeal_public_fds,
         opened \subseteq opened'
  PROVE  PubInv'
<1>1. ASSUME NEW x \in Pub, NEW p \in Proxy, PubOn(x, p)' PROVE PubOn(x, p)
  <2>1. <<"C", p>> \in Conn /\ <<"S", p>> \in Conn
    BY Threads DEF Side
  <2>2. x # None
    BY TunnelAssumption DEF TunnelAssumption
  <2> QED BY <1>1, <2>1, <2>2, Kinds DEF PubOn
<1> QED BY <1>1 DEF PubInv

\* Only the peer of a server side is set, to a public connection that was on its
\* way there or parked.
LEMMA PubBound ==
  ASSUME TypeOK, PubInv, NEW p \in Proxy, NEW x \in Pub,
         net[<<"S", p>>] # << >>, BindPublicFdToProxyConn(p, x),
         \/ PubOn(x, p) /\ undeal_public_fds' = undeal_public_fds
         \/ /\ undeal_public_fds # << >> /\ x = Last(undeal_public_fds)
            /\ undeal_public_fds' = Front(undeal_public_fds),
         opened' = opened
  PROVE  PubInv'
<1>0. <<"S", p>> \in Conn /\ \A q \in Proxy : <<"C", q>> \in Conn /\ <<"S", q>> \in Conn
  BY Threads DEF Side
<1>1. \A d \in Conn : Range(net'[d]) \subseteq Range(net[d])
  BY <1>0, NetRanges DEF BindPublicFdToProxyConn
<1>2. \A q \in Proxy : conn'[<<"S", q>>].peer = IF q = p THEN x ELSE conn[<<"S", q>>].peer
  <2>1. conn' = [conn EXCEPT ![<<"S", p>>] = [@ EXCEPT !.is_start = TRUE, !.peer = x]]
    BY DEF BindPublicFdToProxyConn
  <2> QED BY <1>0, <2>1 DEF TypeOK, ProxyConnState
<1>3. ASSUME NEW y \in Pub, NEW q \in Proxy, PubOn(y, q)' PROVE PubOn(y, q) \/ (y = x /\ q = p)
  BY <1>0, <1>1, <1>2, <1>3 DEF PubOn
<1>4. CASE PubOn(x, p) /\ undeal_public_fds' = undeal_public_fds
  <2>1. \A y \in Pub, q \in Proxy : PubOn(y, q)' => PubOn(y, q)
    BY <1>3, <1>4
  <2> QED BY <1>2, <1>4, <2>1 DEF PubInv
<1>5. CASE /\ undeal_public_fds # << >> /\ x = Last(undeal_public_fds)
           /\ undeal_public_fds' = Front(undeal_public_fds)
  <2>1. undeal_public_fds \in Seq(Pub)
    BY DEF TypeOK
  <2>2. x \in Range(undeal_public_fds) /\ Range(undeal_public_fds') \subseteq Range(undeal_public_fds)
    BY <1>5, <2>1, Ranges
  <2>3. /\ DOMAIN undeal_public_fds' \subseteq DOMAIN undeal_public_fds
        /\ \A i \in DOMAIN undeal_public_fds' :
             undeal_public_fds'[i] = undeal_public_fds[i] /\ i # Len(undeal_public_fds)
        /\ Len(undeal_public_fds) \in DOMAIN undeal_public_fds
        /\ x = undeal_public_fds[Len(undeal_public_fds)]
    BY <1>5, <2>1 DEF Front, Last
  <2>4. x \notin Range(undeal_public_fds')
    BY <2>3 DEF PubInv, Range
  <2>5. \A q \in Proxy : ~PubOn(x, q)
    BY <2>2 DEF PubInv
  <2>6. x \in opened
    BY <2>2 DEF PubInv
  <2> QED BY <1>2, <1>3, <2>2, <2>3, <2>4, <2>5, <2>6 DEF PubInv
<1> QED BY <1>4, <1>5

\* The listening thread keeps PubInv: the public connection it accepts is new.
LEMMA ListenerPub ==
  ASSUME TypeOK, PubInv, NEW x \in Pub, AcceptOnFree(x) \/ AcceptNeedsProxy(x)
  PROVE  PubInv'
<1>0. \A p \in Proxy : ~PubOn(x, p)
  BY DEF PubInv, AcceptOnFree, AcceptNeedsProxy
<1>1. \A p \in Proxy : <<"C", p>> \in Conn /\ <<"S", p>> \in Conn
  BY Threads DEF Side
<1>2. CASE AcceptOnFree(x)
  <2> DEFINE q == Last(free_proxy_conns)
  <2>1. q \in Proxy
    BY <1>2, FrontLast DEF AcceptOnFree, TypeOK
  <2>2. net' = [net EXCEPT ![<<"C", q>>] = Append(@, StartReq(x))]
    BY <1>2 DEF AcceptOnFree, Send
  <2> HIDE DEF q
  <2>3. \A d \in Conn : Range(net'[d]) = Range(net[d]) \cup (IF d = <<"C", q>> THEN {StartReq(x)} ELSE {})
    <3>1. <<"C", q>> \in Conn /\ StartReq(x) \in Item
      BY <1>1, <2>1, Items
    <3>2. \A i \in Item, d \in Conn : Range([net EXCEPT ![<<"C", q>>] = Append(@, i)][d]) =
            Range(net[d]) \cup (IF d = <<"C", q>> THEN {i} ELSE {})
      BY <3>1, NetRanges
    <3> QED BY <2>2, <3>1, <3>2
  <2>4. ASSUME NEW y \in Pub, NEW p \in Proxy, PubOn(y, p)' PROVE PubOn(y, p) \/ (y = x /\ p = q)
    BY <1>1, <1>2, <2>3, <2>4, Kinds DEF PubOn, AcceptOnFree
  <2>5. x \notin Range(undeal_public_fds)
    BY <1>2 DEF AcceptOnFree, PubInv
  <2> QED BY <1>0, <1>2, <2>4, <2>5 DEF AcceptOnFree, PubInv
<1>3. CASE AcceptNeedsProxy(x)
  <2>1. undeal_public_fds \in Seq(Pub)
    BY DEF TypeOK
  <2>2. Range(undeal_public_fds') = Range(undeal_public_fds) \cup {x}
    BY <1>3, <2>1, Ranges DEF AcceptNeedsProxy
  <2>3. \A i \in DOMAIN undeal_public_fds : undeal_public_fds[i] # x
    BY <1>3 DEF AcceptNeedsProxy, PubInv, Range
  <2>4. /\ \A i \in DOMAIN undeal_public_fds' : i \in DOMAIN undeal_public_fds \/ i = Len(undeal_public_fds) + 1
        /\ \A i \in DOMAIN undeal_public_fds : undeal_public_fds'[i] = undeal_public_fds[i]
        /\ undeal_public_fds'[Len(undeal_public_fds) + 1] = x
    BY <1>3, <2>1 DEF AcceptNeedsProxy
  <2>5. \A i, j \in DOMAIN undeal_public_fds' : undeal_public_fds'[i] = undeal_public_fds'[j] => i = j
    BY <2>3, <2>4 DEF PubInv
  <2>6. \A y \in Pub, p \in Proxy : PubOn(y, p)' <=> PubOn(y, p)
    BY <1>3 DEF AcceptNeedsProxy, PubOn
  <2> QED BY <1>0, <1>3, <2>2, <2>5, <2>6 DEF AcceptNeedsProxy, PubInv
<1> QED BY <1>2, <1>3

\* Creating and starting a proxy connection keeps PubInv: the request, its answer
\* and the binding name the same public connection.
LEMMA StartPub ==
  ASSUME TypeOK, PubInv, NEW p \in Proxy, StartProxy(p)
  PROVE  PubInv'
<1>0. \A q \in Proxy : <<"C", q>> \in Conn /\ <<"S", q>> \in Conn
  BY Threads DEF Side
<1>1. ASSUME NEW l \in Loc, HandleProxyNotify(p, l) PROVE PubInv'
  <2>1. \A d \in Conn : Range(net'[d]) \subseteq Range(net[d]) \cup {MetaSet}
    <3>1. \A i \in Item, d \in Conn : Range([net EXCEPT ![<<"S", p>>] = Append(@, i)][d]) =
            Range(net[d]) \cup (IF d = <<"S", p>> THEN {i} ELSE {})
      BY <1>0, NetRanges
    <3> QED BY <1>1, <3>1, Items, ZenonT(60) DEF HandleProxyNotify, Send
  <2> QED BY <1>1, <2>1, Kinds, PubFrame DEF HandleProxyNotify, CreateLocalConn
<1>2. ASSUME NEW l \in Loc, HandleStartProxyConnReq(p, l) PROVE PubInv'
  <2> DEFINE h == Head(net[<<"C", p>>])
             x == h.end
  <2>1. /\ h \in Range(net[<<"C", p>>]) /\ h \in Item /\ h.type = "StartProxyConnReq"
        /\ net[<<"C", p>>] # << >>
    BY <1>0, <1>2, NetRanges DEF HandleStartProxyConnReq, InCtlMode
  <2>2. x \in Pub /\ h = StartReq(x)
    BY <2>1, Items, Kinds
  <2>3. PubOn(x, p)
    BY <2>1, <2>2 DEF PubOn
  <2>4. /\ net'[<<"C", p>>] = Tail(net[<<"C", p>>])
        /\ net'[<<"S", p>>] = Append(net[<<"S", p>>], StartRsp(x))
        /\ \A d \in Conn : d # <<"C", p>> /\ d # <<"S", p>> => net'[d] = net[d]
    BY <1>0, <1>2 DEF HandleStartProxyConnReq, TypeOK
  <2> HIDE DEF h, x
  <2>5. /\ Range(net'[<<"C", p>>]) \subseteq Range(net[<<"C", p>>])
        /\ Range(net'[<<"S", p>>]) = Range(net[<<"S", p>>]) \cup {StartRsp(x)}
    <3>1. net[<<"C", p>>] \in Seq(Item) /\ net[<<"S", p>>] \in Seq(Item) /\ StartRsp(x) \in Item
      BY <1>0, <2>2, Items DEF TypeOK
    <3>2. Range(Tail(net[<<"C", p>>])) \subseteq Range(net[<<"C", p>>])
      BY <2>1, <3>1, Ranges
    <3>3. Range(Append(net[<<"S", p>>], StartRsp(x))) = Range(net[<<"S", p>>]) \cup {StartRsp(x)}
      BY <3>1, Ranges
    <3> QED BY <2>4, <3>2, <3>3
  <2>6. ASSUME NEW y \in Pub, NEW q \in Proxy, PubOn(y, q)' PROVE PubOn(y, q)
    <3>1. conn' = conn
      BY <1>2 DEF HandleStartProxyConnReq
    <3>2. CASE q = p
      BY <2>3, <2>5, <2>6, <3>1, <3>2, Kinds DEF PubOn
    <3>3. CASE q # p
      BY <1>0, <2>4, <2>6, <3>1, <3>3 DEF PubOn
    <3> QED BY <3>2, <3>3
  <2> QED BY <1>2, <2>6 DEF HandleStartProxyConnReq, CreateLocalConn, PubInv
<1>3. CASE ClaimProxyConn(p)
  <2>1. Last(undeal_public_fds) \in Pub
    BY <1>3, FrontLast DEF ClaimProxyConn, TypeOK
  <2> QED BY <1>3, <2>1, PubBound DEF ClaimProxyConn, InCtlMode, PopUndeal
<1>4. CASE HandleStartProxyConnRsp(p)
  <2> DEFINE h == Head(net[<<"S", p>>])
  <2>1. /\ h \in Range(net[<<"S", p>>]) /\ h \in Item /\ h.type = "StartProxyConnRsp"
        /\ net[<<"S", p>>] # << >>
    BY <1>0, <1>4, NetRanges DEF HandleStartProxyConnRsp, InCtlMode
  <2>2. h.end \in Pub /\ h = StartRsp(h.end)
    BY <2>1, Items, Kinds
  <2>3. PubOn(h.end, p)
    BY <2>1, <2>2 DEF PubOn
  <2> QED BY <1>4, <2>1, <2>2, <2>3, PubBound DEF HandleStartProxyConnRsp
<1> QED BY <1>1, <1>2, <1>3, <1>4 DEF StartProxy

----------------------------------------------------------------------------
(***************************************************************************)
(* The steps that forward, close and free                                  *)
(***************************************************************************)

\* One chunk is written, or something other than a meta message is read.
NetStep ==
  \/ net' = net
  \/ \E c \in Conn, i \in Item : i.type = "data" /\ net' = [net EXCEPT ![c] = Append(@, i)]
  \/ \E c \in Conn : /\ net[c] # << >> /\ (c[1] = "S" => Head(net[c]) # MetaSet)
                     /\ net' = [net EXCEPT ![c] = Tail(@)]

\* The requests for a proxy connection stay as they are.
CtlStep ==
  \/ ctl'["C"] = ctl["C"]
  \/ \E m \in CtlMsg : m # NeedProxy /\ ctl'["C"] = Append(ctl["C"], m)
  \/ ctl["C"] # << >> /\ Head(ctl["C"]) # NeedProxy /\ ctl'["C"] = Tail(ctl["C"])

\* The server side of a proxy connection is reset or goes on as it was.
ServerStep ==
  \A p \in Proxy : /\ conn'[<<"S", p>>].peer \in {conn[<<"S", p>>].peer, None}
                   /\ conn'[<<"S", p>>].is_start => conn[<<"S", p>>].is_start

\* So is the client side, and no thread enters start().
ClientStep ==
  /\ \A p \in Proxy : conn'[<<"C", p>>].peer \in {conn[<<"C", p>>].peer, None}
  /\ \A t \in Thread : th'[t].pc \in {"start", "bind"} =>
       /\ th[t].pc \in {"start", "bind"}
       /\ th'[t].proxy = th[t].proxy /\ th'[t].end = th[t].end

\* What none of these steps touches.
Quiet ==
  /\ NetStep /\ CtlStep /\ ServerStep
  /\ undeal_public_fds' = undeal_public_fds
  /\ opened' = opened

\* One ProxyConn changes.
LEMMA OneConn ==
  ASSUME TypeOK, NEW c \in Conn, NEW r \in ProxyConnState, conn' = [conn EXCEPT ![c] = r],
         r.peer \in {conn[c].peer, None}, r.is_start => conn[c].is_start \/ c[1] = "C"
  PROVE  /\ ServerStep
         /\ \A p \in Proxy : conn'[<<"C", p>>].peer \in {conn[<<"C", p>>].peer, None}
<1>1. \A d \in Conn : conn'[d] = IF d = c THEN r ELSE conn[d]
  BY DEF TypeOK
<1>2. \A s \in Side, p \in Proxy : <<s, p>> \in Conn /\ <<s, p>>[1] = s
  BY Threads
<1>3. \A p \in Proxy : <<"S", p>> \in Conn /\ <<"C", p>> \in Conn /\ <<"S", p>>[1] = "S"
  BY <1>2 DEF Side
<1> QED BY <1>1, <1>3 DEF ServerStep

\* One thread goes to a place outside start().
LEMMA OneThread ==
  ASSUME TypeOK, NEW t \in Thread, NEW r \in Frame, Goto(t, r),
         r.pc \in {"start", "bind"} =>
           th[t].pc \in {"start", "bind"} /\ r.proxy = th[t].proxy /\ r.end = th[t].end
  PROVE  \A u \in Thread : th'[u].pc \in {"start", "bind"} =>
           /\ th[u].pc \in {"start", "bind"}
           /\ th'[u].proxy = th[u].proxy /\ th'[u].end = th[u].end
<1>1. \A u \in Thread : th'[u] = IF u = t THEN r ELSE th[u]
  BY DEF TypeOK, Goto
<1> QED BY <1>1

\* The places in the code.
LEMMA Places ==
  /\ Idle.pc = "idle"
  /\ \A l, p, e : At(l, p, e).pc = l /\ At(l, p, e).proxy = p /\ At(l, p, e).end = e
  BY DEF Idle, At

\* Reset, and the changes of a ProxyConn that leave its binding alone.
LEMMA ConnChanges ==
  /\ Reset \in ProxyConnState /\ Reset.peer = None /\ ~Reset.is_start
  /\ \A r \in ProxyConnState :
       /\ [r EXCEPT !.half_close = TRUE] \in ProxyConnState
       /\ [r EXCEPT !.half_close = TRUE].peer = r.peer
       /\ [r EXCEPT !.half_close = TRUE].is_start = r.is_start
  /\ \A r \in ProxyConnState, n \in Nat :
       /\ [r EXCEPT !.recv = n] \in ProxyConnState /\ [r EXCEPT !.theo = n] \in ProxyConnState
       /\ [r EXCEPT !.recv = n].peer = r.peer /\ [r EXCEPT !.theo = n].peer = r.peer
       /\ [r EXCEPT !.recv = n].is_start = r.is_start /\ [r EXCEPT !.theo = n].is_start = r.is_start
<1>1. Reset \in ProxyConnState /\ Reset.peer = None /\ ~Reset.is_start
  BY DEF Reset, ProxyConnState
<1>2. ASSUME NEW r \in ProxyConnState
      PROVE  /\ [r EXCEPT !.half_close = TRUE] \in ProxyConnState
             /\ [r EXCEPT !.half_close = TRUE].peer = r.peer
             /\ [r EXCEPT !.half_close = TRUE].is_start = r.is_start
  BY DEF ProxyConnState
<1>3. ASSUME NEW r \in ProxyConnState, NEW n \in Nat
      PROVE  /\ [r EXCEPT !.recv = n] \in ProxyConnState /\ [r EXCEPT !.theo = n] \in ProxyConnState
             /\ [r EXCEPT !.recv = n].peer = r.peer /\ [r EXCEPT !.theo = n].peer = r.peer
             /\ [r EXCEPT !.recv = n].is_start = r.is_start
             /\ [r EXCEPT !.theo = n].is_start = r.is_start
  BY DEF ProxyConnState
<1> QED BY <1>1, <1>2, <1>3

\* A request for a proxy connection is told from the other control messages.
LEMMA NotNeedProxy ==
  \A p, n : FreeReq(p) # NeedProxy /\ Shutdown(p, n) # NeedProxy
  BY DEF FreeReq, Shutdown, NeedProxy

\* The continuation of a handler.
LEMMA ThreadQuiet ==
  ASSUME TypeOK, NEW t \in Thread, ThreadStep(t)
  PROVE  Quiet /\ (ClientStep \/ StartBind(t))
<1>0. t[1] \in Side /\ Other(t[1]) \in Side /\ th[t] \in Frame
  BY Threads, ComponentTypes
<1>a. ASSUME conn' = conn
      PROVE  ServerStep /\ \A p \in Proxy : conn'[<<"C", p>>].peer \in {conn[<<"C", p>>].peer, None}
  BY <1>a DEF ServerStep
<1>b. \A p \in Proxy : <<"C", p>> \in Conn /\ <<"S", p>> \in Conn /\ <<"C", p>>[1] = "C"
  BY Threads DEF Side
<1>1. CASE StartFlag(t)
  <2> DEFINE c == <<"C", th[t].proxy>>
             r == [conn[c] EXCEPT !.is_start = TRUE]
  <2>1. th[t].proxy \in Proxy /\ th[t].end \in Loc /\ c \in Conn /\ c[1] = "C"
    BY <1>0, <1>1, <1>b, Frames DEF StartFlag
  <2>2. r \in ProxyConnState /\ r.peer = conn[c].peer /\ conn' = [conn EXCEPT ![c] = r]
    BY <1>1, <2>1, ComponentTypes DEF ProxyConnState, StartFlag
  <2> HIDE DEF c, r
  <2>3. ServerStep /\ \A p \in Proxy : conn'[<<"C", p>>].peer \in {conn[<<"C", p>>].peer, None}
    BY <2>1, <2>2, OneConn
  <2>4. ClientStep
    BY <1>0, <1>1, <2>1, <2>3, Frames, Places, OneThread DEF StartFlag, ClientStep
  <2> QED BY <1>1, <2>3, <2>4 DEF StartFlag, Quiet, NetStep, CtlStep
<1>2. CASE StartBind(t)
  <2>1. th[t].proxy \in Proxy
    BY <1>0, <1>2, Frames DEF StartBind
  <2>2. \A p \in Proxy : conn'[<<"S", p>>] = conn[<<"S", p>>]
    BY <1>2, <1>b, <2>1 DEF StartBind, TypeOK
  <2> QED BY <1>2, <2>2 DEF StartBind, Quiet, NetStep, CtlStep, ServerStep
<1>3. CASE NotifyPeer(t)
  <2>1. th[t].proxy \in Proxy /\ th[t].end \in End
    BY <1>0, <1>3, Frames DEF NotifyPeer
  <2>2. end[th[t].end].tran \in 0..MaxChunks
    BY <2>1, ComponentTypes DEF EndState
  <2> DEFINE m == Shutdown(th[t].proxy, end[th[t].end].tran)
  <2>3. m \in CtlMsg /\ m # NeedProxy
    BY <2>1, <2>2, CtlMsgs, NotNeedProxy
  <2>4. ctl'["C"] = ctl["C"] \/ ctl'["C"] = Append(ctl["C"], m)
    BY <1>0, <1>3 DEF NotifyPeer, TypeOK, Side
  <2> HIDE DEF m
  <2>5. CtlStep
    BY <2>3, <2>4 DEF CtlStep
  <2> QED BY <1>3, <1>a, <2>5, Frames, Places, OneThread DEF NotifyPeer, Quiet, NetStep, ClientStep
<1>4. CASE CheckCounts(t)
  <2> DEFINE r == IF AllForwarded(conn[<<t[1], th[t].proxy>>].recv, conn[<<t[1], th[t].proxy>>].theo)
                  THEN At("shut", th[t].proxy, None) ELSE Idle
  <2>1. r \in Frame /\ r.pc \in {"shut", "idle"}
    BY <1>0, <1>4, Frames, Places DEF CheckCounts
  <2>2. Goto(t, r)
    BY <1>4 DEF CheckCounts
  <2> HIDE DEF r
  <2> QED BY <1>4, <1>a, <2>1, <2>2, OneThread DEF CheckCounts, Quiet, NetStep, CtlStep, ClientStep
<1>5. CASE ShutdownFromRemote(t)
  <2> DEFINE c == <<t[1], th[t].proxy>>
             f == At(IF t[1] = "S" THEN "free" ELSE "reqfree", th[t].proxy, None)
  <2>1. th[t].proxy \in Proxy /\ c \in Conn /\ conn[c] \in ProxyConnState
    BY <1>0, <1>5, Frames, Threads, ComponentTypes DEF ShutdownFromRemote
  <2>2. f \in Frame /\ f.pc \in {"free", "reqfree"}
    BY <2>1, Frames, Places
  <2>3. \/ conn' = [conn EXCEPT ![c] = Reset] /\ Goto(t, f)
        \/ conn' = [conn EXCEPT ![c] = [conn[c] EXCEPT !.half_close = TRUE]] /\ Goto(t, Idle)
    BY <1>5 DEF ShutdownFromRemote
  <2> HIDE DEF c, f
  <2>4. ServerStep /\ \A p \in Proxy : conn'[<<"C", p>>].peer \in {conn[<<"C", p>>].peer, None}
    BY <2>1, <2>3, ConnChanges, OneConn, ZenonT(60)
  <2>5. ClientStep
    BY <2>2, <2>3, <2>4, Frames, Places, OneThread DEF ClientStep
  <2> QED BY <1>5, <2>4, <2>5 DEF ShutdownFromRemote, Quiet, NetStep, CtlStep
<1>6. CASE RequestFree(t)
  <2>1. ctl'["C"] = ctl["C"]
    BY <1>6 DEF RequestFree, TypeOK, Side
  <2> QED BY <1>6, <1>a, <2>1, Frames, Places, OneThread DEF RequestFree, Quiet, NetStep, CtlStep, ClientStep
<1>7. CASE FreeProxyConn(t)
  <2> DEFINE r == IF th[t].proxy \in proxy_conn_map["S"] /\ ~conn[<<"S", th[t].proxy>>].is_start
                  THEN At("push", th[t].proxy, None) ELSE Idle
  <2>1. r \in Frame /\ r.pc \in {"push", "idle"}
    BY <1>0, <1>7, Frames, Places DEF FreeProxyConn
  <2>2. Goto(t, r)
    BY <1>7 DEF FreeProxyConn
  <2> HIDE DEF r
  <2> QED BY <1>7, <1>a, <2>1, <2>2, OneThread DEF FreeProxyConn, Quiet, NetStep, CtlStep, ClientStep
<1>8. CASE PushFree(t)
  BY <1>8, <1>a, Frames, Places, OneThread DEF PushFree, Quiet, NetStep, CtlStep, ClientStep
<1> QED BY <1>1, <1>2, <1>3, <1>4, <1>5, <1>6, <1>7, <1>8 DEF ThreadStep

\* The control connection's handlers, and the end of the listener's.
LEMMA MainQuiet ==
  ASSUME TypeOK, (\E s \in Side : HandleShutdown(s)) \/ HandleFreeProxyConnReq \/ AddWait
  PROVE  Quiet /\ ClientStep
<1>a. ASSUME conn' = conn
      PROVE  ServerStep /\ \A p \in Proxy : conn'[<<"C", p>>].peer \in {conn[<<"C", p>>].peer, None}
  BY <1>a DEF ServerStep
<1>1. ASSUME NEW s \in Side, HandleShutdown(s) PROVE Quiet /\ ClientStep
  <2> DEFINE m == Head(ctl[s])
             c == <<s, m.proxy>>
  <2>1. /\ m.proxy \in Proxy /\ m.count \in Nat /\ c \in Conn /\ Main(s) \in Thread
        /\ conn[c] \in ProxyConnState /\ At("check", m.proxy, None) \in Frame
    BY <1>1, QueueTypes, CtlMsgs, Threads, Frames, ComponentTypes DEF HandleShutdown
  <2>2. CtlStep
    <3>1. s = "C" => Head(ctl["C"]) # NeedProxy /\ ctl["C"] # << >> /\ ctl'["C"] = Tail(ctl["C"])
      BY <1>1 DEF HandleShutdown, NeedProxy, TypeOK, Side
    <3>2. s = "S" => ctl'["C"] = ctl["C"]
      BY <1>1 DEF HandleShutdown, TypeOK, Side
    <3> QED BY <3>1, <3>2 DEF CtlStep, Side
  <2>3. CASE m.proxy \in proxy_conn_map[s]
    <3> DEFINE v == IncrTheoretical(conn[c].theo, m.count)
    <3>1. v \in Nat
      BY <2>1 DEF ProxyConnState, IncrTheoretical
    <3>2. conn' = [conn EXCEPT ![c] = [conn[c] EXCEPT !.theo = v]]
      BY <1>1, <2>3 DEF HandleShutdown
    <3>3. Goto(Main(s), At("check", m.proxy, None))
      BY <1>1, <2>3 DEF HandleShutdown
    <3> HIDE DEF v, c, m
    <3>4. ServerStep /\ \A p \in Proxy : conn'[<<"C", p>>].peer \in {conn[<<"C", p>>].peer, None}
      BY <2>1, <3>1, <3>2, ConnChanges, OneConn, ZenonT(60)
    <3>5. ClientStep
      BY <2>1, <3>3, <3>4, Places, OneThread DEF ClientStep
    <3> QED BY <1>1, <2>2, <3>4, <3>5 DEF HandleShutdown, Quiet, NetStep
  <2>4. CASE m.proxy \notin proxy_conn_map[s]
    BY <1>1, <1>a, <2>2, <2>4 DEF HandleShutdown, Quiet, NetStep, ClientStep
  <2> QED BY <2>3, <2>4
<1>2. CASE HandleFreeProxyConnReq
  <2>1. At("free", Head(ctl["S"]).proxy, None) \in Frame /\ Main("S") \in Thread
    BY <1>2, QueueTypes, CtlMsgs, Threads, Frames DEF HandleFreeProxyConnReq, Side
  <2>2. ctl'["C"] = ctl["C"]
    BY <1>2 DEF HandleFreeProxyConnReq, TypeOK, Side
  <2> QED BY <1>2, <1>a, <2>1, <2>2, Places, OneThread
            DEF HandleFreeProxyConnReq, Quiet, NetStep, CtlStep, ClientStep
<1>3. CASE AddWait
  BY <1>3, <1>a, Threads, Frames, Places, OneThread DEF AddWait, Quiet, NetStep, CtlStep, ClientStep
<1> QED BY <1>1, <1>2, <1>3

\* Reading and forwarding.
LEMMA ForwardQuiet ==
  ASSUME TypeOK, MetaFirst,
         (\E c \in Conn : ReadProxy(c)) \/ (\E e \in End : ReadEnd(e) \/ ReadEof(e))
  PROVE  Quiet /\ ClientStep
<1>a. ASSUME conn' = conn
      PROVE  ServerStep /\ \A p \in Proxy : conn'[<<"C", p>>].peer \in {conn[<<"C", p>>].peer, None}
  BY <1>a DEF ServerStep
<1>1. ASSUME NEW c \in Conn, DropInCtlMode(c) PROVE Quiet /\ ClientStep
  <2>1. net[c] # << >> /\ Head(net[c]) # MetaSet
    BY <1>1, Kinds DEF DropInCtlMode, InCtlMode
  <2>2. net' = [net EXCEPT ![c] = Tail(@)]
    BY <1>1 DEF DropInCtlMode
  <2>3. NetStep
    BY <2>1, <2>2 DEF NetStep
  <2> QED BY <1>1, <1>a, <2>3 DEF DropInCtlMode, Quiet, CtlStep, ClientStep
<1>2. ASSUME NEW c \in Conn, NEW counted \in BOOLEAN, TransferChunk(c, counted)
      PROVE  Quiet /\ ClientStep
  <2> DEFINE n == conn[c].recv + IF counted THEN 1 ELSE 0
             f == IF counted /\ AllForwarded(n, conn[c].theo) THEN At("check", c[2], None) ELSE Idle
  <2>1. conn[c] \in ProxyConnState /\ c \in Thread /\ c[2] \in Proxy /\ net[c] \in Seq(Item)
    BY Threads, ComponentTypes DEF TypeOK
  <2>2. n \in Nat
    BY <2>1 DEF ProxyConnState
  <2>3. f \in Frame /\ f.pc \in {"check", "idle"}
    BY <2>1, Frames, Places
  <2>4. /\ net[c] # << >> /\ conn[c].is_start /\ net' = [net EXCEPT ![c] = Tail(@)]
        /\ conn' = [conn EXCEPT ![c] = [conn[c] EXCEPT !.recv = n]] /\ Goto(c, f)
        /\ ctl' = ctl /\ undeal_public_fds' = undeal_public_fds /\ opened' = opened
    BY <1>2 DEF TransferChunk
  <2> HIDE DEF n, f
  <2>5. c[1] = "S" => Head(net[c]) # MetaSet
    <3>1. 1 \in DOMAIN net[c] /\ Head(net[c]) = net[c][1] /\ c = <<c[1], c[2]>>
      BY <2>1, <2>4, Threads
    <3> QED BY <2>1, <2>4, <3>1 DEF MetaFirst
  <2>6. NetStep
    BY <2>4, <2>5 DEF NetStep
  <2>7. ServerStep /\ \A p \in Proxy : conn'[<<"C", p>>].peer \in {conn[<<"C", p>>].peer, None}
    BY <2>1, <2>2, <2>4, ConnChanges, OneConn
  <2>8. ClientStep
    BY <2>1, <2>3, <2>4, <2>7, Places, OneThread DEF ClientStep
  <2> QED BY <2>4, <2>6, <2>7, <2>8 DEF Quiet, CtlStep
<1>3. ASSUME NEW e \in End, ReadEnd(e) PROVE Quiet /\ ClientStep
  <2> DEFINE c == <<Other(SideOf(e)), end[e].on>>
             i == Chunk(e, end[e].tran + 1)
  <2>1. end[e].on \in Proxy /\ end[e].tran + 1 \in 1..MaxChunks
    BY <1>3, Chunks, ComponentTypes DEF ReadEnd, Readable, MaySend, EndState
  <2>2. c \in Conn /\ i \in Item /\ i.type = "data"
    BY <2>1, Threads, Ends, Items, Kinds
  <2>3. net' = [net EXCEPT ![c] = Append(@, i)]
    BY <1>3 DEF ReadEnd, Send
  <2> HIDE DEF c, i
  <2>4. NetStep
    BY <2>2, <2>3 DEF NetStep
  <2> QED BY <1>3, <1>a, <2>4 DEF ReadEnd, Quiet, CtlStep, ClientStep
<1>4. ASSUME NEW e \in End, ReadEof(e) PROVE Quiet /\ ClientStep
  <2> DEFINE c == <<SideOf(e), end[e].on>>
             r == ShutdownFromLocal(conn[c])
             f == At("notify", end[e].on, e)
  <2>1. end[e].on \in Proxy /\ c \in Conn /\ c \in Thread /\ conn[c] \in ProxyConnState
    BY <1>4, Ends, Threads, ComponentTypes DEF ReadEof, Readable, EndState
  <2>2. CASE end[e].on \in proxy_conn_map[SideOf(e)]
    <3>1. f \in Frame /\ f.pc = "notify"
      BY <2>1, Frames, Places
    <3>2. conn' = [conn EXCEPT ![c] = r] /\ Goto(c, f)
      BY <1>4, <2>2 DEF ReadEof, ShutdownFromEnd
    <3>3. r \in ProxyConnState /\ r.peer \in {conn[c].peer, None} /\ (r.is_start => conn[c].is_start)
      BY <2>1, ConnChanges DEF ShutdownFromLocal
    <3> HIDE DEF c, r, f
    <3>4. ServerStep /\ \A p \in Proxy : conn'[<<"C", p>>].peer \in {conn[<<"C", p>>].peer, None}
      BY <2>1, <3>2, <3>3, OneConn
    <3>5. ClientStep
      BY <2>1, <3>1, <3>2, <3>4, OneThread DEF ClientStep
    <3> QED BY <1>4, <3>4, <3>5 DEF ReadEof, Quiet, NetStep, CtlStep
  <2>3. CASE end[e].on \notin proxy_conn_map[SideOf(e)]
    BY <1>4, <1>a, <2>3 DEF ReadEof, ShutdownFromEnd, Quiet, NetStep, CtlStep, ClientStep
  <2> QED BY <2>2, <2>3
<1> QED BY <1>1, <1>2, <1>3, <1>4 DEF ReadProxy

\* Such a step adds nothing but data to what is under way.
LEMMA QuietRanges ==
  ASSUME TypeOK, NetStep
  PROVE  \A c \in Conn : \A i \in Range(net'[c]) : i \in Range(net[c]) \/ i.type = "data"
<1>1. CASE net' = net
  BY <1>1
<1>2. ASSUME NEW c \in Conn, NEW i \in Item, i.type = "data", net' = [net EXCEPT ![c] = Append(@, i)]
      PROVE  \A d \in Conn : Range(net'[d]) \subseteq Range(net[d]) \cup {i}
  <2>1. \A d \in Conn : Range([net EXCEPT ![c] = Append(@, i)][d]) =
          Range(net[d]) \cup (IF d = c THEN {i} ELSE {})
    BY NetRanges
  <2> QED BY <1>2, <2>1
<1>3. ASSUME NEW c \in Conn, net[c] # << >>, net' = [net EXCEPT ![c] = Tail(@)]
      PROVE  \A d \in Conn : Range(net'[d]) \subseteq Range(net[d])
  BY <1>3, NetRanges
<1> QED BY <1>1, <1>2, <1>3 DEF NetStep

\* Such a step keeps PubInv.
LEMMA QuietPub == TypeOK /\ PubInv /\ Quiet => PubInv'
<1> SUFFICES ASSUME TypeOK, PubInv, Quiet PROVE PubInv'
  OBVIOUS
<1>1. \A c \in Conn : \A i \in Range(net'[c]) : i \in Range(net[c]) \/ i.type = "data"
  BY QuietRanges DEF Quiet
<1> QED BY <1>1, PubFrame DEF Quiet, ServerStep

----------------------------------------------------------------------------
(***************************************************************************)
(* Local connections                                                       *)
(***************************************************************************)

\* A step that opens no local connection and binds none keeps LocInv.
LEMMA LocFrame == LocInv /\ ClientStep /\ opened \subseteq opened' => LocInv'
<1> SUFFICES ASSUME LocInv, ClientStep, opened \subseteq opened' PROVE LocInv'
  OBVIOUS
<1>1. ASSUME NEW l \in Loc, NEW p \in Proxy, LocOn(l, p)' PROVE LocOn(l, p)
  <2>1. l # None
    BY TunnelAssumption DEF TunnelAssumption
  <2> QED BY <1>1, <2>1 DEF LocOn, ClientStep
<1> QED BY <1>1 DEF LocInv, ClientStep

\* A thread enters start() with a new local connection.
LEMMA LocOpened ==
  ASSUME TypeOK, LocInv, NEW t \in Thread, NEW p \in Proxy, NEW l \in Loc,
         CreateLocalConn(l), Goto(t, At("start", p, l)), conn' = conn
  PROVE  LocInv'
<1>1. \A u \in Thread : th'[u] = IF u = t THEN At("start", p, l) ELSE th[u]
  BY DEF TypeOK, Goto
<1>2. ASSUME NEW k \in Loc, NEW q \in Proxy, LocOn(k, q)' PROVE LocOn(k, q) \/ (k = l /\ q = p)
  BY <1>1, <1>2, Places DEF LocOn
<1>3. \A q \in Proxy : ~LocOn(l, q)
  BY DEF LocInv, CreateLocalConn
<1> QED BY <1>2, <1>3 DEF LocInv, CreateLocalConn

\* start() binds the local connection it was called with.
LEMMA LocBound ==
  ASSUME TypeOK, LocInv, NEW t \in Thread, StartBind(t)
  PROVE  LocInv'
<1> DEFINE p == th[t].proxy
           l == th[t].end
<1>1. p \in Proxy /\ l \in Loc /\ <<"C", p>> \in Conn /\ \A q \in Proxy : <<"C", q>> \in Conn
  BY Frames, Threads, ComponentTypes DEF StartBind, Side
<1>2. LocOn(l, p)
  BY <1>1 DEF LocOn, StartBind
<1>3. \A u \in Thread : th'[u] = IF u = t THEN Idle ELSE th[u]
  BY DEF TypeOK, Goto, StartBind
<1>4. \A q \in Proxy : conn'[<<"C", q>>].peer = IF q = p THEN l ELSE conn[<<"C", q>>].peer
  BY <1>1 DEF TypeOK, ProxyConnState, StartBind
<1>5. opened' = opened
  BY DEF StartBind
<1> PICK pp \in Proxy, ll \in Loc : pp = p /\ ll = l
  BY <1>1
<1> HIDE DEF p, l
<1>6. ASSUME NEW k \in Loc, NEW q \in Proxy, LocOn(k, q)' PROVE LocOn(k, q)
  <2>1. \A u \in Thread : th'[u].pc \in {"start", "bind"} => th'[u] = th[u]
    BY <1>3, Places
  <2>2. CASE conn'[<<"C", q>>].peer = k
    BY <1>2, <1>4, <2>2 DEF LocOn
  <2>3. CASE conn'[<<"C", q>>].peer # k
    BY <1>6, <2>1, <2>3 DEF LocOn
  <2> QED BY <2>2, <2>3
<1> QED BY <1>1, <1>4, <1>5, <1>6 DEF LocInv

\* Every step keeps LocInv.
LEMMA NextLoc == TypeOK /\ MetaFirst /\ LocInv /\ [Next]_vars => LocInv'
<1> SUFFICES ASSUME TypeOK, MetaFirst, LocInv, [Next]_vars PROVE LocInv'
  OBVIOUS
<1>1. CASE UNCHANGED vars
  BY <1>1, LocFrame DEF vars, ClientStep
<1>2. ASSUME NEW x \in Pub, AcceptOnFree(x) \/ AcceptNeedsProxy(x) PROVE LocInv'
  <2>1. CASE AcceptOnFree(x)
    <3>1. At("wait", Last(free_proxy_conns), None) \in Frame /\ Listener \in Thread
      BY <2>1, FrontLast, Frames, Threads DEF AcceptOnFree, TypeOK
    <3>2. ClientStep
      BY <2>1, <3>1, Places, OneThread DEF AcceptOnFree, ClientStep
    <3> QED BY <2>1, <3>2, LocFrame DEF AcceptOnFree
  <2>2. CASE AcceptNeedsProxy(x)
    BY <2>2, LocFrame DEF AcceptNeedsProxy, ClientStep
  <2> QED BY <1>2, <2>1, <2>2
<1>3. ASSUME NEW p \in Proxy, StartProxy(p) PROVE LocInv'
  <2>1. ASSUME NEW l \in Loc, HandleProxyNotify(p, l) PROVE LocInv'
    BY <2>1, Threads, LocOpened DEF HandleProxyNotify, Side
  <2>2. ASSUME NEW l \in Loc, HandleStartProxyConnReq(p, l) PROVE LocInv'
    BY <2>2, Threads, LocOpened DEF HandleStartProxyConnReq, Side
  <2>3. ASSUME NEW x, BindPublicFdToProxyConn(p, x), th' = th, opened' = opened PROVE LocInv'
    <3>1. \A q \in Proxy : <<"C", q>> # <<"S", p>> /\ <<"C", q>> \in Conn
      BY Threads DEF Side
    <3>2. \A q \in Proxy : conn'[<<"C", q>>] = conn[<<"C", q>>]
      BY <2>3, <3>1 DEF BindPublicFdToProxyConn, TypeOK
    <3> QED BY <2>3, <3>2, LocFrame DEF ClientStep
  <2> QED BY <1>3, <2>1, <2>2, <2>3 DEF StartProxy, ClaimProxyConn, HandleStartProxyConnRsp
<1>4. ASSUME NEW t \in Thread, ThreadStep(t) PROVE LocInv'
  BY <1>4, ThreadQuiet, LocBound, LocFrame DEF Quiet
<1>5. CASE HandleShutdownPublicConn \/ HandleShutdownLocalConn \/ HandleFreeProxyConnReq \/ AddWait
  BY <1>5, MainQuiet, LocFrame DEF Quiet, HandleShutdownPublicConn, HandleShutdownLocalConn, Side
<1>6. CASE (\E c \in Conn : ReadProxy(c)) \/ (\E e \in End : ReadEnd(e) \/ ReadEof(e))
  BY <1>6, ForwardQuiet, LocFrame DEF Quiet
<1> QED BY <1>1, <1>2, <1>3, <1>4, <1>5, <1>6 DEF Next

\* Every step keeps PubInv.
LEMMA NextPub == TypeOK /\ MetaFirst /\ PubInv /\ [Next]_vars => PubInv'
<1> SUFFICES ASSUME TypeOK, MetaFirst, PubInv, [Next]_vars PROVE PubInv'
  OBVIOUS
<1>1. CASE UNCHANGED vars
  BY <1>1, QuietPub DEF vars, Quiet, NetStep, CtlStep, ServerStep
<1>2. ASSUME NEW t \in Thread, ThreadStep(t) PROVE PubInv'
  BY <1>2, ThreadQuiet, QuietPub
<1>3. CASE HandleShutdownPublicConn \/ HandleShutdownLocalConn \/ HandleFreeProxyConnReq \/ AddWait
  BY <1>3, MainQuiet, QuietPub DEF HandleShutdownPublicConn, HandleShutdownLocalConn, Side
<1>4. CASE (\E c \in Conn : ReadProxy(c)) \/ (\E e \in End : ReadEnd(e) \/ ReadEof(e))
  BY <1>4, ForwardQuiet, QuietPub
<1> QED BY <1>1, <1>2, <1>3, <1>4, ListenerPub, StartPub DEF Next

----------------------------------------------------------------------------
(***************************************************************************)
(* Meta messages                                                           *)
(***************************************************************************)

\* A queue with a meta message at its front only, after it is written or read.
LEMMA MetaQueue ==
  ASSUME NEW q \in Seq(Item), \A i \in DOMAIN q : q[i] = MetaSet => i = 1
  PROVE  /\ \A m \in Item : m # MetaSet =>
              /\ \A i \in DOMAIN Append(q, m) : Append(q, m)[i] = MetaSet => i = 1
              /\ MetaSet \in Range(Append(q, m)) <=> MetaSet \in Range(q)
         /\ q # << >> => /\ MetaSet \notin Range(Tail(q))
                         /\ \A i \in DOMAIN Tail(q) : Tail(q)[i] # MetaSet
                         /\ MetaSet \in Range(q) => Head(q) = MetaSet
<1>1. ASSUME NEW m \in Item, m # MetaSet
      PROVE  /\ \A i \in DOMAIN Append(q, m) : Append(q, m)[i] = MetaSet => i = 1
             /\ MetaSet \in Range(Append(q, m)) <=> MetaSet \in Range(q)
  <2>1. \A i \in DOMAIN Append(q, m) : Append(q, m)[i] = MetaSet => i \in DOMAIN q /\ q[i] = MetaSet
    BY <1>1
  <2>2. MetaSet \in Range(Append(q, m)) <=> MetaSet \in Range(q)
    BY <1>1, Ranges
  <2> QED BY <2>1, <2>2
<1>2. ASSUME q # << >>
      PROVE  /\ MetaSet \notin Range(Tail(q))
             /\ \A i \in DOMAIN Tail(q) : Tail(q)[i] # MetaSet
             /\ MetaSet \in Range(q) => Head(q) = MetaSet
  <2>1. \A i \in DOMAIN Tail(q) : Tail(q)[i] # MetaSet
    BY <1>2
  <2>2. MetaSet \in Range(q) => Head(q) = MetaSet
    BY <1>2 DEF Range
  <2> QED BY <2>1, <2>2 DEF Range
<1> QED BY <1>1, <1>2

\* A step that neither writes nor reads a meta message.
LEMMA MetaFrame ==
  ASSUME TypeOK, MetaFirst,
         \A p \in Proxy :
           \/ net'[<<"S", p>>] = net[<<"S", p>>]
           \/ \E i \in Item : i # MetaSet /\ net'[<<"S", p>>] = Append(net[<<"S", p>>], i)
           \/ /\ net[<<"S", p>>] # << >> /\ Head(net[<<"S", p>>]) # MetaSet
              /\ net'[<<"S", p>>] = Tail(net[<<"S", p>>]),
         \A p \in Proxy : conn'[<<"S", p>>].is_start =>
           conn[<<"S", p>>].is_start \/ MetaSet \notin Range(net[<<"S", p>>])
  PROVE  MetaFirst' /\ Announced' = Announced
<1>1. ASSUME NEW p \in Proxy
      PROVE  /\ MetaSet \in Range(net'[<<"S", p>>]) <=> MetaSet \in Range(net[<<"S", p>>])
             /\ \A i \in DOMAIN net'[<<"S", p>>] : net'[<<"S", p>>][i] = MetaSet => i = 1
  <2>1. net[<<"S", p>>] \in Seq(Item) /\ \A i \in DOMAIN net[<<"S", p>>] : net[<<"S", p>>][i] = MetaSet => i = 1
    BY Threads DEF TypeOK, MetaFirst, Side
  <2>2. /\ \A m \in Item : m # MetaSet =>
             /\ \A i \in DOMAIN Append(net[<<"S", p>>], m) : Append(net[<<"S", p>>], m)[i] = MetaSet => i = 1
             /\ MetaSet \in Range(Append(net[<<"S", p>>], m)) <=> MetaSet \in Range(net[<<"S", p>>])
        /\ net[<<"S", p>>] # << >> =>
             /\ MetaSet \notin Range(Tail(net[<<"S", p>>]))
             /\ \A i \in DOMAIN Tail(net[<<"S", p>>]) : Tail(net[<<"S", p>>])[i] # MetaSet
             /\ MetaSet \in Range(net[<<"S", p>>]) => Head(net[<<"S", p>>]) = MetaSet
    BY <2>1, MetaQueue
  <2>3. CASE net'[<<"S", p>>] = net[<<"S", p>>]
    BY <2>1, <2>3
  <2>4. ASSUME NEW m \in Item, m # MetaSet, net'[<<"S", p>>] = Append(net[<<"S", p>>], m)
        PROVE  /\ MetaSet \in Range(net'[<<"S", p>>]) <=> MetaSet \in Range(net[<<"S", p>>])
               /\ \A i \in DOMAIN net'[<<"S", p>>] : net'[<<"S", p>>][i] = MetaSet => i = 1
    BY <2>2, <2>4, Zenon
  <2>5. CASE /\ net[<<"S", p>>] # << >> /\ Head(net[<<"S", p>>]) # MetaSet
             /\ net'[<<"S", p>>] = Tail(net[<<"S", p>>])
    BY <2>2, <2>5, Zenon
  <2> QED BY <2>3, <2>4, <2>5
<1>2. ASSUME NEW p \in Proxy, NEW i \in DOMAIN net'[<<"S", p>>], net'[<<"S", p>>][i] = MetaSet
      PROVE  i = 1 /\ ~conn'[<<"S", p>>].is_start
  <2>1. MetaSet \in Range(net'[<<"S", p>>])
    BY <1>2 DEF Range
  <2>2. MetaSet \in Range(net[<<"S", p>>])
    BY <1>1, <2>1
  <2>3. PICK j \in DOMAIN net[<<"S", p>>] : net[<<"S", p>>][j] = MetaSet
    BY <2>2 DEF Range
  <2>4. ~conn[<<"S", p>>].is_start
    BY <2>3 DEF MetaFirst
  <2> QED BY <1>1, <1>2, <2>2, <2>4
<1>3. Announced' = Announced
  BY <1>1 DEF Announced
<1> QED BY <1>2, <1>3 DEF MetaFirst

\* Forwarding, closing and freeing leave the meta messages alone.
LEMMA QuietMeta == TypeOK /\ MetaFirst /\ Quiet => MetaFirst' /\ Announced' = Announced
<1> SUFFICES ASSUME TypeOK, MetaFirst, NetStep, ServerStep PROVE MetaFirst' /\ Announced' = Announced
  BY DEF Quiet
<1>0. \A p \in Proxy : <<"S", p>> \in Conn /\ <<"S", p>>[1] = "S"
  BY Threads DEF Side
<1>1. ASSUME NEW p \in Proxy
      PROVE \/ net'[<<"S", p>>] = net[<<"S", p>>]
            \/ \E i \in Item : i # MetaSet /\ net'[<<"S", p>>] = Append(net[<<"S", p>>], i)
            \/ /\ net[<<"S", p>>] # << >> /\ Head(net[<<"S", p>>]) # MetaSet
               /\ net'[<<"S", p>>] = Tail(net[<<"S", p>>])
  <2>1. ASSUME NEW c \in Conn, NEW i \in Item, i.type = "data", net' = [net EXCEPT ![c] = Append(@, i)]
        PROVE  \/ net'[<<"S", p>>] = net[<<"S", p>>]
               \/ i # MetaSet /\ net'[<<"S", p>>] = Append(net[<<"S", p>>], i)
    BY <1>0, <2>1, Kinds DEF TypeOK
  <2>2. ASSUME NEW c \in Conn, net[c] # << >>, c[1] = "S" => Head(net[c]) # MetaSet,
               net' = [net EXCEPT ![c] = Tail(@)]
        PROVE  \/ net'[<<"S", p>>] = net[<<"S", p>>]
               \/ /\ net[<<"S", p>>] # << >> /\ Head(net[<<"S", p>>]) # MetaSet
                  /\ net'[<<"S", p>>] = Tail(net[<<"S", p>>])
    BY <1>0, <2>2 DEF TypeOK
  <2> QED BY <2>1, <2>2 DEF NetStep
<1> QED BY <1>1, MetaFrame DEF ServerStep

\* A step that neither writes nor reads a request for a proxy connection.
LEMMA QuietRequests == TypeOK /\ CtlStep => Requests' = Requests
<1> SUFFICES ASSUME TypeOK, CtlStep PROVE Requests' = Requests
  OBVIOUS
<1>1. ctl["C"] \in Seq(CtlMsg)
  BY DEF TypeOK, Side
<1>2. Requests \in Nat
  BY <1>1, PositionsFinite DEF Requests
<1>3. ASSUME NEW m \in CtlMsg, m # NeedProxy, ctl'["C"] = Append(ctl["C"], m) PROVE Requests' = Requests
  <2>1. Cardinality(Positions(Append(ctl["C"], m), {NeedProxy})) = Requests + 0
    BY <1>1, <1>3, CountAppend DEF Requests
  <2> QED BY <1>2, <1>3, <2>1 DEF Requests
<1>4. ASSUME ctl["C"] # << >>, Head(ctl["C"]) # NeedProxy, ctl'["C"] = Tail(ctl["C"])
      PROVE  Requests' = Requests
  <2>1. Cardinality(Positions(Tail(ctl["C"]), {NeedProxy})) = Requests - 0
    BY <1>1, <1>4, CountTail DEF Requests
  <2> QED BY <1>2, <1>4, <2>1 DEF Requests
<1>5. ASSUME ctl'["C"] = ctl["C"] PROVE Requests' = Requests
  BY <1>5 DEF Requests
<1> QED BY <1>3, <1>4, <1>5 DEF CtlStep

\* The invariant in terms of the two counts.
LEMMA ClaimCounts ==
  ClaimFindsPublic <=> Len(undeal_public_fds) = Requests + Cardinality(Announced)
<1>1. Positions(ctl["C"], {NeedProxy}) = {i \in DOMAIN ctl["C"] : ctl["C"][i] = NeedProxy}
  BY DEF Positions
<1>2. Announced = {p \in Proxy : \E i \in DOMAIN net[<<"S", p>>] : net[<<"S", p>>][i] = MetaSet}
  BY DEF Announced, Range
<1> QED BY <1>1, <1>2 DEF ClaimFindsPublic, Requests

\* The client has created the proxy connections that announce themselves.
LEMMA AnnouncedFinite ==
  ASSUME TypeOK, KnownInv
  PROVE  /\ Announced \subseteq proxy_conn_map["C"]
         /\ IsFiniteSet(Announced) /\ Cardinality(Announced) \in Nat
<1>1. ASSUME NEW p \in Announced PROVE p \in proxy_conn_map["C"]
  <2>1. p \in Proxy /\ <<"S", p>> \in Conn /\ <<"S", p>>[2] = p /\ net[<<"S", p>>] # << >>
    BY Threads DEF Announced, Side, Range
  <2> QED BY <2>1 DEF KnownInv
<1>2. IsFiniteSet(Announced)
  BY <1>1, FS_Subset DEF KnownInv
<1> QED BY <1>1, <1>2, FS_CardinalityType

\* The steps that change the counts, and the rest.
LEMMA NextClaim ==
  TypeOK /\ KnownInv /\ MetaFirst /\ ClaimFindsPublic /\ [Next]_vars => MetaFirst' /\ ClaimFindsPublic'
<1> SUFFICES ASSUME TypeOK, KnownInv, MetaFirst, ClaimFindsPublic, [Next]_vars
             PROVE  MetaFirst' /\ ClaimFindsPublic'
  OBVIOUS
<1>0. \A p \in Proxy : <<"S", p>> \in Conn /\ <<"C", p>> \in Conn /\ <<"S", p>>[2] = p
  BY Threads DEF Side
<1>a. /\ Len(undeal_public_fds) = Requests + Cardinality(Announced)
      /\ ClaimFindsPublic' <=> Len(undeal_public_fds') = Requests' + Cardinality(Announced')
  <2>1. Len(undeal_public_fds) = Requests + Cardinality(Announced)
    BY ClaimCounts
  <2>2. (ClaimFindsPublic <=> Len(undeal_public_fds) = Requests + Cardinality(Announced))'
    BY ClaimCounts, PTL
  <2> QED BY <2>1, <2>2
<1>b. ASSUME Quiet PROVE MetaFirst' /\ ClaimFindsPublic'
  <2>1. Requests' = Requests /\ undeal_public_fds' = undeal_public_fds
    BY <1>b, QuietRequests DEF Quiet
  <2> QED BY <1>a, <1>b, <2>1, QuietMeta
<1>c. ctl["C"] \in Seq(CtlMsg) /\ undeal_public_fds \in Seq(Pub)
  BY DEF TypeOK, Side
<1>d. Requests \in Nat /\ IsFiniteSet(Announced) /\ Cardinality(Announced) \in Nat
  BY <1>c, PositionsFinite, AnnouncedFinite DEF Requests
<1>1. CASE UNCHANGED vars
  <2>1. Quiet
    BY <1>1 DEF vars, Quiet, NetStep, CtlStep, ServerStep
  <2> QED BY <1>b, <2>1
<1>2. ASSUME NEW x \in Pub, AcceptOnFree(x) PROVE MetaFirst' /\ ClaimFindsPublic'
  <2>1. \A p \in Proxy : net'[<<"S", p>>] = net[<<"S", p>>]
    BY <1>0, <1>2 DEF AcceptOnFree, Send, TypeOK
  <2>2. MetaFirst' /\ Announced' = Announced
    BY <1>2, <2>1, MetaFrame DEF AcceptOnFree
  <2> QED BY <1>2, <1>a, <2>2 DEF AcceptOnFree, Requests
<1>3. ASSUME NEW x \in Pub, AcceptNeedsProxy(x) PROVE MetaFirst' /\ ClaimFindsPublic'
  <2>1. MetaFirst' /\ Announced' = Announced
    BY <1>3, MetaFrame DEF AcceptNeedsProxy
  <2>2. ctl'["C"] = Append(ctl["C"], NeedProxy) /\ undeal_public_fds' = Append(undeal_public_fds, x)
    BY <1>3 DEF AcceptNeedsProxy, TypeOK, Side
  <2>3. Cardinality(Positions(Append(ctl["C"], NeedProxy), {NeedProxy})) = Requests + 1
    BY <1>c, CtlMsgs, CountAppend DEF Requests
  <2>4. Requests' = Requests + 1
    BY <2>2, <2>3 DEF Requests
  <2>5. Len(undeal_public_fds') = Len(undeal_public_fds) + 1
    BY <1>c, <2>2
  <2> QED BY <1>a, <1>d, <2>1, <2>4, <2>5
<1>4. ASSUME NEW p \in Proxy, NEW l \in Loc, HandleProxyNotify(p, l) PROVE MetaFirst' /\ ClaimFindsPublic'
  <2>1. net[<<"S", p>>] = << >> /\ ~conn[<<"S", p>>].is_start
    BY <1>0, <1>4 DEF HandleProxyNotify, CreateProxyConn, KnownInv
  <2>2. /\ net'[<<"S", p>>] = Append(net[<<"S", p>>], MetaSet)
        /\ \A q \in Proxy : q # p => net'[<<"S", q>>] = net[<<"S", q>>]
        /\ conn' = conn
    BY <1>0, <1>4 DEF HandleProxyNotify, Send, TypeOK
  <2>3. net'[<<"S", p>>] = <<MetaSet>>
    BY <2>1, <2>2
  <2>4. MetaFirst'
    BY <2>1, <2>2, <2>3 DEF MetaFirst
  <2>5. Announced' = Announced \cup {p} /\ p \notin Announced
    <3>1. Range(net'[<<"S", p>>]) = {MetaSet} /\ Range(net[<<"S", p>>]) = {}
      BY <2>1, <2>3 DEF Range
    <3> QED BY <2>2, <3>1 DEF Announced
  <2>6. Cardinality(Announced') = Cardinality(Announced) + 1
    BY <1>d, <2>5, FS_AddElement
  <2>7. ctl["C"] # << >> /\ Head(ctl["C"]) = NeedProxy /\ ctl'["C"] = Tail(ctl["C"])
    BY <1>4 DEF HandleProxyNotify, TypeOK, Side
  <2>8. Cardinality(Positions(Tail(ctl["C"]), {NeedProxy})) = Requests - 1
    BY <1>c, <2>7, CountTail DEF Requests
  <2>9. Requests' = Requests - 1 /\ undeal_public_fds' = undeal_public_fds
    BY <1>4, <2>7, <2>8 DEF Requests, HandleProxyNotify
  <2> QED BY <1>a, <1>d, <2>4, <2>6, <2>9
<1>5. ASSUME NEW p \in Proxy, NEW l \in Loc, HandleStartProxyConnReq(p, l)
      PROVE  MetaFirst' /\ ClaimFindsPublic'
  <2> DEFINE h == Head(net[<<"C", p>>])
             x == h.end
  <2>1. h \in Item /\ h.type = "StartProxyConnReq"
    BY <1>0, <1>5, QueueTypes DEF HandleStartProxyConnReq, InCtlMode
  <2>2. StartRsp(x) \in Item /\ StartRsp(x) # MetaSet
    BY <2>1, Items, Kinds
  <2>3. /\ net'[<<"S", p>>] = Append(net[<<"S", p>>], StartRsp(x))
        /\ \A q \in Proxy : q # p => net'[<<"S", q>>] = net[<<"S", q>>]
    BY <1>0, <1>5 DEF HandleStartProxyConnReq, TypeOK
  <2> HIDE DEF x, h
  <2>4. MetaFirst' /\ Announced' = Announced
    BY <1>5, <2>2, <2>3, MetaFrame DEF HandleStartProxyConnReq
  <2> QED BY <1>5, <1>a, <2>4 DEF HandleStartProxyConnReq, Requests
<1>e. ASSUME NEW p \in Proxy, NEW x \in Pub, BindPublicFdToProxyConn(p, x)
      PROVE  /\ net'[<<"S", p>>] = Tail(net[<<"S", p>>])
             /\ \A q \in Proxy : q # p => /\ net'[<<"S", q>>] = net[<<"S", q>>]
                                          /\ conn'[<<"S", q>>] = conn[<<"S", q>>]
  BY <1>0, <1>e DEF BindPublicFdToProxyConn, TypeOK
<1>f. ASSUME NEW p \in Proxy, net[<<"S", p>>] # << >>
      PROVE  /\ MetaSet \notin Range(Tail(net[<<"S", p>>]))
             /\ \A i \in DOMAIN Tail(net[<<"S", p>>]) : Tail(net[<<"S", p>>])[i] # MetaSet
             /\ MetaSet \in Range(net[<<"S", p>>]) => Head(net[<<"S", p>>]) = MetaSet
  <2>1. net[<<"S", p>>] \in Seq(Item) /\ \A i \in DOMAIN net[<<"S", p>>] : net[<<"S", p>>][i] = MetaSet => i = 1
    BY <1>0 DEF TypeOK, MetaFirst
  <2> QED BY <1>f, <2>1, MetaQueue
<1>6. ASSUME NEW p \in Proxy, ClaimProxyConn(p) PROVE MetaFirst' /\ ClaimFindsPublic'
  <2>1. Last(undeal_public_fds) \in Pub /\ undeal_public_fds # << >> /\ net[<<"S", p>>] # << >>
    BY <1>6, FrontLast DEF ClaimProxyConn, InCtlMode, TypeOK
  <2>2. Head(net[<<"S", p>>]) = MetaSet /\ Head(net[<<"S", p>>]) \in Range(net[<<"S", p>>])
    BY <1>0, <1>6, <2>1, Kinds, NetRanges DEF ClaimProxyConn, InCtlMode
  <2>3. BindPublicFdToProxyConn(p, Last(undeal_public_fds))
    BY <1>6 DEF ClaimProxyConn
  <2>4. /\ net'[<<"S", p>>] = Tail(net[<<"S", p>>])
        /\ \A q \in Proxy : q # p => /\ net'[<<"S", q>>] = net[<<"S", q>>]
                                     /\ conn'[<<"S", q>>] = conn[<<"S", q>>]
    BY <1>e, <2>1, <2>3
  <2>5. MetaFirst'
    BY <1>f, <2>1, <2>4 DEF MetaFirst
  <2>6. Announced' = Announced \ {p} /\ p \in Announced
    BY <1>f, <2>1, <2>2, <2>4 DEF Announced
  <2>7. Cardinality(Announced') = Cardinality(Announced) - 1
    BY <1>d, <2>6, FS_RemoveElement
  <2>8. Len(undeal_public_fds') = Len(undeal_public_fds) - 1
    <3>1. undeal_public_fds' = SubSeq(undeal_public_fds, 1, Len(undeal_public_fds) - 1)
      BY <1>6 DEF ClaimProxyConn, PopUndeal, Front
    <3>2. Len(undeal_public_fds) \in Nat \ {0}
      BY <1>c, <2>1
    <3>3. Len(SubSeq(undeal_public_fds, 1, Len(undeal_public_fds) - 1)) = Len(undeal_public_fds) - 1
      <4> DEFINE n == Len(undeal_public_fds) - 1
      <4>1. n \in Nat /\ \A i \in 1..n : undeal_public_fds[i] \in Pub
        BY <1>c, <3>2
      <4> HIDE DEF n
      <4>2. Len(SubSeq(undeal_public_fds, 1, n)) = IF 1 <= n THEN n - 1 + 1 ELSE 0
        BY <4>1, SubSeqProperties
      <4>3. Len(SubSeq(undeal_public_fds, 1, n)) = n
        BY <4>1, <4>2
      <4> QED BY <4>3 DEF n
    <3> QED BY <3>1, <3>3
  <2>9. Requests' = Requests
    BY <1>6 DEF ClaimProxyConn, Requests
  <2> QED BY <1>a, <1>c, <1>d, <2>5, <2>7, <2>8, <2>9
<1>7. ASSUME NEW p \in Proxy, HandleStartProxyConnRsp(p) PROVE MetaFirst' /\ ClaimFindsPublic'
  <2> DEFINE h == Head(net[<<"S", p>>])
  <2>1. net[<<"S", p>>] # << >> /\ h \in Item /\ h.type = "StartProxyConnRsp"
    BY <1>0, <1>7, NetRanges DEF HandleStartProxyConnRsp, InCtlMode
  <2>2. h.end \in Pub /\ h # MetaSet /\ BindPublicFdToProxyConn(p, h.end)
    BY <1>7, <2>1, Items, Kinds DEF HandleStartProxyConnRsp
  <2>3. /\ net'[<<"S", p>>] = Tail(net[<<"S", p>>])
        /\ \A q \in Proxy : q # p => /\ net'[<<"S", q>>] = net[<<"S", q>>]
                                     /\ conn'[<<"S", q>>] = conn[<<"S", q>>]
    BY <1>e, <2>2
  <2>4. MetaSet \notin Range(net[<<"S", p>>])
    BY <1>f, <2>1, <2>2
  <2>5. MetaFirst' /\ Announced' = Announced
    BY <2>1, <2>2, <2>3, <2>4, MetaFrame
  <2> QED BY <1>7, <1>a, <2>5 DEF HandleStartProxyConnRsp, Requests
<1>8. ASSUME NEW t \in Thread, ThreadStep(t) PROVE MetaFirst' /\ ClaimFindsPublic'
  BY <1>8, <1>b, ThreadQuiet
<1>9. CASE HandleShutdownPublicConn \/ HandleShutdownLocalConn \/ HandleFreeProxyConnReq \/ AddWait
  BY <1>9, <1>b, MainQuiet DEF HandleShutdownPublicConn, HandleShutdownLocalConn, Side
<1>10. CASE (\E c \in Conn : ReadProxy(c)) \/ (\E e \in End : ReadEnd(e) \/ ReadEof(e))
  BY <1>10, <1>b, ForwardQuiet
<1> QED
  BY <1>1, <1>2, <1>3, <1>4, <1>5, <1>6, <1>7, <1>8, <1>9, <1>10 DEF Next, StartProxy

----------------------------------------------------------------------------
(***************************************************************************)
(* Proxy connections the client has created                                *)
(***************************************************************************)

\* A step that takes every name of a proxy connection from where one was, or
\* from the client's map.
LEMMA KnownFrame ==
  ASSUME TypeOK, KnownInv,
         proxy_conn_map["C"] \subseteq proxy_conn_map'["C"], IsFiniteSet(proxy_conn_map'["C"]),
         \A c \in Conn : net'[c] # << >> => net[c] # << >> \/ c[2] \in proxy_conn_map'["C"],
         \A p \in Proxy : conn'[<<"S", p>>].is_start =>
           conn[<<"S", p>>].is_start \/ p \in proxy_conn_map'["C"],
         Range(free_proxy_conns') \subseteq Range(free_proxy_conns) \cup proxy_conn_map'["C"],
         proxy_conn_map'["S"] \subseteq proxy_conn_map["S"] \cup proxy_conn_map'["C"],
         \A e \in End : end'[e].on \in {end[e].on, None} \cup proxy_conn_map'["C"],
         \A t \in Thread : th'[t].pc \in {"start", "bind", "push"} =>
           \/ th'[t].proxy \in proxy_conn_map'["C"]
           \/ th[t].pc \in {"start", "bind", "push"} /\ th'[t].proxy = th[t].proxy
  PROVE  KnownInv'
  BY DEF KnownInv

\* start() takes an end out of the poller, or puts it on p.
LEMMA MountedOn ==
  ASSUME TypeOK, NEW x \in End, NEW p \in Proxy
  PROVE  \A e \in End : Mounted(x, p)[e].on \in {end[e].on, None, p}
<1>1. \A e \in End : /\ [end[e] EXCEPT !.on = p].on = p
                     /\ [end[e] EXCEPT !.on = None].on = None
  BY DEF TypeOK, EndState
<1> QED BY <1>1 DEF Mounted

\* A thread goes elsewhere.
LEMMA ThreadElsewhere ==
  ASSUME TypeOK, NEW t \in Thread, NEW r \in Frame, Goto(t, r)
  PROVE  \A u \in Thread : th'[u] = th[u] \/ (u = t /\ th'[u] = r)
  BY DEF TypeOK, Goto

\* What becomes of the ends in a step that forwards or closes.
LEMMA EndsStay ==
  ASSUME TypeOK, NEW f \in End, NEW r \in EndState, r.on = end[f].on, end' = [end EXCEPT ![f] = r]
  PROVE  \A e \in End : end'[e].on = end[e].on
  BY DEF TypeOK

\* The listening thread and the start of a proxy connection keep KnownInv.
LEMMA StartKnown ==
  ASSUME TypeOK, KnownInv,
         \/ \E x \in Pub : AcceptOnFree(x) \/ AcceptNeedsProxy(x)
         \/ \E p \in Proxy : StartProxy(p)
  PROVE  KnownInv'
<1>0. \A p \in Proxy : /\ <<"S", p>> \in Conn /\ <<"C", p>> \in Conn
                       /\ <<"S", p>>[2] = p /\ <<"C", p>>[2] = p
  BY Threads DEF Side
<1>a. IsFiniteSet(proxy_conn_map["C"])
  BY DEF KnownInv
<1>1. ASSUME NEW x \in Pub, AcceptOnFree(x) PROVE KnownInv'
  <2> DEFINE q == Last(free_proxy_conns)
  <2>1. /\ q \in Proxy /\ q \in Range(free_proxy_conns)
        /\ Range(free_proxy_conns') \subseteq Range(free_proxy_conns)
    BY <1>1, FrontLast, Ranges DEF AcceptOnFree, PopFree, TypeOK
  <2>2. q \in proxy_conn_map["C"]
    BY <2>1 DEF KnownInv
  <2>3. \A c \in Conn : c # <<"C", q>> => net'[c] = net[c]
    BY <1>1 DEF AcceptOnFree, Send, TypeOK
  <2>4. \A u \in Thread : th'[u] = th[u] \/ th'[u].pc = "wait"
    BY <1>1, <2>1, Threads, Frames, Places, ThreadElsewhere DEF AcceptOnFree
  <2> HIDE DEF q
  <2> QED BY <1>0, <1>1, <1>a, <2>1, <2>2, <2>3, <2>4, KnownFrame DEF AcceptOnFree
<1>2. ASSUME NEW x \in Pub, AcceptNeedsProxy(x) PROVE KnownInv'
  BY <1>2, <1>a, KnownFrame DEF AcceptNeedsProxy
<1>3. ASSUME NEW p \in Proxy, NEW l \in Loc, HandleProxyNotify(p, l) PROVE KnownInv'
  <2>1. proxy_conn_map'["C"] = proxy_conn_map["C"] \cup {p} /\ proxy_conn_map'["S"] = proxy_conn_map["S"]
    BY <1>3 DEF HandleProxyNotify, CreateProxyConn, TypeOK, Side
  <2>2. IsFiniteSet(proxy_conn_map'["C"])
    BY <1>a, <2>1, FS_AddElement
  <2>3. \A c \in Conn : c # <<"S", p>> => net'[c] = net[c]
    BY <1>3 DEF HandleProxyNotify, Send, TypeOK
  <2>4. \A u \in Thread : th'[u] = th[u] \/ th'[u].proxy = p
    BY <1>3, Threads, Frames, Places, ThreadElsewhere DEF HandleProxyNotify, Side
  <2> QED BY <1>0, <1>3, <2>1, <2>2, <2>3, <2>4, KnownFrame DEF HandleProxyNotify
<1>4. ASSUME NEW p \in Proxy, NEW l \in Loc, HandleStartProxyConnReq(p, l) PROVE KnownInv'
  <2>1. p \in proxy_conn_map["C"]
    BY <1>0, <1>4 DEF HandleStartProxyConnReq, InCtlMode, KnownInv
  <2>2. \A c \in Conn : c # <<"S", p>> /\ c # <<"C", p>> => net'[c] = net[c]
    BY <1>4 DEF HandleStartProxyConnReq, TypeOK
  <2>3. \A u \in Thread : th'[u] = th[u] \/ th'[u].proxy = p
    BY <1>4, Threads, Frames, Places, ThreadElsewhere DEF HandleStartProxyConnReq, Side
  <2> QED BY <1>0, <1>4, <1>a, <2>1, <2>2, <2>3, KnownFrame DEF HandleStartProxyConnReq
<1>5. ASSUME NEW p \in Proxy, NEW x \in Pub, BindPublicFdToProxyConn(p, x), net[<<"S", p>>] # << >>,
             free_proxy_conns' = free_proxy_conns, th' = th
      PROVE  KnownInv'
  <2>1. p \in proxy_conn_map["C"]
    BY <1>0, <1>5 DEF KnownInv
  <2>2. proxy_conn_map'["C"] = proxy_conn_map["C"] /\ proxy_conn_map'["S"] = proxy_conn_map["S"] \cup {p}
    BY <1>5 DEF BindPublicFdToProxyConn, TypeOK, Side
  <2>3. \A c \in Conn : c # <<"S", p>> => net'[c] = net[c] /\ conn'[c] = conn[c]
    BY <1>5 DEF BindPublicFdToProxyConn, TypeOK
  <2>4. \A e \in End : end'[e].on \in {end[e].on, None, p}
    BY <1>5, Ends, MountedOn DEF BindPublicFdToProxyConn
  <2> QED BY <1>0, <1>5, <1>a, <2>1, <2>2, <2>3, <2>4, KnownFrame
<1>6. ASSUME NEW p \in Proxy, ClaimProxyConn(p) PROVE KnownInv'
  <2>1. Last(undeal_public_fds) \in Pub
    BY <1>6, FrontLast DEF ClaimProxyConn, TypeOK
  <2> QED BY <1>5, <1>6, <2>1 DEF ClaimProxyConn, InCtlMode
<1>7. ASSUME NEW p \in Proxy, HandleStartProxyConnRsp(p) PROVE KnownInv'
  <2>1. Head(net[<<"S", p>>]).end \in Pub
    BY <1>0, <1>7, Items, QueueTypes DEF HandleStartProxyConnRsp, InCtlMode
  <2> QED BY <1>5, <1>7, <2>1 DEF HandleStartProxyConnRsp, InCtlMode
<1> QED BY <1>1, <1>2, <1>3, <1>4, <1>6, <1>7 DEF StartProxy

\* The continuation of a handler keeps KnownInv: freeProxyConn found the proxy
\* connection in the server's map.
LEMMA ThreadKnown ==
  ASSUME TypeOK, KnownInv, NEW t \in Thread, ThreadStep(t)
  PROVE  KnownInv'
<1>0. t[1] \in Side /\ Other(t[1]) \in Side /\ th[t] \in Frame
  BY Threads, ComponentTypes
<1>a. IsFiniteSet(proxy_conn_map["C"]) /\ proxy_conn_map["S"] \subseteq proxy_conn_map["C"]
  BY DEF KnownInv
<1>b. ServerStep
  BY ThreadQuiet DEF Quiet
<1>1. CASE StartFlag(t)
  <2>1. th[t].proxy \in Proxy /\ th[t].end \in Loc
    BY <1>0, <1>1, Frames DEF StartFlag
  <2>2. \A u \in Thread : th'[u] = th[u] \/ (u = t /\ th'[u].proxy = th[t].proxy)
    BY <1>1, <2>1, Frames, Places, ThreadElsewhere DEF StartFlag
  <2> QED BY <1>1, <1>a, <1>b, <2>2, KnownFrame DEF StartFlag, ServerStep
<1>2. CASE StartBind(t)
  <2>1. th[t].proxy \in Proxy /\ th[t].end \in End /\ th[t].proxy \in proxy_conn_map["C"]
    BY <1>0, <1>2, Frames, Ends DEF StartBind, KnownInv
  <2>2. \A u \in Thread : th'[u] = th[u] \/ th'[u].pc = "idle"
    BY <1>2, Frames, Places, ThreadElsewhere DEF StartBind
  <2>3. \A e \in End : end'[e].on \in {end[e].on, None, th[t].proxy}
    BY <1>2, <2>1, MountedOn DEF StartBind
  <2> QED BY <1>2, <1>a, <1>b, <2>1, <2>2, <2>3, KnownFrame DEF StartBind, ServerStep
<1>3. CASE NotifyPeer(t)
  <2>1. \A u \in Thread : th'[u] = th[u] \/ th'[u].pc = "idle"
    BY <1>3, Frames, Places, ThreadElsewhere DEF NotifyPeer
  <2> QED BY <1>3, <1>a, <2>1, KnownFrame DEF NotifyPeer
<1>4. CASE CheckCounts(t)
  <2> DEFINE r == IF AllForwarded(conn[<<t[1], th[t].proxy>>].recv, conn[<<t[1], th[t].proxy>>].theo)
                  THEN At("shut", th[t].proxy, None) ELSE Idle
  <2>1. r \in Frame /\ r.pc \in {"shut", "idle"}
    BY <1>0, <1>4, Frames, Places DEF CheckCounts
  <2>2. Goto(t, r)
    BY <1>4 DEF CheckCounts
  <2> HIDE DEF r
  <2>3. \A u \in Thread : th'[u] = th[u] \/ th'[u].pc \in {"shut", "idle"}
    BY <2>1, <2>2, ThreadElsewhere
  <2> QED BY <1>4, <1>a, <2>3, KnownFrame DEF CheckCounts
<1>5. CASE ShutdownFromRemote(t)
  <2> DEFINE c == <<t[1], th[t].proxy>>
             f == At(IF t[1] = "S" THEN "free" ELSE "reqfree", th[t].proxy, None)
             e == conn[c].peer
  <2>1. th[t].proxy \in Proxy /\ c \in Conn
    BY <1>0, <1>5, Frames, Threads DEF ShutdownFromRemote
  <2>2. f \in Frame /\ f.pc \in {"free", "reqfree"}
    BY <2>1, Frames, Places
  <2>3. Goto(t, f) \/ Goto(t, Idle)
    BY <1>5 DEF ShutdownFromRemote
  <2>4. \A u \in Thread : th'[u] = th[u] \/ th'[u].pc \in {"free", "reqfree", "idle"}
    <3> HIDE DEF f
    <3> QED BY <2>2, <2>3, Frames, Places, ThreadElsewhere
  <2>5. \A d \in End : end'[d].on = end[d].on
    <3>1. CASE e = None
      BY <1>5, <3>1 DEF ShutdownFromRemote
    <3>2. CASE e # None
      <4>0. e \in End
        BY <2>1, <3>2, ComponentTypes DEF ProxyConnState
      <4>1. e \in End /\ [end[e] EXCEPT !.fin = TRUE] \in EndState /\ [end[e] EXCEPT !.fin = TRUE].on = end[e].on
        BY <4>0, ComponentTypes, ZenonT(60) DEF EndState
      <4>2. end' = [end EXCEPT ![e] = [end[e] EXCEPT !.fin = TRUE]]
        BY <1>5, <3>2 DEF ShutdownFromRemote
      <4> HIDE DEF e
      <4> QED BY <4>1, <4>2, EndsStay
    <3> QED BY <3>1, <3>2
  <2> QED BY <1>5, <1>a, <1>b, <2>4, <2>5, KnownFrame DEF ShutdownFromRemote, ServerStep
<1>6. CASE RequestFree(t)
  <2>1. \A u \in Thread : th'[u] = th[u] \/ th'[u].pc = "idle"
    BY <1>6, Frames, Places, ThreadElsewhere DEF RequestFree
  <2> QED BY <1>6, <1>a, <2>1, KnownFrame DEF RequestFree
<1>7. CASE FreeProxyConn(t)
  <2> DEFINE r == IF th[t].proxy \in proxy_conn_map["S"] /\ ~conn[<<"S", th[t].proxy>>].is_start
                  THEN At("push", th[t].proxy, None) ELSE Idle
  <2>1. r \in Frame /\ (r.pc = "idle" \/ r.proxy \in proxy_conn_map["C"])
    BY <1>0, <1>7, <1>a, Frames, Places DEF FreeProxyConn
  <2>2. Goto(t, r)
    BY <1>7 DEF FreeProxyConn
  <2> HIDE DEF r
  <2>3. \A u \in Thread : th'[u] = th[u] \/ th'[u].pc = "idle" \/ th'[u].proxy \in proxy_conn_map["C"]
    BY <2>1, <2>2, ThreadElsewhere
  <2> QED BY <1>7, <1>a, <2>3, KnownFrame DEF FreeProxyConn
<1>8. CASE PushFree(t)
  <2>1. th[t].proxy \in Proxy /\ th[t].proxy \in proxy_conn_map["C"]
    BY <1>0, <1>8, Frames DEF PushFree, KnownInv
  <2>2. Range(free_proxy_conns') = Range(free_proxy_conns) \cup {th[t].proxy}
    BY <1>8, <2>1, Ranges DEF PushFree, TypeOK
  <2>3. proxy_conn_map'["C"] = proxy_conn_map["C"] /\ proxy_conn_map'["S"] \subseteq proxy_conn_map["S"]
    BY <1>8 DEF PushFree, TypeOK, Side
  <2>4. \A u \in Thread : th'[u] = th[u] \/ th'[u].pc = "idle"
    BY <1>8, Frames, Places, ThreadElsewhere DEF PushFree
  <2> QED BY <1>8, <1>a, <2>1, <2>2, <2>3, <2>4, KnownFrame DEF PushFree
<1> QED BY <1>1, <1>2, <1>3, <1>4, <1>5, <1>6, <1>7, <1>8 DEF ThreadStep

\* The control connection's handlers keep KnownInv.
LEMMA MainKnown ==
  ASSUME TypeOK, KnownInv, (\E s \in Side : HandleShutdown(s)) \/ HandleFreeProxyConnReq \/ AddWait
  PROVE  KnownInv'
<1>a. IsFiniteSet(proxy_conn_map["C"])
  BY DEF KnownInv
<1>b. ServerStep
  BY MainQuiet DEF Quiet
<1>1. ASSUME NEW s \in Side, HandleShutdown(s) PROVE KnownInv'
  <2> DEFINE m == Head(ctl[s])
  <2>1. Main(s) \in Thread /\ At("check", m.proxy, None) \in Frame
    BY <1>1, QueueTypes, CtlMsgs, Threads, Frames DEF HandleShutdown
  <2>2. \A u \in Thread : th'[u] = th[u] \/ th'[u].pc = "check"
    BY <1>1, <2>1, Places, ThreadElsewhere, SMTT(30) DEF HandleShutdown
  <2> QED BY <1>1, <1>a, <1>b, <2>2, KnownFrame DEF HandleShutdown, ServerStep
<1>2. CASE HandleFreeProxyConnReq
  <2>1. At("free", Head(ctl["S"]).proxy, None) \in Frame /\ Main("S") \in Thread
    BY <1>2, QueueTypes, CtlMsgs, Threads, Frames DEF HandleFreeProxyConnReq, Side
  <2>2. \A u \in Thread : th'[u] = th[u] \/ th'[u].pc = "free"
    BY <1>2, <2>1, Places, ThreadElsewhere DEF HandleFreeProxyConnReq
  <2> QED BY <1>2, <1>a, <2>2, KnownFrame DEF HandleFreeProxyConnReq
<1>3. CASE AddWait
  <2>1. \A u \in Thread : th'[u] = th[u] \/ th'[u].pc = "idle"
    BY <1>3, Threads, Frames, Places, ThreadElsewhere DEF AddWait
  <2> QED BY <1>3, <1>a, <2>1, KnownFrame DEF AddWait
<1> QED BY <1>1, <1>2, <1>3

\* Reading and forwarding keeps KnownInv.
LEMMA ForwardKnown ==
  ASSUME TypeOK, KnownInv, MetaFirst,
         (\E c \in Conn : ReadProxy(c)) \/ (\E e \in End : ReadEnd(e) \/ ReadEof(e))
  PROVE  KnownInv'
<1>a. IsFiniteSet(proxy_conn_map["C"])
  BY DEF KnownInv
<1>b. ServerStep
  BY ForwardQuiet DEF Quiet
<1>1. ASSUME NEW c \in Conn, DropInCtlMode(c) PROVE KnownInv'
  <2>1. \A d \in Conn : net'[d] # << >> => net[d] # << >>
    BY <1>1 DEF DropInCtlMode, InCtlMode, TypeOK
  <2> QED BY <1>1, <1>a, <2>1, KnownFrame DEF DropInCtlMode
<1>2. ASSUME NEW c \in Conn, NEW counted \in BOOLEAN, TransferChunk(c, counted) PROVE KnownInv'
  <2> DEFINE e == conn[c].peer
             i == <<Head(net[c]).end, Head(net[c]).seq>>
             n == conn[c].recv + IF counted THEN 1 ELSE 0
             f == IF counted /\ AllForwarded(n, conn[c].theo) THEN At("check", c[2], None) ELSE Idle
  <2>1. \A d \in Conn : net'[d] # << >> => net[d] # << >>
    BY <1>2 DEF TransferChunk, TypeOK
  <2>2. c \in Thread /\ f \in Frame /\ f.pc \in {"check", "idle"} /\ Goto(c, f)
    BY <1>2, Threads, Frames, Places DEF TransferChunk
  <2>3. \A u \in Thread : th'[u] = th[u] \/ th'[u].pc \in {"check", "idle"}
    <3> HIDE DEF f
    <3> QED BY <2>2, ThreadElsewhere
  <2>4. \A d \in End : end'[d].on = end[d].on
    <3>1. CASE end' = end
      BY <3>1
    <3>2. CASE e # None /\ counted
      <4> DEFINE q == Append(end[e].out, i)
      <4>1. e \in End /\ i \in (End \cup {None}) \X Nat /\ end[e].out \in Seq((End \cup {None}) \X Nat)
        BY <1>2, <3>2, ComponentTypes, QueueTypes, Items DEF EndState, ProxyConnState, TransferChunk
      <4>2. q \in Seq((End \cup {None}) \X Nat)
        BY <4>1, AppendProperties
      <4>3. end' = [end EXCEPT ![e] = [end[e] EXCEPT !.out = q]]
        BY <1>2, <3>2 DEF TransferChunk
      <4> HIDE DEF q, e, i
      <4>4. [end[e] EXCEPT !.out = q] \in EndState /\ [end[e] EXCEPT !.out = q].on = end[e].on
        <5>1. [end[e] EXCEPT !.out = q] \in EndState
          BY <4>1, <4>2, ComponentTypes, OutType
        <5>2. end[e] \in EndState
          BY <4>1, ComponentTypes
        <5> QED BY <5>1, <5>2 DEF EndState
      <4> QED BY <4>1, <4>3, <4>4, EndsStay
    <3> QED BY <1>2, <3>1, <3>2 DEF TransferChunk
  <2> QED BY <1>2, <1>a, <1>b, <2>1, <2>3, <2>4, KnownFrame DEF TransferChunk, ServerStep
<1>3. ASSUME NEW e \in End, ReadEnd(e) PROVE KnownInv'
  <2> DEFINE c == <<Other(SideOf(e)), end[e].on>>
             n == end[e].tran + 1
  <2>1. c[2] \in proxy_conn_map["C"]
    BY <1>3 DEF ReadEnd, Readable, KnownInv
  <2>2. \A d \in Conn : d # c => net'[d] = net[d]
    BY <1>3 DEF ReadEnd, Send, TypeOK
  <2>3. n \in 0..MaxChunks /\ end' = [end EXCEPT ![e] = [end[e] EXCEPT !.tran = n]]
    BY <1>3, Chunks, ComponentTypes DEF ReadEnd, Readable, MaySend, EndState
  <2>4. \A d \in End : end'[d].on = end[d].on
    <3> HIDE DEF n
    <3>1. [end[e] EXCEPT !.tran = n] \in EndState /\ [end[e] EXCEPT !.tran = n].on = end[e].on
      BY <2>3, ComponentTypes DEF EndState
    <3> QED BY <2>3, <3>1, EndsStay
  <2> HIDE DEF c, n
  <2> QED BY <1>3, <1>a, <2>1, <2>2, <2>4, KnownFrame DEF ReadEnd
<1>4. ASSUME NEW e \in End, ReadEof(e) PROVE KnownInv'
  <2> DEFINE c == <<SideOf(e), end[e].on>>
             f == At("notify", end[e].on, e)
  <2>1. end[e].on \in Proxy /\ c \in Thread /\ f \in Frame /\ f.pc = "notify"
    BY <1>4, Ends, Threads, ComponentTypes, Frames, Places DEF ReadEof, Readable, EndState
  <2>2. th' = th \/ Goto(c, f)
    BY <1>4 DEF ReadEof, ShutdownFromEnd
  <2>3. \A u \in Thread : th'[u] = th[u] \/ th'[u].pc = "notify"
    <3> HIDE DEF c, f
    <3> QED BY <2>1, <2>2, ThreadElsewhere
  <2>4. \A d \in End : end'[d].on = end[d].on
    <3>1. [end[e] EXCEPT !.closing = TRUE] \in EndState /\ [end[e] EXCEPT !.closing = TRUE].on = end[e].on
      BY ComponentTypes DEF EndState
    <3> QED BY <1>4, <3>1, EndsStay DEF ReadEof
  <2> QED BY <1>4, <1>a, <1>b, <2>3, <2>4, KnownFrame DEF ReadEof, ServerStep
<1> QED BY <1>1, <1>2, <1>3, <1>4 DEF ReadProxy

----------------------------------------------------------------------------
\* The invariant holds initially ...
LEMMA InitBinding == Init => BindingInv
<1> SUFFICES ASSUME Init PROVE BindingInv
  OBVIOUS
<1>0. \A p \in Proxy : <<"S", p>> \in Conn /\ <<"C", p>> \in Conn
  BY Threads DEF Side
<1>1. Range(<< >>) = {} /\ DOMAIN << >> = {}
  BY DEF Range
<1>2. \A c \in Conn : net[c] = << >> /\ conn[c].peer = None /\ ~conn[c].is_start
  BY DEF Init, Reset
<1>3. \A t \in Thread : th[t].pc = "idle"
  BY Places DEF Init
<1>4. \A x \in Pub \cup Loc : x # None
  BY TunnelAssumption DEF TunnelAssumption
<1>5. PubInv
  BY <1>0, <1>1, <1>2, <1>4 DEF Init, PubInv, PubOn
<1>6. LocInv
  BY <1>0, <1>2, <1>3, <1>4 DEF LocInv, LocOn
<1>7. KnownInv
  <2>1. \A e \in End : end[e].on = None
    BY DEF Init
  <2>2. proxy_conn_map["C"] = {} /\ proxy_conn_map["S"] = {} /\ free_proxy_conns = << >>
    BY DEF Init, Side
  <2> QED BY <1>0, <1>1, <1>2, <1>3, <2>1, <2>2, FS_EmptySet DEF KnownInv
<1>8. MetaFirst
  BY <1>0, <1>1, <1>2 DEF MetaFirst
<1>9. ClaimFindsPublic
  <2>1. ctl["C"] = << >> /\ undeal_public_fds = << >>
    BY DEF Init, Side
  <2>2. Requests = 0
    BY <2>1, CountEmpty DEF Requests
  <2>3. Announced = {}
    BY <1>0, <1>1, <1>2 DEF Announced
  <2> QED BY <2>1, <2>2, <2>3, FS_EmptySet, ClaimCounts
<1> QED BY <1>5, <1>6, <1>7, <1>8, <1>9 DEF BindingInv

\* ... and every step keeps it.
LEMMA NextBinding == TypeOK /\ BindingInv /\ [Next]_vars => BindingInv'
<1> SUFFICES ASSUME TypeOK, PubInv, LocInv, KnownInv, MetaFirst, ClaimFindsPublic, [Next]_vars
             PROVE  BindingInv'
  BY DEF BindingInv
<1>1. PubInv' /\ LocInv' /\ MetaFirst' /\ ClaimFindsPublic'
  BY NextPub, NextLoc, NextClaim
<1>2. KnownInv'
  <2>1. CASE UNCHANGED vars
    BY <2>1 DEF vars, KnownInv
  <2>2. CASE HandleShutdownPublicConn \/ HandleShutdownLocalConn
    BY <2>2, MainKnown DEF HandleShutdownPublicConn, HandleShutdownLocalConn, Side
  <2> QED BY <2>1, <2>2, StartKnown, ThreadKnown, MainKnown, ForwardKnown DEF Next
<1> QED BY <1>1, <1>2 DEF BindingInv

\* The invariant the two properties follow from: an end is parked or on its way to
\* one proxy connection, meta messages come first, nothing refers to a proxy
\* connection the client has not created, and requests and parked ends balance.
THEOREM BindingCorrect == Spec => [](TypeOK /\ BindingInv)
<1>1. Init => TypeOK /\ BindingInv
  BY InitTypeOK, InitBinding
<1>2. TypeOK /\ BindingInv /\ [Next]_vars => (TypeOK /\ BindingInv)'
  BY NextTypeOK, NextBinding
<1> QED BY <1>1, <1>2, PTL DEF Spec

\* However often proxy connections are handed out, freed (even twice) and started
\* again, and whichever threads are inside start(), no two ProxyConns forward to
\* the same public or local connection.
THEOREM EndsNotShared == Spec => []NoSharedEnd
<1>1. TypeOK /\ BindingInv => NoSharedEnd
  <2> SUFFICES ASSUME TypeOK, PubInv, LocInv, NEW c \in Conn, NEW d \in Conn,
                      conn[c].peer = conn[d].peer, conn[c].peer # None
               PROVE  c = d
    BY DEF BindingInv, NoSharedEnd
  <2>1. PICK s \in Side, r \in Side, p \in Proxy, q \in Proxy : c = <<s, p>> /\ d = <<r, q>>
    BY Threads
  <2>2. CASE s = "S"
    <3>1. conn[c].peer \in Pub
      BY <2>1, <2>2 DEF PubInv
    <3>2. r = "S"
      BY <2>1, <3>1, TunnelAssumption DEF LocInv, TunnelAssumption, Side
    <3> QED BY <2>1, <2>2, <3>1, <3>2 DEF PubInv, PubOn
  <2>3. CASE s = "C"
    <3>1. conn[c].peer \in Loc
      BY <2>1, <2>3 DEF LocInv
    <3>2. r = "C"
      BY <2>1, <3>1, TunnelAssumption DEF PubInv, TunnelAssumption, Side
    <3> QED BY <2>1, <2>3, <3>1, <3>2 DEF LocInv, LocOn
  <2> QED BY <2>2, <2>3 DEF Side
<1> QED BY <1>1, BindingCorrect, PTL

\* Every parked public connection has exactly one request for a proxy connection,
\* or one meta message, on its way.
THEOREM ParkedCounted == Spec => []ClaimFindsPublic
<1>1. BindingInv => ClaimFindsPublic
  BY DEF BindingInv
<1> QED BY <1>1, BindingCorrect, PTL

\* A worker about to call claimProxyConn: it reads a meta message.
ClaimNotEmpty ==
  \A p \in Proxy : InCtlMode(<<"S", p>>, "ProxyMetaSet") => undeal_public_fds # << >>

\* getAndPopUndealPublicFd is never called on an empty vector: when a worker of the
\* server reads a meta message, some public connection is still parked.
THEOREM ClaimNeverEmpty == Spec => []ClaimNotEmpty
<1>1. TypeOK /\ BindingInv => ClaimNotEmpty
  <2> SUFFICES ASSUME TypeOK, KnownInv, ClaimFindsPublic, NEW p \in Proxy,
                      InCtlMode(<<"S", p>>, "ProxyMetaSet")
               PROVE  undeal_public_fds # << >>
    BY DEF BindingInv, ClaimNotEmpty
  <2>1. <<"S", p>> \in Conn /\ net[<<"S", p>>] # << >> /\ Head(net[<<"S", p>>]).type = "ProxyMetaSet"
    BY Threads DEF InCtlMode, Side
  <2>2. Head(net[<<"S", p>>]) \in Range(net[<<"S", p>>]) /\ Head(net[<<"S", p>>]) = MetaSet
    BY <2>1, NetRanges, Kinds
  <2>3. p \in Announced /\ IsFiniteSet(Announced) /\ Cardinality(Announced) \in Nat
    BY <2>2, AnnouncedFinite DEF Announced
  <2>4. Cardinality(Announced) # 0
    BY <2>3, FS_EmptySet
  <2>5. Requests \in Nat
    <3>1. ctl["C"] \in Seq(CtlMsg)
      BY DEF TypeOK, Side
    <3> QED BY <3>1, PositionsFinite DEF Requests
  <2>6. Len(undeal_public_fds) # 0
    BY <2>3, <2>4, <2>5, ClaimCounts
  <2> QED BY <2>6
<1> QED BY <1>1, BindingCorrect, PTL
============================================================================

---------------------------- MODULE Registration -----------------------------
(***************************************************************************)
(* How clients register with the server and how proxy connections find     *)
(* their way to the tunnel they were made for: client/Client (start and    *)
(* the registration handlers), server/Server (control_map_, unclaimed      *)
(* connections, claimProxyConn), server/Control and the lists of           *)
(* server/Tunnel, with several clients, any of which may be lost.          *)
(*                                                                         *)
(* A Control and its Tunnel are named by the client they serve (a client   *)
(* registers one tunnel).  A session is only begun and ended here; what    *)
(* happens in between is module ProxyTunnel.  Threads of the server: main  *)
(* (controls, acceptors), the listener (public connections) and workers    *)
(* (claims, answers).  A connect that fails is dereferenced as a null      *)
(* pointer, so it is a client that is lost in the middle of a handler.     *)
(*                                                                         *)
(* The field wait of a proxy connection says whether the listener is about *)
(* to put it, or has put it, into wait_for_start_proxy_conn_map_.          *)
(***************************************************************************)
EXTENDS Integers, FiniteSets, Sequences, SequencesExt

CONSTANTS
  Client,   \* the client processes
  Pub,      \* the public connections
  Proxy,    \* the proxy connections clients may open
  CtlId,    \* the ids rand_str draws for controls
  TunId,    \* ... and for tunnels
  None,     \* no id, no object, a null pointer
  Losable,  \* clients whose process may end at any time
  Early,    \* clients to whose port somebody connects before the client knows it
  Racy      \* clients whose entry a lookup may miss while another is inserted

ASSUME RegistrationAssumption ==
  /\ None \notin Client \cup Pub \cup Proxy \cup CtlId \cup TunId
  /\ Losable \subseteq Client /\ Early \subseteq Client /\ Racy \subseteq Client

VARIABLES
  client,       \* Client: state of the process, client_id_, its tunnel's id
  control,      \* Control: ctl_id_ and the id of its tunnel
  control_map,  \* Server::control_map_
  toServer, toClient,  \* the control connections
  announcing,   \* the Control whose handleNewTunnelReq the main thread is in
  undeal_public_fds, free_proxy_conns,   \* the lists of each Tunnel
  via,          \* the Control whose tunnel a public connection came in by
  proxy,        \* the proxy connections, as the server sees them
  down          \* the server has crashed

serverVars == <<control, control_map, announcing>>
listVars == <<undeal_public_fds, free_proxy_conns, via>>
vars == <<client, toServer, toClient, serverVars, listVars, proxy, down>>

----------------------------------------------------------------------------
NewCtlReq    == [type |-> "NewCtlReq", id |-> None]
NewCtlRsp(i) == [type |-> "NewCtlRsp", id |-> i]
NewTunnelReq == [type |-> "NewTunnelReq", id |-> None]
\* Mutated form: the answer is sent under the type of another.
TunnelRspAsCtlRsp(t) == NewCtlRsp(t)
NewTunnelRsp(t) == [type |-> "NewTunnelRsp", id |-> t]
NeedProxy(t) == [type |-> "NotifyClientNeedProxy", id |-> t]

NoProxy == [st |-> "none", owner |-> None, ctl_id |-> None, tun_id |-> None,
            tun |-> None, pub |-> None, closed |-> FALSE, wait |-> "no"]

Up(k) == client[k].st = "up"

\* The next message of a sequence of them is of type m.
Next1(q, m) == q # << >> /\ Head(q).type = m

\* Nobody reads what is sent to a lost client.
Tell(k, m) ==
  toClient' = IF Up(k) THEN [toClient EXCEPT ![k] = Append(@, m)] ELSE toClient

\* What becomes of a proxy connection once a Tunnel has claimed it
Claimed == {"starting", "answered", "dropped", "bound", "free"}

MainIdle == ~down /\ announcing = None

\* New connections are taken in a fixed order: one name is as good as another.
NextPub == CHOOSE x \in Pub : via[x] = None
NextProxy == CHOOSE p \in Proxy : proxy[p].st = "none"

----------------------------------------------------------------------------
Init ==
  /\ client = [k \in Client |-> [st |-> "off", id |-> None, tun |-> None]]
  /\ control = [k \in Client |-> [id |-> None, tun |-> None]]
  /\ control_map = [i \in CtlId |-> None]
  /\ toServer = [k \in Client |-> << >>]
  /\ toClient = [k \in Client |-> << >>]
  /\ announcing = None
  /\ undeal_public_fds = [k \in Client |-> << >>]
  /\ free_proxy_conns = [k \in Client |-> << >>]
  /\ via = [x \in Pub |-> None]
  /\ proxy = [p \in Proxy |-> NoProxy]
  /\ down = FALSE

----------------------------------------------------------------------------
(***************************************************************************)
(* Registration of a client and of its tunnel                              *)
(***************************************************************************)

\* Client::start: initCtlConn and reqNewCtl
Start(k) ==
  /\ client[k].st = "off"
  /\ ~down
  /\ client' = [client EXCEPT ![k].st = "up"]
  /\ toServer' = [toServer EXCEPT ![k] = <<NewCtlReq>>]
  /\ UNCHANGED <<toClient, serverVars, listVars, proxy, down>>

\* Mutated form: the id is not looked up.
AnyId(i) == TRUE

\* newCtlConnHandler draws ids until one is not in the map.
UnusedId(i) == control_map[i] = None

\* The id of a control that was taken out of the map.  That rand_str draws one
\* of these again is left out: it would take two equal words of 36^5.
Retired(i) == \E k \in Client : control[k].id = i /\ control_map[i] # k

\* Server::newCtlConnHandler; emplace leaves an entry that is there.
NewCtlConn(k, i) ==
  /\ MainIdle
  /\ client[k].st # "off" /\ control[k].id = None
  /\ UnusedId(i)
  /\ ~Retired(i)
  /\ control' = [control EXCEPT ![k].id = i]
  /\ control_map' = [control_map EXCEPT ![i] = IF @ = None THEN k ELSE @]
  /\ UNCHANGED <<client, toServer, toClient, announcing, listVars, proxy, down>>

\* Control::handleNewCtlReq
HandleNewCtlReq(k) ==
  /\ MainIdle /\ control[k].id # None
  /\ Next1(toServer[k], "NewCtlReq")
  /\ toServer' = [toServer EXCEPT ![k] = Tail(@)]
  /\ Tell(k, NewCtlRsp(control[k].id))
  /\ UNCHANGED <<client, serverVars, listVars, proxy, down>>

\* Mutated form: nothing is asked.
NoTunnelReq(k) == toServer

\* What Client::reqNewTunnel leaves to be read by the server
ReqNewTunnel(k) == [toServer EXCEPT ![k] = Append(@, NewTunnelReq)]

\* Client::handleNewCtlRsp
HandleNewCtlRsp(k) ==
  /\ Up(k)
  /\ Next1(toClient[k], "NewCtlRsp")
  /\ client' = [client EXCEPT ![k].id = Head(toClient[k]).id]
  /\ toClient' = [toClient EXCEPT ![k] = Tail(@)]
  /\ toServer' = ReqNewTunnel(k)
  /\ UNCHANGED <<serverVars, listVars, proxy, down>>

\* Control::handleNewTunnelReq: from Tunnel's constructor on, the tunnel listens;
HandleNewTunnelReq(k, t) ==
  /\ MainIdle /\ control[k].id # None
  /\ Next1(toServer[k], "NewTunnelReq")
  /\ toServer' = [toServer EXCEPT ![k] = Tail(@)]
  /\ control' = [control EXCEPT ![k].tun = t]
  /\ announcing' = k
  /\ UNCHANGED <<client, toClient, control_map, listVars, proxy, down>>

\* then it is put into tunnel_map_ and the client is told of it.
AnnounceTunnel(k) ==
  /\ ~down
  /\ announcing = k
  /\ announcing' = None
  /\ Tell(k, NewTunnelRsp(control[k].tun))
  /\ UNCHANGED <<client, toServer, control, control_map, listVars, proxy, down>>

\* Client::handleNewTunnelRsp
HandleNewTunnelRsp(k) ==
  /\ Up(k)
  /\ Next1(toClient[k], "NewTunnelRsp")
  /\ client' = [client EXCEPT ![k].tun = Head(toClient[k]).id]
  /\ toClient' = [toClient EXCEPT ![k] = Tail(@)]
  /\ UNCHANGED <<toServer, serverVars, listVars, proxy, down>>

----------------------------------------------------------------------------
(***************************************************************************)
(* Public connections: Tunnel::newPublicConnHandler in the listener        *)
(***************************************************************************)

\* The listener is not inside newPublicConnHandler.
ListenerIdle == ~down /\ \A p \in Proxy : proxy[p].wait # "adding"

\* x connects to the port of k's tunnel, also when k is gone: Control and Tunnel
\* refer to each other and stay.
Connects(x, k) ==
  /\ ListenerIdle
  /\ via[x] = None /\ x = NextPub
  /\ control[k].tun # None
  /\ client[k].tun # None \/ k \in Early
  /\ via' = [via EXCEPT ![x] = k]

\* Control::notifyClientNeedProxy, for a connection that is parked
NewPublicConn(x, k) ==
  /\ Connects(x, k)
  /\ free_proxy_conns[k] = << >>
  /\ undeal_public_fds' = [undeal_public_fds EXCEPT ![k] = Append(@, x)]
  /\ Tell(k, NeedProxy(control[k].tun))
  /\ UNCHANGED <<client, toServer, serverVars, free_proxy_conns, proxy, down>>

\* popFreeProxyConn and reqStartProxy; a null pointer in the list is dereferenced.
\* Only then does the listener note that p is to be started.
NewPublicConnOnFree(x, k) ==
  /\ Connects(x, k)
  /\ free_proxy_conns[k] # << >>
  /\ free_proxy_conns' = [free_proxy_conns EXCEPT ![k] = Front(@)]
  /\ LET p == Last(free_proxy_conns[k])
     IN IF p = None
        THEN down' = TRUE /\ UNCHANGED proxy
        ELSE /\ proxy' = [proxy EXCEPT ![p] = [@ EXCEPT !.st = "starting", !.pub = x,
                                                       !.wait = "adding"]]
             /\ UNCHANGED down
  /\ UNCHANGED <<client, toServer, toClient, serverVars, undeal_public_fds>>

\* wait_for_start_proxy_conn_map_.add
AddWait(p) ==
  /\ ~down
  /\ proxy[p].wait = "adding"
  /\ proxy' = [proxy EXCEPT ![p].wait = "yes"]
  /\ UNCHANGED <<client, toServer, toClient, serverVars, listVars, down>>

----------------------------------------------------------------------------
(***************************************************************************)
(* Proxy connections                                                       *)
(***************************************************************************)

\* Client::handleProxyNotify: an unknown tunnel is logged; else the client
\* connects to the proxy port, writes the meta message and starts the connection.
HandleProxyNotify(k, p) ==
  /\ Up(k)
  /\ Next1(toClient[k], "NotifyClientNeedProxy")
  /\ proxy[p].st = "none" /\ p = NextProxy
  /\ toClient' = [toClient EXCEPT ![k] = Tail(@)]
  /\ proxy' = IF client[k].tun = Head(toClient[k]).id
              THEN [proxy EXCEPT ![p] =
                      [NoProxy EXCEPT !.st = "connected", !.owner = k,
                                      !.ctl_id = client[k].id, !.tun_id = client[k].tun]]
              ELSE proxy
  /\ UNCHANGED <<client, toServer, serverVars, listVars, down>>

\* Server::newProxyConnHandler: into an UnclaimedProxyMap, then to a worker
NewProxyConn(p) ==
  /\ MainIdle
  /\ proxy[p].st = "connected"
  /\ proxy' = [proxy EXCEPT ![p].st = "unclaimed"]
  /\ UNCHANGED <<client, toServer, toClient, serverVars, listVars, down>>

\* control_map_ has no lock: an insertion of the main thread that is under way
\* may hide the entry of i from a worker.
Hidden(i) ==
  /\ \E k \in Client : client[k].st # "off" /\ control[k].id = None
  /\ control_map[i] \in Racy

\* What a worker may see under i, in find and again in operator[]
Lookup(i) == {control_map[i]} \cup {n \in {None} : Hidden(i)}

\* Server::claimProxyConn: the worker looks for the control; without one the
\* connection stays unclaimed for ever.
FindControl(p, k) ==
  /\ ~down
  /\ proxy[p].st = "unclaimed"
  /\ k \in Lookup(proxy[p].ctl_id)
  /\ proxy' = [proxy EXCEPT ![p].st = IF k = None THEN "stray" ELSE "found"]
  /\ UNCHANGED <<client, toServer, toClient, serverVars, listVars, down>>

\* Mutated form: the list after reading the public fd without taking it out.
ReadKeepsUndeal(k) == undeal_public_fds[k]

\* Mutated form: the list is emptied.
ClearUndeal(k) == << >>

\* The list after Tunnel::getAndPopUndealPublicFd
PopUndeal(k) == Front(undeal_public_fds[k])

\* The worker reads the map again.  Under an id that was erased in between, or
\* that it does not see this time, operator[] makes a null pointer, which is
\* dereferenced.
ClaimNull(p) ==
  /\ ~down
  /\ proxy[p].st = "found"
  /\ None \in Lookup(proxy[p].ctl_id)
  /\ down' = TRUE
  /\ UNCHANGED <<client, toServer, toClient, serverVars, listVars, proxy>>

\* tunnel_map_ has the tunnel from upsertTunnel on; without it the connection
\* stays unclaimed.  Tunnel::claimProxyConn pops without looking whether the list
\* is empty, which would corrupt it.
ClaimProxyConn(p) ==
  LET k == control_map[proxy[p].ctl_id]
      undeal == undeal_public_fds[k]
  IN /\ ~down
     /\ proxy[p].st = "found"
     /\ k # None
     /\ IF control[k].tun = proxy[p].tun_id /\ announcing # k
        THEN /\ proxy' = [proxy EXCEPT ![p] = [@ EXCEPT !.st = "bound", !.tun = k,
                            !.pub = IF undeal = << >> THEN None ELSE Last(undeal)]]
             /\ undeal_public_fds' = [undeal_public_fds EXCEPT ![k] = PopUndeal(k)]
             /\ down' = (undeal = << >>)
        ELSE /\ proxy' = [proxy EXCEPT ![p].st = "stray"]
             /\ UNCHANGED <<undeal_public_fds, down>>
     /\ UNCHANGED <<client, toServer, toClient, serverVars, free_proxy_conns, via>>

\* handleStartProxyConnReq on the client: answers, unless p is in data mode there.
\* It may still be (is_start): when both ends of the session before closed at once,
\* the server has freed p without waiting for the client to reset it.
HandleStartProxyConnReq(p, is_start) ==
  /\ ~down
  /\ proxy[p].st = "starting" /\ ~proxy[p].closed
  /\ Up(proxy[p].owner)
  /\ proxy' = [proxy EXCEPT ![p].st = IF is_start THEN "dropped" ELSE "answered"]
  /\ UNCHANGED <<client, toServer, toClient, serverVars, listVars, down>>

\* Tunnel::handleStartProxyConnRsp: an answer that comes before the listener has
\* noted p is dropped.
HandleStartProxyConnRsp(p) ==
  /\ ~down
  /\ proxy[p].st = "answered" /\ ~proxy[p].closed
  /\ proxy' = [proxy EXCEPT ![p] = IF proxy[p].wait = "yes"
                                   THEN [@ EXCEPT !.st = "bound", !.wait = "no"]
                                   ELSE [@ EXCEPT !.st = "dropped"]]
  /\ UNCHANGED <<client, toServer, toClient, serverVars, listVars, down>>

\* A session ends: Tunnel::freeProxyConn, which knows open connections only.
FreeProxyConn(p) ==
  /\ ~down
  /\ proxy[p].st = "bound" /\ ~proxy[p].closed
  /\ proxy' = [proxy EXCEPT ![p] = [@ EXCEPT !.st = "free", !.pub = None]]
  /\ free_proxy_conns' = [free_proxy_conns EXCEPT ![proxy[p].tun] = Append(@, p)]
  /\ UNCHANGED <<client, toServer, toClient, serverVars, undeal_public_fds, via, down>>

----------------------------------------------------------------------------
(***************************************************************************)
(* Loss of a client, and of the server                                     *)
(***************************************************************************)
LoseClient(k) ==
  /\ k \in Losable /\ Up(k)
  /\ client' = [client EXCEPT ![k].st = "lost"]
  /\ toClient' = [toClient EXCEPT ![k] = << >>]
  /\ UNCHANGED <<toServer, serverVars, listVars, proxy, down>>

\* Client::handleCtlConnClose aborts.
ClientAborts(k) ==
  /\ down
  /\ Up(k)
  /\ client' = [client EXCEPT ![k].st = "lost"]
  /\ UNCHANGED <<toServer, toClient, serverVars, listVars, proxy, down>>

\* Mutated form: every entry is erased.
EraseAll(k) == [i \in CtlId |-> None]

\* control_map_.erase(ctl_id_)
Erased(k) == [control_map EXCEPT ![control[k].id] = None]

\* Control::handleCtlConnClose, once all messages of the client were read; it is
\* called again for each event that is reported for the closed connection.
HandleCtlConnClose(k) ==
  /\ MainIdle /\ control[k].id # None
  /\ client[k].st = "lost" /\ toServer[k] = << >>
  /\ control_map' = Erased(k)
  /\ UNCHANGED <<client, toServer, toClient, control, announcing, listVars, proxy, down>>

\* std::remove without erase: what follows p in list q moves up by one place, and
\* the last slot, if it was moved from, is a null pointer.  p is there once at most.
Removed(q, p) ==
  LET at == CHOOSE j \in DOMAIN q : q[j] = p
      n == Len(q)
  IN IF \A j \in DOMAIN q : q[j] # p
     THEN q
     ELSE [j \in DOMAIN q |-> IF j < at THEN q[j]
                              ELSE IF j < n THEN q[j + 1]
                              ELSE IF at = n THEN p ELSE None]

\* Tunnel::handlePeerProxyConnClose, for a connection of a lost client
HandlePeerProxyConnClose(p) ==
  LET k == proxy[p].tun
  IN /\ ~down
     /\ proxy[p].st \in Claimed /\ ~proxy[p].closed
     /\ client[proxy[p].owner].st = "lost"
     /\ proxy' = [proxy EXCEPT ![p].closed = TRUE]
     /\ free_proxy_conns' = [free_proxy_conns EXCEPT ![k] = Removed(@, p)]
     /\ UNCHANGED <<client, toServer, toClient, serverVars, undeal_public_fds, via, down>>

----------------------------------------------------------------------------
\* A step of k's registration, on either side
Register(k) ==
  \/ \E i \in CtlId : NewCtlConn(k, i)
  \/ HandleNewCtlReq(k) \/ HandleNewCtlRsp(k)
  \/ \E t \in TunId : HandleNewTunnelReq(k, t)
  \/ AnnounceTunnel(k) \/ HandleNewTunnelRsp(k)

\* A step towards binding p
Bind(p) ==
  \/ NewProxyConn(p)
  \/ \E k \in Client \cup {None} : FindControl(p, k)
  \/ ClaimNull(p) \/ ClaimProxyConn(p)
  \/ AddWait(p) \/ HandleStartProxyConnRsp(p)
  \/ \E is_start \in BOOLEAN : HandleStartProxyConnReq(p, is_start)

Notified(k) == \E p \in Proxy : HandleProxyNotify(k, p)

Next ==
  \/ \E k \in Client : Start(k) \/ Register(k) \/ Notified(k)
  \/ \E x \in Pub, k \in Client : NewPublicConn(x, k) \/ NewPublicConnOnFree(x, k)
  \/ \E p \in Proxy : Bind(p) \/ FreeProxyConn(p) \/ HandlePeerProxyConnClose(p)
  \/ \E k \in Client : LoseClient(k) \/ ClientAborts(k) \/ HandleCtlConnClose(k)

Spec == Init /\ [][Next]_vars

\* The threads of both programs serve what arrives.  No client has to start or
\* to end, nobody has to connect, and no session has to finish.
FairSpec ==
  /\ Spec
  /\ \A k \in Client : /\ WF_vars(Register(k)) /\ WF_vars(Notified(k))
                      /\ WF_vars(ClientAborts(k))
  /\ \A p \in Proxy : WF_vars(Bind(p))

----------------------------------------------------------------------------
(***************************************************************************)
(* Properties                                                              *)
(***************************************************************************)
CtlMsg ==
  {NewCtlReq, NewTunnelReq} \cup {NewCtlRsp(i) : i \in CtlId}
    \cup {NewTunnelRsp(t) : t \in TunId} \cup {NeedProxy(t) : t \in TunId}

ProxyState ==
  [st : {"none", "connected", "unclaimed", "found", "stray"} \cup Claimed,
   owner : Client \cup {None}, ctl_id : CtlId \cup {None}, tun_id : TunId \cup {None},
   tun : Client \cup {None}, pub : Pub \cup {None}, closed : BOOLEAN,
   wait : {"no", "adding", "yes"}]

TypeOK ==
  /\ client \in [Client -> [st : {"off", "up", "lost"}, id : CtlId \cup {None},
                            tun : TunId \cup {None}]]
  /\ control \in [Client -> [id : CtlId \cup {None}, tun : TunId \cup {None}]]
  /\ control_map \in [CtlId -> Client \cup {None}]
  /\ toServer \in [Client -> Seq(CtlMsg)] /\ toClient \in [Client -> Seq(CtlMsg)]
  /\ announcing \in Client \cup {None}
  /\ undeal_public_fds \in [Client -> Seq(Pub)]
  /\ free_proxy_conns \in [Client -> Seq(Proxy \cup {None})]
  /\ via \in [Pub -> Client \cup {None}]
  /\ proxy \in [Proxy -> ProxyState]
  /\ down \in BOOLEAN

\* A public connection is only ever given to a proxy connection of the client
\* whose port it came in by, whatever other clients register or are lost.
OwnTunnel ==
  \A p \in Proxy : proxy[p].pub # None => proxy[p].owner = via[proxy[p].pub]

\* claimProxyConn finds a parked connection for every proxy connection that is
\* on its way, and as long as a client is there, every parked connection has a
\* request or a proxy connection under way.
ParkedAreAwaited ==
  \A k \in Client :
    LET coming == Cardinality({p \in Proxy : proxy[p].owner = k
                    /\ proxy[p].st \in {"connected", "unclaimed", "found"}})
        asked == Cardinality({j \in DOMAIN toClient[k] :
                    toClient[k][j].type = "NotifyClientNeedProxy"})
    IN /\ Len(undeal_public_fds[k]) >= coming + asked
       /\ Up(k) /\ k \notin Early \cup Racy => Len(undeal_public_fds[k]) = coming + asked

\* The server can only be brought down by the loss of a client, or by a worker that
\* found its control and does not see it again because another is being inserted.
DownByLossOrRace ==
  down => \/ \E k \in Client : client[k].st = "lost"
          \/ \E p \in Proxy : proxy[p].st = "found" /\ Hidden(proxy[p].ctl_id)

\* A client that starts and is not lost gets its tunnel.
Registers ==
  \A k \in Client : Up(k) ~> client[k].tun # None \/ client[k].st = "lost"

\* A proxy connection of k's tunnel has x, in one of the states.
Carried(x, k, states) ==
  \E p \in Proxy : proxy[p].tun = k /\ proxy[p].pub = x /\ proxy[p].st \in states

\* x was accepted and no session has it yet: it is parked, or a connection from the
\* free list was given it.
Waiting(x, k) ==
  \/ \E j \in DOMAIN undeal_public_fds[k] : undeal_public_fds[k][j] = x
  \/ Carried(x, k, {"starting", "answered"})

\* A public connection that was accepted, and parked or given to a free connection,
\* is bound, unless the client of its tunnel is lost or the server is down, while
\* other clients register and are lost.  The code forgets one that it gave to a
\* free connection if the answer overtakes the listener or the client's side is
\* still in data mode: then the connection that has it is dropped.
Served ==
  \A x \in Pub, k \in Client \ (Early \cup Racy) :
    Waiting(x, k) ~> down \/ ~Up(k) \/ Carried(x, k, {"bound", "dropped"})
============================================================================

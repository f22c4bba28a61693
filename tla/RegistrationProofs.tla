------------------------- MODULE RegistrationProofs -------------------------
(***************************************************************************)
(* Proofs about Registration, for any sets of clients, public and proxy    *)
(* connections, whichever clients are lost and whatever races there are.   *)
(***************************************************************************)
EXTENDS Registration, SequenceTheorems, Counting, TLAPS

----------------------------------------------------------------------------
(***************************************************************************)
(* Sequences and what is in them                                           *)
(***************************************************************************)
LEMMA AppendFacts ==
  ASSUME NEW S, NEW q \in Seq(S), NEW m \in S
  PROVE  Append(q, m) \in Seq(S) /\ Range(Append(q, m)) \subseteq Range(q) \cup {m}
  BY DEF Range

LEMMA TailFacts ==
  ASSUME NEW S, NEW q \in Seq(S), q # << >>
  PROVE  /\ Tail(q) \in Seq(S) /\ Range(Tail(q)) \subseteq Range(q)
         /\ Head(q) \in Range(q) /\ Head(q) \in S
  BY DEF Range

LEMMA FrontFacts ==
  ASSUME NEW S, NEW q \in Seq(S)
  PROVE  /\ Front(q) \in Seq(S) /\ Range(Front(q)) \subseteq Range(q)
         /\ q # << >> => Last(q) \in Range(q) /\ Last(q) \in S
  BY DEF Range, Front, Last

\* std::remove leaves what was in the list, or null pointers.
LEMMA RemovedFacts ==
  ASSUME NEW q \in Seq(Proxy \cup {None}), NEW p \in Proxy
  PROVE  /\ Removed(q, p) \in Seq(Proxy \cup {None})
         /\ Range(Removed(q, p)) \subseteq Range(q) \cup {None}
<1>1. CASE \A j \in DOMAIN q : q[j] # p
  BY <1>1 DEF Removed, Range
<1>2. CASE \E j \in DOMAIN q : q[j] = p
  <2> DEFINE at == CHOOSE j \in DOMAIN q : q[j] = p
             f == [j \in DOMAIN q |-> IF j < at THEN q[j]
                                      ELSE IF j < Len(q) THEN q[j + 1]
                                      ELSE IF at = Len(q) THEN p ELSE None]
  <2>1. Removed(q, p) = f
    BY <1>2 DEF Removed
  <2>2. at \in DOMAIN q /\ q[at] = p
    BY <1>2
  <2>3. ASSUME NEW j \in DOMAIN q PROVE f[j] \in Range(q) \cup {None}
    BY <2>2 DEF Range
  <2>4. Range(q) \subseteq Proxy \cup {None} /\ DOMAIN q = 1..Len(q) /\ Len(q) \in Nat
    BY DEF Range
  <2>5. f \in [1..Len(q) -> Proxy \cup {None}]
    BY <2>3, <2>4
  <2>6. f \in Seq(Proxy \cup {None})
    BY <2>4, <2>5
  <2>7. Range(f) \subseteq Range(q) \cup {None}
    BY <2>3 DEF Range
  <2> QED BY <2>1, <2>6, <2>7
<1> QED BY <1>1, <1>2
----------------------------------------------------------------------------
(***************************************************************************)
(* Types                                                                   *)
(***************************************************************************)
ClientType == [st : {"off", "up", "lost"}, id : CtlId \cup {None}, tun : TunId \cup {None}]
ControlType == [id : CtlId \cup {None}, tun : TunId \cup {None}]

LEMMA Messages ==
  /\ NewCtlReq \in CtlMsg /\ NewTunnelReq \in CtlMsg
  /\ \A i \in CtlId : NewCtlRsp(i) \in CtlMsg
  /\ \A t \in TunId : NewTunnelRsp(t) \in CtlMsg /\ NeedProxy(t) \in CtlMsg
  BY DEF CtlMsg

\* What the messages carry
LEMMA MessageIds ==
  ASSUME NEW m \in CtlMsg
  PROVE  /\ m.type = "NewCtlRsp" => m.id \in CtlId
         /\ m.type = "NewTunnelRsp" => m.id \in TunId
         /\ m.type = "NotifyClientNeedProxy" => m.id \in TunId
  BY DEF CtlMsg, NewCtlReq, NewTunnelReq, NewCtlRsp, NewTunnelRsp, NeedProxy

LEMMA TellFacts ==
  ASSUME TypeOK, NEW k \in Client, NEW m \in CtlMsg, Tell(k, m)
  PROVE  /\ toClient' \in [Client -> Seq(CtlMsg)]
         /\ \A j \in Client : j # k => toClient'[j] = toClient[j]
         /\ Range(toClient'[k]) \subseteq Range(toClient[k]) \cup {m}
<1>1. toClient \in [Client -> Seq(CtlMsg)] /\ toClient[k] \in Seq(CtlMsg)
  BY DEF TypeOK
<1>2. CASE toClient' = toClient
  BY <1>1, <1>2
<1>3. /\ Append(toClient[k], m) \in Seq(CtlMsg)
      /\ Range(Append(toClient[k], m)) \subseteq Range(toClient[k]) \cup {m}
  BY <1>1, AppendFacts
<1>4. CASE toClient' = [toClient EXCEPT ![k] = Append(toClient[k], m)]
  <2>1. toClient'[k] = Append(toClient[k], m)
    BY <1>1, <1>4
  <2>2. toClient' \in [Client -> Seq(CtlMsg)]
    BY <1>1, <1>3, <1>4
  <2>3. \A j \in Client : j # k => toClient'[j] = toClient[j]
    BY <1>1, <1>4
  <2> QED BY <1>3, <2>1, <2>2, <2>3
<1> QED BY <1>2, <1>4 DEF Tell

LEMMA ReadFacts ==
  ASSUME NEW f \in [Client -> Seq(CtlMsg)], NEW k \in Client, f[k] # << >>
  PROVE  /\ [f EXCEPT ![k] = Tail(@)] \in [Client -> Seq(CtlMsg)]
         /\ \A j \in Client : Range([f EXCEPT ![k] = Tail(@)][j]) \subseteq Range(f[j])
         /\ Head(f[k]) \in Range(f[k]) /\ Head(f[k]) \in CtlMsg
<1>1. f[k] \in Seq(CtlMsg)
  OBVIOUS
<1>2. /\ Tail(f[k]) \in Seq(CtlMsg) /\ Range(Tail(f[k])) \subseteq Range(f[k])
      /\ Head(f[k]) \in Range(f[k]) /\ Head(f[k]) \in CtlMsg
  BY <1>1, TailFacts
<1> QED BY <1>2

LEMMA TypeInit == Init => TypeOK
<1> SUFFICES ASSUME Init PROVE TypeOK
  OBVIOUS
<1>1. client \in [Client -> ClientType] /\ control \in [Client -> ControlType]
  BY DEF Init, ClientType, ControlType
<1>2. proxy \in [Proxy -> ProxyState]
  BY DEF Init, NoProxy, ProxyState
<1>3. /\ control_map \in [CtlId -> Client \cup {None}] /\ via \in [Pub -> Client \cup {None}]
      /\ toServer \in [Client -> Seq(CtlMsg)] /\ toClient \in [Client -> Seq(CtlMsg)]
      /\ undeal_public_fds \in [Client -> Seq(Pub)]
      /\ free_proxy_conns \in [Client -> Seq(Proxy \cup {None})]
  BY DEF Init
<1>4. announcing \in Client \cup {None} /\ down \in BOOLEAN
  BY Zenon DEF Init
<1> QED BY <1>1, <1>2, <1>3, <1>4 DEF TypeOK, ClientType, ControlType

LEMMA Grouped ==
  TypeOK => client \in [Client -> ClientType] /\ control \in [Client -> ControlType]
  BY DEF TypeOK, ClientType, ControlType

LEMMA TypeStart ==
  ASSUME TypeOK, NEW k \in Client, Start(k)
  PROVE  TypeOK'
<1>1. client' \in [Client -> ClientType]
  BY Grouped DEF Start, ClientType
<1>2. toServer' \in [Client -> Seq(CtlMsg)]
  BY Messages DEF Start, TypeOK
<1> QED BY <1>1, <1>2 DEF Start, TypeOK, serverVars, listVars, ClientType

LEMMA TypeNewCtlConn ==
  ASSUME TypeOK, NEW k \in Client, NEW i \in CtlId, NewCtlConn(k, i)
  PROVE  TypeOK'
<1>1. control' \in [Client -> ControlType]
  BY Grouped DEF NewCtlConn, ControlType
<1>2. control_map' \in [CtlId -> Client \cup {None}]
  BY DEF NewCtlConn, TypeOK
<1> QED BY <1>1, <1>2 DEF NewCtlConn, TypeOK, serverVars, listVars, ControlType

LEMMA TypeHandleNewCtlReq ==
  ASSUME TypeOK, NEW k \in Client, HandleNewCtlReq(k)
  PROVE  TypeOK'
<1>1. toServer' \in [Client -> Seq(CtlMsg)]
  BY ReadFacts DEF HandleNewCtlReq, Next1, TypeOK
<1>2. control[k].id \in CtlId
  BY DEF HandleNewCtlReq, TypeOK
<1>3. toClient' \in [Client -> Seq(CtlMsg)]
  BY <1>2, TellFacts, Messages DEF HandleNewCtlReq
<1> QED BY <1>1, <1>3 DEF HandleNewCtlReq, TypeOK, serverVars, listVars

LEMMA TypeHandleNewCtlRsp ==
  ASSUME TypeOK, NEW k \in Client, HandleNewCtlRsp(k)
  PROVE  TypeOK'
<1>1. toClient' \in [Client -> Seq(CtlMsg)] /\ Head(toClient[k]).id \in CtlId
  BY ReadFacts, MessageIds DEF HandleNewCtlRsp, Next1, TypeOK
<1>2. toServer' \in [Client -> Seq(CtlMsg)]
  BY Messages, AppendFacts DEF HandleNewCtlRsp, ReqNewTunnel, TypeOK
<1>3. client' \in [Client -> ClientType]
  BY <1>1, Grouped DEF HandleNewCtlRsp, ClientType
<1> QED BY <1>1, <1>2, <1>3 DEF HandleNewCtlRsp, TypeOK, serverVars, listVars, ClientType

LEMMA TypeHandleNewTunnelReq ==
  ASSUME TypeOK, NEW k \in Client, NEW t \in TunId, HandleNewTunnelReq(k, t)
  PROVE  TypeOK'
<1>1. toServer' \in [Client -> Seq(CtlMsg)]
  BY ReadFacts DEF HandleNewTunnelReq, Next1, TypeOK
<1>2. control' \in [Client -> ControlType]
  BY Grouped DEF HandleNewTunnelReq, ControlType
<1> QED BY <1>1, <1>2 DEF HandleNewTunnelReq, TypeOK, listVars, ControlType

LEMMA TypeHandleNewTunnelRsp ==
  ASSUME TypeOK, NEW k \in Client, HandleNewTunnelRsp(k)
  PROVE  TypeOK'
<1>1. toClient' \in [Client -> Seq(CtlMsg)] /\ Head(toClient[k]).id \in TunId
  BY ReadFacts, MessageIds DEF HandleNewTunnelRsp, Next1, TypeOK
<1>2. client' \in [Client -> ClientType]
  BY <1>1, Grouped DEF HandleNewTunnelRsp, ClientType
<1> QED BY <1>1, <1>2 DEF HandleNewTunnelRsp, TypeOK, serverVars, listVars, ClientType
----------------------------------------------------------------------------
(***************************************************************************)
(* The inductive invariant                                                 *)
(***************************************************************************)

\* control_map_ leads to the control whose id it is asked for, and no two controls
\* have one id.
MapInv ==
  /\ \A i \in CtlId : control_map[i] # None => control[control_map[i]].id = i
  /\ \A j, k \in Client : control[j].id = control[k].id /\ control[j].id # None => j = k

\* A client knows no other id than that of its control, which it knows before it
\* asks for a tunnel.
KnowInv ==
  /\ \A k \in Client : client[k].id # None => client[k].id = control[k].id
  /\ \A k \in Client : client[k].tun # None => client[k].id # None
  /\ \A k \in Client : \A m \in Range(toClient[k]) :
       /\ m.type = "NewCtlRsp" => m.id = control[k].id
       /\ m.type = "NewTunnelRsp" => client[k].id # None
  /\ \A k \in Client : \A m \in Range(toServer[k]) :
       m.type = "NewTunnelReq" => client[k].id # None
  /\ announcing # None =>
       client[announcing].id # None /\ control[announcing].tun # None

\* A proxy connection on its way names its owner's control, one that was bound
\* belongs to its owner's tunnel, and so does the public connection it is given.
\* The listener only notes what was claimed.
ProxyInv(p) ==
  /\ proxy[p].st \in {"connected", "unclaimed", "found"} =>
       /\ proxy[p].owner \in Client /\ proxy[p].ctl_id \in CtlId
       /\ proxy[p].ctl_id = control[proxy[p].owner].id
  /\ proxy[p].st \in Claimed =>
       proxy[p].owner \in Client /\ proxy[p].tun = proxy[p].owner
  /\ proxy[p].pub # None =>
       proxy[p].st \in Claimed \ {"free"} /\ proxy[p].owner = via[proxy[p].pub]
  /\ proxy[p].wait # "no" => proxy[p].st \in Claimed

\* The lists of a tunnel hold only what belongs to it.
ListInv(k) ==
  /\ \A x \in Range(undeal_public_fds[k]) : via[x] = k
  /\ \A p \in Range(free_proxy_conns[k]) : p # None =>
       proxy[p].st \in Claimed /\ proxy[p].owner = k

BindInv == (\A p \in Proxy : ProxyInv(p)) /\ (\A k \in Client : ListInv(k))

Inv == TypeOK /\ MapInv /\ KnowInv /\ BindInv

LEMMA InvInit == Init => Inv
<1> SUFFICES ASSUME Init PROVE MapInv /\ KnowInv /\ BindInv
  BY TypeInit DEF Inv
<1>1. MapInv
  BY DEF Init, MapInv
<1>2. KnowInv
  BY DEF Init, KnowInv, Range
<1>3. BindInv
  BY DEF Init, BindInv, ProxyInv, ListInv, Range, NoProxy, Claimed
<1> QED BY <1>1, <1>2, <1>3

\* Steps that leave the ids alone
LEMMA SameIds ==
  ASSUME TypeOK, MapInv, KnowInv,
         UNCHANGED <<control, control_map, announcing, toServer>>,
         \A k \in Client : client'[k].id = client[k].id /\ client'[k].tun = client[k].tun,
         \A k \in Client : Range(toClient'[k]) \subseteq Range(toClient[k])
  PROVE  MapInv' /\ KnowInv'
<1>1. MapInv'
  BY DEF MapInv
<1>2. KnowInv'
  BY DEF KnowInv, TypeOK
<1> QED BY <1>1, <1>2

\* Steps that leave proxy connections, public connections and lists alone and only
\* give ids to controls that have none
LEMMA SameBindings ==
  ASSUME TypeOK, BindInv, UNCHANGED <<proxy, listVars>>,
         \A k \in Client : control[k].id # None => control'[k].id = control[k].id
  PROVE  BindInv'
<1>1. ASSUME NEW p \in Proxy PROVE ProxyInv(p)'
  <2>1. ProxyInv(p)
    BY DEF BindInv
  <2> QED BY <2>1, RegistrationAssumption DEF ProxyInv, listVars
<1>2. ASSUME NEW k \in Client PROVE ListInv(k)'
  BY DEF BindInv, ListInv, listVars
<1> QED BY <1>1, <1>2 DEF BindInv
----------------------------------------------------------------------------
(***************************************************************************)
(* Each step of the registration keeps the invariant.                      *)
(***************************************************************************)
LEMMA InvStart ==
  ASSUME Inv, NEW k \in Client, Start(k)
  PROVE  Inv'
<1> USE DEF Inv
<1>1. TypeOK'
  BY TypeStart
<1>2. MapInv' /\ BindInv'
  BY SameBindings DEF Start, MapInv, serverVars, TypeOK
<1>3. \A j \in Client : client'[j].id = client[j].id /\ client'[j].tun = client[j].tun
  BY DEF Start, TypeOK
<1>4. \A j \in Client : \A m \in Range(toServer'[j]) :
        m.type = "NewTunnelReq" => m \in Range(toServer[j])
  BY DEF Start, TypeOK, Range, NewCtlReq
<1>5. KnowInv'
  BY <1>3, <1>4 DEF Start, KnowInv, serverVars, TypeOK
<1> QED BY <1>1, <1>2, <1>5

LEMMA InvNewCtlConn ==
  ASSUME Inv, NEW k \in Client, NEW i \in CtlId, NewCtlConn(k, i)
  PROVE  Inv'
<1> USE DEF Inv
<1>1. TypeOK'
  BY TypeNewCtlConn
<1>2. \A j \in Client : control[j].id # i
  BY RegistrationAssumption DEF NewCtlConn, UnusedId, Retired
<1>3. /\ control'[k].id = i /\ control'[k].tun = control[k].tun
      /\ \A j \in Client : j # k => control'[j] = control[j]
  BY DEF NewCtlConn, TypeOK
<1>4. /\ control_map'[i] = k
      /\ \A j \in CtlId : j # i => control_map'[j] = control_map[j]
  BY DEF NewCtlConn, UnusedId, TypeOK
<1>5. control[k].id = None
  BY DEF NewCtlConn
<1>6. MapInv'
  <2>1. ASSUME NEW j \in CtlId, control_map'[j] # None
        PROVE  control'[control_map'[j]].id = j
    <3>1. CASE j = i
      BY <1>3, <1>4, <3>1
    <3>2. CASE j # i
      <4>1. control_map[j] \in Client /\ control[control_map[j]].id = j
        BY <1>4, <2>1, <3>2 DEF MapInv, TypeOK
      <4>2. control_map[j] # k
        BY <1>5, <4>1, RegistrationAssumption
      <4> QED BY <1>3, <1>4, <3>2, <4>1, <4>2
    <3> QED BY <3>1, <3>2
  <2>2. \A a, b \in Client :
          control'[a].id = control'[b].id /\ control'[a].id # None => a = b
    BY <1>2, <1>3 DEF MapInv
  <2> QED BY <2>1, <2>2 DEF MapInv
<1>7. \A j \in Client : control[j].id # None => control'[j].id = control[j].id
  BY <1>3, <1>5
<1>8. BindInv'
  BY <1>7, SameBindings DEF NewCtlConn
<1>9. KnowInv'
  <2>1. ASSUME NEW j \in Client, NEW m \in Range(toClient[j]), m.type = "NewCtlRsp"
        PROVE  m.id = control'[j].id
    <3>1. m \in CtlMsg
      BY DEF TypeOK, Range
    <3>2. m.id \in CtlId /\ m.id = control[j].id
      BY <2>1, <3>1, MessageIds DEF KnowInv
    <3> QED BY <1>7, <3>2, RegistrationAssumption
  <2>2. \A j \in Client : control'[j].tun = control[j].tun
    BY <1>3
  <2>3. announcing = None
    BY DEF NewCtlConn, MainIdle
  <2> QED BY <1>7, <2>1, <2>2, <2>3 DEF NewCtlConn, KnowInv
<1> QED BY <1>1, <1>6, <1>8, <1>9

LEMMA InvHandleNewCtlReq ==
  ASSUME Inv, NEW k \in Client, HandleNewCtlReq(k)
  PROVE  Inv'
<1> USE DEF Inv
<1>1. TypeOK'
  BY TypeHandleNewCtlReq
<1>2. MapInv' /\ BindInv'
  BY SameBindings DEF HandleNewCtlReq, MapInv, serverVars
<1>3. \A j \in Client : Range(toServer'[j]) \subseteq Range(toServer[j])
  BY ReadFacts DEF HandleNewCtlReq, Next1, TypeOK
<1>4. NewCtlRsp(control[k].id) \in CtlMsg
  BY Messages DEF HandleNewCtlReq, TypeOK
<1>5. /\ \A j \in Client : j # k => toClient'[j] = toClient[j]
      /\ Range(toClient'[k]) \subseteq Range(toClient[k]) \cup {NewCtlRsp(control[k].id)}
  BY <1>4, TellFacts DEF HandleNewCtlReq
<1>6. KnowInv'
  BY <1>3, <1>5 DEF HandleNewCtlReq, KnowInv, serverVars, NewCtlRsp
<1> QED BY <1>1, <1>2, <1>6

LEMMA InvHandleNewCtlRsp ==
  ASSUME Inv, NEW k \in Client, HandleNewCtlRsp(k)
  PROVE  Inv'
<1> USE DEF Inv
<1>1. TypeOK'
  BY TypeHandleNewCtlRsp
<1>2. MapInv' /\ BindInv'
  BY SameBindings DEF HandleNewCtlRsp, MapInv, serverVars
<1>3. /\ \A j \in Client : Range(toClient'[j]) \subseteq Range(toClient[j])
      /\ Head(toClient[k]) \in Range(toClient[k]) /\ Head(toClient[k]).id \in CtlId
  BY ReadFacts, MessageIds DEF HandleNewCtlRsp, Next1, TypeOK
<1>4. Head(toClient[k]).id = control[k].id
  BY <1>3 DEF HandleNewCtlRsp, Next1, KnowInv
<1>5. /\ client'[k].id = control[k].id /\ client'[k].id # None
      /\ \A j \in Client : j # k => client'[j] = client[j]
  BY <1>3, <1>4, RegistrationAssumption DEF HandleNewCtlRsp, TypeOK
<1>6. \A j \in Client : client'[j].tun = client[j].tun
  BY DEF HandleNewCtlRsp, TypeOK
<1>7. \A j \in Client : j # k => toServer'[j] = toServer[j]
  BY DEF HandleNewCtlRsp, ReqNewTunnel, TypeOK
<1>8. KnowInv'
  BY <1>3, <1>5, <1>6, <1>7, SMTT(30) DEF HandleNewCtlRsp, KnowInv, serverVars
<1> QED BY <1>1, <1>2, <1>8

LEMMA InvHandleNewTunnelReq ==
  ASSUME Inv, NEW k \in Client, NEW t \in TunId, HandleNewTunnelReq(k, t)
  PROVE  Inv'
<1> USE DEF Inv
<1>1. TypeOK'
  BY TypeHandleNewTunnelReq
<1>2. /\ \A j \in Client : control'[j].id = control[j].id
      /\ control'[k].tun = t
  BY DEF HandleNewTunnelReq, TypeOK
<1>3. MapInv' /\ BindInv'
  BY <1>2, SameBindings DEF HandleNewTunnelReq, MapInv, TypeOK
<1>4. /\ \A j \in Client : Range(toServer'[j]) \subseteq Range(toServer[j])
      /\ Head(toServer[k]) \in Range(toServer[k])
  BY ReadFacts DEF HandleNewTunnelReq, Next1, TypeOK
<1>5. client[k].id # None
  BY <1>4 DEF HandleNewTunnelReq, Next1, KnowInv
<1>6. KnowInv'
  BY <1>2, <1>4, <1>5, RegistrationAssumption DEF HandleNewTunnelReq, KnowInv
<1> QED BY <1>1, <1>3, <1>6

LEMMA InvAnnounceTunnel ==
  ASSUME Inv, NEW k \in Client, AnnounceTunnel(k)
  PROVE  Inv'
<1> USE DEF Inv
<1>1. client[k].id # None /\ control[k].tun \in TunId
  BY RegistrationAssumption DEF AnnounceTunnel, KnowInv, TypeOK
<1>2. NewTunnelRsp(control[k].tun) \in CtlMsg
  BY <1>1, Messages
<1>3. /\ toClient' \in [Client -> Seq(CtlMsg)]
      /\ \A j \in Client : j # k => toClient'[j] = toClient[j]
      /\ Range(toClient'[k]) \subseteq Range(toClient[k]) \cup {NewTunnelRsp(control[k].tun)}
  BY <1>2, TellFacts DEF AnnounceTunnel
<1>4. TypeOK'
  BY <1>3 DEF AnnounceTunnel, TypeOK, listVars
<1>5. MapInv' /\ BindInv'
  BY SameBindings DEF AnnounceTunnel, MapInv
<1>6. KnowInv'
  BY <1>1, <1>3 DEF AnnounceTunnel, KnowInv, NewTunnelRsp
<1> QED BY <1>4, <1>5, <1>6

LEMMA InvHandleNewTunnelRsp ==
  ASSUME Inv, NEW k \in Client, HandleNewTunnelRsp(k)
  PROVE  Inv'
<1> USE DEF Inv
<1>1. TypeOK'
  BY TypeHandleNewTunnelRsp
<1>2. MapInv' /\ BindInv'
  BY SameBindings DEF HandleNewTunnelRsp, MapInv, serverVars
<1>3. /\ \A j \in Client : Range(toClient'[j]) \subseteq Range(toClient[j])
      /\ Head(toClient[k]) \in Range(toClient[k])
  BY ReadFacts DEF HandleNewTunnelRsp, Next1, TypeOK
<1>4. client[k].id # None
  BY <1>3 DEF HandleNewTunnelRsp, Next1, KnowInv
<1>5. /\ \A j \in Client : client'[j].id = client[j].id
      /\ \A j \in Client : j # k => client'[j] = client[j]
  BY Grouped DEF HandleNewTunnelRsp, ClientType
<1>6. KnowInv'
  BY <1>3, <1>4, <1>5 DEF HandleNewTunnelRsp, KnowInv, serverVars, TypeOK
<1> QED BY <1>1, <1>2, <1>6
----------------------------------------------------------------------------
(***************************************************************************)
(* Each step of the public and the proxy connections keeps it.             *)
(***************************************************************************)

\* Steps of which only one proxy connection and the lists are seen
LEMMA OneProxy ==
  ASSUME Inv, UNCHANGED <<client, toServer, serverVars>>,
         toClient' \in [Client -> Seq(CtlMsg)],
         \A k \in Client : Range(toClient'[k]) \subseteq Range(toClient[k]),
         via' \in [Pub -> Client \cup {None}],
         \A x \in Pub : via[x] # None => via'[x] = via[x],
         NEW p \in Proxy, NEW r \in ProxyState, proxy' = [proxy EXCEPT ![p] = r],
         undeal_public_fds' \in [Client -> Seq(Pub)],
         free_proxy_conns' \in [Client -> Seq(Proxy \cup {None})], down' \in BOOLEAN,
         ProxyInv(p)',
         \A k \in Client : Range(undeal_public_fds'[k]) \subseteq Range(undeal_public_fds[k]),
         \A k \in Client : \A q \in Range(free_proxy_conns'[k]) :
           \/ q \in Range(free_proxy_conns[k]) \cup {None}
           \/ q = p /\ r.owner = k,
         \/ r.st \in Claimed /\ r.owner = proxy[p].owner
         \/ proxy[p].st \notin Claimed
              /\ \A k \in Client : Range(free_proxy_conns'[k]) \subseteq Range(free_proxy_conns[k])
  PROVE  Inv'
<1> USE DEF Inv
<1>1. proxy' \in [Proxy -> ProxyState]
  BY DEF TypeOK
<1>2. proxy'[p] = r /\ \A q \in Proxy : q # p => proxy'[q] = proxy[q]
  BY DEF TypeOK
<1>3. TypeOK'
  BY <1>1 DEF TypeOK, serverVars
<1>4. MapInv' /\ KnowInv'
  BY SameIds DEF serverVars
<1>5. ASSUME NEW q \in Proxy PROVE ProxyInv(q)'
  <2>1. CASE q # p
    <3>1. ProxyInv(q) /\ proxy[q] \in ProxyState /\ proxy'[q] = proxy[q]
      BY <1>2, <2>1 DEF BindInv, TypeOK
    <3>2. proxy[q].pub # None =>
            proxy[q].pub \in Pub /\ proxy[q].owner \in Client /\ via[proxy[q].pub] # None
      BY <3>1, RegistrationAssumption DEF ProxyInv, ProxyState
    <3> QED BY <3>1, <3>2 DEF ProxyInv, serverVars
  <2> QED BY <2>1
<1>6. ASSUME NEW k \in Client PROVE ListInv(k)'
  <2>1. ListInv(k)
    BY DEF BindInv
  <2>2. ASSUME NEW x \in Range(undeal_public_fds'[k]) PROVE via'[x] = k
    <3>1. x \in Range(undeal_public_fds[k])
      OBVIOUS
    <3>2. x \in Pub /\ via[x] = k
      <4>1. via[x] = k
        BY <2>1, <3>1 DEF ListInv
      <4>2. undeal_public_fds[k] \in Seq(Pub)
        BY DEF TypeOK
      <4>3. x \in Pub
        BY <3>1, <4>2 DEF Range
      <4> QED BY <4>1, <4>3
    <3> QED BY <3>2, RegistrationAssumption
  <2>3. ASSUME NEW q \in Range(free_proxy_conns'[k]), q # None
        PROVE  proxy'[q].st \in Claimed /\ proxy'[q].owner = k
    <3>1. q \in Proxy
      BY <2>3 DEF Range
    <3>2. CASE q # p
      BY <1>2, <2>1, <2>3, <3>1, <3>2 DEF ListInv
    <3>3. CASE q = p
      BY <1>2, <2>1, <2>3, <3>3 DEF ListInv
    <3> QED BY <3>2, <3>3
  <2> QED BY <2>2, <2>3 DEF ListInv
<1> QED BY <1>3, <1>4, <1>5, <1>6 DEF BindInv

LEMMA InvNewProxyConn ==
  ASSUME Inv, NEW p \in Proxy, NewProxyConn(p)
  PROVE  Inv'
<1> USE DEF Inv
<1> DEFINE r == [proxy[p] EXCEPT !.st = "unclaimed"]
<1>1. r \in ProxyState /\ proxy' = [proxy EXCEPT ![p] = r] /\ proxy'[p] = r
  BY ZenonT(60) DEF NewProxyConn, TypeOK, ProxyState
<1>2. ProxyInv(p)'
  BY <1>1 DEF NewProxyConn, BindInv, ProxyInv, serverVars, TypeOK, ProxyState, Claimed
<1> QED BY <1>1, <1>2, OneProxy DEF NewProxyConn, listVars, TypeOK, Claimed

LEMMA InvFindControl ==
  ASSUME Inv, NEW p \in Proxy, NEW k \in Client \cup {None}, FindControl(p, k)
  PROVE  Inv'
<1> USE DEF Inv
<1> DEFINE r == [proxy[p] EXCEPT !.st = IF k = None THEN "stray" ELSE "found"]
<1>1. r \in ProxyState /\ proxy' = [proxy EXCEPT ![p] = r] /\ proxy'[p] = r
  BY ZenonT(60) DEF FindControl, TypeOK, ProxyState
<1>2. ProxyInv(p)'
  BY <1>1, ZenonT(60) DEF FindControl, BindInv, ProxyInv, serverVars, TypeOK, ProxyState, Claimed
<1> QED BY <1>1, <1>2, OneProxy DEF FindControl, listVars, TypeOK, Claimed

\* A connection that was given a public one, before its session starts or starts not
Moves(p) ==
  \/ AddWait(p) \/ HandleStartProxyConnRsp(p)
  \/ \E is_start \in BOOLEAN : HandleStartProxyConnReq(p, is_start)

\* It stays claimed, with all that it was given.
LEMMA MovedOn ==
  ASSUME TypeOK, BindInv, NEW p \in Proxy, Moves(p)
  PROVE  /\ \E r \in ProxyState :
              /\ proxy' = [proxy EXCEPT ![p] = r]
              /\ proxy[p].st \in Claimed /\ r.st \in Claimed
              /\ r.st = "free" => proxy[p].st = "free"
              /\ r.owner = proxy[p].owner /\ r.tun = proxy[p].tun
              /\ r.tun_id = proxy[p].tun_id /\ r.pub = proxy[p].pub
         /\ UNCHANGED <<client, toServer, toClient, serverVars, listVars, down>>
<1>1. proxy \in [Proxy -> ProxyState] /\ proxy[p] \in ProxyState /\ ProxyInv(p)
  BY DEF TypeOK, BindInv
<1>2. CASE AddWait(p)
  <2> DEFINE r == [proxy[p] EXCEPT !.wait = "yes"]
  <2>1. proxy' = [proxy EXCEPT ![p] = r]
    BY <1>1, <1>2 DEF AddWait
  <2>2. /\ r \in ProxyState /\ r.st = proxy[p].st /\ r.owner = proxy[p].owner
        /\ r.tun = proxy[p].tun /\ r.tun_id = proxy[p].tun_id /\ r.pub = proxy[p].pub
    BY <1>1 DEF ProxyState
  <2>3. proxy[p].st \in Claimed
    BY <1>1, <1>2 DEF AddWait, ProxyInv
  <2> HIDE DEF r
  <2> QED BY <1>2, <2>1, <2>2, <2>3 DEF AddWait
<1>3. CASE HandleStartProxyConnRsp(p)
  <2> DEFINE r == IF proxy[p].wait = "yes" THEN [proxy[p] EXCEPT !.st = "bound", !.wait = "no"]
                                           ELSE [proxy[p] EXCEPT !.st = "dropped"]
  <2>1. proxy' = [proxy EXCEPT ![p] = r] /\ proxy[p].st = "answered"
    BY <1>1, <1>3 DEF HandleStartProxyConnRsp
  <2>2. /\ r \in ProxyState /\ r.st \in {"bound", "dropped"} /\ r.owner = proxy[p].owner
        /\ r.tun = proxy[p].tun /\ r.tun_id = proxy[p].tun_id /\ r.pub = proxy[p].pub
    BY <1>1 DEF ProxyState, Claimed
  <2> HIDE DEF r
  <2> QED BY <1>3, <2>1, <2>2 DEF HandleStartProxyConnRsp, Claimed
<1>4. ASSUME NEW is_start \in BOOLEAN, HandleStartProxyConnReq(p, is_start)
      PROVE  /\ \E r \in ProxyState :
                  /\ proxy' = [proxy EXCEPT ![p] = r]
                  /\ proxy[p].st \in Claimed /\ r.st \in Claimed
                  /\ r.st = "free" => proxy[p].st = "free"
                  /\ r.owner = proxy[p].owner /\ r.tun = proxy[p].tun
                  /\ r.tun_id = proxy[p].tun_id /\ r.pub = proxy[p].pub
             /\ UNCHANGED <<client, toServer, toClient, serverVars, listVars, down>>
  <2> DEFINE s == IF is_start THEN "dropped" ELSE "answered"
             r == [proxy[p] EXCEPT !.st = s]
  <2>1. proxy' = [proxy EXCEPT ![p] = r] /\ proxy[p].st = "starting"
    BY <1>1, <1>4 DEF HandleStartProxyConnReq
  <2>2. s \in {"dropped", "answered"}
    BY Zenon
  <2> HIDE DEF s
  <2>3. /\ r \in ProxyState /\ r.st = s /\ r.owner = proxy[p].owner
        /\ r.tun = proxy[p].tun /\ r.tun_id = proxy[p].tun_id /\ r.pub = proxy[p].pub
    BY <1>1, <2>2 DEF ProxyState, Claimed
  <2> HIDE DEF r
  <2> QED BY <1>4, <2>1, <2>2, <2>3 DEF HandleStartProxyConnReq, Claimed
<1> QED BY <1>2, <1>3, <1>4 DEF Moves

LEMMA InvMoves ==
  ASSUME Inv, NEW p \in Proxy, Moves(p)
  PROVE  Inv'
<1> USE DEF Inv
<1>1. PICK r \in ProxyState :
        /\ proxy' = [proxy EXCEPT ![p] = r]
        /\ proxy[p].st \in Claimed /\ r.st \in Claimed
        /\ r.st = "free" => proxy[p].st = "free"
        /\ r.owner = proxy[p].owner /\ r.tun = proxy[p].tun /\ r.pub = proxy[p].pub
  BY MovedOn
<1>2. UNCHANGED <<client, toServer, toClient, serverVars, listVars, down>>
  BY MovedOn
<1>3. proxy'[p] = r /\ ProxyInv(p)
  BY <1>1 DEF TypeOK, BindInv
<1>4. ProxyInv(p)'
  BY <1>1, <1>2, <1>3 DEF ProxyInv, listVars, serverVars, Claimed
<1> QED BY <1>1, <1>2, <1>3, <1>4, OneProxy DEF listVars, TypeOK

LEMMA InvFreeProxyConn ==
  ASSUME Inv, NEW p \in Proxy, FreeProxyConn(p)
  PROVE  Inv'
<1> USE DEF Inv
<1> DEFINE r == [proxy[p] EXCEPT !.st = "free", !.pub = None]
           k == proxy[p].tun
<1>1. r \in ProxyState /\ proxy' = [proxy EXCEPT ![p] = r] /\ proxy'[p] = r
  BY ZenonT(60) DEF FreeProxyConn, TypeOK, ProxyState, Claimed
<1>2. k \in Client /\ k = proxy[p].owner
  BY DEF FreeProxyConn, BindInv, ProxyInv, Claimed
<1>3. ProxyInv(p)' /\ r.st = "free" /\ r.owner = k
  BY <1>1, <1>2 DEF ProxyInv, TypeOK, ProxyState
<1>4. free_proxy_conns[k] \in Seq(Proxy \cup {None})
  BY <1>2 DEF TypeOK
<1>5. /\ Append(free_proxy_conns[k], p) \in Seq(Proxy \cup {None})
      /\ Range(Append(free_proxy_conns[k], p)) \subseteq Range(free_proxy_conns[k]) \cup {p}
  BY <1>4, AppendFacts
<1>6. /\ free_proxy_conns' \in [Client -> Seq(Proxy \cup {None})]
      /\ free_proxy_conns'[k] = Append(free_proxy_conns[k], p)
      /\ \A j \in Client : j # k => free_proxy_conns'[j] = free_proxy_conns[j]
  BY <1>2, <1>5 DEF FreeProxyConn, TypeOK
<1>7. \A j \in Client : \A q \in Range(free_proxy_conns'[j]) :
        q \in Range(free_proxy_conns[j]) \cup {None} \/ (q = p /\ r.owner = j)
  BY <1>3, <1>5, <1>6
<1>8. /\ UNCHANGED <<client, toServer, toClient, serverVars, undeal_public_fds, via, down>>
      /\ toClient \in [Client -> Seq(CtlMsg)] /\ via \in [Pub -> Client \cup {None}]
      /\ undeal_public_fds \in [Client -> Seq(Pub)] /\ down \in BOOLEAN
  BY DEF FreeProxyConn, TypeOK
<1> HIDE DEF r, k, Inv
<1> QED BY <1>1, <1>2, <1>3, <1>6, <1>7, <1>8, OneProxy DEF Claimed

LEMMA InvHandlePeerProxyConnClose ==
  ASSUME Inv, NEW p \in Proxy, HandlePeerProxyConnClose(p)
  PROVE  Inv'
<1> USE DEF Inv
<1> DEFINE r == [proxy[p] EXCEPT !.closed = TRUE]
           k == proxy[p].tun
<1>0. proxy \in [Proxy -> ProxyState] /\ proxy[p] \in ProxyState
  BY DEF TypeOK
<1>1. r \in ProxyState /\ proxy' = [proxy EXCEPT ![p] = r] /\ proxy'[p] = r
  <2>1. r \in ProxyState
    BY <1>0 DEF ProxyState
  <2>2. proxy' = [proxy EXCEPT ![p] = r]
    BY <1>0 DEF HandlePeerProxyConnClose
  <2> QED BY <1>0, <2>1, <2>2
<1>2. k \in Client /\ k = proxy[p].owner
  BY DEF HandlePeerProxyConnClose, BindInv, ProxyInv
<1>3. /\ ProxyInv(p)' /\ r.owner = k
      /\ r.st \in Claimed
  BY <1>1, <1>2 DEF HandlePeerProxyConnClose, BindInv, ProxyInv, TypeOK, ProxyState, Claimed
<1>4. free_proxy_conns[k] \in Seq(Proxy \cup {None})
  BY <1>2 DEF TypeOK
<1>5. /\ Removed(free_proxy_conns[k], p) \in Seq(Proxy \cup {None})
      /\ Range(Removed(free_proxy_conns[k], p)) \subseteq Range(free_proxy_conns[k]) \cup {None}
  BY <1>4, RemovedFacts
<1>6. /\ free_proxy_conns' \in [Client -> Seq(Proxy \cup {None})]
      /\ free_proxy_conns'[k] = Removed(free_proxy_conns[k], p)
      /\ \A j \in Client : j # k => free_proxy_conns'[j] = free_proxy_conns[j]
  BY <1>2, <1>5 DEF HandlePeerProxyConnClose, TypeOK
<1>7. \A j \in Client : \A q \in Range(free_proxy_conns'[j]) :
        q \in Range(free_proxy_conns[j]) \cup {None}
  BY <1>5, <1>6
<1> QED BY <1>1, <1>2, <1>3, <1>6, <1>7, OneProxy DEF HandlePeerProxyConnClose, TypeOK

LEMMA InvClaimProxyConn ==
  ASSUME Inv, NEW p \in Proxy, ClaimProxyConn(p)
  PROVE  Inv'
<1> USE DEF Inv
<1> DEFINE k == control_map[proxy[p].ctl_id]
           undeal == undeal_public_fds[k]
           x == IF undeal = << >> THEN None ELSE Last(undeal)
           r == [proxy[p] EXCEPT !.st = "bound", !.tun = k, !.pub = x]
           s == [proxy[p] EXCEPT !.st = "stray"]
<1>1. /\ proxy[p].owner \in Client /\ proxy[p].ctl_id \in CtlId
      /\ proxy[p].ctl_id = control[proxy[p].owner].id /\ proxy[p].st = "found"
      /\ proxy[p] \in ProxyState
  BY DEF ClaimProxyConn, BindInv, ProxyInv, TypeOK
<1>2. k \in Client
  BY <1>1 DEF ClaimProxyConn, TypeOK
<1>3. k = proxy[p].owner
  BY <1>1, <1>2, RegistrationAssumption DEF MapInv
<1>4. undeal \in Seq(Pub)
  BY <1>2 DEF TypeOK
<1>5. /\ Front(undeal) \in Seq(Pub) /\ Range(Front(undeal)) \subseteq Range(undeal)
      /\ undeal # << >> => Last(undeal) \in Range(undeal) /\ Last(undeal) \in Pub
  BY <1>4, FrontFacts
<1>6. x # None => via[x] = k
  BY <1>2, <1>5 DEF BindInv, ListInv
<1>7. CASE /\ proxy' = [proxy EXCEPT ![p] = r]
           /\ undeal_public_fds' = [undeal_public_fds EXCEPT ![k] = Front(undeal)]
           /\ down' = (undeal = << >>)
  <2>1. r \in ProxyState /\ proxy'[p] = r
    BY <1>1, <1>2, <1>5, <1>7 DEF TypeOK, ProxyState, Claimed
  <2>2. ProxyInv(p)'
    BY <1>1, <1>3, <1>6, <2>1 DEF ProxyInv, ProxyState, ClaimProxyConn, Claimed
  <2>3. /\ undeal_public_fds' \in [Client -> Seq(Pub)]
        /\ \A j \in Client : Range(undeal_public_fds'[j]) \subseteq Range(undeal_public_fds[j])
    BY <1>2, <1>5, <1>7 DEF TypeOK
  <2>4. down' \in BOOLEAN
    BY <1>7, Zenon
  <2> QED BY <1>1, <1>7, <2>1, <2>2, <2>3, <2>4, OneProxy DEF ClaimProxyConn, TypeOK, Claimed
<1>8. CASE proxy' = [proxy EXCEPT ![p] = s] /\ UNCHANGED <<undeal_public_fds, down>>
  <2>1. s \in ProxyState /\ proxy'[p] = s
    BY <1>1, <1>8 DEF TypeOK, ProxyState
  <2>2. ProxyInv(p)'
    BY <1>1, <2>1 DEF BindInv, ProxyInv, ProxyState, ClaimProxyConn, Claimed
  <2> QED BY <1>1, <1>8, <2>1, <2>2, OneProxy DEF ClaimProxyConn, TypeOK, Claimed
<1>9. [proxy EXCEPT ![p].st = "stray"] = [proxy EXCEPT ![p] = s]
  BY DEF TypeOK
<1> QED BY <1>7, <1>8, <1>9 DEF ClaimProxyConn, PopUndeal

\* A public connection is accepted for k's tunnel.
LEMMA Accepts ==
  ASSUME TypeOK, NEW x \in Pub, NEW k \in Client, Connects(x, k)
  PROVE  /\ via' \in [Pub -> Client \cup {None}] /\ via'[x] = k
         /\ \A y \in Pub : via[y] # None => via'[y] = via[y]
         /\ control[k].tun \in TunId
<1>1. via' = [via EXCEPT ![x] = k] /\ via[x] = None /\ via \in [Pub -> Client \cup {None}]
  BY DEF Connects, TypeOK
<1>2. control[k].tun \in TunId
  BY DEF Connects, TypeOK
<1> QED BY <1>1, <1>2

LEMMA InvNewPublicConn ==
  ASSUME Inv, NEW x \in Pub, NEW k \in Client, NewPublicConn(x, k)
  PROVE  Inv'
<1> USE DEF Inv
<1>1. /\ via' \in [Pub -> Client \cup {None}] /\ via'[x] = k
      /\ \A y \in Pub : via[y] # None => via'[y] = via[y]
      /\ control[k].tun \in TunId
  BY Accepts DEF NewPublicConn
<1>2. NeedProxy(control[k].tun) \in CtlMsg
  BY <1>1, Messages
<1>3. /\ toClient' \in [Client -> Seq(CtlMsg)]
      /\ \A j \in Client : j # k => toClient'[j] = toClient[j]
      /\ Range(toClient'[k]) \subseteq Range(toClient[k]) \cup {NeedProxy(control[k].tun)}
  BY <1>2, TellFacts DEF NewPublicConn
<1>4. undeal_public_fds[k] \in Seq(Pub)
  BY DEF TypeOK
<1>5. /\ Append(undeal_public_fds[k], x) \in Seq(Pub)
      /\ Range(Append(undeal_public_fds[k], x)) \subseteq Range(undeal_public_fds[k]) \cup {x}
  BY <1>4, AppendFacts
<1>6. /\ undeal_public_fds' \in [Client -> Seq(Pub)]
      /\ undeal_public_fds'[k] = Append(undeal_public_fds[k], x)
      /\ \A j \in Client : j # k => undeal_public_fds'[j] = undeal_public_fds[j]
  BY <1>5 DEF NewPublicConn, TypeOK
<1>7. TypeOK'
  BY <1>1, <1>3, <1>6 DEF NewPublicConn, TypeOK, serverVars
<1>8. MapInv'
  BY DEF NewPublicConn, MapInv, serverVars
<1>9. KnowInv'
  BY <1>3 DEF NewPublicConn, KnowInv, serverVars, NeedProxy
<1>10. ASSUME NEW p \in Proxy PROVE ProxyInv(p)'
  <2>1. ProxyInv(p) /\ proxy[p] \in ProxyState /\ proxy' = proxy /\ control' = control
    BY DEF NewPublicConn, serverVars, BindInv, TypeOK
  <2>2. proxy[p].pub # None =>
          proxy[p].pub \in Pub /\ proxy[p].owner \in Client /\ via[proxy[p].pub] # None
    BY <2>1, RegistrationAssumption DEF ProxyInv, ProxyState
  <2> QED BY <1>1, <2>1, <2>2 DEF ProxyInv
<1>11. ASSUME NEW j \in Client PROVE ListInv(j)'
  <2>1. ListInv(j) /\ proxy' = proxy /\ free_proxy_conns' = free_proxy_conns
    BY DEF NewPublicConn, BindInv
  <2>2. ASSUME NEW y \in Range(undeal_public_fds'[j]) PROVE via'[y] = j
    <3>1. CASE y \in Range(undeal_public_fds[j])
      <4>1. undeal_public_fds[j] \in Seq(Pub)
        BY DEF TypeOK
      <4>2. y \in Pub
        BY <3>1, <4>1 DEF Range
      <4>3. via[y] = j
        BY <2>1, <3>1 DEF ListInv
      <4> QED BY <1>1, <4>2, <4>3, RegistrationAssumption
    <3>2. CASE j = k /\ y = x
      BY <1>1, <3>2
    <3> QED BY <1>5, <1>6, <3>1, <3>2
  <2> QED BY <2>1, <2>2 DEF ListInv
<1> QED BY <1>7, <1>8, <1>9, <1>10, <1>11 DEF BindInv

LEMMA InvNewPublicConnOnFree ==
  ASSUME Inv, NEW x \in Pub, NEW k \in Client, NewPublicConnOnFree(x, k)
  PROVE  Inv'
<1> USE DEF Inv
<1> DEFINE p == Last(free_proxy_conns[k])
<1>1. /\ via' \in [Pub -> Client \cup {None}] /\ via'[x] = k
      /\ \A y \in Pub : via[y] # None => via'[y] = via[y]
  BY Accepts DEF NewPublicConnOnFree
<1>2. free_proxy_conns[k] \in Seq(Proxy \cup {None}) /\ free_proxy_conns[k] # << >>
  BY DEF NewPublicConnOnFree, TypeOK
<1>3. /\ Front(free_proxy_conns[k]) \in Seq(Proxy \cup {None})
      /\ Range(Front(free_proxy_conns[k])) \subseteq Range(free_proxy_conns[k])
      /\ p \in Range(free_proxy_conns[k]) /\ p \in Proxy \cup {None}
  BY <1>2, FrontFacts
<1>4. /\ free_proxy_conns' \in [Client -> Seq(Proxy \cup {None})]
      /\ \A j \in Client : Range(free_proxy_conns'[j]) \subseteq Range(free_proxy_conns[j])
  BY <1>3 DEF NewPublicConnOnFree, TypeOK
<1>5. /\ UNCHANGED <<client, toServer, toClient, serverVars, undeal_public_fds>>
      /\ toClient \in [Client -> Seq(CtlMsg)] /\ undeal_public_fds \in [Client -> Seq(Pub)]
      /\ proxy \in [Proxy -> ProxyState] /\ down \in BOOLEAN
  BY DEF NewPublicConnOnFree, TypeOK
<1>6. CASE p = None
  <2>1. UNCHANGED proxy /\ down'
    BY <1>6 DEF NewPublicConnOnFree
  <2>2. TypeOK'
    BY <1>1, <1>4, <1>5, <2>1 DEF TypeOK, serverVars
  <2>3. MapInv' /\ KnowInv'
    BY <1>5, SameIds DEF serverVars
  <2>4. ASSUME NEW q \in Proxy PROVE ProxyInv(q)'
    <3>1. ProxyInv(q) /\ proxy[q] \in ProxyState
      BY <1>5 DEF BindInv
    <3>2. proxy[q].pub # None =>
            proxy[q].pub \in Pub /\ proxy[q].owner \in Client /\ via[proxy[q].pub] # None
      BY <3>1, RegistrationAssumption DEF ProxyInv, ProxyState
    <3> QED BY <1>1, <1>5, <2>1, <3>1, <3>2 DEF ProxyInv, serverVars
  <2>5. ASSUME NEW j \in Client PROVE ListInv(j)'
    <3>1. ListInv(j) /\ undeal_public_fds[j] \in Seq(Pub)
      BY <1>5 DEF BindInv
    <3>2. Range(undeal_public_fds[j]) \subseteq Pub
      BY <3>1 DEF Range
    <3> QED BY <1>1, <1>4, <1>5, <2>1, <3>1, <3>2, RegistrationAssumption, ZenonT(60) DEF ListInv
  <2> QED BY <2>2, <2>3, <2>4, <2>5 DEF BindInv
<1>7. CASE p # None
  <2> DEFINE s(q) == [proxy[q] EXCEPT !.st = "starting", !.pub = x, !.wait = "adding"]
  <2>1. PICK q \in Proxy : q = p
    BY <1>3, <1>7
  <2>2. proxy' = [proxy EXCEPT ![q] = s(q)] /\ UNCHANGED down
    BY <1>7, <2>1 DEF NewPublicConnOnFree
  <2>3. proxy[q].owner = k /\ proxy[q].tun = k
    BY <1>3, <1>7, <2>1, RegistrationAssumption DEF BindInv, ListInv, ProxyInv
  <2>4. s(q) \in ProxyState /\ proxy'[q] = s(q)
    BY <1>5, <2>2, ZenonT(60) DEF ProxyState, Claimed
  <2>5. s(q).st = "starting" /\ s(q).owner = k /\ s(q).tun = k /\ s(q).pub = x
    BY <1>5, <2>3 DEF ProxyState
  <2>6. ProxyInv(q)'
    BY <1>1, <2>4, <2>5 DEF ProxyInv, Claimed
  <2> HIDE DEF p, s, Inv
  <2> QED BY <1>1, <1>4, <1>5, <2>2, <2>3, <2>4, <2>5, <2>6, OneProxy DEF Claimed
<1> QED BY <1>6, <1>7

LEMMA InvHandleProxyNotify ==
  ASSUME Inv, NEW k \in Client, NEW p \in Proxy, HandleProxyNotify(k, p)
  PROVE  Inv'
<1> USE DEF Inv
<1> DEFINE r == [NoProxy EXCEPT !.st = "connected", !.owner = k,
                                !.ctl_id = client[k].id, !.tun_id = client[k].tun]
<1>1. /\ toClient' \in [Client -> Seq(CtlMsg)]
      /\ \A j \in Client : Range(toClient'[j]) \subseteq Range(toClient[j])
      /\ Head(toClient[k]).id \in TunId
  BY ReadFacts, MessageIds DEF HandleProxyNotify, Next1, TypeOK
<1>2. /\ UNCHANGED <<client, toServer, serverVars, listVars, down>>
      /\ via \in [Pub -> Client \cup {None}] /\ undeal_public_fds \in [Client -> Seq(Pub)]
      /\ free_proxy_conns \in [Client -> Seq(Proxy \cup {None})]
      /\ proxy \in [Proxy -> ProxyState] /\ down \in BOOLEAN /\ proxy[p].st = "none"
  BY DEF HandleProxyNotify, TypeOK
<1>3. CASE proxy' = proxy
  <2>1. TypeOK'
    BY <1>1, <1>2, <1>3 DEF TypeOK, serverVars, listVars
  <2>2. MapInv' /\ KnowInv' /\ BindInv'
    BY <1>1, <1>2, <1>3, SameIds, SameBindings DEF serverVars
  <2> QED BY <2>1, <2>2
<1>4. CASE client[k].tun = Head(toClient[k]).id /\ proxy' = [proxy EXCEPT ![p] = r]
  <2>1. client[k].tun \in TunId /\ client[k].id = control[k].id /\ client[k].id \in CtlId
    BY <1>1, <1>4, RegistrationAssumption DEF KnowInv, TypeOK
  <2>2. r \in ProxyState /\ proxy'[p] = r
    BY <1>2, <1>4, <2>1 DEF ProxyState, NoProxy
  <2>3. r.st = "connected" /\ r.owner = k /\ r.ctl_id = client[k].id /\ r.pub = None /\ r.wait = "no"
    BY DEF NoProxy
  <2>4. ProxyInv(p)'
    BY <1>2, <2>1, <2>2, <2>3 DEF ProxyInv, serverVars, Claimed
  <2> HIDE DEF r, Inv
  <2> QED BY <1>1, <1>2, <1>4, <2>2, <2>4, OneProxy DEF listVars, Claimed
<1> QED BY <1>3, <1>4 DEF HandleProxyNotify
----------------------------------------------------------------------------
(***************************************************************************)
(* The loss of a client and of the server keeps it.                        *)
(***************************************************************************)
LEMMA InvClaimNull ==
  ASSUME Inv, NEW p \in Proxy, ClaimNull(p)
  PROVE  Inv'
<1>1. TypeOK'
  BY DEF Inv, ClaimNull, TypeOK, serverVars, listVars
<1> QED BY <1>1, SameIds, SameBindings DEF Inv, ClaimNull, serverVars

LEMMA InvClientGone ==
  ASSUME Inv, NEW k \in Client, LoseClient(k) \/ ClientAborts(k)
  PROVE  Inv'
<1> USE DEF Inv
<1>1. client' = [client EXCEPT ![k].st = "lost"]
      /\ UNCHANGED <<toServer, serverVars, listVars, proxy, down>>
  BY DEF LoseClient, ClientAborts
<1>2. client' \in [Client -> ClientType]
      /\ \A j \in Client : client'[j].id = client[j].id /\ client'[j].tun = client[j].tun
  BY <1>1, Grouped DEF ClientType
<1>3. toClient' \in [Client -> Seq(CtlMsg)]
      /\ \A j \in Client : Range(toClient'[j]) \subseteq Range(toClient[j])
  <2>1. CASE toClient' = toClient
    BY <2>1 DEF TypeOK
  <2>2. CASE toClient' = [toClient EXCEPT ![k] = << >>]
    BY <2>2 DEF TypeOK, Range
  <2> QED BY <2>1, <2>2 DEF LoseClient, ClientAborts
<1>4. TypeOK'
  BY <1>1, <1>2, <1>3 DEF TypeOK, serverVars, listVars, ClientType
<1> QED BY <1>1, <1>2, <1>3, <1>4, SameIds, SameBindings DEF serverVars

LEMMA InvHandleCtlConnClose ==
  ASSUME Inv, NEW k \in Client, HandleCtlConnClose(k)
  PROVE  Inv'
<1> USE DEF Inv
<1>1. control[k].id \in CtlId /\ UNCHANGED <<client, toServer, toClient, control, announcing>>
      /\ UNCHANGED <<proxy, listVars>> /\ UNCHANGED down
  BY DEF HandleCtlConnClose, TypeOK
<1>2. control_map' \in [CtlId -> Client \cup {None}]
      /\ \A i \in CtlId : control_map'[i] = control_map[i] \/ control_map'[i] = None
  BY <1>1 DEF HandleCtlConnClose, Erased, TypeOK
<1>3. TypeOK'
  BY <1>1, <1>2 DEF TypeOK, listVars
<1>4. MapInv' /\ KnowInv'
  BY <1>1, <1>2 DEF MapInv, KnowInv
<1> QED BY <1>1, <1>3, <1>4, SameBindings

LEMMA InvNext == Inv /\ [Next]_vars => Inv'
<1> SUFFICES ASSUME Inv, [Next]_vars PROVE Inv'
  OBVIOUS
<1>1. CASE UNCHANGED vars
  <2>1. UNCHANGED <<client, toServer, toClient, control, control_map, announcing,
                    undeal_public_fds, free_proxy_conns, via, proxy, down>>
    BY <1>1 DEF vars, serverVars, listVars
  <2> QED BY <2>1, SameIds, SameBindings DEF Inv, TypeOK, listVars
<1>2. ASSUME NEW k \in Client, Start(k) \/ Register(k) \/ Notified(k) PROVE Inv'
  BY <1>2, InvStart, InvNewCtlConn, InvHandleNewCtlReq, InvHandleNewCtlRsp,
     InvHandleNewTunnelReq, InvAnnounceTunnel, InvHandleNewTunnelRsp, InvHandleProxyNotify
     DEF Register, Notified
<1>3. ASSUME NEW x \in Pub, NEW k \in Client,
             NewPublicConn(x, k) \/ NewPublicConnOnFree(x, k)
      PROVE  Inv'
  BY <1>3, InvNewPublicConn, InvNewPublicConnOnFree
<1>4. ASSUME NEW p \in Proxy,
             Bind(p) \/ FreeProxyConn(p) \/ HandlePeerProxyConnClose(p)
      PROVE  Inv'
  BY <1>4, InvNewProxyConn, InvFindControl, InvClaimNull, InvClaimProxyConn,
     InvMoves, InvFreeProxyConn, InvHandlePeerProxyConnClose DEF Bind, Moves
<1>5. ASSUME NEW k \in Client, LoseClient(k) \/ ClientAborts(k) \/ HandleCtlConnClose(k)
      PROVE  Inv'
  BY <1>5, InvClientGone, InvHandleCtlConnClose
<1> QED BY <1>1, <1>2, <1>3, <1>4, <1>5 DEF Next
----------------------------------------------------------------------------
(***************************************************************************)
(* Theorems                                                                *)
(***************************************************************************)

\* Every variable keeps its type: no null id is ever looked up or sent, and lists
\* hold connections or the null pointers that std::remove leaves.
THEOREM TypeCorrect == Spec => []TypeOK
<1>1. Inv => TypeOK
  BY DEF Inv
<1> QED BY InvInit, InvNext, <1>1, PTL DEF Spec

\* claimProxyConn and popFreeProxyConn give a public connection only to a proxy
\* connection of the client whose port it came in by, however many clients there
\* are, whichever of them are lost, and whatever a lookup misses.
THEOREM GivenToOwner == Spec => []OwnTunnel
<1>1. Inv => OwnTunnel
  BY DEF Inv, BindInv, ProxyInv, OwnTunnel
<1> QED BY InvInit, InvNext, <1>1, PTL DEF Spec
----------------------------------------------------------------------------
(***************************************************************************)
(* Parked public connections and the loss of the server: what is needed    *)
(* beyond Inv.                                                             *)
(***************************************************************************)

\* The proxy connections k has made that no worker has claimed yet, and the
\* requests for one that k has not read.
OnWay(k) == {p \in Proxy : proxy[p].owner = k /\ proxy[p].st \in {"connected", "unclaimed", "found"}}
Notify == {m \in CtlMsg : m.type = "NotifyClientNeedProxy"}
Asked(k) == Cardinality(Positions(toClient[k], Notify))

\* Until k's tunnel exists, one message of the registration at most is under way;
\* afterwards everything k is sent names that tunnel.
Phase(k) ==
  /\ control[k].tun = None =>
       /\ toServer[k] \in {<< >>, <<NewCtlReq>>, <<NewTunnelReq>>}
       /\ toClient[k] # << >> => /\ Len(toClient[k]) = 1 /\ toClient[k][1].type = "NewCtlRsp"
                                 /\ toServer[k] = << >>
  /\ control[k].tun # None =>
       /\ toServer[k] = << >>
       /\ \A m \in Range(toClient[k]) :
            /\ m.type \in {"NewTunnelRsp", "NotifyClientNeedProxy"} /\ m.id = control[k].tun
            /\ m.type = "NewTunnelRsp" => announcing # k
            /\ m.type = "NotifyClientNeedProxy" => client[k].tun # None \/ k \in Early
  /\ client[k].tun # None => client[k].tun = control[k].tun /\ announcing # k
  /\ client[k].st = "off" => control[k].tun = None /\ toServer[k] = << >> /\ toClient[k] = << >>

\* The control of a client that is there is in the map.
MapUp ==
  \A k \in Client : control[k].id # None /\ client[k].st # "lost" =>
    control_map[control[k].id] = k

\* A proxy connection on its way names its owner's tunnel; finitely many were made.
WayInv ==
  /\ \A k \in Client : \A p \in OnWay(k) : client[k].tun # None /\ proxy[p].tun_id = client[k].tun
  /\ IsFiniteSet({p \in Proxy : proxy[p].st # "none"})

SomeLost == \E k \in Client : client[k].st = "lost"

\* A worker found its control and an insertion that is under way hides it.
Overlooked == \E p \in Proxy : proxy[p].st = "found" /\ Hidden(proxy[p].ctl_id)

\* std::remove only leaves null pointers after a client was lost.
NullInv == \A k \in Client : None \in Range(free_proxy_conns[k]) => SomeLost

\* ParkedAreAwaited for one client, also before it starts.
Awaited(k) ==
  /\ Len(undeal_public_fds[k]) >= Cardinality(OnWay(k)) + Asked(k)
  /\ client[k].st # "lost" /\ k \notin Early \cup Racy =>
       Len(undeal_public_fds[k]) = Cardinality(OnWay(k)) + Asked(k)

ParkInv ==
  /\ \A k \in Client : Phase(k) /\ Awaited(k)
  /\ MapUp /\ WayInv /\ NullInv /\ DownByLossOrRace

----------------------------------------------------------------------------
\* What a client does not take part in leaves its phase alone.
LEMMA PhaseFrame ==
  ASSUME NEW k \in Client, Phase(k),
         client'[k].tun = client[k].tun, client'[k].st = "off" => client[k].st = "off",
         control'[k].tun = control[k].tun,
         toServer'[k] = toServer[k], toClient'[k] = toClient[k],
         announcing' = k => announcing = k
  PROVE  Phase(k)'
  BY DEF Phase

\* A queue with one element.
LEMMA OneElement ==
  ASSUME NEW S, NEW q \in Seq(S), Len(q) = 1
  PROVE  Head(q) = q[1] /\ Tail(q) = << >>
<1>1. q # << >> /\ Head(q) = q[1]
  OBVIOUS
<1>2. Tail(q) \in Seq(S) /\ Len(Tail(q)) = 0
  BY <1>1
<1> QED BY <1>1, <1>2, EmptySeq

\* The front of a queue before and after it is read.
LEMMA ReadAt ==
  ASSUME NEW f \in [Client -> Seq(CtlMsg)], NEW k \in Client, f[k] # << >>
  PROVE  /\ [f EXCEPT ![k] = Tail(@)][k] = Tail(f[k])
         /\ \A j \in Client : j # k => [f EXCEPT ![k] = Tail(@)][j] = f[j]
         /\ Head(f[k]) \in Range(f[k]) /\ Head(f[k]) = f[k][1]
         /\ Range(Tail(f[k])) \subseteq Range(f[k])
<1>1. f[k] \in Seq(CtlMsg)
  OBVIOUS
<1>2. Head(f[k]) \in Range(f[k]) /\ Range(Tail(f[k])) \subseteq Range(f[k])
  BY <1>1, TailFacts
<1> QED BY <1>1, <1>2

\* The registration steps keep every client's phase.
LEMMA PhaseRegister ==
  ASSUME Inv, \A j \in Client : Phase(j), NEW k \in Client, Start(k) \/ Register(k)
  PROVE  \A j \in Client : Phase(j)'
<1> USE DEF Inv
<1>0. /\ Phase(k) /\ None \notin TunId \cup CtlId
      /\ toServer \in [Client -> Seq(CtlMsg)] /\ toClient \in [Client -> Seq(CtlMsg)]
      /\ toServer[k] \in Seq(CtlMsg) /\ toClient[k] \in Seq(CtlMsg)
  BY RegistrationAssumption DEF TypeOK
<1>1. CASE Start(k)
  <2>1. /\ client'[k].st = "up" /\ client'[k].tun = client[k].tun
        /\ \A j \in Client : j # k => client'[j] = client[j]
    BY <1>1, Grouped DEF Start, ClientType
  <2>2. /\ toServer'[k] = <<NewCtlReq>> /\ \A j \in Client : j # k => toServer'[j] = toServer[j]
        /\ toClient' = toClient /\ control' = control /\ announcing' = announcing
    BY <1>0, <1>1 DEF Start, serverVars
  <2>3. toClient[k] = << >> /\ control[k].tun = None /\ client[k].tun = None
    BY <1>0, <1>1 DEF Start, Phase
  <2>4. Phase(k)'
    BY <2>1, <2>2, <2>3 DEF Phase
  <2> QED BY <2>1, <2>2, <2>4, PhaseFrame
<1>2. ASSUME NEW i \in CtlId, NewCtlConn(k, i) PROVE \A j \in Client : Phase(j)'
  <2>1. \A j \in Client : control'[j].tun = control[j].tun
    BY <1>2, Grouped DEF NewCtlConn, ControlType
  <2> QED BY <1>2, <2>1, PhaseFrame DEF NewCtlConn
<1>3. CASE HandleNewCtlReq(k)
  <2>1. /\ toServer[k] # << >> /\ Head(toServer[k]).type = "NewCtlReq"
        /\ toServer'[k] = Tail(toServer[k]) /\ \A j \in Client : j # k => toServer'[j] = toServer[j]
        /\ client' = client /\ control' = control /\ announcing' = announcing
    BY <1>0, <1>3, ReadAt DEF HandleNewCtlReq, Next1, serverVars
  <2>2. control[k].tun = None /\ toServer[k] = <<NewCtlReq>>
    BY <1>0, <2>1 DEF Phase, NewTunnelReq
  <2>3. toServer'[k] = << >> /\ toClient[k] = << >> /\ client[k].st # "off"
    <3>1. Tail(<<NewCtlReq>>) = << >>
      OBVIOUS
    <3> QED BY <1>0, <2>1, <2>2, <3>1 DEF Phase
  <2> DEFINE m == NewCtlRsp(control[k].id)
  <2>4. /\ toClient'[k] = toClient[k] \/ toClient'[k] = Append(toClient[k], m)
        /\ \A j \in Client : j # k => toClient'[j] = toClient[j]
    BY <1>0, <1>3 DEF HandleNewCtlReq, Tell
  <2>5. m.type = "NewCtlRsp"
    BY DEF NewCtlRsp
  <2> HIDE DEF m
  <2>6. toClient'[k] = << >> \/ toClient'[k] = <<m>>
    BY <2>3, <2>4
  <2>7. Phase(k)'
    <3>1. CASE toClient'[k] = << >>
      BY <1>0, <2>1, <2>2, <2>3, <3>1 DEF Phase
    <3>2. CASE toClient'[k] = <<m>>
      <4>1. Len(toClient'[k]) = 1 /\ toClient'[k][1] = m
        BY <3>2
      <4> QED BY <1>0, <2>1, <2>2, <2>3, <2>5, <4>1 DEF Phase
    <3> QED BY <2>6, <3>1, <3>2
  <2> QED BY <2>1, <2>4, <2>7, PhaseFrame
<1>4. CASE HandleNewCtlRsp(k)
  <2>1. /\ toClient[k] # << >> /\ Head(toClient[k]).type = "NewCtlRsp" /\ Head(toClient[k]) = toClient[k][1]
        /\ Head(toClient[k]) \in Range(toClient[k])
        /\ toClient'[k] = Tail(toClient[k]) /\ \A j \in Client : j # k => toClient'[j] = toClient[j]
        /\ control' = control /\ announcing' = announcing
    BY <1>0, <1>4, ReadAt DEF HandleNewCtlRsp, Next1, serverVars
  <2>2. control[k].tun = None
    BY <1>0, <2>1 DEF Phase
  <2>3. Len(toClient[k]) = 1 /\ toServer[k] = << >>
    BY <1>0, <2>1, <2>2 DEF Phase
  <2>4. toClient'[k] = << >>
    BY <1>0, <2>1, <2>3, OneElement
  <2>5. toServer'[k] = <<NewTunnelReq>> /\ \A j \in Client : j # k => toServer'[j] = toServer[j]
    BY <1>0, <1>4, <2>3 DEF HandleNewCtlRsp, ReqNewTunnel
  <2>6. \A j \in Client : client'[j].tun = client[j].tun /\ client'[j].st = client[j].st
    BY <1>4, Grouped DEF HandleNewCtlRsp, ClientType
  <2>7. Phase(k)'
    <3>1. client[k].tun = None /\ client[k].st = "up"
      BY <1>0, <1>4, <2>2 DEF Phase, HandleNewCtlRsp, Up
    <3> QED BY <2>1, <2>2, <2>4, <2>5, <2>6, <3>1 DEF Phase
  <2> QED BY <2>1, <2>5, <2>6, <2>7, PhaseFrame
<1>5. ASSUME NEW t \in TunId, HandleNewTunnelReq(k, t) PROVE \A j \in Client : Phase(j)'
  <2>1. /\ toServer[k] # << >> /\ Head(toServer[k]).type = "NewTunnelReq"
        /\ toServer'[k] = Tail(toServer[k]) /\ \A j \in Client : j # k => toServer'[j] = toServer[j]
        /\ client' = client /\ toClient' = toClient /\ announcing' = k
    BY <1>0, <1>5, ReadAt DEF HandleNewTunnelReq, Next1
  <2>2. control[k].tun = None /\ toServer[k] = <<NewTunnelReq>>
    BY <1>0, <2>1 DEF Phase, NewCtlReq
  <2>3. toServer'[k] = << >> /\ toClient[k] = << >> /\ client[k].st # "off" /\ client[k].tun = None
    BY <1>0, <2>1, <2>2 DEF Phase
  <2>4. control'[k].tun = t /\ \A j \in Client : j # k => control'[j] = control[j]
    BY <1>5, Grouped DEF HandleNewTunnelReq, ControlType
  <2>5. Phase(k)'
    <3>1. Range(toClient'[k]) = {}
      BY <2>1, <2>3 DEF Range
    <3> QED BY <1>0, <2>1, <2>3, <2>4, <3>1 DEF Phase
  <2> QED BY <2>1, <2>4, <2>5, PhaseFrame
<1>6. CASE AnnounceTunnel(k)
  <2>1. control[k].tun \in TunId
    BY <1>6, RegistrationAssumption DEF AnnounceTunnel, KnowInv, TypeOK
  <2> DEFINE m == NewTunnelRsp(control[k].tun)
  <2>2. m \in CtlMsg /\ m.type = "NewTunnelRsp" /\ m.id = control[k].tun
    BY <2>1, Messages DEF NewTunnelRsp
  <2>3. Tell(k, m) /\ announcing' = None /\ UNCHANGED <<client, toServer, control>>
    BY <1>6 DEF AnnounceTunnel
  <2> HIDE DEF m
  <2>4. /\ \A j \in Client : j # k => toClient'[j] = toClient[j]
        /\ Range(toClient'[k]) \subseteq Range(toClient[k]) \cup {m}
    BY <2>2, <2>3, TellFacts
  <2>5. Phase(k)'
    BY <1>0, <2>1, <2>2, <2>3, <2>4, RegistrationAssumption DEF Phase
  <2> QED BY <2>3, <2>4, <2>5, PhaseFrame, RegistrationAssumption
<1>7. CASE HandleNewTunnelRsp(k)
  <2>1. /\ toClient[k] # << >> /\ Head(toClient[k]).type = "NewTunnelRsp" /\ Head(toClient[k]) = toClient[k][1]
        /\ Head(toClient[k]) \in Range(toClient[k]) /\ Range(toClient'[k]) \subseteq Range(toClient[k])
        /\ \A j \in Client : j # k => toClient'[j] = toClient[j]
        /\ UNCHANGED <<toServer, control, announcing>>
    BY <1>0, <1>7, ReadAt DEF HandleNewTunnelRsp, Next1, serverVars
  <2>2. control[k].tun # None
    BY <1>0, <2>1 DEF Phase
  <2>3. Head(toClient[k]).id = control[k].tun /\ announcing # k
    BY <1>0, <2>1, <2>2 DEF Phase
  <2>4. /\ client'[k].tun = control[k].tun /\ client'[k].st = client[k].st
        /\ \A j \in Client : j # k => client'[j] = client[j]
    BY <1>7, <2>3, Grouped DEF HandleNewTunnelRsp, ClientType
  <2>5. Phase(k)'
    BY <1>0, <2>1, <2>2, <2>3, <2>4 DEF Phase
  <2> QED BY <2>1, <2>4, <2>5, PhaseFrame
<1> QED BY <1>1, <1>2, <1>3, <1>4, <1>5, <1>6, <1>7 DEF Register

\* So do all the other steps.
LEMMA PhaseNext ==
  ASSUME Inv, \A j \in Client : Phase(j), [Next]_vars
  PROVE  \A j \in Client : Phase(j)'
<1> USE DEF Inv
<1>0. toClient \in [Client -> Seq(CtlMsg)] /\ None \notin TunId
  BY RegistrationAssumption DEF TypeOK
<1>1. ASSUME UNCHANGED <<client, toServer, toClient, control, announcing>>
      PROVE  \A j \in Client : Phase(j)'
  BY <1>1, PhaseFrame
<1>2. ASSUME NEW x \in Pub, NEW k \in Client, NewPublicConn(x, k) PROVE \A j \in Client : Phase(j)'
  <2>1. control[k].tun \in TunId /\ (client[k].tun # None \/ k \in Early)
    BY <1>2 DEF NewPublicConn, Connects, TypeOK
  <2> DEFINE m == NeedProxy(control[k].tun)
  <2>2. m \in CtlMsg /\ m.type = "NotifyClientNeedProxy" /\ m.id = control[k].tun
    BY <2>1, Messages DEF NeedProxy
  <2>3. Tell(k, m) /\ UNCHANGED <<client, toServer, control, announcing>>
    BY <1>2 DEF NewPublicConn, serverVars
  <2> HIDE DEF m
  <2>4. /\ \A j \in Client : j # k => toClient'[j] = toClient[j]
        /\ Range(toClient'[k]) \subseteq Range(toClient[k]) \cup {m}
    BY <2>2, <2>3, TellFacts
  <2>5. Phase(k)'
    BY <1>0, <2>1, <2>2, <2>3, <2>4 DEF Phase
  <2> QED BY <2>3, <2>4, <2>5, PhaseFrame
<1>3. ASSUME NEW k \in Client, NEW p \in Proxy, HandleProxyNotify(k, p) PROVE \A j \in Client : Phase(j)'
  <2>1. /\ toClient[k] # << >> /\ Head(toClient[k]).type = "NotifyClientNeedProxy"
        /\ Head(toClient[k]) = toClient[k][1]
        /\ Range(toClient'[k]) \subseteq Range(toClient[k])
        /\ \A j \in Client : j # k => toClient'[j] = toClient[j]
        /\ UNCHANGED <<client, toServer, control, announcing>>
    BY <1>0, <1>3, ReadAt DEF HandleProxyNotify, Next1, serverVars
  <2>2. control[k].tun # None /\ client[k].st # "off"
    BY <2>1 DEF Phase
  <2>3. Phase(k)'
    BY <2>1, <2>2 DEF Phase
  <2> QED BY <2>1, <2>3, PhaseFrame
<1>4. ASSUME NEW k \in Client, LoseClient(k) \/ ClientAborts(k) PROVE \A j \in Client : Phase(j)'
  <2>1. /\ client'[k].st = "lost" /\ client'[k].tun = client[k].tun
        /\ \A j \in Client : j # k => client'[j] = client[j]
        /\ UNCHANGED <<toServer, control, announcing>>
    BY <1>4, Grouped DEF LoseClient, ClientAborts, ClientType, serverVars
  <2>2. /\ toClient'[k] = toClient[k] \/ toClient'[k] = << >>
        /\ \A j \in Client : j # k => toClient'[j] = toClient[j]
    BY <1>0, <1>4 DEF LoseClient, ClientAborts
  <2>3. CASE toClient'[k] = toClient[k]
    BY <2>1, <2>2, <2>3, PhaseFrame
  <2>4. CASE toClient'[k] = << >>
    <3>1. Range(toClient'[k]) = {}
      BY <2>4 DEF Range
    <3>2. Phase(k)'
      BY <2>1, <2>4, <3>1 DEF Phase
    <3> QED BY <2>1, <2>2, <3>2, PhaseFrame
  <2> QED BY <2>2, <2>3, <2>4
<1>5. CASE UNCHANGED vars
  BY <1>1, <1>5 DEF vars, serverVars
<1>6. ASSUME NEW p \in Proxy, Bind(p) \/ FreeProxyConn(p) \/ HandlePeerProxyConnClose(p)
      PROVE  \A j \in Client : Phase(j)'
  BY <1>1, <1>6 DEF Bind, NewProxyConn, FindControl, ClaimNull, ClaimProxyConn, AddWait,
                    HandleStartProxyConnReq, HandleStartProxyConnRsp,
                    FreeProxyConn, HandlePeerProxyConnClose, serverVars
<1>7. ASSUME NEW x \in Pub, NEW k \in Client, NewPublicConnOnFree(x, k) PROVE \A j \in Client : Phase(j)'
  BY <1>1, <1>7 DEF NewPublicConnOnFree, serverVars
<1>8. ASSUME NEW k \in Client, HandleCtlConnClose(k) PROVE \A j \in Client : Phase(j)'
  BY <1>1, <1>8 DEF HandleCtlConnClose
<1> QED BY <1>2, <1>3, <1>4, <1>5, <1>6, <1>7, <1>8, PhaseRegister DEF Next, Notified
----------------------------------------------------------------------------
\* A lost client stays lost, and the tunnel a client knows stays its tunnel.
LEMMA ClientsKeep ==
  ASSUME Inv, \A j \in Client : Phase(j), [Next]_vars
  PROVE  \A j \in Client : /\ client[j].st = "lost" => client'[j].st = "lost"
                           /\ client[j].tun # None => client'[j].tun = client[j].tun
<1> USE DEF Inv
<1>1. ASSUME UNCHANGED client
      PROVE  \A j \in Client : /\ client[j].st = "lost" => client'[j].st = "lost"
                               /\ client[j].tun # None => client'[j].tun = client[j].tun
  BY <1>1
<1>2. ASSUME NEW k \in Client, Start(k) \/ LoseClient(k) \/ ClientAborts(k) \/ HandleNewCtlRsp(k)
      PROVE  \A j \in Client : /\ client[j].st = "lost" => client'[j].st = "lost"
                               /\ client'[j].tun = client[j].tun
  BY <1>2, Grouped DEF Start, LoseClient, ClientAborts, HandleNewCtlRsp, Up, ClientType
<1>3. ASSUME NEW k \in Client, HandleNewTunnelRsp(k)
      PROVE  \A j \in Client : /\ client[j].st = "lost" => client'[j].st = "lost"
                               /\ client[j].tun # None => client'[j].tun = client[j].tun
  <2>1. toClient \in [Client -> Seq(CtlMsg)]
    BY DEF TypeOK
  <2>2. /\ toClient[k] # << >> /\ Head(toClient[k]).type = "NewTunnelRsp"
        /\ Head(toClient[k]) = toClient[k][1] /\ Head(toClient[k]) \in Range(toClient[k])
    BY <1>3, <2>1, ReadAt DEF HandleNewTunnelRsp, Next1
  <2>3. Head(toClient[k]).id = control[k].tun
    BY <2>2 DEF Phase
  <2>4. /\ client'[k].tun = control[k].tun /\ client'[k].st = client[k].st
        /\ \A j \in Client : j # k => client'[j] = client[j]
    BY <1>3, <2>3, Grouped DEF HandleNewTunnelRsp, ClientType
  <2> QED BY <2>4 DEF Phase
<1>4. CASE UNCHANGED vars
  BY <1>1, <1>4 DEF vars
<1>5. ASSUME NEW p \in Proxy, Bind(p) \/ FreeProxyConn(p) \/ HandlePeerProxyConnClose(p)
      PROVE  UNCHANGED client
  BY <1>5 DEF Bind, NewProxyConn, FindControl, ClaimNull, ClaimProxyConn, AddWait,
                    HandleStartProxyConnReq, HandleStartProxyConnRsp,
              FreeProxyConn, HandlePeerProxyConnClose
<1>6. ASSUME NEW x \in Pub, NEW k \in Client, NewPublicConn(x, k) \/ NewPublicConnOnFree(x, k)
      PROVE  UNCHANGED client
  BY <1>6 DEF NewPublicConn, NewPublicConnOnFree
<1>7. ASSUME NEW k \in Client,
             \/ HandleCtlConnClose(k) \/ HandleNewCtlReq(k) \/ AnnounceTunnel(k) \/ Notified(k)
             \/ \E i \in CtlId : NewCtlConn(k, i)
             \/ \E t \in TunId : HandleNewTunnelReq(k, t)
      PROVE  UNCHANGED client
  BY <1>7 DEF HandleCtlConnClose, HandleNewCtlReq, AnnounceTunnel, Notified, HandleProxyNotify,
              NewCtlConn, HandleNewTunnelReq
<1> QED BY <1>1, <1>2, <1>3, <1>4, <1>5, <1>6, <1>7 DEF Next, Register

\* The control of a client that is there stays in the map: an id is used once, and
\* only the loss of its own client erases it.
LEMMA MapUpNext ==
  ASSUME Inv, \A j \in Client : Phase(j), MapUp, [Next]_vars
  PROVE  MapUp'
<1> USE DEF Inv
<1>0. \A j \in Client : client'[j].st # "lost" => client[j].st # "lost"
  BY ClientsKeep
<1>1. ASSUME UNCHANGED control_map, \A j \in Client : control'[j].id = control[j].id PROVE MapUp'
  BY <1>0, <1>1 DEF MapUp
<1>2. ASSUME NEW k \in Client, NEW i \in CtlId, NewCtlConn(k, i) PROVE MapUp'
  <2>1. \A j \in Client : control[j].id # i
    BY <1>2, RegistrationAssumption DEF NewCtlConn, UnusedId, Retired
  <2>2. control'[k].id = i /\ \A j \in Client : j # k => control'[j].id = control[j].id
    BY <1>2 DEF NewCtlConn, TypeOK
  <2>3. control_map'[i] = k /\ \A j \in CtlId : j # i => control_map'[j] = control_map[j]
    BY <1>2 DEF NewCtlConn, UnusedId, TypeOK
  <2>4. \A j \in Client : control[j].id \in CtlId \cup {None}
    BY DEF TypeOK
  <2> QED BY <1>0, <2>1, <2>2, <2>3, <2>4 DEF MapUp
<1>3. ASSUME NEW k \in Client, HandleCtlConnClose(k) PROVE MapUp'
  <2>1. client[k].st = "lost" /\ control[k].id # None /\ UNCHANGED <<client, control>>
    BY <1>3 DEF HandleCtlConnClose
  <2>2. \A i \in CtlId : i # control[k].id => control_map'[i] = control_map[i]
    BY <1>3 DEF HandleCtlConnClose, Erased, TypeOK
  <2>3. \A j \in Client : control[j].id \in CtlId \cup {None}
    BY DEF TypeOK
  <2> QED BY <2>1, <2>2, <2>3 DEF MapUp, MapInv
<1>4. CASE UNCHANGED vars
  BY <1>1, <1>4 DEF vars, serverVars
<1>5. ASSUME NEW p \in Proxy, Bind(p) \/ FreeProxyConn(p) \/ HandlePeerProxyConnClose(p)
      PROVE  MapUp'
  BY <1>1, <1>5 DEF Bind, NewProxyConn, FindControl, ClaimNull, ClaimProxyConn, AddWait,
                    HandleStartProxyConnReq, HandleStartProxyConnRsp,
                    FreeProxyConn, HandlePeerProxyConnClose, serverVars
<1>6. ASSUME NEW x \in Pub, NEW k \in Client, NewPublicConn(x, k) \/ NewPublicConnOnFree(x, k)
      PROVE  MapUp'
  BY <1>1, <1>6 DEF NewPublicConn, NewPublicConnOnFree, serverVars
<1>7. ASSUME NEW k \in Client,
             \/ Start(k) \/ HandleNewCtlReq(k) \/ HandleNewCtlRsp(k) \/ AnnounceTunnel(k)
             \/ HandleNewTunnelRsp(k) \/ Notified(k) \/ LoseClient(k) \/ ClientAborts(k)
      PROVE  MapUp'
  BY <1>1, <1>7 DEF Start, HandleNewCtlReq, HandleNewCtlRsp, AnnounceTunnel, HandleNewTunnelRsp,
                    Notified, HandleProxyNotify, LoseClient, ClientAborts, serverVars
<1>8. ASSUME NEW k \in Client, NEW t \in TunId, HandleNewTunnelReq(k, t) PROVE MapUp'
  <2>1. \A j \in Client : control'[j].id = control[j].id
    BY <1>8 DEF HandleNewTunnelReq, TypeOK
  <2> QED BY <1>1, <1>8, <2>1 DEF HandleNewTunnelReq
<1> QED BY <1>2, <1>3, <1>4, <1>5, <1>6, <1>7, <1>8 DEF Next, Register

----------------------------------------------------------------------------
Coming == {"connected", "unclaimed", "found"}

\* What becomes of the proxy connections, of the null pointers and of the server
\* in a step: one new proxy connection at most sets out, for the tunnel its client
\* knows, and none changes its owner or its tunnel on the way.
ProxyStep ==
  /\ \A q \in Proxy : proxy'[q].st \in Coming =>
       \/ /\ proxy[q].st \in Coming
          /\ proxy'[q].owner = proxy[q].owner /\ proxy'[q].tun_id = proxy[q].tun_id
       \/ /\ proxy'[q].owner \in Client /\ client'[proxy'[q].owner].tun # None
          /\ proxy'[q].tun_id = client'[proxy'[q].owner].tun
  /\ \E M : /\ IsFiniteSet(M)
            /\ \A q \in Proxy : proxy'[q].st # "none" => proxy[q].st # "none" \/ q \in M
  /\ \A k \in Client : None \in Range(free_proxy_conns'[k]) =>
       None \in Range(free_proxy_conns[k]) \/ SomeLost
  /\ down' => down \/ SomeLost \/ Overlooked'

\* When the server is down, nothing is inserted or claimed any more.
LEMMA OverlookedKept ==
  ASSUME Inv, [Next]_vars, down, Overlooked
  PROVE  Overlooked'
<1> USE DEF Inv
<1>1. PICK p \in Proxy, k \in Client :
        /\ proxy[p].st = "found" /\ control_map[proxy[p].ctl_id] \in Racy
        /\ client[k].st # "off" /\ control[k].id = None
  BY DEF Overlooked, Hidden
<1>2. ASSUME proxy'[p] = proxy[p], UNCHANGED <<control, control_map>>, client'[k].st # "off"
      PROVE  Overlooked'
  BY <1>1, <1>2 DEF Overlooked, Hidden
<1>3. CASE UNCHANGED vars
  BY <1>1, <1>2, <1>3 DEF vars, serverVars
<1>4. ASSUME NEW j \in Client, LoseClient(j) \/ ClientAborts(j) PROVE Overlooked'
  <2>1. client'[k].st # "off"
    BY <1>1, <1>4, Grouped DEF LoseClient, ClientAborts, ClientType
  <2> QED BY <1>2, <1>4, <2>1 DEF LoseClient, ClientAborts, serverVars
<1>5. ASSUME NEW j \in Client, HandleNewCtlRsp(j) \/ HandleNewTunnelRsp(j) PROVE Overlooked'
  <2>1. client'[k].st # "off"
    <3>1. CASE HandleNewCtlRsp(j)
      BY <1>1, <3>1, Grouped DEF HandleNewCtlRsp, ClientType
    <3>2. CASE HandleNewTunnelRsp(j)
      BY <1>1, <3>2, Grouped DEF HandleNewTunnelRsp, ClientType
    <3> QED BY <1>5, <3>1, <3>2
  <2> QED BY <1>2, <1>5, <2>1 DEF HandleNewCtlRsp, HandleNewTunnelRsp, serverVars
<1>6. ASSUME NEW j \in Client, NEW q \in Proxy, HandleProxyNotify(j, q) PROVE Overlooked'
  <2>1. proxy'[p] = proxy[p]
    BY <1>1, <1>6 DEF HandleProxyNotify, TypeOK
  <2> QED BY <1>1, <1>2, <1>6, <2>1 DEF HandleProxyNotify, serverVars
<1>7. ASSUME NEW j \in Client, HandleCtlConnClose(j) \/ HandleNewCtlReq(j) \/ AnnounceTunnel(j)
                                 \/ Start(j) \/ (\E i \in CtlId : NewCtlConn(j, i))
                                 \/ \E t \in TunId : HandleNewTunnelReq(j, t)
      PROVE  FALSE
  BY <1>7 DEF HandleCtlConnClose, HandleNewCtlReq, AnnounceTunnel, Start, NewCtlConn,
              HandleNewTunnelReq, MainIdle
<1>8. ASSUME NEW q \in Proxy, Bind(q) \/ FreeProxyConn(q) \/ HandlePeerProxyConnClose(q) PROVE FALSE
  BY <1>8 DEF Bind, NewProxyConn, FindControl, ClaimNull, ClaimProxyConn, AddWait, MainIdle,
              HandleStartProxyConnReq, HandleStartProxyConnRsp, FreeProxyConn, HandlePeerProxyConnClose
<1>9. ASSUME NEW x \in Pub, NEW j \in Client, NewPublicConn(x, j) \/ NewPublicConnOnFree(x, j)
      PROVE  FALSE
  BY <1>9 DEF NewPublicConn, NewPublicConnOnFree, Connects, ListenerIdle
<1> QED BY <1>3, <1>4, <1>5, <1>6, <1>7, <1>8, <1>9 DEF Next, Register, Notified

\* Such a step keeps the invariants about proxy connections, null pointers and the
\* server.
LEMMA ProxyKept ==
  ASSUME Inv, \A j \in Client : Phase(j), WayInv, NullInv, DownByLossOrRace, [Next]_vars, ProxyStep
  PROVE  WayInv' /\ NullInv' /\ DownByLossOrRace'
<1>0. \A j \in Client : /\ client[j].st = "lost" => client'[j].st = "lost"
                        /\ client[j].tun # None => client'[j].tun = client[j].tun
  BY ClientsKeep
<1>1. SomeLost => SomeLost'
  BY <1>0 DEF SomeLost
<1>2. NullInv'
  BY <1>1 DEF ProxyStep, NullInv
<1>3. IsFiniteSet({p \in Proxy : proxy'[p].st # "none"})
  <2>1. PICK M : /\ IsFiniteSet(M)
                 /\ \A q \in Proxy : proxy'[q].st # "none" => proxy[q].st # "none" \/ q \in M
    BY DEF ProxyStep
  <2>2. IsFiniteSet({p \in Proxy : proxy[p].st # "none"} \cup M)
    BY <2>1, FS_Union DEF WayInv
  <2>3. {p \in Proxy : proxy'[p].st # "none"} \in SUBSET ({p \in Proxy : proxy[p].st # "none"} \cup M)
    BY <2>1
  <2> QED BY <2>2, <2>3, FS_Subset
<1>4. ASSUME NEW k \in Client, NEW p \in OnWay(k)'
      PROVE  client'[k].tun # None /\ proxy'[p].tun_id = client'[k].tun
  <2>1. p \in Proxy /\ proxy'[p].owner = k /\ proxy'[p].st \in Coming
    BY DEF OnWay, Coming
  <2>2. CASE /\ proxy[p].st \in Coming
             /\ proxy'[p].owner = proxy[p].owner /\ proxy'[p].tun_id = proxy[p].tun_id
    <3>1. p \in OnWay(k)
      BY <2>1, <2>2 DEF OnWay, Coming
    <3> QED BY <1>0, <2>2, <3>1 DEF WayInv
  <2> QED BY <2>1, <2>2 DEF ProxyStep
<1>5. DownByLossOrRace'
  <2>1. down => SomeLost \/ Overlooked
    BY DEF DownByLossOrRace, SomeLost, Overlooked
  <2>2. down' => SomeLost' \/ Overlooked'
    BY <1>1, <2>1, OverlookedKept DEF ProxyStep
  <2> QED BY <2>2 DEF DownByLossOrRace, SomeLost, Overlooked
<1> QED BY <1>2, <1>3, <1>4, <1>5 DEF WayInv

\* One proxy connection changes, and is not the first to be on its way again.
LEMMA OneProxyStep ==
  ASSUME TypeOK, NEW p \in Proxy, NEW r \in ProxyState, proxy' = [proxy EXCEPT ![p] = r],
         r.st \in Coming => proxy[p].st \in Coming /\ r.owner = proxy[p].owner /\ r.tun_id = proxy[p].tun_id,
         proxy[p].st # "none"
  PROVE  /\ \A q \in Proxy : proxy'[q].st \in Coming =>
              /\ proxy[q].st \in Coming
              /\ proxy'[q].owner = proxy[q].owner /\ proxy'[q].tun_id = proxy[q].tun_id
         /\ \E M : /\ IsFiniteSet(M)
                   /\ \A q \in Proxy : proxy'[q].st # "none" => proxy[q].st # "none" \/ q \in M
<1>1. \A q \in Proxy : proxy'[q] = IF q = p THEN r ELSE proxy[q]
  BY DEF TypeOK
<1>2. IsFiniteSet({})
  BY FS_EmptySet
<1> QED BY <1>1, <1>2

\* Nothing of that changes.
LEMMA SameProxyStep ==
  ASSUME UNCHANGED proxy, down' => down,
         \A k \in Client : Range(free_proxy_conns'[k]) \subseteq Range(free_proxy_conns[k])
  PROVE  ProxyStep
<1>1. IsFiniteSet({})
  BY FS_EmptySet
<1> QED BY <1>1 DEF ProxyStep

\* A worker that claims a proxy connection finds the tunnel it was made for, with
\* a public connection parked there.
LEMMA ClaimFinds ==
  ASSUME Inv, ParkInv, NEW p \in Proxy, ClaimProxyConn(p)
  PROVE  LET k == control_map[proxy[p].ctl_id]
         IN /\ k \in Client /\ k = proxy[p].owner /\ p \in OnWay(k)
            /\ control[k].tun = proxy[p].tun_id /\ announcing # k
            /\ undeal_public_fds[k] \in Seq(Pub) /\ undeal_public_fds[k] # << >>
            /\ IsFiniteSet(OnWay(k)) /\ Cardinality(OnWay(k)) \in Nat /\ Asked(k) \in Nat
<1> USE DEF Inv, ParkInv
<1> DEFINE k == control_map[proxy[p].ctl_id]
<1>1. /\ proxy[p].owner \in Client /\ proxy[p].ctl_id \in CtlId
      /\ proxy[p].ctl_id = control[proxy[p].owner].id /\ proxy[p].st = "found"
  BY DEF ClaimProxyConn, BindInv, ProxyInv
<1>2. k \in Client
  BY <1>1 DEF ClaimProxyConn, TypeOK
<1>3. k = proxy[p].owner
  BY <1>1, <1>2, RegistrationAssumption DEF MapInv
<1>4. p \in OnWay(k)
  BY <1>1, <1>3 DEF OnWay
<1>5. client[k].tun # None /\ proxy[p].tun_id = client[k].tun
  BY <1>2, <1>4 DEF WayInv
<1>6. control[k].tun = proxy[p].tun_id /\ announcing # k
  BY <1>2, <1>5 DEF Phase
<1>7. IsFiniteSet(OnWay(k)) /\ Cardinality(OnWay(k)) \in Nat
  <2>1. OnWay(k) \in SUBSET {q \in Proxy : proxy[q].st # "none"}
    BY DEF OnWay
  <2> QED BY <2>1, FS_Subset, FS_CardinalityType DEF WayInv
<1>8. Asked(k) \in Nat /\ undeal_public_fds[k] \in Seq(Pub)
  <2>1. toClient[k] \in Seq(CtlMsg) /\ undeal_public_fds[k] \in Seq(Pub)
    BY <1>2 DEF TypeOK
  <2> QED BY <2>1, PositionsFinite DEF Asked
<1>9. Cardinality(OnWay(k)) # 0
  BY <1>4, <1>7, FS_EmptySet
<1>10. Len(undeal_public_fds[k]) # 0
  <2>1. Awaited(k)
    BY <1>2
  <2> HIDE DEF k, ParkInv, Inv
  <2> QED BY <1>7, <1>8, <1>9, <2>1 DEF Awaited
<1>11. undeal_public_fds[k] # << >>
  BY <1>10
<1> HIDE DEF k
<1> QED BY <1>2, <1>3, <1>4, <1>6, <1>7, <1>8, <1>11 DEF k

\* Every step is such a step.
LEMMA ProxyStepNext ==
  ASSUME Inv, ParkInv, [Next]_vars
  PROVE  ProxyStep
<1> USE DEF Inv
<1>1. CASE UNCHANGED vars
  BY <1>1, SameProxyStep DEF vars, listVars
<1>2. ASSUME NEW k \in Client,
             \/ Start(k) \/ Register(k) \/ LoseClient(k) \/ ClientAborts(k) \/ HandleCtlConnClose(k)
      PROVE  ProxyStep
  BY <1>2, SameProxyStep
     DEF Start, Register, NewCtlConn, HandleNewCtlReq, HandleNewCtlRsp, HandleNewTunnelReq,
         AnnounceTunnel, HandleNewTunnelRsp, LoseClient, ClientAborts, HandleCtlConnClose, listVars
<1>3. ASSUME NEW x \in Pub, NEW k \in Client, NewPublicConn(x, k) PROVE ProxyStep
  BY <1>3, SameProxyStep DEF NewPublicConn
<1>4. ASSUME NEW x \in Pub, NEW k \in Client, NewPublicConnOnFree(x, k) PROVE ProxyStep
  <2> DEFINE p == Last(free_proxy_conns[k])
  <2>1. free_proxy_conns[k] \in Seq(Proxy \cup {None}) /\ free_proxy_conns[k] # << >>
    BY <1>4 DEF NewPublicConnOnFree, TypeOK
  <2>2. /\ Front(free_proxy_conns[k]) \in Seq(Proxy \cup {None})
        /\ Range(Front(free_proxy_conns[k])) \subseteq Range(free_proxy_conns[k])
        /\ p \in Range(free_proxy_conns[k]) /\ p \in Proxy \cup {None}
    BY <2>1, FrontFacts
  <2>3. \A j \in Client : Range(free_proxy_conns'[j]) \subseteq Range(free_proxy_conns[j])
    BY <1>4, <2>2 DEF NewPublicConnOnFree, TypeOK
  <2>4. CASE p = None
    <3>1. UNCHANGED proxy /\ SomeLost
      BY <1>4, <2>2, <2>4 DEF NewPublicConnOnFree, ParkInv, NullInv
    <3>2. IsFiniteSet({})
      BY FS_EmptySet
    <3> QED BY <2>3, <3>1, <3>2 DEF ProxyStep
  <2>5. CASE p # None
    <3>1. PICK q \in Proxy : q = p
      BY <2>2, <2>5
    <3> DEFINE r == [proxy[q] EXCEPT !.st = "starting", !.pub = x, !.wait = "adding"]
    <3>2. proxy' = [proxy EXCEPT ![q] = r] /\ UNCHANGED down
      BY <1>4, <2>5, <3>1 DEF NewPublicConnOnFree
    <3>3. r \in ProxyState /\ r.st = "starting"
      BY ZenonT(60) DEF TypeOK, ProxyState, Claimed
    <3>4. proxy[q].st # "none"
      BY <2>2, <2>5, <3>1 DEF BindInv, ListInv, Claimed
    <3> HIDE DEF r, p
    <3> QED BY <2>3, <3>2, <3>3, <3>4, OneProxyStep DEF ProxyStep, Coming
  <2> QED BY <2>4, <2>5
<1>5. ASSUME NEW k \in Client, NEW p \in Proxy, HandleProxyNotify(k, p) PROVE ProxyStep
  <2> DEFINE r == [NoProxy EXCEPT !.st = "connected", !.owner = k,
                                  !.ctl_id = client[k].id, !.tun_id = client[k].tun]
  <2>1. UNCHANGED <<client, listVars, down>>
    BY <1>5 DEF HandleProxyNotify
  <2>2. CASE proxy' = proxy
    BY <2>1, <2>2, SameProxyStep DEF listVars
  <2>3. CASE client[k].tun = Head(toClient[k]).id /\ proxy' = [proxy EXCEPT ![p] = r]
    <3>1. Head(toClient[k]).id \in TunId
      BY <1>5, ReadFacts, MessageIds DEF HandleProxyNotify, Next1, TypeOK
    <3>2. r.owner = k /\ r.tun_id = client[k].tun /\ client[k].tun # None
      BY <2>3, <3>1, RegistrationAssumption DEF NoProxy
    <3> HIDE DEF r
    <3>3. \A q \in Proxy : proxy'[q] = IF q = p THEN r ELSE proxy[q]
      BY <2>3 DEF TypeOK
    <3>4. IsFiniteSet({p})
      BY FS_Singleton
    <3>5. \A q \in Proxy : proxy'[q].st # "none" => proxy[q].st # "none" \/ q \in {p}
      BY <3>3
    <3> QED BY <2>1, <3>2, <3>3, <3>4, <3>5 DEF ProxyStep, listVars
  <2> QED BY <1>5, <2>2, <2>3 DEF HandleProxyNotify
<1>6. ASSUME NEW p \in Proxy, NEW r \in ProxyState, proxy' = [proxy EXCEPT ![p] = r],
             r.st \in Coming => proxy[p].st \in Coming,
             r.owner = proxy[p].owner, r.tun_id = proxy[p].tun_id, proxy[p].st # "none",
             down' => down \/ SomeLost,
             \A k \in Client : None \in Range(free_proxy_conns'[k]) =>
               None \in Range(free_proxy_conns[k]) \/ SomeLost
      PROVE  ProxyStep
  BY <1>6, OneProxyStep DEF ProxyStep
<1>7. ASSUME NEW p \in Proxy, NEW s, s \in {"unclaimed", "found", "stray", "bound"},
             proxy' = [proxy EXCEPT ![p].st = s],
             s \in Coming => proxy[p].st \in Coming, proxy[p].st # "none",
             UNCHANGED <<free_proxy_conns, down>>
      PROVE  ProxyStep
  <2> DEFINE r == [proxy[p] EXCEPT !.st = s]
  <2>1. proxy' = [proxy EXCEPT ![p] = r]
    BY <1>7 DEF TypeOK
  <2>2. r \in ProxyState /\ r.st = s /\ r.owner = proxy[p].owner /\ r.tun_id = proxy[p].tun_id
    BY <1>7, ZenonT(60) DEF TypeOK, ProxyState, Claimed
  <2> HIDE DEF r
  <2> QED BY <1>6, <1>7, <2>1, <2>2
<1>8. ASSUME NEW p \in Proxy, NewProxyConn(p) PROVE ProxyStep
  BY <1>7, <1>8 DEF NewProxyConn, Coming, listVars
<1>9. ASSUME NEW p \in Proxy, NEW k \in Client \cup {None}, FindControl(p, k) PROVE ProxyStep
  <2>1. CASE k = None
    BY <1>7, <1>9, <2>1 DEF FindControl, Coming, listVars
  <2>2. CASE k # None
    BY <1>7, <1>9, <2>2 DEF FindControl, Coming, listVars
  <2> QED BY <2>1, <2>2
<1>10. ASSUME NEW p \in Proxy, Moves(p) PROVE ProxyStep
  <2>1. PICK r \in ProxyState :
          /\ proxy' = [proxy EXCEPT ![p] = r]
          /\ proxy[p].st \in Claimed /\ r.st \in Claimed
          /\ r.owner = proxy[p].owner /\ r.tun_id = proxy[p].tun_id
    BY <1>10, MovedOn
  <2>2. UNCHANGED <<free_proxy_conns, down>>
    BY <1>10, MovedOn DEF listVars
  <2> QED BY <1>6, <2>1, <2>2 DEF Coming, Claimed
<1>11. ASSUME NEW p \in Proxy, ClaimNull(p) PROVE ProxyStep
  <2>1. /\ proxy[p].owner \in Client /\ proxy[p].ctl_id \in CtlId
        /\ proxy[p].ctl_id = control[proxy[p].owner].id
    BY <1>11 DEF ClaimNull, BindInv, ProxyInv
  <2>2. control_map[proxy[p].ctl_id] = None \/ Hidden(proxy[p].ctl_id)
    BY <1>11 DEF ClaimNull, Lookup
  <2>3. ASSUME control_map[proxy[p].ctl_id] = None PROVE SomeLost
    <3>1. client[proxy[p].owner].st = "lost"
      BY <2>1, <2>3, RegistrationAssumption DEF ParkInv, MapUp
    <3> QED BY <2>1, <3>1 DEF SomeLost
  <2>4. ASSUME Hidden(proxy[p].ctl_id) PROVE Overlooked'
    <3>1. Overlooked
      BY <1>11, <2>4 DEF ClaimNull, Overlooked
    <3> QED BY <1>11, <3>1 DEF ClaimNull, Overlooked, Hidden, serverVars
  <2>5. SomeLost \/ Overlooked'
    BY <2>2, <2>3, <2>4
  <2>6. IsFiniteSet({})
    BY FS_EmptySet
  <2> QED BY <1>11, <2>5, <2>6 DEF ClaimNull, ProxyStep, listVars
<1>12. ASSUME NEW p \in Proxy, ClaimProxyConn(p) PROVE ProxyStep
  <2> DEFINE k == control_map[proxy[p].ctl_id]
             e == IF undeal_public_fds[k] = << >> THEN None ELSE Last(undeal_public_fds[k])
             r == [proxy[p] EXCEPT !.st = "bound", !.tun = k, !.pub = e]
  <2>1. /\ k \in Client /\ control[k].tun = proxy[p].tun_id /\ announcing # k
        /\ undeal_public_fds[k] \in Seq(Pub) /\ undeal_public_fds[k] # << >>
    BY <1>12, ClaimFinds
  <2>2. /\ proxy' = [proxy EXCEPT ![p] = r] /\ down' = (undeal_public_fds[k] = << >>)
        /\ proxy[p].st = "found" /\ UNCHANGED free_proxy_conns
    BY <1>12, <2>1 DEF ClaimProxyConn
  <2>3. ~down'
    BY <2>1, <2>2, Zenon
  <2>4. r \in ProxyState /\ r.st = "bound" /\ r.owner = proxy[p].owner /\ r.tun_id = proxy[p].tun_id
    <3>1. Last(undeal_public_fds[k]) \in Pub
      BY <2>1, FrontFacts
    <3>2. e \in Pub \cup {None} /\ k \in Client \cup {None}
      BY <2>1, <3>1
    <3> HIDE DEF k, e
    <3> QED BY <3>2, ZenonT(60) DEF TypeOK, ProxyState, Claimed
  <2> HIDE DEF r, k, e
  <2> QED BY <1>6, <2>2, <2>3, <2>4 DEF Coming
<1>13. ASSUME NEW p \in Proxy, FreeProxyConn(p) PROVE ProxyStep
  <2> DEFINE r == [proxy[p] EXCEPT !.st = "free", !.pub = None]
             k == proxy[p].tun
  <2>1. r \in ProxyState /\ r.st = "free" /\ r.owner = proxy[p].owner /\ r.tun_id = proxy[p].tun_id
    BY ZenonT(60) DEF TypeOK, ProxyState, Claimed
  <2>2. proxy' = [proxy EXCEPT ![p] = r] /\ proxy[p].st = "bound" /\ UNCHANGED down
    BY <1>13 DEF FreeProxyConn
  <2>3. k \in Client /\ free_proxy_conns[k] \in Seq(Proxy \cup {None})
    BY <1>13 DEF FreeProxyConn, BindInv, ProxyInv, TypeOK, Claimed
  <2>4. Range(Append(free_proxy_conns[k], p)) \subseteq Range(free_proxy_conns[k]) \cup {p}
    BY <2>3, AppendFacts
  <2>5. /\ free_proxy_conns'[k] = Append(free_proxy_conns[k], p)
        /\ \A j \in Client : j # k => free_proxy_conns'[j] = free_proxy_conns[j]
    BY <1>13, <2>3 DEF FreeProxyConn, TypeOK
  <2>6. \A j \in Client : None \in Range(free_proxy_conns'[j]) => None \in Range(free_proxy_conns[j])
    BY <2>4, <2>5, RegistrationAssumption
  <2> HIDE DEF r
  <2> QED BY <1>6, <2>1, <2>2, <2>6 DEF Coming
<1>14. ASSUME NEW p \in Proxy, HandlePeerProxyConnClose(p) PROVE ProxyStep
  <2> DEFINE r == [proxy[p] EXCEPT !.closed = TRUE]
  <2>1. r \in ProxyState /\ r.st = proxy[p].st /\ r.owner = proxy[p].owner /\ r.tun_id = proxy[p].tun_id
    BY ZenonT(60) DEF TypeOK, ProxyState
  <2>2. proxy' = [proxy EXCEPT ![p] = r] /\ proxy[p].st # "none" /\ UNCHANGED down
    BY <1>14 DEF HandlePeerProxyConnClose, Claimed
  <2>3. SomeLost
    BY <1>14 DEF HandlePeerProxyConnClose, SomeLost, BindInv, ProxyInv
  <2> HIDE DEF r
  <2> QED BY <1>6, <2>1, <2>2, <2>3
<1> QED
  BY <1>1, <1>2, <1>3, <1>4, <1>5, <1>8, <1>9, <1>10, <1>11, <1>12, <1>13, <1>14
     DEF Next, Notified, Bind, Moves

----------------------------------------------------------------------------
(***************************************************************************)
(* Counting what is parked, asked for and on its way                       *)
(***************************************************************************)

\* All three numbers are finite.
LEMMA Counts ==
  ASSUME TypeOK, WayInv, NEW k \in Client
  PROVE  /\ IsFiniteSet(OnWay(k)) /\ Cardinality(OnWay(k)) \in Nat /\ Asked(k) \in Nat
         /\ undeal_public_fds[k] \in Seq(Pub) /\ Len(undeal_public_fds[k]) \in Nat
<1>1. OnWay(k) \in SUBSET {q \in Proxy : proxy[q].st # "none"}
  BY DEF OnWay
<1>2. IsFiniteSet(OnWay(k)) /\ Cardinality(OnWay(k)) \in Nat
  BY <1>1, FS_Subset, FS_CardinalityType DEF WayInv
<1>3. toClient[k] \in Seq(CtlMsg) /\ undeal_public_fds[k] \in Seq(Pub)
  BY DEF TypeOK
<1>4. Asked(k) \in Nat
  BY <1>3, PositionsFinite DEF Asked
<1> QED BY <1>2, <1>3, <1>4

\* A client keeps its numbers where its queue, its list and its connections do
\* not change.
LEMMA AwaitedFrame ==
  ASSUME NEW k \in Client, Awaited(k), OnWay(k)' = OnWay(k), Asked(k)' = Asked(k),
         undeal_public_fds'[k] = undeal_public_fds[k],
         client'[k].st # "lost" => client[k].st # "lost"
  PROVE  Awaited(k)'
  BY DEF Awaited

\* A message that is sent to a client is a request for a proxy connection or not.
LEMMA AskedTell ==
  ASSUME TypeOK, NEW k \in Client, NEW m \in CtlMsg, Tell(k, m)
  PROVE  /\ \A j \in Client : j # k => Asked(j)' = Asked(j)
         /\ Asked(k)' = Asked(k) + IF Up(k) /\ m \in Notify THEN 1 ELSE 0
<1>1. toClient \in [Client -> Seq(CtlMsg)] /\ toClient[k] \in Seq(CtlMsg) /\ Asked(k) \in Nat
  BY PositionsFinite DEF TypeOK, Asked
<1>2. \A j \in Client : j # k => toClient'[j] = toClient[j]
  BY TellFacts
<1>3. CASE Up(k)
  <2>1. toClient'[k] = Append(toClient[k], m)
    BY <1>1, <1>3 DEF Tell
  <2>2. Cardinality(Positions(Append(toClient[k], m), Notify)) =
          Cardinality(Positions(toClient[k], Notify)) + IF m \in Notify THEN 1 ELSE 0
    BY <1>1, CountAppend
  <2> QED BY <1>2, <1>3, <2>1, <2>2 DEF Asked
<1>4. CASE ~Up(k)
  <2>1. toClient' = toClient
    BY <1>4 DEF Tell
  <2> QED BY <1>1, <1>4, <2>1 DEF Asked
<1> QED BY <1>3, <1>4

\* So is one that a client reads.
LEMMA AskedRead ==
  ASSUME TypeOK, NEW k \in Client, toClient[k] # << >>, toClient' = [toClient EXCEPT ![k] = Tail(@)]
  PROVE  /\ \A j \in Client : j # k => Asked(j)' = Asked(j)
         /\ Asked(k)' = Asked(k) - IF Head(toClient[k]) \in Notify THEN 1 ELSE 0
<1>1. toClient \in [Client -> Seq(CtlMsg)] /\ toClient[k] \in Seq(CtlMsg)
  BY DEF TypeOK
<1>2. /\ toClient'[k] = Tail(toClient[k])
      /\ \A j \in Client : j # k => toClient'[j] = toClient[j]
  BY <1>1
<1>3. Cardinality(Positions(Tail(toClient[k]), Notify)) =
        Cardinality(Positions(toClient[k], Notify)) - IF Head(toClient[k]) \in Notify THEN 1 ELSE 0
  BY <1>1, CountTail
<1> QED BY <1>2, <1>3 DEF Asked

\* One proxy connection changes and is, or is not, on its way as before.
LEMMA SameWay ==
  ASSUME TypeOK, NEW p \in Proxy, NEW r \in ProxyState, proxy' = [proxy EXCEPT ![p] = r],
         r.owner = proxy[p].owner, r.st \in Coming <=> proxy[p].st \in Coming
  PROVE  \A j \in Client : OnWay(j)' = OnWay(j)
<1>1. \A q \in Proxy : proxy'[q] = IF q = p THEN r ELSE proxy[q]
  BY DEF TypeOK
<1> QED BY <1>1 DEF OnWay, Coming

\* One proxy connection has arrived, or is lost.
LEMMA LessWay ==
  ASSUME TypeOK, NEW p \in Proxy, NEW r \in ProxyState, proxy' = [proxy EXCEPT ![p] = r],
         r.st \notin Coming, NEW k \in Client, p \in OnWay(k)
  PROVE  /\ OnWay(k)' = OnWay(k) \ {p}
         /\ \A j \in Client : j # k => OnWay(j)' = OnWay(j)
<1>1. \A q \in Proxy : proxy'[q] = IF q = p THEN r ELSE proxy[q]
  BY DEF TypeOK
<1> QED BY <1>1 DEF OnWay, Coming

\* The registration of clients asks for no proxy connection.
LEMMA AwaitedRegister ==
  ASSUME Inv, ParkInv, NEW k \in Client, Start(k) \/ Register(k)
  PROVE  \A j \in Client : Awaited(j)'
<1> USE DEF Inv
<1>1. UNCHANGED <<proxy, undeal_public_fds>>
  BY DEF Start, Register, NewCtlConn, HandleNewCtlReq, HandleNewCtlRsp, HandleNewTunnelReq,
         AnnounceTunnel, HandleNewTunnelRsp, listVars
<1>2. \A j \in Client : /\ OnWay(j)' = OnWay(j) /\ undeal_public_fds'[j] = undeal_public_fds[j]
                        /\ Awaited(j)
  BY <1>1 DEF OnWay, ParkInv
<1>3. [Next]_vars
  BY DEF Next
<1>4. \A j \in Client : client'[j].st # "lost" => client[j].st # "lost"
  BY <1>3, ClientsKeep DEF ParkInv
<1>5. \A j \in Client : Asked(j)' = Asked(j)
  <2>1. ASSUME UNCHANGED toClient PROVE \A j \in Client : Asked(j)' = Asked(j)
    BY <2>1 DEF Asked
  <2>2. ASSUME NEW m \in CtlMsg, m \notin Notify, Tell(k, m) PROVE \A j \in Client : Asked(j)' = Asked(j)
    <3>1. Asked(k) \in Nat
      BY Counts DEF ParkInv
    <3>2. /\ \A j \in Client : j # k => Asked(j)' = Asked(j)
          /\ Asked(k)' = Asked(k) + IF Up(k) /\ m \in Notify THEN 1 ELSE 0
      BY <2>2, AskedTell
    <3> QED BY <2>2, <3>1, <3>2
  <2>3. ASSUME toClient[k] # << >>, Head(toClient[k]) \notin Notify,
               toClient' = [toClient EXCEPT ![k] = Tail(@)]
        PROVE  \A j \in Client : Asked(j)' = Asked(j)
    <3>1. Asked(k) \in Nat
      BY Counts DEF ParkInv
    <3>2. /\ \A j \in Client : j # k => Asked(j)' = Asked(j)
          /\ Asked(k)' = Asked(k) - IF Head(toClient[k]) \in Notify THEN 1 ELSE 0
      BY <2>3, AskedRead
    <3>3. Asked(k)' = Asked(k)
      BY <2>3, <3>1, <3>2
    <3> QED BY <3>2, <3>3
  <2>4. CASE \/ Start(k) \/ \E i \in CtlId : NewCtlConn(k, i)
             \/ \E t \in TunId : HandleNewTunnelReq(k, t)
    BY <2>1, <2>4 DEF Start, NewCtlConn, HandleNewTunnelReq
  <2>5. CASE HandleNewCtlReq(k)
    <3> DEFINE m == NewCtlRsp(control[k].id)
    <3>1. control[k].id \in CtlId
      BY <2>5 DEF HandleNewCtlReq, TypeOK
    <3>2. m \in CtlMsg /\ m \notin Notify
      BY <3>1, Messages DEF Notify, NewCtlRsp
    <3>3. Tell(k, m)
      BY <2>5 DEF HandleNewCtlReq
    <3> HIDE DEF m
    <3> QED BY <2>2, <3>2, <3>3
  <2>6. CASE AnnounceTunnel(k)
    <3> DEFINE m == NewTunnelRsp(control[k].tun)
    <3>1. control[k].tun \in TunId
      BY <2>6, RegistrationAssumption DEF AnnounceTunnel, KnowInv, TypeOK
    <3>2. m \in CtlMsg /\ m \notin Notify
      BY <3>1, Messages DEF Notify, NewTunnelRsp
    <3>3. Tell(k, m)
      BY <2>6 DEF AnnounceTunnel
    <3> HIDE DEF m
    <3> QED BY <2>2, <3>2, <3>3
  <2>7. CASE HandleNewCtlRsp(k) \/ HandleNewTunnelRsp(k)
    BY <2>3, <2>7 DEF HandleNewCtlRsp, HandleNewTunnelRsp, Next1, Notify
  <2> QED BY <2>4, <2>5, <2>6, <2>7 DEF Register
<1> QED BY <1>2, <1>4, <1>5, AwaitedFrame

\* A public connection that is parked is asked for, unless its client is lost.
LEMMA AwaitedNewPublicConn ==
  ASSUME Inv, ParkInv, NEW x \in Pub, NEW k \in Client, NewPublicConn(x, k)
  PROVE  \A j \in Client : Awaited(j)'
<1> USE DEF Inv
<1>1. /\ control[k].tun \in TunId /\ control[k].tun # None /\ UNCHANGED <<proxy, client>>
      /\ undeal_public_fds' = [undeal_public_fds EXCEPT ![k] = Append(@, x)]
      /\ Tell(k, NeedProxy(control[k].tun))
  BY DEF NewPublicConn, Connects, TypeOK
<1> DEFINE m == NeedProxy(control[k].tun)
<1>2. m \in CtlMsg /\ m \in Notify /\ Tell(k, m)
  BY <1>1, Messages DEF Notify, NeedProxy
<1> HIDE DEF m
<1>3. /\ \A j \in Client : j # k => Asked(j)' = Asked(j)
      /\ Asked(k)' = Asked(k) + IF Up(k) THEN 1 ELSE 0
  BY <1>2, AskedTell
<1>4. \A j \in Client : OnWay(j)' = OnWay(j) /\ Awaited(j)
  BY <1>1 DEF OnWay, ParkInv
<1>5. /\ Cardinality(OnWay(k)) \in Nat /\ Asked(k) \in Nat
      /\ undeal_public_fds[k] \in Seq(Pub) /\ Len(undeal_public_fds[k]) \in Nat
  BY Counts DEF ParkInv
<1>6. /\ undeal_public_fds'[k] = Append(undeal_public_fds[k], x)
      /\ \A j \in Client : j # k => undeal_public_fds'[j] = undeal_public_fds[j]
  BY <1>1 DEF TypeOK
<1>7. Len(undeal_public_fds'[k]) = Len(undeal_public_fds[k]) + 1
  BY <1>5, <1>6
<1>8. Up(k) \/ client[k].st = "lost"
  <2>1. client[k].st \in {"off", "up", "lost"}
    BY DEF TypeOK
  <2> QED BY <1>1, <2>1 DEF ParkInv, Phase, Up
<1>9. Awaited(k)'
  <2>1. Awaited(k) /\ OnWay(k)' = OnWay(k) /\ client' = client
    BY <1>1, <1>4
  <2>2. CASE Up(k)
    <3>1. Asked(k)' = Asked(k) + 1
      BY <1>3, <2>2
    <3>2. Cardinality(OnWay(k))' + Asked(k)' = Cardinality(OnWay(k)) + Asked(k) + 1
      BY <1>5, <2>1, <3>1
    <3>3. Cardinality(OnWay(k)) + Asked(k) \in Nat
      BY <1>5
    <3> QED BY <1>5, <1>7, <2>1, <3>2, <3>3 DEF Awaited
  <2>3. CASE ~Up(k)
    <3>1. Asked(k)' = Asked(k) /\ client[k].st = "lost"
      BY <1>3, <1>5, <1>8, <2>3
    <3> QED BY <1>5, <1>7, <2>1, <3>1 DEF Awaited
  <2> QED BY <2>2, <2>3
<1> QED BY <1>1, <1>3, <1>4, <1>6, <1>9, AwaitedFrame

\* A client that reads a request sends a proxy connection for it.  It can only fail
\* to know the tunnel where somebody connected too early.
LEMMA AwaitedHandleProxyNotify ==
  ASSUME Inv, ParkInv, NEW k \in Client, NEW p \in Proxy, HandleProxyNotify(k, p)
  PROVE  \A j \in Client : Awaited(j)'
<1> USE DEF Inv
<1>1. /\ toClient[k] # << >> /\ Head(toClient[k]).type = "NotifyClientNeedProxy"
      /\ toClient' = [toClient EXCEPT ![k] = Tail(@)]
      /\ proxy[p].st = "none" /\ UNCHANGED <<client, undeal_public_fds>>
  BY DEF HandleProxyNotify, Next1, listVars
<1>2. Head(toClient[k]) \in CtlMsg /\ Head(toClient[k]) \in Range(toClient[k])
  BY <1>1, ReadFacts DEF TypeOK
<1>3. Head(toClient[k]) \in Notify
  BY <1>1, <1>2 DEF Notify
<1>4. /\ \A j \in Client : j # k => Asked(j)' = Asked(j)
      /\ Asked(k)' = Asked(k) - 1
  BY <1>1, <1>3, AskedRead
<1>5. \A j \in Client : Awaited(j)
  BY DEF ParkInv
<1>6. /\ IsFiniteSet(OnWay(k)) /\ Cardinality(OnWay(k)) \in Nat /\ Asked(k) \in Nat
      /\ Len(undeal_public_fds[k]) \in Nat
  BY Counts DEF ParkInv
<1>7. CASE client[k].tun = Head(toClient[k]).id
  <2> DEFINE r == [NoProxy EXCEPT !.st = "connected", !.owner = k,
                                  !.ctl_id = client[k].id, !.tun_id = client[k].tun]
  <2>1. proxy' = [proxy EXCEPT ![p] = r]
    BY <1>7 DEF HandleProxyNotify
  <2>2. r.owner = k /\ r.st = "connected"
    BY DEF NoProxy
  <2> HIDE DEF r
  <2>3. \A q \in Proxy : proxy'[q] = IF q = p THEN r ELSE proxy[q]
    BY <2>1 DEF TypeOK
  <2>4. /\ OnWay(k)' = OnWay(k) \cup {p} /\ p \notin OnWay(k)
        /\ \A j \in Client : j # k => OnWay(j)' = OnWay(j)
    BY <1>1, <2>2, <2>3 DEF OnWay
  <2>5. Cardinality(OnWay(k)') = Cardinality(OnWay(k)) + 1
    BY <1>6, <2>4, FS_AddElement
  <2>6. Awaited(k)'
    <3>1. Awaited(k) /\ UNCHANGED <<client, undeal_public_fds>>
      BY <1>1, <1>5
    <3>2. Cardinality(OnWay(k))' + Asked(k)' = Cardinality(OnWay(k)) + Asked(k)
      BY <1>4, <1>6, <2>5
    <3> QED BY <3>1, <3>2 DEF Awaited
  <2> QED BY <1>1, <1>4, <1>5, <2>4, <2>6, AwaitedFrame
<1>8. CASE client[k].tun # Head(toClient[k]).id
  <2>1. proxy' = proxy
    BY <1>8 DEF HandleProxyNotify
  <2>2. \A j \in Client : OnWay(j)' = OnWay(j)
    BY <2>1 DEF OnWay
  <2>3. k \in Early
    <3>1. Phase(k) /\ Range(toClient[k]) # {} /\ Head(toClient[k]) = toClient[k][1]
      BY <1>1, <1>2 DEF ParkInv, TypeOK
    <3>2. control[k].tun # None
      BY <1>1, <3>1 DEF Phase
    <3> QED BY <1>1, <1>2, <1>8, <3>1, <3>2 DEF Phase
  <2>4. Awaited(k)'
    <3>1. Awaited(k) /\ UNCHANGED <<client, undeal_public_fds>> /\ OnWay(k)' = OnWay(k)
      BY <1>1, <1>5, <2>2
    <3> QED BY <1>4, <1>6, <2>3, <3>1 DEF Awaited
  <2> QED BY <1>1, <1>4, <1>5, <2>2, <2>4, AwaitedFrame
<1> QED BY <1>7, <1>8


\* A public connection that is given to a free proxy connection is not counted.
LEMMA AwaitedNewPublicConnOnFree ==
  ASSUME Inv, ParkInv, NEW x \in Pub, NEW k \in Client, NewPublicConnOnFree(x, k)
  PROVE  \A j \in Client : Awaited(j)'
<1> USE DEF Inv
<1> DEFINE p == Last(free_proxy_conns[k])
<1>1. UNCHANGED <<client, toClient, undeal_public_fds>>
  BY DEF NewPublicConnOnFree
<1>2. free_proxy_conns[k] \in Seq(Proxy \cup {None}) /\ free_proxy_conns[k] # << >>
  BY DEF NewPublicConnOnFree, TypeOK
<1>3. p \in Range(free_proxy_conns[k]) /\ p \in Proxy \cup {None}
  BY <1>2, FrontFacts
<1>4. \A j \in Client : OnWay(j)' = OnWay(j)
  <2>1. CASE p = None
    <3>1. proxy' = proxy
      BY <2>1 DEF NewPublicConnOnFree
    <3> QED BY <3>1 DEF OnWay
  <2>2. CASE p # None
    <3>1. PICK q \in Proxy : q = p
      BY <1>3, <2>2
    <3> DEFINE r == [proxy[q] EXCEPT !.st = "starting", !.pub = x, !.wait = "adding"]
    <3>2. proxy' = [proxy EXCEPT ![q] = r]
      BY <2>2, <3>1 DEF NewPublicConnOnFree
    <3>3. r \in ProxyState /\ r.st = "starting" /\ r.owner = proxy[q].owner
      BY ZenonT(60) DEF TypeOK, ProxyState, Claimed
    <3>4. proxy[q].st \in Claimed
      BY <1>3, <2>2, <3>1 DEF BindInv, ListInv
    <3> HIDE DEF r, p
    <3> QED BY <3>2, <3>3, <3>4, SameWay DEF Coming, Claimed
  <2> QED BY <2>1, <2>2
<1>5. \A j \in Client : Awaited(j) /\ Asked(j)' = Asked(j)
  BY <1>1 DEF ParkInv, Asked
<1> QED BY <1>1, <1>4, <1>5, AwaitedFrame

\* A proxy connection that is left unclaimed for ever belongs to a client that is
\* lost, or whose entry the lookup missed.
LEMMA AwaitedFindControl ==
  ASSUME Inv, ParkInv, NEW p \in Proxy, NEW f \in Client \cup {None}, FindControl(p, f)
  PROVE  \A j \in Client : Awaited(j)'
<1> USE DEF Inv
<1>1. /\ UNCHANGED <<client, toClient, undeal_public_fds>> /\ proxy[p].st = "unclaimed"
      /\ f \in Lookup(proxy[p].ctl_id)
  BY DEF FindControl, listVars
<1>2. \A j \in Client : Awaited(j) /\ Asked(j)' = Asked(j)
  BY <1>1 DEF ParkInv, Asked
<1>3. CASE f # None
  <2> DEFINE r == [proxy[p] EXCEPT !.st = "found"]
  <2>1. proxy' = [proxy EXCEPT ![p] = r]
    BY <1>3 DEF FindControl, TypeOK
  <2>2. r \in ProxyState /\ r.st = "found" /\ r.owner = proxy[p].owner
    BY ZenonT(60) DEF TypeOK, ProxyState
  <2> HIDE DEF r
  <2>3. \A j \in Client : OnWay(j)' = OnWay(j)
    BY <1>1, <2>1, <2>2, SameWay DEF Coming
  <2> QED BY <1>1, <1>2, <2>3, AwaitedFrame
<1>4. CASE f = None
  <2> DEFINE r == [proxy[p] EXCEPT !.st = "stray"]
             k == proxy[p].owner
  <2>1. proxy' = [proxy EXCEPT ![p] = r]
    BY <1>4 DEF FindControl, TypeOK
  <2>2. r \in ProxyState /\ r.st = "stray"
    BY ZenonT(60) DEF TypeOK, ProxyState
  <2>3. k \in Client /\ proxy[p].ctl_id \in CtlId /\ proxy[p].ctl_id = control[k].id
    BY <1>1 DEF BindInv, ProxyInv
  <2>4. p \in OnWay(k)
    BY <1>1 DEF OnWay
  <2>5. client[k].st = "lost" \/ k \in Racy
    <3>1. control_map[proxy[p].ctl_id] = None \/ control_map[proxy[p].ctl_id] \in Racy
      BY <1>1, <1>4 DEF Lookup, Hidden
    <3>2. CASE control_map[proxy[p].ctl_id] = None
      BY <2>3, <3>2, RegistrationAssumption DEF ParkInv, MapUp
    <3>3. CASE control_map[proxy[p].ctl_id] \in Racy
      <4>1. control_map[proxy[p].ctl_id] \in Client /\ control_map[proxy[p].ctl_id] # None
        BY <3>3, RegistrationAssumption
      <4> QED BY <2>3, <3>3, <4>1, RegistrationAssumption DEF MapInv
    <3> QED BY <3>1, <3>2, <3>3
  <2> HIDE DEF r
  <2>a. PICK c \in Client : c = k
    BY <2>3
  <2>b. p \in OnWay(c) /\ (client[c].st = "lost" \/ c \in Racy)
    BY <2>4, <2>5, <2>a
  <2> HIDE DEF k
  <2>6. /\ OnWay(c)' = OnWay(c) \ {p}
        /\ \A j \in Client : j # c => OnWay(j)' = OnWay(j)
    BY <2>1, <2>2, <2>b, LessWay DEF Coming
  <2>7. /\ IsFiniteSet(OnWay(c)) /\ Cardinality(OnWay(c)) \in Nat /\ Asked(c) \in Nat
        /\ Len(undeal_public_fds[c]) \in Nat
    BY Counts DEF ParkInv
  <2>8. Cardinality(OnWay(c) \ {p}) = Cardinality(OnWay(c)) - 1
    BY <2>7, <2>b, FS_RemoveElement
  <2>9. Awaited(c)'
    <3>1. Cardinality(OnWay(c))' = Cardinality(OnWay(c)) - 1
      BY <2>6, <2>8
    <3>2. Awaited(c) /\ Asked(c)' = Asked(c)
      BY <1>2
    <3> QED BY <1>1, <2>7, <2>b, <3>1, <3>2 DEF Awaited
  <2> QED BY <1>1, <1>2, <2>6, <2>9, AwaitedFrame
<1> QED BY <1>3, <1>4

\* A claim takes one proxy connection off its way and one public connection off
\* the list.
LEMMA AwaitedClaimProxyConn ==
  ASSUME Inv, ParkInv, NEW p \in Proxy, ClaimProxyConn(p)
  PROVE  \A j \in Client : Awaited(j)'
<1> USE DEF Inv
<1> DEFINE k == control_map[proxy[p].ctl_id]
           e == IF undeal_public_fds[k] = << >> THEN None ELSE Last(undeal_public_fds[k])
           r == [proxy[p] EXCEPT !.st = "bound", !.tun = k, !.pub = e]
<1>1. /\ k \in Client /\ p \in OnWay(k)
      /\ control[k].tun = proxy[p].tun_id /\ announcing # k
      /\ undeal_public_fds[k] \in Seq(Pub) /\ undeal_public_fds[k] # << >>
      /\ IsFiniteSet(OnWay(k)) /\ Cardinality(OnWay(k)) \in Nat /\ Asked(k) \in Nat
  BY ClaimFinds
<1>2. /\ proxy' = [proxy EXCEPT ![p] = r] /\ UNCHANGED <<client, toClient>>
      /\ undeal_public_fds' = [undeal_public_fds EXCEPT ![k] = PopUndeal(k)]
  BY <1>1 DEF ClaimProxyConn
<1>3. r \in ProxyState /\ r.st = "bound"
  <2>1. Last(undeal_public_fds[k]) \in Pub
    BY <1>1, FrontFacts
  <2>2. e \in Pub \cup {None} /\ k \in Client \cup {None}
    BY <1>1, <2>1
  <2> HIDE DEF k, e
  <2> QED BY <2>2, ZenonT(60) DEF TypeOK, ProxyState, Claimed
<1> HIDE DEF r, e
<1>4. PICK c \in Client : c = k
  BY <1>1
<1> HIDE DEF k
<1>5. /\ OnWay(c)' = OnWay(c) \ {p}
      /\ \A j \in Client : j # c => OnWay(j)' = OnWay(j)
  BY <1>1, <1>2, <1>3, <1>4, LessWay DEF Coming
<1>6. Cardinality(OnWay(c) \ {p}) = Cardinality(OnWay(c)) - 1
  BY <1>1, <1>4, FS_RemoveElement
<1>7. /\ undeal_public_fds'[c] = SubSeq(undeal_public_fds[c], 1, Len(undeal_public_fds[c]) - 1)
      /\ \A j \in Client : j # c => undeal_public_fds'[j] = undeal_public_fds[j]
  BY <1>2, <1>4 DEF PopUndeal, Front, TypeOK
<1>8. Len(undeal_public_fds'[c]) = Len(undeal_public_fds[c]) - 1 /\ Len(undeal_public_fds[c]) \in Nat
  <2> DEFINE n == Len(undeal_public_fds[c]) - 1
  <2>1. n \in Nat /\ \A i \in 1..n : undeal_public_fds[c][i] \in Pub
    BY <1>1, <1>4
  <2> HIDE DEF n
  <2>2. Len(SubSeq(undeal_public_fds[c], 1, n)) = IF 1 <= n THEN n - 1 + 1 ELSE 0
    BY <2>1, SubSeqProperties
  <2>3. Len(SubSeq(undeal_public_fds[c], 1, n)) = n
    BY <2>1, <2>2
  <2> QED BY <1>1, <1>4, <1>7, <2>3 DEF n
<1>9. \A j \in Client : Awaited(j) /\ Asked(j)' = Asked(j)
  BY <1>2 DEF ParkInv, Asked
<1>10. Awaited(c)'
  <2>1. Cardinality(OnWay(c)) \in Nat /\ Asked(c) \in Nat /\ Awaited(c) /\ Asked(c)' = Asked(c)
    BY <1>1, <1>4, <1>9
  <2>2. Cardinality(OnWay(c))' = Cardinality(OnWay(c)) - 1
    BY <1>5, <1>6
  <2>3. /\ Cardinality(OnWay(c))' + Asked(c)' = (Cardinality(OnWay(c)) + Asked(c)) - 1
        /\ Cardinality(OnWay(c)) + Asked(c) \in Nat
    BY <2>1, <2>2
  <2> QED BY <1>2, <1>8, <2>1, <2>3 DEF Awaited
<1> QED BY <1>2, <1>5, <1>7, <1>9, <1>10, AwaitedFrame

\* In every step, a client's parked connections stay awaited.
LEMMA AwaitedNext ==
  ASSUME Inv, ParkInv, [Next]_vars
  PROVE  \A j \in Client : Awaited(j)'
<1> USE DEF Inv
<1>0. \A j \in Client : Awaited(j)
  BY DEF ParkInv
<1>a. \A j \in Client : client'[j].st # "lost" => client[j].st # "lost"
  BY ClientsKeep DEF ParkInv
<1>b. ASSUME UNCHANGED <<toClient, undeal_public_fds>>, \A j \in Client : OnWay(j)' = OnWay(j)
      PROVE  \A j \in Client : Awaited(j)'
  <2>1. \A j \in Client : Asked(j)' = Asked(j)
    BY <1>b DEF Asked
  <2> QED BY <1>0, <1>a, <1>b, <2>1, AwaitedFrame
<1>c. ASSUME UNCHANGED <<toClient, undeal_public_fds, proxy>>
      PROVE  \A j \in Client : Awaited(j)'
  <2>1. \A j \in Client : OnWay(j)' = OnWay(j)
    BY <1>c DEF OnWay
  <2> QED BY <1>b, <1>c, <2>1
<1>d. ASSUME NEW p \in Proxy, NEW r \in ProxyState, proxy' = [proxy EXCEPT ![p] = r],
             r.owner = proxy[p].owner, r.st \in Coming <=> proxy[p].st \in Coming,
             UNCHANGED <<toClient, undeal_public_fds>>
      PROVE  \A j \in Client : Awaited(j)'
  <2>1. \A j \in Client : OnWay(j)' = OnWay(j)
    BY <1>d, SameWay
  <2> QED BY <1>b, <1>d, <2>1
<1>1. CASE UNCHANGED vars
  BY <1>1, <1>c DEF vars, listVars
<1>2. ASSUME NEW k \in Client, ClientAborts(k) \/ HandleCtlConnClose(k)
      PROVE  \A j \in Client : Awaited(j)'
  BY <1>2, <1>c DEF ClientAborts, HandleCtlConnClose, listVars
<1>3. ASSUME NEW k \in Client, LoseClient(k) PROVE \A j \in Client : Awaited(j)'
  <2>1. /\ client'[k].st = "lost" /\ UNCHANGED <<proxy, undeal_public_fds>>
        /\ toClient'[k] = << >> /\ \A j \in Client : j # k => toClient'[j] = toClient[j]
    BY <1>3 DEF LoseClient, TypeOK, listVars
  <2>2. \A j \in Client : OnWay(j)' = OnWay(j)
    BY <2>1 DEF OnWay
  <2>3. Asked(k)' = 0
    BY <2>1, CountEmpty DEF Asked
  <2>4. Cardinality(OnWay(k)) \in Nat /\ Asked(k) \in Nat /\ Len(undeal_public_fds[k]) \in Nat
    BY Counts DEF ParkInv
  <2>5. Awaited(k)'
    <3>1. Awaited(k) /\ OnWay(k)' = OnWay(k)
      BY <1>0, <2>2
    <3> QED BY <2>1, <2>3, <2>4, <3>1 DEF Awaited
  <2>6. \A j \in Client : j # k => Asked(j)' = Asked(j)
    BY <2>1 DEF Asked
  <2> QED BY <1>0, <1>a, <2>1, <2>2, <2>5, <2>6, AwaitedFrame
<1>4. ASSUME NEW p \in Proxy, NewProxyConn(p) PROVE \A j \in Client : Awaited(j)'
  <2> DEFINE r == [proxy[p] EXCEPT !.st = "unclaimed"]
  <2>1. r \in ProxyState /\ r.st = "unclaimed" /\ r.owner = proxy[p].owner
    BY ZenonT(60) DEF TypeOK, ProxyState
  <2>2. proxy' = [proxy EXCEPT ![p] = r] /\ proxy[p].st = "connected"
    BY <1>4 DEF NewProxyConn, TypeOK
  <2> HIDE DEF r
  <2> QED BY <1>4, <1>d, <2>1, <2>2 DEF NewProxyConn, Coming, listVars
<1>5. ASSUME NEW p \in Proxy, Moves(p) PROVE \A j \in Client : Awaited(j)'
  <2>1. PICK r \in ProxyState :
          /\ proxy' = [proxy EXCEPT ![p] = r]
          /\ proxy[p].st \in Claimed /\ r.st \in Claimed /\ r.owner = proxy[p].owner
    BY <1>5, MovedOn
  <2>2. UNCHANGED <<toClient, undeal_public_fds>>
    BY <1>5, MovedOn DEF listVars
  <2> QED BY <1>d, <2>1, <2>2 DEF Coming, Claimed
<1>6. ASSUME NEW p \in Proxy, FreeProxyConn(p) PROVE \A j \in Client : Awaited(j)'
  <2> DEFINE r == [proxy[p] EXCEPT !.st = "free", !.pub = None]
  <2>1. r \in ProxyState /\ r.st = "free" /\ r.owner = proxy[p].owner
    BY ZenonT(60) DEF TypeOK, ProxyState, Claimed
  <2>2. proxy' = [proxy EXCEPT ![p] = r] /\ proxy[p].st = "bound"
    BY <1>6 DEF FreeProxyConn
  <2> HIDE DEF r
  <2> QED BY <1>6, <1>d, <2>1, <2>2 DEF FreeProxyConn, Coming
<1>7. ASSUME NEW p \in Proxy, HandlePeerProxyConnClose(p) PROVE \A j \in Client : Awaited(j)'
  <2> DEFINE r == [proxy[p] EXCEPT !.closed = TRUE]
  <2>1. r \in ProxyState /\ r.st = proxy[p].st /\ r.owner = proxy[p].owner
    BY ZenonT(60) DEF TypeOK, ProxyState
  <2>2. proxy' = [proxy EXCEPT ![p] = r]
    BY <1>7 DEF HandlePeerProxyConnClose
  <2> HIDE DEF r
  <2> QED BY <1>7, <1>d, <2>1, <2>2 DEF HandlePeerProxyConnClose
<1>8. ASSUME NEW p \in Proxy, ClaimNull(p) PROVE \A j \in Client : Awaited(j)'
  BY <1>8, <1>c DEF ClaimNull, listVars
<1>9. ASSUME NEW k \in Client, Start(k) \/ Register(k) \/ Notified(k)
      PROVE  \A j \in Client : Awaited(j)'
  BY <1>9, AwaitedRegister, AwaitedHandleProxyNotify DEF Notified
<1>10. ASSUME NEW x \in Pub, NEW k \in Client, NewPublicConn(x, k) \/ NewPublicConnOnFree(x, k)
       PROVE  \A j \in Client : Awaited(j)'
  BY <1>10, AwaitedNewPublicConn, AwaitedNewPublicConnOnFree
<1>11. ASSUME NEW p \in Proxy, Bind(p) PROVE \A j \in Client : Awaited(j)'
  BY <1>4, <1>5, <1>8, <1>11, AwaitedFindControl, AwaitedClaimProxyConn DEF Bind, Moves
<1> QED BY <1>1, <1>2, <1>3, <1>6, <1>7, <1>9, <1>10, <1>11 DEF Next

\* At the start nobody knows anybody and nothing is under way.
LEMMA ParkInit == Init => ParkInv
<1> SUFFICES ASSUME Init PROVE ParkInv
  OBVIOUS
<1>1. /\ ~down
      /\ \A k \in Client : /\ client[k].st = "off" /\ client[k].tun = None
                           /\ control[k].id = None /\ control[k].tun = None
                           /\ toServer[k] = << >> /\ toClient[k] = << >>
                           /\ undeal_public_fds[k] = << >> /\ free_proxy_conns[k] = << >>
      /\ \A p \in Proxy : proxy[p].st = "none"
  BY DEF Init, NoProxy
<1>2. \A k \in Client : Phase(k)
  BY <1>1 DEF Phase
<1>3. \A k \in Client : OnWay(k) = {} /\ Asked(k) = 0
  BY <1>1, CountEmpty DEF OnWay, Asked
<1>4. \A k \in Client : Awaited(k)
  <2>1. Cardinality({}) = 0 /\ Len(<< >>) = 0
    BY FS_EmptySet
  <2>2. ASSUME NEW k \in Client PROVE Awaited(k)
    <3>1. Cardinality(OnWay(k)) = 0 /\ Asked(k) = 0 /\ Len(undeal_public_fds[k]) = 0
      BY <1>1, <1>3, <2>1
    <3> QED BY <3>1 DEF Awaited
  <2> QED BY <2>2
<1>5. MapUp /\ DownByLossOrRace
  BY <1>1 DEF MapUp, DownByLossOrRace
<1>6. NullInv
  <2>1. Range(<< >>) = {}
    BY DEF Range
  <2> QED BY <1>1, <2>1 DEF NullInv
<1>7. WayInv
  <2>1. {p \in Proxy : proxy[p].st # "none"} = {}
    BY <1>1
  <2> QED BY <1>3, <2>1, FS_EmptySet DEF WayInv
<1> QED BY <1>2, <1>4, <1>5, <1>6, <1>7 DEF ParkInv

\* Inv and ParkInv together are inductive.
LEMMA ParkNext == Inv /\ ParkInv /\ [Next]_vars => Inv' /\ ParkInv'
<1> SUFFICES ASSUME Inv, ParkInv, [Next]_vars PROVE Inv' /\ ParkInv'
  OBVIOUS
<1>1. Inv'
  BY InvNext
<1>2. /\ \A j \in Client : Phase(j)
      /\ MapUp /\ WayInv /\ NullInv /\ DownByLossOrRace
  BY DEF ParkInv
<1>3. (\A j \in Client : Phase(j)') /\ MapUp'
  BY <1>2, PhaseNext, MapUpNext
<1>4. ProxyStep
  BY ProxyStepNext
<1>5. WayInv' /\ NullInv' /\ DownByLossOrRace'
  BY <1>2, <1>4, ProxyKept
<1>6. \A j \in Client : Awaited(j)'
  BY AwaitedNext
<1> QED BY <1>1, <1>3, <1>5, <1>6 DEF ParkInv

\* Tunnel::claimProxyConn, which pops the list without looking whether it is empty,
\* finds a parked public connection for every proxy connection that is on its way;
\* and a parked connection is never forgotten while its client is there: a request
\* or a proxy connection for it is under way.  For any number of clients, lost at
\* any time; the second part leaves out the two races of the code, a connection
\* before the client knows its tunnel and a lookup during an insertion.
THEOREM ParkedAwaited == Spec => []ParkedAreAwaited
<1>1. Inv /\ ParkInv => ParkedAreAwaited
  <2> SUFFICES ASSUME Inv, ParkInv, NEW k \in Client
               PROVE  LET coming == Cardinality({p \in Proxy : proxy[p].owner = k
                                      /\ proxy[p].st \in {"connected", "unclaimed", "found"}})
                          asked == Cardinality({j \in DOMAIN toClient[k] :
                                      toClient[k][j].type = "NotifyClientNeedProxy"})
                      IN /\ Len(undeal_public_fds[k]) >= coming + asked
                         /\ Up(k) /\ k \notin Early \cup Racy =>
                              Len(undeal_public_fds[k]) = coming + asked
    BY DEF ParkedAreAwaited
  <2>1. {p \in Proxy : proxy[p].owner = k /\ proxy[p].st \in {"connected", "unclaimed", "found"}}
          = OnWay(k)
    BY DEF OnWay
  <2>2. {j \in DOMAIN toClient[k] : toClient[k][j].type = "NotifyClientNeedProxy"}
          = Positions(toClient[k], Notify)
    <3>1. toClient[k] \in Seq(CtlMsg)
      BY DEF Inv, TypeOK
    <3>2. \A j \in DOMAIN toClient[k] : toClient[k][j] \in CtlMsg
      BY <3>1
    <3> QED BY <3>2 DEF Positions, Notify
  <2>3. Awaited(k)
    BY DEF ParkInv
  <2> QED BY <2>1, <2>2, <2>3 DEF Awaited, Asked, Up
<1> QED BY InvInit, ParkInit, ParkNext, <1>1, PTL DEF Spec

\* Whatever clients, connections and requests come together, the server is only
\* brought down by the loss of a client, through the null pointers that std::remove
\* leaves and that control_map_'s operator[] makes under an erased id, or by a worker
\* whose second lookup misses an id because another is being inserted.
THEOREM DownExplained == Spec => []DownByLossOrRace
<1>1. Inv /\ ParkInv => DownByLossOrRace
  BY DEF ParkInv
<1> QED BY InvInit, ParkInit, ParkNext, <1>1, PTL DEF Spec
============================================================================

--------------------------- MODULE SessionProofs ----------------------------
(***************************************************************************)
(* A tunnel whose applications hold a dialogue: proxy connections come     *)
(* back to the free list quiet, and the tunnel relays like TCP.            *)
(***************************************************************************)
EXTENDS ProxyTunnelProofs

(***************************************************************************)
(* A session on proxy connection p, from the request to start it to its    *)
(* return to the free list, when the applications hold a dialogue.         *)
(***************************************************************************)

\* An end that no ProxyConn was ever bound to.
Fresh(e) ==
  end[e] = [on |-> None, tran |-> 0, closing |-> FALSE, out |-> << >>, fin |-> FALSE]

\* No handler is at work on p, or that of thread t is, in frame f.  The listener's
\* visit to the waiting map does not count.
Calm(p) == \A u \in Thread \ {Listener} : th[u].proxy # p
Active(p, t, f) == th[t] = f /\ \A u \in Thread \ {Listener, t} : th[u].proxy # p

\* Nothing about p is on the control connection, or only m is, to be read by s.
Unnamed(q, p) == \A i \in DOMAIN q : q[i].proxy # p
NamedBy(q, p, m) == \E i \in DOMAIN q : q[i] = m /\ \A j \in DOMAIN q : q[j].proxy = p => j = i

Silent(p) == \A s \in Side : Unnamed(ctl[s], p)
Told(p, s, m) == NamedBy(ctl[s], p, m) /\ Unnamed(ctl[Other(s)], p)

\* A ProxyConn in data mode that has forwarded to e all that e has heard.
Started(e, half, theo) ==
  [is_start |-> TRUE, half_close |-> half, peer |-> e, recv |-> Heard(e), theo |-> theo]

\* p is not in use: unknown, or in the free list.
Blank(p) ==
  /\ Calm(p) /\ Silent(p) /\ p \notin proxy_conn_map["S"]
  /\ \A s \in Side : conn[<<s, p>>] = Reset /\ net[<<s, p>>] = << >>

\* p was taken from the free list for x.
Invited(p, x) ==
  /\ Calm(p) /\ Silent(p) /\ p \notin proxy_conn_map["S"]
  /\ \A s \in Side : conn[<<s, p>>] = Reset
  /\ net[<<"S", p>>] = << >> /\ net[<<"C", p>>] = <<StartReq(x)>>
  /\ Fresh(x)

\* The client is about to start p for l, or has.
Launch(p, l) ==
  \/ \E t \in {Main("C"), <<"C", p>>} :
       /\ Fresh(l)
       /\ \/ Active(p, t, At("start", p, l)) /\ conn[<<"C", p>>] = Reset
          \/ Active(p, t, At("bind", p, l)) /\ conn[<<"C", p>>] = [Reset EXCEPT !.is_start = TRUE]
  \/ /\ Calm(p)
     /\ conn[<<"C", p>>] = Started(l, FALSE, -1) /\ end[l].on = p

\* What the server is sent before data
Greeting(m) == m = MetaSet \/ (m.type = "StartProxyConnRsp" /\ Fresh(m.end))

\* The server has not started p, and never will if it has dropped the greeting.
Opening(p, l) ==
  /\ Launch(p, l) /\ Silent(p) /\ p \notin proxy_conn_map["S"]
  /\ conn[<<"S", p>>] = Reset /\ net[<<"C", p>>] = << >>
  /\ ~end[l].closing /\ ~end[l].fin /\ end[l].out = << >>
  /\ end[l].tran \in {0, 1}
  /\ \/ net[<<"S", p>>] = << >>
     \/ net[<<"S", p>>] = <<Chunk(l, 1)>> /\ end[l].tran = 1
     \/ \E m \in Item :
          /\ Greeting(m)
          /\ \/ net[<<"S", p>>] = <<m>> /\ end[l].tran = 0
             \/ net[<<"S", p>>] = <<m, Chunk(l, 1)>> /\ end[l].tran = 1

\* Each end has heard its partner's chunks, in order and no others.
Match(x, l) ==
  /\ \A i \in DOMAIN end[x].out : end[x].out[i] = <<l, i>>
  /\ \A i \in DOMAIN end[l].out : end[l].out[i] = <<x, i>>

\* The local server speaks first, then they take turns until one of them closes.
Turn(x, l) ==
  /\ end[x].tran <= PubChunks /\ end[l].tran <= LocChunks
  /\ end[x].tran <= Heard(x) /\ Heard(x) <= end[l].tran
  /\ end[l].tran <= Heard(l) + 1 /\ Heard(l) <= end[x].tran
  /\ x \in Closers /\ Heard(x) = LocChunks => end[x].tran < Heard(x)
  /\ x \notin Closers /\ Heard(l) = PubChunks /\ Heard(l) > 0 => end[l].tran <= Heard(l)

\* Both sides of p are started, or the client's is about to be, and x and l talk.
Talking(p, x, l) ==
  /\ Launch(p, l) /\ Silent(p) /\ p \in proxy_conn_map["S"]
  /\ conn[<<"S", p>>] = Started(x, FALSE, -1) /\ end[x].on = p
  /\ Match(x, l) /\ Turn(x, l)
  /\ \A e \in {x, l} : ~end[e].closing /\ ~end[e].fin
  /\ net[<<"S", p>>] = IF Heard(x) = end[l].tran THEN << >> ELSE <<Chunk(l, end[l].tran)>>
  /\ net[<<"C", p>>] = IF Heard(l) = end[x].tran THEN << >> ELSE <<Chunk(x, end[x].tran)>>

\* The worker of e is about to tell the other side how much e has sent; it has
\* told it; the main thread of side s is to shut what p forwards to.
Notifying(p, s, e) == Active(p, <<s, p>>, At("notify", p, e)) /\ Silent(p)
Notified(p, s, e) == Calm(p) /\ Told(p, Other(s), Shutdown(p, end[e].tran))
Shutting(p, s) ==
  /\ Active(p, Main(s), At("check", p, None)) \/ Active(p, Main(s), At("shut", p, None))
  /\ Silent(p)

\* a, on side f, has closed first and b is told.
FirstClosed(p, f, a, b) ==
  LET g == Other(f)
  IN /\ conn[<<f, p>>] = Started(a, TRUE, -1) /\ ~end[b].closing
     /\ \/ /\ Notifying(p, f, a) \/ Notified(p, f, a)
           /\ conn[<<g, p>>] = Started(b, FALSE, -1) /\ ~end[b].fin
        \/ /\ Shutting(p, g)
           /\ conn[<<g, p>>] = Started(b, FALSE, Heard(b)) /\ ~end[b].fin
        \/ /\ Calm(p) /\ Silent(p)
           /\ conn[<<g, p>>] = Started(b, TRUE, Heard(b)) /\ end[b].fin

\* b has closed too and a is told.
BothClosed(p, f, a, b) ==
  LET g == Other(f)
  IN /\ conn[<<g, p>>] = Reset /\ end[b].closing /\ end[b].fin
     /\ \/ /\ Notifying(p, g, b) \/ Notified(p, g, b)
           /\ conn[<<f, p>>] = Started(a, TRUE, -1)
        \/ /\ Shutting(p, f)
           /\ conn[<<f, p>>] = Started(a, TRUE, Heard(a))

\* The end on side s.
EndAt(s, x, l) == IF s = "S" THEN x ELSE l

\* The dialogue is over: the end on side f closes first.
Closing(p, f, x, l) ==
  LET a == EndAt(f, x, l)
      b == EndAt(Other(f), x, l)
  IN /\ p \in proxy_conn_map["S"]
     /\ \A s \in Side : net[<<s, p>>] = << >>
     /\ end[x].on = p /\ end[l].on = p /\ Match(x, l)
     /\ end[x].tran = Heard(l) /\ end[l].tran = Heard(x)
     /\ end[a].closing /\ ~end[a].fin /\ end[b].tran = Quota(b)
     /\ f = IF x \in Closers THEN "S" ELSE "C"
     /\ FirstClosed(p, f, a, b) \/ BothClosed(p, f, a, b)

\* Both sides are reset and p is on its way to the free list.
Freeing(p) ==
  /\ p \in proxy_conn_map["S"]
  /\ \A s \in Side : conn[<<s, p>>] = Reset /\ net[<<s, p>>] = << >>
  /\ \/ Active(p, Main("C"), At("reqfree", p, None)) /\ Silent(p)
     \/ Calm(p) /\ Told(p, "S", FreeReq(p))
     \/ /\ Active(p, Main("S"), At("free", p, None)) \/ Active(p, Main("S"), At("push", p, None))
        /\ Silent(p)

\* An end whose input p's worker still polls is p's peer.
Polled(p) ==
  \A e \in End : end[e].on = p /\ ~end[e].closing => conn[<<SideOf(e), p>>].peer = e

\* The phases of a session.
Session(p) ==
  /\ Polled(p)
  /\ \/ Blank(p) \/ Freeing(p)
     \/ \E x \in Pub : Invited(p, x)
     \/ \E l \in Loc : Opening(p, l)
     \/ \E x \in Pub, l \in Loc : Talking(p, x, l) \/ \E f \in Side : Closing(p, f, x, l)

\* Every proxy connection is in some phase, and a free or unknown one is blank.
SessionInv ==
  /\ \A p \in Proxy : Session(p)
  /\ \A p \in Proxy : p \in Range(free_proxy_conns) \/ p \notin proxy_conn_map["C"] => Blank(p)
  /\ \A i, j \in DOMAIN free_proxy_conns : free_proxy_conns[i] = free_proxy_conns[j] => i = j
  /\ \A e \in End : e \notin opened \/ e \in Range(undeal_public_fds) => Fresh(e)
  /\ th[Listener].pc \in {"idle", "wait"}

----------------------------------------------------------------------------
\* What Session(p) depends on: the ends p uses ...
Uses(p, e) == PubOn(e, p) \/ LocOn(e, p) \/ end[e].on = p

\* ... and what a step that is not about p leaves as it is.
Apart(p) ==
  /\ \A u \in Thread \ {Listener} : th[u].proxy = p \/ th'[u].proxy = p => th'[u] = th[u]
  /\ \A s \in Side : /\ Unnamed(ctl[s], p) => Unnamed(ctl'[s], p)
                     /\ \A m : m.proxy = p /\ NamedBy(ctl[s], p, m) => NamedBy(ctl'[s], p, m)
  /\ \A s \in Side : conn'[<<s, p>>] = conn[<<s, p>>] /\ net'[<<s, p>>] = net[<<s, p>>]
  /\ p \in proxy_conn_map'["S"] <=> p \in proxy_conn_map["S"]
  /\ \A e \in End : Uses(p, e) \/ end'[e].on = p => end'[e] = end[e]

\* A step apart from p starts and ends no handler on p, and puts no message about p on
\* the control connection nor takes one off it.
LEMMA ApartCalm ==
  ASSUME NEW p \in Proxy, Apart(p)
  PROVE  /\ Calm(p) => Calm(p)'
         /\ \A t \in Thread \ {Listener} : \A f : Active(p, t, f) /\ f.proxy = p => Active(p, t, f)'
         /\ Silent(p) => Silent(p)'
         /\ \A s \in Side : \A m : m.proxy = p /\ Told(p, s, m) => Told(p, s, m)'
<1>1. Calm(p) => Calm(p)'
  BY DEF Apart, Calm
<1>2. \A t \in Thread \ {Listener} : \A f : Active(p, t, f) /\ f.proxy = p => Active(p, t, f)'
  BY DEF Apart, Active
<1>3. Silent(p) => Silent(p)'
  BY DEF Apart, Silent
<1>4. \A s \in Side : \A m : m.proxy = p /\ Told(p, s, m) => Told(p, s, m)'
  BY Threads DEF Apart, Told
<1> QED
  BY <1>1, <1>2, <1>3, <1>4

\* What a phase of p uses.
LEMMA UsedEnds ==
  ASSUME NEW p \in Proxy
  PROVE  /\ \A x \in Pub : Invited(p, x) => Uses(p, x)
         /\ \A l \in Loc : Launch(p, l) => Uses(p, l)
         /\ \A x \in Pub, l \in Loc : Talking(p, x, l) => Uses(p, x) /\ Uses(p, l)
         /\ \A f \in Side, x \in Pub, l \in Loc : Closing(p, f, x, l) => Uses(p, x) /\ Uses(p, l)
<1>1. ASSUME NEW x \in Pub, Invited(p, x) PROVE Uses(p, x)
  <2>1. StartReq(x) \in Range(net[<<"C", p>>])
    BY <1>1 DEF Invited, Range
  <2> QED BY <2>1 DEF Uses, PubOn
<1>2. ASSUME NEW l \in Loc, Launch(p, l) PROVE Uses(p, l)
  <2>1. CASE \E t \in {Main("C"), <<"C", p>>} : th[t] = At("start", p, l) \/ th[t] = At("bind", p, l)
    <3>1. PICK t \in {Main("C"), <<"C", p>>} : th[t] = At("start", p, l) \/ th[t] = At("bind", p, l)
      BY <2>1
    <3>2. t \in Thread
      BY Threads DEF Side
    <3>3. th[t].pc \in {"start", "bind"} /\ th[t].proxy = p /\ th[t].end = l
      BY <3>1 DEF At
    <3> QED BY <3>2, <3>3 DEF Uses, LocOn
  <2>2. CASE end[l].on = p
    BY <2>2 DEF Uses
  <2> QED BY <1>2, <2>1, <2>2 DEF Launch, Active
<1>3. \A x \in Pub, l \in Loc : Talking(p, x, l) => Uses(p, x) /\ Uses(p, l)
  BY <1>2 DEF Talking, Uses
<1>4. \A f \in Side, x \in Pub, l \in Loc : Closing(p, f, x, l) => Uses(p, x) /\ Uses(p, l)
  BY DEF Closing, Uses
<1> QED
  BY <1>1, <1>2, <1>3, <1>4

\* The phases, when a step is not about p.
LEMMA ApartStart ==
  ASSUME NEW p \in Proxy, Apart(p)
  PROVE  /\ Blank(p) => Blank(p)'
         /\ \A x \in Pub : Invited(p, x) => Invited(p, x)'
         /\ \A l \in Loc : Launch(p, l) => Launch(p, l)'
         /\ \A l \in Loc : Opening(p, l) => Opening(p, l)'
<1>1. Blank(p) => Blank(p)'
  BY ApartCalm DEF Apart, Blank
<1>2. ASSUME NEW x \in Pub, Invited(p, x) PROVE Invited(p, x)'
  <2>1. end'[x] = end[x]
    BY <1>2, UsedEnds, Ends DEF Apart
  <2> QED BY <1>2, <2>1, ApartCalm DEF Apart, Invited, Fresh, Side
<1>3. ASSUME NEW l \in Loc, Launch(p, l) PROVE Launch(p, l)' /\ end'[l] = end[l]
  <2>1. end'[l] = end[l]
    BY <1>3, UsedEnds, Ends DEF Apart
  <2>2. conn'[<<"C", p>>] = conn[<<"C", p>>]
    BY DEF Apart, Side
  <2>3. \A t \in {Main("C"), <<"C", p>>} : t \in Thread \ {Listener}
    BY Threads DEF Side, Main, Listener
  <2>4. At("start", p, l).proxy = p /\ At("bind", p, l).proxy = p
    BY DEF At
  <2> QED BY <1>3, <2>1, <2>2, <2>3, <2>4, ApartCalm DEF Launch, Fresh, Started, Heard
<1>4. ASSUME NEW l \in Loc, Opening(p, l) PROVE Opening(p, l)'
  <2>1. Launch(p, l)' /\ end'[l] = end[l]
    BY <1>3, <1>4 DEF Opening
  <2>2. ASSUME NEW m \in Item, Greeting(m), m \in Range(net[<<"S", p>>]) PROVE Greeting(m)'
    <3>1. CASE m = MetaSet
      BY <3>1 DEF Greeting
    <3>2. CASE m.type = "StartProxyConnRsp" /\ Fresh(m.end)
      <4>1. m = StartRsp(m.end) /\ m.end \in Pub
        BY <3>2, Kinds, Items
      <4>2. Uses(p, m.end)
        BY <4>1, <2>2 DEF Uses, PubOn
      <4>3. end'[m.end] = end[m.end]
        BY <4>1, <4>2, Ends DEF Apart
      <4> QED BY <3>2, <4>3 DEF Greeting, Fresh
    <3> QED BY <2>2, <3>1, <3>2 DEF Greeting
  <2>3. ASSUME NEW m, net[<<"S", p>>] = <<m>> \/ net[<<"S", p>>] = <<m, Chunk(l, 1)>>
        PROVE  m \in Range(net[<<"S", p>>])
    BY <2>3 DEF Range
  <2>4. /\ Silent(p)' /\ p \notin proxy_conn_map'["S"]
        /\ conn'[<<"S", p>>] = Reset /\ net'[<<"C", p>>] = << >>
        /\ net'[<<"S", p>>] = net[<<"S", p>>]
    BY <1>4, ApartCalm DEF Apart, Opening, Side
  <2> QED BY <1>4, <2>1, <2>2, <2>3, <2>4 DEF Opening
<1> QED
  BY <1>1, <1>2, <1>3, <1>4

\* A step apart from p leaves the later phases of its session.
LEMMA ApartTalk ==
  ASSUME NEW p \in Proxy, Apart(p)
  PROVE  /\ \A x \in Pub, l \in Loc : Talking(p, x, l) => Talking(p, x, l)'
         /\ \A f \in Side, x \in Pub, l \in Loc : Closing(p, f, x, l) => Closing(p, f, x, l)'
         /\ Freeing(p) => Freeing(p)'
<1>0. /\ \A s \in Side : conn'[<<s, p>>] = conn[<<s, p>>] /\ net'[<<s, p>>] = net[<<s, p>>]
      /\ p \in proxy_conn_map'["S"] <=> p \in proxy_conn_map["S"]
  BY DEF Apart
<1>1. ASSUME NEW x \in Pub, NEW l \in Loc, Talking(p, x, l) PROVE Talking(p, x, l)'
  <2>1. end'[x] = end[x] /\ end'[l] = end[l]
    BY <1>1, UsedEnds, Ends DEF Apart
  <2>2. Launch(p, l)' /\ Silent(p)'
    BY <1>1, ApartStart, ApartCalm DEF Talking
  <2>3. Heard(x)' = Heard(x) /\ Heard(l)' = Heard(l)
    BY <2>1 DEF Heard
  <2>4. Match(x, l)' /\ Turn(x, l)'
    BY <1>1, <2>1, <2>3 DEF Talking, Match, Turn
  <2> QED BY <1>0, <1>1, <2>1, <2>2, <2>3, <2>4 DEF Talking, Side, Started
<1>2. ASSUME NEW f \in Side, NEW x \in Pub, NEW l \in Loc, Closing(p, f, x, l)
      PROVE  Closing(p, f, x, l)'
  <2> DEFINE a == EndAt(f, x, l)
             b == EndAt(Other(f), x, l)
             g == Other(f)
  <2>1. end'[x] = end[x] /\ end'[l] = end[l]
    BY <1>2, UsedEnds, Ends DEF Apart
  <2>2. end'[a] = end[a] /\ end'[b] = end[b] /\ Heard(a)' = Heard(a) /\ Heard(b)' = Heard(b)
    BY <2>1 DEF EndAt, Heard
  <2>3. g \in Side /\ conn'[<<f, p>>] = conn[<<f, p>>] /\ conn'[<<g, p>>] = conn[<<g, p>>]
    BY <1>0, Threads
  <2>4. /\ \A s \in Side : Main(s) \in Thread \ {Listener} /\ <<s, p>> \in Thread \ {Listener}
        /\ \A lab, e : At(lab, p, e).proxy = p
        /\ \A n : Shutdown(p, n).proxy = p
    BY Threads, TunnelAssumption DEF TunnelAssumption, Main, Listener, At, Shutdown
  <2>7. ASSUME NEW s \in Side
        PROVE  /\ Shutting(p, s) => Shutting(p, s)'
               /\ \A e \in {a, b} : Notifying(p, s, e) => Notifying(p, s, e)'
               /\ \A e \in {a, b} : Notified(p, s, e) => Notified(p, s, e)'
    <3>1. Other(s) \in Side
      BY Threads
    <3> QED BY <2>2, <2>4, <3>1, ApartCalm DEF Shutting, Notifying, Notified
  <2>5. CASE FirstClosed(p, f, a, b)
    <3>1. FirstClosed(p, f, a, b)'
      BY <2>2, <2>3, <2>5, <2>7, ApartCalm DEF FirstClosed, Started
    <3> QED BY <1>0, <1>2, <2>1, <2>2, <3>1 DEF Closing, Match, Heard
  <2>6. CASE BothClosed(p, f, a, b)
    <3>1. BothClosed(p, f, a, b)'
      BY <2>2, <2>3, <2>6, <2>7, ApartCalm DEF BothClosed, Started
    <3> QED BY <1>0, <1>2, <2>1, <2>2, <3>1 DEF Closing, Match, Heard
  <2> QED BY <1>2, <2>5, <2>6 DEF Closing
<1>3. ASSUME Freeing(p) PROVE Freeing(p)'
  <2>1. \A s \in Side : \A lab, e : Main(s) \in Thread \ {Listener} /\ At(lab, p, e).proxy = p
    BY Threads DEF Main, Listener, At
  <2>2. FreeReq(p).proxy = p
    BY DEF FreeReq
  <2> QED BY <1>0, <1>3, <2>1, <2>2, ApartCalm DEF Freeing, Side
<1> QED
  BY <1>1, <1>2, <1>3

\* A step that is not about p leaves its session where it is.
LEMMA ApartSession ==
  ASSUME NEW p \in Proxy, Apart(p), Session(p)
  PROVE  Session(p)'
<1>1. Polled(p)'
  <2> SUFFICES ASSUME NEW e \in End, end'[e].on = p, ~end'[e].closing
               PROVE  conn'[<<SideOf(e), p>>].peer = e
    BY DEF Polled
  <2>1. end'[e] = end[e] /\ SideOf(e) \in Side
    BY Ends DEF Apart
  <2> QED BY <2>1 DEF Session, Polled, Apart
<1> QED
  BY <1>1, ApartStart, ApartTalk DEF Session

----------------------------------------------------------------------------
(***************************************************************************)
(* No end is used by two sessions                                          *)
(***************************************************************************)

\* The state of a conn that is not reset names a peer.
LEMMA Records ==
  /\ Reset.peer = None /\ Reset.is_start = FALSE /\ Reset.half_close = FALSE
  /\ \A e, h, n : /\ Started(e, h, n).peer = e /\ Started(e, h, n).is_start = TRUE
                  /\ Started(e, h, n).half_close = h /\ Started(e, h, n).theo = n
                  /\ Started(e, h, n).recv = Heard(e)
  /\ [Reset EXCEPT !.is_start = TRUE].peer = None /\ [Reset EXCEPT !.is_start = TRUE].is_start = TRUE
  /\ \A lab, p, e : At(lab, p, e).pc = lab /\ At(lab, p, e).proxy = p /\ At(lab, p, e).end = e
  /\ Idle.pc = "idle" /\ Idle.proxy = None /\ Idle.end = None
  BY DEF Reset, Started, At, Idle

\* One direction of a ProxyConn is shut.
LEMMA HalfClose ==
  ASSUME NEW e, NEW n
  PROVE  [Started(e, FALSE, n) EXCEPT !.half_close = TRUE] = Started(e, TRUE, n)
<1> SUFFICES ASSUME NEW d, d = [Started(e, FALSE, n) EXCEPT !.half_close = TRUE]
             PROVE  d = Started(e, TRUE, n)
  OBVIOUS
<1> QED
  BY DEF Started

\* The peers of the two ProxyConns while a session closes.
LEMMA ClosingPeers ==
  ASSUME NEW p \in Proxy, NEW f \in Side, NEW x \in Pub, NEW l \in Loc, Closing(p, f, x, l)
  PROVE  conn[<<"S", p>>].peer \in {x, None} /\ conn[<<"C", p>>].peer \in {l, None}
<1> DEFINE a == EndAt(f, x, l)
           b == EndAt(Other(f), x, l)
<1>1. /\ \E h, n : conn[<<f, p>>] = Started(a, h, n)
      /\ conn[<<Other(f), p>>] = Reset \/ \E h, n : conn[<<Other(f), p>>] = Started(b, h, n)
  <2>1. FirstClosed(p, f, a, b) \/ BothClosed(p, f, a, b)
    BY DEF Closing
  <2>2. CASE FirstClosed(p, f, a, b)
    BY <2>2 DEF FirstClosed
  <2>3. CASE BothClosed(p, f, a, b)
    BY <2>3 DEF BothClosed
  <2> QED BY <2>1, <2>2, <2>3
<1>2. conn[<<f, p>>].peer = a /\ conn[<<Other(f), p>>].peer \in {b, None}
  BY <1>1, Records
<1> QED
  BY <1>2 DEF EndAt, Other, Side

\* What is under way on a proxy connection in a phase.
LEMMA PubUsed ==
  ASSUME TypeOK, NEW p \in Proxy, Session(p), NEW x \in Pub, PubOn(x, p)
  PROVE  end[x].on \in {p, None} /\ (end[x].on = None => Fresh(x))
<1>0. x # None
  BY TunnelAssumption DEF TunnelAssumption
<1>1. CASE \A s \in Side : conn[<<s, p>>].peer # x /\ net[<<s, p>>] = << >>
  BY <1>1, Ranges DEF PubOn, Side, Range
<1>2. CASE Blank(p) \/ Freeing(p)
  BY <1>0, <1>1, <1>2, Records DEF Blank, Freeing
<1>3. ASSUME NEW y \in Pub, Invited(p, y)
      PROVE  Fresh(x)
  <2>1. Range(net[<<"S", p>>]) = {} /\ Range(net[<<"C", p>>]) = {StartReq(y)}
    BY <1>3 DEF Invited, Range
  <2>2. conn[<<"S", p>>].peer = None
    BY <1>3, Records DEF Invited, Side
  <2>3. StartReq(x) = StartReq(y)
    BY <1>0, <2>1, <2>2 DEF PubOn
  <2> QED BY <1>3, <2>3, Kinds DEF Invited
<1>4. ASSUME NEW l \in Loc, Opening(p, l)
      PROVE  Fresh(x)
  <2>1. Range(net[<<"C", p>>]) = {} /\ conn[<<"S", p>>].peer = None
    BY <1>4, Records DEF Opening, Range
  <2>2. StartRsp(x) \in Range(net[<<"S", p>>])
    BY <1>0, <2>1 DEF PubOn
  <2>3. Chunk(l, 1) # StartRsp(x) /\ MetaSet # StartRsp(x)
    BY Kinds
  <2>4. PICK m \in Item : /\ Greeting(m)
                          /\ net[<<"S", p>>] = <<m>> \/ net[<<"S", p>>] = <<m, Chunk(l, 1)>>
    BY <1>4, <2>2, <2>3 DEF Opening, Range
  <2>5. m = StartRsp(x)
    BY <2>2, <2>3, <2>4 DEF Range
  <2> QED BY <2>3, <2>4, <2>5, Kinds DEF Greeting
<1>5. ASSUME NEW y \in Pub, NEW l \in Loc, Talking(p, y, l)
      PROVE  end[x].on = p
  <2>1. \A s \in Side : net[<<s, p>>] = << >> \/ \E e, n : net[<<s, p>>] = <<Chunk(e, n)>>
    BY <1>5 DEF Talking, Side
  <2>2. \A s \in Side : StartReq(x) \notin Range(net[<<s, p>>]) /\ StartRsp(x) \notin Range(net[<<s, p>>])
    <3> SUFFICES ASSUME NEW s \in Side
                 PROVE  StartReq(x) \notin Range(net[<<s, p>>]) /\ StartRsp(x) \notin Range(net[<<s, p>>])
      OBVIOUS
    <3>1. CASE net[<<s, p>>] = << >>
      BY <3>1 DEF Range
    <3>2. CASE \E e, n : net[<<s, p>>] = <<Chunk(e, n)>>
      <4>1. PICK e, n : net[<<s, p>>] = <<Chunk(e, n)>>
        BY <3>2
      <4>2. Range(net[<<s, p>>]) = {Chunk(e, n)}
        BY <4>1 DEF Range
      <4> QED BY <4>2, Kinds
    <3> QED BY <2>1, <3>1, <3>2
  <2>3. conn[<<"S", p>>] = Started(y, FALSE, -1)
    BY <1>5 DEF Talking
  <2>4. conn[<<"S", p>>].peer = y
    BY <2>3 DEF Started
  <2> QED BY <1>5, <2>2, <2>4 DEF PubOn, Side, Talking
<1>6. ASSUME NEW f \in Side, NEW y \in Pub, NEW l \in Loc, Closing(p, f, y, l)
      PROVE  end[x].on = p
  <2>1. Range(net[<<"S", p>>]) = {} /\ Range(net[<<"C", p>>]) = {}
    BY <1>6 DEF Closing, Range, Side
  <2>2. conn[<<"S", p>>].peer \in {y, None}
    BY <1>6, ClosingPeers
  <2> QED BY <1>0, <1>6, <2>1, <2>2 DEF PubOn, Closing
<1>7. Fresh(x) => end[x].on = None
  BY DEF Fresh
<1>8. p # None
  BY TunnelAssumption DEF TunnelAssumption
<1> QED
  BY <1>2, <1>3, <1>4, <1>5, <1>6, <1>7, <1>8 DEF Session

\* The local connection of a session is bound to its p, or not yet used at all.
LEMMA LocUsed ==
  ASSUME TypeOK, th[Listener].pc \in {"idle", "wait"},
         NEW p \in Proxy, Session(p), NEW l \in Loc, LocOn(l, p)
  PROVE  end[l].on \in {p, None} /\ (end[l].on = None => Fresh(l))
<1>0. l # None /\ p # None
  BY TunnelAssumption DEF TunnelAssumption
<1>1. ASSUME Calm(p) PROVE conn[<<"C", p>>].peer = l
  <2> SUFFICES ASSUME NEW t \in Thread, th[t].pc \in {"start", "bind"}, th[t].proxy = p PROVE FALSE
    BY DEF LocOn
  <2> QED BY <1>1 DEF Calm
<1>2. ASSUME NEW t \in Thread, NEW e,
             NEW lab \in {"notify", "check", "shut", "reqfree", "free", "push"},
             Active(p, t, At(lab, p, e))
      PROVE  conn[<<"C", p>>].peer = l
  <2> SUFFICES ASSUME NEW u \in Thread, th[u].pc \in {"start", "bind"}, th[u].proxy = p PROVE FALSE
    BY DEF LocOn
  <2> QED BY <1>2, Records DEF Active
<1>3. \A s \in Side : Main(s) \in Thread /\ <<s, p>> \in Thread
  BY Threads
<1>4. Blank(p) => FALSE
  BY <1>0, <1>1, Records DEF Blank, Side
<1>5. Freeing(p) => FALSE
  <2>1. Freeing(p) => conn[<<"C", p>>].peer = l
    BY <1>1, <1>2, <1>3, Records DEF Freeing, Side
  <2> QED BY <1>0, <2>1, Records DEF Freeing, Side
<1>6. ASSUME NEW x \in Pub PROVE Invited(p, x) => FALSE
  BY <1>0, <1>1, Records DEF Invited, Side
<1>7. ASSUME NEW m \in Loc, Launch(p, m) PROVE l = m /\ (Fresh(l) \/ end[l].on = p)
  <2>1. CASE Calm(p) /\ conn[<<"C", p>>] = Started(m, FALSE, -1) /\ end[m].on = p
    BY <1>1, <2>1 DEF Started
  <2>2. ASSUME NEW t \in {Main("C"), <<"C", p>>}, Fresh(m), NEW lab \in {"start", "bind"},
               Active(p, t, At(lab, p, m)), conn[<<"C", p>>].peer = None
        PROVE  l = m
    <3>1. PICK u \in Thread : th[u].pc \in {"start", "bind"} /\ th[u].proxy = p /\ th[u].end = l
      BY <1>0, <2>2 DEF LocOn
    <3>2. u # Listener
      BY <3>1
    <3>3. u = t
      BY <2>2, <3>1, <3>2 DEF Active
    <3> QED BY <2>2, <3>1, <3>3 DEF Active, At
  <2> QED BY <1>7, <2>1, <2>2, Records DEF Launch
<1>8. ASSUME NEW f \in Side, NEW x \in Pub, NEW m \in Loc, Closing(p, f, x, m)
      PROVE  end[l].on = p
  <2> DEFINE a == EndAt(f, x, m)
             b == EndAt(Other(f), x, m)
  <2>0. Other(f) \in Side
    BY Threads
  <2>1. conn[<<"C", p>>].peer = l
    <3>1. CASE FirstClosed(p, f, a, b)
      BY <1>1, <1>2, <1>3, <2>0, <3>1 DEF FirstClosed, Notifying, Notified, Shutting
    <3>2. CASE BothClosed(p, f, a, b)
      BY <1>1, <1>2, <1>3, <2>0, <3>2 DEF BothClosed, Notifying, Notified, Shutting
    <3> QED BY <1>8, <3>1, <3>2 DEF Closing
  <2> QED BY <1>0, <1>8, <2>1, ClosingPeers, ZenonT(60) DEF Closing
<1>9. Fresh(l) => end[l].on = None
  BY DEF Fresh
<1> QED
  BY <1>0, <1>4, <1>5, <1>6, <1>7, <1>8, <1>9 DEF Session, Opening, Talking

\* An end is used by one session, and one that is parked or not there by none.
LEMMA OneUser ==
  ASSUME TypeOK, BindingInv, SessionInv, NEW e \in End
  PROVE  /\ \A p, q \in Proxy : Uses(p, e) /\ Uses(q, e) => p = q
         /\ e \notin opened \/ e \in Range(undeal_public_fds) => \A p \in Proxy : ~Uses(p, e)
<1>1. ASSUME NEW p \in Proxy, PubOn(e, p) PROVE e \in Pub
  <2>1. StartReq(e) \in Item => e \in Pub
    BY Kinds, Items
  <2>2. StartRsp(e) \in Item => e \in Pub
    BY Kinds, Items
  <2>3. \A s \in Side : Range(net[<<s, p>>]) \subseteq Item
    BY Threads DEF TypeOK, Range
  <2>4. e # None
    BY TunnelAssumption DEF TunnelAssumption, End
  <2> QED BY <1>1, <2>1, <2>2, <2>3, <2>4 DEF PubOn, BindingInv, PubInv, Side
<1>2. ASSUME NEW p \in Proxy, LocOn(e, p) PROVE e \in Loc
  <2>1. \A t \in Thread : th[t].pc \in {"start", "bind"} => th[t].end \in Loc
    BY Frames DEF TypeOK
  <2>2. e # None
    BY TunnelAssumption DEF TunnelAssumption, End
  <2> QED BY <1>2, <2>1, <2>2 DEF LocOn, BindingInv, LocInv
<1>3. e \notin Pub \/ e \notin Loc
  BY TunnelAssumption DEF TunnelAssumption
<1>4. ASSUME NEW p \in Proxy, PubOn(e, p) \/ LocOn(e, p)
      PROVE  end[e].on \in {p, None} /\ (end[e].on = None => Fresh(e))
  BY <1>1, <1>2, <1>4, PubUsed, LocUsed DEF SessionInv
<1>5. ASSUME NEW p \in Proxy, NEW q \in Proxy, PubOn(e, p) \/ LocOn(e, p), PubOn(e, q) \/ LocOn(e, q)
      PROVE  p = q
  BY <1>1, <1>2, <1>3, <1>5 DEF BindingInv, PubInv, LocInv
<1>6. \A p \in Proxy : p # None
  BY TunnelAssumption DEF TunnelAssumption
<1>7. ASSUME NEW p \in Proxy, NEW q \in Proxy, Uses(p, e), Uses(q, e) PROVE p = q
  BY <1>4, <1>5, <1>6, <1>7 DEF Uses
<1>8. ASSUME e \notin opened \/ e \in Range(undeal_public_fds), NEW p \in Proxy PROVE ~Uses(p, e)
  <2>1. Fresh(e)
    BY <1>8 DEF SessionInv
  <2>2. end[e].on # p
    BY <2>1, <1>6 DEF Fresh
  <2>3. e \in Range(undeal_public_fds) => e \in Pub
    BY DEF TypeOK, Range
  <2> QED BY <1>1, <1>2, <1>3, <1>8, <2>2, <2>3 DEF Uses, BindingInv, PubInv, LocInv
<1> QED
  BY <1>7, <1>8

----------------------------------------------------------------------------
(***************************************************************************)
(* A step of one session                                                   *)
(***************************************************************************)

\* The control connection, when a message about o is written or read.
LEMMA CtlQueue ==
  ASSUME NEW S, NEW q \in Seq(S), NEW p
  PROVE  /\ \A m \in S : m.proxy # p =>
              /\ Unnamed(q, p) => Unnamed(Append(q, m), p)
              /\ \A n : NamedBy(q, p, n) => NamedBy(Append(q, m), p, n)
         /\ \A m \in S : m.proxy = p /\ Unnamed(q, p) => NamedBy(Append(q, m), p, m)
         /\ q # << >> /\ Head(q).proxy # p =>
              /\ Unnamed(q, p) => Unnamed(Tail(q), p)
              /\ \A n : n.proxy = p /\ NamedBy(q, p, n) => NamedBy(Tail(q), p, n)
         /\ q # << >> /\ Head(q).proxy = p =>
              /\ ~Unnamed(q, p)
              /\ \A n : NamedBy(q, p, n) => n = Head(q) /\ Unnamed(Tail(q), p)
<1>1. ASSUME NEW m \in S
      PROVE  /\ Append(q, m) \in Seq(S)
             /\ \A i \in DOMAIN q : i \in DOMAIN Append(q, m) /\ Append(q, m)[i] = q[i]
             /\ Len(q) + 1 \in DOMAIN Append(q, m) /\ Append(q, m)[Len(q) + 1] = m
             /\ \A i \in DOMAIN Append(q, m) : i \in DOMAIN q \/ i = Len(q) + 1
  OBVIOUS
<1>2. ASSUME NEW m \in S, m.proxy # p
      PROVE  /\ Unnamed(q, p) => Unnamed(Append(q, m), p)
             /\ \A n : NamedBy(q, p, n) => NamedBy(Append(q, m), p, n)
  BY <1>1, <1>2 DEF Unnamed, NamedBy
<1>3. ASSUME NEW m \in S, m.proxy = p, Unnamed(q, p)
      PROVE  NamedBy(Append(q, m), p, m)
  BY <1>1, <1>3 DEF Unnamed, NamedBy
<1>4. ASSUME q # << >>
      PROVE  /\ 1 \in DOMAIN q /\ Head(q) = q[1]
             /\ \A i \in DOMAIN Tail(q) : i + 1 \in DOMAIN q /\ i + 1 # 1 /\ Tail(q)[i] = q[i + 1]
             /\ \A i \in DOMAIN q : i # 1 => i - 1 \in DOMAIN Tail(q) /\ Tail(q)[i - 1] = q[i]
             /\ DOMAIN q \subseteq Int /\ DOMAIN Tail(q) \subseteq Int
  BY <1>4
<1>5. ASSUME q # << >>, Head(q).proxy # p
      PROVE  /\ Unnamed(q, p) => Unnamed(Tail(q), p)
             /\ \A n : n.proxy = p /\ NamedBy(q, p, n) => NamedBy(Tail(q), p, n)
  <2>1. Unnamed(q, p) => Unnamed(Tail(q), p)
    BY <1>4, <1>5 DEF Unnamed
  <2>2. ASSUME NEW n, n.proxy = p, NamedBy(q, p, n) PROVE NamedBy(Tail(q), p, n)
    <3>1. PICK i \in DOMAIN q : q[i] = n /\ \A j \in DOMAIN q : q[j].proxy = p => j = i
      BY <2>2 DEF NamedBy
    <3>2. i - 1 \in DOMAIN Tail(q) /\ Tail(q)[i - 1] = n
      BY <1>4, <1>5, <2>2, <3>1
    <3>3. ASSUME NEW j \in DOMAIN Tail(q), Tail(q)[j].proxy = p PROVE j = i - 1
      <4>1. j + 1 = i
        BY <1>4, <1>5, <3>1, <3>3
      <4> QED BY <1>4, <1>5, <4>1
    <3> QED BY <3>2, <3>3 DEF NamedBy
  <2> QED BY <2>1, <2>2
<1>6. ASSUME q # << >>, Head(q).proxy = p
      PROVE  /\ ~Unnamed(q, p)
             /\ \A n : NamedBy(q, p, n) => n = Head(q) /\ Unnamed(Tail(q), p)
  BY <1>4, <1>6 DEF Unnamed, NamedBy
<1> QED
  BY <1>2, <1>3, <1>5, <1>6

\* Reading a message about p: it was the only one.
LEMMA CtlRead ==
  ASSUME NEW S, NEW q \in Seq(S), q # << >>, NEW p, Head(q).proxy = p
  PROVE  /\ ~Unnamed(q, p)
         /\ \A n : NamedBy(q, p, n) => n = Head(q) /\ Unnamed(Tail(q), p)
  BY CtlQueue

\* e belongs to p, or this step gives it to p.
Mine(p, e) ==
  \/ Uses(p, e)
  \/ (\A q \in Proxy : ~Uses(q, e)) /\ e \in opened' /\ e \notin Range(undeal_public_fds')

\* A step that changes nothing but what belongs to p.
OnlyAt(p) ==
  /\ \A q \in Proxy \ {p}, s \in Side :
       conn'[<<s, q>>] = conn[<<s, q>>] /\ net'[<<s, q>>] = net[<<s, q>>]
  /\ \A q \in Proxy \ {p} : q \in proxy_conn_map'["S"] <=> q \in proxy_conn_map["S"]
  /\ \A u \in Thread \ {Listener} :
       th'[u] = th[u] \/ (th[u].proxy \in {p, None} /\ th'[u].proxy \in {p, None})
  /\ \A s \in Side :
       \/ ctl'[s] = ctl[s]
       \/ \E m \in CtlMsg : m.proxy \in {p, None} /\ ctl'[s] = Append(ctl[s], m)
       \/ ctl[s] # << >> /\ Head(ctl[s]).proxy \in {p, None} /\ ctl'[s] = Tail(ctl[s])
  /\ \A e \in End : end'[e] = end[e] \/ (Mine(p, e) /\ end'[e].on \in {p, None})

\* A step about p is apart from every other proxy connection.
LEMMA OnlyAtApart ==
  ASSUME TypeOK, BindingInv, SessionInv, NEW p \in Proxy, OnlyAt(p), NEW q \in Proxy, q # p
  PROVE  Apart(q)
<1>0. q # None
  BY TunnelAssumption DEF TunnelAssumption
<1>1. \A u \in Thread \ {Listener} : th[u].proxy = q \/ th'[u].proxy = q => th'[u] = th[u]
  BY <1>0 DEF OnlyAt
<1>2. ASSUME NEW s \in Side
      PROVE  /\ Unnamed(ctl[s], q) => Unnamed(ctl'[s], q)
             /\ \A m : m.proxy = q /\ NamedBy(ctl[s], q, m) => NamedBy(ctl'[s], q, m)
  <2>1. ctl[s] \in Seq(CtlMsg)
    BY DEF TypeOK
  <2>2. CASE ctl'[s] = ctl[s]
    BY <2>2
  <2>3. CASE \E m \in CtlMsg : m.proxy \in {p, None} /\ ctl'[s] = Append(ctl[s], m)
    <3>1. PICK m \in CtlMsg : m.proxy \in {p, None} /\ ctl'[s] = Append(ctl[s], m)
      BY <2>3
    <3>2. m.proxy # q
      BY <1>0, <3>1
    <3>3. /\ Unnamed(ctl[s], q) => Unnamed(Append(ctl[s], m), q)
          /\ \A n : NamedBy(ctl[s], q, n) => NamedBy(Append(ctl[s], m), q, n)
      BY <2>1, <3>2, CtlQueue, Zenon
    <3> QED BY <3>1, <3>3, SMT
  <2>4. CASE ctl[s] # << >> /\ Head(ctl[s]).proxy \in {p, None} /\ ctl'[s] = Tail(ctl[s])
    <3>1. ctl[s] # << >> /\ Head(ctl[s]).proxy # q
      BY <1>0, <2>4
    <3>2. /\ Unnamed(ctl[s], q) => Unnamed(Tail(ctl[s]), q)
          /\ \A n : n.proxy = q /\ NamedBy(ctl[s], q, n) => NamedBy(Tail(ctl[s]), q, n)
      BY <2>1, <3>1, CtlQueue, Zenon
    <3> QED BY <2>4, <3>2, SMT
  <2> QED BY <2>2, <2>3, <2>4 DEF OnlyAt
<1>3. ASSUME NEW e \in End, Uses(q, e) \/ end'[e].on = q PROVE end'[e] = end[e]
  BY <1>0, <1>3, OneUser DEF OnlyAt, Mine
<1> QED
  BY <1>1, <1>2, <1>3 DEF Apart, OnlyAt

\* What remains to be shown of such a step is the session it is about, and the
\* free list.
LEMMA SessionStepFree ==
  ASSUME TypeOK, BindingInv, SessionInv, NEW p \in Proxy, OnlyAt(p), Session(p)',
         \A q \in Proxy : q \in Range(free_proxy_conns') \/ q \notin proxy_conn_map'["C"] =>
           \/ Blank(q)'
           \/ q # p /\ (q \in Range(free_proxy_conns) \/ q \notin proxy_conn_map["C"]),
         \A i, j \in DOMAIN free_proxy_conns' : free_proxy_conns'[i] = free_proxy_conns'[j] => i = j,
         opened \subseteq opened', Range(undeal_public_fds') \subseteq Range(undeal_public_fds),
         th'[Listener].pc \in {"idle", "wait"}
  PROVE  SessionInv'
<1>1. \A q \in Proxy : q # p => Apart(q)
  BY OnlyAtApart
<1>2. \A q \in Proxy : Session(q)'
  BY <1>1, ApartSession DEF SessionInv
<1>3. ASSUME NEW q \in Proxy, q \in Range(free_proxy_conns') \/ q \notin proxy_conn_map'["C"]
      PROVE  Blank(q)'
  <2>1. CASE q # p /\ (q \in Range(free_proxy_conns) \/ q \notin proxy_conn_map["C"])
    <3>1. Blank(q)
      BY <2>1 DEF SessionInv
    <3> QED BY <1>1, <2>1, <3>1, ApartStart
  <2> QED BY <1>3, <2>1
<1>4. ASSUME NEW e \in End, e \notin opened' \/ e \in Range(undeal_public_fds')
      PROVE  Fresh(e)'
  <2>1. e \notin opened \/ e \in Range(undeal_public_fds)
    BY <1>4
  <2>2. Fresh(e) /\ ~Uses(p, e)
    BY <2>1, OneUser DEF SessionInv
  <2>3. end'[e] = end[e]
    BY <1>4, <2>2 DEF OnlyAt, Mine
  <2> QED BY <2>2, <2>3 DEF Fresh
<1> QED
  BY <1>2, <1>3, <1>4 DEF SessionInv

\* So a step about one p in use preserves the invariant if it preserves p's session.
LEMMA SessionStep ==
  ASSUME TypeOK, BindingInv, SessionInv, NEW p \in Proxy, OnlyAt(p), ~Blank(p), Session(p)',
         UNCHANGED free_proxy_conns, proxy_conn_map'["C"] = proxy_conn_map["C"],
         opened \subseteq opened', Range(undeal_public_fds') \subseteq Range(undeal_public_fds),
         th'[Listener] = th[Listener]
  PROVE  SessionInv'
<1>1. ASSUME NEW q \in Proxy, q \in Range(free_proxy_conns') \/ q \notin proxy_conn_map'["C"]
      PROVE  q # p /\ (q \in Range(free_proxy_conns) \/ q \notin proxy_conn_map["C"])
  BY <1>1 DEF SessionInv
<1>2. \A i, j \in DOMAIN free_proxy_conns' : free_proxy_conns'[i] = free_proxy_conns'[j] => i = j
  BY DEF SessionInv
<1>3. th'[Listener].pc \in {"idle", "wait"}
  BY DEF SessionInv
<1> QED
  BY <1>1, <1>2, <1>3, SessionStepFree

----------------------------------------------------------------------------
(***************************************************************************)
(* A thread that is at work, and the phase it finds the session in         *)
(***************************************************************************)

\* No other thread than t works on p.
Alone(p, t) == \A u \in Thread \ {Listener, t} : th[u].proxy # p

\* A thread at work on p is the only one.
LEMMA AtWork ==
  ASSUME SessionInv, NEW p \in Proxy, NEW t \in Thread, t # Listener, th[t].proxy = p
  PROVE  /\ Alone(p, t) /\ ~Calm(p) /\ ~Blank(p) /\ \A x \in Pub : ~Invited(p, x)
         /\ \A u \in Thread : \A r : Active(p, u, r) => u = t /\ th[t] = r
<1>1. ~Calm(p) /\ ~Blank(p) /\ \A x \in Pub : ~Invited(p, x)
  BY DEF Calm, Blank, Invited
<1>2. \A u \in Thread : \A r : Active(p, u, r) => u = t /\ th[t] = r
  BY DEF Active
<1>3. ASSUME NEW u \in Thread, NEW r, Active(p, u, r) PROVE Alone(p, t)
  BY <1>2, <1>3 DEF Active, Alone
<1>4. \A s \in Side : Main(s) \in Thread /\ <<s, p>> \in Thread /\ Other(s) \in Side
  BY Threads
<1>5. ASSUME NEW l \in Loc, Launch(p, l) PROVE Alone(p, t)
  BY <1>1, <1>3, <1>4, <1>5 DEF Launch, Side
<1>6. ASSUME NEW f \in Side, NEW x \in Pub, NEW l \in Loc, Closing(p, f, x, l) PROVE Alone(p, t)
  <2> DEFINE a == EndAt(f, x, l)
             b == EndAt(Other(f), x, l)
  <2>1. CASE FirstClosed(p, f, a, b)
    BY <1>1, <1>3, <1>4, <2>1 DEF FirstClosed, Notifying, Notified, Shutting
  <2>2. CASE BothClosed(p, f, a, b)
    BY <1>1, <1>3, <1>4, <2>2 DEF BothClosed, Notifying, Notified, Shutting
  <2> QED BY <1>6, <2>1, <2>2 DEF Closing
<1>7. Freeing(p) => Alone(p, t)
  BY <1>1, <1>3, <1>4 DEF Freeing, Side
<1> QED
  BY <1>1, <1>2, <1>5, <1>6, <1>7 DEF SessionInv, Session, Opening, Talking

\* A thread in start() finds the session opening, or begun by the server.
LEMMA AtStart ==
  ASSUME TypeOK, SessionInv, NEW p \in Proxy, NEW t \in Thread, th[t].proxy = p,
         th[t].pc \in {"start", "bind"}
  PROVE  \E l \in Loc :
           /\ t \in {Main("C"), <<"C", p>>} /\ th[t] = At(th[t].pc, p, l) /\ Fresh(l)
           /\ th[t].pc = "start" => conn[<<"C", p>>] = Reset
           /\ th[t].pc = "bind" => conn[<<"C", p>>] = [Reset EXCEPT !.is_start = TRUE]
           /\ Opening(p, l) \/ \E x \in Pub : Talking(p, x, l)
<1>1. t # Listener
  BY DEF SessionInv
<1>2. \A s \in Side : Main(s) \in Thread /\ <<s, p>> \in Thread /\ Other(s) \in Side
  BY Threads
<1>3. ASSUME NEW lab, NEW e, lab \notin {"start", "bind"}, NEW u \in Thread PROVE ~Active(p, u, At(lab, p, e))
  BY <1>1, <1>3, AtWork, Records
<1>4. ASSUME NEW f \in Side, NEW x \in Pub, NEW l \in Loc PROVE ~Closing(p, f, x, l)
  <2> DEFINE a == EndAt(f, x, l)
             b == EndAt(Other(f), x, l)
  <2>1. ~FirstClosed(p, f, a, b)
    BY <1>1, <1>2, <1>3, AtWork DEF FirstClosed, Notifying, Notified, Shutting
  <2>2. ~BothClosed(p, f, a, b)
    BY <1>1, <1>2, <1>3, AtWork DEF BothClosed, Notifying, Notified, Shutting
  <2> QED BY <2>1, <2>2 DEF Closing
<1>5. ~Freeing(p)
  BY <1>1, <1>2, <1>3, AtWork DEF Freeing, Side
<1>6. PICK l \in Loc : Opening(p, l) \/ \E x \in Pub : Talking(p, x, l)
  BY <1>1, <1>4, <1>5, AtWork DEF SessionInv, Session
<1>7. Launch(p, l)
  BY <1>6 DEF Opening, Talking
<1>8. PICK u \in {Main("C"), <<"C", p>>} :
        /\ Fresh(l)
        /\ \/ Active(p, u, At("start", p, l)) /\ conn[<<"C", p>>] = Reset
           \/ Active(p, u, At("bind", p, l)) /\ conn[<<"C", p>>] = [Reset EXCEPT !.is_start = TRUE]
  BY <1>1, <1>7, AtWork DEF Launch
<1>9. u \in Thread
  BY <1>2 DEF Side
<1>10. CASE Active(p, u, At("start", p, l)) /\ conn[<<"C", p>>] = Reset
  <2>1. u = t /\ th[t] = At("start", p, l)
    BY <1>1, <1>9, <1>10, AtWork
  <2>2. th[t].pc = "start"
    BY <2>1, Records
  <2> QED BY <1>6, <1>8, <1>10, <2>1, <2>2
<1>11. CASE Active(p, u, At("bind", p, l)) /\ conn[<<"C", p>>] = [Reset EXCEPT !.is_start = TRUE]
  <2>1. u = t /\ th[t] = At("bind", p, l)
    BY <1>1, <1>9, <1>11, AtWork
  <2>2. th[t].pc = "bind"
    BY <2>1, Records
  <2> QED BY <1>6, <1>8, <1>11, <2>1, <2>2
<1> QED
  BY <1>8, <1>10, <1>11

\* What thread t, past start(), has found of a session that a closed first.
Finds(p, t, f, a, b) ==
  \/ /\ FirstClosed(p, f, a, b) /\ ~end[b].fin
     /\ \/ /\ th[t].pc = "notify" /\ t = <<f, p>> /\ th[t].end = a
           /\ conn[<<Other(f), p>>] = Started(b, FALSE, -1)
        \/ /\ th[t].pc \in {"check", "shut"} /\ t = Main(Other(f))
           /\ conn[<<Other(f), p>>] = Started(b, FALSE, Heard(b))
  \/ /\ BothClosed(p, f, a, b)
     /\ \/ /\ th[t].pc = "notify" /\ t = <<Other(f), p>> /\ th[t].end = b
           /\ conn[<<f, p>>] = Started(a, TRUE, -1)
        \/ /\ th[t].pc \in {"check", "shut"} /\ t = Main(f)
           /\ conn[<<f, p>>] = Started(a, TRUE, Heard(a))

\* A thread past start() finds the session closing, or on its way to the free list.
LEMMA AtClose ==
  ASSUME TypeOK, SessionInv, NEW p \in Proxy, NEW t \in Thread, th[t].proxy = p,
         th[t].pc \in {"notify", "check", "shut"}
  PROVE  \E f \in Side, x \in Pub, l \in Loc :
           Closing(p, f, x, l) /\ Silent(p) /\ Finds(p, t, f, EndAt(f, x, l), EndAt(Other(f), x, l))
<1>1. t # Listener
  BY DEF SessionInv
<1>2. \A s \in Side : Main(s) \in Thread /\ <<s, p>> \in Thread /\ Other(s) \in Side
  BY Threads
<1>3. ASSUME NEW lab, NEW e, NEW u \in Thread, Active(p, u, At(lab, p, e))
      PROVE  u = t /\ th[t].pc = lab /\ th[t].end = e
  BY <1>1, <1>3, AtWork, Records
<1>4. ASSUME NEW l \in Loc PROVE ~Launch(p, l)
  <2>1. ~Calm(p)
    BY <1>1, AtWork
  <2>2. ASSUME NEW u \in {Main("C"), <<"C", p>>}
        PROVE  ~Active(p, u, At("start", p, l)) /\ ~Active(p, u, At("bind", p, l))
    <3>1. u \in Thread
      BY <1>2 DEF Side
    <3> QED BY <1>3, <3>1
  <2> QED BY <2>1, <2>2 DEF Launch
<1>5. ~Freeing(p)
  BY <1>1, <1>2, <1>3, AtWork DEF Freeing, Side
<1>6. PICK f \in Side, x \in Pub, l \in Loc : Closing(p, f, x, l)
  BY <1>1, <1>4, <1>5, AtWork DEF SessionInv, Session, Opening, Talking
<1> DEFINE a == EndAt(f, x, l)
           b == EndAt(Other(f), x, l)
<1>7. ASSUME FirstClosed(p, f, a, b)
      PROVE  /\ Silent(p) /\ ~end[b].fin
             /\ \/ /\ th[t].pc = "notify" /\ t = <<f, p>> /\ th[t].end = a
                   /\ conn[<<Other(f), p>>] = Started(b, FALSE, -1)
                \/ /\ th[t].pc \in {"check", "shut"} /\ t = Main(Other(f))
                   /\ conn[<<Other(f), p>>] = Started(b, FALSE, Heard(b))
  BY <1>1, <1>2, <1>3, <1>7, AtWork DEF FirstClosed, Notifying, Notified, Shutting
<1>8. ASSUME BothClosed(p, f, a, b)
      PROVE  /\ Silent(p)
             /\ \/ /\ th[t].pc = "notify" /\ t = <<Other(f), p>> /\ th[t].end = b
                   /\ conn[<<f, p>>] = Started(a, TRUE, -1)
                \/ /\ th[t].pc \in {"check", "shut"} /\ t = Main(f)
                   /\ conn[<<f, p>>] = Started(a, TRUE, Heard(a))
  BY <1>1, <1>2, <1>3, <1>8, AtWork DEF BothClosed, Notifying, Notified, Shutting
<1> HIDE DEF a, b
<1>9. FirstClosed(p, f, a, b) \/ BothClosed(p, f, a, b)
  BY <1>6 DEF Closing, a, b
<1>10. Silent(p) /\ Finds(p, t, f, a, b)
  BY <1>7, <1>8, <1>9 DEF Finds
<1> QED
  BY <1>6, <1>10 DEF a, b

\* Outside start() and the handling of a close, a handler on p is returning p.
LEMMA AtFree ==
  ASSUME TypeOK, SessionInv, NEW p \in Proxy, NEW t \in Thread, t # Listener, th[t].proxy = p,
         th[t].pc \notin {"start", "bind", "notify", "check", "shut"}
  PROVE  /\ Freeing(p) /\ Silent(p)
         /\ \/ th[t].pc = "reqfree" /\ t = Main("C")
            \/ th[t].pc \in {"free", "push"} /\ t = Main("S")
<1>2. \A s \in Side : Main(s) \in Thread /\ <<s, p>> \in Thread /\ Other(s) \in Side
  BY Threads
<1>3. ASSUME NEW lab, NEW e, NEW u \in Thread, Active(p, u, At(lab, p, e))
      PROVE  u = t /\ th[t].pc = lab /\ th[t].end = e
  BY <1>3, AtWork, Records
<1>4. ASSUME NEW l \in Loc PROVE ~Launch(p, l)
  <2>1. ~Calm(p)
    BY AtWork
  <2>2. ASSUME NEW u \in {Main("C"), <<"C", p>>}
        PROVE  ~Active(p, u, At("start", p, l)) /\ ~Active(p, u, At("bind", p, l))
    <3>1. u \in Thread
      BY <1>2 DEF Side
    <3> QED BY <1>3, <3>1
  <2> QED BY <2>1, <2>2 DEF Launch
<1>5. ASSUME NEW f \in Side, NEW x \in Pub, NEW l \in Loc PROVE ~Closing(p, f, x, l)
  <2> DEFINE a == EndAt(f, x, l)
             b == EndAt(Other(f), x, l)
  <2>1. ~FirstClosed(p, f, a, b)
    BY <1>2, <1>3, AtWork DEF FirstClosed, Notifying, Notified, Shutting
  <2>2. ~BothClosed(p, f, a, b)
    BY <1>2, <1>3, AtWork DEF BothClosed, Notifying, Notified, Shutting
  <2> QED BY <2>1, <2>2 DEF Closing
<1>6. Freeing(p)
  BY <1>4, <1>5, AtWork DEF SessionInv, Session, Opening, Talking
<1> QED
  BY <1>2, <1>3, <1>6, AtWork DEF Freeing, Side

----------------------------------------------------------------------------
(***************************************************************************)
(* The steps of a thread that is at work                                   *)
(***************************************************************************)

\* The threads at work on p after the only one of them goes on.
LEMMA GoesOn ==
  ASSUME TypeOK, NEW p \in Proxy, NEW t \in Thread, t # Listener, Alone(p, t), NEW r, Goto(t, r)
  PROVE  /\ th'[t] = r /\ \A u \in Thread : u # t => th'[u] = th[u]
         /\ th'[Listener] = th[Listener]
         /\ r.proxy # p => Calm(p)'
         /\ Active(p, t, r)'
<1>1. th'[t] = r /\ \A u \in Thread : u # t => th'[u] = th[u]
  BY DEF TypeOK, Goto
<1>2. th'[Listener] = th[Listener]
  BY <1>1, Threads
<1> QED
  BY <1>1, <1>2 DEF Calm, Active, Alone

\* An idle thread works on no proxy connection.
LEMMA IdleProxy == \A p \in Proxy : Idle.proxy # p
  BY TunnelAssumption DEF TunnelAssumption, Idle

\* start() takes the end bound before off p, and leaves the streams alone.
LEMMA MountedEnds ==
  ASSUME TypeOK, NEW e \in End, NEW p \in Proxy, end' = Mounted(e, p)
  PROVE  /\ end'[e].on = p
         /\ \A f \in End : f # e =>
              end'[f] = end[f] \/ (end[f].on = p /\ SideOf(f) = SideOf(e) /\ end'[f].on = None)
         /\ \A f \in End : /\ end'[f].tran = end[f].tran /\ end'[f].closing = end[f].closing
                          /\ end'[f].out = end[f].out /\ end'[f].fin = end[f].fin
<1> SUFFICES ASSUME NEW f \in End
             PROVE  /\ f = e => end'[f].on = p
                    /\ f # e => end'[f] = end[f] \/ (end[f].on = p /\ SideOf(f) = SideOf(e) /\ end'[f].on = None)
                    /\ end'[f].tran = end[f].tran /\ end'[f].closing = end[f].closing
                    /\ end'[f].out = end[f].out /\ end'[f].fin = end[f].fin
  OBVIOUS
<1>1. end[f] \in EndState
  BY DEF TypeOK
<1>2. CASE f = e
  <2>1. end'[f] = [end[f] EXCEPT !.on = p]
    BY <1>2 DEF Mounted
  <2> QED BY <1>1, <1>2, <2>1 DEF EndState
<1>3. CASE f # e /\ SideOf(f) = SideOf(e) /\ end[f].on = p
  <2>1. end'[f] = [end[f] EXCEPT !.on = None]
    BY <1>3 DEF Mounted
  <2> QED BY <1>1, <1>3, <2>1 DEF EndState
<1>4. CASE f # e /\ ~(SideOf(f) = SideOf(e) /\ end[f].on = p)
  <2>1. end'[f] = end[f]
    BY <1>4 DEF Mounted
  <2> QED BY <1>4, <2>1
<1> QED
  BY <1>2, <1>3, <1>4

\* The client gets on with start() while all else stays.
LEMMA LaunchMoves ==
  ASSUME NEW p \in Proxy, NEW l \in Loc, Launch(p, l)', UNCHANGED <<net, ctl, proxy_conn_map>>,
         conn'[<<"S", p>>] = conn[<<"S", p>>],
         \A x \in Pub : end'[x] = end[x],
         /\ end'[l].tran = end[l].tran /\ end'[l].closing = end[l].closing
         /\ end'[l].out = end[l].out /\ end'[l].fin = end[l].fin
  PROVE  /\ Opening(p, l) => Opening(p, l)'
         /\ \A x \in Pub : Talking(p, x, l) => Talking(p, x, l)'
<1>1. Silent(p) => Silent(p)'
  BY DEF Silent
<1>2. \A m \in Item : Greeting(m) => Greeting(m)'
  BY Items DEF Greeting, Fresh
<1>3. Opening(p, l) => Opening(p, l)'
  BY <1>1, <1>2 DEF Opening
<1>4. ASSUME NEW x \in Pub, Talking(p, x, l) PROVE Talking(p, x, l)'
  <2>1. Heard(x)' = Heard(x) /\ Heard(l)' = Heard(l)
    BY DEF Heard
  <2>2. Match(x, l)' /\ Turn(x, l)'
    BY <1>4, <2>1 DEF Talking, Match, Turn
  <2> QED BY <1>1, <1>4, <2>1, <2>2 DEF Talking, Started
<1> QED
  BY <1>3, <1>4

\* start() sets is_start_ (lib/proxy_conn.h): the launch goes on to its second half.
LEMMA StartFlagSession ==
  ASSUME TypeOK, BindingInv, SessionInv, NEW t \in Thread, StartFlag(t)
  PROVE  SessionInv'
<1>0. th[t].proxy \in Proxy
  BY Frames DEF StartFlag, TypeOK
<1> SUFFICES ASSUME NEW p \in Proxy, th[t].proxy = p PROVE SessionInv'
  BY <1>0
<1>1. t # Listener /\ th[t].pc = "start"
  BY DEF StartFlag, SessionInv
<1>2. PICK l \in Loc : /\ t \in {Main("C"), <<"C", p>>} /\ th[t] = At("start", p, l) /\ Fresh(l)
                       /\ conn[<<"C", p>>] = Reset
                       /\ Opening(p, l) \/ \E x \in Pub : Talking(p, x, l)
  BY <1>1, AtStart
<1>3. Alone(p, t) /\ ~Blank(p)
  BY <1>1, AtWork
<1>4. th[t].end = l
  BY <1>2, Records
<1>5. /\ th'[t] = At("bind", p, l) /\ \A u \in Thread : u # t => th'[u] = th[u]
      /\ th'[Listener] = th[Listener] /\ Active(p, t, At("bind", p, l))'
  BY <1>1, <1>3, <1>4, GoesOn DEF StartFlag
<1>6. /\ conn'[<<"C", p>>] = [Reset EXCEPT !.is_start = TRUE]
      /\ conn'[<<"S", p>>] = conn[<<"S", p>>]
      /\ \A q \in Proxy \ {p}, s \in Side : conn'[<<s, q>>] = conn[<<s, q>>]
  BY <1>1, <1>2, Threads DEF StartFlag, TypeOK, Side
<1>7. OnlyAt(p)
  BY <1>1, <1>5, <1>6, Records DEF OnlyAt, StartFlag
<1>8. Launch(p, l)'
  <2>1. Fresh(l)'
    BY <1>2 DEF Fresh, StartFlag
  <2> QED BY <1>2, <1>5, <1>6, <2>1 DEF Launch
<1>9. Opening(p, l)' \/ \E x \in Pub : Talking(p, x, l)'
  BY <1>1, <1>2, <1>6, <1>8, LaunchMoves DEF StartFlag
<1>10. Polled(p)'
  <2>1. \A s \in Side : conn'[<<s, p>>].peer = conn[<<s, p>>].peer
    BY <1>2, <1>6 DEF Side, Reset
  <2> QED BY <1>1, <2>1, Ends DEF SessionInv, Session, Polled, StartFlag
<1>11. Session(p)'
  BY <1>9, <1>10 DEF Session
<1> QED
  BY <1>1, <1>3, <1>5, <1>7, <1>11, SessionStep DEF StartFlag

\* start() binds the peer: the local connection is now polled.
LEMMA StartBindSession ==
  ASSUME TypeOK, BindingInv, SessionInv, NEW t \in Thread, StartBind(t)
  PROVE  SessionInv'
<1>0. th[t].proxy \in Proxy
  BY Frames DEF StartBind, TypeOK
<1> SUFFICES ASSUME NEW p \in Proxy, th[t].proxy = p PROVE SessionInv'
  BY <1>0
<1>1. p # None /\ t # Listener /\ th[t].pc = "bind"
  BY TunnelAssumption DEF StartBind, SessionInv, TunnelAssumption
<1>2. PICK l \in Loc : /\ t \in {Main("C"), <<"C", p>>} /\ th[t] = At("bind", p, l) /\ Fresh(l)
                       /\ conn[<<"C", p>>] = [Reset EXCEPT !.is_start = TRUE]
                       /\ Opening(p, l) \/ \E x \in Pub : Talking(p, x, l)
  BY <1>1, AtStart, ZenonT(60)
<1>3. Alone(p, t) /\ ~Blank(p)
  BY <1>1, AtWork
<1>4. th[t].end = l /\ l \in End /\ SideOf(l) = "C" /\ \A x \in Pub : x \in End /\ SideOf(x) = "S" /\ x # l
  BY <1>2, Records, Ends, TunnelAssumption DEF TunnelAssumption, SideOf
<1>5. /\ th'[t] = Idle /\ \A u \in Thread : u # t => th'[u] = th[u]
      /\ th'[Listener] = th[Listener] /\ Calm(p)'
  BY <1>1, <1>3, GoesOn, IdleProxy DEF StartBind
<1>6. /\ conn'[<<"C", p>>] = [Reset EXCEPT !.is_start = TRUE, !.peer = l]
      /\ conn'[<<"S", p>>] = conn[<<"S", p>>]
      /\ \A q \in Proxy \ {p}, s \in Side : conn'[<<s, q>>] = conn[<<s, q>>]
  BY <1>1, <1>2, <1>4, Threads DEF StartBind, TypeOK, Side, Reset
<1>8. /\ end'[l].on = p /\ end'[l].tran = end[l].tran /\ end'[l].closing = end[l].closing
      /\ end'[l].out = end[l].out /\ end'[l].fin = end[l].fin
      /\ \A e \in End : e # l => end'[e] = end[e] \/ (end[e].on = p /\ SideOf(e) = "C" /\ end'[e].on = None)
  BY <1>4, MountedEnds DEF StartBind
<1>9. OnlyAt(p)
  <2>1. Uses(p, l)
    BY <1>1, <1>4 DEF Uses, LocOn
  <2>2. \A e \in End : end'[e] = end[e] \/ (Mine(p, e) /\ end'[e].on \in {p, None})
    BY <1>8, <2>1 DEF Mine, Uses
  <2> QED BY <1>1, <1>5, <1>6, <2>2, Records DEF OnlyAt, StartBind
<1>10. Launch(p, l)'
  <2>1. end'[l].out = << >>
    BY <1>2, <1>8 DEF Fresh
  <2>2. conn'[<<"C", p>>] = Started(l, FALSE, -1)'
    BY <1>6, <2>1 DEF Started, Heard, Reset
  <2> QED BY <1>5, <1>8, <2>2 DEF Launch
<1>11. Opening(p, l)' \/ \E x \in Pub : Talking(p, x, l)'
  BY <1>1, <1>2, <1>4, <1>6, <1>8, <1>10, LaunchMoves DEF StartBind
<1>12. Polled(p)'
  <2> SUFFICES ASSUME NEW e \in End, end'[e].on = p, ~end'[e].closing
               PROVE  conn'[<<SideOf(e), p>>].peer = e
    BY DEF Polled
  <2>1. CASE e = l
    BY <1>4, <1>6, <2>1 DEF Reset
  <2>2. CASE e # l /\ e \in Pub
    BY <1>1, <1>4, <1>6, <1>8, <2>2 DEF SessionInv, Session, Polled
  <2>3. CASE e # l /\ e \in Loc
    <3>1. end'[e] = end[e]
      BY <1>1, <1>8, <2>3
    <3>2. conn[<<"C", p>>].peer = e
      BY <1>1, <2>3, <3>1, TunnelAssumption DEF TunnelAssumption, SessionInv, Session, Polled, SideOf
    <3> QED BY <1>2, <2>3, <3>2, Records, TunnelAssumption DEF TunnelAssumption
  <2> QED BY <2>1, <2>2, <2>3 DEF End
<1>13. Session(p)'
  BY <1>11, <1>12 DEF Session
<1> QED
  BY <1>1, <1>3, <1>5, <1>9, <1>13, SessionStep DEF StartBind

\* The end that closes first, on side f, and its partner.
LEMMA Roles ==
  ASSUME NEW f \in Side, NEW x \in Pub, NEW l \in Loc
  PROVE  LET a == EndAt(f, x, l)
             b == EndAt(Other(f), x, l)
             g == Other(f)
         IN /\ a \in End /\ b \in End /\ a # b /\ a # None /\ b # None
            /\ (a = x /\ b = l) \/ (a = l /\ b = x)
            /\ g \in Side /\ g # f /\ SideOf(a) = f /\ SideOf(b) = g
            /\ \A s \in Side : s = f \/ s = g
<1>1. x \in End /\ l \in End /\ x # l /\ x # None /\ l # None /\ SideOf(x) = "S" /\ SideOf(l) = "C"
  BY Ends, TunnelAssumption DEF TunnelAssumption, SideOf
<1>2. CASE f = "S"
  <2>1. Other(f) = "C" /\ EndAt(f, x, l) = x /\ EndAt(Other(f), x, l) = l
    BY <1>2 DEF Other, EndAt
  <2> QED BY <1>1, <1>2, <2>1 DEF Side
<1>3. CASE f = "C"
  <2>1. Other(f) = "S" /\ EndAt(f, x, l) = l /\ EndAt(Other(f), x, l) = x
    BY <1>3 DEF Other, EndAt
  <2> QED BY <1>1, <1>3, <2>1 DEF Side
<1> QED
  BY <1>2, <1>3 DEF Side

\* A session goes on closing while the streams and the maps stay.
LEMMA ClosingMoves ==
  ASSUME NEW p \in Proxy, NEW f \in Side, NEW x \in Pub, NEW l \in Loc, Closing(p, f, x, l),
         UNCHANGED <<net, end, proxy_conn_map>>,
         \/ FirstClosed(p, f, EndAt(f, x, l), EndAt(Other(f), x, l))'
         \/ BothClosed(p, f, EndAt(f, x, l), EndAt(Other(f), x, l))'
  PROVE  Closing(p, f, x, l)'
<1>1. Match(x, l)' /\ Heard(x)' = Heard(x) /\ Heard(l)' = Heard(l)
  BY DEF Closing, Match, Heard
<1> QED
  BY <1>1 DEF Closing

\* The ends that p polls, when its peers and the ends stay.
LEMMA PolledStays ==
  ASSUME SessionInv, NEW p \in Proxy, UNCHANGED end,
         \A s \in Side : conn'[<<s, p>>].peer = conn[<<s, p>>].peer
  PROVE  Polled(p)'
  BY Ends DEF SessionInv, Session, Polled

\* The notification of a closed end is the one message about p on the control connection.
LEMMA NotifyPeerSession ==
  ASSUME TypeOK, BindingInv, SessionInv, NEW t \in Thread, NotifyPeer(t)
  PROVE  SessionInv'
<1>0. th[t].proxy \in Proxy
  BY Frames DEF NotifyPeer, TypeOK
<1> SUFFICES ASSUME NEW p \in Proxy, th[t].proxy = p PROVE SessionInv'
  BY <1>0
<1>1. th[t].pc = "notify" /\ t # Listener
  BY DEF NotifyPeer, SessionInv
<1>2. Alone(p, t) /\ ~Blank(p)
  BY <1>1, AtWork
<1>3. /\ th'[t] = Idle /\ \A u \in Thread : u # t => th'[u] = th[u]
      /\ th'[Listener] = th[Listener] /\ Calm(p)'
  BY <1>1, <1>2, GoesOn, IdleProxy DEF NotifyPeer
<1>4. PICK f \in Side, x \in Pub, l \in Loc :
        Closing(p, f, x, l) /\ Silent(p) /\ Finds(p, t, f, EndAt(f, x, l), EndAt(Other(f), x, l))
  BY <1>1, AtClose
<1> DEFINE a == EndAt(f, x, l)
           b == EndAt(Other(f), x, l)
<1>5. PICK s \in Side, e \in End :
        /\ t = <<s, p>> /\ th[t].end = e
        /\ \/ /\ FirstClosed(p, f, a, b) /\ ~end[b].fin /\ s = f /\ e = a
              /\ conn[<<Other(f), p>>] = Started(b, FALSE, -1)
           \/ /\ BothClosed(p, f, a, b) /\ s = Other(f) /\ e = b
              /\ conn[<<f, p>>] = Started(a, TRUE, -1)
  <2>1. a \in End /\ b \in End /\ Other(f) \in Side
    BY Ends, Threads DEF EndAt
  <2> HIDE DEF a, b
  <2>2. Finds(p, t, f, a, b)
    BY <1>4 DEF a, b
  <2>3. CASE /\ FirstClosed(p, f, a, b) /\ ~end[b].fin /\ t = <<f, p>> /\ th[t].end = a
             /\ conn[<<Other(f), p>>] = Started(b, FALSE, -1)
    BY <2>1, <2>3
  <2>4. CASE /\ BothClosed(p, f, a, b) /\ t = <<Other(f), p>> /\ th[t].end = b
             /\ conn[<<f, p>>] = Started(a, TRUE, -1)
    BY <2>1, <2>4
  <2> QED BY <1>1, <2>2, <2>3, <2>4 DEF Finds
<1> DEFINE m == Shutdown(p, end[e].tran)
<1>6. m \in CtlMsg /\ m.proxy = p
  BY CtlMsgs DEF TypeOK, EndState, Shutdown
<1>7. /\ ctl'[Other(s)] = Append(ctl[Other(s)], m)
      /\ \A r \in Side : r # Other(s) => ctl'[r] = ctl[r]
      /\ Other(s) \in Side /\ Other(Other(s)) = s /\ s # Other(s)
  BY <1>5 DEF NotifyPeer, TypeOK, Side, Other
<1>8. Notified(p, s, e)'
  <2>1. Unnamed(ctl[Other(s)], p) /\ Unnamed(ctl'[s], p)
    BY <1>4, <1>7 DEF Silent
  <2>2. ctl[Other(s)] \in Seq(CtlMsg)
    BY <1>7 DEF TypeOK
  <2>3. NamedBy(Append(ctl[Other(s)], m), p, m)
    BY <1>6, <2>1, <2>2, CtlQueue
  <2> QED BY <1>3, <1>7, <2>1, <2>3 DEF Notified, Told, NotifyPeer
<1>9. OnlyAt(p)
  BY <1>1, <1>3, <1>6, <1>7, Records DEF OnlyAt, NotifyPeer
<1>10. Session(p)'
  <2>1. Polled(p)'
    BY PolledStays DEF NotifyPeer
  <2>2. UNCHANGED <<conn, net, end, proxy_conn_map>> /\ Heard(a)' = Heard(a) /\ Heard(b)' = Heard(b)
    BY DEF NotifyPeer, Heard
  <2>3. CASE FirstClosed(p, f, a, b) /\ s = f /\ e = a /\ ~end[b].fin /\ conn[<<Other(f), p>>] = Started(b, FALSE, -1)
    <3>1. FirstClosed(p, f, a, b)'
      BY <1>8, <2>2, <2>3 DEF FirstClosed, Started
    <3> QED BY <1>4, <2>1, <2>2, <3>1, ClosingMoves DEF Session
  <2>4. CASE BothClosed(p, f, a, b) /\ s = Other(f) /\ e = b /\ conn[<<f, p>>] = Started(a, TRUE, -1)
    <3>1. BothClosed(p, f, a, b)'
      BY <1>8, <2>2, <2>4 DEF BothClosed, Started
    <3> QED BY <1>4, <2>1, <2>2, <3>1, ClosingMoves DEF Session
  <2> QED BY <1>5, <2>3, <2>4
<1> QED
  BY <1>1, <1>2, <1>3, <1>9, <1>10, SessionStep DEF NotifyPeer

\* The counts agree whenever a main thread compares them.
LEMMA CheckCountsSession ==
  ASSUME TypeOK, BindingInv, SessionInv, NEW t \in Thread, CheckCounts(t)
  PROVE  SessionInv'
<1>0. th[t].proxy \in Proxy
  BY Frames DEF CheckCounts, TypeOK
<1> SUFFICES ASSUME NEW p \in Proxy, th[t].proxy = p PROVE SessionInv'
  BY <1>0
<1>1. th[t].pc = "check" /\ t # Listener
  BY DEF CheckCounts, SessionInv
<1>2. Alone(p, t) /\ ~Blank(p)
  BY <1>1, AtWork
<1>3. PICK f \in Side, x \in Pub, l \in Loc :
        Closing(p, f, x, l) /\ Silent(p) /\ Finds(p, t, f, EndAt(f, x, l), EndAt(Other(f), x, l))
  BY <1>1, AtClose
<1> DEFINE a == EndAt(f, x, l)
           b == EndAt(Other(f), x, l)
           shut == At("shut", p, None)
<1>4. ASSUME Goto(t, shut)
      PROVE  /\ OnlyAt(p) /\ th'[Listener] = th[Listener] /\ Active(p, t, shut)' /\ Silent(p)' /\ Polled(p)'
             /\ UNCHANGED <<conn, net, end, proxy_conn_map>> /\ Heard(a)' = Heard(a) /\ Heard(b)' = Heard(b)
  <2>1. /\ th'[t] = shut /\ \A u \in Thread : u # t => th'[u] = th[u]
        /\ th'[Listener] = th[Listener] /\ Active(p, t, shut)'
    BY <1>1, <1>2, <1>4, GoesOn
  <2>2. OnlyAt(p)
    BY <2>1, Records DEF OnlyAt, CheckCounts
  <2>3. Silent(p)' /\ UNCHANGED <<conn, net, end, proxy_conn_map>> /\ Heard(a)' = Heard(a) /\ Heard(b)' = Heard(b)
    BY <1>3 DEF Silent, CheckCounts, Heard
  <2> QED BY <2>1, <2>2, <2>3, PolledStays
<1>5. CASE /\ FirstClosed(p, f, a, b) /\ ~end[b].fin /\ t = Main(Other(f))
           /\ conn[<<Other(f), p>>] = Started(b, FALSE, Heard(b))
  <2>1. Goto(t, shut)
    BY <1>5 DEF CheckCounts, AllForwarded, Started, Main
  <2>2. FirstClosed(p, f, a, b)'
    BY <1>4, <1>5, <2>1 DEF FirstClosed, Shutting, Started
  <2>3. Closing(p, f, x, l)'
    BY <1>3, <1>4, <2>1, <2>2, ClosingMoves
  <2> QED BY <1>2, <1>4, <2>1, <2>3, SessionStep DEF Session, CheckCounts
<1>6. CASE /\ BothClosed(p, f, a, b) /\ t = Main(f) /\ conn[<<f, p>>] = Started(a, TRUE, Heard(a))
  <2>1. Goto(t, shut)
    BY <1>6 DEF CheckCounts, AllForwarded, Started, Main
  <2>2. BothClosed(p, f, a, b)'
    BY <1>4, <1>6, <2>1 DEF BothClosed, Shutting, Started
  <2>3. Closing(p, f, x, l)'
    BY <1>3, <1>4, <2>1, <2>2, ClosingMoves
  <2> QED BY <1>2, <1>4, <2>1, <2>3, SessionStep DEF Session, CheckCounts
<1> HIDE DEF a, b
<1>7. Finds(p, t, f, a, b)
  BY <1>3 DEF a, b
<1> QED
  BY <1>1, <1>5, <1>6, <1>7 DEF Finds

\* An end is told that its partner has closed; the second time p is reset.
LEMMA ShutdownFromRemoteSession ==
  ASSUME TypeOK, BindingInv, SessionInv, NEW t \in Thread, ShutdownFromRemote(t)
  PROVE  SessionInv'
<1>0. th[t].proxy \in Proxy
  BY Frames DEF ShutdownFromRemote, TypeOK
<1> SUFFICES ASSUME NEW p \in Proxy, th[t].proxy = p PROVE SessionInv'
  BY <1>0
<1>1. th[t].pc = "shut" /\ t # Listener
  BY DEF ShutdownFromRemote, SessionInv
<1>2. Alone(p, t) /\ ~Blank(p)
  BY <1>1, AtWork
<1>3. PICK f \in Side, x \in Pub, l \in Loc :
        Closing(p, f, x, l) /\ Silent(p) /\ Finds(p, t, f, EndAt(f, x, l), EndAt(Other(f), x, l))
  BY <1>1, AtClose
<1> DEFINE a == EndAt(f, x, l)
           b == EndAt(Other(f), x, l)
           g == Other(f)
<1>4. /\ a \in End /\ b \in End /\ a # b /\ a # None /\ b # None
      /\ (a = x /\ b = l) \/ (a = l /\ b = x)
      /\ g \in Side /\ g # f /\ SideOf(a) = f /\ SideOf(b) = g
      /\ \A s \in Side : s = f \/ s = g
  BY Roles
<1>5. /\ end[a] \in EndState /\ end[b] \in EndState /\ <<f, p>> \in Conn /\ <<g, p>> \in Conn
      /\ end[a].on = p /\ end[b].on = p
      /\ end[a].closing /\ ~end[a].fin /\ end[b].tran = Quota(b)
  <2>1. \A e \in End : end[e] \in EndState
    BY DEF TypeOK
  <2> QED BY <1>3, <1>4, <2>1, Threads DEF Closing, EndAt
<1>6. /\ Silent(p)' /\ UNCHANGED <<net, ctl, proxy_conn_map, free_proxy_conns, undeal_public_fds, opened>>
  BY <1>3 DEF ShutdownFromRemote, Silent
<1>7. CASE /\ FirstClosed(p, f, a, b) /\ ~end[b].fin /\ t = Main(g)
           /\ conn[<<g, p>>] = Started(b, FALSE, Heard(b))
  <2>1. conn[<<g, p>>].peer = b /\ ~conn[<<g, p>>].half_close /\ t[1] = g
    BY <1>7 DEF Started, Main
  <2>2. /\ end' = [end EXCEPT ![b].fin = TRUE] /\ conn' = [conn EXCEPT ![<<g, p>>].half_close = TRUE]
        /\ Goto(t, Idle)
    BY <1>4, <2>1 DEF ShutdownFromRemote, HalfClosed
  <2>3. /\ th'[t] = Idle /\ \A u \in Thread : u # t => th'[u] = th[u]
        /\ th'[Listener] = th[Listener] /\ Calm(p)'
    BY <1>1, <1>2, <2>2, GoesOn, IdleProxy
  <2>4. /\ \A e \in End : e # b => end'[e] = end[e]
        /\ end'[b] = [end[b] EXCEPT !.fin = TRUE]
    BY <1>4, <2>2 DEF TypeOK
  <2>5. /\ end'[b].fin /\ end'[b].on = p /\ end'[b].tran = end[b].tran /\ end'[b].closing = end[b].closing
        /\ end'[b].out = end[b].out
    BY <1>5, <2>4 DEF EndState
  <2>6. /\ conn'[<<g, p>>] = Started(b, TRUE, Heard(b))
        /\ \A c \in Conn : c # <<g, p>> => conn'[c] = conn[c]
    <3>1. /\ conn'[<<g, p>>] = [conn[<<g, p>>] EXCEPT !.half_close = TRUE]
          /\ \A c \in Conn : c # <<g, p>> => conn'[c] = conn[c]
      BY <1>5, <2>2 DEF TypeOK
    <3>2. conn'[<<g, p>>] = Started(b, TRUE, Heard(b))
      <4>1. conn'[<<g, p>>] = [Started(b, FALSE, Heard(b)) EXCEPT !.half_close = TRUE]
        BY <1>7, <3>1
      <4> QED BY <4>1, HalfClose, Zenon
    <3> QED BY <3>1, <3>2
  <2>7. OnlyAt(p)
    <3>1. Uses(p, b)
      BY <1>5 DEF Uses
    <3>2. \A q \in Proxy \ {p}, s \in Side : conn'[<<s, q>>] = conn[<<s, q>>]
      BY <2>6, Threads
    <3> QED BY <1>6, <2>3, <2>4, <2>5, <3>1, <3>2, Records DEF OnlyAt, Mine
  <2>8. Heard(a)' = Heard(a) /\ Heard(b)' = Heard(b) /\ Heard(x)' = Heard(x) /\ Heard(l)' = Heard(l)
    BY <1>4, <2>4, <2>5 DEF Heard
  <2>9. FirstClosed(p, f, a, b)'
    BY <1>4, <1>5, <1>6, <1>7, <2>3, <2>4, <2>5, <2>6, <2>8 DEF FirstClosed, Started
  <2>10. Closing(p, f, x, l)'
    <3>0. end'[x].out = end[x].out /\ end'[l].out = end[l].out
      BY <1>4, <2>4, <2>5
    <3>1. Match(x, l)'
      BY <1>3, <3>0 DEF Closing, Match
    <3>2. /\ end'[a].closing /\ ~end'[a].fin /\ end'[b].tran = Quota(b)
          /\ end'[x].on = p /\ end'[l].on = p
      BY <1>4, <1>5, <2>4, <2>5
    <3>3. end'[x].tran = end[x].tran /\ end'[l].tran = end[l].tran
      BY <1>4, <2>4, <2>5
    <3> QED BY <1>3, <1>6, <2>8, <2>9, <3>1, <3>2, <3>3 DEF Closing
  <2>11. Polled(p)'
    <3>1. \A s \in Side : conn'[<<s, p>>].peer = conn[<<s, p>>].peer
      BY <1>4, <1>5, <2>1, <2>6 DEF Started
    <3>2. \A e \in End : end'[e].on = end[e].on /\ end'[e].closing = end[e].closing
      BY <1>5, <2>4, <2>5
    <3> QED BY <3>1, <3>2, Ends DEF SessionInv, Session, Polled
  <2> QED BY <1>2, <1>6, <2>3, <2>7, <2>10, <2>11, SessionStep DEF Session
<1>8. CASE BothClosed(p, f, a, b) /\ t = Main(f) /\ conn[<<f, p>>] = Started(a, TRUE, Heard(a))
  <2> DEFINE r == At(IF f = "S" THEN "free" ELSE "reqfree", p, None)
  <2>1. conn[<<f, p>>].peer = a /\ conn[<<f, p>>].half_close /\ t[1] = f
    BY <1>8 DEF Started, Main
  <2>2. end' = [end EXCEPT ![a].fin = TRUE] /\ conn' = [conn EXCEPT ![<<f, p>>] = Reset] /\ Goto(t, r)
    BY <1>4, <2>1 DEF ShutdownFromRemote, HalfClosed
  <2>3. /\ th'[t] = r /\ \A u \in Thread : u # t => th'[u] = th[u]
        /\ th'[Listener] = th[Listener] /\ Active(p, t, r)'
    BY <1>1, <1>2, <2>2, GoesOn
  <2>4. /\ \A e \in End : e # a => end'[e] = end[e]
        /\ end'[a].on = p /\ end'[a].closing
    BY <1>4, <1>5, <2>2 DEF TypeOK, EndState
  <2>5. /\ conn'[<<f, p>>] = Reset /\ conn'[<<g, p>>] = Reset
        /\ \A c \in Conn : c # <<f, p>> => conn'[c] = conn[c]
    BY <1>4, <1>5, <1>8, <2>2 DEF TypeOK, BothClosed
  <2>6. OnlyAt(p)
    <3>1. Uses(p, a)
      BY <1>5 DEF Uses
    <3>2. \A q \in Proxy \ {p}, s \in Side : conn'[<<s, q>>] = conn[<<s, q>>]
      BY <2>5, Threads
    <3> QED BY <1>6, <2>3, <2>4, <3>1, <3>2, Records DEF OnlyAt, Mine
  <2>7. Freeing(p)'
    <3>1. /\ p \in proxy_conn_map'["S"]
          /\ \A s \in Side : conn'[<<s, p>>] = Reset /\ net'[<<s, p>>] = << >>
      BY <1>3, <1>4, <1>6, <2>5 DEF Closing
    <3>2. CASE f = "S"
      BY <1>6, <1>8, <2>3, <3>1, <3>2 DEF Freeing
    <3>3. CASE f = "C"
      BY <1>6, <1>8, <2>3, <3>1, <3>3 DEF Freeing
    <3> QED BY <3>2, <3>3 DEF Side
  <2>8. Polled(p)'
    <3> SUFFICES ASSUME NEW e \in End, end'[e].on = p, ~end'[e].closing PROVE FALSE
      BY DEF Polled
    <3>1. e # a /\ end'[e] = end[e] /\ SideOf(e) \in Side /\ e # None
      BY <2>4, Ends, TunnelAssumption DEF TunnelAssumption, End
    <3>2. conn[<<SideOf(e), p>>].peer = e
      BY <3>1 DEF SessionInv, Session, Polled
    <3>3. conn[<<g, p>>].peer = None
      BY <1>8, Records DEF BothClosed
    <3> QED BY <1>4, <2>1, <3>1, <3>2, <3>3
  <2> QED BY <1>2, <1>6, <2>3, <2>6, <2>7, <2>8, SessionStep DEF Session
<1> HIDE DEF a, b, g
<1>9. Finds(p, t, f, a, b)
  BY <1>3 DEF a, b
<1> QED
  BY <1>1, <1>7, <1>8, <1>9 DEF Finds, g

\* The client asks the server to put p back into the free list.
LEMMA RequestFreeSession ==
  ASSUME TypeOK, BindingInv, SessionInv, NEW t \in Thread, RequestFree(t)
  PROVE  SessionInv'
<1>0. th[t].proxy \in Proxy
  BY Frames DEF RequestFree, TypeOK
<1> SUFFICES ASSUME NEW p \in Proxy, th[t].proxy = p PROVE SessionInv'
  BY <1>0
<1>1. th[t].pc = "reqfree" /\ t # Listener
  BY DEF RequestFree, SessionInv
<1>2. Alone(p, t) /\ ~Blank(p) /\ Freeing(p) /\ Silent(p)
  BY <1>1, AtWork, AtFree
<1>3. /\ th'[t] = Idle /\ \A u \in Thread : u # t => th'[u] = th[u]
      /\ th'[Listener] = th[Listener] /\ Calm(p)'
  BY <1>1, <1>2, GoesOn, IdleProxy DEF RequestFree
<1>4. FreeReq(p) \in CtlMsg /\ FreeReq(p).proxy = p
  BY CtlMsgs DEF FreeReq
<1>5. ctl'["S"] = Append(ctl["S"], FreeReq(p)) /\ ctl'["C"] = ctl["C"]
  BY DEF RequestFree, TypeOK, Side
<1>6. Told(p, "S", FreeReq(p))'
  <2>1. Unnamed(ctl["S"], p) /\ Unnamed(ctl["C"], p) /\ ctl["S"] \in Seq(CtlMsg)
    BY <1>2 DEF Silent, TypeOK, Side
  <2>2. NamedBy(Append(ctl["S"], FreeReq(p)), p, FreeReq(p))
    BY <1>4, <2>1, CtlQueue
  <2> QED BY <1>5, <2>1, <2>2 DEF Told, Other
<1>7. OnlyAt(p)
  BY <1>3, <1>4, <1>5, Records DEF OnlyAt, RequestFree, Side
<1>8. Session(p)'
  <2>1. Freeing(p)'
    BY <1>2, <1>3, <1>6 DEF Freeing, RequestFree
  <2>2. Polled(p)'
    BY PolledStays DEF RequestFree
  <2> QED BY <2>1, <2>2 DEF Session
<1> QED
  BY <1>2, <1>3, <1>7, <1>8, SessionStep DEF RequestFree

\* Both checks of freeProxyConn succeed.
LEMMA FreeProxyConnSession ==
  ASSUME TypeOK, BindingInv, SessionInv, NEW t \in Thread, FreeProxyConn(t)
  PROVE  SessionInv'
<1>0. th[t].proxy \in Proxy
  BY Frames DEF FreeProxyConn, TypeOK
<1> SUFFICES ASSUME NEW p \in Proxy, th[t].proxy = p PROVE SessionInv'
  BY <1>0
<1>1. th[t].pc = "free" /\ t # Listener
  BY DEF FreeProxyConn, SessionInv
<1>2. Alone(p, t) /\ ~Blank(p) /\ Freeing(p) /\ Silent(p) /\ t = Main("S")
  BY <1>1, AtWork, AtFree
<1>3. p \in proxy_conn_map["S"] /\ ~conn[<<"S", p>>].is_start
  BY <1>2, Records DEF Freeing, Side
<1>4. Goto(t, At("push", p, None))
  BY <1>3 DEF FreeProxyConn
<1>5. /\ th'[t] = At("push", p, None) /\ \A u \in Thread : u # t => th'[u] = th[u]
      /\ th'[Listener] = th[Listener] /\ Active(p, t, At("push", p, None))'
  BY <1>1, <1>2, <1>4, GoesOn
<1>6. OnlyAt(p)
  BY <1>5, Records DEF OnlyAt, FreeProxyConn
<1>7. Session(p)'
  <2>1. Silent(p)'
    BY <1>2 DEF Silent, FreeProxyConn
  <2>2. Freeing(p)'
    BY <1>2, <1>5, <2>1 DEF Freeing, FreeProxyConn
  <2>3. Polled(p)'
    BY PolledStays DEF FreeProxyConn
  <2> QED BY <2>2, <2>3 DEF Session
<1> QED
  BY <1>2, <1>5, <1>6, <1>7, SessionStep DEF FreeProxyConn

\* p goes to the free list, quiet.
LEMMA PushFreeSession ==
  ASSUME TypeOK, BindingInv, SessionInv, NEW t \in Thread, PushFree(t)
  PROVE  SessionInv'
<1>0. th[t].proxy \in Proxy
  BY Frames DEF PushFree, TypeOK
<1> SUFFICES ASSUME NEW p \in Proxy, th[t].proxy = p PROVE SessionInv'
  BY <1>0
<1>1. th[t].pc = "push" /\ t # Listener
  BY DEF PushFree, SessionInv
<1>2. Alone(p, t) /\ ~Blank(p) /\ Freeing(p) /\ Silent(p)
  BY <1>1, AtWork, AtFree
<1>3. /\ th'[t] = Idle /\ \A u \in Thread : u # t => th'[u] = th[u]
      /\ th'[Listener] = th[Listener] /\ Calm(p)'
  BY <1>1, <1>2, GoesOn, IdleProxy DEF PushFree
<1>4. proxy_conn_map'["S"] = proxy_conn_map["S"] \ {p} /\ proxy_conn_map'["C"] = proxy_conn_map["C"]
  BY DEF PushFree, TypeOK, Side
<1>5. OnlyAt(p)
  BY <1>3, <1>4, Records DEF OnlyAt, PushFree
<1>6. Blank(p)'
  <2>1. Silent(p)'
    BY <1>2 DEF Silent, PushFree
  <2> QED BY <1>2, <1>3, <1>4, <2>1 DEF Blank, Freeing, PushFree
<1>7. Session(p)'
  BY <1>6, PolledStays DEF Session, PushFree
<1>8. /\ free_proxy_conns' = Append(free_proxy_conns, p) /\ free_proxy_conns \in Seq(Proxy)
      /\ p \notin Range(free_proxy_conns)
  BY <1>2 DEF PushFree, TypeOK, SessionInv
<1>9. Range(free_proxy_conns') = Range(free_proxy_conns) \cup {p}
  BY <1>8, Ranges
<1>10. ASSUME NEW q \in Proxy, q \in Range(free_proxy_conns') \/ q \notin proxy_conn_map'["C"]
       PROVE  \/ Blank(q)'
              \/ q # p /\ (q \in Range(free_proxy_conns) \/ q \notin proxy_conn_map["C"])
  BY <1>4, <1>6, <1>9, <1>10
<1>11. \A i, j \in DOMAIN free_proxy_conns' : free_proxy_conns'[i] = free_proxy_conns'[j] => i = j
  <2>1. \A i \in DOMAIN free_proxy_conns : free_proxy_conns[i] # p
    BY <1>8 DEF Range
  <2> QED BY <1>8, <2>1 DEF SessionInv
<1>12. th'[Listener].pc \in {"idle", "wait"}
  BY <1>3 DEF SessionInv
<1> QED
  BY <1>5, <1>7, <1>10, <1>11, <1>12, SessionStepFree DEF PushFree

----------------------------------------------------------------------------
(***************************************************************************)
(* The main threads                                                        *)
(***************************************************************************)

\* What side s reads about a session that a closed first.
Reads(p, s, f, a, b) ==
  \/ /\ FirstClosed(p, f, a, b) /\ ~end[b].fin
     /\ s = Other(f) /\ Head(ctl[s]) = Shutdown(p, end[a].tran)
     /\ conn[<<Other(f), p>>] = Started(b, FALSE, -1)
  \/ /\ BothClosed(p, f, a, b)
     /\ s = f /\ Head(ctl[s]) = Shutdown(p, end[b].tran)
     /\ conn[<<f, p>>] = Started(a, TRUE, -1)

\* A message about p is the only one, and no thread is at work on p.
LEMMA AtHead ==
  ASSUME TypeOK, SessionInv, NEW s \in Side, ctl[s] # << >>, NEW p \in Proxy, Head(ctl[s]).proxy = p
  PROVE  /\ Calm(p) /\ ~Blank(p) /\ Unnamed(Tail(ctl[s]), p) /\ Unnamed(ctl[Other(s)], p)
         /\ \/ Freeing(p) /\ s = "S" /\ Head(ctl[s]) = FreeReq(p)
            \/ \E f \in Side, x \in Pub, l \in Loc :
                 Closing(p, f, x, l) /\ Reads(p, s, f, EndAt(f, x, l), EndAt(Other(f), x, l))
<1>1. \A r \in Side : ctl[r] \in Seq(CtlMsg) /\ Other(r) \in Side /\ Other(Other(r)) = r
  BY DEF TypeOK, Side, Other
<1>2. ~Silent(p)
  <2>1. ~Unnamed(ctl[s], p)
    BY <1>1, CtlRead
  <2> QED BY <2>1 DEF Silent
<1>3. ASSUME NEW r \in Side, NEW m, Told(p, r, m)
      PROVE  r = s /\ Head(ctl[s]) = m /\ Unnamed(Tail(ctl[s]), p) /\ Unnamed(ctl[Other(s)], p)
  <2>1. ~Unnamed(ctl[s], p)
    BY <1>1, CtlRead
  <2>2. r = s
    BY <1>3, <2>1 DEF Told, Other, Side
  <2>3. NamedBy(ctl[s], p, m)
    BY <1>3, <2>2 DEF Told
  <2>4. m = Head(ctl[s]) /\ Unnamed(Tail(ctl[s]), p)
    BY <1>1, <2>3, CtlRead
  <2> QED BY <1>3, <2>2, <2>4 DEF Told
<1>4. ~Blank(p) /\ (\A x \in Pub : ~Invited(p, x)) /\ (\A l \in Loc : ~Opening(p, l))
      /\ \A x \in Pub, l \in Loc : ~Talking(p, x, l)
  BY <1>2 DEF Blank, Invited, Opening, Talking
<1>5. CASE Freeing(p)
  <2>1. Calm(p) /\ Told(p, "S", FreeReq(p))
    BY <1>2, <1>5 DEF Freeing
  <2> QED BY <1>3, <1>4, <1>5, <2>1 DEF Side
<1>6. CASE \E f \in Side, x \in Pub, l \in Loc : Closing(p, f, x, l)
  <2>1. PICK f \in Side, x \in Pub, l \in Loc : Closing(p, f, x, l)
    BY <1>6
  <2> DEFINE a == EndAt(f, x, l)
             b == EndAt(Other(f), x, l)
  <2>2. ASSUME FirstClosed(p, f, a, b)
        PROVE  /\ Reads(p, s, f, a, b) /\ Calm(p)
               /\ Unnamed(Tail(ctl[s]), p) /\ Unnamed(ctl[Other(s)], p)
    <3>1. Notified(p, f, a) /\ ~end[b].fin /\ conn[<<Other(f), p>>] = Started(b, FALSE, -1)
      BY <1>2, <2>2 DEF FirstClosed, Notifying, Shutting
    <3>2. Calm(p) /\ Told(p, Other(f), Shutdown(p, end[a].tran))
      BY <3>1 DEF Notified
    <3> QED BY <1>1, <1>3, <2>2, <3>1, <3>2 DEF Reads
  <2>3. ASSUME BothClosed(p, f, a, b)
        PROVE  /\ Reads(p, s, f, a, b) /\ Calm(p)
               /\ Unnamed(Tail(ctl[s]), p) /\ Unnamed(ctl[Other(s)], p)
    <3>1. Notified(p, Other(f), b) /\ conn[<<f, p>>] = Started(a, TRUE, -1)
      BY <1>2, <2>3 DEF BothClosed, Notifying, Shutting
    <3>2. Calm(p) /\ Told(p, f, Shutdown(p, end[b].tran))
      BY <1>1, <3>1 DEF Notified
    <3> QED BY <1>1, <1>3, <2>3, <3>1, <3>2 DEF Reads
  <2> HIDE DEF a, b
  <2>4. FirstClosed(p, f, a, b) \/ BothClosed(p, f, a, b)
    BY <2>1 DEF Closing, a, b
  <2> QED BY <1>4, <2>1, <2>2, <2>3, <2>4 DEF a, b
<1> QED
  BY <1>4, <1>5, <1>6 DEF SessionInv, Session

\* A thread that is idle takes up a session nobody is at work on.
LEMMA TakesUp ==
  ASSUME TypeOK, SessionInv, NEW p \in Proxy, Calm(p), NEW t \in Thread, t # Listener, IsIdle(t),
         NEW r, Goto(t, r), r.proxy = p
  PROVE  /\ th'[Listener] = th[Listener] /\ Active(p, t, r)'
         /\ \A u \in Thread \ {Listener} :
              th'[u] = th[u] \/ (th[u].proxy \in {p, None} /\ th'[u].proxy \in {p, None})
<1>1. \A f \in Frame : f.pc = "idle" => f.proxy = None
  BY DEF Frame, Idle, At
<1>2. th[t].proxy = None
  BY <1>1 DEF TypeOK, IsIdle
<1>3. Alone(p, t)
  BY DEF Alone, Calm
<1>4. /\ th'[t] = r /\ \A u \in Thread : u # t => th'[u] = th[u]
      /\ th'[Listener] = th[Listener] /\ Active(p, t, r)'
  BY <1>3, GoesOn
<1> QED
  BY <1>2, <1>4

\* The main threads are not the listener's.
LEMMA MainThreads == \A s \in Side : Main(s) \in Thread /\ Main(s) # Listener
  BY Threads DEF Main, Listener

\* The control connection after the message about p is read.
LEMMA CtlAfter ==
  ASSUME TypeOK, SessionInv, NEW s \in Side, ctl[s] # << >>, NEW p \in Proxy, Head(ctl[s]).proxy = p,
         ctl' = [ctl EXCEPT ![s] = Tail(@)]
  PROVE  /\ Silent(p)'
         /\ \A r \in Side : \/ ctl'[r] = ctl[r]
                            \/ ctl[r] # << >> /\ Head(ctl[r]).proxy \in {p, None} /\ ctl'[r] = Tail(ctl[r])
<1>1. ctl'[s] = Tail(ctl[s]) /\ \A r \in Side : r # s => ctl'[r] = ctl[r] /\ r = Other(s)
  BY DEF TypeOK, Other, Side
<1>2. Unnamed(Tail(ctl[s]), p) /\ Unnamed(ctl[Other(s)], p)
  BY AtHead
<1> QED
  BY <1>1, <1>2 DEF Silent

\* A side learns how much it has to forward: it has forwarded that already.
LEMMA HandleShutdownSession ==
  ASSUME TypeOK, BindingInv, SessionInv, NEW s \in Side, HandleShutdown(s)
  PROVE  SessionInv'
<1>0. Head(ctl[s]) \in CtlMsg /\ ctl[s] # << >> /\ Head(ctl[s]).type = "NotifyProxyShutdownPeerConn"
  BY QueueTypes DEF HandleShutdown, TypeOK
<1> SUFFICES ASSUME NEW p \in Proxy, Head(ctl[s]).proxy = p PROVE SessionInv'
  BY <1>0, CtlMsgs
<1>1. Calm(p) /\ ~Blank(p)
  BY <1>0, AtHead
<1>2. FreeReq(p).type # "NotifyProxyShutdownPeerConn" /\ \A n : Shutdown(p, n).count = n
  BY DEF FreeReq, Shutdown
<1>3. PICK f \in Side, x \in Pub, l \in Loc :
        Closing(p, f, x, l) /\ Reads(p, s, f, EndAt(f, x, l), EndAt(Other(f), x, l))
  BY <1>0, <1>2, AtHead
<1>4. p \in proxy_conn_map[s]
  BY <1>3 DEF Closing, BindingInv, KnownInv, Side
<1> DEFINE n == Head(ctl[s]).count
           r == At("check", p, None)
<1>5. /\ conn' = [conn EXCEPT ![<<s, p>>].theo = IncrTheoretical(@, n)] /\ Goto(Main(s), r)
      /\ ctl' = [ctl EXCEPT ![s] = Tail(@)] /\ IsIdle(Main(s))
      /\ UNCHANGED <<net, proxy_conn_map, free_proxy_conns, undeal_public_fds, end, opened>>
  BY <1>4 DEF HandleShutdown
<1>6. /\ th'[Listener] = th[Listener] /\ Active(p, Main(s), r)'
      /\ \A u \in Thread \ {Listener} :
           th'[u] = th[u] \/ (th[u].proxy \in {p, None} /\ th'[u].proxy \in {p, None})
  BY <1>1, <1>5, MainThreads, TakesUp, Records
<1>7. /\ Silent(p)'
      /\ \A q \in Side : \/ ctl'[q] = ctl[q]
                         \/ ctl[q] # << >> /\ Head(ctl[q]).proxy \in {p, None} /\ ctl'[q] = Tail(ctl[q])
  BY <1>0, <1>5, CtlAfter
<1>8. /\ \A c \in Conn : c # <<s, p>> => conn'[c] = conn[c]
      /\ conn'[<<s, p>>] = [conn[<<s, p>>] EXCEPT !.theo = IncrTheoretical(@, n)]
  BY <1>5, Threads DEF TypeOK
<1>9. OnlyAt(p)
  <2>1. \A q \in Proxy \ {p}, u \in Side : conn'[<<u, q>>] = conn[<<u, q>>]
    BY <1>8, Threads
  <2> QED BY <1>5, <1>6, <1>7, <2>1 DEF OnlyAt
<1>10. Polled(p)'
  <2>1. conn[<<s, p>>] \in ProxyConnState
    BY Threads DEF TypeOK
  <2>2. conn'[<<s, p>>].peer = conn[<<s, p>>].peer
    BY <1>8, <2>1 DEF ProxyConnState
  <2>3. \A u \in Side : conn'[<<u, p>>].peer = conn[<<u, p>>].peer
    BY <1>8, <2>2, Threads
  <2> QED BY <1>5, <2>3, PolledStays
<1> DEFINE a == EndAt(f, x, l)
           b == EndAt(Other(f), x, l)
<1>11. /\ end[a].tran = Heard(b) /\ end[b].tran = Heard(a) /\ Heard(a) \in Nat /\ Heard(b) \in Nat
       /\ Heard(a)' = Heard(a) /\ Heard(b)' = Heard(b)
  <2>1. \A e \in End : Heard(e) \in Nat /\ Heard(e)' = Heard(e)
    BY <1>5 DEF TypeOK, EndState, Heard
  <2>2. (a = x /\ b = l) \/ (a = l /\ b = x)
    BY Roles
  <2> QED BY <1>3, <2>1, <2>2, Ends DEF Closing
<1>12. ASSUME NEW e, NEW h, NEW k \in Nat, conn[<<s, p>>] = Started(e, h, -1), n = k
       PROVE  conn'[<<s, p>>] = Started(e, h, k)
  <2>1. conn[<<s, p>>].theo = -1
    BY <1>12 DEF Started
  <2>2. IncrTheoretical(conn[<<s, p>>].theo, n) = k
    BY <1>12, <2>1 DEF IncrTheoretical
  <2>3. conn'[<<s, p>>] = [Started(e, h, -1) EXCEPT !.theo = k]
    BY <1>8, <1>12, <2>2
  <2> QED BY <2>3 DEF Started
<1>13. CASE /\ FirstClosed(p, f, a, b) /\ ~end[b].fin
            /\ s = Other(f) /\ Head(ctl[s]) = Shutdown(p, end[a].tran)
            /\ conn[<<Other(f), p>>] = Started(b, FALSE, -1)
  <2>1. conn'[<<Other(f), p>>] = Started(b, FALSE, Heard(b)) /\ conn'[<<f, p>>] = conn[<<f, p>>]
    <3>1. n = Heard(b)
      BY <1>2, <1>11, <1>13
    <3>2. conn'[<<Other(f), p>>] = Started(b, FALSE, Heard(b))
      BY <1>11, <1>12, <1>13, <3>1
    <3> QED BY <1>8, <1>13, <3>2, Roles, Threads
  <2>2. FirstClosed(p, f, a, b)'
    BY <1>5, <1>6, <1>7, <1>11, <1>13, <2>1 DEF FirstClosed, Shutting, Started
  <2>3. Closing(p, f, x, l)'
    BY <1>3, <1>5, <2>2, ClosingMoves
  <2> QED BY <1>1, <1>5, <1>6, <1>9, <1>10, <2>3, SessionStep DEF Session
<1>14. CASE /\ BothClosed(p, f, a, b)
            /\ s = f /\ Head(ctl[s]) = Shutdown(p, end[b].tran)
            /\ conn[<<f, p>>] = Started(a, TRUE, -1)
  <2>1. conn'[<<f, p>>] = Started(a, TRUE, Heard(a)) /\ conn'[<<Other(f), p>>] = conn[<<Other(f), p>>]
    <3>1. n = Heard(a)
      BY <1>2, <1>11, <1>14
    <3>2. conn'[<<f, p>>] = Started(a, TRUE, Heard(a))
      BY <1>11, <1>12, <1>14, <3>1
    <3> QED BY <1>8, <1>14, <3>2, Roles, Threads
  <2>2. BothClosed(p, f, a, b)'
    BY <1>5, <1>6, <1>7, <1>11, <1>14, <2>1 DEF BothClosed, Shutting, Started
  <2>3. Closing(p, f, x, l)'
    BY <1>3, <1>5, <2>2, ClosingMoves
  <2> QED BY <1>1, <1>5, <1>6, <1>9, <1>10, <2>3, SessionStep DEF Session
<1> HIDE DEF a, b
<1>15. Reads(p, s, f, a, b)
  BY <1>3 DEF a, b
<1> QED
  BY <1>13, <1>14, <1>15 DEF Reads

\* The server reads the request to free p: its main thread begins to return p.
LEMMA HandleFreeSession ==
  ASSUME TypeOK, BindingInv, SessionInv, HandleFreeProxyConnReq
  PROVE  SessionInv'
<1>0. /\ Head(ctl["S"]) \in CtlMsg /\ ctl["S"] # << >> /\ Head(ctl["S"]).type = "FreeProxyConnReq"
      /\ "S" \in Side
  BY QueueTypes DEF HandleFreeProxyConnReq, TypeOK, Side
<1> SUFFICES ASSUME NEW p \in Proxy, Head(ctl["S"]).proxy = p PROVE SessionInv'
  BY <1>0, CtlMsgs
<1>1. Calm(p) /\ ~Blank(p)
  BY <1>0, AtHead
<1>2. \A n : Shutdown(p, n).type # "FreeProxyConnReq"
  BY DEF Shutdown
<1>3. Freeing(p)
  <2>1. \A f, a, b : ~Reads(p, "S", f, a, b)
    BY <1>0, <1>2 DEF Reads
  <2> QED BY <1>0, <2>1, AtHead
<1> DEFINE r == At("free", p, None)
<1>4. /\ th'[Listener] = th[Listener] /\ Active(p, Main("S"), r)'
      /\ \A u \in Thread \ {Listener} :
           th'[u] = th[u] \/ (th[u].proxy \in {p, None} /\ th'[u].proxy \in {p, None})
  BY <1>0, <1>1, MainThreads, TakesUp, Records DEF HandleFreeProxyConnReq
<1>5. /\ Silent(p)'
      /\ \A q \in Side : \/ ctl'[q] = ctl[q]
                         \/ ctl[q] # << >> /\ Head(ctl[q]).proxy \in {p, None} /\ ctl'[q] = Tail(ctl[q])
  BY <1>0, CtlAfter DEF HandleFreeProxyConnReq
<1>6. OnlyAt(p)
  BY <1>4, <1>5 DEF OnlyAt, HandleFreeProxyConnReq
<1>7. Session(p)'
  <2>1. Freeing(p)'
    BY <1>3, <1>4, <1>5 DEF Freeing, HandleFreeProxyConnReq
  <2> QED BY <2>1, PolledStays DEF Session, HandleFreeProxyConnReq
<1> QED
  BY <1>1, <1>4, <1>6, <1>7, SessionStep DEF HandleFreeProxyConnReq

----------------------------------------------------------------------------
(***************************************************************************)
(* The listening thread, and the start of a session                        *)
(***************************************************************************)

\* A step that is about no session.
LEMMA NoSession ==
  ASSUME TypeOK, BindingInv, SessionInv,
         UNCHANGED <<conn, net, proxy_conn_map, free_proxy_conns, end>>,
         \A u \in Thread \ {Listener} : th'[u] = th[u], th'[Listener].pc \in {"idle", "wait"},
         \A s \in Side : \/ ctl'[s] = ctl[s]
                         \/ \E m \in CtlMsg : m.proxy = None /\ ctl'[s] = Append(ctl[s], m),
         \A e \in End : e \notin opened' \/ e \in Range(undeal_public_fds') =>
           e \notin opened \/ e \in Range(undeal_public_fds)
  PROVE  SessionInv'
<1>1. ASSUME NEW q \in Proxy PROVE Session(q)' /\ (Blank(q) => Blank(q)')
  <2>1. ASSUME NEW s \in Side
        PROVE  /\ Unnamed(ctl[s], q) => Unnamed(ctl'[s], q)
               /\ \A m : m.proxy = q /\ NamedBy(ctl[s], q, m) => NamedBy(ctl'[s], q, m)
    <3>1. ctl[s] \in Seq(CtlMsg)
      BY DEF TypeOK
    <3>2. CASE \E m \in CtlMsg : m.proxy = None /\ ctl'[s] = Append(ctl[s], m)
      <4>1. PICK m \in CtlMsg : m.proxy = None /\ ctl'[s] = Append(ctl[s], m)
        BY <3>2
      <4>2. m.proxy # q
        BY <4>1, TunnelAssumption DEF TunnelAssumption
      <4>3. /\ Unnamed(ctl[s], q) => Unnamed(Append(ctl[s], m), q)
            /\ \A n : NamedBy(ctl[s], q, n) => NamedBy(Append(ctl[s], m), q, n)
        BY <3>1, <4>2, CtlQueue, Zenon
      <4> QED BY <4>1, <4>3, SMT
    <3>3. CASE ctl'[s] = ctl[s]
      BY <3>3
    <3> QED BY <3>2, <3>3
  <2>2. Apart(q)
    BY <2>1 DEF Apart
  <2> QED BY <2>2, ApartSession, ApartStart DEF SessionInv
<1>2. \A e \in End : Fresh(e)' <=> Fresh(e)
  BY DEF Fresh
<1> QED
  BY <1>1, <1>2 DEF SessionInv

\* The listener parks a public connection and asks for a proxy connection: no session is touched.
LEMMA ListenerSession ==
  ASSUME TypeOK, BindingInv, SessionInv, NEW x \in Pub, AddWait \/ AcceptNeedsProxy(x)
  PROVE  SessionInv'
<1>1. CASE AddWait
  <2>1. /\ \A u \in Thread \ {Listener} : th'[u] = th[u]
        /\ th'[Listener].pc \in {"idle", "wait"}
    BY <1>1, Threads, Records DEF AddWait, Goto, TypeOK
  <2> QED BY <1>1, <2>1, NoSession DEF AddWait
<1>2. CASE AcceptNeedsProxy(x)
  <2>1. /\ ctl'["C"] = Append(ctl["C"], NeedProxy) /\ ctl'["S"] = ctl["S"]
        /\ NeedProxy \in CtlMsg /\ NeedProxy.proxy = None
    BY <1>2, CtlMsgs DEF AcceptNeedsProxy, TypeOK, Side, NeedProxy
  <2>2. \A s \in Side : \/ ctl'[s] = ctl[s]
                        \/ \E m \in CtlMsg : m.proxy = None /\ ctl'[s] = Append(ctl[s], m)
    BY <2>1 DEF Side
  <2>3. Range(undeal_public_fds') = Range(undeal_public_fds) \cup {x}
    BY <1>2, Ranges DEF AcceptNeedsProxy, TypeOK
  <2>4. \A e \in End : e \notin opened' \/ e \in Range(undeal_public_fds') =>
          e \notin opened \/ e \in Range(undeal_public_fds)
    BY <1>2, <2>3 DEF AcceptNeedsProxy
  <2>5. UNCHANGED <<conn, net, proxy_conn_map, free_proxy_conns, end, th>>
    BY <1>2 DEF AcceptNeedsProxy
  <2>6. th'[Listener].pc \in {"idle", "wait"}
    BY <2>5 DEF SessionInv
  <2> QED BY <2>2, <2>4, <2>5, <2>6, NoSession
<1> QED
  BY <1>1, <1>2

\* The last proxy connection of the free list is taken for x.
LEMMA AcceptOnFreeSession ==
  ASSUME TypeOK, BindingInv, SessionInv, NEW x \in Pub, AcceptOnFree(x)
  PROVE  SessionInv'
<1>0. /\ free_proxy_conns \in Seq(Proxy) /\ free_proxy_conns # << >>
      /\ Last(free_proxy_conns) \in Proxy /\ Last(free_proxy_conns) \in Range(free_proxy_conns)
  BY FrontLast, Ranges DEF AcceptOnFree, TypeOK
<1> SUFFICES ASSUME NEW p \in Proxy, Last(free_proxy_conns) = p PROVE SessionInv'
  BY <1>0
<1>1. Blank(p) /\ Fresh(x) /\ p \in proxy_conn_map["C"]
  BY <1>0, Ends DEF SessionInv, AcceptOnFree, BindingInv, KnownInv
<1>2. /\ net'[<<"C", p>>] = <<StartReq(x)>>
      /\ \A c \in Conn : c # <<"C", p>> => net'[c] = net[c]
  <2>1. net' = [net EXCEPT ![<<"C", p>>] = Append(@, StartReq(x))] /\ net[<<"C", p>>] = << >>
    BY <1>1 DEF AcceptOnFree, Send, Blank, Side
  <2> QED BY <2>1, Threads DEF TypeOK, Side
<1>3. (\A u \in Thread \ {Listener} : th'[u] = th[u]) /\ th'[Listener].pc = "wait"
  BY Threads, Records DEF AcceptOnFree, Goto, TypeOK
<1>4. OnlyAt(p)
  <2>1. \A q \in Proxy \ {p}, s \in Side : net'[<<s, q>>] = net[<<s, q>>]
    BY <1>2, Threads
  <2> QED BY <1>3, <2>1 DEF OnlyAt, AcceptOnFree
<1>5. Invited(p, x)'
  <2>1. Calm(p)' /\ Silent(p)' /\ Fresh(x)'
    BY <1>1, <1>3 DEF Blank, Calm, Silent, Fresh, AcceptOnFree
  <2>2. net'[<<"S", p>>] = << >>
    BY <1>1, <1>2, Threads DEF Blank, Side
  <2> QED BY <1>1, <1>2, <2>1, <2>2 DEF Invited, Blank, AcceptOnFree
<1>6. Session(p)'
  BY <1>5, PolledStays DEF Session, AcceptOnFree
<1>7. /\ DOMAIN free_proxy_conns' \subseteq DOMAIN free_proxy_conns
      /\ \A i \in DOMAIN free_proxy_conns' : /\ free_proxy_conns'[i] = free_proxy_conns[i]
                                             /\ free_proxy_conns[i] # p
  <2>1. free_proxy_conns' = Front(free_proxy_conns)
    BY DEF AcceptOnFree, PopFree
  <2>2. \A i \in DOMAIN Front(free_proxy_conns) :
          /\ i \in DOMAIN free_proxy_conns /\ i # Len(free_proxy_conns)
          /\ Front(free_proxy_conns)[i] = free_proxy_conns[i]
    BY <1>0 DEF Front
  <2>3. Len(free_proxy_conns) \in DOMAIN free_proxy_conns /\ p = free_proxy_conns[Len(free_proxy_conns)]
    BY <1>0 DEF Last
  <2> QED BY <2>1, <2>2, <2>3 DEF SessionInv
<1>8. ASSUME NEW q \in Proxy, q \in Range(free_proxy_conns') \/ q \notin proxy_conn_map'["C"]
      PROVE  q # p /\ (q \in Range(free_proxy_conns) \/ q \notin proxy_conn_map["C"])
  BY <1>1, <1>7, <1>8 DEF Range, AcceptOnFree
<1>9. \A i, j \in DOMAIN free_proxy_conns' : free_proxy_conns'[i] = free_proxy_conns'[j] => i = j
  BY <1>7 DEF SessionInv
<1> QED
  BY <1>3, <1>4, <1>6, <1>8, <1>9, SessionStepFree DEF AcceptOnFree

\* The client creates p and l and goes into start().
LEMMA HandleProxyNotifySession ==
  ASSUME TypeOK, BindingInv, SessionInv, NEW p \in Proxy, NEW l \in Loc, HandleProxyNotify(p, l)
  PROVE  SessionInv'
<1> DEFINE r == At("start", p, l)
<1>0. p # None /\ l \in End
  BY Ends, TunnelAssumption DEF TunnelAssumption
<1>1. Blank(p) /\ Fresh(l)
  BY <1>0 DEF HandleProxyNotify, CreateProxyConn, CreateLocalConn, SessionInv
<1>2. Calm(p) /\ Silent(p) /\ \A s \in Side : conn[<<s, p>>] = Reset /\ net[<<s, p>>] = << >>
  BY <1>1 DEF Blank
<1>3. /\ th'[Listener] = th[Listener] /\ Active(p, Main("C"), r)'
      /\ \A u \in Thread \ {Listener} :
           th'[u] = th[u] \/ (th[u].proxy \in {p, None} /\ th'[u].proxy \in {p, None})
  BY <1>2, MainThreads, TakesUp, Records DEF HandleProxyNotify, Side
<1>4. /\ ctl["C"] # << >> /\ Head(ctl["C"]).proxy = None /\ ctl["C"] \in Seq(CtlMsg)
      /\ ctl'["C"] = Tail(ctl["C"]) /\ ctl'["S"] = ctl["S"]
  BY DEF HandleProxyNotify, TypeOK, Side, NeedProxy
<1>5. Silent(p)'
  <2>1. Unnamed(ctl["C"], p) /\ Unnamed(ctl["S"], p) /\ Head(ctl["C"]).proxy # p
    BY <1>0, <1>2, <1>4 DEF Silent, Side
  <2>2. Unnamed(Tail(ctl["C"]), p)
    BY <1>4, <2>1, CtlQueue
  <2> QED BY <1>4, <2>1, <2>2 DEF Silent, Side
<1>6. /\ net'[<<"S", p>>] = <<MetaSet>>
      /\ \A c \in Conn : c # <<"S", p>> => net'[c] = net[c]
  <2>1. net' = [net EXCEPT ![<<"S", p>>] = Append(@, MetaSet)] /\ net[<<"S", p>>] = << >>
    BY <1>2 DEF HandleProxyNotify, Send, Side
  <2> QED BY <2>1, Threads DEF TypeOK, Side
<1>7. proxy_conn_map'["S"] = proxy_conn_map["S"] /\ proxy_conn_map'["C"] = proxy_conn_map["C"] \cup {p}
  BY DEF HandleProxyNotify, CreateProxyConn, TypeOK, Side
<1>8. OnlyAt(p)
  <2>1. \A q \in Proxy \ {p}, s \in Side : net'[<<s, q>>] = net[<<s, q>>]
    BY <1>6, Threads
  <2> QED BY <1>3, <1>4, <1>7, <2>1 DEF OnlyAt, HandleProxyNotify, Side
<1>9. Opening(p, l)'
  <2>1. Fresh(l)' /\ end'[l] = end[l] /\ conn'[<<"C", p>>] = Reset /\ conn'[<<"S", p>>] = Reset
    BY <1>1, <1>2 DEF Fresh, HandleProxyNotify, Side
  <2>2. Launch(p, l)'
    BY <1>3, <2>1 DEF Launch
  <2>3. net'[<<"C", p>>] = << >>
    BY <1>2, <1>6, Threads DEF Side
  <2>4. MetaSet \in Item /\ Greeting(MetaSet)'
    BY Items DEF Greeting
  <2>5. /\ ~end'[l].closing /\ ~end'[l].fin /\ end'[l].out = << >> /\ end'[l].tran = 0
    BY <2>1 DEF Fresh
  <2>6. p \notin proxy_conn_map'["S"]
    BY <1>1, <1>7 DEF Blank
  <2> QED BY <1>5, <1>6, <2>1, <2>2, <2>3, <2>4, <2>5, <2>6 DEF Opening
<1>10. Session(p)'
  BY <1>9, PolledStays DEF Session, HandleProxyNotify
<1>11. ASSUME NEW q \in Proxy, q \in Range(free_proxy_conns') \/ q \notin proxy_conn_map'["C"]
       PROVE  q # p /\ (q \in Range(free_proxy_conns) \/ q \notin proxy_conn_map["C"])
  BY <1>7, <1>11 DEF HandleProxyNotify, CreateProxyConn, BindingInv, KnownInv
<1>12. /\ \A i, j \in DOMAIN free_proxy_conns' : free_proxy_conns'[i] = free_proxy_conns'[j] => i = j
       /\ th'[Listener].pc \in {"idle", "wait"}
  BY <1>3 DEF SessionInv, HandleProxyNotify
<1> QED
  BY <1>8, <1>10, <1>11, <1>12, SessionStepFree DEF HandleProxyNotify, CreateLocalConn

\* The client answers a request to start p, and goes into start().
LEMMA HandleStartReqSession ==
  ASSUME TypeOK, BindingInv, SessionInv, NEW p \in Proxy, NEW l \in Loc, HandleStartProxyConnReq(p, l)
  PROVE  SessionInv'
<1> DEFINE r == At("start", p, l)
<1>0. /\ <<"C", p>> \in Conn /\ <<"S", p>> \in Conn /\ <<"C", p>> # <<"S", p>>
      /\ <<"C", p>> \in Thread /\ <<"C", p>> # Listener /\ l \in End
  BY Ends, Threads DEF Side, Listener
<1>1. /\ IsIdle(<<"C", p>>) /\ net[<<"C", p>>] # << >>
      /\ Head(net[<<"C", p>>]).type = "StartProxyConnReq"
  BY DEF HandleStartProxyConnReq, InCtlMode
<1>2. PICK x \in Pub : Invited(p, x)
  <2>1. ~Blank(p) /\ ~Freeing(p) /\ (\A m \in Loc : ~Opening(p, m))
        /\ \A f \in Side, y \in Pub, m \in Loc : ~Closing(p, f, y, m)
    BY <1>1 DEF Blank, Freeing, Opening, Closing, Side
  <2>2. ASSUME NEW y \in Pub, NEW m \in Loc PROVE ~Talking(p, y, m)
    <3>1. Talking(p, y, m) => net[<<"C", p>>] = <<Chunk(y, end[y].tran)>>
      BY <1>1 DEF Talking
    <3> QED BY <1>1, <3>1, Kinds
  <2> QED BY <2>1, <2>2 DEF SessionInv, Session
<1>3. /\ Calm(p) /\ Silent(p) /\ p \notin proxy_conn_map["S"] /\ \A s \in Side : conn[<<s, p>>] = Reset
      /\ net[<<"S", p>>] = << >> /\ net[<<"C", p>>] = <<StartReq(x)>> /\ Fresh(x) /\ ~Blank(p)
  BY <1>1, <1>2 DEF Invited, Blank, Side
<1>4. /\ th'[Listener] = th[Listener] /\ Active(p, <<"C", p>>, r)'
      /\ \A u \in Thread \ {Listener} :
           th'[u] = th[u] \/ (th[u].proxy \in {p, None} /\ th'[u].proxy \in {p, None})
  BY <1>0, <1>1, <1>3, TakesUp, Records DEF HandleStartProxyConnReq
<1>5. /\ net'[<<"C", p>>] = << >> /\ net'[<<"S", p>>] = <<StartRsp(x)>>
      /\ \A c \in Conn : c # <<"C", p>> /\ c # <<"S", p>> => net'[c] = net[c]
  <2>1. Head(net[<<"C", p>>]).end = x
    BY <1>3, Kinds
  <2>2. net' = [net EXCEPT ![<<"C", p>>] = Tail(@), ![<<"S", p>>] = Append(@, StartRsp(x))]
    BY <2>1 DEF HandleStartProxyConnReq
  <2>3. /\ net'[<<"C", p>>] = Tail(net[<<"C", p>>]) /\ net'[<<"S", p>>] = Append(net[<<"S", p>>], StartRsp(x))
        /\ \A c \in Conn : c # <<"C", p>> /\ c # <<"S", p>> => net'[c] = net[c]
    BY <1>0, <2>2 DEF TypeOK
  <2> QED BY <1>3, <2>3
<1>6. OnlyAt(p)
  <2>1. \A q \in Proxy \ {p}, s \in Side : net'[<<s, q>>] = net[<<s, q>>]
    BY <1>5, Threads
  <2> QED BY <1>4, <2>1 DEF OnlyAt, HandleStartProxyConnReq
<1>7. Opening(p, l)'
  <2>1. Fresh(l)
    BY <1>0 DEF HandleStartProxyConnReq, CreateLocalConn, SessionInv
  <2>2. Fresh(l)' /\ Fresh(x)' /\ Silent(p)' /\ conn'[<<"C", p>>] = Reset /\ conn'[<<"S", p>>] = Reset
    BY <1>3, <2>1 DEF Fresh, HandleStartProxyConnReq, Side, Silent
  <2>3. Launch(p, l)'
    BY <1>4, <2>2 DEF Launch
  <2>4. StartRsp(x) \in Item /\ Greeting(StartRsp(x))'
    BY <2>2, Items, Kinds DEF Greeting
  <2>5. ~end'[l].closing /\ ~end'[l].fin /\ end'[l].out = << >> /\ end'[l].tran = 0
    BY <2>2 DEF Fresh
  <2>6. p \notin proxy_conn_map'["S"]
    BY <1>3 DEF HandleStartProxyConnReq
  <2> QED BY <1>5, <2>2, <2>3, <2>4, <2>5, <2>6 DEF Opening
<1>8. Session(p)'
  BY <1>7, PolledStays DEF Session, HandleStartProxyConnReq
<1> QED
  BY <1>3, <1>4, <1>6, <1>8, SessionStep DEF HandleStartProxyConnReq, CreateLocalConn

\* What the applications do in the sessions this module is about.
Dialogue == Env = "dialogue" /\ LocChunks > 0

\* The head of what the server reads of p in control mode, and what follows.
LEMMA OpeningHead ==
  ASSUME TypeOK, SessionInv, NEW p \in Proxy, net[<<"S", p>>] # << >>, ~conn[<<"S", p>>].is_start
  PROVE  \E l \in Loc :
           /\ Opening(p, l)
           /\ \/ /\ Head(net[<<"S", p>>]) = Chunk(l, 1) /\ Tail(net[<<"S", p>>]) = << >>
              \/ /\ Greeting(Head(net[<<"S", p>>])) /\ Head(net[<<"S", p>>]) \in Item
                 /\ \/ Tail(net[<<"S", p>>]) = << >> /\ end[l].tran = 0
                    \/ Tail(net[<<"S", p>>]) = <<Chunk(l, 1)>> /\ end[l].tran = 1
<1>1. PICK l \in Loc : Opening(p, l)
  <2>1. ~Blank(p) /\ ~Freeing(p) /\ (\A x \in Pub : ~Invited(p, x))
        /\ \A f \in Side, y \in Pub, m \in Loc : ~Closing(p, f, y, m)
    BY DEF Blank, Freeing, Invited, Closing, Side
  <2>2. ASSUME NEW y \in Pub, NEW m \in Loc PROVE ~Talking(p, y, m)
    <3>1. Talking(p, y, m) => conn[<<"S", p>>] = Started(y, FALSE, -1)
      BY DEF Talking
    <3> QED BY <3>1 DEF Started
  <2> QED BY <2>1, <2>2 DEF SessionInv, Session
<1>2. \/ net[<<"S", p>>] = <<Chunk(l, 1)>>
      \/ \E m \in Item :
           /\ Greeting(m)
           /\ \/ net[<<"S", p>>] = <<m>> /\ end[l].tran = 0
              \/ net[<<"S", p>>] = <<m, Chunk(l, 1)>> /\ end[l].tran = 1
  BY <1>1 DEF Opening
<1>3. CASE net[<<"S", p>>] = <<Chunk(l, 1)>>
  BY <1>1, <1>3
<1>4. CASE \E m \in Item :
             /\ Greeting(m)
             /\ \/ net[<<"S", p>>] = <<m>> /\ end[l].tran = 0
                \/ net[<<"S", p>>] = <<m, Chunk(l, 1)>> /\ end[l].tran = 1
  <2>1. PICK m \in Item :
          /\ Greeting(m)
          /\ \/ net[<<"S", p>>] = <<m>> /\ end[l].tran = 0
             \/ net[<<"S", p>>] = <<m, Chunk(l, 1)>> /\ end[l].tran = 1
    BY <1>4
  <2>2. CASE net[<<"S", p>>] = <<m>> /\ end[l].tran = 0
    <3>1. Head(net[<<"S", p>>]) = m /\ Tail(net[<<"S", p>>]) = << >>
      BY <2>2
    <3> QED BY <1>1, <2>1, <2>2, <3>1
  <2>3. CASE net[<<"S", p>>] = <<m, Chunk(l, 1)>> /\ end[l].tran = 1
    <3>1. Head(net[<<"S", p>>]) = m /\ Tail(net[<<"S", p>>]) = <<Chunk(l, 1)>>
      BY <2>3
    <3> QED BY <1>1, <2>1, <2>3, <3>1
  <2> QED BY <2>1, <2>2, <2>3
<1> QED
  BY <1>2, <1>3, <1>4

\* The server binds x to p: the two may talk.
LEMMA BoundSession ==
  ASSUME TypeOK, BindingInv, SessionInv, Dialogue, NEW p \in Proxy, NEW x \in Pub, Fresh(x),
         net[<<"S", p>>] # << >>, ~conn[<<"S", p>>].is_start,
         Head(net[<<"S", p>>]).type # "data", BindPublicFdToProxyConn(p, x),
         Uses(p, x) \/ ((\A q \in Proxy : ~Uses(q, x)) /\ x \in opened' /\ x \notin Range(undeal_public_fds')),
         UNCHANGED <<ctl, free_proxy_conns, opened, th>>,
         Range(undeal_public_fds') \subseteq Range(undeal_public_fds)
  PROVE  SessionInv'
<1>0. /\ <<"C", p>> \in Conn /\ <<"S", p>> \in Conn /\ <<"C", p>> # <<"S", p>>
      /\ x \in End /\ SideOf(x) = "S" /\ p # None /\ x # None
  BY Ends, Threads, TunnelAssumption DEF TunnelAssumption, Side, SideOf
<1>1. PICK l \in Loc :
        /\ Opening(p, l)
        /\ \/ Tail(net[<<"S", p>>]) = << >> /\ end[l].tran = 0
           \/ Tail(net[<<"S", p>>]) = <<Chunk(l, 1)>> /\ end[l].tran = 1
  <2>1. PICK l \in Loc :
          /\ Opening(p, l)
          /\ \/ Head(net[<<"S", p>>]) = Chunk(l, 1)
             \/ Tail(net[<<"S", p>>]) = << >> /\ end[l].tran = 0
             \/ Tail(net[<<"S", p>>]) = <<Chunk(l, 1)>> /\ end[l].tran = 1
    BY OpeningHead
  <2>2. Head(net[<<"S", p>>]) # Chunk(l, 1)
    BY Kinds
  <2> QED BY <2>1, <2>2
<1>2. l \in End /\ SideOf(l) = "C" /\ x # l
  BY Ends, TunnelAssumption DEF TunnelAssumption, SideOf
<1>3. /\ conn'[<<"S", p>>] = [Reset EXCEPT !.is_start = TRUE, !.peer = x]
      /\ \A c \in Conn : c # <<"S", p>> => conn'[c] = conn[c]
  <2>1. conn[<<"S", p>>] = Reset
    BY <1>1 DEF Opening
  <2> QED BY <1>0, <2>1 DEF BindPublicFdToProxyConn, TypeOK, Reset
<1>4. /\ net'[<<"S", p>>] = Tail(net[<<"S", p>>])
      /\ \A c \in Conn : c # <<"S", p>> => net'[c] = net[c]
      /\ proxy_conn_map'["S"] = proxy_conn_map["S"] \cup {p} /\ proxy_conn_map'["C"] = proxy_conn_map["C"]
  BY <1>0 DEF BindPublicFdToProxyConn, TypeOK, Side
<1>5. /\ end'[x].on = p
      /\ \A e \in End : e # x =>
           end'[e] = end[e] \/ (end[e].on = p /\ SideOf(e) = "S" /\ end'[e].on = None)
      /\ \A e \in End : /\ end'[e].tran = end[e].tran /\ end'[e].closing = end[e].closing
                        /\ end'[e].out = end[e].out /\ end'[e].fin = end[e].fin
  BY <1>0, MountedEnds DEF BindPublicFdToProxyConn
<1>6. end'[l] = end[l]
  BY <1>2, <1>5
<1>7. OnlyAt(p)
  <2>1. \A e \in End : end'[e] = end[e] \/ (Mine(p, e) /\ end'[e].on \in {p, None})
    BY <1>5 DEF Mine, Uses
  <2>2. \A q \in Proxy \ {p}, s \in Side : conn'[<<s, q>>] = conn[<<s, q>>] /\ net'[<<s, q>>] = net[<<s, q>>]
    BY <1>3, <1>4, Threads
  <2> QED BY <1>4, <2>1, <2>2 DEF OnlyAt
<1>8. Talking(p, x, l)'
  <2>1. Launch(p, l)'
    <3>1. conn'[<<"C", p>>] = conn[<<"C", p>>]
      BY <1>0, <1>3
    <3> QED BY <1>1, <1>6, <3>1 DEF Opening, Launch, Active, Calm, Fresh, Started, Heard
  <2>2. /\ end'[x].out = << >> /\ end'[x].tran = 0 /\ ~end'[x].closing /\ ~end'[x].fin
    BY <1>0, <1>5 DEF Fresh
  <2>3. /\ end'[l].out = << >> /\ end'[l].tran \in {0, 1} /\ ~end'[l].closing /\ ~end'[l].fin
    BY <1>1, <1>6 DEF Opening
  <2>4. Heard(x)' = 0 /\ Heard(l)' = 0
    BY <2>2, <2>3 DEF Heard
  <2>5. Match(x, l)'
    BY <2>2, <2>3 DEF Match
  <2>6. Turn(x, l)'
    BY <2>2, <2>3, <2>4, TunnelAssumption DEF Turn, TunnelAssumption, Dialogue
  <2>7. conn'[<<"S", p>>] = Started(x, FALSE, -1)'
    BY <1>3, <2>4 DEF Started, Reset
  <2>8. /\ net'[<<"S", p>>] = IF Heard(x)' = end'[l].tran THEN << >> ELSE <<Chunk(l, end'[l].tran)>>
        /\ net'[<<"C", p>>] = IF Heard(l)' = end'[x].tran THEN << >> ELSE <<Chunk(x, end'[x].tran)>>
    <3>1. net'[<<"C", p>>] = << >>
      BY <1>0, <1>1, <1>4 DEF Opening
    <3>2. CASE Tail(net[<<"S", p>>]) = << >> /\ end[l].tran = 0
      BY <1>4, <1>6, <2>2, <2>4, <3>1, <3>2
    <3>3. CASE Tail(net[<<"S", p>>]) = <<Chunk(l, 1)>> /\ end[l].tran = 1
      BY <1>4, <1>6, <2>2, <2>4, <3>1, <3>3
    <3> QED BY <1>1, <3>2, <3>3
  <2>9. Silent(p)' /\ p \in proxy_conn_map'["S"]
    BY <1>1, <1>4 DEF Opening, Silent
  <2> QED BY <1>5, <2>1, <2>2, <2>3, <2>5, <2>6, <2>7, <2>8, <2>9 DEF Talking
<1>9. Polled(p)'
  <2> SUFFICES ASSUME NEW e \in End, end'[e].on = p, ~end'[e].closing
               PROVE  conn'[<<SideOf(e), p>>].peer = e
    BY DEF Polled
  <2>1. CASE e = x
    BY <1>0, <1>3, <2>1 DEF Reset
  <2>2. CASE e # x
    <3>1. end'[e] = end[e] /\ SideOf(e) \in Side
      BY <1>0, <1>5, <2>2, Ends
    <3>2. conn[<<SideOf(e), p>>].peer = e
      BY <3>1 DEF SessionInv, Session, Polled
    <3>3. conn[<<"S", p>>].peer = None /\ e # None
      BY <1>1, Records, TunnelAssumption DEF Opening, TunnelAssumption, End
    <3>4. SideOf(e) = "C"
      BY <3>1, <3>2, <3>3 DEF Side
    <3> QED BY <1>0, <1>3, <3>2, <3>4
  <2> QED BY <2>1, <2>2
<1>10. ~Blank(p)
  BY DEF Blank, Side
<1> QED
  BY <1>4, <1>7, <1>8, <1>9, <1>10, SessionStep DEF Session

\* The server takes the last public connection it has parked.
LEMMA ClaimSession ==
  ASSUME TypeOK, BindingInv, SessionInv, Dialogue, NEW p \in Proxy, ClaimProxyConn(p)
  PROVE  SessionInv'
<1>0. /\ undeal_public_fds \in Seq(Pub) /\ undeal_public_fds # << >>
      /\ Last(undeal_public_fds) \in Pub /\ Last(undeal_public_fds) \in Range(undeal_public_fds)
      /\ Range(Front(undeal_public_fds)) \subseteq Range(undeal_public_fds)
  BY FrontLast, Ranges DEF ClaimProxyConn, TypeOK
<1> SUFFICES ASSUME NEW x \in Pub, Last(undeal_public_fds) = x PROVE SessionInv'
  BY <1>0
<1>1. Fresh(x) /\ x \in opened /\ \A q \in Proxy : ~Uses(q, x)
  <2>1. x \in End /\ x \in Range(undeal_public_fds)
    BY <1>0, Ends
  <2> QED BY <2>1, OneUser DEF SessionInv, BindingInv, PubInv
<1>2. undeal_public_fds' = Front(undeal_public_fds)
  BY DEF ClaimProxyConn, PopUndeal
<1>3. x \notin Range(undeal_public_fds')
  <2>1. \A i \in DOMAIN Front(undeal_public_fds) :
          /\ i \in DOMAIN undeal_public_fds /\ i # Len(undeal_public_fds)
          /\ Front(undeal_public_fds)[i] = undeal_public_fds[i]
    BY <1>0 DEF Front
  <2>2. Len(undeal_public_fds) \in DOMAIN undeal_public_fds
        /\ x = undeal_public_fds[Len(undeal_public_fds)]
    BY <1>0 DEF Last
  <2> QED BY <1>2, <2>1, <2>2 DEF BindingInv, PubInv, Range
<1>4. /\ net[<<"S", p>>] # << >> /\ ~conn[<<"S", p>>].is_start /\ Head(net[<<"S", p>>]).type # "data"
      /\ BindPublicFdToProxyConn(p, x)
      /\ UNCHANGED <<ctl, free_proxy_conns, opened, th>>
  BY DEF ClaimProxyConn, InCtlMode
<1> QED
  BY <1>0, <1>1, <1>2, <1>3, <1>4, BoundSession

\* The answer to start a proxy connection is for a public connection that waits.
LEMMA StartRspSession ==
  ASSUME TypeOK, BindingInv, SessionInv, Dialogue, NEW p \in Proxy, HandleStartProxyConnRsp(p)
  PROVE  SessionInv'
<1> DEFINE m == Head(net[<<"S", p>>])
<1>0. net[<<"S", p>>] \in Seq(Item) /\ net[<<"S", p>>] # << >> /\ m.type = "StartProxyConnRsp"
  BY Threads DEF HandleStartProxyConnRsp, InCtlMode, TypeOK, Side
<1>1. m \in Item /\ m \in Range(net[<<"S", p>>]) /\ m.end \in Pub /\ m = StartRsp(m.end)
  BY <1>0, Ranges, Items, Kinds
<1>2. Uses(p, m.end)
  BY <1>1 DEF Uses, PubOn
<1>3. Fresh(m.end)
  <2>1. ~conn[<<"S", p>>].is_start
    BY DEF HandleStartProxyConnRsp, InCtlMode
  <2>2. Greeting(m) \/ \E l \in Loc : m = Chunk(l, 1)
    BY <1>0, <2>1, OpeningHead
  <2> QED BY <1>0, <2>2, Kinds DEF Greeting
<1>4. /\ ~conn[<<"S", p>>].is_start /\ BindPublicFdToProxyConn(p, m.end)
      /\ UNCHANGED <<ctl, free_proxy_conns, undeal_public_fds, opened, th>>
  BY DEF HandleStartProxyConnRsp, InCtlMode
<1> QED
  BY <1>0, <1>1, <1>2, <1>3, <1>4, BoundSession

\* What control mode drops is a greeting, or the first chunk behind one: the
\* session stays open and is never started.
LEMMA DropSession ==
  ASSUME TypeOK, BindingInv, SessionInv, NEW c \in Conn, DropInCtlMode(c)
  PROVE  SessionInv'
<1>0. c \in Side \X Proxy /\ net[c] # << >> /\ ~conn[c].is_start
      /\ Head(net[c]).type \in {"data", "StartProxyConnRsp"} /\ IsIdle(c)
  BY DEF Conn, DropInCtlMode, InCtlMode
<1> SUFFICES ASSUME NEW p \in Proxy, c = <<"S", p>> \/ c = <<"C", p>> PROVE SessionInv'
  BY <1>0 DEF Side
<1>1. c = <<"S", p>>
  <2> SUFFICES ASSUME c = <<"C", p>> PROVE FALSE
    OBVIOUS
  <2>1. ~Blank(p) /\ ~Freeing(p) /\ (\A m \in Loc : ~Opening(p, m))
        /\ \A f \in Side, y \in Pub, m \in Loc : ~Closing(p, f, y, m)
    BY <1>0 DEF Blank, Freeing, Opening, Closing, Side
  <2>2. ASSUME NEW x \in Pub, Invited(p, x) PROVE FALSE
    <3>1. Head(net[c]) = StartReq(x)
      BY <2>2 DEF Invited
    <3> QED BY <1>0, <3>1, Kinds
  <2>3. ASSUME NEW x \in Pub, NEW l \in Loc, Talking(p, x, l) PROVE FALSE
    <3>0. conn[c] # Started(l, FALSE, -1)
      BY <1>0 DEF Started
    <3>1. Fresh(l)
      BY <2>3, <3>0 DEF Talking, Launch
    <3>2. end[l].tran = 0 /\ Heard(l) = 0
      BY <3>1 DEF Fresh, Heard
    <3>3. Heard(x) \in Nat /\ end[x].tran \in Nat
      BY Ends DEF TypeOK, EndState, Heard
    <3>4. end[x].tran = 0
      BY <2>3, <3>2, <3>3 DEF Talking, Turn
    <3> QED BY <1>0, <2>3, <3>2, <3>4 DEF Talking
  <2> QED BY <2>1, <2>2, <2>3 DEF SessionInv, Session
<1>2. PICK l \in Loc :
        /\ Opening(p, l)
        /\ \/ Tail(net[c]) = << >>
           \/ Tail(net[c]) = <<Chunk(l, 1)>> /\ end[l].tran = 1
  BY <1>0, <1>1, OpeningHead
<1>3. /\ net'[c] = Tail(net[c]) /\ \A d \in Conn : d # c => net'[d] = net[d]
      /\ UNCHANGED <<conn, ctl, proxy_conn_map, free_proxy_conns, undeal_public_fds, end, opened, th>>
  BY DEF DropInCtlMode, TypeOK
<1>4. OnlyAt(p)
  <2>1. \A q \in Proxy \ {p}, s \in Side : net'[<<s, q>>] = net[<<s, q>>]
    BY <1>1, <1>3, Threads
  <2> QED BY <1>3, <2>1 DEF OnlyAt
<1>5. Opening(p, l)'
  <2>1. Launch(p, l)'
    BY <1>2, <1>3 DEF Opening, Launch, Active, Calm, Fresh, Started, Heard
  <2>2. net'[<<"C", p>>] = << >> /\ Silent(p)'
    BY <1>1, <1>2, <1>3, Threads DEF Opening, Side, Silent
  <2>3. CASE Tail(net[c]) = << >>
    BY <1>1, <1>2, <1>3, <2>1, <2>2, <2>3 DEF Opening
  <2>4. CASE Tail(net[c]) = <<Chunk(l, 1)>> /\ end[l].tran = 1
    BY <1>1, <1>2, <1>3, <2>1, <2>2, <2>4 DEF Opening
  <2> QED BY <1>2, <2>3, <2>4
<1>6. Session(p)'
  BY <1>3, <1>5, PolledStays DEF Session
<1>7. ~Blank(p)
  BY <1>0, <1>1 DEF Blank, Side
<1> QED
  BY <1>3, <1>4, <1>6, <1>7, SessionStep

----------------------------------------------------------------------------
(***************************************************************************)
(* Forwarding                                                              *)
(***************************************************************************)

\* When an end sends and when it closes.
LEMMA Rules ==
  ASSUME Dialogue, NEW e \in End
  PROVE  /\ MayClose(e) <=> end[e].fin \/ (ClosesFirst(e) /\ Heard(e) = PartnerQuota(e))
         /\ MaySend(e) <=> /\ end[e].tran < Quota(e)
                           /\ Heard(e) >= end[e].tran + IF e \in Pub THEN 1 ELSE 0
                           /\ ~MayClose(e)
<1>1. MayClose(e) <=> end[e].fin \/ (ClosesFirst(e) /\ Heard(e) = PartnerQuota(e))
  BY DEF Dialogue, MayClose
<1>2. MaySend(e) <=> /\ end[e].tran < Quota(e)
                     /\ Heard(e) >= end[e].tran + IF e \in Pub THEN 1 ELSE 0
                     /\ ~MayClose(e)
  BY DEF Dialogue, MaySend
<1> QED
  BY <1>1, <1>2

\* Which of two ends in a dialogue closes first.
LEMMA FirstToClose ==
  ASSUME TypeOK, NEW x \in Pub, NEW l \in Loc, Match(x, l)
  PROVE  /\ ClosesFirst(x) <=> x \in Closers
         /\ ClosesFirst(l) <=> Heard(l) > 0 /\ x \notin Closers
         /\ Quota(x) = PubChunks /\ PartnerQuota(x) = LocChunks
         /\ Quota(l) = LocChunks /\ PartnerQuota(l) = PubChunks
         /\ l \notin Pub
<1>1. l \notin Pub
  BY TunnelAssumption DEF TunnelAssumption
<1>2. ASSUME Heard(l) > 0 PROVE end[l].out[1][1] = x
  <2>1. end[l].out \in Seq((End \cup {None}) \X Nat)
    BY Ends DEF TypeOK, EndState
  <2>2. 1 \in DOMAIN end[l].out
    BY <1>2, <2>1 DEF Heard
  <2> QED BY <2>2 DEF Match
<1> QED
  BY <1>1, <1>2 DEF ClosesFirst, Quota, PartnerQuota

\* The session of an end that is polled.
LEMMA PolledEnd ==
  ASSUME TypeOK, SessionInv, NEW e \in End, NEW p \in Proxy, end[e].on = p, ~end[e].closing
  PROVE  /\ ~Blank(p)
         /\ \/ e \in Loc /\ Opening(p, e)
            \/ \E x \in Pub, l \in Loc : Talking(p, x, l) /\ e \in {x, l}
            \/ \E f \in Side, x \in Pub, l \in Loc :
                 /\ Closing(p, f, x, l) /\ e = EndAt(Other(f), x, l)
                 /\ FirstClosed(p, f, EndAt(f, x, l), EndAt(Other(f), x, l))
<1>1. conn[<<SideOf(e), p>>].peer = e /\ SideOf(e) \in Side /\ e # None
  BY Ends, TunnelAssumption DEF SessionInv, Session, Polled, TunnelAssumption, End
<1>2. ~Blank(p) /\ ~Freeing(p) /\ \A x \in Pub : ~Invited(p, x)
  BY <1>1, Records DEF Blank, Freeing, Invited
<1>3. ASSUME NEW l \in Loc, Launch(p, l) PROVE conn[<<"C", p>>].peer \in {l, None}
  <2>1. conn[<<"C", p>>] \in {Reset, [Reset EXCEPT !.is_start = TRUE], Started(l, FALSE, -1)}
    BY <1>3 DEF Launch
  <2> QED BY <2>1 DEF Reset, Started
<1>4. ASSUME NEW l \in Loc, Opening(p, l) PROVE e = l
  <2>1. conn[<<"S", p>>].peer = None
    BY <1>4, Records DEF Opening
  <2>2. conn[<<"C", p>>].peer \in {l, None}
    BY <1>3, <1>4 DEF Opening
  <2> QED BY <1>1, <2>1, <2>2 DEF Side
<1>5. ASSUME NEW x \in Pub, NEW l \in Loc, Talking(p, x, l) PROVE e \in {x, l}
  <2>0. conn[<<"S", p>>] = Started(x, FALSE, -1)
    BY <1>5 DEF Talking
  <2>1. conn[<<"S", p>>].peer = x
    BY <2>0 DEF Started
  <2>2. conn[<<"C", p>>].peer \in {l, None}
    BY <1>3, <1>5 DEF Talking
  <2> QED BY <1>1, <2>1, <2>2 DEF Side
<1>6. ASSUME NEW f \in Side, NEW x \in Pub, NEW l \in Loc, Closing(p, f, x, l)
      PROVE  /\ e = EndAt(Other(f), x, l)
             /\ FirstClosed(p, f, EndAt(f, x, l), EndAt(Other(f), x, l))
  <2> DEFINE a == EndAt(f, x, l)
             b == EndAt(Other(f), x, l)
  <2>0. conn[<<"S", p>>].peer \in {x, None} /\ conn[<<"C", p>>].peer \in {l, None}
    BY <1>6, ClosingPeers
  <2>1. e \in {x, l}
    BY <1>1, <2>0 DEF Side
  <2>2. e \in {a, b}
    BY <2>1, Roles
  <2>3. end[a].closing /\ (FirstClosed(p, f, a, b) \/ BothClosed(p, f, a, b))
    BY <1>6 DEF Closing
  <2> HIDE DEF a, b
  <2>4. e = b
    BY <2>2, <2>3
  <2>5. ~BothClosed(p, f, a, b)
    BY <2>4 DEF BothClosed
  <2> QED BY <2>3, <2>4, <2>5 DEF a, b
<1> QED
  BY <1>2, <1>4, <1>5, <1>6 DEF SessionInv, Session

\* What a chunk that an end sends changes.
LEMMA Sent ==
  ASSUME TypeOK, NEW e \in End, NEW p \in Proxy, end[e].on = p, ReadEnd(e)
  PROVE  /\ end'[e].tran = end[e].tran + 1 /\ end'[e].on = p /\ end'[e].closing = end[e].closing
         /\ end'[e].out = end[e].out /\ end'[e].fin = end[e].fin
         /\ \A f \in End : f # e => end'[f] = end[f]
         /\ net'[<<Other(SideOf(e)), p>>] =
              Append(net[<<Other(SideOf(e)), p>>], Chunk(e, end[e].tran + 1))
         /\ \A c \in Conn : c # <<Other(SideOf(e)), p>> => net'[c] = net[c]
<1>1. <<Other(SideOf(e)), p>> \in Conn
  BY Ends, Threads
<1>2. end[e] \in EndState
  BY DEF TypeOK
<1>3. end' = [end EXCEPT ![e].tran = @ + 1]
  BY DEF ReadEnd
<1>4. end'[e] = [end[e] EXCEPT !.tran = @ + 1] /\ \A f \in End : f # e => end'[f] = end[f]
  BY <1>3 DEF TypeOK
<1>5. /\ end'[e].tran = end[e].tran + 1 /\ end'[e].on = p /\ end'[e].closing = end[e].closing
      /\ end'[e].out = end[e].out /\ end'[e].fin = end[e].fin
  BY <1>2, <1>4 DEF EndState
<1> QED
  BY <1>1, <1>4, <1>5 DEF ReadEnd, Send, TypeOK

\* start() stays where it is, or is over, while the streams move.
LEMMA LaunchStays ==
  ASSUME NEW p \in Proxy, NEW l \in Loc, Launch(p, l), UNCHANGED th,
         conn'[<<"C", p>>] = conn[<<"C", p>>], end'[l].on = end[l].on, end'[l].out = end[l].out,
         end'[l] = end[l] \/ end[l].on = p
  PROVE  Launch(p, l)'
<1>1. p # None
  BY TunnelAssumption DEF TunnelAssumption
<1>2. CASE end'[l] = end[l]
  BY <1>2 DEF Launch, Active, Calm, Fresh, Started, Heard
<1>3. CASE end[l].on = p
  <2>1. ~Fresh(l)
    BY <1>1, <1>3 DEF Fresh
  <2>2. Calm(p) /\ conn[<<"C", p>>] = Started(l, FALSE, -1)
    BY <2>1 DEF Launch
  <2> QED BY <1>3, <2>2 DEF Launch, Calm, Started, Heard
<1> QED
  BY <1>2, <1>3

\* A sequence of two, as Append makes it.
LEMMA Pair ==
  ASSUME NEW S, NEW m \in S, NEW k \in S
  PROVE  Append(<<m>>, k) = <<m, k>>
<1>1. <<m>> \in Seq(S) /\ Len(<<m>>) = 1 /\ <<m, k>> \in Seq(S) /\ Len(<<m, k>>) = 2
  OBVIOUS
<1>2. Append(<<m>>, k) \in Seq(S) /\ Len(Append(<<m>>, k)) = 2
  BY <1>1
<1>3. Append(<<m>>, k)[1] = m /\ Append(<<m>>, k)[2] = k
  BY <1>1
<1>4. \A i \in 1..2 : Append(<<m>>, k)[i] = <<m, k>>[i]
  BY <1>3
<1> QED
  BY <1>1, <1>2, <1>4, SeqEqual

\* The local server's first chunk, before the server has started p.
LEMMA ReadOpening ==
  ASSUME TypeOK, Dialogue, NEW p \in Proxy, NEW l \in Loc, Opening(p, l), end[l].on = p, ReadEnd(l)
  PROVE  Opening(p, l)'
<1>0. /\ l \in End /\ SideOf(l) = "C" /\ Other("C") = "S" /\ l \notin Pub
      /\ <<"S", p>> \in Conn /\ <<"C", p>> \in Conn /\ <<"S", p>> # <<"C", p>>
  BY Ends, Threads, TunnelAssumption DEF TunnelAssumption, SideOf, Other, Side
<1>1. end[l].tran = 0 /\ end[l].out = << >>
  <2>1. MaySend(l) /\ end[l].out = << >> /\ end[l].tran \in {0, 1}
    BY DEF ReadEnd, Opening
  <2>2. Heard(l) = 0
    BY <2>1 DEF Heard
  <2>3. Heard(l) >= end[l].tran
    BY <1>0, <2>1, Rules
  <2> QED BY <2>1, <2>2, <2>3
<1>2. /\ end'[l].tran = 1 /\ end'[l].on = p /\ ~end'[l].closing /\ ~end'[l].fin /\ end'[l].out = << >>
      /\ \A f \in End : f # l => end'[f] = end[f]
      /\ net'[<<"S", p>>] = Append(net[<<"S", p>>], Chunk(l, 1)) /\ net'[<<"C", p>>] = << >>
  <2>1. ~end[l].closing /\ ~end[l].fin /\ net[<<"C", p>>] = << >>
    BY DEF Opening
  <2> QED BY <1>0, <1>1, <2>1, Sent, SMTT(30)
<1>3. Launch(p, l)'
  BY <1>1, <1>2, LaunchStays DEF Opening, ReadEnd
<1>4. /\ Silent(p)' /\ p \notin proxy_conn_map'["S"] /\ conn'[<<"S", p>>] = Reset
  BY DEF Opening, ReadEnd, Silent
<1>5. CASE net[<<"S", p>>] = << >>
  BY <1>2, <1>3, <1>4, <1>5 DEF Opening
<1>6. CASE \E m \in Item : Greeting(m) /\ net[<<"S", p>>] = <<m>>
  <2>1. PICK m \in Item : Greeting(m) /\ net[<<"S", p>>] = <<m>>
    BY <1>6
  <2>2. net'[<<"S", p>>] = <<m, Chunk(l, 1)>>
    <3>1. Chunk(l, 1) \in Item
      <4>1. 1 \in 1..MaxChunks
        BY TunnelAssumption DEF TunnelAssumption, Dialogue, MaxChunks
      <4> QED BY <1>0, <4>1, Items
    <3> QED BY <1>2, <2>1, <3>1, Pair
  <2>3. Greeting(m)'
    <3>1. CASE m = MetaSet
      BY <3>1 DEF Greeting
    <3>2. CASE m.type = "StartProxyConnRsp" /\ Fresh(m.end)
      <4>1. m.end \in End /\ m.end # l
        BY <1>0, <3>2, Items, Ends
      <4> QED BY <1>2, <3>2, <4>1 DEF Greeting, Fresh
    <3> QED BY <2>1, <3>1, <3>2 DEF Greeting
  <2> QED BY <1>2, <1>3, <1>4, <2>2, <2>3 DEF Opening
<1> QED
  BY <1>1, <1>5, <1>6 DEF Opening

\* The numbers of a dialogue.
LEMMA Numbers ==
  ASSUME TypeOK, NEW x \in Pub, NEW l \in Loc
  PROVE  /\ end[x].tran \in Nat /\ end[l].tran \in Nat /\ Heard(x) \in Nat /\ Heard(l) \in Nat
         /\ PubChunks \in Nat /\ LocChunks \in Nat
<1>1. \A e \in End : end[e].tran \in Nat /\ Heard(e) \in Nat
  BY Chunks DEF TypeOK, EndState, Heard
<1> QED
  BY <1>1, Ends, TunnelAssumption DEF TunnelAssumption

\* The public client answers.
LEMMA ReadPublic ==
  ASSUME TypeOK, Dialogue, NEW p \in Proxy, NEW x \in Pub, NEW l \in Loc, Talking(p, x, l), ReadEnd(x)
  PROVE  Talking(p, x, l)'
<1>0. /\ x \in End /\ l \in End /\ x # l /\ SideOf(x) = "S" /\ Other("S") = "C"
      /\ <<"S", p>> \in Conn /\ <<"C", p>> \in Conn /\ <<"S", p>> # <<"C", p>>
  BY Ends, Threads, TunnelAssumption DEF TunnelAssumption, SideOf, Other, Side
<1>1. Match(x, l) /\ Turn(x, l) /\ end[x].on = p /\ ~end[x].closing /\ ~end[x].fin
  BY DEF Talking
<1>2. /\ end[x].tran < PubChunks /\ Heard(x) >= end[x].tran + 1
      /\ ~(x \in Closers /\ Heard(x) = LocChunks)
  <2>1. MaySend(x)
    BY DEF ReadEnd
  <2> QED BY <1>0, <1>1, <2>1, Rules, FirstToClose
<1>3. Heard(x) = end[x].tran + 1 /\ end[l].tran = Heard(x) /\ Heard(l) = end[x].tran
  BY <1>1, <1>2, Numbers DEF Turn
<1>4. /\ end'[x].tran = end[x].tran + 1 /\ end'[x].on = p /\ ~end'[x].closing
      /\ end'[x].out = end[x].out /\ ~end'[x].fin /\ end'[l] = end[l]
      /\ net'[<<"C", p>>] = Append(net[<<"C", p>>], Chunk(x, end[x].tran + 1))
      /\ net'[<<"S", p>>] = net[<<"S", p>>]
  BY <1>0, <1>1, Sent
<1>5. Heard(x)' = Heard(x) /\ Heard(l)' = Heard(l)
  BY <1>4 DEF Heard
<1>6. Match(x, l)'
  BY <1>1, <1>4 DEF Match
<1>7. Turn(x, l)'
  BY <1>1, <1>2, <1>3, <1>4, <1>5, Numbers DEF Turn
<1>8. net[<<"C", p>>] = << >> /\ net[<<"S", p>>] = << >>
  BY <1>3 DEF Talking
<1>9. net'[<<"C", p>>] = <<Chunk(x, end'[x].tran)>>
  BY <1>4, <1>8
<1>10. Launch(p, l)'
  BY <1>4, LaunchStays DEF Talking, ReadEnd
<1>11. /\ Silent(p)' /\ p \in proxy_conn_map'["S"] /\ conn'[<<"S", p>>] = Started(x, FALSE, -1)'
  BY <1>5 DEF Talking, ReadEnd, Silent, Started
<1>12. Heard(x)' = end'[l].tran /\ Heard(l)' # end'[x].tran
  BY <1>3, <1>4, <1>5, Numbers
<1>13. ~end'[l].closing /\ ~end'[l].fin
  BY <1>4 DEF Talking
<1> QED
  BY <1>4, <1>6, <1>7, <1>8, <1>9, <1>10, <1>11, <1>12, <1>13 DEF Talking

\* The local server speaks.
LEMMA ReadLocal ==
  ASSUME TypeOK, Dialogue, NEW p \in Proxy, NEW x \in Pub, NEW l \in Loc, Talking(p, x, l),
         end[l].on = p, ReadEnd(l)
  PROVE  Talking(p, x, l)'
<1>0. /\ x \in End /\ l \in End /\ x # l /\ SideOf(l) = "C" /\ Other("C") = "S"
      /\ <<"S", p>> \in Conn /\ <<"C", p>> \in Conn /\ <<"S", p>> # <<"C", p>>
  BY Ends, Threads, TunnelAssumption DEF TunnelAssumption, SideOf, Other, Side
<1>1. Match(x, l) /\ Turn(x, l) /\ ~end[l].closing /\ ~end[l].fin
  BY DEF Talking
<1>2. /\ end[l].tran < LocChunks /\ Heard(l) >= end[l].tran
      /\ ~(Heard(l) > 0 /\ x \notin Closers /\ Heard(l) = PubChunks)
  <2>1. MaySend(l)
    BY DEF ReadEnd
  <2>2. Heard(l) >= end[l].tran + 0
    BY <1>0, <1>1, <2>1, Rules, FirstToClose
  <2> QED BY <1>0, <1>1, <2>1, <2>2, Rules, FirstToClose, Numbers
<1>3. Heard(l) = end[l].tran /\ Heard(x) = end[l].tran /\ end[x].tran = end[l].tran
  BY <1>1, <1>2, Numbers DEF Turn
<1>4. /\ end'[l].tran = end[l].tran + 1 /\ end'[l].on = p /\ ~end'[l].closing
      /\ end'[l].out = end[l].out /\ ~end'[l].fin /\ end'[x] = end[x]
      /\ net'[<<"S", p>>] = Append(net[<<"S", p>>], Chunk(l, end[l].tran + 1))
      /\ net'[<<"C", p>>] = net[<<"C", p>>]
  BY <1>0, <1>1, Sent
<1>5. Heard(x)' = Heard(x) /\ Heard(l)' = Heard(l)
  BY <1>4 DEF Heard
<1>6. Match(x, l)'
  BY <1>1, <1>4 DEF Match
<1>7. Turn(x, l)'
  BY <1>1, <1>2, <1>3, <1>4, <1>5, Numbers DEF Turn
<1>8. net[<<"C", p>>] = << >> /\ net[<<"S", p>>] = << >>
  BY <1>3 DEF Talking
<1>9. net'[<<"S", p>>] = <<Chunk(l, end'[l].tran)>>
  BY <1>4, <1>8
<1>10. Launch(p, l)'
  BY <1>4, LaunchStays DEF Talking, ReadEnd
<1>11. /\ Silent(p)' /\ p \in proxy_conn_map'["S"] /\ conn'[<<"S", p>>] = Started(x, FALSE, -1)'
  BY <1>5 DEF Talking, ReadEnd, Silent, Started
<1>12. Heard(x)' # end'[l].tran /\ Heard(l)' = end'[x].tran
  BY <1>3, <1>4, <1>5, Numbers
<1>13. ~end'[x].closing /\ ~end'[x].fin /\ end'[x].on = p
  BY <1>4 DEF Talking
<1> QED
  BY <1>4, <1>6, <1>7, <1>8, <1>9, <1>10, <1>11, <1>12, <1>13 DEF Talking

\* Who sends while a session closes?  Nobody: both have sent all they have.
LEMMA ReadEndSession ==
  ASSUME TypeOK, BindingInv, SessionInv, Dialogue, NEW e \in End, ReadEnd(e)
  PROVE  SessionInv'
<1>0. end[e].on \in Proxy /\ ~end[e].closing /\ MaySend(e)
  BY DEF ReadEnd, Readable, TypeOK, EndState
<1> SUFFICES ASSUME NEW p \in Proxy, end[e].on = p PROVE SessionInv'
  BY <1>0
<1>1. ~Blank(p)
  BY <1>0, PolledEnd
<1>2. /\ end'[e].tran = end[e].tran + 1 /\ end'[e].on = p /\ end'[e].closing = end[e].closing
      /\ \A f \in End : f # e => end'[f] = end[f]
      /\ \A c \in Conn : c # <<Other(SideOf(e)), p>> => net'[c] = net[c]
  BY Sent
<1>3. OnlyAt(p)
  <2>1. \A q \in Proxy \ {p}, s \in Side : net'[<<s, q>>] = net[<<s, q>>]
    BY <1>2, Threads
  <2> QED BY <1>2, <2>1 DEF OnlyAt, ReadEnd, Mine, Uses
<1>4. Polled(p)'
  <2>1. \A f \in End : end'[f].on = end[f].on /\ end'[f].closing = end[f].closing
    BY <1>2
  <2> QED BY <2>1 DEF SessionInv, Session, Polled, ReadEnd
<1>5. CASE e \in Loc /\ Opening(p, e)
  <2>1. Opening(p, e)'
    BY <1>5, ReadOpening
  <2> QED BY <1>1, <1>3, <1>4, <1>5, <2>1, SessionStep DEF Session, ReadEnd
<1>6. CASE \E x \in Pub, l \in Loc : Talking(p, x, l) /\ e \in {x, l}
  <2>1. PICK x \in Pub, l \in Loc : Talking(p, x, l) /\ e \in {x, l}
    BY <1>6
  <2>2. Talking(p, x, l)'
    BY <2>1, ReadPublic, ReadLocal
  <2> QED BY <1>1, <1>3, <1>4, <2>2, SessionStep DEF Session, ReadEnd
<1>7. ASSUME NEW f \in Side, NEW x \in Pub, NEW l \in Loc, Closing(p, f, x, l), e = EndAt(Other(f), x, l)
      PROVE  FALSE
  <2>1. end[e].tran = Quota(e)
    BY <1>7 DEF Closing
  <2>2. end[e].tran < Quota(e) /\ Quota(e) \in Nat
    BY <1>0, Rules, Chunks
  <2> QED BY <2>1, <2>2
<1> QED
  BY <1>0, <1>5, <1>6, <1>7, PolledEnd

\* A chunk that a started ProxyConn of side s reads is the next one of the partner
\* of the end it forwards to.
NextChunk(p, s, e, f) ==
  /\ conn[<<s, p>>] = Started(e, FALSE, -1) /\ ~end[e].fin
  /\ net[<<s, p>>] = <<Chunk(f, Heard(e) + 1)>> /\ end[f].tran = Heard(e) + 1

\* What a started ProxyConn reads is the next chunk of a dialogue.
LEMMA AtForward ==
  ASSUME TypeOK, SessionInv, NEW p \in Proxy, NEW s \in Side, conn[<<s, p>>].is_start,
         net[<<s, p>>] # << >>
  PROVE  \E x \in Pub, l \in Loc :
           Talking(p, x, l) /\ NextChunk(p, s, EndAt(s, x, l), EndAt(Other(s), x, l))
<1>1. ~Blank(p) /\ ~Freeing(p) /\ \A f \in Side, x \in Pub, l \in Loc : ~Closing(p, f, x, l)
  BY DEF Blank, Freeing, Closing
<1>2. \A x \in Pub : ~Invited(p, x)
  BY Records DEF Invited
<1>3. \A l \in Loc : ~Opening(p, l)
  BY Records DEF Opening, Side
<1>4. PICK x \in Pub, l \in Loc : Talking(p, x, l)
  BY <1>1, <1>2, <1>3 DEF SessionInv, Session
<1>5. /\ Turn(x, l) /\ ~end[x].fin /\ ~end[l].fin /\ conn[<<"S", p>>] = Started(x, FALSE, -1)
      /\ net[<<"S", p>>] = IF Heard(x) = end[l].tran THEN << >> ELSE <<Chunk(l, end[l].tran)>>
      /\ net[<<"C", p>>] = IF Heard(l) = end[x].tran THEN << >> ELSE <<Chunk(x, end[x].tran)>>
  BY <1>4 DEF Talking
<1>6. CASE s = "S"
  <2>1. EndAt(s, x, l) = x /\ EndAt(Other(s), x, l) = l
    BY <1>6 DEF EndAt, Other
  <2>2. Heard(x) # end[l].tran /\ net[<<s, p>>] = <<Chunk(l, end[l].tran)>>
    BY <1>5, <1>6
  <2>3. end[l].tran = Heard(x) + 1
    BY <1>5, <2>2, Numbers DEF Turn
  <2> QED BY <1>4, <1>5, <1>6, <2>1, <2>2, <2>3 DEF NextChunk
<1>7. CASE s = "C"
  <2>1. EndAt(s, x, l) = l /\ EndAt(Other(s), x, l) = x
    BY <1>7 DEF EndAt, Other
  <2>2. Heard(l) # end[x].tran /\ net[<<s, p>>] = <<Chunk(x, end[x].tran)>>
    BY <1>5, <1>7
  <2>3. end[x].tran = Heard(l) + 1 /\ end[l].tran # 0
    BY <1>5, <2>2, Numbers DEF Turn
  <2>4. ~Fresh(l)
    BY <2>3 DEF Fresh
  <2>5. conn[<<s, p>>] = Started(l, FALSE, -1)
    BY <1>4, <1>7, <2>4 DEF Talking, Launch
  <2> QED BY <1>4, <1>5, <2>1, <2>2, <2>3, <2>5 DEF NextChunk
<1> QED
  BY <1>6, <1>7 DEF Side

\* What becomes of it.
LEMMA Forwarded ==
  ASSUME TypeOK, NEW p \in Proxy, NEW s \in Side, NEW e \in End, NEW f \in End,
         NextChunk(p, s, e, f), \E counted \in BOOLEAN : TransferChunk(<<s, p>>, counted)
  PROVE  /\ end'[e].tran = end[e].tran /\ end'[e].on = end[e].on /\ end'[e].closing = end[e].closing
         /\ end'[e].out = Append(end[e].out, <<f, Heard(e) + 1>>) /\ end'[e].fin = end[e].fin
         /\ \A g \in End : g # e => end'[g] = end[g]
         /\ Heard(e)' = Heard(e) + 1
         /\ net'[<<s, p>>] = << >> /\ \A d \in Conn : d # <<s, p>> => net'[d] = net[d]
         /\ conn'[<<s, p>>] = Started(e, FALSE, -1)'
         /\ \A d \in Conn : d # <<s, p>> => conn'[d] = conn[d]
         /\ th' = th
<1> DEFINE c == <<s, p>>
<1> SUFFICES ASSUME NEW counted \in BOOLEAN, TransferChunk(c, counted)
             PROVE  /\ end'[e].tran = end[e].tran /\ end'[e].on = end[e].on /\ end'[e].closing = end[e].closing
                    /\ end'[e].out = Append(end[e].out, <<f, Heard(e) + 1>>) /\ end'[e].fin = end[e].fin
                    /\ \A g \in End : g # e => end'[g] = end[g]
                    /\ Heard(e)' = Heard(e) + 1
                    /\ net'[c] = << >> /\ \A d \in Conn : d # c => net'[d] = net[d]
                    /\ conn'[<<s, p>>] = Started(e, FALSE, -1)'
                    /\ \A d \in Conn : d # c => conn'[d] = conn[d]
                    /\ th' = th
  OBVIOUS
<1>0. /\ c \in Conn /\ c \in Thread /\ e # None /\ end[e] \in EndState /\ th[c] \in Frame
      /\ Heard(e) \in Nat /\ end[e].out \in Seq((End \cup {None}) \X Nat)
  <2>1. end[e] \in EndState
    BY DEF TypeOK
  <2>2. Heard(e) \in Nat /\ end[e].out \in Seq((End \cup {None}) \X Nat)
    BY <2>1 DEF EndState, Heard
  <2>3. c \in Conn /\ c \in Thread /\ e # None
    BY Threads, TunnelAssumption DEF TunnelAssumption, End
  <2> QED BY <2>1, <2>2, <2>3 DEF TypeOK
<1>1. conn[c].peer = e /\ conn[c].recv = Heard(e) /\ conn[c].theo = -1
  BY DEF NextChunk, Started
<1>2. Head(net[c]).end = f /\ Head(net[c]).seq = Heard(e) + 1 /\ Tail(net[c]) = << >>
  BY DEF NextChunk, Chunk
<1>3. counted = TRUE
  BY <1>0, <1>1 DEF TransferChunk, NextChunk
<1>4. end' = [end EXCEPT ![e].out = Append(@, <<f, Heard(e) + 1>>)]
  BY <1>0, <1>1, <1>2, <1>3 DEF TransferChunk
<1>5. /\ end'[e] = [end[e] EXCEPT !.out = Append(@, <<f, Heard(e) + 1>>)]
      /\ \A g \in End : g # e => end'[g] = end[g]
  BY <1>4 DEF TypeOK
<1>6. /\ end'[e].tran = end[e].tran /\ end'[e].on = end[e].on /\ end'[e].closing = end[e].closing
      /\ end'[e].out = Append(end[e].out, <<f, Heard(e) + 1>>) /\ end'[e].fin = end[e].fin
  BY <1>0, <1>5 DEF EndState
<1>7. Heard(e)' = Heard(e) + 1
  BY <1>0, <1>6 DEF Heard
<1>8. conn' = [conn EXCEPT ![c].recv = Heard(e) + 1]
  BY <1>1, <1>3 DEF TransferChunk
<1>9. /\ conn'[c] = [Started(e, FALSE, -1) EXCEPT !.recv = Heard(e) + 1]
      /\ \A d \in Conn : d # c => conn'[d] = conn[d]
  BY <1>0, <1>8 DEF TypeOK, NextChunk
<1>10. conn'[c] = Started(e, FALSE, -1)'
  BY <1>7, <1>9 DEF Started
<1>11. net'[c] = << >> /\ \A d \in Conn : d # c => net'[d] = net[d]
  BY <1>0, <1>2 DEF TransferChunk, TypeOK
<1>12. th' = th
  <2>1. th[c] = Idle
    <3>1. \A r \in Frame : r.pc = "idle" => r = Idle
      BY DEF Frame, Idle, At
    <3> QED BY <1>0, <3>1 DEF TransferChunk, IsIdle
  <2>2. ~AllForwarded(Heard(e) + 1, -1)
    BY <1>0 DEF AllForwarded
  <2>3. th' = [th EXCEPT ![c] = Idle]
    BY <1>1, <1>3, <2>2 DEF TransferChunk, Goto
  <2> QED BY <1>0, <2>1, <2>3 DEF TypeOK
<1> QED
  BY <1>4, <1>5, <1>6, <1>7, <1>9, <1>10, <1>11, <1>12

\* What an end has heard is from its partner, and so is one more chunk.
LEMMA Extends ==
  ASSUME NEW S, NEW q \in Seq(S), NEW f, <<f, Len(q) + 1>> \in S,
         \A i \in DOMAIN q : q[i] = <<f, i>>
  PROVE  LET r == Append(q, <<f, Len(q) + 1>>)
         IN \A i \in DOMAIN r : r[i] = <<f, i>>
<1> DEFINE r == Append(q, <<f, Len(q) + 1>>)
<1>1. /\ \A i \in DOMAIN r : i \in DOMAIN q \/ i = Len(q) + 1
      /\ \A i \in DOMAIN q : r[i] = q[i]
      /\ r[Len(q) + 1] = <<f, Len(q) + 1>>
  OBVIOUS
<1> QED
  BY <1>1

\* Forwarding a chunk keeps the dialogue.
LEMMA TransferSession ==
  ASSUME TypeOK, BindingInv, SessionInv, NEW c \in Conn, NEW counted \in BOOLEAN,
         TransferChunk(c, counted)
  PROVE  SessionInv'
<1>0. c[1] \in Side /\ c[2] \in Proxy /\ c = <<c[1], c[2]>>
  BY Threads
<1> SUFFICES ASSUME NEW s \in Side, NEW p \in Proxy, c = <<s, p>> PROVE SessionInv'
  BY <1>0
<1>1. PICK x \in Pub, l \in Loc :
        Talking(p, x, l) /\ NextChunk(p, s, EndAt(s, x, l), EndAt(Other(s), x, l))
  BY AtForward DEF TransferChunk
<1>2. PICK e \in End, f \in End :
        /\ NextChunk(p, s, e, f) /\ e # f /\ x \in End /\ l \in End
        /\ (s = "S" /\ e = x /\ f = l) \/ (s = "C" /\ e = l /\ f = x)
        /\ <<"S", p>> \in Conn /\ <<"C", p>> \in Conn /\ <<"S", p>> # <<"C", p>>
  BY <1>1, Ends, Threads, TunnelAssumption DEF TunnelAssumption, EndAt, Other, Side
<1>3. NextChunk(p, s, e, f)
  BY <1>2
<1>4. /\ end'[e].tran = end[e].tran /\ end'[e].on = end[e].on /\ end'[e].closing = end[e].closing
      /\ end'[e].out = Append(end[e].out, <<f, Heard(e) + 1>>) /\ end'[e].fin = end[e].fin
      /\ \A g \in End : g # e => end'[g] = end[g]
      /\ Heard(e)' = Heard(e) + 1
      /\ net'[c] = << >> /\ \A d \in Conn : d # c => net'[d] = net[d]
      /\ conn'[c] = Started(e, FALSE, -1)' /\ \A d \in Conn : d # c => conn'[d] = conn[d]
      /\ th' = th
  <2>1. \E k \in BOOLEAN : TransferChunk(<<s, p>>, k)
    OBVIOUS
  <2> QED BY <1>3, <2>1, Forwarded, ZenonT(60)
<1>5. Match(x, l) /\ Turn(x, l)
  BY <1>1 DEF Talking
<1>6. Match(x, l)'
  <2>1. end[e].out \in Seq((End \cup {None}) \X Nat) /\ Heard(e) \in Nat
    BY <1>2, SMTT(30) DEF TypeOK, EndState, Heard
  <2>2. /\ \A i \in DOMAIN end[e].out : end[e].out[i] = <<f, i>>
        /\ \A i \in DOMAIN end[f].out : end[f].out[i] = <<e, i>>
    BY <1>2, <1>5 DEF Match
  <2>3. \A i \in DOMAIN end'[e].out : end'[e].out[i] = <<f, i>>
    BY <1>2, <1>4, <2>1, <2>2, Extends DEF Heard
  <2>4. \A i \in DOMAIN end'[f].out : end'[f].out[i] = <<e, i>>
    BY <1>2, <1>4, <2>2
  <2> QED BY <1>2, <2>3, <2>4 DEF Match
<1>7. Heard(f)' = Heard(f) /\ end'[x].tran = end[x].tran /\ end'[l].tran = end[l].tran
  BY <1>2, <1>4 DEF Heard
<1>8. end[f].tran = Heard(e) + 1
  BY <1>3 DEF NextChunk
<1>9. Turn(x, l)'
  <2>1. CASE s = "S" /\ e = x /\ f = l
    BY <1>4, <1>5, <1>7, <1>8, <2>1, Numbers DEF Turn
  <2>2. CASE s = "C" /\ e = l /\ f = x
    BY <1>4, <1>5, <1>7, <1>8, <2>2, Numbers DEF Turn
  <2> QED BY <1>2, <2>1, <2>2
<1>10. /\ net'[<<"S", p>>] = IF Heard(x)' = end'[l].tran THEN << >> ELSE <<Chunk(l, end'[l].tran)>>
       /\ net'[<<"C", p>>] = IF Heard(l)' = end'[x].tran THEN << >> ELSE <<Chunk(x, end'[x].tran)>>
  <2>1. CASE s = "S" /\ e = x /\ f = l
    BY <1>1, <1>2, <1>4, <1>7, <1>8, <2>1 DEF Talking
  <2>2. CASE s = "C" /\ e = l /\ f = x
    BY <1>1, <1>2, <1>4, <1>7, <1>8, <2>2 DEF Talking
  <2> QED BY <1>2, <2>1, <2>2
<1>11. end'[x].on = p /\ \A g \in {x, l} : ~end'[g].closing /\ ~end'[g].fin
  BY <1>1, <1>2, <1>4 DEF Talking
<1>12. Launch(p, l)' /\ conn'[<<"S", p>>] = Started(x, FALSE, -1)'
  <2>1. CASE s = "S" /\ e = x /\ f = l
    <3>1. Launch(p, l)'
      BY <1>1, <1>2, <1>4, <2>1, LaunchStays DEF Talking
    <3> QED BY <1>4, <2>1, <3>1
  <2>2. CASE s = "C" /\ e = l /\ f = x
    <3>1. end[l].tran # 0
      BY <1>5, <1>8, <2>2, Numbers DEF Turn
    <3>2. ~Fresh(l)
      BY <3>1 DEF Fresh
    <3>3. Calm(p) /\ end[l].on = p
      BY <1>1, <3>2 DEF Talking, Launch
    <3>4. Calm(p)' /\ end'[l].on = p
      BY <1>4, <2>2, <3>3 DEF Calm
    <3>5. Launch(p, l)'
      BY <1>4, <2>2, <3>4 DEF Launch
    <3>6. conn'[<<"S", p>>] = conn[<<"S", p>>] /\ conn[<<"S", p>>] = Started(x, FALSE, -1)
      BY <1>1, <1>2, <1>4, <2>2 DEF Talking
    <3> QED BY <1>7, <2>2, <3>5, <3>6 DEF Started
  <2> QED BY <1>2, <2>1, <2>2
<1>13. UNCHANGED <<ctl, proxy_conn_map, free_proxy_conns, undeal_public_fds, opened, th>>
  BY <1>4 DEF TransferChunk
<1>14. Talking(p, x, l)'
  <2>1. Silent(p)' /\ p \in proxy_conn_map'["S"]
    BY <1>1, <1>13 DEF Talking, Silent
  <2> QED BY <1>6, <1>9, <1>10, <1>11, <1>12, <2>1 DEF Talking
<1>15. Polled(p)'
  <2>1. \A g \in End : end'[g].on = end[g].on /\ end'[g].closing = end[g].closing
    BY <1>4
  <2>2. conn[c].peer = e /\ conn'[c].peer = e
    BY <1>3, <1>4 DEF NextChunk, Started
  <2>3. \A r \in Side : conn'[<<r, p>>].peer = conn[<<r, p>>].peer
    BY <1>4, <2>2, Threads
  <2> QED BY <2>1, <2>3, Ends DEF SessionInv, Session, Polled
<1>16. OnlyAt(p)
  <2>1. Uses(p, e)
    BY <1>1, <1>2, UsedEnds
  <2>2. end[e].on \in {p, None}
    <3>1. end[x].on = p /\ Launch(p, l)
      BY <1>1 DEF Talking
    <3>2. end[l].on = p \/ Fresh(l)
      BY <3>1 DEF Launch
    <3>3. end[l].on \in {p, None}
      BY <3>2 DEF Fresh
    <3> QED BY <1>2, <3>1, <3>3
  <2>3. \A q \in Proxy \ {p}, r \in Side : conn'[<<r, q>>] = conn[<<r, q>>] /\ net'[<<r, q>>] = net[<<r, q>>]
    BY <1>4, Threads
  <2> QED BY <1>4, <1>13, <2>1, <2>2, <2>3 DEF OnlyAt, Mine
<1>17. ~Blank(p)
  BY DEF Blank, TransferChunk
<1> QED
  BY <1>13, <1>14, <1>15, <1>16, <1>17, SessionStep DEF Session

----------------------------------------------------------------------------
(***************************************************************************)
(* Closing                                                                 *)
(***************************************************************************)

\* What an end that closes changes, when nobody is at work on its ProxyConn.
LEMMA Closed ==
  ASSUME TypeOK, SessionInv, NEW e \in End, NEW p \in Proxy, NEW s \in Side, s = SideOf(e),
         end[e].on = p, p \in proxy_conn_map[s], Calm(p), ReadEof(e)
  PROVE  /\ end'[e].closing /\ end'[e].tran = end[e].tran /\ end'[e].on = p
         /\ end'[e].out = end[e].out /\ end'[e].fin = end[e].fin
         /\ \A f \in End : f # e => end'[f] = end[f]
         /\ conn'[<<s, p>>] = ShutdownFromLocal(conn[<<s, p>>])
         /\ \A c \in Conn : c # <<s, p>> => conn'[c] = conn[c]
         /\ Active(p, <<s, p>>, At("notify", p, e))' /\ th'[Listener] = th[Listener]
         /\ OnlyAt(p) /\ Polled(p)'
<1>0. /\ <<s, p>> \in Conn /\ <<s, p>> \in Thread /\ <<s, p>> # Listener /\ end[e] \in EndState
  BY Threads, TunnelAssumption DEF TypeOK, TunnelAssumption, Listener
<1>1. /\ conn' = [conn EXCEPT ![<<s, p>>] = ShutdownFromLocal(@)]
      /\ Goto(<<s, p>>, At("notify", p, e)) /\ IsIdle(<<s, p>>) /\ ~end[e].closing
      /\ end' = [end EXCEPT ![e].closing = TRUE]
      /\ UNCHANGED <<net, ctl, proxy_conn_map, free_proxy_conns, undeal_public_fds, opened>>
  BY DEF ReadEof, ShutdownFromEnd, Readable
<1>2. end'[e] = [end[e] EXCEPT !.closing = TRUE] /\ \A f \in End : f # e => end'[f] = end[f]
  BY <1>1 DEF TypeOK
<1>3. /\ end'[e].closing /\ end'[e].tran = end[e].tran /\ end'[e].on = p
      /\ end'[e].out = end[e].out /\ end'[e].fin = end[e].fin
  BY <1>0, <1>2 DEF EndState
<1>4. /\ conn'[<<s, p>>] = ShutdownFromLocal(conn[<<s, p>>])
      /\ \A c \in Conn : c # <<s, p>> => conn'[c] = conn[c]
  BY <1>0, <1>1 DEF TypeOK
<1>5. /\ th'[Listener] = th[Listener] /\ Active(p, <<s, p>>, At("notify", p, e))'
      /\ \A u \in Thread \ {Listener} :
           th'[u] = th[u] \/ (th[u].proxy \in {p, None} /\ th'[u].proxy \in {p, None})
  BY <1>0, <1>1, TakesUp, Records
<1>6. OnlyAt(p)
  <2>1. \A q \in Proxy \ {p}, r \in Side : conn'[<<r, q>>] = conn[<<r, q>>]
    BY <1>4, Threads
  <2> QED BY <1>1, <1>2, <1>3, <1>5, <2>1 DEF OnlyAt, Mine, Uses
<1>7. Polled(p)'
  <2> SUFFICES ASSUME NEW f \in End, end'[f].on = p, ~end'[f].closing
               PROVE  conn'[<<SideOf(f), p>>].peer = f
    BY DEF Polled
  <2>1. f # e /\ end'[f] = end[f] /\ <<SideOf(f), p>> \in Conn
    BY <1>2, <1>3, Ends, Threads
  <2>2. conn[<<SideOf(f), p>>].peer = f /\ conn[<<s, p>>].peer = e
    BY <1>1, <2>1 DEF SessionInv, Session, Polled
  <2>3. SideOf(f) # s
    BY <2>1, <2>2
  <2> QED BY <1>4, <2>1, <2>2, <2>3
<1> QED
  BY <1>2, <1>3, <1>4, <1>5, <1>6, <1>7

\* The dialogue of x and l is over, and the end on side f is the first to see it.
Over(p, f, x, l) ==
  /\ f = (IF x \in Closers THEN "S" ELSE "C")
  /\ end[EndAt(Other(f), x, l)].tran = Quota(EndAt(Other(f), x, l))
  /\ end[x].tran = Heard(l) /\ end[l].tran = Heard(x)
  /\ Calm(p) /\ end[l].on = p
  /\ conn[<<"S", p>>] = Started(x, FALSE, -1) /\ conn[<<"C", p>>] = Started(l, FALSE, -1)
  /\ \A s \in Side : net[<<s, p>>] = << >>

\* An end closes when the dialogue is over: all is heard, and nothing is in flight.
LEMMA LastWord ==
  ASSUME TypeOK, Dialogue, NEW p \in Proxy, NEW x \in Pub, NEW l \in Loc, Talking(p, x, l),
         NEW e \in End, e \in {x, l}, end[e].on = p, MayClose(e), NEW f \in Side, f = SideOf(e)
  PROVE  e = EndAt(f, x, l) /\ Over(p, f, x, l)
<1>0. /\ x \in End /\ l \in End /\ x # l /\ SideOf(x) = "S" /\ SideOf(l) = "C" /\ p # None
      /\ Other("S") = "C" /\ Other("C") = "S"
  BY Ends, TunnelAssumption DEF TunnelAssumption, SideOf, Other
<1>1. /\ Match(x, l) /\ Turn(x, l) /\ ~end[x].fin /\ ~end[l].fin /\ Launch(p, l)
      /\ conn[<<"S", p>>] = Started(x, FALSE, -1)
      /\ net[<<"S", p>>] = IF Heard(x) = end[l].tran THEN << >> ELSE <<Chunk(l, end[l].tran)>>
      /\ net[<<"C", p>>] = IF Heard(l) = end[x].tran THEN << >> ELSE <<Chunk(x, end[x].tran)>>
  BY DEF Talking
<1>2. ASSUME ~Fresh(l) PROVE Calm(p) /\ end[l].on = p /\ conn[<<"C", p>>] = Started(l, FALSE, -1)
  BY <1>1, <1>2 DEF Launch
<1>3. CASE e = x
  <2>1. x \in Closers /\ Heard(x) = LocChunks
    BY <1>0, <1>1, <1>3, Rules, FirstToClose
  <2>2. end[l].tran = LocChunks /\ end[l].tran = Heard(x) /\ end[x].tran = Heard(l) /\ LocChunks > 0
    BY <1>1, <2>1, Numbers DEF Turn, Dialogue
  <2>3. ~Fresh(l)
    BY <2>2 DEF Fresh
  <2>4. Quota(l) = LocChunks
    BY <1>1, FirstToClose
  <2>5. SideOf(e) = "S" /\ EndAt("S", x, l) = x /\ EndAt("C", x, l) = l
    BY <1>0, <1>3 DEF EndAt
  <2>6. \A s \in Side : net[<<s, p>>] = << >>
    BY <1>1, <2>2 DEF Side
  <2> QED BY <1>0, <1>1, <1>2, <1>3, <2>1, <2>2, <2>3, <2>4, <2>5, <2>6 DEF Over
<1>4. CASE e = l
  <2>1. x \notin Closers /\ Heard(l) = PubChunks /\ Heard(l) > 0
    BY <1>0, <1>1, <1>4, Rules, FirstToClose
  <2>2. end[x].tran = PubChunks /\ end[l].tran = Heard(x) /\ end[x].tran = Heard(l)
    BY <1>1, <2>1, Numbers DEF Turn
  <2>3. ~Fresh(l)
    BY <1>0, <1>4 DEF Fresh
  <2>4. Quota(x) = PubChunks
    BY <1>1, FirstToClose
  <2>5. SideOf(e) = "C" /\ EndAt("S", x, l) = x /\ EndAt("C", x, l) = l
    BY <1>0, <1>4 DEF EndAt
  <2>6. \A s \in Side : net[<<s, p>>] = << >>
    BY <1>1, <2>2 DEF Side
  <2> QED BY <1>0, <1>1, <1>2, <1>4, <2>1, <2>2, <2>3, <2>4, <2>5, <2>6 DEF Over
<1> QED
  BY <1>3, <1>4

\* The dialogue ends.
LEMMA EofTalking ==
  ASSUME TypeOK, BindingInv, SessionInv, Dialogue, NEW p \in Proxy, NEW x \in Pub, NEW l \in Loc,
         Talking(p, x, l), NEW e \in {x, l}, end[e].on = p, ReadEof(e)
  PROVE  SessionInv'
<1>0. e \in End /\ MayClose(e)
  BY Ends DEF ReadEof
<1> SUFFICES ASSUME NEW f \in Side, f = SideOf(e) PROVE SessionInv'
  BY <1>0, Ends
<1>1. e = EndAt(f, x, l) /\ Over(p, f, x, l)
  BY <1>0, LastWord
<1>2. PICK b \in End : b = EndAt(Other(f), x, l)
  BY Roles
<1>3. /\ e # b /\ ((e = x /\ b = l) \/ (e = l /\ b = x))
      /\ Other(f) \in Side /\ Other(f) # f /\ \A s \in Side : s = f \/ s = Other(f)
      /\ <<f, p>> \in Conn /\ <<Other(f), p>> \in Conn
      /\ conn[<<f, p>>] = Started(e, FALSE, -1) /\ conn[<<Other(f), p>>] = Started(b, FALSE, -1)
  <2>1. /\ e # b /\ ((e = x /\ b = l) \/ (e = l /\ b = x))
        /\ Other(f) \in Side /\ Other(f) # f /\ \A s \in Side : s = f \/ s = Other(f)
    BY <1>1, <1>2, TunnelAssumption DEF TunnelAssumption, EndAt, Other, Side
  <2>2. conn[<<f, p>>] = Started(e, FALSE, -1) /\ conn[<<Other(f), p>>] = Started(b, FALSE, -1)
    BY <1>1, <1>2 DEF EndAt, Other, Side, Over
  <2> QED BY <2>1, <2>2, Threads
<1>4. p \in proxy_conn_map["S"] /\ p \in proxy_conn_map[f]
  BY DEF Talking, BindingInv, KnownInv, Side
<1>5. /\ end'[e].closing /\ end'[e].tran = end[e].tran /\ end'[e].on = p
      /\ end'[e].out = end[e].out /\ end'[e].fin = end[e].fin
      /\ \A g \in End : g # e => end'[g] = end[g]
      /\ conn'[<<f, p>>] = ShutdownFromLocal(conn[<<f, p>>])
      /\ \A c \in Conn : c # <<f, p>> => conn'[c] = conn[c]
      /\ Active(p, <<f, p>>, At("notify", p, e))' /\ th'[Listener] = th[Listener]
      /\ OnlyAt(p) /\ Polled(p)'
  BY <1>0, <1>1, <1>4, Closed DEF Over
<1>6. UNCHANGED <<net, ctl, proxy_conn_map, free_proxy_conns, undeal_public_fds, opened>>
  BY DEF ReadEof
<1>7. Heard(x)' = Heard(x) /\ Heard(l)' = Heard(l) /\ Heard(e)' = Heard(e) /\ Heard(b)' = Heard(b)
  BY <1>3, <1>5, Ends DEF Heard
<1>8. conn'[<<f, p>>] = Started(e, TRUE, -1)'
  <2>1. ~conn[<<f, p>>].half_close
    BY <1>3 DEF Started
  <2>2. conn'[<<f, p>>] = [Started(e, FALSE, -1) EXCEPT !.half_close = TRUE]
    BY <1>3, <1>5, <2>1 DEF ShutdownFromLocal
  <2>3. conn'[<<f, p>>] = Started(e, TRUE, -1)
    BY <2>2, HalfClose, Zenon
  <2> QED BY <1>7, <2>3 DEF Started
<1>9. FirstClosed(p, f, e, b)'
  <2>1. conn'[<<Other(f), p>>] = Started(b, FALSE, -1)'
    BY <1>3, <1>5, <1>7 DEF Started
  <2>2. ~end'[b].closing /\ ~end'[b].fin
    <3>1. end'[b] = end[b] /\ b \in {x, l}
      BY <1>3, <1>5
    <3> QED BY <3>1 DEF Talking
  <2>3. Notifying(p, f, e)'
    BY <1>5, <1>6 DEF Notifying, Silent, Talking
  <2> QED BY <1>8, <2>1, <2>2, <2>3 DEF FirstClosed
<1>10. Closing(p, f, x, l)'
  <2>1. Match(x, l)'
    <3>1. end'[x].out = end[x].out /\ end'[l].out = end[l].out
      BY <1>3, <1>5
    <3> QED BY <3>1 DEF Talking, Match
  <2>2. end'[x].on = p /\ end'[l].on = p
    BY <1>1, <1>3, <1>5 DEF Talking, Over
  <2>3. end'[x].tran = Heard(l)' /\ end'[l].tran = Heard(x)' /\ end'[b].tran = Quota(b)
    BY <1>1, <1>2, <1>3, <1>5, <1>7 DEF Over
  <2>4. end'[e].closing /\ ~end'[e].fin
    BY <1>5 DEF Talking
  <2>5. p \in proxy_conn_map'["S"] /\ \A s \in Side : net'[<<s, p>>] = << >>
    BY <1>1, <1>4, <1>6 DEF Over
  <2> QED BY <1>1, <1>2, <1>9, <2>1, <2>2, <2>3, <2>4, <2>5 DEF Closing, Over
<1>11. ~Blank(p)
  BY <1>4 DEF Blank
<1> QED
  BY <1>5, <1>6, <1>10, <1>11, SessionStep DEF Session

\* The other end, told so, closes too.
LEMMA EofClosing ==
  ASSUME TypeOK, BindingInv, SessionInv, Dialogue, NEW p \in Proxy, NEW f \in Side, NEW x \in Pub,
         NEW l \in Loc, Closing(p, f, x, l), NEW a \in End, a = EndAt(f, x, l),
         NEW b \in End, b = EndAt(Other(f), x, l), FirstClosed(p, f, a, b), ReadEof(b)
  PROVE  SessionInv'
<1> SUFFICES ASSUME NEW g \in Side, g = Other(f) PROVE SessionInv'
  BY Threads
<1>0. /\ a # b /\ ((a = x /\ b = l) \/ (a = l /\ b = x))
      /\ g \in Side /\ g # f /\ SideOf(b) = g
      /\ <<f, p>> \in Conn /\ <<g, p>> \in Conn
  BY Roles, Threads
<1>1. /\ p \in proxy_conn_map["S"] /\ end[x].on = p /\ end[l].on = p /\ end[b].on = p /\ Match(x, l)
      /\ end[a].closing /\ ~end[a].fin /\ end[b].tran = Quota(b)
      /\ end[x].tran = Heard(l) /\ end[l].tran = Heard(x)
      /\ \A s \in Side : net[<<s, p>>] = << >>
      /\ f = IF x \in Closers THEN "S" ELSE "C"
  BY <1>0 DEF Closing
<1>2. end[b].fin
  <2>1. MayClose(b)
    BY DEF ReadEof
  <2>2. ~ClosesFirst(b)
    <3>1. CASE f = "S"
      BY <1>1, <3>1, FirstToClose DEF EndAt, Other
    <3>2. CASE f = "C"
      BY <1>1, <3>2, FirstToClose DEF EndAt, Other
    <3> QED BY <3>1, <3>2 DEF Side
  <2> QED BY <2>1, <2>2, Rules
<1>3. /\ Calm(p) /\ Silent(p) /\ conn[<<g, p>>] = Started(b, TRUE, Heard(b))
      /\ conn[<<f, p>>] = Started(a, TRUE, -1)
  BY <1>2 DEF FirstClosed
<1>4. p \in proxy_conn_map[g]
  BY <1>0, <1>1 DEF BindingInv, KnownInv, Side
<1>5. /\ end'[b].closing /\ end'[b].tran = end[b].tran /\ end'[b].on = p
      /\ end'[b].out = end[b].out /\ end'[b].fin = end[b].fin
      /\ \A e \in End : e # b => end'[e] = end[e]
      /\ conn'[<<g, p>>] = ShutdownFromLocal(conn[<<g, p>>])
      /\ \A c \in Conn : c # <<g, p>> => conn'[c] = conn[c]
      /\ Active(p, <<g, p>>, At("notify", p, b))' /\ th'[Listener] = th[Listener]
      /\ OnlyAt(p) /\ Polled(p)'
  BY <1>0, <1>1, <1>3, <1>4, Closed
<1>6. UNCHANGED <<net, ctl, proxy_conn_map, free_proxy_conns, undeal_public_fds, opened>>
  BY DEF ReadEof
<1>7. Heard(x)' = Heard(x) /\ Heard(l)' = Heard(l) /\ Heard(a)' = Heard(a) /\ Heard(b)' = Heard(b)
  BY <1>0, <1>5, Ends DEF Heard
<1>8. conn'[<<g, p>>] = Reset
  <2>1. conn[<<g, p>>].half_close
    BY <1>3 DEF Started
  <2> QED BY <1>5, <2>1 DEF ShutdownFromLocal
<1>9. BothClosed(p, f, a, b)'
  <2>1. conn'[<<f, p>>] = Started(a, TRUE, -1)'
    BY <1>0, <1>3, <1>5, <1>7 DEF Started
  <2>2. Notifying(p, g, b)'
    BY <1>3, <1>5, <1>6 DEF Notifying, Silent
  <2> QED BY <1>2, <1>5, <1>8, <2>1, <2>2 DEF BothClosed
<1>10. Closing(p, f, x, l)'
  <2>1. Match(x, l)'
    <3>1. end'[x].out = end[x].out /\ end'[l].out = end[l].out
      BY <1>0, <1>5
    <3> QED BY <1>1, <3>1 DEF Match
  <2>2. /\ end'[x].on = p /\ end'[l].on = p /\ end'[a].closing /\ ~end'[a].fin
        /\ end'[x].tran = Heard(l)' /\ end'[l].tran = Heard(x)' /\ end'[b].tran = Quota(b)
    BY <1>0, <1>1, <1>5, <1>7
  <2>3. p \in proxy_conn_map'["S"] /\ \A s \in Side : net'[<<s, p>>] = << >>
    BY <1>1, <1>6
  <2> QED BY <1>1, <1>9, <2>1, <2>2, <2>3 DEF Closing
<1>11. ~Blank(p)
  BY <1>1 DEF Blank
<1> QED
  BY <1>5, <1>6, <1>10, <1>11, SessionStep DEF Session

\* Nobody closes before the server has started p.
LEMMA ReadEofSession ==
  ASSUME TypeOK, BindingInv, SessionInv, Dialogue, NEW e \in End, ReadEof(e)
  PROVE  SessionInv'
<1>0. end[e].on \in Proxy /\ ~end[e].closing /\ MayClose(e)
  BY DEF ReadEof, Readable, TypeOK, EndState
<1> SUFFICES ASSUME NEW p \in Proxy, end[e].on = p PROVE SessionInv'
  BY <1>0
<1>1. ASSUME e \in Loc, Opening(p, e) PROVE FALSE
  <2>1. ~end[e].fin /\ Heard(e) = 0 /\ e \notin Pub
    BY <1>1, TunnelAssumption DEF Opening, Heard, TunnelAssumption
  <2>2. ~ClosesFirst(e)
    BY <2>1 DEF ClosesFirst
  <2> QED BY <1>0, <2>1, <2>2, Rules
<1>2. ASSUME NEW x \in Pub, NEW l \in Loc, Talking(p, x, l), e \in {x, l} PROVE SessionInv'
  BY <1>2, EofTalking
<1>3. ASSUME NEW f \in Side, NEW x \in Pub, NEW l \in Loc, Closing(p, f, x, l),
             e = EndAt(Other(f), x, l), FirstClosed(p, f, EndAt(f, x, l), EndAt(Other(f), x, l))
      PROVE  SessionInv'
  <2>1. EndAt(f, x, l) \in End
    BY Roles
  <2> QED BY <1>3, <2>1, EofClosing
<1> QED
  BY <1>0, <1>1, <1>2, <1>3, PolledEnd

----------------------------------------------------------------------------
(***************************************************************************)
(* The specification                                                       *)
(***************************************************************************)

\* No session has begun.
LEMMA InitSession == Init => SessionInv
<1> SUFFICES ASSUME Init PROVE SessionInv
  OBVIOUS
<1>0. /\ \A t \in Thread : th[t] = Idle
      /\ \A e \in End : Fresh(e)
      /\ \A s \in Side : ctl[s] = << >> /\ proxy_conn_map[s] = {}
      /\ \A c \in Conn : conn[c] = Reset /\ net[c] = << >>
      /\ free_proxy_conns = << >> /\ undeal_public_fds = << >>
  BY DEF Init, Fresh
<1>1. ASSUME NEW p \in Proxy PROVE Blank(p) /\ Polled(p)
  <2>1. p # None
    BY TunnelAssumption DEF TunnelAssumption
  <2>2. Calm(p)
    BY <1>0, IdleProxy DEF Calm
  <2>3. Silent(p)
    BY <1>0 DEF Silent, Unnamed
  <2>4. Blank(p)
    BY <1>0, <2>2, <2>3, Threads DEF Blank, Side
  <2>5. Polled(p)
    BY <1>0, <2>1 DEF Polled, Fresh
  <2> QED BY <2>4, <2>5
<1>2. th[Listener].pc \in {"idle", "wait"}
  BY <1>0, Threads, Records
<1> QED
  BY <1>0, <1>1, <1>2 DEF SessionInv, Session

\* The steps of a handler under way.
LEMMA ThreadSession ==
  ASSUME TypeOK, BindingInv, SessionInv, NEW t \in Thread, ThreadStep(t)
  PROVE  SessionInv'
  BY StartFlagSession, StartBindSession, NotifyPeerSession, CheckCountsSession,
     ShutdownFromRemoteSession, RequestFreeSession, FreeProxyConnSession, PushFreeSession
     DEF ThreadStep

\* Every step.
LEMMA NextSession ==
  ASSUME Dialogue, TypeOK, BindingInv, SessionInv, [Next]_vars
  PROVE  SessionInv'
<1>1. CASE UNCHANGED vars
  <2>1. /\ UNCHANGED <<conn, net, proxy_conn_map, free_proxy_conns, end>>
        /\ ctl' = ctl /\ th' = th /\ opened' = opened /\ undeal_public_fds' = undeal_public_fds
    BY <1>1 DEF vars
  <2>2. th'[Listener].pc \in {"idle", "wait"}
    BY <2>1 DEF SessionInv
  <2> QED BY <2>1, <2>2, NoSession
<1>2. ASSUME NEW x \in Pub, AcceptOnFree(x) \/ AcceptNeedsProxy(x) PROVE SessionInv'
  BY <1>2, AcceptOnFreeSession, ListenerSession
<1>3. CASE AddWait
  <2>1. /\ \A u \in Thread \ {Listener} : th'[u] = th[u]
        /\ th'[Listener].pc \in {"idle", "wait"}
    BY <1>3, Threads, Records DEF AddWait, Goto, TypeOK
  <2> QED BY <1>3, <2>1, NoSession DEF AddWait
<1>4. CASE HandleShutdownPublicConn \/ HandleShutdownLocalConn
  BY <1>4, HandleShutdownSession DEF HandleShutdownPublicConn, HandleShutdownLocalConn, Side
<1>5. ASSUME NEW c \in Conn, ReadProxy(c) PROVE SessionInv'
  BY <1>5, DropSession, TransferSession DEF ReadProxy
<1>6. ASSUME NEW p \in Proxy, StartProxy(p) PROVE SessionInv'
  BY <1>6, HandleProxyNotifySession, HandleStartReqSession, ClaimSession, StartRspSession
     DEF StartProxy
<1>7. ASSUME NEW e \in End, ReadEnd(e) \/ ReadEof(e) PROVE SessionInv'
  BY <1>7, ReadEndSession, ReadEofSession
<1> QED
  BY <1>1, <1>2, <1>3, <1>4, <1>5, <1>6, <1>7, HandleFreeSession, ThreadSession DEF Next

\* Every proxy connection is, at all times, in one phase of a session: unused,
\* asked to start, opening, talking, closing in one of the two orders, or on its
\* way to the free list; and no two sessions use the same end.
THEOREM SessionCorrect ==
  ASSUME Dialogue
  PROVE  Spec => [](TypeOK /\ BindingInv /\ SessionInv)
<1>1. Init => TypeOK /\ BindingInv /\ SessionInv
  BY InitTypeOK, InitBinding, InitSession
<1>2. TypeOK /\ BindingInv /\ SessionInv /\ [Next]_vars => (TypeOK /\ BindingInv /\ SessionInv)'
  BY NextTypeOK, NextBinding, NextSession
<1> QED BY <1>1, <1>2, PTL DEF Spec

\* When the applications hold a dialogue, a proxy connection that freeProxyConn puts
\* into the free list is there once, reset on both sides, with nothing in flight.
THEOREM FreeStaysQuiet ==
  ASSUME Dialogue
  PROVE  Spec => []FreeIsQuiet
<1>1. TypeOK /\ SessionInv => FreeIsQuiet
  <2> SUFFICES ASSUME TypeOK, SessionInv, NEW i \in DOMAIN free_proxy_conns
               PROVE  LET p == free_proxy_conns[i]
                      IN /\ \A j \in DOMAIN free_proxy_conns : free_proxy_conns[j] = p => j = i
                         /\ \A s \in Side : conn[<<s, p>>] = Reset /\ net[<<s, p>>] = << >>
                         /\ p \notin proxy_conn_map["S"]
    BY DEF FreeIsQuiet
  <2>1. free_proxy_conns[i] \in Proxy /\ free_proxy_conns[i] \in Range(free_proxy_conns)
    BY DEF TypeOK, Range
  <2>2. Blank(free_proxy_conns[i])
    BY <2>1 DEF SessionInv
  <2> QED BY <2>2 DEF SessionInv, Blank
<1> QED BY <1>1, SessionCorrect, PTL

----------------------------------------------------------------------------
(***************************************************************************)
(* The tunnel relays like TCP                                              *)
(***************************************************************************)

\* A step that changes no stream is a stutter of Relay.
LEMMA Streams ==
  ASSUME \A e \in End : /\ end'[e].tran = end[e].tran /\ end'[e].closing = end[e].closing
                        /\ end'[e].out = end[e].out /\ end'[e].fin = end[e].fin
  PROVE  UNCHANGED Relaying!vars
  BY DEF Relaying!vars

\* An end that a worker reads a chunk of sends it ...
LEMMA SendRelays ==
  ASSUME TypeOK, NEW e \in End, ReadEnd(e)
  PROVE  Relaying!Send(e)
<1>0. end[e].on \in Proxy /\ ~end[e].closing
  BY DEF ReadEnd, Readable, TypeOK, EndState
<1>1. /\ end'[e].tran = end[e].tran + 1 /\ end'[e].closing = end[e].closing
      /\ end'[e].out = end[e].out /\ end'[e].fin = end[e].fin
      /\ \A f \in End : f # e => end'[f] = end[f]
  BY <1>0, Sent
<1> QED
  BY <1>0, <1>1 DEF Relaying!Send

\* ... and one it reads the end of the stream of closes.
LEMMA CloseRelays ==
  ASSUME TypeOK, NEW e \in End, ReadEof(e)
  PROVE  Relaying!Close(e)
<1>0. end[e] \in EndState
  BY DEF TypeOK
<1>1. end'[e] = [end[e] EXCEPT !.closing = TRUE] /\ \A f \in End : f # e => end'[f] = end[f]
  BY DEF ReadEof, TypeOK
<1>2. /\ end'[e].tran = end[e].tran /\ end'[e].closing = TRUE
      /\ end'[e].out = end[e].out /\ end'[e].fin = end[e].fin
  BY <1>0, <1>1 DEF EndState
<1> QED
  BY <1>1, <1>2 DEF Relaying!Close

\* The two ends of a session are partners.
LEMMA Partners ==
  ASSUME NEW x \in Pub, NEW l \in Loc, Match(x, l)
  PROVE  Relaying!Partner(x, l) /\ Relaying!Partner(l, x)
<1>1. x \in End /\ l \in End /\ x \in Pub /\ l \notin Pub
  BY Ends, TunnelAssumption DEF TunnelAssumption
<1> QED
  BY <1>1 DEF Relaying!Partner, Match

\* Forwarding delivers the partner's next chunk.
LEMMA DeliverRelays ==
  ASSUME TypeOK, SessionInv, NEW c \in Conn, \E counted \in BOOLEAN : TransferChunk(c, counted)
  PROVE  \E e, f \in End : Relaying!Deliver(e, f)
<1>0. c[1] \in Side /\ c[2] \in Proxy /\ c = <<c[1], c[2]>>
  BY Threads
<1> SUFFICES ASSUME NEW s \in Side, NEW p \in Proxy, c = <<s, p>>
             PROVE  \E e, f \in End : Relaying!Deliver(e, f)
  BY <1>0
<1>1. PICK x \in Pub, l \in Loc :
        Talking(p, x, l) /\ NextChunk(p, s, EndAt(s, x, l), EndAt(Other(s), x, l))
  BY AtForward DEF TransferChunk
<1>2. PICK e \in End, f \in End :
        /\ NextChunk(p, s, e, f)
        /\ (e = x /\ f = l) \/ (e = l /\ f = x)
  BY <1>1, Ends DEF EndAt, Other, Side
<1>3. Relaying!Partner(e, f)
  BY <1>1, <1>2, Partners DEF Talking
<1>4. \E counted \in BOOLEAN : TransferChunk(<<s, p>>, counted)
  OBVIOUS
<1>5. /\ end'[e].tran = end[e].tran /\ end'[e].closing = end[e].closing
      /\ end'[e].out = Append(end[e].out, <<f, Heard(e) + 1>>) /\ end'[e].fin = end[e].fin
      /\ \A g \in End : g # e => end'[g] = end[g]
  BY <1>2, <1>4, Forwarded
<1>6. ~end[e].fin /\ Len(end[e].out) < end[f].tran
  <2>1. Heard(e) \in Nat
    BY DEF TypeOK, EndState, Heard
  <2> QED BY <1>2, <2>1 DEF NextChunk, Heard
<1>7. Relaying!Deliver(e, f)
  BY <1>3, <1>5, <1>6 DEF Relaying!Deliver, Heard
<1> QED
  BY <1>7

\* shutdownFromRemote() ends the stream of an end that has heard all its partner sent.
LEMMA FinishRelays ==
  ASSUME TypeOK, SessionInv, NEW t \in Thread, ShutdownFromRemote(t)
  PROVE  \E e, f \in End : Relaying!Finish(e, f)
<1>0. th[t].proxy \in Proxy /\ th[t].pc = "shut"
  BY Frames DEF ShutdownFromRemote, TypeOK
<1> SUFFICES ASSUME NEW p \in Proxy, th[t].proxy = p
             PROVE  \E e, f \in End : Relaying!Finish(e, f)
  BY <1>0
<1>1. PICK g \in Side, x \in Pub, l \in Loc :
        Closing(p, g, x, l) /\ Silent(p) /\ Finds(p, t, g, EndAt(g, x, l), EndAt(Other(g), x, l))
  BY <1>0, AtClose
<1>2. PICK a \in End, b \in End :
        /\ a = EndAt(g, x, l) /\ b = EndAt(Other(g), x, l)
        /\ (a = x /\ b = l) \/ (a = l /\ b = x)
        /\ a # None /\ b # None
  BY Roles
<1>3. Finds(p, t, g, a, b)
  BY <1>1, <1>2
<1>4. /\ end[a].closing /\ end[a].tran = Heard(b) /\ end[b].tran = Heard(a) /\ Match(x, l)
  BY <1>1, <1>2 DEF Closing
<1>5. PICK e \in End, f \in End :
        /\ e # None /\ end[f].closing /\ end[f].tran = Heard(e) /\ Relaying!Partner(e, f)
        /\ conn[<<t[1], p>>].peer = e
  <2>1. Relaying!Partner(a, b) /\ Relaying!Partner(b, a)
    BY <1>2, <1>4, Partners
  <2>2. CASE t = Main(Other(g)) /\ conn[<<Other(g), p>>] = Started(b, FALSE, Heard(b))
    <3>1. conn[<<t[1], p>>].peer = b
      BY <2>2 DEF Main, Started
    <3> QED BY <1>2, <1>4, <2>1, <3>1
  <2>3. CASE t = Main(g) /\ conn[<<g, p>>] = Started(a, TRUE, Heard(a)) /\ BothClosed(p, g, a, b)
    <3>1. conn[<<t[1], p>>].peer = a
      BY <2>3 DEF Main, Started
    <3>2. end[b].closing
      BY <2>3 DEF BothClosed
    <3> QED BY <1>2, <1>4, <2>1, <3>1, <3>2
  <2> QED BY <1>0, <1>3, <2>2, <2>3 DEF Finds
<1>6. end' = [end EXCEPT ![e].fin = TRUE] /\ end[e] \in EndState
  BY <1>5 DEF ShutdownFromRemote, TypeOK
<1>7. end'[e] = [end[e] EXCEPT !.fin = TRUE] /\ \A h \in End : h # e => end'[h] = end[h]
  BY <1>6 DEF TypeOK
<1>8. /\ end'[e].tran = end[e].tran /\ end'[e].closing = end[e].closing
      /\ end'[e].out = end[e].out /\ end'[e].fin = TRUE
  BY <1>6, <1>7 DEF EndState
<1>9. /\ [h \in End |-> end'[h].fin] = [[h \in End |-> end[h].fin] EXCEPT ![e] = TRUE]
      /\ [h \in End |-> end'[h].tran] = [h \in End |-> end[h].tran]
      /\ [h \in End |-> end'[h].closing] = [h \in End |-> end[h].closing]
      /\ [h \in End |-> end'[h].out] = [h \in End |-> end[h].out]
  BY <1>7, <1>8, ZenonT(60)
<1>10. end[f].closing /\ Len(end[e].out) = end[f].tran
  BY <1>5 DEF Heard
<1>11. Relaying!Finish(e, f)
  BY <1>5, <1>9, <1>10 DEF Relaying!Finish
<1> QED
  BY <1>11

\* Binding an end leaves what it has sent and heard.
LEMMA BindRelays ==
  ASSUME TypeOK, (\E t \in Thread : StartBind(t)) \/ (\E p \in Proxy : StartProxy(p))
  PROVE  UNCHANGED Relaying!vars
<1>1. ASSUME NEW e \in End, NEW p \in Proxy, end' = Mounted(e, p) PROVE UNCHANGED Relaying!vars
  BY <1>1, MountedEnds, Streams
<1>2. ASSUME NEW t \in Thread, StartBind(t) PROVE UNCHANGED Relaying!vars
  <2>1. th[t].proxy \in Proxy /\ th[t].end \in End
    BY <1>2, Frames, Ends DEF StartBind, TypeOK
  <2> QED BY <1>1, <1>2, <2>1 DEF StartBind
<1>3. ASSUME NEW p \in Proxy, ClaimProxyConn(p) PROVE UNCHANGED Relaying!vars
  <2>1. Last(undeal_public_fds) \in End
    BY <1>3, FrontLast, Ends DEF ClaimProxyConn, TypeOK
  <2> QED BY <1>1, <1>3, <2>1 DEF ClaimProxyConn, BindPublicFdToProxyConn
<1>4. ASSUME NEW p \in Proxy, HandleStartProxyConnRsp(p) PROVE UNCHANGED Relaying!vars
  <2>1. Head(net[<<"S", p>>]) \in Item /\ Head(net[<<"S", p>>]).type = "StartProxyConnRsp"
    BY <1>4, QueueTypes, Threads DEF HandleStartProxyConnRsp, InCtlMode, Side
  <2>2. Head(net[<<"S", p>>]).end \in End
    BY <2>1, Items, Ends
  <2> QED BY <1>1, <1>4, <2>2 DEF HandleStartProxyConnRsp, BindPublicFdToProxyConn
<1>5. ASSUME NEW p \in Proxy, NEW l \in Loc, HandleProxyNotify(p, l) \/ HandleStartProxyConnReq(p, l)
      PROVE  UNCHANGED Relaying!vars
  <2>1. end' = end
    BY <1>5 DEF HandleProxyNotify, HandleStartProxyConnReq
  <2> QED BY <2>1, Streams
<1> QED
  BY <1>2, <1>3, <1>4, <1>5 DEF StartProxy

\* Every step of the tunnel is a step of Relay or a stutter.
LEMMA NextRelays ==
  ASSUME TypeOK, SessionInv, [Next]_vars
  PROVE  [Relaying!Next]_(Relaying!vars)
<1>0. Relaying!End = End
  BY DEF Relaying!End, End
<1>1. ASSUME end' = end PROVE UNCHANGED Relaying!vars
  BY <1>1, Streams
<1>2. ASSUME NEW t \in Thread, ThreadStep(t) PROVE [Relaying!Next]_(Relaying!vars)
  <2>1. CASE ShutdownFromRemote(t)
    BY <1>0, <2>1, FinishRelays DEF Relaying!Next
  <2>2. CASE StartBind(t)
    BY <2>2, BindRelays
  <2>3. CASE end' = end
    BY <1>1, <2>3
  <2> QED BY <1>2, <2>1, <2>2, <2>3
          DEF ThreadStep, StartFlag, NotifyPeer, CheckCounts, RequestFree, FreeProxyConn, PushFree
<1>3. ASSUME NEW c \in Conn, ReadProxy(c) PROVE [Relaying!Next]_(Relaying!vars)
  <2>1. CASE \E counted \in BOOLEAN : TransferChunk(c, counted)
    BY <1>0, <2>1, DeliverRelays DEF Relaying!Next
  <2>2. CASE DropInCtlMode(c)
    BY <1>1, <2>2 DEF DropInCtlMode
  <2> QED BY <1>3, <2>1, <2>2 DEF ReadProxy
<1>4. ASSUME NEW e \in End, ReadEnd(e) \/ ReadEof(e) PROVE [Relaying!Next]_(Relaying!vars)
  BY <1>0, <1>4, SendRelays, CloseRelays DEF Relaying!Next
<1>5. ASSUME NEW p \in Proxy, StartProxy(p) PROVE UNCHANGED Relaying!vars
  BY <1>5, BindRelays
<1>6. CASE \/ \E x \in Pub : AcceptOnFree(x) \/ AcceptNeedsProxy(x)
           \/ AddWait \/ HandleFreeProxyConnReq
           \/ HandleShutdownPublicConn \/ HandleShutdownLocalConn
  <2>1. end' = end
    BY <1>6 DEF AcceptOnFree, AcceptNeedsProxy, AddWait, HandleFreeProxyConnReq,
                HandleShutdownPublicConn, HandleShutdownLocalConn, HandleShutdown
  <2> QED BY <1>1, <2>1
<1>7. CASE UNCHANGED vars
  BY <1>1, <1>7 DEF vars
<1> QED
  BY <1>2, <1>3, <1>4, <1>5, <1>6, <1>7 DEF Next

\* When the applications hold a dialogue the tunnel implements Relay: each end hears
\* what its one partner sent, in order and nothing else, however proxy connections
\* are reused, and is told that the partner has closed only after all of it.
THEOREM TunnelRelays ==
  ASSUME Dialogue
  PROVE  Spec => RelaysLikeTcp
<1>1. Init => Relaying!Init
  <2> SUFFICES ASSUME Init PROVE Relaying!Init
    OBVIOUS
  <2>1. \A e \in End : /\ end[e].tran = 0 /\ end[e].closing = FALSE
                       /\ end[e].out = << >> /\ end[e].fin = FALSE
    BY DEF Init
  <2>2. Relaying!End = End
    BY DEF Relaying!End, End
  <2> QED BY <2>1, <2>2 DEF Relaying!Init
<1>2. TypeOK /\ BindingInv /\ SessionInv /\ [Next]_vars => [Relaying!Next]_(Relaying!vars)
  BY NextRelays
<1> QED BY <1>1, <1>2, SessionCorrect, PTL DEF Spec, RelaysLikeTcp, Relaying!Spec
============================================================================

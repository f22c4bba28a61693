------------------------------- MODULE CtlConn ------------------------------
(***************************************************************************)
(* A control connection and the event loop that serves it (lib/ctl_conn,   *)
(* lib/Channel, lib/Epoll, lib/event_loop): when is the loop thread woken  *)
(* up to read what the peer sent and to write what SendMsg queued?         *)
(*                                                                         *)
(* The loop thread runs HandleEvents; any thread may call SendMsg.  Both   *)
(* change events_ of the one Channel and hand it to epoll_ctl, SendMsg     *)
(* under mutex_, the loop without it: each access to events_ is an action. *)
(* A message is a unit of the count unread or inq.  A socket that can be   *)
(* written takes all of the buffer and may then be full until the peer     *)
(* reads.  The descriptor is edge triggered unless "ET" is dropped.        *)
(***************************************************************************)
EXTENDS Integers

CONSTANTS
  Loop,         \* the thread in EventLoop::Loop
  Sender,       \* the other threads that call SendMsg
  None,         \* nobody holds mutex_
  OutCapacity,  \* messages that fit into out_buffer_
  MaxSend,      \* bound: messages a thread sends
  MaxIn         \* bound: messages the peer sends

ASSUME CtlConnAssumption ==
  /\ Loop \notin Sender
  /\ None \notin Sender \cup {Loop}
  /\ OutCapacity \in Nat \ {0}
  /\ MaxSend \in Nat /\ MaxIn \in Nat

VARIABLES
  events, revents, peer_closed,  \* Channel
  in_buffer_empty, unread,       \* CtlConn; unread messages of out_buffer_
  closed,                        \* close_handler_ was called
  mutex, pc,                     \* who holds mutex_; where a thread stands
  reg,                           \* a thread's copy of events_
  sends,                         \* how often a thread called SendMsg
  mask, queued,                  \* kernel: the events asked for, on the ready list
  inq, fin, writable, arrived    \* kernel: the socket; what the peer sent in all

chanVars == <<events, revents, peer_closed>>
connVars == <<in_buffer_empty, unread, closed>>
kernVars == <<mask, queued>>
sockVars == <<inq, fin, writable, arrived>>
vars == <<chanVars, connVars, mutex, pc, reg, sends, kernVars, sockVars>>

Thread == Sender \cup {Loop}
Event == {"ET", "IN", "OUT", "RDHUP"}

----------------------------------------------------------------------------
\* What epoll would report if it were asked for.
Ready ==
  (IF writable THEN {"OUT"} ELSE {})
    \cup (IF inq > 0 \/ fin THEN {"IN"} ELSE {})
    \cup (IF fin THEN {"RDHUP"} ELSE {})

Goto(t, l) == pc' = [pc EXCEPT ![t] = l]

\* Mutated form: the read event is left out.
BaseEventsNoIn == {"ET", "RDHUP"}

\* The events postHandle always asks for.
BaseEvents == {"ET", "IN", "RDHUP"}

\* Mutated form: EPOLLOUT is never asked for again.
NeverUnread == FALSE

\* postHandle also asks for EPOLLOUT.
HasUnread == unread > 0

\* Mutated form: the capacity is not looked at.
AlwaysRoom == TRUE

HasRoom == unread < OutCapacity

\* Mutated form: a hang-up of the peer's sending side goes unnoticed.
NeverHangUp == FALSE

HangUp == "RDHUP" \in revents

\* Mutated form: closes although there may be more to read.
HangUpCloses == peer_closed

\* The peer has closed and everything was read.
DrainedAndClosed == in_buffer_empty /\ peer_closed

----------------------------------------------------------------------------
\* As constructed and added to the poller by Control::Control.
Init ==
  /\ events = Event /\ revents = {} /\ peer_closed = FALSE
  /\ in_buffer_empty = FALSE /\ unread = 0 /\ closed = FALSE
  /\ mutex = None
  /\ pc = [t \in Thread |-> IF t = Loop THEN "wait" ELSE "send"]
  /\ reg = [t \in Thread |-> {}]
  /\ sends = [t \in Thread |-> 0]
  /\ mask = Event /\ queued = TRUE
  /\ inq = 0 /\ fin = FALSE /\ writable = TRUE /\ arrived = 0

----------------------------------------------------------------------------
(***************************************************************************)
(* The loop thread                                                         *)
(***************************************************************************)

\* Epoll::WaitForReadyChannels; a level-triggered descriptor stays listed.
Wait ==
  /\ pc[Loop] = "wait"
  /\ queued
  /\ mask \cap Ready # {}
  /\ revents' = mask \cap Ready
  /\ queued' = ("ET" \notin mask)
  /\ Goto(Loop, "zero")
  /\ UNCHANGED <<events, peer_closed, connVars, mutex, reg, sends, mask, sockVars>>

\* Channel::HandleEvents up to its handlers
BeginHandle ==
  /\ pc[Loop] = "zero"
  /\ events' = {}
  /\ peer_closed' = (peer_closed \/ HangUp)
  /\ Goto(Loop, IF "IN" \in revents THEN "read" ELSE "write")
  /\ UNCHANGED <<revents, connVars, mutex, reg, sends, kernVars, sockVars>>

\* handleRead takes one message; its handler may answer with SendMsg.
ReadMsg ==
  /\ pc[Loop] = "read"
  /\ inq > 0
  /\ inq' = inq - 1
  /\ \/ Goto(Loop, "write")
     \/ sends[Loop] < MaxSend /\ Goto(Loop, "send")
  /\ UNCHANGED <<chanVars, connVars, mutex, reg, sends, kernVars, fin, writable, arrived>>

\* handleRead at the end of the stream
ReadEof ==
  /\ pc[Loop] = "read"
  /\ inq = 0 /\ fin
  /\ in_buffer_empty' = TRUE
  /\ Goto(Loop, "write")
  /\ UNCHANGED <<chanVars, unread, closed, mutex, reg, sends, kernVars, sockVars>>

\* handleWrite, if HandleEvents calls it and there is something to write.  The
\* AddEvents at its end is overwritten by postHandle before anyone can see it.
HandleWrite ==
  /\ pc[Loop] = "write"
  /\ IF "OUT" \in revents /\ ~peer_closed /\ unread > 0
     THEN unread' = 0 /\ writable' \in BOOLEAN
     ELSE UNCHANGED <<unread, writable>>
  /\ Goto(Loop, "post")
  /\ UNCHANGED <<chanVars, in_buffer_empty, closed, mutex, reg, sends, kernVars,
                 inq, fin, arrived>>

\* postHandle calls close_handler_, which takes the Control out of the server's
\* map; a Tunnel still refers to the connection and its descriptor stays polled.
CloseConn ==
  /\ pc[Loop] = "post"
  /\ DrainedAndClosed
  /\ closed' = TRUE
  /\ Goto(Loop, "wait")
  /\ UNCHANGED <<chanVars, in_buffer_empty, unread, mutex, reg, sends, kernVars, sockVars>>

\* postHandle up to its test of the buffer
ResetEvents ==
  /\ pc[Loop] = "post"
  /\ ~DrainedAndClosed
  /\ events' = BaseEvents
  /\ Goto(Loop, "test")
  /\ UNCHANGED <<revents, peer_closed, connVars, mutex, reg, sends, kernVars, sockVars>>

\* postHandle: is there something to write?
TestUnread ==
  /\ pc[Loop] = "test"
  /\ Goto(Loop, IF HasUnread THEN "add" ELSE "get")
  /\ UNCHANGED <<chanVars, connVars, mutex, reg, sends, kernVars, sockVars>>

----------------------------------------------------------------------------
(***************************************************************************)
(* SendMsg, and AddEvents and UpdateToPoller, which postHandle calls too   *)
(***************************************************************************)

\* Where a thread goes on when SendMsg returns: HandleEvents, or its own work.
AfterSend(t) == IF t = Loop THEN "write" ELSE "send"

\* SendMsg takes the lock and writes to the buffer; a full buffer refuses.
WriteMsg(t) ==
  /\ pc[t] = "send"
  /\ mutex = None
  /\ sends[t] < MaxSend
  /\ sends' = [sends EXCEPT ![t] = @ + 1]
  /\ \/ HasRoom /\ unread' = unread + 1 /\ mutex' = t /\ Goto(t, "add")
     \/ ~HasRoom /\ Goto(t, AfterSend(t)) /\ UNCHANGED <<unread, mutex>>
  /\ UNCHANGED <<chanVars, in_buffer_empty, closed, reg, kernVars, sockVars>>

\* events_ |= EPOLLOUT: the read ...
LoadEvents(t) ==
  /\ pc[t] = "add"
  /\ reg' = [reg EXCEPT ![t] = events \cup {"OUT"}]
  /\ Goto(t, "store")
  /\ UNCHANGED <<chanVars, connVars, mutex, sends, kernVars, sockVars>>

\* ... and the write.
StoreEvents(t) ==
  /\ pc[t] = "store"
  /\ events' = reg[t]
  /\ Goto(t, "get")
  /\ UNCHANGED <<revents, peer_closed, connVars, mutex, reg, sends, kernVars, sockVars>>

\* Epoll::PollMod reads events_ ...
GetEvents(t) ==
  /\ pc[t] = "get"
  /\ reg' = [reg EXCEPT ![t] = events]
  /\ Goto(t, "ctl")
  /\ UNCHANGED <<chanVars, connVars, mutex, sends, kernVars, sockVars>>

\* ... and calls epoll_ctl, which lists the descriptor if it is ready.
EpollCtl(t) ==
  /\ pc[t] = "ctl"
  /\ mask' = reg[t]
  /\ queued' = (queued \/ reg[t] \cap Ready # {})
  /\ \/ mutex = t /\ mutex' = None /\ Goto(t, AfterSend(t))
     \/ mutex # t /\ Goto(t, "wait") /\ UNCHANGED mutex
  /\ UNCHANGED <<chanVars, connVars, reg, sends, sockVars>>

----------------------------------------------------------------------------
(***************************************************************************)
(* The peer                                                                *)
(***************************************************************************)
PeerSends ==
  /\ ~fin
  /\ arrived < MaxIn
  /\ arrived' = arrived + 1
  /\ inq' = inq + 1
  /\ queued' = (queued \/ "IN" \in mask)
  /\ UNCHANGED <<chanVars, connVars, mutex, pc, reg, sends, mask, fin, writable>>

PeerCloses ==
  /\ ~fin
  /\ fin' = TRUE
  /\ queued' = (queued \/ mask \cap {"IN", "RDHUP"} # {})
  /\ UNCHANGED <<chanVars, connVars, mutex, pc, reg, sends, mask, inq, writable, arrived>>

PeerReads ==
  /\ ~writable
  /\ writable' = TRUE
  /\ queued' = (queued \/ "OUT" \in mask)
  /\ UNCHANGED <<chanVars, connVars, mutex, pc, reg, sends, mask, inq, fin, arrived>>

----------------------------------------------------------------------------
SendStep(t) ==
  WriteMsg(t) \/ LoadEvents(t) \/ StoreEvents(t) \/ GetEvents(t) \/ EpollCtl(t)

LoopStep ==
  Wait \/ BeginHandle \/ ReadMsg \/ ReadEof \/ HandleWrite \/ CloseConn
    \/ ResetEvents \/ TestUnread

Next ==
  \/ LoopStep
  \/ \E t \in Thread : SendStep(t)
  \/ PeerSends \/ PeerCloses \/ PeerReads

Spec == Init /\ [][Next]_vars

\* The loop thread and a thread inside SendMsg run on, and the peer reads what
\* it is sent.  Nobody has to call SendMsg, and the peer has to send nothing.
FairSpec ==
  /\ Spec
  /\ WF_vars(LoopStep \/ SendStep(Loop))
  /\ \A t \in Sender : WF_vars(pc[t] # "send" /\ SendStep(t))
  /\ WF_vars(PeerReads)

----------------------------------------------------------------------------
(***************************************************************************)
(* Properties                                                              *)
(***************************************************************************)
TypeOK ==
  /\ events \subseteq Event /\ revents \subseteq Event /\ peer_closed \in BOOLEAN
  /\ in_buffer_empty \in BOOLEAN /\ unread \in 0..OutCapacity /\ closed \in BOOLEAN
  /\ mutex \in Thread \cup {None}
  /\ pc \in [Thread -> {"wait", "zero", "read", "write", "post", "test",
                        "send", "add", "store", "get", "ctl"}]
  /\ reg \in [Thread -> SUBSET Event]
  /\ sends \in [Thread -> 0..MaxSend]
  /\ mask \subseteq Event /\ queued \in BOOLEAN
  /\ inq \in 0..MaxIn /\ fin \in BOOLEAN /\ writable \in BOOLEAN /\ arrived \in inq..MaxIn

\* postHandle calls close_handler_ only when the peer has closed and the last
\* message it sent before was read, whatever other threads do to the events.
ClosedAfterDrained == closed => fin /\ inq = 0

\* The loop thread never goes to sleep deaf: the kernel was asked for input and,
\* if postHandle or SendMsg left something to write, for output, and a descriptor
\* that is ready for what was asked for will be reported.
ArmedAsleep ==
  pc[Loop] = "wait" /\ ~closed =>
    /\ {"ET", "IN", "RDHUP"} \subseteq mask
    /\ unread > 0 => "OUT" \in mask
    /\ mask \cap Ready # {} => queued

\* One message is read per edge-triggered event; all are read nevertheless.
InputIsRead == inq > 0 ~> inq = 0

\* What SendMsg accepted is written to the socket, unless the peer closes.
OutputIsWritten == unread > 0 ~> unread = 0 \/ peer_closed

\* The end of the peer's stream is noticed and reaches close_handler_.
CloseIsNoticed == fin ~> closed
============================================================================

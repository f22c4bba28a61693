--------------------------- MODULE CtlConnProofs ----------------------------
(***************************************************************************)
(* Proofs about CtlConn: types, when close_handler_ may be called, and,    *)
(* for a connection that only the loop thread uses, that the thread never  *)
(* sleeps on an event it should be woken up by.                            *)
(***************************************************************************)
EXTENDS CtlConn, TLAPS

\* Init establishes the types.
LEMMA InitTypes == Init => TypeOK
<1> SUFFICES ASSUME Init PROVE TypeOK
  OBVIOUS
<1>1. /\ pc \in [Thread -> {"wait", "zero", "read", "write", "post", "test",
                           "send", "add", "store", "get", "ctl"}]
      /\ reg \in [Thread -> SUBSET Event]
  BY DEF Init
<1>2. sends \in [Thread -> 0..MaxSend]
  BY CtlConnAssumption DEF Init
<1>3. unread \in 0..OutCapacity /\ inq \in 0..MaxIn /\ arrived \in inq..MaxIn
  BY CtlConnAssumption DEF Init
<1> QED
  BY <1>1, <1>2, <1>3 DEF Init, TypeOK

\* So does every step of the loop thread inside HandleEvents.
LEMMA LoopStepTypes == TypeOK /\ LoopStep => TypeOK'
<1> SUFFICES ASSUME TypeOK, LoopStep PROVE TypeOK'
  OBVIOUS
<1> USE CtlConnAssumption DEF TypeOK, Event, Thread, chanVars, connVars, kernVars, sockVars, Goto
<1>1. CASE Wait
  BY <1>1 DEF Wait
<1>2. CASE BeginHandle
  BY <1>2 DEF BeginHandle, HangUp
<1>3. CASE ReadMsg
  BY <1>3 DEF ReadMsg
<1>4. CASE ReadEof
  BY <1>4 DEF ReadEof
<1>5. CASE HandleWrite
  BY <1>5 DEF HandleWrite
<1>6. CASE CloseConn
  BY <1>6 DEF CloseConn
<1>7. CASE ResetEvents
  BY <1>7 DEF ResetEvents, BaseEvents
<1>8. CASE TestUnread
  BY <1>8 DEF TestUnread
<1> QED
  BY <1>1, <1>2, <1>3, <1>4, <1>5, <1>6, <1>7, <1>8 DEF LoopStep

\* And every step of a thread inside SendMsg or UpdateToPoller.
LEMMA SendStepTypes ==
  ASSUME TypeOK, NEW t \in Thread, SendStep(t) PROVE TypeOK'
<1> USE CtlConnAssumption DEF TypeOK, Event, Thread, chanVars, connVars, kernVars, sockVars, Goto
<1>1. CASE WriteMsg(t)
  BY <1>1 DEF WriteMsg, HasRoom, AfterSend
<1>2. CASE LoadEvents(t)
  BY <1>2 DEF LoadEvents
<1>3. CASE StoreEvents(t)
  BY <1>3 DEF StoreEvents
<1>4. CASE GetEvents(t)
  BY <1>4 DEF GetEvents
<1>5. CASE EpollCtl(t)
  BY <1>5 DEF EpollCtl, AfterSend
<1> QED
  BY <1>1, <1>2, <1>3, <1>4, <1>5, SendStep(t) DEF SendStep

\* The state of a control connection keeps its types, in particular the buffer
\* its capacity, whichever threads call SendMsg.
THEOREM TypeCorrect == Spec => []TypeOK
<1>1. TypeOK /\ [Next]_vars => TypeOK'
  <2> SUFFICES ASSUME TypeOK, [Next]_vars PROVE TypeOK'
    OBVIOUS
  <2>1. CASE LoopStep
    BY <2>1, LoopStepTypes
  <2>2. CASE \E t \in Thread : SendStep(t)
    BY <2>2, SendStepTypes
  <2>3. CASE PeerSends
    BY <2>3, CtlConnAssumption DEF PeerSends, TypeOK, chanVars, connVars
  <2>4. CASE PeerCloses
    BY <2>4 DEF PeerCloses, TypeOK, chanVars, connVars
  <2>5. CASE PeerReads
    BY <2>5 DEF PeerReads, TypeOK, chanVars, connVars
  <2>6. CASE UNCHANGED vars
    BY <2>6 DEF vars, TypeOK, chanVars, connVars, kernVars, sockVars
  <2> QED
    BY <2>1, <2>2, <2>3, <2>4, <2>5, <2>6 DEF Next
<1> QED
  BY <1>1, InitTypes, PTL DEF Spec

----------------------------------------------------------------------------
\* What ClosedAfterDrained rests on: handleRead sets in_buffer_empty_ only at the
\* end of the stream, after which the peer cannot send, and nothing resets it.
DrainInv ==
  /\ in_buffer_empty => fin /\ inq = 0
  /\ closed => in_buffer_empty

\* close_handler_ is called only when the peer has closed and all it sent was
\* read, for any number of threads that call SendMsg.
THEOREM ClosesDrained == Spec => []ClosedAfterDrained
<1>1. Init => DrainInv
  BY DEF Init, DrainInv
<1>2. TypeOK /\ DrainInv /\ [Next]_vars => DrainInv'
  <2> SUFFICES ASSUME TypeOK, DrainInv, [Next]_vars PROVE DrainInv'
    OBVIOUS
  <2> USE DEF DrainInv, chanVars, connVars, kernVars, sockVars
  <2>1. CASE LoopStep
    BY <2>1 DEF LoopStep, Wait, BeginHandle, ReadMsg, ReadEof, HandleWrite, CloseConn,
                DrainedAndClosed, ResetEvents, TestUnread, TypeOK
  <2>2. ASSUME NEW t \in Thread, SendStep(t) PROVE DrainInv'
    BY <2>2 DEF SendStep, WriteMsg, LoadEvents, StoreEvents, GetEvents, EpollCtl
  <2>3. CASE PeerSends \/ PeerCloses \/ PeerReads
    BY <2>3 DEF PeerSends, PeerCloses, PeerReads
  <2>4. CASE UNCHANGED vars
    BY <2>4 DEF vars
  <2> QED
    BY <2>1, <2>2, <2>3, <2>4 DEF Next
<1>3. DrainInv => ClosedAfterDrained
  BY DEF DrainInv, ClosedAfterDrained
<1> QED
  BY <1>1, <1>2, <1>3, TypeCorrect, PTL DEF Spec

----------------------------------------------------------------------------
\* The set of events e will wake the loop thread up for whatever there is to do.
Suffices(e) ==
  /\ {"ET", "IN", "RDHUP"} \subseteq e
  /\ unread > 0 => "OUT" \in e

\* What ArmedAsleep rests on when only the loop thread calls SendMsg.  The thread
\* holds mutex_ only inside SendMsg; in postHandle, where it does not, the events
\* on their way to epoll_ctl suffice.
ArmInv ==
  /\ ArmedAsleep
  /\ mutex \in {None, Loop}
  /\ pc[Loop] \in {"wait", "zero", "read", "write", "post", "test", "send"} => mutex = None
  /\ mutex = None =>
       /\ pc[Loop] \in {"test", "add"} => events = BaseEvents
       /\ pc[Loop] = "store" => Suffices(reg[Loop])
       /\ pc[Loop] = "get" => Suffices(events)
       /\ pc[Loop] = "ctl" => Suffices(reg[Loop])

\* ArmInv is kept by the steps of HandleEvents.
LEMMA LoopStepArms ==
  ASSUME Sender = {}, TypeOK, ArmInv, LoopStep PROVE ArmInv'
<1> USE CtlConnAssumption DEF ArmInv, ArmedAsleep, Suffices, BaseEvents, Ready, TypeOK,
        Event, Thread, chanVars, connVars, kernVars, sockVars, Goto
<1>1. CASE Wait
  BY <1>1 DEF Wait
<1>2. CASE BeginHandle
  BY <1>2 DEF BeginHandle
<1>3. CASE ReadMsg
  BY <1>3 DEF ReadMsg
<1>4. CASE ReadEof
  BY <1>4 DEF ReadEof
<1>5. CASE HandleWrite
  BY <1>5 DEF HandleWrite
<1>6. CASE CloseConn
  BY <1>6 DEF CloseConn
<1>7. CASE ResetEvents
  BY <1>7 DEF ResetEvents
<1>8. CASE TestUnread
  BY <1>8 DEF TestUnread, HasUnread
<1> QED
  BY <1>1, <1>2, <1>3, <1>4, <1>5, <1>6, <1>7, <1>8, LoopStep DEF LoopStep

\* ArmInv is kept by SendMsg and UpdateToPoller in the loop thread.
LEMMA SendStepArms ==
  ASSUME Sender = {}, TypeOK, ArmInv, NEW t \in Thread, SendStep(t) PROVE ArmInv'
<1>0. t = Loop
  BY DEF Thread
<1> USE <1>0, CtlConnAssumption DEF ArmInv, ArmedAsleep, Suffices, BaseEvents, Ready, TypeOK,
        Event, Thread, chanVars, connVars, kernVars, sockVars, Goto
<1>1. CASE WriteMsg(t)
  BY <1>1 DEF WriteMsg, AfterSend
<1>2. CASE LoadEvents(t)
  BY <1>2 DEF LoadEvents
<1>3. CASE StoreEvents(t)
  BY <1>3 DEF StoreEvents
<1>4. CASE GetEvents(t)
  BY <1>4 DEF GetEvents
<1>5. CASE EpollCtl(t)
  BY <1>5 DEF EpollCtl, AfterSend
<1> QED
  BY <1>1, <1>2, <1>3, <1>4, <1>5, SendStep(t) DEF SendStep

\* ArmInv is kept by what the peer does: the kernel lists the descriptor.
LEMMA PeerStepArms ==
  ASSUME TypeOK, ArmInv, PeerSends \/ PeerCloses \/ PeerReads PROVE ArmInv'
<1> USE DEF ArmInv, ArmedAsleep, Suffices, BaseEvents, Ready, TypeOK, chanVars, connVars
<1>1. CASE PeerSends
  BY <1>1 DEF PeerSends
<1>2. CASE PeerCloses
  BY <1>2 DEF PeerCloses
<1>3. CASE PeerReads
  BY <1>3 DEF PeerReads
<1> QED
  BY <1>1, <1>2, <1>3

\* If only the loop thread calls SendMsg, it never sleeps on a control connection
\* for which the kernel was not asked for all that may have to be done.
THEOREM LoopNeverDeaf ==
  ASSUME Sender = {} PROVE Spec => []ArmedAsleep
<1>1. Init => ArmInv
  BY CtlConnAssumption DEF Init, ArmInv, ArmedAsleep, Event, Thread, Ready
<1>2. TypeOK /\ ArmInv /\ [Next]_vars => ArmInv'
  <2> SUFFICES ASSUME TypeOK, ArmInv, [Next]_vars PROVE ArmInv'
    OBVIOUS
  <2>1. CASE UNCHANGED vars
    BY <2>1 DEF vars, ArmInv, ArmedAsleep, Suffices, Ready, chanVars, connVars, kernVars, sockVars
  <2> QED
    BY <2>1, LoopStepArms, SendStepArms, PeerStepArms DEF Next
<1>3. ArmInv => ArmedAsleep
  BY DEF ArmInv
<1> QED
  BY <1>1, <1>2, <1>3, TypeCorrect, PTL DEF Spec
============================================================================

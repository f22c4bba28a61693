------------------------------- MODULE Relay --------------------------------
(***************************************************************************)
(* What CProxy promises the two sides of a connection it forwards: the     *)
(* public client and the local server talk to each other as over one TCP   *)
(* connection.  An end receives what one partner sent, in order and        *)
(* nothing else, and sees the end of the stream only after all of it.      *)
(***************************************************************************)
EXTENDS Naturals, Sequences

CONSTANTS Pub, Loc   \* the public connections and the local ones

VARIABLES
  sent,    \* how many chunks each end has sent
  closed,  \* whether an end has closed its sending direction
  out,     \* what was forwarded to each end: sender and number of each chunk
  fin      \* whether an end was told that its partner has closed

vars == <<sent, closed, out, fin>>

End == Pub \cup Loc

Init ==
  /\ sent = [e \in End |-> 0]
  /\ closed = [e \in End |-> FALSE]
  /\ out = [e \in End |-> << >>]
  /\ fin = [e \in End |-> FALSE]

\* f may be the end that e talks to.
Partner(e, f) ==
  /\ (e \in Pub) # (f \in Pub)
  /\ \A i \in DOMAIN out[e] : out[e][i] = <<f, i>>
  /\ \A i \in DOMAIN out[f] : out[f][i] = <<e, i>>

Send(e) ==
  /\ ~closed[e]
  /\ sent' = [sent EXCEPT ![e] = @ + 1]
  /\ UNCHANGED <<closed, out, fin>>

Close(e) ==
  /\ closed' = [closed EXCEPT ![e] = TRUE]
  /\ UNCHANGED <<sent, out, fin>>

Deliver(e, f) ==
  /\ Partner(e, f)
  /\ ~fin[e]
  /\ Len(out[e]) < sent[f]
  /\ out' = [out EXCEPT ![e] = Append(@, <<f, Len(@) + 1>>)]
  /\ UNCHANGED <<sent, closed, fin>>

Finish(e, f) ==
  /\ Partner(e, f)
  /\ closed[f]
  /\ Len(out[e]) = sent[f]
  /\ fin' = [fin EXCEPT ![e] = TRUE]
  /\ UNCHANGED <<sent, closed, out>>

Next ==
  \/ \E e \in End : Send(e) \/ Close(e)
  \/ \E e, f \in End : Deliver(e, f) \/ Finish(e, f)

Spec == Init /\ [][Next]_vars
============================================================================

------------------------------ MODULE SendChannel ------------------------------
(***************************************************************************)
(* What the send side of a TCP session promises the code that calls it: a  *)
(* first-in first-out channel.  A message that XAsioTCPSession::send has   *)
(* accepted waits its turn and then goes on the wire whole, exactly once,  *)
(* in the order of acceptance; closing the session, or losing the peer,    *)
(* drops messages that were still waiting and does nothing else.           *)
(***************************************************************************)
EXTENDS Naturals, Sequences

CONSTANT Message

VARIABLES
    pending,   \* accepted messages that are not yet on the wire, oldest first
    wire       \* messages the peer can read, oldest first

chanVars == <<pending, wire>>

Init ==
    /\ pending = <<>>
    /\ wire = <<>>

Accept(m) ==
    /\ pending' = Append(pending, m)
    /\ UNCHANGED wire

Transmit ==
    /\ pending # <<>>
    /\ wire' = Append(wire, Head(pending))
    /\ pending' = Tail(pending)

\* A stretch of the waiting messages, from the i-th to the (j-1)-th, is dropped.
Discard ==
    /\ \E i, j \in 1..Len(pending) + 1 :
          /\ i < j
          /\ pending' = SubSeq(pending, 1, i - 1) \o SubSeq(pending, j, Len(pending))
    /\ UNCHANGED wire

Next ==
    \/ \E m \in Message : Accept(m)
    \/ Transmit
    \/ Discard

Spec == Init /\ [][Next]_chanVars
================================================================================

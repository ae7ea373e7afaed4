--------------------------- MODULE SessionRecvProofs ---------------------------
(***************************************************************************)
(* Theorems about SessionRecv, for every set of threads and every bound.   *)
(***************************************************************************)
EXTENDS SessionRecv, SequenceTheorems, TLAPS

(***************************************************************************)
(* Where the threads can be.  TypeOK needs this to be inductive: only a    *)
(* timer thread takes the mutex for the long section of processRead, and   *)
(* the strand has a packet in hand exactly while it is in onRecvCallback.  *)
(***************************************************************************)
Places ==
    /\ \A t \in TimerThreads : pc[t] \in {"idle", "processRead", "clearRead", "restart"}
    /\ \A t \in Callers \cup {Strand} : pc[t] \notin {"processRead", "clearRead", "restart"}

Locked == \A t \in TimerThreads : (pc[t] = "clearRead") <=> (recvLock = t)

Handed == (inHand # 0) <=> (pc[Strand] \in {"push", "handle"})

ControlInv == TypeOK /\ Places /\ Locked /\ Handed

(***************************************************************************)
(* A session whose first read has been asked for satisfies ControlInv.     *)
(***************************************************************************)
LEMMA ControlInit == Init => ControlInv
<1> SUFFICES ASSUME Init PROVE ControlInv
  OBVIOUS
<1>1. recvQueue \in Seq(Packet) /\ completions \in Seq(0..MaxPackets) /\ dispatched \in Seq(Packet)
  BY DEF Init
<1>2. pc \in [Thread -> PC]
  BY DEF Init, PC
<1>3. 0 \in 0..MaxDue /\ 0 \in 0..MaxPackets /\ 1 \in Nat
  BY RecvAssumption
<1>4. TypeOK
  BY <1>1, <1>2, <1>3 DEF Init, TypeOK
<1>5. Strand \in Thread /\ TimerThreads \subseteq Thread /\ Callers \subseteq Thread
  BY DEF Thread
<1>6. Places /\ Locked /\ Handed
  BY <1>5, RecvAssumption DEF Init, Places, Locked, Handed
<1> QED BY <1>4, <1>6 DEF ControlInv

(***************************************************************************)
(* A thread that is neither a timer thread nor about to leave or enter     *)
(* onRecvCallback moves without touching what ControlInv says of places.   *)
(***************************************************************************)
LEMMA Elsewhere ==
    ASSUME ControlInv, NEW t \in Callers \cup {Strand}, NEW p \in PC, NEW q \in PC,
           Goto(t, p, q), UNCHANGED <<recvLock, inHand>>,
           {p, q} \cap {"processRead", "clearRead", "restart", "push", "handle"} = {}
    PROVE  pc' \in [Thread -> PC] /\ Places' /\ Locked' /\ Handed'
<1>1. pc \in [Thread -> PC] /\ t \in Thread /\ t \notin TimerThreads
  BY RecvAssumption DEF ControlInv, TypeOK, Thread
<1>2. pc' = [pc EXCEPT ![t] = q] /\ pc[t] = p
  BY DEF Goto
<1>3. pc' \in [Thread -> PC]
  BY <1>1, <1>2
<1>4. Strand \in Thread /\ TimerThreads \subseteq Thread /\ Callers \subseteq Thread
  BY DEF Thread
<1>5. Places' /\ Locked' /\ Handed'
  BY <1>1, <1>2, <1>4 DEF ControlInv, Places, Locked, Handed
<1> QED BY <1>3, <1>5

(***************************************************************************)
(* The same of a timer thread that stays out of the long section.          *)
(***************************************************************************)
LEMMA TimerMoves ==
    ASSUME ControlInv, NEW t \in TimerThreads, NEW p \in PC, NEW q \in PC,
           Goto(t, p, q), UNCHANGED <<recvLock, inHand>>,
           {p, q} \subseteq {"idle", "processRead", "restart"}
    PROVE  pc' \in [Thread -> PC] /\ Places' /\ Locked' /\ Handed'
<1>1. pc \in [Thread -> PC] /\ t \in Thread /\ t \notin Callers \cup {Strand}
  BY RecvAssumption DEF ControlInv, TypeOK, Thread
<1>2. pc' = [pc EXCEPT ![t] = q] /\ pc[t] = p
  BY DEF Goto
<1>3. pc' \in [Thread -> PC]
  BY <1>1, <1>2
<1>4. Strand \in Thread /\ TimerThreads \subseteq Thread /\ Callers \subseteq Thread
  BY DEF Thread
<1>5. Places' /\ Locked' /\ Handed'
  BY <1>1, <1>2, <1>4 DEF ControlInv, Places, Locked, Handed
<1> QED BY <1>3, <1>5

(***************************************************************************)
(* Every step preserves ControlInv: one case for each action.              *)
(***************************************************************************)
LEMMA ControlStep ==
    ASSUME ControlInv, [Next]_vars
    PROVE  ControlInv'
<1>0. /\ TypeOK
      /\ Strand \in Thread /\ TimerThreads \subseteq Thread
      /\ Thread = Callers \cup {Strand} \cup TimerThreads
      /\ Strand \notin TimerThreads /\ Strand \notin Callers /\ Callers \cap TimerThreads = {}
      /\ MaxPackets \in Nat
  BY RecvAssumption DEF ControlInv, Thread
<1>1. CASE Arrive
  <2>1. received + 1 \in 0..MaxPackets /\ reads' \in Nat
    BY <1>0, <1>1 DEF Arrive, TypeOK
  <2>2. completions' \in Seq(0..MaxPackets)
    BY <1>0, <1>1, <2>1 DEF Arrive, TypeOK
  <2> QED BY <1>0, <1>1, <2>1, <2>2
      DEF Arrive, control, link, history, ControlInv, TypeOK, Places, Locked, Handed
<1>2. CASE FailRead
  <2>1. completions' \in Seq(0..MaxPackets) /\ reads' \in Nat
    BY <1>0, <1>2 DEF FailRead, TypeOK
  <2> QED BY <1>0, <1>2, <2>1
      DEF FailRead, control, link, history, ControlInv, TypeOK, Places, Locked, Handed
<1>3. CASE PeerLost
  BY <1>3 DEF PeerLost, control, reading, history, ControlInv, TypeOK, Places, Locked, Handed
<1>4. CASE onRecvCallback
  <2>1. Head(completions) \in 0..MaxPackets /\ completions' \in Seq(0..MaxPackets)
    BY <1>0, <1>4 DEF onRecvCallback, TypeOK
  <2>2. \E q \in {"idle", "closeSocket", "clear", "push", "handle"} :
          /\ pc[Strand] = "idle" /\ pc' = [pc EXCEPT ![Strand] = q]
          /\ (Head(completions) # 0) <=> (q \in {"push", "handle"})
    BY <1>4, Zenon DEF onRecvCallback, Goto, CloseEntry
  <2>3. pc' \in [Thread -> PC] /\ Places' /\ Locked' /\ Handed'
    <3>1. PICK q \in {"idle", "closeSocket", "clear", "push", "handle"} :
            /\ pc[Strand] = "idle" /\ pc' = [pc EXCEPT ![Strand] = q]
            /\ (Head(completions) # 0) <=> (q \in {"push", "handle"})
      BY <2>2
    <3>2. q \in PC
      BY DEF PC
    <3>3. inHand' = Head(completions) /\ recvLock' = recvLock
      BY <1>4 DEF onRecvCallback
    <3> QED BY <1>0, <3>1, <3>2, <3>3 DEF ControlInv, TypeOK, Places, Locked, Handed
  <2> QED BY <1>0, <1>4, <2>1, <2>3
      DEF onRecvCallback, control, link, history, ControlInv, TypeOK
<1>5. CASE Push
  <2>1. inHand \in Packet /\ pc' = [pc EXCEPT ![Strand] = "idle"] /\ inHand' = 0
        /\ pc[Strand] = "push"
    BY <1>0, <1>5 DEF Push, Goto, ControlInv, Handed, TypeOK, Packet
  <2>2. recvQueue' \in Seq(Packet)
    BY <1>0, <1>5, <2>1 DEF Push, TypeOK
  <2>3. pc' \in [Thread -> PC] /\ Places' /\ Locked' /\ Handed'
    BY <1>0, <1>5, <2>1 DEF Push, ControlInv, TypeOK, Places, Locked, Handed, PC
  <2> QED BY <1>0, <1>5, <2>1, <2>2, <2>3
      DEF Push, control, reading, link, history, ControlInv, TypeOK
<1>6. CASE Handle
  <2>1. inHand \in Packet /\ pc' = [pc EXCEPT ![Strand] = "idle"] /\ inHand' = 0
        /\ pc[Strand] = "handle"
    BY <1>0, <1>6 DEF Handle, Goto, ControlInv, Handed, TypeOK, Packet
  <2>2. <<inHand>> \in Seq(Packet) /\ Len(<<inHand>>) = 1
    BY <2>1
  <2>3. dispatched' \in Seq(Packet) /\ reads' \in Nat
    BY <1>0, <1>6, <2>2 DEF Handle, RecvHandler, TypeOK
  <2>4. pc' \in [Thread -> PC] /\ Places' /\ Locked' /\ Handed'
    BY <1>0, <1>6, <2>1 DEF Handle, ControlInv, TypeOK, Places, Locked, Handed, PC
  <2> QED BY <1>0, <1>6, <2>1, <2>3, <2>4
      DEF Handle, control, link, ControlInv, TypeOK
<1>7. CASE Expire
  <2>1. due' \in 0..MaxDue
    BY <1>0, <1>7, RecvAssumption DEF Expire, TypeOK
  <2> QED BY <1>7, <2>1
      DEF Expire, reading, link, history, ControlInv, TypeOK, Places, Locked, Handed
<1>8. ASSUME NEW t \in Thread, Suspend(t) PROVE ControlInv'
  BY <1>8 DEF Suspend, reading, link, history, ControlInv, TypeOK, Places, Locked, Handed
<1>9. ASSUME NEW t \in Thread, Resume(t) PROVE ControlInv'
  <2>1. pc' \in [Thread -> PC] /\ Places' /\ Locked' /\ Handed'
    BY <1>9, Elsewhere, RecvAssumption DEF Resume, PC
  <2> QED BY <1>9, <2>1 DEF Resume, reading, link, history, ControlInv, TypeOK
<1>10. ASSUME NEW t \in Thread, ReadBack(t) PROVE ControlInv'
  <2>1. t \in Callers \cup {Strand}
    BY <1>0, <1>10 DEF ReadBack, Goto, ControlInv, Places
  <2>2. pc' \in [Thread -> PC] /\ Places' /\ Locked' /\ Handed'
    BY <1>10, <2>1, Elsewhere DEF ReadBack, PC
  <2> QED BY <1>10, <2>2 DEF ReadBack, control, reading, link, history, ControlInv, TypeOK
<1>11. ASSUME NEW t \in Thread, SetTimer(t) PROVE ControlInv'
  <2>1. t \in Callers \cup {Strand}
    BY <1>0, <1>11 DEF SetTimer, StartTimer, Goto, ControlInv, Places
  <2>2. pc' \in [Thread -> PC] /\ Places' /\ Locked' /\ Handed'
    BY <1>11, <2>1, Elsewhere DEF SetTimer, StartTimer, PC
  <2> QED BY <1>11, <2>2 DEF SetTimer, StartTimer, reading, link, history, ControlInv, TypeOK
<1>12. ASSUME NEW t \in Thread, onTimerHandler(t) PROVE ControlInv'
  <2>1. pc' \in [Thread -> PC] /\ Places' /\ Locked' /\ Handed'
    BY <1>12, TimerMoves DEF onTimerHandler, PC
  <2>2. due' \in 0..MaxDue
    BY <1>0, <1>12, RecvAssumption DEF onTimerHandler, TypeOK
  <2> QED BY <1>12, <2>1, <2>2
      DEF onTimerHandler, reading, link, history, ControlInv, TypeOK
<1>13. ASSUME NEW t \in Thread, NothingQueued(t) PROVE ControlInv'
  <2>1. t \in TimerThreads
    BY <1>0, <1>13 DEF NothingQueued, Goto, ControlInv, Places
  <2>2. pc' \in [Thread -> PC] /\ Places' /\ Locked' /\ Handed'
    BY <1>13, <2>1, TimerMoves DEF NothingQueued, PC
  <2> QED BY <1>13, <2>2 DEF NothingQueued, control, reading, link, history, ControlInv, TypeOK
<1>14. ASSUME NEW t \in Thread, DispatchQueue(t) PROVE ControlInv'
  <2>1. t \in TimerThreads /\ pc' = [pc EXCEPT ![t] = "clearRead"] /\ recvLock' = t
        /\ recvLock = Free
    BY <1>0, <1>14 DEF DispatchQueue, Goto, ControlInv, Places
  <2>2. pc' \in [Thread -> PC] /\ Places' /\ Locked' /\ Handed'
    BY <1>0, <1>14, <2>1, RecvAssumption
    DEF DispatchQueue, ControlInv, TypeOK, Places, Locked, Handed, PC
  <2>3. dispatched' \in Seq(Packet) /\ reads' \in Nat
    BY <1>0, <1>14 DEF DispatchQueue, RecvHandler, TypeOK
  <2> QED BY <1>14, <2>1, <2>2, <2>3 DEF DispatchQueue, control, link, ControlInv, TypeOK
<1>15. ASSUME NEW t \in Thread, ClearRead(t) PROVE ControlInv'
  <2>1. t \in TimerThreads /\ pc' = [pc EXCEPT ![t] = "restart"] /\ recvLock' = Free
        /\ recvLock = t
    BY <1>0, <1>15 DEF ClearRead, Goto, ControlInv, Places, Locked
  <2>2. pc' \in [Thread -> PC] /\ Places' /\ Locked' /\ Handed'
    BY <1>0, <1>15, <2>1, RecvAssumption
    DEF ClearRead, ControlInv, TypeOK, Places, Locked, Handed, PC
  <2>3. recvQueue' \in Seq(Packet)
    BY <1>15 DEF ClearRead
  <2> QED BY <1>15, <2>1, <2>2, <2>3
      DEF ClearRead, control, reading, link, history, ControlInv, TypeOK
<1>16. ASSUME NEW t \in Thread, Restart(t) PROVE ControlInv'
  <2>1. t \in TimerThreads
    BY <1>0, <1>16 DEF Restart, StartTimer, Goto, ControlInv, Places
  <2>2. pc' \in [Thread -> PC] /\ Places' /\ Locked' /\ Handed'
    BY <1>16, <2>1, TimerMoves DEF Restart, StartTimer, PC
  <2> QED BY <1>16, <2>2 DEF Restart, StartTimer, reading, link, history, ControlInv, TypeOK
<1>17. ASSUME NEW t \in Thread, Close(t) PROVE ControlInv'
  <2>1. CloseEntry \in PC
        /\ CloseEntry \notin {"processRead", "clearRead", "restart", "push", "handle"}
    BY DEF CloseEntry, PC
  <2>2. pc' \in [Thread -> PC] /\ Places' /\ Locked' /\ Handed'
    BY <1>17, <2>1, Elsewhere, RecvAssumption DEF Close, PC
  <2> QED BY <1>17, <2>2 DEF Close, control, reading, link, history, ControlInv, TypeOK
<1>18. ASSUME NEW t \in Thread, CloseSocket(t) PROVE ControlInv'
  <2>1. t \in Callers \cup {Strand}
    BY <1>0, <1>18 DEF CloseSocket, Goto, ControlInv, Places
  <2>2. pc' \in [Thread -> PC] /\ Places' /\ Locked' /\ Handed'
    BY <1>18, <2>1, Elsewhere DEF CloseSocket, PC
  <2> QED BY <1>18, <2>2 DEF CloseSocket, control, reading, history, ControlInv, TypeOK
<1>19. ASSUME NEW t \in Thread, ClearQueue(t) PROVE ControlInv'
  <2>1. t \in Callers \cup {Strand}
    BY <1>0, <1>19 DEF ClearQueue, Goto, ControlInv, Places
  <2>2. pc' \in [Thread -> PC] /\ Places' /\ Locked' /\ Handed'
    BY <1>19, <2>1, Elsewhere DEF ClearQueue, PC
  <2>3. Elements(recvQueue) \subseteq Packet
    BY <1>0 DEF TypeOK, Elements
  <2>4. recvQueue' \in Seq(Packet) /\ dropped' \subseteq Packet
    BY <1>0, <1>19, <2>3 DEF ClearQueue, TypeOK
  <2> QED BY <1>19, <2>2, <2>4 DEF ClearQueue, control, reading, link, ControlInv, TypeOK
<1>20. CASE UNCHANGED vars
  BY <1>20 DEF vars, control, reading, link, history, ControlInv, TypeOK, Places, Locked, Handed
<1> QED
  BY <1>1, <1>2, <1>3, <1>4, <1>5, <1>6, <1>7, <1>8, <1>9, <1>10, <1>11, <1>12, <1>13,
     <1>14, <1>15, <1>16, <1>17, <1>18, <1>19, <1>20
  DEF Next, StrandStep, Progress

(***************************************************************************)
(* Types.  In every behaviour of the receive side the variables keep their *)
(* types; in particular only timer threads hold the mutex between steps.   *)
(***************************************************************************)
THEOREM RecvTypeCorrect == Spec => []TypeOK
<1>1. ControlInv /\ [Next]_vars => ControlInv'
  BY ControlStep
<1>2. ControlInv => TypeOK
  BY DEF ControlInv
<1> QED BY ControlInit, <1>1, <1>2, PTL DEF Spec

(***************************************************************************)
(* One read at a time.  There is one token: the read that is outstanding,  *)
(* its completion, the packet in hand or the packet held back.  It is      *)
(* given to a timer thread by DispatchQueue, which begins the next read    *)
(* while the queue, already handed over, is still to be cleared.           *)
(***************************************************************************)
Waits == IF recvLock = Free THEN Len(recvQueue) ELSE 0
InHand == IF inHand = 0 THEN 0 ELSE 1

OneInv == ControlInv /\ reads + Len(completions) + Waits + InHand <= 1

(***************************************************************************)
(* The property looks for a thread in the long section, the invariant at   *)
(* the mutex: the same thing.                                              *)
(***************************************************************************)
LEMMA OneReadFollows == OneInv => OneReadAtATime
<1> SUFFICES ASSUME OneInv PROVE OneReadAtATime
  OBVIOUS
<1>1. (\E t \in TimerThreads : pc[t] = "clearRead") <=> recvLock # Free
  BY RecvAssumption DEF OneInv, ControlInv, Locked, TypeOK, Thread
<1>2. Waiting = Waits
  BY <1>1 DEF Waiting, Waits
<1> QED BY <1>2 DEF OneInv, OneReadAtATime, InHand

(***************************************************************************)
(* Every step hands the token on: one case for each action that can.       *)
(***************************************************************************)
LEMMA OneStep ==
    ASSUME OneInv, [Next]_vars
    PROVE  OneInv'
<1> DEFINE Token == reads + Len(completions) + Waits + InHand
<1>0. /\ ControlInv /\ ControlInv' /\ TypeOK /\ Token <= 1
      /\ reads \in Nat /\ Len(completions) \in Nat /\ Waits \in Nat /\ InHand \in Nat
      /\ Len(recvQueue) \in Nat
  <2>1. ControlInv /\ TypeOK /\ Token <= 1
    BY DEF OneInv, ControlInv
  <2>2. ControlInv'
    BY <2>1, ControlStep
  <2>3. Len(recvQueue) \in Nat /\ Len(completions) \in Nat /\ reads \in Nat
    BY <2>1 DEF TypeOK
  <2>4. Waits \in Nat /\ InHand \in Nat
    BY <2>3 DEF Waits, InHand
  <2> QED BY <2>1, <2>2, <2>3, <2>4
<1> SUFFICES Token' <= 1
  BY <1>0 DEF OneInv
<1>1. CASE Arrive
  <2>1. Len(completions') = Len(completions) + 1 /\ reads' = reads - 1
    BY <1>0, <1>1 DEF Arrive, TypeOK
  <2>2. Waits' = Waits /\ InHand' = InHand
    BY <1>1 DEF Arrive, Waits, InHand
  <2> QED BY <1>0, <2>1, <2>2
<1>2. CASE FailRead
  <2>1. Len(completions') = Len(completions) + 1 /\ reads' = reads - 1
    BY <1>0, <1>2 DEF FailRead, TypeOK
  <2>2. Waits' = Waits /\ InHand' = InHand
    BY <1>2 DEF FailRead, Waits, InHand
  <2> QED BY <1>0, <2>1, <2>2
<1>3. CASE onRecvCallback
  <2>1. Len(completions') = Len(completions) - 1 /\ reads' = reads
    BY <1>0, <1>3 DEF onRecvCallback, TypeOK
  <2>2. Waits' = Waits
    BY <1>3 DEF onRecvCallback, Waits
  <2>3. InHand' <= 1 /\ InHand' \in Nat /\ InHand = 0
    BY <1>0, <1>3 DEF onRecvCallback, InHand, ControlInv, Handed, Goto
  <2> QED BY <1>0, <2>1, <2>2, <2>3
<1>4. CASE Push
  <2>1. InHand = 1 /\ InHand' = 0
    BY <1>0, <1>4 DEF Push, InHand, ControlInv, Handed, Goto
  <2>2. Waits = Len(recvQueue) /\ Waits' = Len(recvQueue) + 1
    BY <1>0, <1>4 DEF Push, Waits, TypeOK
  <2>3. UNCHANGED <<reads, completions>>
    BY <1>4 DEF Push, reading
  <2> QED BY <1>0, <2>1, <2>2, <2>3
<1>5. CASE Handle
  <2>1. InHand = 1 /\ InHand' = 0 /\ Len(<<inHand>>) = 1
    BY <1>0, <1>5 DEF Handle, InHand, ControlInv, Handed, Goto
  <2>2. reads' \in {reads, reads + 1} /\ Waits' = Waits /\ UNCHANGED completions
    BY <2>1, <1>5 DEF Handle, RecvHandler, Waits, control
  <2> QED BY <1>0, <2>1, <2>2
<1>6. ASSUME NEW t \in Thread, DispatchQueue(t) PROVE Token' <= 1
  <2>1. Waits = Len(recvQueue) /\ Waits' = 0
    <3>1. t # Free
      BY RecvAssumption
    <3> QED BY <1>6, <3>1 DEF DispatchQueue, Waits
  <2>2. reads' \in {reads, reads + Len(recvQueue)} /\ UNCHANGED <<completions, inHand>>
    BY <1>6 DEF DispatchQueue, RecvHandler
  <2> QED BY <1>0, <2>1, <2>2 DEF InHand
<1>7. ASSUME NEW t \in Thread, ClearRead(t) PROVE Token' <= 1
  <2>1. Waits' = 0 /\ UNCHANGED <<reads, completions, inHand>>
    BY <1>7 DEF ClearRead, Waits, reading
  <2> QED BY <1>0, <2>1 DEF InHand
<1>8. ASSUME NEW t \in Thread, ClearQueue(t) PROVE Token' <= 1
  <2>1. Waits' = 0 /\ UNCHANGED <<reads, completions, inHand>>
    BY <1>8 DEF ClearQueue, Waits, reading
  <2> QED BY <1>0, <2>1 DEF InHand
<1>9. CASE UNCHANGED <<reads, completions, recvLock, recvQueue, inHand>>
  BY <1>0, <1>9 DEF Waits, InHand
<1>10. ASSUME NEW t \in Thread,
              \/ Suspend(t) \/ Resume(t) \/ Close(t) \/ onTimerHandler(t) \/ ReadBack(t)
              \/ SetTimer(t) \/ NothingQueued(t) \/ Restart(t) \/ CloseSocket(t)
       PROVE  UNCHANGED <<reads, completions, recvLock, recvQueue, inHand>>
  BY <1>10 DEF Suspend, Resume, Close, onTimerHandler, ReadBack, SetTimer, NothingQueued,
     Restart, StartTimer, CloseSocket, reading
<1>11. ASSUME PeerLost \/ Expire \/ UNCHANGED vars
       PROVE  UNCHANGED <<reads, completions, recvLock, recvQueue, inHand>>
  BY <1>11 DEF PeerLost, Expire, vars, reading
<1> QED
  BY <1>1, <1>2, <1>3, <1>4, <1>5, <1>6, <1>7, <1>8, <1>9, <1>10, <1>11
  DEF Next, StrandStep, Progress

(***************************************************************************)
(* At the start the token is the first read.                               *)
(***************************************************************************)
LEMMA OneInit == Init => OneInv
<1> SUFFICES ASSUME Init PROVE OneInv
  OBVIOUS
<1>1. Waits = 0 /\ InHand = 0 /\ reads = 1 /\ Len(completions) = 0
  BY DEF Init, Waits, InHand
<1> QED BY <1>1, ControlInit DEF OneInv

(***************************************************************************)
(* One read at a time on m_recvBuffer, however many threads suspend,       *)
(* resume and close, and however many handlers of the timer overlap.       *)
(***************************************************************************)
THEOREM OneReadCorrect == Spec => []OneReadAtATime
<1>1. OneInv /\ [Next]_vars => OneInv'
  BY OneStep
<1> QED BY OneInit, <1>1, OneReadFollows, PTL DEF Spec

(***************************************************************************)
(* Order and conservation.  A packet on its way is newer than all that     *)
(* were dispatched; since it is the only one, the next to arrive finds     *)
(* nothing on its way.  While the mutex is held the queue has been handed  *)
(* over already.                                                           *)
(***************************************************************************)
Fresh(p) == p <= received /\ \A i \in DOMAIN dispatched : dispatched[i] < p

Ordered ==
    /\ Increasing(dispatched)
    /\ \A i \in DOMAIN dispatched : dispatched[i] <= received
    /\ recvLock = Free => \A i \in DOMAIN recvQueue : Fresh(recvQueue[i])
    /\ recvLock # Free => Elements(recvQueue) \subseteq Elements(dispatched)
    /\ inHand # 0 => Fresh(inHand)
    /\ \A i \in DOMAIN completions : completions[i] # 0 => Fresh(completions[i])

FlowInv == OneInv /\ Ordered /\ NothingLost

(***************************************************************************)
(* The elements of a sequence when one is appended, when the head is taken *)
(* off, and of a sequence of one.                                          *)
(***************************************************************************)
LEMMA ElementsAppended ==
    ASSUME NEW S, NEW s \in Seq(S), NEW x \in S
    PROVE  Elements(Append(s, x)) = Elements(s) \cup {x}
<1>1. /\ DOMAIN s = 1..Len(s) /\ DOMAIN Append(s, x) = 1..(Len(s) + 1)
      /\ Len(s) \in Nat
      /\ \A i \in 1..Len(s) : Append(s, x)[i] = s[i]
      /\ Append(s, x)[Len(s) + 1] = x
  OBVIOUS
<1>2. 1..(Len(s) + 1) = 1..Len(s) \cup {Len(s) + 1}
  BY <1>1
<1> QED BY <1>1, <1>2, Zenon DEF Elements

LEMMA ElementsOfOne ==
    ASSUME NEW S, NEW s \in Seq(S), Len(s) = 1
    PROVE  s = <<s[1]>> /\ s[1] \in S /\ Elements(s) = {s[1]} /\ DOMAIN s = {1}
<1>1. DOMAIN s = {1} /\ s[1] \in S
  OBVIOUS
<1>2. s = <<s[1]>>
  OBVIOUS
<1> QED BY <1>1, <1>2 DEF Elements

(***************************************************************************)
(* Handing one packet to the receive handler, newer than all before it,    *)
(* keeps the order of what was dispatched and adds that packet to it.      *)
(***************************************************************************)
LEMMA HandOver ==
    ASSUME TypeOK, NEW p \in Packet, Fresh(p), Increasing(dispatched),
           dispatched' = dispatched \o <<p>>
    PROVE  /\ Increasing(dispatched')
           /\ Elements(dispatched') = Elements(dispatched) \cup {p}
           /\ DOMAIN dispatched' = DOMAIN dispatched \cup {Len(dispatched) + 1}
           /\ \A i \in DOMAIN dispatched : dispatched'[i] = dispatched[i]
           /\ dispatched'[Len(dispatched) + 1] = p
<1>1. dispatched \in Seq(Packet) /\ dispatched' = Append(dispatched, p)
  BY DEF TypeOK
<1>2. Elements(dispatched') = Elements(dispatched) \cup {p}
  <2>1. Elements(Append(dispatched, p)) = Elements(dispatched) \cup {p}
    BY <1>1, ElementsAppended
  <2> QED BY <1>1, <2>1 DEF Elements
<1>3. /\ DOMAIN dispatched = 1..Len(dispatched) /\ Len(dispatched) \in Nat
      /\ DOMAIN dispatched' = 1..(Len(dispatched) + 1)
      /\ \A i \in 1..Len(dispatched) : dispatched'[i] = dispatched[i]
      /\ dispatched'[Len(dispatched) + 1] = p
  BY <1>1
<1>4. DOMAIN dispatched' = DOMAIN dispatched \cup {Len(dispatched) + 1}
  BY <1>3
<1>5. Increasing(dispatched')
  <2> SUFFICES ASSUME NEW i \in DOMAIN dispatched', NEW j \in DOMAIN dispatched', i < j
               PROVE  dispatched'[i] < dispatched'[j]
    BY DEF Increasing
  <2>1. i \in DOMAIN dispatched
    BY <1>3
  <2>2. CASE j \in DOMAIN dispatched
    BY <1>3, <2>1, <2>2 DEF Increasing
  <2>3. CASE j = Len(dispatched) + 1
    BY <1>3, <2>1, <2>3 DEF Fresh
  <2> QED BY <1>4, <2>2, <2>3
<1> QED BY <1>2, <1>3, <1>4, <1>5

(***************************************************************************)
(* At the start nothing has arrived.                                       *)
(***************************************************************************)
LEMMA FlowInit == Init => FlowInv
<1> SUFFICES ASSUME Init PROVE FlowInv
  OBVIOUS
<1>1. /\ DOMAIN dispatched = {} /\ DOMAIN recvQueue = {} /\ DOMAIN completions = {}
      /\ inHand = 0 /\ received = 0 /\ dropped = {} /\ recvLock = Free
  BY DEF Init
<1>2. /\ Elements(dispatched) = {} /\ Elements(recvQueue) = {} /\ Elements(completions) = {}
      /\ 1..received = {}
  BY <1>1 DEF Elements
<1> QED BY <1>1, <1>2, OneInit DEF FlowInv, Ordered, NothingLost, Increasing

(***************************************************************************)
(* Every step keeps order and conservation: one case for each action that  *)
(* moves a packet.                                                         *)
(***************************************************************************)
LEMMA FlowStep ==
    ASSUME FlowInv, [Next]_vars
    PROVE  FlowInv'
<1>0. /\ OneInv /\ OneInv' /\ ControlInv /\ TypeOK /\ TypeOK' /\ Ordered /\ NothingLost
      /\ reads \in Nat /\ Len(completions) \in Nat /\ Len(recvQueue) \in Nat
      /\ received \in Nat /\ MaxPackets \in Nat
  <2>1. OneInv /\ OneInv' /\ ControlInv /\ TypeOK /\ TypeOK' /\ Ordered /\ NothingLost
    BY OneStep DEF FlowInv, OneInv, ControlInv
  <2>2. reads \in Nat /\ Len(completions) \in Nat /\ Len(recvQueue) \in Nat
    BY <2>1 DEF TypeOK
  <2>3. received \in Nat /\ MaxPackets \in Nat
    BY <2>1, RecvAssumption DEF TypeOK
  <2> QED BY <2>1, <2>2, <2>3
<1>1. reads + Len(completions) + Waits + InHand <= 1 /\ Waits \in Nat /\ InHand \in Nat
  BY <1>0 DEF OneInv, Waits, InHand
<1> SUFFICES Ordered' /\ NothingLost'
  BY <1>0 DEF FlowInv
<1>2. CASE Arrive
  <2>1. Len(completions) = 0 /\ Waits = 0 /\ InHand = 0
    BY <1>0, <1>1, <1>2 DEF Arrive
  <2>2. /\ completions = <<>> /\ completions' = <<received + 1>>
        /\ received' = received + 1
        /\ UNCHANGED <<recvQueue, recvLock, inHand, dispatched, dropped>>
    BY <1>0, <1>2, <2>1 DEF Arrive, TypeOK, history
  <2>3. inHand = 0 /\ (recvLock = Free => DOMAIN recvQueue = {})
    BY <1>0, <2>1 DEF InHand, Waits, TypeOK
  <2>4. \A i \in DOMAIN dispatched : dispatched[i] \in Nat /\ dispatched[i] <= received
    <3>1. \A i \in DOMAIN dispatched : dispatched[i] \in Packet
      BY <1>0 DEF TypeOK
    <3> QED BY <1>0, <3>1 DEF Ordered, Packet
  <2>5. /\ DOMAIN completions' = {1} /\ completions'[1] = received + 1
        /\ Elements(completions') = {received + 1} /\ Elements(completions) = {}
    BY <2>2 DEF Elements
  <2>6. Ordered'
    <3>1. Fresh(completions[1])'
      BY <1>0, <2>2, <2>4, <2>5 DEF Fresh
    <3>2. \A i \in DOMAIN dispatched' : dispatched'[i] <= received'
      BY <1>0, <2>2, <2>4
    <3> QED BY <1>0, <2>2, <2>3, <2>5, <3>1, <3>2 DEF Ordered
  <2>7. 1..(received + 1) = 1..received \cup {received + 1} /\ received + 1 # 0
    BY <1>0
  <2>8. NothingLost'
    BY <1>0, <2>2, <2>5, <2>7 DEF NothingLost
  <2> QED BY <2>6, <2>8
<1>3. CASE FailRead
  <2>1. completions' = Append(completions, 0)
        /\ UNCHANGED <<recvQueue, recvLock, inHand, dispatched, dropped, received>>
    BY <1>3 DEF FailRead, history
  <2>2. Len(completions) = 0
    BY <1>0, <1>1, <1>3 DEF FailRead
  <2>3. completions = <<>> /\ completions' = <<0>>
    BY <1>0, <2>1, <2>2 DEF TypeOK
  <2>4. DOMAIN completions' = {1} /\ completions'[1] = 0
        /\ Elements(completions') = {0} /\ Elements(completions) = {}
    BY <2>3 DEF Elements
  <2>5. Ordered'
    BY <1>0, <2>1, <2>4 DEF Ordered, Fresh
  <2>6. NothingLost'
    BY <1>0, <2>1, <2>4 DEF NothingLost
  <2> QED BY <2>5, <2>6
<1>4. CASE onRecvCallback
  <2>1. Len(completions) = 1 /\ InHand = 0
    <3>1. Len(completions) # 0
      BY <1>0, <1>4 DEF onRecvCallback, TypeOK
    <3>2. InHand = 0
      BY <1>0, <1>4 DEF onRecvCallback, ControlInv, Handed, Goto, InHand
    <3>3. Len(completions) <= 1
      BY <1>0, <1>1, <3>2
    <3>4. \A n \in Nat : n # 0 /\ n <= 1 => n = 1
      OBVIOUS
    <3> QED BY <1>0, <3>1, <3>2, <3>3, <3>4, Zenon
  <2>2. completions = <<completions[1]>> /\ Elements(completions) = {completions[1]}
        /\ DOMAIN completions = {1}
    BY <1>0, <2>1, ElementsOfOne DEF TypeOK
  <2>3. /\ completions' = <<>> /\ inHand' = completions[1] /\ inHand = 0
        /\ UNCHANGED <<recvQueue, recvLock, dispatched, dropped, received>>
    BY <1>4, <2>1, <2>2 DEF onRecvCallback, history, InHand
  <2>4. DOMAIN completions' = {} /\ Elements(completions') = {}
    BY <2>3 DEF Elements
  <2>5. Ordered'
    BY <1>0, <2>2, <2>3, <2>4 DEF Ordered, Fresh
  <2>6. NothingLost'
    BY <1>0, <2>2, <2>3, <2>4 DEF NothingLost
  <2> QED BY <2>5, <2>6
<1>5. CASE Push
  <2>1. /\ inHand # 0 /\ inHand' = 0 /\ recvLock = Free
        /\ recvQueue' = Append(recvQueue, inHand)
        /\ UNCHANGED <<recvLock, completions, dispatched, dropped, received>>
    BY <1>0, <1>5 DEF Push, ControlInv, Handed, Goto, reading, history
  <2>2. Len(recvQueue) = 0
    BY <1>0, <1>1, <2>1 DEF Waits, InHand
  <2>3. recvQueue = <<>> /\ recvQueue' = <<inHand>>
    BY <1>0, <2>1, <2>2 DEF TypeOK
  <2>4. DOMAIN recvQueue' = {1} /\ recvQueue'[1] = inHand
        /\ Elements(recvQueue') = {inHand} /\ Elements(recvQueue) = {}
    BY <2>3 DEF Elements
  <2>5. Ordered'
    BY <1>0, <2>1, <2>4 DEF Ordered, Fresh
  <2>6. NothingLost'
    BY <1>0, <2>1, <2>4 DEF NothingLost
  <2> QED BY <2>5, <2>6
<1>6. CASE Handle
  <2>1. /\ inHand # 0 /\ inHand' = 0 /\ dispatched' = dispatched \o <<inHand>>
        /\ UNCHANGED <<recvLock, recvQueue, completions, dropped, received>>
    BY <1>0, <1>6 DEF Handle, RecvHandler, ControlInv, Handed, Goto
  <2>2. inHand \in Packet /\ Fresh(inHand) /\ Increasing(dispatched)
    BY <1>0, <2>1 DEF TypeOK, Packet, Ordered
  <2>3. /\ Increasing(dispatched')
        /\ Elements(dispatched') = Elements(dispatched) \cup {inHand}
        /\ DOMAIN dispatched' = DOMAIN dispatched \cup {Len(dispatched) + 1}
        /\ \A i \in DOMAIN dispatched : dispatched'[i] = dispatched[i]
        /\ dispatched'[Len(dispatched) + 1] = inHand
    BY <1>0, <2>1, <2>2, HandOver
  <2>4. InHand = 1 /\ Len(completions) = 0 /\ Waits = 0
    BY <1>0, <1>1, <2>1 DEF InHand
  <2>5. DOMAIN completions = {} /\ (recvLock = Free => DOMAIN recvQueue = {})
    BY <1>0, <2>4 DEF TypeOK, Waits
  <2>6. \A i \in DOMAIN dispatched' : dispatched'[i] <= received'
    BY <1>0, <2>1, <2>2, <2>3 DEF Ordered, Fresh
  <2>7. Ordered'
    BY <1>0, <2>1, <2>3, <2>5, <2>6 DEF Ordered
  <2>8. NothingLost'
    BY <1>0, <2>1, <2>3 DEF NothingLost
  <2> QED BY <2>7, <2>8
<1>7. ASSUME NEW t \in Thread, DispatchQueue(t) PROVE Ordered' /\ NothingLost'
  <2>1. /\ recvLock = Free /\ recvLock' # Free /\ dispatched' = dispatched \o recvQueue
        /\ UNCHANGED <<recvQueue, completions, dropped, received, inHand>>
    BY <1>7, RecvAssumption DEF DispatchQueue, RecvHandler
  <2>2. Len(recvQueue) = 1 /\ Len(completions) = 0 /\ InHand = 0
    <3>1. Waits = Len(recvQueue) /\ Len(recvQueue) # 0
      BY <1>0, <1>7, <2>1 DEF DispatchQueue, Waits, TypeOK
    <3> QED BY <1>0, <1>1, <3>1
  <2>3. /\ recvQueue = <<recvQueue[1]>> /\ recvQueue[1] \in Packet
        /\ Elements(recvQueue) = {recvQueue[1]} /\ DOMAIN recvQueue = {1}
    BY <1>0, <2>2, ElementsOfOne DEF TypeOK
  <2>4. Fresh(recvQueue[1]) /\ Increasing(dispatched)
    BY <1>0, <2>1, <2>3 DEF Ordered
  <2>5. dispatched' = dispatched \o <<recvQueue[1]>>
    BY <2>1, <2>3
  <2>6. /\ Increasing(dispatched')
        /\ Elements(dispatched') = Elements(dispatched) \cup {recvQueue[1]}
        /\ DOMAIN dispatched' = DOMAIN dispatched \cup {Len(dispatched) + 1}
        /\ \A i \in DOMAIN dispatched : dispatched'[i] = dispatched[i]
        /\ dispatched'[Len(dispatched) + 1] = recvQueue[1]
    BY <1>0, <2>3, <2>4, <2>5, HandOver
  <2>7. DOMAIN completions = {} /\ inHand = 0
    BY <1>0, <2>2 DEF TypeOK, InHand
  <2>8. \A i \in DOMAIN dispatched' : dispatched'[i] <= received'
    BY <1>0, <2>1, <2>4, <2>6 DEF Ordered, Fresh
  <2>9. Ordered'
    BY <1>0, <2>1, <2>3, <2>6, <2>7, <2>8 DEF Ordered
  <2>10. NothingLost'
    BY <1>0, <2>1, <2>3, <2>6 DEF NothingLost
  <2> QED BY <2>9, <2>10
<1>8. ASSUME NEW t \in Thread, ClearRead(t) PROVE Ordered' /\ NothingLost'
  <2>1. /\ recvLock # Free /\ recvLock' = Free /\ recvQueue' = <<>>
        /\ UNCHANGED <<completions, dispatched, dropped, received, inHand>>
    BY <1>0, <1>8, RecvAssumption
    DEF ClearRead, ControlInv, Places, Locked, Goto, Thread, reading, history
  <2>2. DOMAIN recvQueue' = {} /\ Elements(recvQueue') = {}
    BY <2>1 DEF Elements
  <2>3. Elements(recvQueue) \subseteq Elements(dispatched)
    BY <1>0, <2>1 DEF Ordered
  <2>4. Ordered'
    BY <1>0, <2>1, <2>2 DEF Ordered, Fresh
  <2>5. NothingLost'
    BY <1>0, <2>1, <2>2, <2>3 DEF NothingLost
  <2> QED BY <2>4, <2>5
<1>9. ASSUME NEW t \in Thread, ClearQueue(t) PROVE Ordered' /\ NothingLost'
  <2>1. /\ recvLock' = Free /\ recvQueue' = <<>>
        /\ dropped' = dropped \cup Elements(recvQueue)
        /\ UNCHANGED <<completions, dispatched, received, inHand>>
    BY <1>9 DEF ClearQueue, reading
  <2>2. DOMAIN recvQueue' = {} /\ Elements(recvQueue') = {}
    BY <2>1 DEF Elements
  <2>3. Ordered'
    BY <1>0, <2>1, <2>2 DEF Ordered, Fresh
  <2>4. NothingLost'
    BY <1>0, <2>1, <2>2 DEF NothingLost
  <2> QED BY <2>3, <2>4
<1>10. CASE UNCHANGED <<recvQueue, recvLock, inHand, completions, received, dispatched, dropped>>
  BY <1>0, <1>10 DEF Ordered, Fresh, NothingLost
<1>11. ASSUME NEW t \in Thread,
              \/ Suspend(t) \/ Resume(t) \/ Close(t) \/ onTimerHandler(t) \/ ReadBack(t)
              \/ SetTimer(t) \/ NothingQueued(t) \/ Restart(t) \/ CloseSocket(t)
       PROVE  UNCHANGED <<recvQueue, recvLock, inHand, completions, received, dispatched, dropped>>
  BY <1>11 DEF Suspend, Resume, Close, onTimerHandler, ReadBack, SetTimer, NothingQueued,
     Restart, StartTimer, CloseSocket, reading, history
<1>12. ASSUME PeerLost \/ Expire \/ UNCHANGED vars
       PROVE  UNCHANGED <<recvQueue, recvLock, inHand, completions, received, dispatched, dropped>>
  BY <1>12 DEF PeerLost, Expire, vars, reading, history
<1> QED
  BY <1>2, <1>3, <1>4, <1>5, <1>6, <1>7, <1>8, <1>9, <1>10, <1>11, <1>12
  DEF Next, StrandStep, Progress

(***************************************************************************)
(* The receive handler gets the packets in the order the socket delivered  *)
(* them, each once, and only close() takes one away, whatever the timer,   *)
(* the strand and the callers do to each other.                            *)
(***************************************************************************)
THEOREM RecvOrderCorrect == Spec => [](InOrder /\ NothingLost)
<1>1. FlowInv /\ [Next]_vars => FlowInv'
  BY FlowStep
<1>2. FlowInv => InOrder /\ NothingLost
  BY DEF FlowInv, Ordered, InOrder
<1> QED BY FlowInit, <1>1, <1>2, PTL DEF Spec

(***************************************************************************)
(* On its own, what no order is needed for: a packet the socket delivered  *)
(* is with the handler, still listed, or was thrown away by close().       *)
(***************************************************************************)
THEOREM NothingLostCorrect == Spec => []NothingLost
<1>1. InOrder /\ NothingLost => NothingLost
  OBVIOUS
<1> QED BY RecvOrderCorrect, <1>1, PTL
================================================================================

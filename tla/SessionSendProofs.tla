--------------------------- MODULE SessionSendProofs ---------------------------
(***************************************************************************)
(* Theorems about SessionSend, for every set of threads and every bound.   *)
(***************************************************************************)
EXTENDS SessionSend, Integers, SequenceTheorems, FiniteSetTheorems, TLAPS

(***************************************************************************)
(* Every variable keeps its type.                                          *)
(***************************************************************************)
LEMMA TypeInit == Init => TypeOK
<1> SUFFICES ASSUME Init PROVE TypeOK
  OBVIOUS
<1>1. queue \in Seq(Message) /\ issued \in Seq(Message) /\ wire \in Seq((0..MaxSends) \X (1..Chunks))
  BY DEF Init
<1>2. buffered \in [Thread -> Store] /\ pc \in [Thread -> PC]
  BY DEF Init, Store, PC
<1>3. accepted \in 0..MaxSends /\ sendBuffer \in 0..MaxSends /\ late \in Nat
  BY SendAssumption DEF Init
<1>4. writes \subseteq Write /\ dropped \subseteq Message
  BY DEF Init
<1> QED BY <1>1, <1>2, <1>3, <1>4 DEF Init, TypeOK

(***************************************************************************)
(* A store that reaches memory, a store to a flag and a change of place keep *)
(* the types of what they change.                                          *)
(***************************************************************************)
LEMMA ReachesType ==
    ASSUME TypeOK, NEW s \in Store, Reaches(s)
    PROVE  isSending' \in BOOLEAN /\ isSuspendSend' \in BOOLEAN /\ late' \in Nat
BY DEF TypeOK, Reaches

LEMMA StoreFlagType ==
    ASSUME TypeOK, NEW t \in Thread, NEW s \in Store, StoreFlag(t, s)
    PROVE  /\ isSending' \in BOOLEAN /\ isSuspendSend' \in BOOLEAN
           /\ buffered' \in [Thread -> Store] /\ late' \in Nat
BY ReachesType DEF TypeOK, StoreFlag

LEMMA GotoType ==
    ASSUME TypeOK, NEW t \in Thread, NEW p \in PC, NEW q \in PC, Goto(t, p, q)
    PROVE  pc' \in [Thread -> PC]
BY DEF TypeOK, Goto

(***************************************************************************)
(* Every step of the send side keeps the types: one case for each action.  *)
(***************************************************************************)
LEMMA TypeStep == TypeOK /\ [Next]_vars => TypeOK'
<1> SUFFICES ASSUME TypeOK, [Next]_vars PROVE TypeOK'
  OBVIOUS
<1> USE SendAssumption
<1>1. ASSUME NEW t \in Thread, Send(t) PROVE TypeOK'
  <2>1. pc' \in [Thread -> PC]
    BY <1>1, GotoType DEF Send, PC
  <2>2. accepted' \in 0..MaxSends /\ queue' \in Seq(Message)
    BY <1>1 DEF Send, TypeOK, Message
  <2> QED BY <1>1, <2>1, <2>2 DEF Send, TypeOK, flags, link
<1>2. ASSUME NEW t \in Thread, TestSending(t) \/ TestSuspend(t) \/ ReadBack(t) PROVE TypeOK'
  <2>1. pc' \in [Thread -> PC]
    BY <1>2, GotoType DEF TestSending, TestSuspend, ReadBack, PC
  <2> QED BY <1>2, <2>1 DEF TestSending, TestSuspend, ReadBack, TypeOK, flags, link, history
<1>3. ASSUME NEW t \in Thread, StartWrite(t) PROVE TypeOK'
  <2>1. pc' \in [Thread -> PC]
    BY <1>3, GotoType DEF StartWrite, PC
  <2>2. CASE queue = <<>>
    BY <1>3, <2>1, <2>2 DEF StartWrite, TypeOK, link
  <2>3. CASE queue # <<>>
    <3>1. Head(queue) \in Message /\ Tail(queue) \in Seq(Message)
      BY <2>3 DEF TypeOK
    <3>2. [msg |-> Head(queue), sent |-> 0, failed |-> FALSE] \in Write
      BY <3>1 DEF Write
    <3>3. /\ issued' = Append(issued, Head(queue))
          /\ sendBuffer' = Head(queue)
          /\ late' \in {late, late + 1}
      BY <1>3, <2>3 DEF StartWrite, sendImmediately
    <3>7. issued' \in Seq(Message) /\ sendBuffer' \in 0..MaxSends /\ late' \in Nat
      BY <3>1, <3>3 DEF TypeOK, Message
    <3>4. writes' \subseteq Write
      BY <1>3, <2>3, <3>2 DEF StartWrite, sendImmediately, TypeOK
    <3>5. queue' \in Seq(Message) /\ isSending' \in BOOLEAN
      BY <1>3, <2>3, <3>1 DEF StartWrite, sendImmediately
    <3>6. UNCHANGED <<isSuspendSend, buffered, open, broken, accepted, dropped, wire>>
      BY <1>3 DEF StartWrite, link
    <3> QED BY <2>1, <3>4, <3>5, <3>6, <3>7 DEF TypeOK
  <2> QED BY <2>2, <2>3
<1>4. ASSUME NEW w \in writes, onSendCallback(w) PROVE TypeOK'
  <2>1. CASE w.failed
    <3>1. pc' \in [Thread -> PC]
      BY <1>4, <2>1, GotoType DEF onSendCallback, CloseEntry, PC, Thread
    <3> QED BY <1>4, <2>1, <3>1 DEF onSendCallback, TypeOK, flags, link, history
  <2>2. CASE ~w.failed
    <3>1. pc' \in [Thread -> PC]
      BY <1>4, <2>2, GotoType DEF onSendCallback, PC, Thread
    <3>2. /\ isSending' \in BOOLEAN /\ isSuspendSend' \in BOOLEAN
          /\ buffered' \in [Thread -> Store] /\ late' \in Nat
      BY <1>4, <2>2, StoreFlagType DEF onSendCallback, Thread, Store
    <3> QED BY <1>4, <2>2, <3>1, <3>2 DEF onSendCallback, TypeOK, link, history
  <2> QED BY <2>1, <2>2
<1>5. ASSUME NEW t \in Thread, Suspend(t) PROVE TypeOK'
  <2>1. /\ isSending' \in BOOLEAN /\ isSuspendSend' \in BOOLEAN
        /\ buffered' \in [Thread -> Store] /\ late' \in Nat
    BY <1>5, StoreFlagType DEF Suspend, Store
  <2> QED BY <1>5, <2>1 DEF Suspend, TypeOK, link, history
<1>6. ASSUME NEW t \in Thread, Resume(t) PROVE TypeOK'
  <2>1. /\ isSending' \in BOOLEAN /\ isSuspendSend' \in BOOLEAN
        /\ buffered' \in [Thread -> Store] /\ late' \in Nat
    BY <1>6, StoreFlagType DEF Resume, Store
  <2>2. pc' \in [Thread -> PC]
    BY <1>6, GotoType DEF Resume, PC
  <2> QED BY <1>6, <2>1, <2>2 DEF Resume, TypeOK, link, history
<1>7. ASSUME NEW t \in Thread, Close(t) \/ CloseSocket(t) PROVE TypeOK'
  <2>1. pc' \in [Thread -> PC]
    BY <1>7, GotoType DEF Close, CloseSocket, CloseEntry, PC
  <2> QED BY <1>7, <2>1 DEF Close, CloseSocket, TypeOK, flags, link, history
<1>8. ASSUME NEW t \in Thread, ClearQueue(t) PROVE TypeOK'
  <2>1. pc' \in [Thread -> PC]
    BY <1>8, GotoType DEF ClearQueue, PC
  <2>2. {queue[i] : i \in DOMAIN queue} \subseteq Message
    BY DEF TypeOK
  <2> QED BY <1>8, <2>1, <2>2 DEF ClearQueue, TypeOK, flags, link
<1>9. ASSUME NEW t \in Thread, Drain(t) PROVE TypeOK'
  <2>1. isSending' \in BOOLEAN /\ isSuspendSend' \in BOOLEAN /\ late' \in Nat
    BY <1>9, ReachesType DEF Drain, TypeOK
  <2> QED BY <1>9, <2>1 DEF Drain, TypeOK, link, history, Store
<1>10. ASSUME NEW w \in writes, Transfer(w) PROVE TypeOK'
  <2>1. w \in Write /\ w.sent + 1 \in 1..Chunks
    BY <1>10 DEF Transfer, InFlight, TypeOK, Write
  <2>2. [w EXCEPT !.sent = @ + 1] \in Write
    BY <2>1 DEF Write
  <2>3. wire' \in Seq((0..MaxSends) \X (1..Chunks))
    BY <1>10, <2>1 DEF Transfer, TypeOK
  <2> QED BY <1>10, <2>2, <2>3 DEF Transfer, TypeOK, flags, link
<1>11. ASSUME NEW w \in writes, FailWrite(w) PROVE TypeOK'
  <2>1. [w EXCEPT !.failed = TRUE] \in Write
    BY <1>11 DEF TypeOK, Write
  <2> QED BY <1>11, <2>1 DEF FailWrite, TypeOK, flags, link, history
<1>12. CASE PeerLost
  BY <1>12 DEF PeerLost, TypeOK, flags, history
<1>13. CASE UNCHANGED vars
  BY <1>13 DEF vars, flags, link, history, TypeOK
<1> QED
  BY <1>1, <1>2, <1>3, <1>4, <1>5, <1>6, <1>7, <1>8, <1>9, <1>10, <1>11, <1>12, <1>13
  DEF Next, Progress

(***************************************************************************)
(* Types.  In every behaviour of the send side, for any threads and bounds, *)
(* its variables keep their types.                                         *)
(***************************************************************************)
THEOREM TypeCorrect == Spec => []TypeOK
BY TypeInit, TypeStep, PTL DEF Spec

(***************************************************************************)
(* No lost wake-up.  NoLostWakeup is not inductive: that a thread turned   *)
(* away by m_isSending may rely on a write needs FlagBacked, which in turn *)
(* needs to know that a failed write means a dead session and that a store *)
(* still in the strand's buffer has the strand behind it, on its way to    *)
(* the mutex.  The last of these is what delayed stores break as soon as   *)
(* somebody calls suspendSend: the strand is then turned away by the other *)
(* flag while memory still holds m_isSending = true.                       *)
(***************************************************************************)
FlagBacked == isSending /\ Healthy => writes # {} \/ buffered[Strand] = "sendingFalse"
FailedIsDead == \A w \in writes : w.failed => ~Healthy
ClearFollowed ==
    buffered[Strand] = "sendingFalse" => pc[Strand] \in {"testSending", "testSuspend", "start"}
OnlyClearDelayed ==
    \A t \in Thread : buffered[t] # "none" =>
        t = Strand /\ buffered[t] = "sendingFalse" /\ Controllers = {}
NeverSuspended == Controllers = {} => ~isSuspendSend

WakeInv ==
    /\ TypeOK
    /\ FlagBacked
    /\ FailedIsDead
    /\ ClearFollowed
    /\ OnlyClearDelayed
    /\ NeverSuspended
    /\ NoLostWakeup

SimpleStores == Controllers = {} \/ ~DelayedStores

(***************************************************************************)
(* A session that has just been connected satisfies the wake-up invariant. *)
(***************************************************************************)
LEMMA WakeInit == Init => WakeInv
BY TypeInit, SendAssumption DEF Init, WakeInv, FlagBacked, FailedIsDead, ClearFollowed,
    OnlyClearDelayed, NeverSuspended, NoLostWakeup, Thread

(***************************************************************************)
(* Every step preserves the wake-up invariant: one case for each action.   *)
(***************************************************************************)
LEMMA WakeStep ==
    ASSUME SimpleStores, WakeInv, [Next]_vars
    PROVE  WakeInv'
<1> USE SendAssumption DEF WakeInv
<1>0. TypeOK'
  BY TypeStep
<1>s. Strand \in Thread
  BY DEF Thread
<1> SUFFICES (FlagBacked /\ FailedIsDead /\ ClearFollowed /\ OnlyClearDelayed
                /\ NeverSuspended /\ NoLostWakeup)'
  BY <1>0
<1>1. ASSUME NEW t \in Thread, Send(t)
      PROVE  (FlagBacked /\ FailedIsDead /\ ClearFollowed /\ OnlyClearDelayed
                /\ NeverSuspended /\ NoLostWakeup)'
  <2>1. pc' = [pc EXCEPT ![t] = "testSending"] /\ pc[t] = "idle"
    BY <1>1 DEF Send, Goto
  <2>2. UNCHANGED <<isSending, isSuspendSend, buffered, open, broken, writes>>
    BY <1>1 DEF Send, flags, link
  <2>3. ClearFollowed' /\ NoLostWakeup'
    BY <1>s, <2>1, <2>2 DEF ClearFollowed, NoLostWakeup, Starting, TypeOK
  <2> QED BY <2>2, <2>3 DEF FlagBacked, FailedIsDead, OnlyClearDelayed, NeverSuspended, Healthy
<1>2. ASSUME NEW t \in Thread, TestSending(t)
      PROVE  (FlagBacked /\ FailedIsDead /\ ClearFollowed /\ OnlyClearDelayed
                /\ NeverSuspended /\ NoLostWakeup)'
  <2>1. UNCHANGED <<queue, isSending, isSuspendSend, buffered, open, broken, writes>>
    BY <1>2 DEF TestSending, flags, link
  <2>2. ClearFollowed'
    <3> SUFFICES ASSUME buffered[Strand] = "sendingFalse"
                 PROVE  pc'[Strand] \in {"testSending", "testSuspend", "start"}
      BY <2>1 DEF ClearFollowed
    <3>1. pc[Strand] \in {"testSending", "testSuspend", "start"}
      BY DEF ClearFollowed
    <3> QED BY <1>2, <1>s, <3>1 DEF TestSending, Goto, LoadSending, TypeOK
  <2>3. NoLostWakeup'
    <3> SUFFICES ASSUME queue # <<>>, Healthy, ~isSuspendSend, writes = {}
                 PROVE  \E r \in Thread : Starting(r)'
      BY <2>1 DEF NoLostWakeup, Healthy
    <3>1. CASE LoadSending(t)
      \* Turned away: the strand has completed the last write and is not through.
      <4>1. buffered[Strand] = "sendingFalse"
        BY <3>1 DEF LoadSending, FlagBacked
      <4> QED BY <1>s, <2>1, <2>2, <4>1 DEF ClearFollowed, Starting
    <3>2. CASE ~LoadSending(t)
      BY <1>2, <3>2 DEF TestSending, Goto, Starting, TypeOK
    <3> QED BY <3>1, <3>2
  <2> QED BY <2>1, <2>2, <2>3 DEF FlagBacked, FailedIsDead, OnlyClearDelayed, NeverSuspended, Healthy
<1>3. ASSUME NEW t \in Thread, TestSuspend(t)
      PROVE  (FlagBacked /\ FailedIsDead /\ ClearFollowed /\ OnlyClearDelayed
                /\ NeverSuspended /\ NoLostWakeup)'
  <2>1. UNCHANGED <<queue, isSending, isSuspendSend, buffered, open, broken, writes>>
    BY <1>3 DEF TestSuspend, flags, link
  <2>2. ~isSuspendSend => ~LoadSuspend(t)
    BY DEF LoadSuspend, OnlyClearDelayed
  <2>3. ClearFollowed'
    <3> SUFFICES ASSUME buffered[Strand] = "sendingFalse"
                 PROVE  pc'[Strand] \in {"testSending", "testSuspend", "start"}
      BY <2>1 DEF ClearFollowed
    <3>1. pc[Strand] \in {"testSending", "testSuspend", "start"} /\ ~isSuspendSend
      BY <1>s DEF ClearFollowed, OnlyClearDelayed, NeverSuspended
    <3> QED BY <1>3, <1>s, <2>2, <3>1 DEF TestSuspend, Goto, TypeOK
  <2>4. NoLostWakeup'
    <3> SUFFICES ASSUME ~isSuspendSend
                 PROVE  \E r \in Thread : Starting(r)'
      BY <2>1 DEF NoLostWakeup, Healthy
    <3> QED BY <1>3, <2>2 DEF TestSuspend, Goto, Starting, TypeOK
  <2> QED BY <2>1, <2>3, <2>4 DEF FlagBacked, FailedIsDead, OnlyClearDelayed, NeverSuspended, Healthy
<1>4. ASSUME NEW t \in Thread, StartWrite(t)
      PROVE  (FlagBacked /\ FailedIsDead /\ ClearFollowed /\ OnlyClearDelayed
                /\ NeverSuspended /\ NoLostWakeup)'
  <2>1. UNCHANGED <<isSuspendSend, buffered, open, broken>> /\ buffered[t] = "none"
    BY <1>4 DEF StartWrite, link
  <2>2. ClearFollowed'
    BY <1>4, <1>s, <2>1 DEF StartWrite, Goto, ClearFollowed, TypeOK
  <2>3. CASE queue = <<>>
    BY <1>4, <2>1, <2>2, <2>3
       DEF StartWrite, FlagBacked, FailedIsDead, OnlyClearDelayed, NeverSuspended, NoLostWakeup, Healthy
  <2>4. CASE queue # <<>>
    <3>1. writes' = writes \cup {[msg |-> Head(queue), sent |-> 0, failed |-> FALSE]}
      BY <1>4, <2>4 DEF StartWrite, sendImmediately
    <3>2. FailedIsDead'
      BY <2>1, <3>1 DEF FailedIsDead, Healthy
    <3> QED BY <2>1, <2>2, <3>1, <3>2
            DEF FlagBacked, OnlyClearDelayed, NeverSuspended, NoLostWakeup
  <2> QED BY <2>3, <2>4
<1>5. ASSUME NEW w \in writes, onSendCallback(w)
      PROVE  (FlagBacked /\ FailedIsDead /\ ClearFollowed /\ OnlyClearDelayed
                /\ NeverSuspended /\ NoLostWakeup)'
  <2>1. writes' = writes \ {w} /\ UNCHANGED <<queue, open, broken>>
    BY <1>5 DEF onSendCallback, link
  <2>2. FailedIsDead'
    BY <2>1 DEF FailedIsDead, Healthy
  <2>3. CASE w.failed
    <3>1. ~Healthy /\ ~Healthy'
      BY <2>1, <2>3 DEF FailedIsDead, Healthy
    <3>2. UNCHANGED <<isSending, isSuspendSend, buffered>> /\ buffered[Strand] = "none"
      BY <1>5, <2>3 DEF onSendCallback, flags
    <3> QED BY <2>2, <3>1, <3>2
            DEF FlagBacked, ClearFollowed, OnlyClearDelayed, NeverSuspended, NoLostWakeup
  <2>4. CASE ~w.failed
    <3>1. pc' = [pc EXCEPT ![Strand] = "testSending"] /\ StoreFlag(Strand, "sendingFalse")
      BY <1>5, <2>4 DEF onSendCallback, Goto
    <3>2. isSuspendSend' = isSuspendSend
      BY <3>1 DEF StoreFlag, Reaches, TypeOK
    <3>3. OnlyClearDelayed'
      BY <1>s, <3>1 DEF StoreFlag, OnlyClearDelayed, SimpleStores, TypeOK
    <3>4. FlagBacked'
      BY <1>s, <3>1 DEF StoreFlag, Reaches, FlagBacked, TypeOK
    <3>5. ClearFollowed' /\ NoLostWakeup'
      BY <1>s, <3>1 DEF ClearFollowed, NoLostWakeup, Starting, TypeOK
    <3> QED BY <2>2, <3>2, <3>3, <3>4, <3>5 DEF NeverSuspended
  <2> QED BY <2>3, <2>4
<1>6. ASSUME NEW t \in Thread, Suspend(t) \/ Resume(t)
      PROVE  (FlagBacked /\ FailedIsDead /\ ClearFollowed /\ OnlyClearDelayed
                /\ NeverSuspended /\ NoLostWakeup)'
  <2>1. t \in Controllers /\ ~DelayedStores /\ Controllers # {}
    BY <1>6 DEF Suspend, Resume, SimpleStores
  <2>2. UNCHANGED <<queue, buffered, open, broken, writes>>
    BY <1>6, <2>1 DEF Suspend, Resume, StoreFlag, link
  <2>3. isSending' = isSending
    BY <1>6, <2>1 DEF Suspend, Resume, StoreFlag, Reaches, TypeOK
  <2>4. buffered[Strand] = "none"
    BY <1>s, <2>1 DEF OnlyClearDelayed
  <2>5. NoLostWakeup'
    <3>1. CASE Suspend(t)
      <4>1. isSuspendSend'
        BY <2>1, <3>1 DEF Suspend, StoreFlag, Reaches
      <4> QED BY <4>1 DEF NoLostWakeup
    <3>2. CASE Resume(t)
      <4>1. Starting(t)'
        BY <3>2 DEF Resume, Goto, Starting, TypeOK
      <4> QED BY <4>1 DEF NoLostWakeup
    <3> QED BY <1>6, <3>1, <3>2
  <2> QED BY <2>1, <2>2, <2>3, <2>4, <2>5
          DEF FlagBacked, FailedIsDead, ClearFollowed, OnlyClearDelayed, NeverSuspended, Healthy
<1>7. ASSUME NEW t \in Thread, ReadBack(t)
      PROVE  (FlagBacked /\ FailedIsDead /\ ClearFollowed /\ OnlyClearDelayed
                /\ NeverSuspended /\ NoLostWakeup)'
  <2>1. UNCHANGED <<queue, isSending, isSuspendSend, buffered, open, broken, writes>>
    BY <1>7 DEF ReadBack, flags, link
  <2>2. ~isSuspendSend => ~LoadSuspend(t)
    BY DEF LoadSuspend, OnlyClearDelayed
  <2>3. ClearFollowed'
    BY <1>7, <1>s, <2>1 DEF ReadBack, Goto, ClearFollowed, TypeOK
  <2>4. NoLostWakeup'
    <3> SUFFICES ASSUME ~isSuspendSend
                 PROVE  \E r \in Thread : Starting(r)'
      BY <2>1 DEF NoLostWakeup, Healthy
    <3> QED BY <1>7, <2>2 DEF ReadBack, Goto, Starting, TypeOK
  <2> QED BY <2>1, <2>3, <2>4 DEF FlagBacked, FailedIsDead, OnlyClearDelayed, NeverSuspended, Healthy
<1>8. ASSUME NEW t \in Thread, Close(t) \/ CloseSocket(t) \/ ClearQueue(t)
      PROVE  (FlagBacked /\ FailedIsDead /\ ClearFollowed /\ OnlyClearDelayed
                /\ NeverSuspended /\ NoLostWakeup)'
  <2>1. UNCHANGED <<isSending, isSuspendSend, buffered, broken, writes>> /\ (open' => open)
    BY <1>8 DEF Close, CloseSocket, ClearQueue, flags, link, TypeOK
  <2>2. ~Starting(t) /\ \A r \in Thread \ {t} : pc'[r] = pc[r]
    BY <1>8 DEF Close, CloseSocket, ClearQueue, Goto, Starting, TypeOK
  <2>3. pc[t] \notin {"testSending", "testSuspend", "start"}
    BY <2>2 DEF Starting
  <2>4. queue' = queue \/ queue' = <<>>
    BY <1>8 DEF Close, CloseSocket, ClearQueue
  <2>5. ClearFollowed'
    BY <1>s, <2>1, <2>2, <2>3 DEF ClearFollowed
  <2>6. NoLostWakeup'
    BY <2>1, <2>2, <2>4 DEF NoLostWakeup, Healthy, Starting
  <2> QED BY <2>1, <2>5, <2>6 DEF FlagBacked, FailedIsDead, OnlyClearDelayed, NeverSuspended, Healthy
<1>9. ASSUME NEW t \in Thread, Drain(t)
      PROVE  (FlagBacked /\ FailedIsDead /\ ClearFollowed /\ OnlyClearDelayed
                /\ NeverSuspended /\ NoLostWakeup)'
  <2>1. t = Strand /\ buffered[t] = "sendingFalse" /\ Controllers = {}
    BY <1>9 DEF Drain, OnlyClearDelayed
  <2>2. /\ ~isSending' /\ isSuspendSend' = isSuspendSend
        /\ buffered' = [buffered EXCEPT ![t] = "none"]
        /\ UNCHANGED <<queue, open, broken, writes, pc>>
    BY <1>9, <2>1 DEF Drain, Reaches, link, TypeOK
  <2>3. NoLostWakeup' /\ FailedIsDead'
    BY <2>2 DEF NoLostWakeup, FailedIsDead, Healthy, Starting
  <2> QED BY <2>1, <2>2, <2>3 DEF FlagBacked, ClearFollowed, OnlyClearDelayed, NeverSuspended, TypeOK
<1>10. ASSUME NEW w \in writes, Transfer(w) \/ FailWrite(w)
       PROVE  (FlagBacked /\ FailedIsDead /\ ClearFollowed /\ OnlyClearDelayed
                /\ NeverSuspended /\ NoLostWakeup)'
  <2>1. UNCHANGED <<queue, isSending, isSuspendSend, buffered, open, broken, pc>> /\ writes' # {}
    BY <1>10 DEF Transfer, FailWrite, flags, link
  <2>2. FailedIsDead'
    <3>1. CASE Transfer(w)
      BY <2>1, <3>1 DEF Transfer, InFlight, FailedIsDead, Healthy, TypeOK, Write
    <3>2. CASE FailWrite(w)
      BY <2>1, <3>2 DEF FailWrite, FailedIsDead, Healthy
    <3> QED BY <1>10, <3>1, <3>2
  <2> QED BY <2>1, <2>2 DEF FlagBacked, ClearFollowed, OnlyClearDelayed, NeverSuspended, NoLostWakeup
<1>11. CASE PeerLost
  BY <1>11 DEF PeerLost, flags, FlagBacked, FailedIsDead, ClearFollowed, OnlyClearDelayed,
     NeverSuspended, NoLostWakeup, Healthy
<1>12. CASE UNCHANGED vars
  BY <1>12 DEF vars, flags, link, FlagBacked, FailedIsDead, ClearFollowed, OnlyClearDelayed,
     NeverSuspended, NoLostWakeup, Healthy, Starting
<1> QED
  BY <1>1, <1>2, <1>3, <1>4, <1>5, <1>6, <1>7, <1>8, <1>9, <1>10, <1>11, <1>12 DEF Next, Progress

(***************************************************************************)
(* No lost wake-up, for any number of senders and closers, either when     *)
(* nobody suspends the session or when stores are not delayed.             *)
(***************************************************************************)
THEOREM WakeupCorrect ==
    ASSUME SimpleStores
    PROVE  Spec => []NoLostWakeup
<1>1. WakeInv /\ [Next]_vars => WakeInv'
  BY WakeStep
<1>2. WakeInv => NoLostWakeup
  BY DEF WakeInv
<1> QED BY WakeInit, <1>1, <1>2, PTL DEF Spec

(***************************************************************************)
(* Order and conservation.  The four histories change in three actions     *)
(* only: send appends the next number, the section under the mutex moves   *)
(* the head of the queue, and close() clears the queue.  The invariant     *)
(* takes FirstInFirstOut apart into what each of the two sequences and the *)
(* pair of them contribute, and adds that no number is ahead of accepted.  *)
(***************************************************************************)
Numbered ==
    /\ Increasing(queue)
    /\ Increasing(issued)
    /\ \A i \in DOMAIN issued, j \in DOMAIN queue : issued[i] < queue[j]
    /\ \A i \in DOMAIN issued : issued[i] <= accepted
    /\ \A j \in DOMAIN queue : queue[j] <= accepted

OrderInv == TypeOK /\ Numbered /\ NothingLost

(***************************************************************************)
(* What a sequence contains after an element is appended, and when its     *)
(* head is taken off.                                                      *)
(***************************************************************************)
LEMMA ElementsAppend ==
    ASSUME NEW S, NEW s \in Seq(S), NEW x \in S
    PROVE  Elements(Append(s, x)) = Elements(s) \cup {x}
<1>1. /\ DOMAIN s = 1..Len(s) /\ DOMAIN Append(s, x) = 1..(Len(s) + 1)
      /\ Len(s) \in Nat
      /\ \A i \in 1..Len(s) : Append(s, x)[i] = s[i]
      /\ Append(s, x)[Len(s) + 1] = x
  OBVIOUS
<1>2. 1..(Len(s) + 1) = 1..Len(s) \cup {Len(s) + 1}
  BY <1>1
<1> QED BY <1>1, <1>2, Zenon DEF Elements

LEMMA ElementsHeadTail ==
    ASSUME NEW S, NEW s \in Seq(S), s # <<>>
    PROVE  Elements(s) = {Head(s)} \cup Elements(Tail(s))
<1>1. /\ Len(s) \in Nat /\ Len(s) >= 1 /\ DOMAIN s = 1..Len(s)
      /\ DOMAIN Tail(s) = 1..(Len(s) - 1)
      /\ \A i \in 1..(Len(s) - 1) : Tail(s)[i] = s[i + 1]
      /\ Head(s) = s[1]
  OBVIOUS
<1>2. ASSUME NEW i \in 1..Len(s) PROVE s[i] \in {Head(s)} \cup Elements(Tail(s))
  <2>1. CASE i = 1
    BY <1>1, <2>1
  <2>2. CASE i # 1
    <3>1. i - 1 \in DOMAIN Tail(s) /\ Tail(s)[i - 1] = s[i]
      BY <1>1, <2>2
    <3> QED BY <3>1 DEF Elements
  <2> QED BY <2>1, <2>2
<1>3. ASSUME NEW i \in 1..(Len(s) - 1) PROVE Tail(s)[i] \in Elements(s)
  <2>1. i + 1 \in DOMAIN s /\ s[i + 1] = Tail(s)[i]
    BY <1>1
  <2> QED BY <2>1 DEF Elements
<1>4. Head(s) \in Elements(s)
  BY <1>1 DEF Elements
<1>5. Elements(s) \subseteq {Head(s)} \cup Elements(Tail(s))
  BY <1>1, <1>2 DEF Elements
<1>6. Elements(Tail(s)) \subseteq Elements(s)
  BY <1>1, <1>3 DEF Elements
<1> QED BY <1>4, <1>5, <1>6

(***************************************************************************)
(* Numbered, which speaks of each sequence apart, gives the order of the   *)
(* two one after the other.                                                *)
(***************************************************************************)
LEMMA NumberedIsOrder ==
    ASSUME TypeOK, Numbered
    PROVE  FirstInFirstOut
<1> DEFINE s == issued \o queue
<1>1. /\ Len(issued) \in Nat /\ Len(queue) \in Nat
      /\ DOMAIN issued = 1..Len(issued) /\ DOMAIN queue = 1..Len(queue)
      /\ DOMAIN s = 1..(Len(issued) + Len(queue))
      /\ \A i \in DOMAIN s : s[i] = IF i <= Len(issued) THEN issued[i] ELSE queue[i - Len(issued)]
  BY DEF TypeOK
<1>2. SUFFICES ASSUME NEW i \in DOMAIN s, NEW j \in DOMAIN s, i < j
               PROVE  s[i] < s[j]
  BY DEF FirstInFirstOut, Increasing
<1>3. CASE j <= Len(issued)
  BY <1>1, <1>2, <1>3 DEF Numbered, Increasing
<1>4. CASE i <= Len(issued) /\ ~(j <= Len(issued))
  <2>1. i \in DOMAIN issued /\ j - Len(issued) \in DOMAIN queue
    BY <1>1, <1>2, <1>4
  <2> QED BY <1>1, <1>4, <2>1 DEF Numbered
<1>5. CASE ~(i <= Len(issued))
  <2>1. /\ i - Len(issued) \in DOMAIN queue /\ j - Len(issued) \in DOMAIN queue
        /\ i - Len(issued) < j - Len(issued) /\ ~(j <= Len(issued))
    BY <1>1, <1>2, <1>5
  <2> QED BY <1>1, <1>5, <2>1 DEF Numbered, Increasing
<1> QED BY <1>1, <1>2, <1>3, <1>4, <1>5

(***************************************************************************)
(* A session that has just been connected has queued and sent nothing.     *)
(***************************************************************************)
LEMMA OrderInit == Init => OrderInv
<1> SUFFICES ASSUME Init PROVE OrderInv
  OBVIOUS
<1>1. DOMAIN queue = {} /\ DOMAIN issued = {} /\ accepted = 0 /\ dropped = {}
  BY DEF Init
<1>2. Elements(queue) = {} /\ Elements(issued) = {} /\ 1..accepted = {}
  BY <1>1 DEF Elements
<1>3. NothingLost
  BY <1>1, <1>2 DEF NothingLost
<1> QED BY TypeInit, <1>1, <1>3 DEF OrderInv, Numbered, Increasing

(***************************************************************************)
(* Every step preserves order and conservation, whatever the flags hold.   *)
(***************************************************************************)
LEMMA OrderStep ==
    ASSUME OrderInv, [Next]_vars
    PROVE  OrderInv'
<1> USE DEF OrderInv
<1>0. TypeOK'
  BY TypeStep
<1>1. ASSUME NEW t \in Thread, Send(t) PROVE Numbered' /\ NothingLost'
  <2>1. /\ queue' = Append(queue, accepted + 1) /\ accepted' = accepted + 1
        /\ UNCHANGED <<issued, dropped>> /\ accepted + 1 \in Message
        /\ queue \in Seq(Message) /\ issued \in Seq(Message) /\ accepted \in Nat
    BY <1>1, SendAssumption DEF Send, TypeOK, Message
  <2>2. Numbered'
    <3>1. /\ Len(queue) \in Nat /\ DOMAIN queue = 1..Len(queue)
          /\ DOMAIN queue' = 1..(Len(queue) + 1)
          /\ \A i \in 1..Len(queue) : queue'[i] = queue[i] /\ queue'[i] \in Message
          /\ queue'[Len(queue) + 1] = accepted + 1
      BY <2>1
    <3>2. (\A i \in DOMAIN issued : issued[i] \in Message) /\ Message \subseteq Nat
      <4>1. \A i \in DOMAIN issued : issued[i] \in Message
        BY <2>1
      <4> QED BY <4>1 DEF Message
    <3>3. \A i \in 1..Len(queue) : queue'[i] < accepted + 1 /\ queue'[i] \in Nat
      <4> SUFFICES ASSUME NEW i \in 1..Len(queue)
                   PROVE  queue[i] < accepted + 1 /\ queue[i] \in Nat
        BY <3>1
      <4>1. queue[i] \in Nat /\ accepted \in Nat
        BY <2>1, <3>1, <3>2
      <4>2. queue[i] <= accepted
        BY <3>1 DEF Numbered
      <4> QED BY <4>1, <4>2
    <3>4. Increasing(queue)'
      <4> SUFFICES ASSUME NEW i \in DOMAIN queue', NEW j \in DOMAIN queue', i < j
                   PROVE  queue'[i] < queue'[j]
        BY DEF Increasing
      <4>1. i \in 1..Len(queue)
        BY <3>1
      <4>2. CASE j = Len(queue) + 1
        BY <3>1, <3>3, <4>1, <4>2
      <4>3. CASE j \in 1..Len(queue)
        BY <3>1, <4>1, <4>3 DEF Numbered, Increasing
      <4> QED BY <3>1, <4>2, <4>3
    <3>5. Increasing(issued)'
      BY <2>1 DEF Numbered, Increasing
    <3>6. \A i \in DOMAIN issued : issued[i] < accepted + 1 /\ issued[i] \in Nat
      <4> SUFFICES ASSUME NEW i \in DOMAIN issued
                   PROVE  issued[i] < accepted + 1 /\ issued[i] \in Nat
        OBVIOUS
      <4>1. issued[i] \in Nat /\ accepted \in Nat
        BY <2>1, <3>2
      <4>2. issued[i] <= accepted
        BY DEF Numbered
      <4> QED BY <4>1, <4>2
    <3>7. \A i \in DOMAIN issued', j \in DOMAIN queue' : issued'[i] < queue'[j]
      <4> SUFFICES ASSUME NEW i \in DOMAIN issued, NEW j \in DOMAIN queue'
                   PROVE  issued[i] < queue'[j]
        BY <2>1
      <4>1. CASE j = Len(queue) + 1
        BY <3>1, <3>6, <4>1
      <4>2. CASE j \in 1..Len(queue)
        BY <3>1, <4>2 DEF Numbered
      <4> QED BY <3>1, <4>1, <4>2
    <3>8. \A i \in DOMAIN issued' : issued'[i] <= accepted'
      <4> SUFFICES ASSUME NEW i \in DOMAIN issued PROVE issued[i] <= accepted + 1
        BY <2>1
      <4> QED BY <2>1, <3>6
    <3>9. \A j \in DOMAIN queue' : queue'[j] <= accepted'
      <4> SUFFICES ASSUME NEW j \in DOMAIN queue' PROVE queue'[j] <= accepted + 1
        BY <2>1
      <4>1. CASE j = Len(queue) + 1
        BY <2>1, <3>1, <4>1
      <4>2. CASE j \in 1..Len(queue)
        BY <2>1, <3>3, <4>2
      <4> QED BY <3>1, <4>1, <4>2
    <3> QED BY <3>4, <3>5, <3>7, <3>8, <3>9 DEF Numbered
  <2>3. NothingLost'
    <3>1. Elements(queue)' = Elements(queue) \cup {accepted + 1}
      BY <2>1, ElementsAppend DEF Elements
    <3>2. 1..(accepted + 1) = 1..accepted \cup {accepted + 1} /\ accepted + 1 \notin 1..accepted
      BY <2>1
    <3>3. Elements(issued)' = Elements(issued)
      BY <2>1 DEF Elements
    <3> QED BY <2>1, <3>1, <3>2, <3>3 DEF NothingLost
  <2> QED BY <2>2, <2>3
<1>2. ASSUME NEW t \in Thread, StartWrite(t) PROVE Numbered' /\ NothingLost'
  <2>1. CASE queue = <<>>
    BY <1>2, <2>1 DEF StartWrite, Numbered, NothingLost, Elements, Increasing
  <2>2. CASE queue # <<>>
    <3>1. /\ queue' = Tail(queue) /\ issued' = Append(issued, Head(queue))
          /\ UNCHANGED <<accepted, dropped>>
          /\ queue \in Seq(Message) /\ issued \in Seq(Message) /\ Head(queue) \in Message
      BY <1>2, <2>2 DEF StartWrite, sendImmediately, TypeOK
    <3>2. /\ Len(queue) \in Nat /\ Len(queue) >= 1 /\ DOMAIN queue = 1..Len(queue)
          /\ DOMAIN queue' = 1..(Len(queue) - 1)
          /\ \A i \in 1..(Len(queue) - 1) : queue'[i] = queue[i + 1]
          /\ Head(queue) = queue[1]
      BY <2>2, <3>1
    <3>3. /\ Len(issued) \in Nat /\ DOMAIN issued = 1..Len(issued)
          /\ DOMAIN issued' = 1..(Len(issued) + 1)
          /\ \A i \in 1..Len(issued) : issued'[i] = issued[i]
          /\ issued'[Len(issued) + 1] = Head(queue)
      BY <3>1
    <3>4. \A i \in 1..(Len(queue) - 1) : i + 1 \in DOMAIN queue /\ Head(queue) < queue'[i]
      BY <3>2 DEF Numbered, Increasing
    <3>5. Increasing(queue)'
      BY <3>2 DEF Numbered, Increasing
    <3>6. \A i \in DOMAIN issued : issued[i] < Head(queue)
      BY <3>2 DEF Numbered
    <3>7. Increasing(issued)'
      BY <3>3, <3>6 DEF Numbered, Increasing
    <3>8. \A i \in DOMAIN issued', j \in DOMAIN queue' : issued'[i] < queue'[j]
      BY <3>2, <3>3, <3>4 DEF Numbered
    <3>9. Numbered'
      BY <3>1, <3>2, <3>3, <3>4, <3>5, <3>7, <3>8 DEF Numbered
    <3>10. Elements(queue) = {Head(queue)} \cup Elements(queue)'
      <4>1. Elements(queue)' = Elements(Tail(queue))
        BY <3>1 DEF Elements
      <4> QED BY <2>2, <3>1, <4>1, ElementsHeadTail
    <3>11. Elements(issued)' = Elements(issued) \cup {Head(queue)}
      <4>1. Elements(issued)' = Elements(Append(issued, Head(queue)))
        BY <3>1 DEF Elements
      <4> QED BY <3>1, <4>1, ElementsAppend
    <3>12. Head(queue) \notin Elements(queue)'
      BY <3>1, <3>2, <3>4 DEF Elements, Message
    <3> QED BY <3>1, <3>9, <3>10, <3>11, <3>12 DEF NothingLost
  <2> QED BY <2>1, <2>2
<1>3. ASSUME NEW t \in Thread, ClearQueue(t) PROVE Numbered' /\ NothingLost'
  <2>1. /\ queue' = <<>> /\ UNCHANGED <<issued, accepted>>
        /\ dropped' = dropped \cup Elements(queue)
    BY <1>3 DEF ClearQueue, Elements
  <2>2. DOMAIN queue' = {} /\ Elements(queue)' = {} /\ Elements(issued)' = Elements(issued)
    BY <2>1 DEF Elements
  <2> QED BY <2>1, <2>2 DEF Numbered, Increasing, NothingLost
<1>4. CASE UNCHANGED <<queue, issued, accepted, dropped>>
  <2>1. Elements(queue)' = Elements(queue) /\ Elements(issued)' = Elements(issued)
    BY <1>4 DEF Elements
  <2>2. Increasing(queue)' /\ Increasing(issued)'
    BY <1>4 DEF Numbered, Increasing
  <2> QED BY <1>0, <1>4, <2>1, <2>2 DEF Numbered, NothingLost
<1>5. ASSUME NEW t \in Thread,
             TestSending(t) \/ TestSuspend(t) \/ Suspend(t) \/ Resume(t) \/ ReadBack(t)
               \/ Close(t) \/ CloseSocket(t) \/ Drain(t)
      PROVE  UNCHANGED <<queue, issued, accepted, dropped>>
  BY <1>5 DEF TestSending, TestSuspend, Suspend, Resume, ReadBack, Close, CloseSocket, Drain, history
<1>6. ASSUME NEW w \in writes, onSendCallback(w) \/ Transfer(w) \/ FailWrite(w)
      PROVE  UNCHANGED <<queue, issued, accepted, dropped>>
  BY <1>6 DEF onSendCallback, Transfer, FailWrite, history
<1>7. PeerLost \/ UNCHANGED vars => UNCHANGED <<queue, issued, accepted, dropped>>
  BY DEF PeerLost, vars, history
<1> QED BY <1>0, <1>1, <1>2, <1>3, <1>4, <1>5, <1>6, <1>7 DEF Next, Progress

(***************************************************************************)
(* First in, first out, and nothing lost, whatever the races on the flags. *)
(***************************************************************************)
THEOREM OrderCorrect == Spec => [](FirstInFirstOut /\ NothingLost)
<1>1. OrderInv /\ [Next]_vars => OrderInv'
  BY OrderStep
<1>2. OrderInv => FirstInFirstOut /\ NothingLost
  BY NumberedIsOrder DEF OrderInv
<1> QED BY OrderInit, <1>1, <1>2, PTL DEF Spec

(***************************************************************************)
(* One write at a time.  When only handlers in the strand call send, as in *)
(* an echo server, and nobody suspends, the strand is the only thread that *)
(* ever gets past the tests; it does so with no write outstanding, and     *)
(* onSendCallback takes the write away before it clears the flag.          *)
(***************************************************************************)
StrandOnly == Senders \subseteq {Strand} /\ Controllers = {}

AloneInv ==
    /\ TypeOK
    /\ \A t \in Callers : pc[t] \in {"idle", "closeSocket", "clear"} /\ buffered[t] = "none"
    /\ buffered[Strand] \in {"none", "sendingFalse"}
    /\ pc[Strand] # "readBack"
    /\ writes # {} =>
          isSending /\ buffered[Strand] = "none" /\ pc[Strand] \notin {"testSuspend", "start"}

(***************************************************************************)
(* Every step of a session that only its strand sends on keeps one write   *)
(* at most outstanding.                                                    *)
(***************************************************************************)
LEMMA AloneStep ==
    ASSUME StrandOnly, AloneInv, [Next]_vars,
           \A v, w \in writes : v = w
    PROVE  AloneInv' /\ \A v, w \in writes' : v = w
<1> USE DEF AloneInv
<1> DEFINE Goal == AloneInv' /\ \A v, w \in writes' : v = w
<1>0. TypeOK' /\ Strand \in Thread /\ Strand \notin Callers /\ Thread = Callers \cup {Strand}
  BY TypeStep, SendAssumption DEF Thread
<1>1. ASSUME NEW t \in Thread, Send(t) PROVE Goal
  <2>1. t = Strand /\ pc' = [pc EXCEPT ![t] = "testSending"]
    BY <1>1 DEF Send, StrandOnly, Goto
  <2>2. UNCHANGED <<isSending, buffered, writes>>
    BY <1>1 DEF Send, flags
  <2> QED BY <1>0, <2>1, <2>2 DEF TypeOK
<1>2. ASSUME NEW t \in Thread, TestSending(t) \/ TestSuspend(t) PROVE Goal
  <2>1. t = Strand /\ UNCHANGED <<isSending, buffered, writes>>
    BY <1>0, <1>2 DEF TestSending, TestSuspend, Goto, flags
  <2>2. CASE TestSending(t)
    BY <1>0, <2>1, <2>2 DEF TestSending, Goto, LoadSending, TypeOK
  <2>3. CASE TestSuspend(t)
    BY <1>0, <2>1, <2>3 DEF TestSuspend, Goto, TypeOK
  <2> QED BY <1>2, <2>2, <2>3
<1>3. ASSUME NEW t \in Thread, StartWrite(t) PROVE Goal
  <2>1. t = Strand /\ writes = {} /\ pc' = [pc EXCEPT ![t] = "idle"] /\ buffered[Strand] = "none"
    BY <1>0, <1>3 DEF StartWrite, Goto
  <2>2. UNCHANGED buffered
    BY <1>3 DEF StartWrite
  <2>3. writes' = {} \/ (isSending' /\ \A v, w \in writes' : v = w)
    BY <1>3, <2>1 DEF StartWrite, sendImmediately
  <2> QED BY <1>0, <2>1, <2>2, <2>3 DEF TypeOK
<1>4. ASSUME NEW w \in writes, onSendCallback(w) PROVE Goal
  <2>1. writes' = {}
    BY <1>4 DEF onSendCallback
  <2>2. \E to \in {"idle", "closeSocket", "clear", "testSending"} : pc' = [pc EXCEPT ![Strand] = to]
    BY <1>4 DEF onSendCallback, Goto, CloseEntry
  <2>3. /\ \A t \in Callers : buffered'[t] = "none"
        /\ buffered'[Strand] \in {"none", "sendingFalse"}
    BY <1>0, <1>4 DEF onSendCallback, StoreFlag, flags, TypeOK
  <2> QED BY <1>0, <2>1, <2>2, <2>3 DEF TypeOK
<1>5. ASSUME NEW t \in Thread, Suspend(t) \/ Resume(t) \/ ReadBack(t) PROVE Goal
  BY <1>0, <1>5 DEF Suspend, Resume, ReadBack, Goto, StrandOnly
<1>6. ASSUME NEW t \in Thread, Close(t) \/ CloseSocket(t) \/ ClearQueue(t) PROVE Goal
  <2>1. /\ pc[t] \in {"idle", "closeSocket", "clear"}
        /\ \E to \in {"idle", "closeSocket", "clear"} : pc' = [pc EXCEPT ![t] = to]
    BY <1>6 DEF Close, CloseSocket, ClearQueue, Goto, CloseEntry
  <2>2. UNCHANGED <<isSending, buffered, writes>>
    BY <1>6 DEF Close, CloseSocket, ClearQueue, flags
  <2> QED BY <1>0, <2>1, <2>2 DEF TypeOK
<1>7. ASSUME NEW t \in Thread, Drain(t) PROVE Goal
  <2>1. t = Strand /\ buffered[t] = "sendingFalse" /\ writes = {}
    BY <1>0, <1>7 DEF Drain
  <2>2. buffered' = [buffered EXCEPT ![t] = "none"] /\ UNCHANGED <<writes, pc>>
    BY <1>7 DEF Drain
  <2> QED BY <1>0, <2>1, <2>2 DEF TypeOK
<1>8. ASSUME NEW w \in writes, Transfer(w) \/ FailWrite(w) PROVE Goal
  <2>1. UNCHANGED <<isSending, buffered, pc>>
    BY <1>8 DEF Transfer, FailWrite, flags
  <2>2. \E x : writes' = {x}
    BY <1>8 DEF Transfer, FailWrite
  <2> QED BY <1>0, <2>1, <2>2
<1>9. CASE PeerLost \/ UNCHANGED vars
  BY <1>0, <1>9 DEF PeerLost, vars, flags
<1> QED
  BY <1>1, <1>2, <1>3, <1>4, <1>5, <1>6, <1>7, <1>8, <1>9 DEF Next, Progress

(***************************************************************************)
(* With sends from the strand only, m_isSending is set for as long as a    *)
(* write is in flight, as its comment says, and no second write is begun.  *)
(***************************************************************************)
THEOREM FlagCorrect ==
    ASSUME StrandOnly
    PROVE  Spec => [](FlagCoversWrite /\ \A v, w \in InFlight : v = w)
<1> DEFINE Inv == AloneInv /\ \A v, w \in writes : v = w
<1>1. Init => Inv
  BY TypeInit, SendAssumption DEF Init, AloneInv, Thread
<1>2. Inv /\ [Next]_vars => Inv'
  BY AloneStep
<1>3. Inv => FlagCoversWrite /\ \A v, w \in InFlight : v = w
  BY DEF AloneInv, FlagCoversWrite, InFlight
<1> QED BY <1>1, <1>2, <1>3, PTL DEF Spec

\* Nothing lost, as the runs check it.
THEOREM NothingLostCorrect == Spec => []NothingLost
<1>1. FirstInFirstOut /\ NothingLost => NothingLost
  OBVIOUS
<1> QED
  BY <1>1, OrderCorrect, PTL

(***************************************************************************)
(* Suspension.  Who can still begin a write after memory holds             *)
(* m_isSuspendSend = true is past the test of it, and was so before; the   *)
(* thread whose store this was is not.  A thread that carries its own      *)
(* suspendFalse in its store buffer gets past the test too, but drains it  *)
(* before it begins a write, and that ends the suspension.                 *)
(***************************************************************************)
Past == {t \in Thread : pc[t] = "start" /\ buffered[t] # "suspendFalse"}

SuspendInv ==
    /\ TypeOK
    /\ ~isSuspendSend => late = 0
    /\ \A t \in Thread :
          buffered[t] = "suspendTrue" => pc[t] \in {"idle", "closeSocket", "clear"}
    /\ isSuspendSend => late + Cardinality(Past) < Cardinality(Thread)

\* Sets of threads are finite, and a thread more is one more.
LEMMA CountThreads ==
    /\ IsFiniteSet(Thread) /\ Cardinality(Thread) \in Nat
    /\ \A S \in SUBSET Thread : IsFiniteSet(S) /\ Cardinality(S) \in Nat
    /\ \A S \in SUBSET Thread : \A t \in Thread \ S :
          Cardinality(S \cup {t}) = Cardinality(S) + 1
    /\ \A S \in SUBSET Thread : \A R \in SUBSET S : Cardinality(R) <= Cardinality(S)
<1>1. IsFiniteSet(Thread)
  BY SendAssumption, FS_AddElement DEF Thread
<1>2. \A S \in SUBSET Thread : IsFiniteSet(S)
  BY <1>1, FS_Subset
<1> QED
  BY <1>1, <1>2, FS_CardinalityType, FS_AddElement, FS_Subset

\* A set of threads without one of them is smaller than all of them.
LEMMA FewerThreads ==
    ASSUME NEW S \in SUBSET Thread, NEW t \in Thread \ S
    PROVE  Cardinality(S) < Cardinality(Thread)
<1>1. S \cup {t} \in SUBSET Thread /\ Thread \in SUBSET Thread
  OBVIOUS
<1>2. Cardinality(S \cup {t}) = Cardinality(S) + 1 /\ Cardinality(S) \in Nat
  BY CountThreads
<1>3. Cardinality(S \cup {t}) <= Cardinality(Thread) /\ Cardinality(Thread) \in Nat
  BY <1>1, CountThreads
<1> QED
  BY <1>2, <1>3

\* A store that reaches memory: it may begin a suspension, and then it was the thread's
\* own; or it ends one, or leaves it as it is.
LEMMA ReachesSuspend ==
    ASSUME SuspendInv, NEW t \in Thread, NEW s \in Store, Reaches(s),
           s = "suspendTrue" => pc[t] # "start",
           \A u \in Past' : u \in Past \/ (u = t /\ s = "suspendFalse")
    PROVE  /\ ~isSuspendSend' => late' = 0
           /\ isSuspendSend' => late' + Cardinality(Past') < Cardinality(Thread)
<1>1. Past \in SUBSET Thread /\ Past' \in SUBSET Thread
  BY DEF Past
<1>2. ~isSuspendSend' => late' = 0
  BY DEF Reaches
<1>3. CASE s = "suspendFalse"
  BY <1>2, <1>3 DEF Reaches
<1>4. CASE s # "suspendFalse" /\ ~isSuspendSend
  <2>1. CASE s = "suspendTrue"
    <3>1. t \notin Past'
      BY <2>1 DEF Past
    <3>2. late' = 0 /\ Cardinality(Past') \in Nat
      BY <1>1, <1>4, CountThreads DEF Reaches
    <3> QED
      BY <1>1, <1>2, <3>1, <3>2, FewerThreads
  <2>2. CASE s # "suspendTrue"
    BY <1>2, <1>4, <2>2 DEF Reaches
  <2> QED
    BY <2>1, <2>2
<1>5. CASE s # "suspendFalse" /\ isSuspendSend
  <2>1. isSuspendSend' /\ late' = late
    BY <1>5 DEF Reaches
  <2>2. Past' \in SUBSET Past
    BY <1>5
  <2>3. Cardinality(Past') <= Cardinality(Past) /\ Cardinality(Past) \in Nat
        /\ Cardinality(Past') \in Nat /\ Cardinality(Thread) \in Nat
    BY <1>1, <2>2, CountThreads
  <2> QED
    BY <1>5, <2>1, <2>3 DEF SuspendInv, TypeOK
<1> QED
  BY <1>3, <1>4, <1>5

\* A step that leaves the flags alone and gets nobody past the test of a suspended session.
LEMMA QuietSuspend ==
    ASSUME SuspendInv, TypeOK', UNCHANGED << isSuspendSend, late >>,
           isSuspendSend => Past' \subseteq Past
    PROVE  /\ ~isSuspendSend' => late' = 0
           /\ isSuspendSend' => late' + Cardinality(Past') < Cardinality(Thread)
<1>1. CASE isSuspendSend
  <2>1. Past \in SUBSET Thread /\ Past' \in SUBSET Past
    BY <1>1 DEF Past
  <2>2. Cardinality(Past') <= Cardinality(Past) /\ Cardinality(Past) \in Nat
        /\ Cardinality(Past') \in Nat /\ Cardinality(Thread) \in Nat
    BY <2>1, CountThreads
  <2> QED
    BY <1>1, <2>2 DEF SuspendInv, TypeOK
<1>2. CASE ~isSuspendSend
  BY <1>2 DEF SuspendInv
<1> QED
  BY <1>1, <1>2

\* Every step preserves the suspension invariant: one case for each action.
LEMMA SuspendStep ==
    ASSUME SuspendInv, [Next]_vars
    PROVE  SuspendInv'
<1>0. TypeOK /\ TypeOK' /\ pc \in [Thread -> PC] /\ buffered \in [Thread -> Store]
  BY TypeStep DEF SuspendInv, TypeOK
<1> DEFINE Idle == \A t \in Thread :
          buffered[t] = "suspendTrue" => pc[t] \in {"idle", "closeSocket", "clear"}
<1> DEFINE Bound == /\ ~isSuspendSend => late = 0
                    /\ isSuspendSend => late + Cardinality(Past) < Cardinality(Thread)
<1> SUFFICES Idle' /\ Bound'
  BY <1>0 DEF SuspendInv
<1>i. Idle
  BY DEF SuspendInv
<1>s. Strand \in Thread
  BY DEF Thread
<1>1. ASSUME NEW t \in Thread, Send(t) \/ Close(t) \/ CloseSocket(t) \/ ClearQueue(t)
      PROVE  Idle' /\ Bound'
  <2>1. \E to \in {"testSending", "closeSocket", "clear", "idle"} :
           /\ pc' = [pc EXCEPT ![t] = to]
           /\ buffered[t] = "none" \/ to \in {"closeSocket", "clear"}
    BY <1>1 DEF Send, Close, CloseSocket, ClearQueue, Goto, CloseEntry
  <2>2. UNCHANGED << isSuspendSend, late, buffered >>
    BY <1>1 DEF Send, Close, CloseSocket, ClearQueue, flags
  <2>3. Idle'
    BY <1>0, <1>i, <2>1, <2>2
  <2>4. Past' \subseteq Past
    BY <1>0, <2>1, <2>2 DEF Past
  <2> QED
    BY <1>0, <2>2, <2>3, <2>4, QuietSuspend
<1>2. ASSUME NEW t \in Thread, TestSending(t) \/ ReadBack(t) PROVE Idle' /\ Bound'
  <2>1. \E to \in {"testSuspend", "testSending", "idle"} : pc' = [pc EXCEPT ![t] = to]
    BY <1>2 DEF TestSending, ReadBack, Goto
  <2>2. UNCHANGED << isSuspendSend, late, buffered >> /\ buffered[t] # "suspendTrue"
    BY <1>2, <1>i DEF TestSending, ReadBack, Goto, flags
  <2>3. Idle'
    BY <1>0, <1>i, <2>1, <2>2
  <2>4. Past' \subseteq Past
    BY <1>0, <2>1, <2>2 DEF Past
  <2> QED
    BY <1>0, <2>2, <2>3, <2>4, QuietSuspend
<1>3. ASSUME NEW t \in Thread, TestSuspend(t) PROVE Idle' /\ Bound'
  <2>1. pc' = [pc EXCEPT ![t] = IF LoadSuspend(t) THEN "idle" ELSE "start"]
    BY <1>3 DEF TestSuspend, Goto
  <2>2. UNCHANGED << isSuspendSend, late, buffered >> /\ buffered[t] # "suspendTrue"
    BY <1>3, <1>i DEF TestSuspend, Goto, flags
  <2>3. Idle'
    BY <1>0, <1>i, <2>1, <2>2
  <2>4. isSuspendSend => Past' \subseteq Past
    BY <1>0, <2>1, <2>2 DEF Past, LoadSuspend
  <2> QED
    BY <1>0, <2>2, <2>3, <2>4, QuietSuspend
<1>4. ASSUME NEW t \in Thread, StartWrite(t) PROVE Idle' /\ Bound'
  <2>1. /\ pc[t] = "start" /\ pc' = [pc EXCEPT ![t] = "idle"] /\ buffered[t] = "none"
        /\ UNCHANGED << isSuspendSend, buffered >>
    BY <1>4 DEF StartWrite, Goto
  <2>2. late' = late \/ (isSuspendSend /\ late' = late + 1)
    BY <1>4 DEF StartWrite, sendImmediately
  <2>3. Idle'
    BY <1>0, <1>i, <2>1
  <2>4. t \in Past /\ Past' = Past \ {t}
    BY <1>0, <2>1 DEF Past
  <2>5. /\ Cardinality(Past) = Cardinality(Past') + 1
        /\ Cardinality(Past') \in Nat /\ Cardinality(Thread) \in Nat
    <3>1. Past' \in SUBSET Thread /\ t \in Thread \ Past' /\ Past = Past' \cup {t}
      BY <2>4 DEF Past
    <3> QED
      BY <3>1, CountThreads
  <2>6. /\ late \in Nat
        /\ ~isSuspendSend => late = 0
        /\ isSuspendSend => late + Cardinality(Past) < Cardinality(Thread)
    BY <1>0 DEF SuspendInv, TypeOK
  <2>7. Bound'
    BY <2>1, <2>2, <2>5, <2>6
  <2> QED
    BY <2>3, <2>7
<1>5. ASSUME NEW t \in Thread, NEW s \in Store, StoreFlag(t, s), NEW to \in {"idle", "readBack", "testSending"},
             pc' = [pc EXCEPT ![t] = to], pc[t] = "idle", s = "suspendTrue" => to = "idle"
      PROVE  Idle' /\ Bound'
  <2>1. Idle'
    BY <1>0, <1>5, <1>i DEF StoreFlag
  <2>2. \A u \in Past' : u \in Past
    BY <1>0, <1>5 DEF Past, StoreFlag
  <2>3. CASE Reaches(s)
    BY <1>5, <2>1, <2>2, <2>3, ReachesSuspend
  <2>4. CASE ~Reaches(s)
    <3>1. UNCHANGED << isSuspendSend, late >>
      BY <1>5, <2>4 DEF StoreFlag
    <3> QED
      BY <1>0, <2>1, <2>2, <3>1, QuietSuspend
  <2> QED
    BY <2>3, <2>4
<1>6. ASSUME NEW t \in Thread, Suspend(t) \/ Resume(t) PROVE Idle' /\ Bound'
  <2>1. CASE Suspend(t)
    <3>1. pc' = [pc EXCEPT ![t] = "idle"] /\ pc[t] = "idle" /\ StoreFlag(t, "suspendTrue")
      BY <1>0, <2>1 DEF Suspend
    <3> QED
      BY <1>5, <3>1 DEF Store
  <2>2. CASE Resume(t)
    <3>1. pc' = [pc EXCEPT ![t] = "readBack"] /\ pc[t] = "idle" /\ StoreFlag(t, "suspendFalse")
      BY <2>2 DEF Resume, Goto
    <3> QED
      BY <1>5, <3>1 DEF Store
  <2> QED
    BY <1>6, <2>1, <2>2
<1>7. ASSUME NEW w \in writes, onSendCallback(w) PROVE Idle' /\ Bound'
  <2>1. CASE w.failed
    <3>1. \E to \in {"idle", "closeSocket", "clear"} : pc' = [pc EXCEPT ![Strand] = to]
      BY <1>7, <2>1 DEF onSendCallback, Goto, CloseEntry
    <3>2. UNCHANGED << isSuspendSend, late, buffered >>
      BY <1>7, <2>1 DEF onSendCallback, flags
    <3>3. Idle' /\ Past' \subseteq Past
      BY <1>0, <1>i, <1>s, <3>1, <3>2 DEF Past
    <3> QED
      BY <1>0, <3>2, <3>3, QuietSuspend
  <2>2. CASE ~w.failed
    <3>1. /\ pc' = [pc EXCEPT ![Strand] = "testSending"] /\ pc[Strand] = "idle"
          /\ StoreFlag(Strand, "sendingFalse")
      BY <1>7, <2>2 DEF onSendCallback, Goto
    <3> QED
      BY <1>5, <1>s, <3>1 DEF Store
  <2> QED
    BY <2>1, <2>2
<1>8. ASSUME NEW t \in Thread, Drain(t) PROVE Idle' /\ Bound'
  <2>1. /\ Reaches(buffered[t]) /\ buffered' = [buffered EXCEPT ![t] = "none"] /\ pc' = pc
        /\ buffered[t] \in Store
    BY <1>0, <1>8 DEF Drain
  <2>2. Idle'
    BY <1>0, <1>i, <2>1
  <2>3. /\ buffered[t] = "suspendTrue" => pc[t] # "start"
        /\ \A u \in Past' : u \in Past \/ (u = t /\ buffered[t] = "suspendFalse")
    BY <1>0, <1>i, <2>1 DEF Past
  <2> QED
    BY <2>1, <2>2, <2>3, ReachesSuspend
<1>9. ASSUME UNCHANGED << flags, pc >> PROVE Idle' /\ Bound'
  <2>1. Idle' /\ Past' = Past /\ UNCHANGED << isSuspendSend, late >>
    BY <1>9, <1>i DEF flags, Past
  <2> QED
    BY <1>0, <2>1, QuietSuspend
<1>10. ASSUME NEW w \in writes, Transfer(w) \/ FailWrite(w) PROVE Idle' /\ Bound'
  BY <1>9, <1>10 DEF Transfer, FailWrite
<1>11. CASE PeerLost \/ UNCHANGED vars
  BY <1>9, <1>11 DEF PeerLost, vars
<1> QED
  BY <1>1, <1>2, <1>3, <1>4, <1>6, <1>7, <1>8, <1>10, <1>11 DEF Next, Progress

\* suspendSend(true) takes hold: for any threads, and with stores delayed or not, fewer
\* writes are begun after it than there are threads.
THEOREM SuspendCorrect == Spec => []SuspendTakesHold
<1>1. ASSUME Init PROVE SuspendInv
  BY <1>1, TypeInit DEF Init, SuspendInv
<1>2. Init => SuspendInv
  BY <1>1
<1>3. SuspendInv /\ [Next]_vars => SuspendInv'
  BY SuspendStep
<1>4. ASSUME SuspendInv PROVE SuspendTakesHold
  <2>1. Cardinality(Past) \in Nat /\ Cardinality(Thread) \in Nat
    BY CountThreads DEF Past
  <2>2. CASE isSuspendSend
    BY <1>4, <2>1, <2>2 DEF SuspendInv, TypeOK, SuspendTakesHold
  <2>3. CASE ~isSuspendSend
    <3>1. {} \in SUBSET Thread /\ Strand \in Thread \ {}
      BY DEF Thread
    <3>2. Cardinality({}) < Cardinality(Thread) /\ Cardinality({}) = 0
      BY <3>1, FewerThreads, FS_EmptySet
    <3> QED
      BY <1>4, <2>3, <3>2 DEF SuspendInv, SuspendTakesHold
  <2> QED
    BY <2>2, <2>3
<1>5. SuspendInv => SuspendTakesHold
  BY <1>4
<1> QED
  BY <1>2, <1>3, <1>5, PTL DEF Spec

(***************************************************************************)
(* The bytes, and the promise to the callers.  With one write at a time    *)
(* the wire holds all chunks of the messages handed over before, and of    *)
(* the last one what its write has transferred; after a write that failed  *)
(* m_isSending stays set and no other is begun.                            *)
(***************************************************************************)
\* Division by Chunks.
LEMMA Division ==
    ASSUME NEW q \in Nat, NEW r \in 0..(Chunks - 1)
    PROVE  /\ Chunks \in Nat \ {0}
           /\ (q * Chunks + r) % Chunks = r /\ (q * Chunks + r) \div Chunks = q
           /\ q * Chunks \in Nat
           /\ (q - 1) * Chunks + Chunks = q * Chunks
BY SendAssumption

\* The strand is past the tests only with the flag clear, as it sees it.
Cleared == pc[Strand] \in {"testSuspend", "start"} => ~isSending \/ buffered[Strand] = "sendingFalse"

OneWrite == \A v, w \in writes : v = w

\* What is on the wire: all of it is whole; the write under way, or the last one, has put
\* its share there.
WireInv ==
    /\ WireWhole
    /\ \A i \in DOMAIN wire : (i - 1) \div Chunks < Len(issued)
    /\ \A w \in writes :
          /\ issued # <<>> /\ w.msg = issued[Len(issued)] /\ sendBuffer = w.msg
          /\ ~w.failed => Len(wire) = (Len(issued) - 1) * Chunks + w.sent
    /\ writes = {} /\ (~isSending \/ buffered[Strand] = "sendingFalse") =>
          Len(wire) = Len(issued) * Chunks

StrandInv == AloneInv /\ OneWrite /\ Cleared /\ WireInv

\* A new session.
LEMMA StrandInit == Init => StrandInv
<1> SUFFICES ASSUME Init PROVE StrandInv
  OBVIOUS
<1>1. AloneInv /\ OneWrite /\ Cleared
  BY TypeInit, SendAssumption DEF Init, AloneInv, OneWrite, Cleared, Thread
<1>2. WireInv
  BY SendAssumption DEF Init, WireInv, WireWhole
<1> QED
  BY <1>1, <1>2 DEF StrandInv

\* The places of the strand: it gets past the test of m_isSending only with the flag
\* clear, and the flag is set again only when it has begun its write.
LEMMA ClearedStep ==
    ASSUME StrandOnly, StrandInv, [Next]_vars
    PROVE  Cleared'
<1> USE DEF Cleared
<1>0. /\ pc \in [Thread -> PC] /\ Strand \in Thread /\ Strand \notin Callers
      /\ buffered \in [Thread -> Store]
      /\ Thread = Callers \cup {Strand} /\ Cleared
  BY SendAssumption DEF Thread, StrandInv, AloneInv, TypeOK
<1>1. ASSUME NEW t \in Thread, NEW to, pc' = [pc EXCEPT ![t] = to],
             to \notin {"testSuspend", "start"}, UNCHANGED << isSending, buffered >>
      PROVE  Cleared'
  BY <1>0, <1>1
<1>2. ASSUME NEW t \in Thread, Send(t) PROVE Cleared'
  BY <1>1, <1>2 DEF Send, Goto, flags
<1>3. ASSUME NEW t \in Thread, TestSending(t) PROVE Cleared'
  BY <1>0, <1>3 DEF TestSending, Goto, LoadSending, flags
<1>4. ASSUME NEW t \in Thread, TestSuspend(t) PROVE Cleared'
  BY <1>0, <1>4 DEF TestSuspend, Goto, flags
<1>5. ASSUME NEW t \in Thread, StartWrite(t) PROVE Cleared'
  <2>1. t = Strand
    BY <1>0, <1>5 DEF StartWrite, Goto, StrandInv, AloneInv
  <2> QED
    BY <1>0, <1>5, <2>1 DEF StartWrite, Goto
<1>6. ASSUME NEW w \in writes, onSendCallback(w) PROVE Cleared'
  <2>1. \E to : pc' = [pc EXCEPT ![Strand] = to] /\ to \notin {"testSuspend", "start"}
    BY <1>6 DEF onSendCallback, Goto, CloseEntry
  <2> QED
    BY <1>0, <2>1
<1>7. ASSUME NEW t \in Thread, Suspend(t) \/ Resume(t) \/ ReadBack(t) PROVE Cleared'
  BY <1>0, <1>7 DEF Suspend, Resume, ReadBack, Goto, StrandOnly, StrandInv, AloneInv
<1>8. ASSUME NEW t \in Thread, Close(t) \/ CloseSocket(t) \/ ClearQueue(t) PROVE Cleared'
  <2>1. /\ \E to \in {"idle", "closeSocket", "clear"} : pc' = [pc EXCEPT ![t] = to]
        /\ UNCHANGED << isSending, buffered >>
    BY <1>8 DEF Close, CloseSocket, ClearQueue, Goto, CloseEntry, flags
  <2> QED
    BY <1>1, <2>1
<1>9. ASSUME NEW t \in Thread, Drain(t) PROVE Cleared'
  <2>1. t = Strand /\ buffered[t] = "sendingFalse"
    BY <1>0, <1>9 DEF Drain, StrandInv, AloneInv
  <2> QED
    BY <1>0, <1>9, <2>1 DEF Drain, Reaches
<1>10. ASSUME NEW w \in writes, Transfer(w) \/ FailWrite(w) PROVE Cleared'
  BY <1>0, <1>10 DEF Transfer, FailWrite, flags
<1>11. CASE PeerLost \/ UNCHANGED vars
  BY <1>0, <1>11 DEF PeerLost, vars, flags
<1> QED
  BY <1>2, <1>3, <1>4, <1>5, <1>6, <1>7, <1>8, <1>9, <1>10, <1>11 DEF Next, Progress

\* A write begins with all that was handed over on the wire.
LEMMA WireStart ==
    ASSUME StrandInv, TypeOK', NEW t \in Thread, StartWrite(t)
    PROVE  WireInv'
<1>0. Strand \notin Callers /\ Thread = Callers \cup {Strand} /\ Chunks \in Nat \ {0}
  BY SendAssumption DEF Thread
<1>1. t = Strand /\ writes = {} /\ buffered[Strand] = "none" /\ pc[Strand] = "start"
  BY <1>0 DEF StartWrite, Goto, StrandInv, AloneInv
<1>2. ~isSending /\ Len(wire) = Len(issued) * Chunks
  BY <1>1 DEF StrandInv, Cleared, WireInv
<1>3. CASE queue = <<>>
  <2>1. UNCHANGED << writes, issued, wire, sendBuffer, isSending, buffered >>
    BY <1>3 DEF StartWrite
  <2> QED
    BY <2>1 DEF StrandInv, WireInv, WireWhole
<1>4. CASE queue # <<>>
  <2>1. PICK m \in Message :
          /\ issued' = Append(issued, m) /\ sendBuffer' = m /\ isSending' = TRUE
          /\ writes' = {[msg |-> m, sent |-> 0, failed |-> FALSE]}
          /\ UNCHANGED << wire, buffered >>
    <3>1. Head(queue) \in Message
      BY <1>4 DEF StrandInv, AloneInv, TypeOK
    <3> QED
      BY <1>1, <1>4, <3>1 DEF StartWrite, sendImmediately
  <2>2. /\ issued \in Seq(Message) /\ Len(issued') = Len(issued) + 1 /\ issued'[Len(issued')] = m
        /\ \A k \in 1..Len(issued) : issued'[k] = issued[k]
        /\ Len(issued) \in Nat /\ issued' # <<>>
    <3>1. issued \in Seq(Message) /\ issued' = Append(issued, m)
      BY <2>1 DEF StrandInv, AloneInv, TypeOK
    <3> QED
      BY <3>1
  <2>3. \A i \in DOMAIN wire : /\ (i - 1) \div Chunks \in 0..(Len(issued) - 1)
                               /\ ((i - 1) \div Chunks) + 1 \in 1..Len(issued)
    <3>1. ASSUME NEW i \in DOMAIN wire
          PROVE  (i - 1) \div Chunks \in Nat /\ (i - 1) \div Chunks < Len(issued)
      <4>1. i - 1 \in Nat
        BY DEF StrandInv, AloneInv, TypeOK
      <4> QED
        BY <1>0, <4>1 DEF StrandInv, WireInv
    <3> QED
      BY <2>2, <3>1
  <2>4. WireWhole'
    BY <2>1, <2>2, <2>3 DEF StrandInv, WireInv, WireWhole
  <2>5. \A i \in DOMAIN wire' : (i - 1) \div Chunks < Len(issued')
    BY <2>1, <2>2, <2>3
  <2>6. ASSUME NEW w \in writes'
        PROVE  /\ issued' # <<>> /\ w.msg = issued'[Len(issued')] /\ sendBuffer' = w.msg
               /\ Len(wire') = (Len(issued') - 1) * Chunks + w.sent
    <3>1. w = [msg |-> m, sent |-> 0, failed |-> FALSE]
      BY <2>1
    <3>2. w.msg = m /\ w.sent = 0
      BY <3>1
    <3>3. Len(wire') = (Len(issued') - 1) * Chunks + w.sent
      BY <1>0, <1>2, <2>1, <2>2, <3>2
    <3> QED
      BY <2>1, <2>2, <3>2, <3>3
  <2>7. writes' # {}
    BY <2>1
  <2> QED
    BY <2>4, <2>5, <2>6, <2>7 DEF WireInv
<1> QED
  BY <1>3, <1>4

\* A transfer puts the next chunk of the last message handed over on the wire.
LEMMA WireTransfer ==
    ASSUME StrandInv, TypeOK', NEW w \in writes, Transfer(w)
    PROVE  WireInv'
<1> DEFINE n == Len(issued)
<1>0. /\ Chunks \in Nat \ {0} /\ issued \in Seq(Message) /\ w \in Write
      /\ wire \in Seq((0..MaxSends) \X (1..Chunks))
  BY SendAssumption DEF StrandInv, AloneInv, TypeOK
<1>1. /\ w.sent \in 0..(Chunks - 1) /\ ~w.failed /\ w.msg = issued[n] /\ sendBuffer = w.msg
      /\ n \in Nat \ {0} /\ Len(wire) = (n - 1) * Chunks + w.sent
      /\ writes = {w}
  BY <1>0 DEF Transfer, InFlight, Write, StrandInv, WireInv, OneWrite
<1>2. /\ wire' = Append(wire, <<sendBuffer, w.sent + 1>>)
      /\ writes' = {[w EXCEPT !.sent = w.sent + 1]}
      /\ UNCHANGED << issued, sendBuffer, isSending, buffered >>
  BY <1>1 DEF Transfer, flags
<1>3. /\ Len(wire') = Len(wire) + 1 /\ DOMAIN wire' = 1..(Len(wire) + 1)
      /\ \A i \in 1..Len(wire) : wire'[i] = wire[i]
      /\ wire'[Len(wire) + 1] = <<sendBuffer, w.sent + 1>>
      /\ DOMAIN wire = 1..Len(wire) /\ Len(wire) \in Nat
  BY <1>0, <1>2
<1>4. Len(wire) % Chunks = w.sent /\ Len(wire) \div Chunks = n - 1
  BY <1>1, Division
<1>5. ASSUME NEW i \in DOMAIN wire'
      PROVE  /\ wire'[i][2] = ((i - 1) % Chunks) + 1
             /\ wire'[i][1] = issued[((i - 1) \div Chunks) + 1]
             /\ (i - 1) \div Chunks < n
  <2>1. CASE i \in DOMAIN wire
    BY <1>3, <2>1 DEF StrandInv, WireInv, WireWhole
  <2>2. CASE i = Len(wire) + 1
    <3>1. i - 1 = Len(wire)
      BY <1>3, <2>2
    <3>2. wire'[i][1] = sendBuffer /\ wire'[i][2] = w.sent + 1
      BY <1>3, <2>2
    <3>3. (n - 1) + 1 = n /\ n - 1 < n
      BY <1>1
    <3> QED
      BY <1>1, <1>4, <3>1, <3>2, <3>3
  <2> QED
    BY <1>3, <2>1, <2>2
<1>6. ASSUME NEW v \in writes'
      PROVE  /\ issued # <<>> /\ v.msg = issued[n] /\ sendBuffer = v.msg
             /\ Len(wire') = (n - 1) * Chunks + v.sent
  <2>1. v = [w EXCEPT !.sent = w.sent + 1]
    BY <1>2
  <2>2. v.msg = w.msg /\ v.sent = w.sent + 1
    BY <1>0, <2>1 DEF Write
  <2>3. (n - 1) * Chunks \in Nat
    BY <1>1, Division
  <2>4. Len(wire') = (n - 1) * Chunks + v.sent
    BY <1>1, <1>3, <2>2, <2>3
  <2>5. issued # <<>>
    BY <1>1
  <2> QED
    BY <1>1, <2>2, <2>4, <2>5
<1> QED
  BY <1>2, <1>5, <1>6 DEF WireInv, WireWhole

\* Every step keeps what is on the wire whole.
LEMMA WireStep ==
    ASSUME StrandOnly, StrandInv, [Next]_vars
    PROVE  WireInv'
<1>0. /\ TypeOK' /\ Strand \notin Callers /\ Thread = Callers \cup {Strand} /\ Strand \in Thread
      /\ WireInv /\ Chunks \in Nat \ {0} /\ TypeOK /\ issued \in Seq(Message)
  BY TypeStep, SendAssumption DEF Thread, StrandInv, AloneInv, TypeOK
<1>1. ASSUME UNCHANGED << wire, issued, writes, sendBuffer, isSending, buffered >>
      PROVE  WireInv'
  BY <1>0, <1>1 DEF WireInv, WireWhole
<1>2. ASSUME NEW t \in Thread,
             Send(t) \/ TestSending(t) \/ TestSuspend(t) \/ ReadBack(t) \/ Close(t)
               \/ CloseSocket(t) \/ ClearQueue(t)
      PROVE  WireInv'
  BY <1>1, <1>2 DEF Send, TestSending, TestSuspend, ReadBack, Close, CloseSocket, ClearQueue,
     flags, history
<1>3. ASSUME NEW t \in Thread, StartWrite(t) PROVE WireInv'
  BY <1>0, <1>3, WireStart
<1>4. ASSUME NEW t \in Thread, Suspend(t) \/ Resume(t) PROVE WireInv'
  BY <1>4 DEF Suspend, Resume, StrandOnly
<1>5. ASSUME NEW t \in Thread, Drain(t) PROVE WireInv'
  <2>1. t = Strand /\ buffered[t] = "sendingFalse"
    BY <1>0, <1>5 DEF Drain, StrandInv, AloneInv
  <2>2. UNCHANGED << wire, issued, writes, sendBuffer >>
    BY <1>5 DEF Drain, history
  <2> QED
    BY <1>0, <2>1, <2>2 DEF WireInv, WireWhole
<1>6. ASSUME NEW w \in writes, onSendCallback(w) PROVE WireInv'
  <2>1. writes = {w} /\ writes' = {} /\ UNCHANGED << wire, issued, sendBuffer >>
    BY <1>6 DEF onSendCallback, StrandInv, OneWrite, history
  <2>2. isSending /\ buffered[Strand] = "none"
    BY <2>1 DEF StrandInv, AloneInv
  <2>3. CASE w.failed
    <3>1. UNCHANGED << isSending, buffered >>
      BY <1>6, <2>3 DEF onSendCallback, flags
    <3> QED
      BY <1>0, <2>1, <2>2, <3>1 DEF WireInv, WireWhole
  <2>4. CASE ~w.failed
    <3>1. w.sent = Chunks
      BY <1>6, <2>4 DEF onSendCallback
    <3>2. issued # <<>> /\ Len(wire) = (Len(issued) - 1) * Chunks + Chunks
      BY <1>0, <2>4, <3>1 DEF WireInv
    <3>3. Len(issued) \in Nat \ {0} /\ 0 \in 0..(Chunks - 1)
      BY <1>0, <3>2
    <3>4. Len(wire) = Len(issued) * Chunks
      BY <3>2, <3>3, Division
    <3> QED
      BY <1>0, <2>1, <3>4 DEF WireInv, WireWhole
  <2> QED
    BY <2>3, <2>4
<1>7. ASSUME NEW w \in writes, Transfer(w) PROVE WireInv'
  BY <1>0, <1>7, WireTransfer
<1>8. ASSUME NEW w \in writes, FailWrite(w) PROVE WireInv'
  <2>1. /\ writes = {w} /\ writes' = {[w EXCEPT !.failed = TRUE]}
        /\ UNCHANGED << wire, issued, sendBuffer, isSending, buffered >>
    BY <1>8 DEF FailWrite, StrandInv, OneWrite, history, flags
  <2>2. w \in Write
    BY <1>0 DEF TypeOK
  <2>3. \A v \in writes' : v.msg = w.msg /\ v.failed
    BY <2>1, <2>2 DEF Write
  <2> QED
    BY <1>0, <2>1, <2>3 DEF WireInv, WireWhole
<1>9. CASE PeerLost \/ UNCHANGED vars
  BY <1>1, <1>9 DEF PeerLost, vars, flags, history
<1> QED
  BY <1>2, <1>3, <1>4, <1>5, <1>6, <1>7, <1>8, <1>9 DEF Next, Progress

\* Every reachable state of a session that only its strand sends on.
LEMMA StrandCorrect == ASSUME StrandOnly PROVE Spec => []StrandInv
<1>1. StrandInv /\ [Next]_vars => StrandInv'
  <2> SUFFICES ASSUME StrandInv, [Next]_vars PROVE StrandInv'
    OBVIOUS
  <2>1. AloneInv' /\ OneWrite'
    BY AloneStep DEF StrandInv, OneWrite
  <2> QED
    BY <2>1, ClearedStep, WireStep DEF StrandInv
<1> QED
  BY StrandInit, <1>1, PTL DEF Spec

\* With sends from the strand only, the peer reads the messages in the order in which
\* they were handed over, each whole, from its first chunk to its last.
THEOREM WireCorrect == ASSUME StrandOnly PROVE Spec => []WireWhole
<1>1. StrandInv => WireWhole
  BY DEF StrandInv, WireInv
<1> QED
  BY <1>1, StrandCorrect, PTL

(***************************************************************************)
(* The refinement, step by step: a send is an Accept; the last transfer of *)
(* a write is the Transmit; a write that fails and close() are a Discard;  *)
(* the other steps change nothing of the channel.                          *)
(***************************************************************************)
\* Multiples of Chunks.
LEMMA Multiples ==
    ASSUME NEW q \in Nat, NEW k \in 1..q
    PROVE  k * Chunks \in 1..(q * Chunks)
<1>1. Chunks \in Nat \ {0} /\ k \in Nat \ {0} /\ q - k \in Nat
  BY SendAssumption
<1>2. (q - k) * Chunks \in Nat /\ k * Chunks \in Nat \ {0}
  BY <1>1
<1>3. q * Chunks = k * Chunks + (q - k) * Chunks
  BY <1>1
<1> QED
  BY <1>2, <1>3

\* The choice from a set of one.
LEMMA TheOne == ASSUME NEW w, NEW S, S = {w} PROVE (CHOOSE x \in S : TRUE) = w
OBVIOUS

\* What is pending: the message of the write in flight, if there is one, and the queue.
LEMMA PendingIs ==
    ASSUME StrandInv
    PROVE  /\ InFlight = {} => Pending = queue
           /\ \A w \in InFlight : Pending = <<w.msg>> \o queue
           /\ \A w \in InFlight : InFlight = {w}
<1>1. ASSUME NEW w \in InFlight PROVE InFlight = {w} /\ Pending = <<w.msg>> \o queue
  <2>1. InFlight = {w}
    BY DEF StrandInv, OneWrite, InFlight
  <2>2. (CHOOSE x \in InFlight : TRUE) = w
    BY <2>1, TheOne
  <2> QED
    BY <2>1, <2>2 DEF Pending
<1>2. InFlight = {} => Pending = queue
  BY DEF Pending
<1> QED
  BY <1>1, <1>2

\* The same of the next state.
LEMMA PendingWillBe ==
    ASSUME StrandInv'
    PROVE  /\ InFlight' = {} => Pending' = queue'
           /\ \A w \in InFlight' : Pending' = <<w.msg>> \o queue'
           /\ \A w \in InFlight' : InFlight' = {w}
<1>1. ASSUME NEW w \in InFlight' PROVE InFlight' = {w} /\ Pending' = <<w.msg>> \o queue'
  <2>1. InFlight' = {w}
    BY DEF StrandInv, OneWrite, InFlight
  <2>2. (CHOOSE x \in InFlight' : TRUE) = w
    BY <2>1, TheOne
  <2> QED
    BY <2>1, <2>2 DEF Pending
<1>2. InFlight' = {} => Pending' = queue'
  BY DEF Pending
<1> QED
  BY <1>1, <1>2

\* The first message in a sequence, and those after it.
LEMMA FirstAndRest ==
    ASSUME NEW S, NEW x \in S, NEW q \in Seq(S)
    PROVE  /\ <<x>> \o q \in Seq(S) /\ <<x>> \o q # <<>>
           /\ Len(<<x>> \o q) = Len(q) + 1
           /\ Head(<<x>> \o q) = x /\ Tail(<<x>> \o q) = q
           /\ \A y \in S : <<x>> \o Append(q, y) = Append(<<x>> \o q, y)
           /\ SubSeq(<<x>> \o q, 1, 0) \o SubSeq(<<x>> \o q, 2, Len(<<x>> \o q)) = q
           /\ SubSeq(<<x>> \o q, 1, 1) \o SubSeq(<<x>> \o q, Len(q) + 2, Len(<<x>> \o q)) = <<x>>
<1> DEFINE p == <<x>> \o q
<1>1. /\ p \in Seq(S) /\ p # <<>> /\ Len(p) = Len(q) + 1 /\ Len(q) \in Nat
      /\ p[1] = x /\ \A i \in 1..Len(q) : p[i + 1] = q[i]
  OBVIOUS
<1> HIDE DEF p
<1>2. Head(p) = x
  BY <1>1
<1>3. Tail(p) = q
  <2>1. Tail(p) \in Seq(S) /\ Len(Tail(p)) = Len(q) /\ \A i \in 1..Len(q) : Tail(p)[i] = q[i]
    BY <1>1
  <2> QED
    BY <2>1, SeqEqual
<1>4. ASSUME NEW y \in S PROVE <<x>> \o Append(q, y) = Append(p, y)
  <2> DEFINE a == <<x>> \o Append(q, y)
  <2> DEFINE b == Append(p, y)
  <2>1. /\ a \in Seq(S) /\ Len(a) = Len(q) + 2 /\ a[1] = x
        /\ \A i \in 2..(Len(q) + 2) : a[i] = Append(q, y)[i - 1]
    <3>1. Append(q, y) \in Seq(S) /\ Len(Append(q, y)) = Len(q) + 1
      OBVIOUS
    <3> QED
      BY <1>1, <3>1
  <2>2. /\ b \in Seq(S) /\ Len(b) = Len(q) + 2 /\ b[1] = x
        /\ b[Len(q) + 2] = y
        /\ \A i \in 2..(Len(q) + 1) : b[i] = q[i - 1]
    <3>1. \A i \in 2..(Len(q) + 1) : i - 1 \in 1..Len(q) /\ (i - 1) + 1 = i
      BY <1>1
    <3> QED
      BY <1>1, <3>1
  <2>3. \A i \in 2..(Len(q) + 1) : Append(q, y)[i - 1] = q[i - 1]
    BY <1>1
  <2>4. Append(q, y)[Len(q) + 1] = y
    OBVIOUS
  <2>5. \A i \in 1..Len(a) : a[i] = b[i]
    BY <1>1, <2>1, <2>2, <2>3, <2>4
  <2> HIDE DEF a, b
  <2>6. a = b
    BY <2>1, <2>2, <2>5, SeqEqual
  <2> QED
    BY <2>6 DEF a, b
<1>5. SubSeq(p, 1, 0) = <<>> /\ SubSeq(p, Len(q) + 2, Len(p)) = <<>>
  BY <1>1
<1>6. SubSeq(p, 2, Len(p)) = q /\ SubSeq(p, 1, 1) = <<x>>
  <2>1. /\ SubSeq(p, 2, Len(p)) \in Seq(S) /\ Len(SubSeq(p, 2, Len(p))) = Len(q)
        /\ \A i \in 1..Len(q) : SubSeq(p, 2, Len(p))[i] = q[i]
    BY <1>1
  <2>2. SubSeq(p, 2, Len(p)) = q
    BY <2>1, SeqEqual
  <2>3. /\ SubSeq(p, 1, 1) \in Seq(S) /\ Len(SubSeq(p, 1, 1)) = 1 /\ SubSeq(p, 1, 1)[1] = x
        /\ <<x>> \in Seq(S) /\ Len(<<x>>) = 1 /\ <<x>>[1] = x
    BY <1>1
  <2>4. SubSeq(p, 1, 1) = <<x>>
    <3>1. \A i \in 1..1 : SubSeq(p, 1, 1)[i] = <<x>>[i]
      <4>1. \A i \in 1..1 : i = 1
        OBVIOUS
      <4> QED
        BY <2>3, <4>1
    <3> QED
      BY <2>3, <3>1, SeqEqual
  <2> QED
    BY <2>2, <2>4
<1>7. SubSeq(p, 1, 0) \o SubSeq(p, 2, Len(p)) = q
  BY <1>5, <1>6
<1>8. SubSeq(p, 1, 1) \o SubSeq(p, Len(q) + 2, Len(p)) = <<x>>
  <2>1. <<x>> \o <<>> = <<x>>
    <3>1. <<x>> \in Seq(S)
      OBVIOUS
    <3> QED
      BY <3>1
  <2> QED
    BY <1>5, <1>6, <2>1
<1> QED
  BY <1>1, <1>2, <1>3, <1>4, <1>7, <1>8 DEF p

\* A function on 1..n is a sequence of n elements.
LEMMA SeqOf ==
    ASSUME NEW S, NEW m \in Nat, NEW f \in [1..m -> S]
    PROVE  f \in Seq(S) /\ Len(f) = m
OBVIOUS

\* A transfer: the messages that are on the wire do not change, or, with the last chunk,
\* the message is the next of them.
LEMMA OnWireTransfer ==
    ASSUME StrandInv, NEW w \in writes, Transfer(w)
    PROVE  /\ w.sent + 1 < Chunks => OnWire' = OnWire
           /\ w.sent + 1 = Chunks => OnWire' = Append(OnWire, w.msg)
<1> DEFINE n == Len(issued)
<1>0. /\ Chunks \in Nat \ {0} /\ w \in Write
      /\ wire \in Seq((0..MaxSends) \X (1..Chunks)) /\ issued \in Seq(Message)
  BY SendAssumption DEF StrandInv, AloneInv, TypeOK
<1>1. /\ w.sent \in 0..(Chunks - 1) /\ sendBuffer = w.msg /\ w.msg \in Message
      /\ n \in Nat \ {0} /\ Len(wire) = (n - 1) * Chunks + w.sent
  <2>1. w.sent \in 0..(Chunks - 1) /\ ~w.failed /\ w.msg \in Message
    BY <1>0 DEF Transfer, InFlight, Write
  <2>2. issued # <<>> /\ sendBuffer = w.msg /\ Len(wire) = (n - 1) * Chunks + w.sent
    BY <2>1 DEF StrandInv, WireInv
  <2>3. n \in Nat \ {0}
    BY <1>0, <2>2
  <2> QED
    BY <2>1, <2>2, <2>3
<1>2. wire' = Append(wire, <<sendBuffer, w.sent + 1>>)
  BY DEF Transfer
<1>3. /\ Len(wire') = Len(wire) + 1 /\ Len(wire) \in Nat
      /\ \A i \in 1..Len(wire) : wire'[i] = wire[i]
      /\ wire'[Len(wire) + 1] = <<sendBuffer, w.sent + 1>>
  BY <1>0, <1>2
<1>4. Len(wire) \div Chunks = n - 1 /\ (n - 1) * Chunks \in Nat /\ n * Chunks = (n - 1) * Chunks + Chunks
  <2>1. n - 1 \in Nat /\ n \in Nat /\ 0 \in 0..(Chunks - 1)
    BY <1>0, <1>1
  <2>2. ((n - 1) * Chunks + w.sent) \div Chunks = n - 1 /\ (n - 1) * Chunks \in Nat
    BY <1>1, <2>1, Division
  <2>3. (n - 1) * Chunks + Chunks = n * Chunks
    BY <2>1, Division
  <2> QED
    BY <1>1, <2>2, <2>3
<1>5. \A k \in 1..(n - 1) : k * Chunks \in 1..Len(wire) /\ wire'[k * Chunks] = wire[k * Chunks]
  <2>1. ASSUME NEW k \in 1..(n - 1) PROVE k * Chunks \in 1..Len(wire)
    <3>1. k * Chunks \in 1..((n - 1) * Chunks)
      BY <1>1, Multiples
    <3> QED
      BY <1>1, <1>4, <3>1
  <2> QED
    BY <1>3, <2>1
<1>6. OnWire = [k \in 1..(n - 1) |-> wire[k * Chunks][1]]
  BY <1>4 DEF OnWire
<1>7. CASE w.sent + 1 < Chunks
  <2>1. w.sent + 1 \in 0..(Chunks - 1) /\ Len(wire') = (n - 1) * Chunks + (w.sent + 1) /\ n - 1 \in Nat
    <3>1. PICK p \in Nat : p = (n - 1) * Chunks
      BY <1>4
    <3>2. Len(wire) = p + w.sent
      BY <1>1, <3>1
    <3>3. Len(wire') = p + (w.sent + 1)
      BY <1>1, <1>3, <3>2
    <3>4. w.sent + 1 \in 0..(Chunks - 1) /\ n - 1 \in Nat
      BY <1>0, <1>1, <1>7
    <3> QED
      BY <3>1, <3>3, <3>4
  <2>2. Len(wire') \div Chunks = n - 1
    BY <2>1, Division
  <2>3. OnWire' = [k \in 1..(n - 1) |-> wire'[k * Chunks][1]]
    BY <2>2 DEF OnWire
  <2>4. OnWire' = OnWire
    BY <1>5, <1>6, <2>3
  <2> QED
    BY <1>0, <1>1, <1>7, <2>4
<1>8. CASE w.sent + 1 = Chunks
  <2>1. Len(wire') = n * Chunks + 0 /\ 0 \in 0..(Chunks - 1) /\ n \in Nat /\ Len(wire') = n * Chunks
    BY <1>0, <1>1, <1>3, <1>4, <1>8
  <2>2. Len(wire') \div Chunks = n
    BY <2>1, Division
  <2>3. OnWire' = [k \in 1..n |-> wire'[k * Chunks][1]]
    BY <2>2 DEF OnWire
  <2>4. wire'[n * Chunks][1] = w.msg
    BY <1>1, <1>3, <2>1
  <2>5. /\ OnWire \in Seq(0..MaxSends) /\ Len(OnWire) = n - 1
        /\ OnWire' \in Seq(0..MaxSends) /\ Len(OnWire') = n
    <3>1. \A k \in 1..(n - 1) : wire[k * Chunks][1] \in 0..MaxSends
      BY <1>0, <1>5
    <3>2. OnWire \in [1..(n - 1) -> 0..MaxSends] /\ n - 1 \in Nat
      BY <1>1, <1>6, <3>1
    <3>3. \A k \in 1..n : wire'[k * Chunks][1] \in 0..MaxSends
      <4>1. w.msg \in 0..MaxSends
        BY <1>1, SendAssumption DEF Message
      <4>2. \A k \in 1..n : k = n \/ k \in 1..(n - 1)
        BY <1>1
      <4> QED
        BY <1>5, <2>4, <3>1, <4>1, <4>2
    <3>4. OnWire' \in [1..n -> 0..MaxSends] /\ n \in Nat
      BY <1>1, <2>3, <3>3
    <3> QED
      BY <3>2, <3>4, SeqOf
  <2>6. w.msg \in 0..MaxSends
    BY <1>1, SendAssumption DEF Message
  <2> DEFINE b == Append(OnWire, w.msg)
  <2>7. /\ b \in Seq(0..MaxSends) /\ Len(b) = n /\ b[n] = w.msg
        /\ \A k \in 1..(n - 1) : b[k] = OnWire[k]
    BY <1>1, <2>5, <2>6
  <2>8. \A k \in 1..n : OnWire'[k] = b[k]
    <3>1. \A k \in 1..(n - 1) : OnWire'[k] = OnWire[k]
      BY <1>1, <1>5, <1>6, <2>3
    <3>2. OnWire'[n] = w.msg /\ \A k \in 1..n : k = n \/ k \in 1..(n - 1)
      BY <1>1, <2>3, <2>4
    <3> QED
      BY <2>7, <3>1, <3>2
  <2> HIDE DEF b
  <2>9. OnWire' = b
    BY <2>5, <2>7, <2>8, SeqEqual
  <2> QED
    BY <1>0, <1>1, <1>8, <2>9 DEF b
<1> QED
  BY <1>7, <1>8

\* Every step of the session is a step of the channel, or leaves it as it is.
LEMMA ChannelStep ==
    ASSUME StrandInv, StrandInv', [Next]_vars
    PROVE  [Channel!Next]_(Channel!chanVars)
<1> DEFINE Goal == Channel!Next \/ UNCHANGED << Pending, OnWire >>
<1> SUFFICES Goal
  BY DEF Channel!chanVars
<1>0. /\ queue \in Seq(Message) /\ queue' \in Seq(Message) /\ writes \subseteq Write
      /\ Chunks \in Nat \ {0}
      /\ \A w \in InFlight : w.msg \in Message
  BY SendAssumption DEF StrandInv, AloneInv, TypeOK, InFlight, Write
<1>1. ASSUME UNCHANGED << queue, writes, wire >> PROVE Goal
  BY <1>1 DEF Pending, InFlight, OnWire
<1>2. ASSUME NEW t \in Thread, Send(t) PROVE Goal
  <2>1. /\ queue' = Append(queue, accepted + 1) /\ UNCHANGED << writes, wire >>
        /\ accepted + 1 \in Message
    BY <1>2, SendAssumption DEF Send, StrandInv, AloneInv, TypeOK, Message
  <2>2. OnWire' = OnWire /\ InFlight' = InFlight
    BY <2>1 DEF OnWire, InFlight
  <2>3. Pending' = Append(Pending, accepted + 1)
    <3>1. CASE InFlight = {}
      BY <2>1, <2>2, <3>1, PendingIs, PendingWillBe
    <3>2. ASSUME NEW w \in InFlight PROVE Pending' = Append(Pending, accepted + 1)
      <4>1. Pending = <<w.msg>> \o queue /\ Pending' = <<w.msg>> \o Append(queue, accepted + 1)
        BY <2>1, <2>2, PendingIs, PendingWillBe
      <4>2. w.msg \in Message
        BY <1>0
      <4> QED
        BY <1>0, <2>1, <4>1, <4>2, FirstAndRest
    <3> QED
      BY <3>1, <3>2
  <2> QED
    BY <2>1, <2>2, <2>3 DEF Channel!Next, Channel!Accept
<1>3. ASSUME NEW t \in Thread, StartWrite(t) PROVE Goal
  <2>1. t = Strand /\ writes = {} /\ InFlight = {} /\ wire' = wire
    BY <1>3, SendAssumption DEF StartWrite, Goto, StrandInv, AloneInv, Thread, InFlight
  <2>2. CASE queue = <<>>
    BY <1>1, <1>3, <2>1, <2>2 DEF StartWrite
  <2>3. CASE queue # <<>>
    <3>1. PICK m \in Message : m = Head(queue)
      BY <1>0, <2>3
    <3>2. writes' = {[msg |-> m, sent |-> 0, failed |-> FALSE]} /\ queue' = Tail(queue)
      BY <1>3, <2>1, <2>3, <3>1 DEF StartWrite, sendImmediately
    <3>3. \E w \in InFlight' : w.msg = m
      <4> DEFINE v == [msg |-> m, sent |-> 0, failed |-> FALSE]
      <4>1. v \in writes' /\ v.msg = m /\ v.sent = 0 /\ ~v.failed
        BY <3>2
      <4> HIDE DEF v
      <4>2. v \in InFlight'
        BY <1>0, <4>1 DEF InFlight
      <4> QED
        BY <4>1, <4>2
    <3>4. Pending' = <<m>> \o Tail(queue) /\ Pending = queue
      BY <2>1, <3>2, <3>3, PendingIs, PendingWillBe
    <3>5. <<m>> \o Tail(queue) = queue
      <4> DEFINE b == <<m>> \o Tail(queue)
      <4>1. b \in Seq(Message) /\ Len(b) = Len(queue) /\ \A i \in 1..Len(queue) : b[i] = queue[i]
        BY <1>0, <2>3, <3>1
      <4> HIDE DEF b
      <4>2. b = queue
        BY <1>0, <4>1, SeqEqual
      <4> QED
        BY <4>2 DEF b
    <3> QED
      BY <2>1, <3>4, <3>5 DEF OnWire
  <2> QED
    BY <2>2, <2>3
<1>4. ASSUME NEW t \in Thread, ClearQueue(t) PROVE Goal
  <2>1. queue' = <<>> /\ UNCHANGED << writes, wire >>
    BY <1>4 DEF ClearQueue
  <2>2. OnWire' = OnWire /\ InFlight' = InFlight
    BY <2>1 DEF OnWire, InFlight
  <2>3. CASE queue = <<>>
    BY <1>1, <2>1, <2>3
  <2>4. CASE queue # <<>> /\ InFlight = {}
    <3>1. Pending = queue /\ Pending' = <<>>
      BY <2>1, <2>2, <2>4, PendingIs, PendingWillBe
    <3>2. /\ 1 \in 1..Len(queue) + 1 /\ Len(queue) + 1 \in 1..Len(queue) + 1 /\ 1 < Len(queue) + 1
          /\ <<>> = SubSeq(queue, 1, 1 - 1) \o SubSeq(queue, Len(queue) + 1, Len(queue))
      BY <1>0, <2>4
    <3> QED
      BY <2>2, <3>1, <3>2 DEF Channel!Next, Channel!Discard
  <2>5. ASSUME NEW w \in InFlight, queue # <<>> PROVE Goal
    <3>1. PICK m \in Message : m = w.msg
      BY <1>0
    <3>2. Pending = <<m>> \o queue /\ Pending' = <<m>> \o <<>>
      BY <2>1, <2>2, <3>1, PendingIs, PendingWillBe
    <3>3. /\ Pending' = <<m>> /\ Len(Pending) = Len(queue) + 1 /\ Len(queue) \in Nat \ {0}
          /\ <<m>> = SubSeq(Pending, 1, 1) \o SubSeq(Pending, Len(queue) + 2, Len(Pending))
      BY <1>0, <2>5, <3>2, FirstAndRest
    <3>4. /\ 2 \in 1..Len(Pending) + 1 /\ Len(queue) + 2 \in 1..Len(Pending) + 1
          /\ 2 < Len(queue) + 2 /\ 2 - 1 = 1
      BY <3>3
    <3> QED
      BY <2>2, <3>3, <3>4 DEF Channel!Next, Channel!Discard
  <2> QED
    BY <2>3, <2>4, <2>5
<1>5. ASSUME NEW w \in writes, onSendCallback(w) PROVE Goal
  <2>1. writes' = writes \ {w} /\ w \notin InFlight /\ UNCHANGED << queue, wire >>
    BY <1>0, <1>5 DEF onSendCallback, InFlight, history
  <2>2. InFlight' = InFlight
    BY <2>1 DEF InFlight
  <2> QED
    BY <2>1, <2>2 DEF Pending, OnWire
<1>6. ASSUME NEW w \in writes, Transfer(w) PROVE Goal
  <2>1. /\ w \in InFlight /\ writes = {w} /\ UNCHANGED queue /\ w \in Write
        /\ writes' = {[w EXCEPT !.sent = w.sent + 1]}
    BY <1>0, <1>6 DEF Transfer, StrandInv, OneWrite
  <2> DEFINE v == [w EXCEPT !.sent = w.sent + 1]
  <2>2. v.msg = w.msg /\ v.sent = w.sent + 1 /\ v.failed = w.failed /\ w.sent \in 0..Chunks
    BY <2>1 DEF Write
  <2>3. ~w.failed /\ w.sent < Chunks
    BY <2>1 DEF InFlight
  <2>4. Pending = <<w.msg>> \o queue /\ w.msg \in Message
    BY <1>0, <2>1, PendingIs
  <2> HIDE DEF v
  <2>5. CASE w.sent + 1 < Chunks
    <3>1. v \in InFlight'
      BY <2>1, <2>2, <2>3, <2>5 DEF InFlight, v
    <3>2. Pending' = Pending
      BY <2>1, <2>2, <2>4, <3>1, PendingWillBe
    <3> QED
      BY <1>6, <2>5, <3>2, OnWireTransfer
  <2>6. CASE w.sent + 1 = Chunks
    <3>1. InFlight' = {}
      <4>1. writes' = {v} /\ v.sent = Chunks
        BY <2>1, <2>2, <2>6 DEF v
      <4> QED
        BY <1>0, <4>1 DEF InFlight
    <3>2. Pending' = queue
      BY <2>1, <3>1, PendingWillBe
    <3>3. Pending # <<>> /\ Head(Pending) = w.msg /\ Tail(Pending) = queue
      BY <1>0, <2>4, FirstAndRest
    <3>4. OnWire' = Append(OnWire, w.msg)
      BY <1>6, <2>6, OnWireTransfer
    <3> QED
      BY <3>2, <3>3, <3>4 DEF Channel!Next, Channel!Transmit
  <2> QED
    BY <1>0, <2>2, <2>3, <2>5, <2>6
<1>7. ASSUME NEW w \in writes, FailWrite(w) PROVE Goal
  <2>1. /\ w \in InFlight /\ writes = {w} /\ UNCHANGED << queue, wire >> /\ w \in Write
        /\ writes' = {[w EXCEPT !.failed = TRUE]}
    BY <1>0, <1>7 DEF FailWrite, StrandInv, OneWrite, history
  <2>2. InFlight' = {}
    BY <2>1 DEF InFlight, Write
  <2>3. Pending' = queue /\ Pending = <<w.msg>> \o queue /\ w.msg \in Message /\ OnWire' = OnWire
    BY <1>0, <2>1, <2>2, PendingIs, PendingWillBe DEF OnWire
  <2>4. /\ Pending' = SubSeq(Pending, 1, 1 - 1) \o SubSeq(Pending, 2, Len(Pending))
        /\ Len(Pending) = Len(queue) + 1
    BY <1>0, <2>3, FirstAndRest
  <2>5. 1 \in 1..Len(Pending) + 1 /\ 2 \in 1..Len(Pending) + 1 /\ 1 < 2
    BY <1>0, <2>4
  <2> QED
    BY <2>3, <2>4, <2>5 DEF Channel!Next, Channel!Discard
<1>8. ASSUME NEW t \in Thread,
             TestSending(t) \/ TestSuspend(t) \/ Suspend(t) \/ Resume(t) \/ ReadBack(t)
               \/ Close(t) \/ CloseSocket(t) \/ Drain(t)
      PROVE  Goal
  BY <1>1, <1>8 DEF TestSending, TestSuspend, Suspend, Resume, ReadBack, Close, CloseSocket,
     Drain, history
<1>9. CASE PeerLost \/ UNCHANGED vars
  BY <1>1, <1>9 DEF PeerLost, vars, history
<1> QED
  BY <1>2, <1>3, <1>4, <1>5, <1>6, <1>7, <1>8, <1>9 DEF Next, Progress

\* A session that only its strand sends on is a first-in first-out channel that drops
\* messages only when it is closed or loses its peer.
THEOREM ChannelCorrect == ASSUME StrandOnly PROVE Spec => ImplementsChannel
<1>1. ASSUME Init PROVE Channel!Init
  <2>1. InFlight = {} /\ queue = <<>> /\ Len(wire) = 0
    BY <1>1 DEF Init, InFlight
  <2>2. 0 \div Chunks = 0
    BY SendAssumption
  <2>3. OnWire = <<>>
    BY <2>1, <2>2 DEF OnWire
  <2> QED
    BY <2>1, <2>3 DEF Channel!Init, Pending
<1>2. Init => Channel!Init
  BY <1>1
<1>3. StrandInv /\ StrandInv' /\ [Next]_vars => [Channel!Next]_(Channel!chanVars)
  BY ChannelStep
<1> QED
  BY <1>2, <1>3, StrandCorrect, PTL DEF Spec, ImplementsChannel, Channel!Spec
================================================================================

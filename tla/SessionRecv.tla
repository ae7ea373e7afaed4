------------------------------ MODULE SessionRecv ------------------------------
(***************************************************************************)
(* The receive side of XAsioTCPSession (src/asio/XAsioTCPSession.cpp): the *)
(* completion handler onRecvCallback, which runs in the strand, the queue  *)
(* m_packetBuffs[RECV] behind m_mutexs[RECV] that holds data back while    *)
(* dispatch is suspended, and the 50 ms dispatch timer (XAsioTimer) whose  *)
(* handlers run on any io thread, outside the strand.                      *)
(*                                                                         *)
(* The receive handler belongs to the owner of the session.  As            *)
(* XAsioTCPSrvSession::onRecv and XClient::onRecv do, it takes the data    *)
(* and, on an open session, asks for the next read; nothing else does, so  *)
(* a packet that is held back also holds back the reading.                 *)
(*                                                                         *)
(* m_isSuspendDispatch is a plain bool.  Its writers take m_timerMutex     *)
(* after clearing it and its reader locks after reading it, so a delayed   *)
(* store only looks like a later call, and stores are modelled as          *)
(* immediate.                                                              *)
(***************************************************************************)
EXTENDS Naturals, Sequences, FiniteSets

CONSTANTS
    Callers,        \* threads outside the strand and not running timer handlers
    Strand,         \* the strand of the session
    TimerThreads,   \* io threads that run timer handlers
    Controllers,    \* the threads that call suspendDispatch(true)
    Resumers,       \* the threads that call suspendDispatch(false)
    Closers,        \* the threads that call close
    MaxPackets,     \* bound: reads the network completes with data
    MaxDue,         \* bound: expired timer handlers that wait for an io thread
    Free            \* the value of recvLock when nobody holds the mutex

Thread == Callers \cup TimerThreads \cup {Strand}

ASSUME RecvAssumption ==
    /\ Strand \notin Callers \cup TimerThreads
    /\ Callers \cap TimerThreads = {}
    /\ Controllers \subseteq Callers \cup {Strand}
    /\ Resumers \subseteq Callers \cup {Strand}
    /\ Closers \subseteq Callers
    /\ MaxPackets \in Nat
    /\ MaxDue \in Nat \ {0}
    /\ Free \notin Thread

VARIABLES
    recvQueue,          \* m_packetBuffs[EN_SESSION_RECV_BUFFER]: packets, oldest first
    isSuspendDispatch,  \* m_isSuspendDispatch
    recvLock,           \* the thread inside the long section of processRead, or Free
    armed,              \* the dispatch timer has a wait outstanding
    due,                \* handlers of expired waits not yet run
    reads,              \* asynchronous reads outstanding
    completions,        \* read completions the strand has not run yet; 0 is an error
    inHand,             \* the packet onRecvCallback is working on, 0 for none
    open,               \* m_socket->is_open()
    broken,             \* the peer is gone
    pc,                 \* where each thread is
    received,           \* history: packets read from the socket
    dispatched,         \* history: packets given to the receive handler, in order
    dropped             \* history: packets close() cleared from the queue

control == <<isSuspendDispatch, armed, due>>
link == <<open, broken>>
reading == <<reads, completions, received>>
history == <<dispatched, dropped>>
vars == <<recvQueue, control, recvLock, reading, inHand, link, pc, history>>

\* The packets are numbered in the order the socket delivered them.
Packet == 1..MaxPackets

Goto(t, from, to) ==
    /\ pc[t] = from
    /\ pc' = [pc EXCEPT ![t] = to]

Elements(s) == {s[i] : i \in DOMAIN s}

--------------------------------------------------------------------------------
\* The owner has started the session: the first read is outstanding.
Init ==
    /\ recvQueue = <<>>
    /\ isSuspendDispatch = FALSE
    /\ recvLock = Free
    /\ armed = FALSE
    /\ due = 0
    /\ reads = 1
    /\ completions = <<>>
    /\ inHand = 0
    /\ open = TRUE
    /\ broken = FALSE
    /\ pc = [t \in Thread |-> "idle"]
    /\ received = 0
    /\ dispatched = <<>>
    /\ dropped = {}

(***************************************************************************)
(* boost::asio and the network: a read completes with data, or with an     *)
(* error once the socket is closed or the peer is gone.                    *)
(***************************************************************************)
Arrive ==
    /\ reads > 0
    /\ open /\ ~broken
    /\ received < MaxPackets
    /\ reads' = reads - 1
    /\ received' = received + 1
    /\ completions' = Append(completions, received + 1)
    /\ UNCHANGED <<recvQueue, control, recvLock, inHand, link, pc, history>>

FailRead ==
    /\ reads > 0
    /\ ~open \/ broken
    /\ reads' = reads - 1
    /\ completions' = Append(completions, 0)
    /\ UNCHANGED <<recvQueue, control, recvLock, received, inHand, link, pc, history>>

PeerLost ==
    /\ ~broken
    /\ broken' = TRUE
    /\ UNCHANGED <<recvQueue, control, recvLock, reading, inHand, open, pc, history>>

(***************************************************************************)
(* The owner's receive handler, given the packets ps: each is taken and    *)
(* followed by a request for the next read if the session is open.         *)
(***************************************************************************)
RecvHandler(ps) ==
    /\ dispatched' = dispatched \o ps
    /\ reads' = IF open THEN reads + Len(ps) ELSE reads

(***************************************************************************)
(* onRecvCallback: on an error the owner's close handler may close; else   *)
(* m_isSuspendDispatch, read without the mutex, decides whether the packet *)
(* is queued under the mutex or handed to the receive handler.             *)
(***************************************************************************)
CloseEntry == IF open THEN "closeSocket" ELSE "clear"

onRecvCallback ==
    /\ completions # <<>>
    /\ completions' = Tail(completions)
    /\ inHand' = Head(completions)
    /\ IF Head(completions) = 0
       THEN \E next \in {"idle", CloseEntry} : Goto(Strand, "idle", next)
       ELSE Goto(Strand, "idle", IF isSuspendDispatch THEN "push" ELSE "handle")
    /\ UNCHANGED <<recvQueue, control, recvLock, reads, received, link, history>>

\* Faulty: queued without the mutex.
PushUnlocked ==
    /\ Goto(Strand, "push", "idle")
    /\ recvQueue' = Append(recvQueue, inHand)
    /\ inHand' = 0
    /\ UNCHANGED <<control, recvLock, reading, link, history>>

\* Faulty: the next read is begun although the packet is held back.
PushAndRead ==
    /\ recvLock = Free
    /\ Goto(Strand, "push", "idle")
    /\ recvQueue' = Append(recvQueue, inHand)
    /\ inHand' = 0
    /\ reads' = reads + 1
    /\ UNCHANGED <<control, recvLock, completions, received, link, history>>

Push ==
    /\ recvLock = Free
    /\ Goto(Strand, "push", "idle")
    /\ recvQueue' = Append(recvQueue, inHand)
    /\ inHand' = 0
    /\ UNCHANGED <<control, recvLock, reading, link, history>>

Handle ==
    /\ Goto(Strand, "handle", "idle")
    /\ RecvHandler(<<inHand>>)
    /\ inHand' = 0
    /\ UNCHANGED <<recvQueue, control, recvLock, completions, received, link, dropped>>

(***************************************************************************)
(* suspendDispatch(b); with b false the flag is read back and the dispatch *)
(* timer is set, which cancels a wait that is outstanding but not a        *)
(* handler that is already due.                                            *)
(***************************************************************************)
Suspend(t) ==
    /\ t \in Controllers
    /\ pc[t] = "idle"
    /\ isSuspendDispatch' = TRUE
    /\ UNCHANGED <<recvQueue, armed, due, recvLock, reading, inHand, link, pc, history>>

Resume(t) ==
    /\ t \in Resumers
    /\ Goto(t, "idle", "readBack")
    /\ isSuspendDispatch' = FALSE
    /\ UNCHANGED <<recvQueue, armed, due, recvLock, reading, inHand, link, history>>

\* Faulty: suspendDispatch(false) does not set the timer.
ReadBackNoTimer(t) ==
    /\ Goto(t, "readBack", "idle")
    /\ UNCHANGED <<recvQueue, control, recvLock, reading, inHand, link, history>>

ReadBack(t) ==
    /\ Goto(t, "readBack", IF isSuspendDispatch THEN "idle" ELSE "setTimer")
    /\ UNCHANGED <<recvQueue, control, recvLock, reading, inHand, link, history>>

StartTimer(t, from) ==
    /\ Goto(t, from, "idle")
    /\ armed' = TRUE
    /\ UNCHANGED <<recvQueue, isSuspendDispatch, due, recvLock, reading, inHand, link, history>>

SetTimer(t) == StartTimer(t, "setTimer")

(***************************************************************************)
(* The timer expires; its handler runs on an io thread.  processRead, under *)
(* the mutex: an empty queue stops the timer; otherwise every packet goes  *)
(* to the receive handler, still under the mutex, the queue is cleared and *)
(* the timer is started again.                                             *)
(***************************************************************************)
Expire ==
    /\ armed
    /\ due < MaxDue
    /\ armed' = FALSE
    /\ due' = due + 1
    /\ UNCHANGED <<recvQueue, isSuspendDispatch, recvLock, reading, inHand, link, pc, history>>

onTimerHandler(t) ==
    /\ t \in TimerThreads
    /\ due > 0
    /\ due' = due - 1
    /\ Goto(t, "idle", "processRead")
    /\ UNCHANGED <<recvQueue, isSuspendDispatch, armed, recvLock, reading, inHand, link, history>>

NothingQueued(t) ==
    /\ recvLock = Free
    /\ recvQueue = <<>>
    /\ Goto(t, "processRead", "idle")
    /\ UNCHANGED <<recvQueue, control, recvLock, reading, inHand, link, history>>

DispatchQueue(t) ==
    /\ recvLock = Free
    /\ recvQueue # <<>>
    /\ recvLock' = t
    /\ RecvHandler(recvQueue)
    /\ Goto(t, "processRead", "clearRead")
    /\ UNCHANGED <<recvQueue, control, completions, received, inHand, link, dropped>>

\* Faulty: the queue is not cleared after it was dispatched.
ClearReadKeeps(t) ==
    /\ Goto(t, "clearRead", "restart")
    /\ recvLock' = Free
    /\ UNCHANGED <<recvQueue, control, reading, inHand, link, history>>

ClearRead(t) ==
    /\ Goto(t, "clearRead", "restart")
    /\ recvQueue' = <<>>
    /\ recvLock' = Free
    /\ UNCHANGED <<control, reading, inHand, link, history>>

Restart(t) == StartTimer(t, "restart")

(***************************************************************************)
(* close: the socket is shut down and closed, then the queue is cleared    *)
(* under the mutex.                                                        *)
(***************************************************************************)
Close(t) ==
    /\ t \in Closers
    /\ Goto(t, "idle", CloseEntry)
    /\ UNCHANGED <<recvQueue, control, recvLock, reading, inHand, link, history>>

CloseSocket(t) ==
    /\ Goto(t, "closeSocket", "clear")
    /\ open' = FALSE
    /\ UNCHANGED <<recvQueue, control, recvLock, reading, inHand, broken, history>>

ClearQueue(t) ==
    /\ recvLock = Free
    /\ Goto(t, "clear", "idle")
    /\ recvQueue' = <<>>
    /\ dropped' = dropped \cup Elements(recvQueue)
    /\ UNCHANGED <<control, recvLock, reading, inHand, link, dispatched>>

--------------------------------------------------------------------------------
\* The steps a thread takes to finish the call it is in.
Progress(t) ==
    \/ ReadBack(t) \/ SetTimer(t)
    \/ NothingQueued(t) \/ DispatchQueue(t) \/ ClearRead(t) \/ Restart(t)
    \/ CloseSocket(t) \/ ClearQueue(t)

StrandStep == onRecvCallback \/ Push \/ Handle

Next ==
    \/ Arrive \/ FailRead \/ PeerLost
    \/ StrandStep
    \/ Expire
    \/ \E t \in Thread :
          \/ Suspend(t) \/ Resume(t) \/ Close(t)
          \/ onTimerHandler(t)
          \/ Progress(t)

Spec == Init /\ [][Next]_vars

(***************************************************************************)
(* A thread inside a call runs on, a mutex is granted in the end, an armed *)
(* timer expires, an io thread is found for a due handler, and the strand  *)
(* runs its handlers.  Nothing obliges data to arrive or anyone to call.   *)
(***************************************************************************)
Fairness ==
    /\ \A t \in Thread : SF_vars(Progress(t))
    /\ SF_vars(StrandStep)
    /\ WF_vars(Expire)
    /\ WF_vars(\E t \in TimerThreads : onTimerHandler(t))

FairSpec == Spec /\ Fairness

--------------------------------------------------------------------------------
(***************************************************************************)
(* Types.                                                                  *)
(***************************************************************************)
PC == {"idle", "push", "handle", "readBack", "setTimer", "processRead", "clearRead",
       "restart", "closeSocket", "clear"}

TypeOK ==
    /\ recvQueue \in Seq(Packet)
    /\ isSuspendDispatch \in BOOLEAN
    /\ recvLock \in TimerThreads \cup {Free}
    /\ armed \in BOOLEAN
    /\ due \in 0..MaxDue
    /\ reads \in Nat
    /\ completions \in Seq(0..MaxPackets)
    /\ inHand \in 0..MaxPackets
    /\ open \in BOOLEAN
    /\ broken \in BOOLEAN
    /\ pc \in [Thread -> PC]
    /\ received \in 0..MaxPackets
    /\ dispatched \in Seq(Packet)
    /\ dropped \subseteq Packet

(***************************************************************************)
(* One read at a time.  There is one m_recvBuffer, so a read must not be   *)
(* begun while another is outstanding, has completed unhandled, or has its *)
(* packet held back: reads are begun from two threads, the strand and a    *)
(* timer thread, and only the hand-over of the packet keeps them apart.    *)
(***************************************************************************)
Waiting == IF \E t \in TimerThreads : pc[t] = "clearRead" THEN 0 ELSE Len(recvQueue)

OneReadAtATime ==
    reads + Len(completions) + Waiting + (IF inHand = 0 THEN 0 ELSE 1) <= 1

(***************************************************************************)
(* Order and conservation.  The receive handler gets the packets in the    *)
(* order the socket delivered them, each once, whether they come straight  *)
(* from the strand or through the queue and a timer thread; only close()   *)
(* takes a packet away.                                                    *)
(***************************************************************************)
Increasing(s) == \A i, j \in DOMAIN s : i < j => s[i] < s[j]

InOrder == Increasing(dispatched)

NothingLost ==
    Elements(dispatched) \cup Elements(recvQueue) \cup dropped
        \cup (({inHand} \cup Elements(completions)) \ {0}) = 1..received

(***************************************************************************)
(* Progress.  Data that was read reaches the receive handler unless the    *)
(* session is closed or dispatch is suspended.                             *)
(***************************************************************************)
ReceivedIsDispatched ==
    \A p \in Packet :
        received >= p ~> (p \in Elements(dispatched) \/ ~open \/ isSuspendDispatch)
================================================================================

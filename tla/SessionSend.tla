------------------------------ MODULE SessionSend ------------------------------
(***************************************************************************)
(* The send side of XAsioTCPSession (src/asio/XAsioTCPSession.cpp): the    *)
(* queue m_packetBuffs[SEND] behind m_mutexs[SEND], the flags m_isSending  *)
(* and m_isSuspendSend that are read and written without it, the one       *)
(* m_sendBuffer a write is sent from, and the completion handler           *)
(* onSendCallback, which runs in the strand of the session.                *)
(*                                                                         *)
(* Threads are the callers outside the strand and the strand itself (one   *)
(* handler at a time, on whichever io thread).  A thread's call is cut     *)
(* where another thread can get in: between the store to a flag and the    *)
(* next load, between the two unlocked tests of processSend, and between   *)
(* them and the section under the mutex, which is one step.                *)
(*                                                                         *)
(* The flags are plain bools shared by threads, a data race.  What the     *)
(* x86 builds make of it is that a store may become visible after later    *)
(* loads of its thread (store buffer) and no later than the thread's next  *)
(* lock operation; DelayedStores says whether that is allowed.             *)
(***************************************************************************)
EXTENDS Naturals, Sequences, FiniteSets

CONSTANTS
    Callers,        \* threads outside the strand of the session
    Strand,         \* the strand
    Senders,        \* the threads that call send (the strand: a recv handler that replies)
    Controllers,    \* the threads that call suspendSend
    Closers,        \* the threads that call close
    Chunks,         \* number of write_some calls an async_write needs
    MaxSends,       \* bound: messages sent in a behaviour
    DelayedStores   \* TRUE: a store to a flag may stay in a store buffer

Thread == Callers \cup {Strand}

ASSUME SendAssumption ==
    /\ IsFiniteSet(Callers)
    /\ Strand \notin Callers
    /\ Senders \subseteq Thread
    /\ Controllers \subseteq Thread
    /\ Closers \subseteq Callers
    /\ Chunks \in Nat \ {0}
    /\ MaxSends \in Nat
    /\ DelayedStores \in BOOLEAN

VARIABLES
    queue,          \* m_packetBuffs[EN_SESSION_SEND_BUFFER]: messages, oldest first
    isSending,      \* m_isSending, as memory holds it
    isSuspendSend,  \* m_isSuspendSend, as memory holds it
    buffered,       \* the store each thread has made that memory does not hold yet
    sendBuffer,     \* the message whose bytes m_sendBuffer holds, 0 at first
    open,           \* m_socket->is_open()
    broken,         \* the peer is gone: no write succeeds any more
    writes,         \* async_writes begun whose handler has not run
    pc,             \* where each thread is
    accepted,       \* history: how many messages send has queued
    issued,         \* history: messages handed to async_write, in that order
    dropped,        \* history: messages close() cleared from the queue
    wire,           \* history: chunks the peer can read, in order
    late            \* history: writes begun since memory holds m_isSuspendSend = true

flags == <<isSending, isSuspendSend, buffered, late>>
link == <<open, broken>>
history == <<accepted, issued, dropped, wire>>
vars == <<queue, flags, sendBuffer, link, writes, pc, history>>

\* The messages are numbered in the order send queued them.
Message == 1..MaxSends

\* An asynchronous write: its message, the chunks already transferred, and whether it failed.
Write == [msg : Message, sent : 0..Chunks, failed : BOOLEAN]
InFlight == {w \in writes : ~w.failed /\ w.sent < Chunks}

\* The store a thread may have pending, and the flag as the thread itself loads it.
Store == {"none", "sendingFalse", "suspendTrue", "suspendFalse"}
LoadSending(t) == isSending /\ buffered[t] # "sendingFalse"
LoadSuspend(t) ==
    \/ buffered[t] = "suspendTrue"
    \/ isSuspendSend /\ buffered[t] # "suspendFalse"

\* m_isSending and m_isSuspendSend after the store s has reached memory.
Reaches(s) ==
    /\ isSending' = (isSending /\ s # "sendingFalse")
    /\ isSuspendSend' = (s = "suspendTrue" \/ (isSuspendSend /\ s # "suspendFalse"))
    /\ late' = IF isSuspendSend /\ isSuspendSend' THEN late ELSE 0

\* Thread t stores to a flag; with DelayedStores memory may get it later.
StoreFlag(t, s) ==
    /\ buffered[t] = "none"
    /\ \/ Reaches(s) /\ UNCHANGED buffered
       \/ /\ DelayedStores
          /\ buffered' = [buffered EXCEPT ![t] = s]
          /\ UNCHANGED <<isSending, isSuspendSend, late>>

Goto(t, from, to) ==
    /\ pc[t] = from
    /\ pc' = [pc EXCEPT ![t] = to]

--------------------------------------------------------------------------------
Init ==
    /\ queue = <<>>
    /\ isSending = FALSE
    /\ isSuspendSend = FALSE
    /\ buffered = [t \in Thread |-> "none"]
    /\ sendBuffer = 0
    /\ open = TRUE
    /\ broken = FALSE
    /\ writes = {}
    /\ pc = [t \in Thread |-> "idle"]
    /\ accepted = 0
    /\ issued = <<>>
    /\ dropped = {}
    /\ wire = <<>>
    /\ late = 0

\* Faulty: send puts the message at the front of the queue.
SendAtFront(t) ==
    /\ t \in Senders
    /\ accepted < MaxSends
    /\ buffered[t] = "none"
    /\ Goto(t, "idle", "testSending")
    /\ accepted' = accepted + 1
    /\ queue' = <<accepted + 1>> \o queue
    /\ UNCHANGED <<flags, sendBuffer, link, writes, issued, dropped, wire>>

(***************************************************************************)
(* send: the copy is queued under the mutex, then processSend is called.   *)
(***************************************************************************)
Send(t) ==
    /\ t \in Senders
    /\ accepted < MaxSends
    /\ buffered[t] = "none"
    /\ Goto(t, "idle", "testSending")
    /\ accepted' = accepted + 1
    /\ queue' = Append(queue, accepted + 1)
    /\ UNCHANGED <<flags, sendBuffer, link, writes, issued, dropped, wire>>

\* Faulty: processSend without the test of m_isSending, or of m_isSuspendSend.
SendingIgnored(t) ==
    /\ Goto(t, "testSending", "testSuspend")
    /\ UNCHANGED <<queue, flags, sendBuffer, link, writes, history>>

SuspendIgnored(t) ==
    /\ Goto(t, "testSuspend", "start")
    /\ UNCHANGED <<queue, flags, sendBuffer, link, writes, history>>

(***************************************************************************)
(* processSend: m_isSending and m_isSuspendSend are tested one after the   *)
(* other and before the mutex is taken; under it the head of the queue is  *)
(* copied to m_sendBuffer, handed to async_write and popped.               *)
(***************************************************************************)
TestSending(t) ==
    /\ Goto(t, "testSending", IF LoadSending(t) THEN "idle" ELSE "testSuspend")
    /\ UNCHANGED <<queue, flags, sendBuffer, link, writes, history>>

TestSuspend(t) ==
    /\ Goto(t, "testSuspend", IF LoadSuspend(t) THEN "idle" ELSE "start")
    /\ UNCHANGED <<queue, flags, sendBuffer, link, writes, history>>

sendImmediately(m) ==
    /\ isSending' = TRUE
    /\ sendBuffer' = m
    /\ writes' = writes \cup {[msg |-> m, sent |-> 0, failed |-> FALSE]}
    /\ issued' = Append(issued, m)
    /\ late' = IF isSuspendSend THEN late + 1 ELSE late

\* Faulty: the message is sent but not popped.
StartWriteKeepsHead(t) ==
    /\ buffered[t] = "none"
    /\ Goto(t, "start", "idle")
    /\ IF queue = <<>>
       THEN UNCHANGED <<isSending, sendBuffer, writes, issued, late>>
       ELSE sendImmediately(Head(queue))
    /\ UNCHANGED <<queue, isSuspendSend, buffered, link, accepted, dropped, wire>>

StartWrite(t) ==
    /\ buffered[t] = "none"
    /\ Goto(t, "start", "idle")
    /\ IF queue = <<>>
       THEN UNCHANGED <<queue, isSending, sendBuffer, writes, issued, late>>
       ELSE sendImmediately(Head(queue)) /\ queue' = Tail(queue)
    /\ UNCHANGED <<isSuspendSend, buffered, link, accepted, dropped, wire>>

\* The first thing close() does: a socket that is not open goes straight to the queue.
CloseEntry == IF open THEN "closeSocket" ELSE "clear"

(***************************************************************************)
(* onSendCallback.  On success the flag is cleared and processSend called; *)
(* on an error the flag stays set and the close handler, which belongs to  *)
(* the owner of the session, may close it.                                 *)
(***************************************************************************)
onSendCallback(w) ==
    /\ w \in writes
    /\ writes' = writes \ {w}
    /\ \/ /\ w.failed
          /\ \E next \in {"idle", CloseEntry} : Goto(Strand, "idle", next)
          /\ buffered[Strand] = "none"
          /\ UNCHANGED flags
       \/ /\ ~w.failed
          /\ w.sent = Chunks
          /\ Goto(Strand, "idle", "testSending")
          /\ StoreFlag(Strand, "sendingFalse")
    /\ UNCHANGED <<queue, sendBuffer, link, history>>

(***************************************************************************)
(* suspendSend(b); with b false the flag is read back before processSend.  *)
(***************************************************************************)
Suspend(t) ==
    /\ t \in Controllers
    /\ pc[t] = "idle"
    /\ StoreFlag(t, "suspendTrue")
    /\ UNCHANGED <<queue, sendBuffer, link, writes, pc, history>>

\* Faulty: suspendSend(false) does not call processSend.
ResumeOnlyClears(t) ==
    /\ t \in Controllers
    /\ pc[t] = "idle"
    /\ StoreFlag(t, "suspendFalse")
    /\ UNCHANGED <<queue, sendBuffer, link, writes, pc, history>>

Resume(t) ==
    /\ t \in Controllers
    /\ Goto(t, "idle", "readBack")
    /\ StoreFlag(t, "suspendFalse")
    /\ UNCHANGED <<queue, sendBuffer, link, writes, history>>

ReadBack(t) ==
    /\ Goto(t, "readBack", IF LoadSuspend(t) THEN "idle" ELSE "testSending")
    /\ UNCHANGED <<queue, flags, sendBuffer, link, writes, history>>

(***************************************************************************)
(* close: the socket is shut down and closed, then the queue is cleared    *)
(* under the mutex.                                                        *)
(***************************************************************************)
Close(t) ==
    /\ t \in Closers
    /\ Goto(t, "idle", CloseEntry)
    /\ UNCHANGED <<queue, flags, sendBuffer, link, writes, history>>

CloseSocket(t) ==
    /\ Goto(t, "closeSocket", "clear")
    /\ open' = FALSE
    /\ UNCHANGED <<queue, flags, sendBuffer, broken, writes, history>>

ClearQueue(t) ==
    /\ buffered[t] = "none"
    /\ Goto(t, "clear", "idle")
    /\ queue' = <<>>
    /\ dropped' = dropped \cup {queue[i] : i \in DOMAIN queue}
    /\ UNCHANGED <<flags, sendBuffer, link, writes, accepted, issued, wire>>

(***************************************************************************)
(* The store buffer of a thread drains on its own.                         *)
(***************************************************************************)
Drain(t) ==
    /\ buffered[t] # "none"
    /\ Reaches(buffered[t])
    /\ buffered' = [buffered EXCEPT ![t] = "none"]
    /\ UNCHANGED <<queue, sendBuffer, link, writes, pc, history>>

(***************************************************************************)
(* boost::asio and the network.  async_write transfers the bytes that      *)
(* m_sendBuffer holds at the time of each write_some; the peer may vanish, *)
(* and a write on a dead or closed socket completes with an error.         *)
(***************************************************************************)
Transfer(w) ==
    /\ w \in InFlight
    /\ open /\ ~broken
    /\ wire' = Append(wire, <<sendBuffer, w.sent + 1>>)
    /\ writes' = (writes \ {w}) \cup {[w EXCEPT !.sent = @ + 1]}
    /\ UNCHANGED <<queue, flags, sendBuffer, link, pc, accepted, issued, dropped>>

FailWrite(w) ==
    /\ w \in InFlight
    /\ ~open \/ broken
    /\ writes' = (writes \ {w}) \cup {[w EXCEPT !.failed = TRUE]}
    /\ UNCHANGED <<queue, flags, sendBuffer, link, pc, history>>

PeerLost ==
    /\ ~broken
    /\ broken' = TRUE
    /\ UNCHANGED <<queue, flags, sendBuffer, open, writes, pc, history>>

--------------------------------------------------------------------------------
\* The steps a thread takes to finish the call it is in.
Progress(t) ==
    \/ TestSending(t) \/ TestSuspend(t) \/ StartWrite(t)
    \/ ReadBack(t)
    \/ CloseSocket(t) \/ ClearQueue(t)

Next ==
    \/ \E t \in Thread :
          \/ Send(t) \/ Suspend(t) \/ Resume(t) \/ Close(t)
          \/ Progress(t)
          \/ Drain(t)
    \/ \E w \in writes : onSendCallback(w) \/ Transfer(w) \/ FailWrite(w)
    \/ PeerLost

Spec == Init /\ [][Next]_vars

(***************************************************************************)
(* A thread inside a call runs on, a store buffer drains, the transport    *)
(* moves or fails the writes it has, and the io threads run the completion *)
(* handlers.  Nothing obliges a thread to call, or the peer to vanish.     *)
(***************************************************************************)
Fairness ==
    /\ \A t \in Thread : WF_vars(Progress(t)) /\ WF_vars(Drain(t))
    /\ WF_vars(\E w \in writes : Transfer(w) \/ FailWrite(w))
    /\ WF_vars(\E w \in writes : onSendCallback(w))

FairSpec == Spec /\ Fairness

--------------------------------------------------------------------------------
(***************************************************************************)
(* Types.                                                                  *)
(***************************************************************************)
PC == {"idle", "testSending", "testSuspend", "start", "readBack", "closeSocket", "clear"}

TypeOK ==
    /\ queue \in Seq(Message)
    /\ isSending \in BOOLEAN
    /\ isSuspendSend \in BOOLEAN
    /\ buffered \in [Thread -> Store]
    /\ sendBuffer \in 0..MaxSends
    /\ open \in BOOLEAN
    /\ broken \in BOOLEAN
    /\ writes \subseteq Write
    /\ pc \in [Thread -> PC]
    /\ accepted \in 0..MaxSends
    /\ issued \in Seq(Message)
    /\ dropped \subseteq Message
    /\ wire \in Seq((0..MaxSends) \X (1..Chunks))
    /\ late \in Nat

(***************************************************************************)
(* Order.  Whatever the flags let through, the section under the mutex     *)
(* hands messages to async_write in the order send queued them, each at    *)
(* most once, and what is still queued comes after what was handed over.   *)
(***************************************************************************)
Increasing(s) == \A i, j \in DOMAIN s : i < j => s[i] < s[j]

FirstInFirstOut == Increasing(issued \o queue)

(***************************************************************************)
(* Conservation.  Every message send accepted is queued, was handed to     *)
(* async_write, or was cleared by close(): no test of a flag and no race   *)
(* between two starters makes a message disappear or appear twice.         *)
(***************************************************************************)
Elements(s) == {s[i] : i \in DOMAIN s}

NothingLost ==
    /\ Elements(queue) \cup Elements(issued) \cup dropped = 1..accepted
    /\ Elements(queue) \cap Elements(issued) = {}
    /\ dropped \cap (Elements(queue) \cup Elements(issued)) = {}

(***************************************************************************)
(* No lost wake-up.  The tests of processSend are made without the mutex,  *)
(* so a sender may be turned away by a write that is just completing.  All *)
(* the same: while messages wait on a live, unsuspended session, a write   *)
(* is under way, or its handler is due, or a thread is still on its way    *)
(* into processSend.                                                       *)
(***************************************************************************)
Starting(t) == pc[t] \in {"testSending", "testSuspend", "start", "readBack"}
Healthy == open /\ ~broken

NoLostWakeup ==
    queue # <<>> /\ Healthy /\ ~isSuspendSend =>
        writes # {} \/ \E t \in Thread : Starting(t)

(***************************************************************************)
(* Suspension.  The test of m_isSuspendSend is made before the mutex is    *)
(* taken, so suspendSend(true) does not stop the threads that are past it; *)
(* but each of them, never the suspending one, begins one more write at    *)
(* most.                                                                   *)
(***************************************************************************)
SuspendTakesHold == late < Cardinality(Thread)

(***************************************************************************)
(* The flag.  m_isSending is documented as whether a send is under way     *)
(* (include/asio/XAsioTCP.h:140); a write that the transport still works   *)
(* on should find it set, for it is all that keeps a second write away     *)
(* from m_sendBuffer.                                                      *)
(***************************************************************************)
FlagCoversWrite == InFlight # {} => isSending

(***************************************************************************)
(* The bytes.  m_sendBuffer is one per session: the chunks the peer reads  *)
(* are those of the messages in the order they were handed over, each from *)
(* first to last, only if no second write is begun, and no second message  *)
(* copied to the buffer, under one that is still being transferred.        *)
(***************************************************************************)
WireWhole ==
    \A i \in DOMAIN wire :
        /\ wire[i][2] = ((i - 1) % Chunks) + 1
        /\ wire[i][1] = issued[((i - 1) \div Chunks) + 1]

(***************************************************************************)
(* Progress.  A queued message is handed to async_write unless the session *)
(* is closed, loses its peer, or is suspended.                             *)
(***************************************************************************)
QueuedIsIssued ==
    \A m \in Message :
        m \in Elements(queue) ~> (m \in Elements(issued) \/ ~Healthy \/ isSuspendSend)

(***************************************************************************)
(* The promise to the callers: the session implements SendChannel, as long *)
(* as one write at most is in flight.  A message is pending while it is    *)
(* queued or partly transferred; it is on the wire when the peer, which    *)
(* cuts what it reads into messages, has its last chunk.                   *)
(***************************************************************************)
OnWire == [k \in 1..(Len(wire) \div Chunks) |-> wire[k * Chunks][1]]
Pending == IF InFlight = {} THEN queue ELSE <<(CHOOSE w \in InFlight : TRUE).msg>> \o queue

Channel == INSTANCE SendChannel WITH pending <- Pending, wire <- OnWire
ImplementsChannel == Channel!Spec
================================================================================

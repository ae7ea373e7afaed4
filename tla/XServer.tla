-------------------------------- MODULE XServer --------------------------------
(***************************************************************************)
(* XServer (src/asio/XAsioServer.cpp) with the accept loop of              *)
(* XAsioTCPServer and the connect/disconnect counters of XAsioStat: the    *)
(* table m_mapSession behind m_sessionMutex, the sessions it holds, the    *)
(* 5 s update timer, and the calls of the application.                     *)
(*                                                                         *)
(* The threads are the strand of every XAsioTCPServer (one is made by each *)
(* startServer), the strand of every session, the io threads that run the  *)
(* update timer, and the application's threads.  A section under           *)
(* m_sessionMutex is one step, but for onAccept, during which the session  *)
(* already reads, and sendTo, which takes the mutex again inside it.       *)
(*                                                                         *)
(* Of a session the module keeps what the table depends on: its socket,    *)
(* its handlers, and its outstanding read and write; what they transfer is *)
(* the business of SessionSend and SessionRecv.                            *)
(***************************************************************************)
EXTENDS Integers, Sequences, FiniteSets

CONSTANTS
    Session,        \* XAsioTCPSession objects, one per accepted connection
    Server,         \* XAsioTCPServer objects, one per startServer
    TimerThreads,   \* io threads that run the update timer's handler
    Controller,     \* the application thread that starts and stops the server
    Users,          \* the application threads that close sessions and send
    AcceptNum,      \* m_iAcceptThreadNum
    StartId,        \* CLIENT_START_ID
    IdLimit,        \* 2^w for the w bits of m_iAllocateId
    AcceptMayFail,  \* TRUE: an accept can fail on an open acceptor
    CallsSendTo,    \* TRUE: the application calls sendTo
    MaxDue,         \* bound: expired handlers of the update timer not yet run
    None            \* no session, no server, no holder

Thread == Server \cup Session \cup TimerThreads \cup Users \cup {Controller}

ASSUME ServerAssumption ==
    /\ IsFiniteSet(Session)
    /\ AcceptNum \in Nat \ {0}
    /\ StartId \in Nat \ {0}
    /\ IdLimit \in Nat
    /\ Cardinality(Session) < IdLimit - StartId
    /\ AcceptMayFail \in BOOLEAN
    /\ CallsSendTo \in BOOLEAN
    /\ MaxDue \in Nat \ {0}
    /\ None \notin Thread
    \* Nobody is a thread of two kinds.
    /\ Server \cap Session = {}
    /\ TimerThreads \cap (Server \cup Session) = {}
    /\ Users \cap (Server \cup Session \cup TimerThreads) = {}
    /\ Controller \notin Server \cup Session \cup TimerThreads \cup Users

VARIABLES
    started,        \* m_bIsStarted
    current,        \* m_ptrTCPServer
    acceptor,       \* whether each server's m_acceptor is there, and open
    accepting,      \* async_accepts outstanding, per server
    accepted,       \* their completions not yet run: a session, or None for an error
    inHand,         \* the session onAcceptCallback is working on, per server
    socket,         \* the socket of each session
    lost,           \* the sessions whose peer is gone
    handlers,       \* the sessions whose m_func*Handler are set
    io,             \* the read and the write of each session
    id,             \* m_dwSessionId, 0 until it is set
    nextId,         \* m_iAllocateId
    members,        \* m_mapSession: the sessions in it (their key is their id)
    sessionMutex,   \* who holds m_sessionMutex between two steps
    armed,          \* m_timerUpdateTimer has a wait outstanding
    due,            \* handlers of expired waits not yet run
    pc,             \* where each thread is
    connects,       \* m_stat.m_iTotalConnect
    disconnects     \* m_stat.m_iTotalDisconnect

listening == <<acceptor, accepting, accepted, inHand>>
sessions == <<socket, lost, handlers, io>>
table == <<id, nextId, members>>
timer == <<armed, due>>
stat == <<connects, disconnects>>
vars == <<started, current, listening, sessions, table, sessionMutex, timer, pc, stat>>

Goto(t, from, to) ==
    /\ pc[t] = from
    /\ pc' = [pc EXCEPT ![t] = to]

Open == {s \in Session : socket[s] = "open"}

\* m_iCurConnect
current_connects == connects - disconnects

--------------------------------------------------------------------------------
\* The ids go round, so any of them may be the next by the time we look.
Init ==
    /\ started = FALSE
    /\ current = None
    /\ acceptor = [g \in Server |-> FALSE]
    /\ accepting = [g \in Server |-> 0]
    /\ accepted = [g \in Server |-> <<>>]
    /\ inHand = [g \in Server |-> None]
    /\ socket = [s \in Session |-> "none"]
    /\ lost = {}
    /\ handlers = {}
    /\ io = [s \in Session |-> [op \in {"read", "write"} |-> "none"]]
    /\ id = [s \in Session |-> 0]
    /\ nextId \in StartId..IdLimit - 1
    /\ members = {}
    /\ sessionMutex = None
    /\ armed = FALSE
    /\ due = 0
    /\ pc = [t \in Thread |-> "idle"]
    /\ connects = 0
    /\ disconnects = 0

(***************************************************************************)
(* startServer: a fresh XAsioTCPServer begins AcceptNum accepts, and the   *)
(* update timer is set (which cancels a wait that is outstanding).         *)
(***************************************************************************)
startServer ==
    /\ pc[Controller] = "idle"
    /\ ~started
    /\ started' = TRUE
    /\ \E g \in Server :
          /\ g # current /\ accepting[g] = 0 /\ accepted[g] = <<>> /\ pc[g] = "idle"
          /\ current' = g
          /\ acceptor' = [acceptor EXCEPT ![g] = TRUE]
          /\ accepting' = [accepting EXCEPT ![g] = AcceptNum]
    /\ armed' = TRUE
    /\ UNCHANGED <<accepted, inHand, sessions, table, sessionMutex, due, pc, stat>>

(***************************************************************************)
(* stopServer: m_bIsStarted is tested first; then, under the mutex, the    *)
(* acceptor and the timer are cancelled and the sessions closed.  They     *)
(* stay in the table, with their handlers, for their own errors to erase.  *)
(* The strand's test and use of m_acceptor, which this resets without a    *)
(* lock, are taken to be one step.                                         *)
(***************************************************************************)
stopServer ==
    /\ started
    /\ Goto(Controller, "idle", "stop")
    /\ UNCHANGED <<started, current, listening, sessions, table, sessionMutex, timer, stat>>

stopAll ==
    /\ sessionMutex = None
    /\ Goto(Controller, "stop", "idle")
    /\ started' = FALSE
    /\ acceptor' = [acceptor EXCEPT ![current] = FALSE]
    /\ armed' = FALSE
    /\ socket' = [s \in Session |-> IF s \in members THEN "closed" ELSE socket[s]]
    /\ UNCHANGED <<current, accepting, accepted, inHand, lost, handlers, io, table,
                   sessionMutex, due, stat>>

(***************************************************************************)
(* The network completes an accept with a new connection, or fails it.     *)
(***************************************************************************)
Complete(g, result) ==
    /\ accepting[g] > 0
    /\ accepting' = [accepting EXCEPT ![g] = @ - 1]
    /\ accepted' = [accepted EXCEPT ![g] = Append(@, result)]

Connect(g, s) ==
    /\ acceptor[g]
    /\ socket[s] = "none"
    /\ Complete(g, s)
    /\ socket' = [socket EXCEPT ![s] = "open"]
    /\ UNCHANGED <<started, current, acceptor, inHand, lost, handlers, io, table,
                   sessionMutex, timer, pc, stat>>

FailAccept(g) ==
    /\ acceptor[g] => AcceptMayFail
    /\ Complete(g, None)
    /\ UNCHANGED <<started, current, acceptor, inHand, sessions, table, sessionMutex,
                   timer, pc, stat>>

(***************************************************************************)
(* onAcceptCallback, in the strand of the server: an error ends this       *)
(* accept; a session goes to XServer::onAccept, and the next accept begins *)
(* if the acceptor is still there.                                         *)
(***************************************************************************)
onAcceptCallback(g) ==
    /\ accepted[g] # <<>>
    /\ accepted' = [accepted EXCEPT ![g] = Tail(@)]
    /\ inHand' = [inHand EXCEPT ![g] = Head(accepted[g])]
    /\ Goto(g, "idle", IF Head(accepted[g]) = None THEN "idle" ELSE "onAccept")
    /\ UNCHANGED <<started, current, acceptor, accepting, sessions, table, sessionMutex,
                   timer, stat>>

\* Faulty: the next accept is forgotten.
ProcessAcceptOnce(g) ==
    /\ Goto(g, "processAccept", "idle")
    /\ inHand' = [inHand EXCEPT ![g] = None]
    /\ UNCHANGED <<started, current, acceptor, accepting, accepted, sessions, table,
                   sessionMutex, timer, stat>>

processAccept(g) ==
    /\ Goto(g, "processAccept", "idle")
    /\ accepting' = [accepting EXCEPT ![g] = IF acceptor[g] THEN @ + 1 ELSE @]
    /\ inHand' = [inHand EXCEPT ![g] = None]
    /\ UNCHANGED <<started, current, acceptor, accepted, sessions, table, sessionMutex,
                   timer, stat>>

(***************************************************************************)
(* onAccept.  Under the mutex the session gets its id and its handlers and *)
(* begins to read; then it is entered in the table and counted.            *)
(***************************************************************************)
queryValidId == IF (nextId + 1) % IdLimit < StartId THEN StartId ELSE nextId

onAccept(g) ==
    /\ sessionMutex = None
    /\ Goto(g, "onAccept", "insert")
    /\ sessionMutex' = g
    /\ id' = [id EXCEPT ![inHand[g]] = queryValidId]
    /\ nextId' = (queryValidId + 1) % IdLimit
    /\ handlers' = handlers \cup {inHand[g]}
    /\ io' = [io EXCEPT ![inHand[g]]["read"] = "begun"]
    /\ UNCHANGED <<started, current, listening, socket, lost, members, timer, stat>>

insert(g) ==
    /\ Goto(g, "insert", "processAccept")
    /\ sessionMutex' = None
    /\ members' = members \cup {inHand[g]}
    /\ connects' = connects + 1
    /\ UNCHANGED <<started, current, listening, sessions, id, nextId, timer, disconnects>>

(***************************************************************************)
(* The network: data arrives for a read, a write is done, a peer vanishes, *)
(* and what a lost or closed socket still has outstanding fails.           *)
(***************************************************************************)
Finish(s, op, result) ==
    /\ io[s][op] = "begun"
    /\ io' = [io EXCEPT ![s][op] = result]
    /\ UNCHANGED <<started, current, listening, socket, lost, handlers, table,
                   sessionMutex, timer, pc, stat>>

Arrive(s) == s \in Open \ lost /\ Finish(s, "read", "done")
Written(s) == s \in Open \ lost /\ Finish(s, "write", "none")
FailIO(s) == s \notin Open \ lost /\ \E op \in {"read", "write"} : Finish(s, op, "failed")

PeerLost(s) ==
    /\ s \in Open \ lost
    /\ lost' = lost \cup {s}
    /\ UNCHANGED <<started, current, listening, socket, handlers, io, table,
                   sessionMutex, timer, pc, stat>>

(***************************************************************************)
(* The completion handlers, in the strand of the session.  XAsioTCPSrv-    *)
(* Session::onRecv takes the data and reads on if the socket is open; an   *)
(* error calls the close handler if release() has not taken it away.  The  *)
(* handler is tested and called without a lock while another thread may    *)
(* set it to nullptr: the call may come after the session was erased.      *)
(***************************************************************************)
\* Faulty: onRecv does not ask for the next read.
OnRecvOnce(s) ==
    /\ pc[s] = "idle"
    /\ io[s]["read"] = "done"
    /\ io' = [io EXCEPT ![s]["read"] = "none"]
    /\ UNCHANGED <<started, current, listening, socket, lost, handlers, table,
                   sessionMutex, timer, pc, stat>>

onRecv(s) ==
    /\ pc[s] = "idle"
    /\ io[s]["read"] = "done"
    /\ io' = [io EXCEPT ![s]["read"] = IF s \in Open THEN "begun" ELSE "none"]
    /\ UNCHANGED <<started, current, listening, socket, lost, handlers, table,
                   sessionMutex, timer, pc, stat>>

\* Faulty: the close handler is called for every error.
OnErrorAgain(s) ==
    /\ \E op \in {"read", "write"} :
          /\ io[s][op] = "failed"
          /\ io' = [io EXCEPT ![s][op] = "none"]
    /\ Goto(s, "idle", "onSessionClose")
    /\ UNCHANGED <<started, current, listening, socket, lost, handlers, table,
                   sessionMutex, timer, stat>>

onError(s) ==
    /\ \E op \in {"read", "write"} :
          /\ io[s][op] = "failed"
          /\ io' = [io EXCEPT ![s][op] = "none"]
    /\ Goto(s, "idle", IF s \in handlers THEN "onSessionClose" ELSE "idle")
    /\ UNCHANGED <<started, current, listening, socket, lost, handlers, table,
                   sessionMutex, timer, stat>>

(***************************************************************************)
(* release, close and erase of the members S, as onSessionClose,           *)
(* closeSession and updateClient do it under the mutex.                    *)
(***************************************************************************)
\* Faulty: the sessions are erased but not closed.
RemoveUnclosed(S) ==
    /\ sessionMutex = None
    /\ members' = members \ S
    /\ handlers' = handlers \ S
    /\ UNCHANGED socket

Remove(S) ==
    /\ sessionMutex = None
    /\ members' = members \ S
    /\ handlers' = handlers \ S
    /\ socket' = [s \in Session |-> IF s \in S THEN "closed" ELSE socket[s]]

onSessionClose(s) ==
    /\ Remove({m \in members : id[m] = id[s]})
    /\ Goto(s, "onSessionClose", "idle")
    /\ disconnects' = disconnects + 1
    /\ UNCHANGED <<started, current, listening, lost, io, id, nextId, sessionMutex,
                   timer, connects>>

closeSession(u, i) ==
    /\ u \in Users
    /\ pc[u] = "idle"
    /\ Remove({m \in members : id[m] = i})
    /\ UNCHANGED <<started, current, listening, lost, io, id, nextId, sessionMutex,
                   timer, pc, stat>>

(***************************************************************************)
(* The update timer.  Its handler tests m_bIsStarted, removes the sessions *)
(* that have timed out (any may have) and waits again.                     *)
(***************************************************************************)
Expire ==
    /\ armed
    /\ due < MaxDue
    /\ armed' = FALSE
    /\ due' = due + 1
    /\ UNCHANGED <<started, current, listening, sessions, table, sessionMutex, pc, stat>>

onTimerUpdateCallback(t) ==
    /\ due > 0
    /\ due' = due - 1
    /\ Goto(t, "idle", IF started THEN "updateClient" ELSE "idle")
    /\ UNCHANGED <<started, current, listening, sessions, table, sessionMutex, armed, stat>>

updateClient(t) ==
    /\ \E S \in SUBSET members : Remove(S)
    /\ Goto(t, "updateClient", "wait")
    /\ UNCHANGED <<started, current, listening, lost, io, id, nextId, sessionMutex,
                   timer, stat>>

\* Faulty: the handler does not wait again.
WaitNoMore(t) ==
    /\ Goto(t, "wait", "idle")
    /\ UNCHANGED <<started, current, listening, sessions, table, sessionMutex, timer, stat>>

wait(t) ==
    /\ Goto(t, "wait", "idle")
    /\ armed' = TRUE
    /\ UNCHANGED <<started, current, listening, sessions, table, sessionMutex, due, stat>>

(***************************************************************************)
(* sendToAll begins a write on every open member.  sendTo takes the mutex  *)
(* and calls getSession, which takes it again: the caller waits for itself *)
(* (boost::mutex is not recursive).  getSession called alone returns.      *)
(***************************************************************************)
sendToAll(u) ==
    /\ u \in Users
    /\ pc[u] = "idle"
    /\ sessionMutex = None
    /\ io' = [s \in Session |->
                IF s \in members \cap Open /\ io[s]["write"] = "none"
                THEN [io[s] EXCEPT !["write"] = "begun"] ELSE io[s]]
    /\ UNCHANGED <<started, current, listening, socket, lost, handlers, table,
                   sessionMutex, timer, pc, stat>>

sendTo(u) ==
    /\ u \in Users
    /\ CallsSendTo
    /\ sessionMutex = None
    /\ Goto(u, "idle", "sendTo")
    /\ sessionMutex' = u
    /\ UNCHANGED <<started, current, listening, sessions, table, timer, stat>>

getSession(u) ==
    /\ u \in Users
    /\ \/ Goto(u, "idle", "getSession")
       \/ Goto(u, "sendTo", "getSession")
       \/ sessionMutex = None /\ Goto(u, "getSession", "idle")
    /\ UNCHANGED <<started, current, listening, sessions, table, sessionMutex, timer, stat>>

--------------------------------------------------------------------------------
ServerStep(g) == onAcceptCallback(g) \/ onAccept(g) \/ insert(g) \/ processAccept(g)
SessionStep(s) == onRecv(s) \/ onError(s) \/ onSessionClose(s)
TimerStep(t) == onTimerUpdateCallback(t) \/ updateClient(t) \/ wait(t)

Next ==
    \/ startServer \/ stopServer \/ stopAll
    \/ \E g \in Server :
          \/ ServerStep(g)
          \/ FailAccept(g)
          \/ \E s \in Session : Connect(g, s)
    \/ \E s \in Session :
          \/ SessionStep(s)
          \/ Arrive(s) \/ Written(s) \/ FailIO(s) \/ PeerLost(s)
    \/ Expire
    \/ \E t \in TimerThreads : TimerStep(t)
    \/ \E u \in Users :
          \/ \E i \in StartId..IdLimit : closeSession(u, i)
          \/ sendToAll(u) \/ sendTo(u) \/ getSession(u)

Spec == Init /\ [][Next]_vars

(***************************************************************************)
(* The io threads run the handlers they have, a call goes on, a free mutex *)
(* is granted in the end, the timer expires and a dead socket fails what   *)
(* it has.  Nobody is obliged to call, to connect, to send or to vanish.   *)
(***************************************************************************)
Fairness ==
    /\ SF_vars(stopAll)
    /\ \A g \in Server : SF_vars(ServerStep(g)) /\ WF_vars(FailAccept(g) /\ ~acceptor[g])
    /\ \A s \in Session : SF_vars(SessionStep(s)) /\ WF_vars(FailIO(s))
    /\ WF_vars(Expire)
    /\ \A t \in TimerThreads : SF_vars(TimerStep(t))
    /\ \A u \in Users : SF_vars(getSession(u) /\ pc[u] # "idle")

FairSpec == Spec /\ Fairness

--------------------------------------------------------------------------------
(***************************************************************************)
(* Types.                                                                  *)
(***************************************************************************)
PC == {"idle", "stop", "onAccept", "insert", "processAccept", "onSessionClose",
       "updateClient", "wait", "sendTo", "getSession"}

TypeOK ==
    /\ started \in BOOLEAN
    /\ current \in Server \cup {None}
    /\ acceptor \in [Server -> BOOLEAN]
    /\ accepting \in [Server -> 0..AcceptNum]
    /\ accepted \in [Server -> Seq(Session \cup {None})]
    /\ inHand \in [Server -> Session \cup {None}]
    /\ socket \in [Session -> {"none", "open", "closed"}]
    /\ lost \subseteq Session
    /\ handlers \subseteq Session
    /\ io \in [Session -> [{"read", "write"} -> {"none", "begun", "done", "failed"}]]
    /\ id \in [Session -> {0} \cup StartId..IdLimit - 2]
    /\ nextId \in StartId..IdLimit - 1
    /\ members \subseteq Session
    /\ sessionMutex \in Thread \cup {None}
    /\ armed \in BOOLEAN
    /\ due \in 0..MaxDue
    /\ pc \in [Thread -> PC]
    /\ connects \in Nat
    /\ disconnects \in Nat

(***************************************************************************)
(* No orphan.  A session that onAccept has entered in the table is in it   *)
(* as long as its socket is open, and once it is out of it its handlers    *)
(* are gone, so that nothing calls back into the erased object: four       *)
(* operations of as many threads erase, and a peer may vanish before       *)
(* onAccept is done.                                                       *)
(***************************************************************************)
Entered == {s \in Session : id[s] # 0 /\ \A g \in Server : ~(pc[g] = "insert" /\ inHand[g] = s)}

NoOrphan == TypeOK /\ \A s \in Entered \ members : s \notin Open /\ s \notin handlers

(***************************************************************************)
(* The counters.  A disconnect is counted in the error path only, outside  *)
(* the search in the table, while read and write errors, closeSession and  *)
(* the timer compete for the session: it must never be counted twice, or   *)
(* the number of current connections falls below the size of the table and *)
(* wraps.                                                                  *)
(***************************************************************************)
CountCoversTable == current_connects >= Cardinality(members)

(***************************************************************************)
(* The accept loop.  The number of listening accepts is what               *)
(* setAcceptThreadNum (include/asio/XAsioServer.h:139) was given: each of  *)
(* them waits, has completed, or is being handled, as long as the server   *)
(* is started.                                                             *)
(***************************************************************************)
KeepsListening ==
    started =>
        accepting[current] + Len(accepted[current])
            + (IF pc[current] = "idle" THEN 0 ELSE 1) = AcceptNum

(***************************************************************************)
(* The update timer of a started server always comes again, through any    *)
(* number of stops and starts with a handler of the timer under way.       *)
(***************************************************************************)
TimerAlive ==
    started => armed \/ due > 0 \/ \E t \in TimerThreads : pc[t] # "idle"

(***************************************************************************)
(* Progress.  A member whose peer is gone leaves the table, whatever the   *)
(* timer does to it, unless the server is stopped: stopServer closes       *)
(* a session that is handling data with no read left to fail, and such a   *)
(* one stays in the table.                                                 *)
(***************************************************************************)
LostIsErased ==
    \A s \in Session :
        (s \in members \cap lost \cap Open) ~> (s \notin members \/ ~started)

(***************************************************************************)
(* sendTo sends to the player with the given id                            *)
(* (include/asio/XAsioServer.h:154), that is, it returns.                  *)
(***************************************************************************)
SendToReturns == \A u \in Users : (pc[u] = "sendTo") ~> (pc[u] = "idle")
================================================================================

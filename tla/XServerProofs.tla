----------------------------- MODULE XServerProofs -----------------------------
(***************************************************************************)
(* Theorems about XServer, for any number of sessions, servers, timer      *)
(* threads and users: no session is orphaned, the connect and disconnect   *)
(* counters cover the table, and a started server goes on listening and    *)
(* keeps its timer.                                                        *)
(***************************************************************************)
EXTENDS XServer, TLAPS, FiniteSetTheorems

(***************************************************************************)
(* The inductive invariant.                                                *)
(***************************************************************************)
\* The points at which the threads of each kind can be.
Places ==
    /\ pc[Controller] \in {"idle", "stop"}
    /\ \A g \in Server : pc[g] \in {"idle", "onAccept", "insert", "processAccept"}
    /\ \A s \in Session : pc[s] \in {"idle", "onSessionClose"}
    /\ \A t \in TimerThreads : pc[t] \in {"idle", "updateClient", "wait"}
    /\ \A u \in Users : pc[u] \in {"idle", "sendTo", "getSession"}

\* Only the server of the last startServer has its acceptor, and only until stopServer
\* takes it.
Control ==
    /\ started => current \in Server
    /\ pc[Controller] = "stop" => started
    /\ \A g \in Server : acceptor[g] <=> started /\ g = current

\* An accept of a server is outstanding, completed or in hand, AcceptNum at most; none
\* gets lost while the acceptor is there, if none fails.
InUse(g) == accepting[g] + Len(accepted[g]) + (IF pc[g] = "idle" THEN 0 ELSE 1)

Accepts == \A g \in Server :
    /\ InUse(g) <= AcceptNum
    /\ ~AcceptMayFail /\ acceptor[g] =>
          /\ InUse(g) = AcceptNum
          /\ \A k \in DOMAIN accepted[g] : accepted[g][k] # None

\* A connection is accepted once: until onAccept gives it its id it is in one place.
Fresh ==
    /\ \A g \in Server : \A k \in DOMAIN accepted[g] :
          accepted[g][k] # None => socket[accepted[g][k]] # "none" /\ id[accepted[g][k]] = 0
    /\ \A g, h \in Server : \A k \in DOMAIN accepted[g] : \A l \in DOMAIN accepted[h] :
          accepted[g][k] = accepted[h][l] /\ accepted[g][k] # None => g = h /\ k = l
    /\ \A g \in Server : pc[g] # "idle" =>
          /\ inHand[g] \in Session
          /\ socket[inHand[g]] # "none"
          /\ id[inHand[g]] = 0 <=> pc[g] = "onAccept"
    /\ \A g, h \in Server :
          pc[g] = "onAccept" /\ pc[h] = "onAccept" /\ inHand[g] = inHand[h] => g = h
    /\ \A g, h \in Server : \A k \in DOMAIN accepted[h] :
          pc[g] = "onAccept" => accepted[h][k] # inHand[g]

\* A strand that is about to enter its session has the mutex.
Holder == \A g \in Server : pc[g] = "insert" => sessionMutex = g

\* The ids given out are the last ones before nextId, going round, as many as there are
\* sessions with an id; so there is one for each session, and no two have the same.
Numbered == {s \in Session : id[s] # 0}
Behind(i) == IF i < nextId THEN nextId - i ELSE nextId - i + (IdLimit - 1 - StartId)

Ids ==
    /\ \A s \in Numbered : Behind(id[s]) <= Cardinality(Numbered)
    /\ \A s, t \in Numbered : id[s] = id[t] => s = t

\* Who is in the table, who has handlers and who closes has been given an id; what is
\* out of the table is closed for good.
Entry ==
    /\ members \subseteq Entered
    /\ \A s \in Session : socket[s] = "none" => id[s] = 0
    /\ handlers \subseteq Numbered
    /\ \A s \in Session : pc[s] = "onSessionClose" => s \in Numbered
    /\ \A s \in Entered \ members : s \notin Open /\ s \notin handlers

\* A session is counted when it is entered, and once more, at most, after it is out of
\* the table.
Gone == {s \in Entered \ members : pc[s] = "idle"}

Counts ==
    /\ connects = Cardinality(Entered)
    /\ disconnects <= Cardinality(Gone)

IInv ==
    /\ TypeOK /\ Places /\ Control /\ Accepts /\ Fresh /\ Holder /\ Ids /\ Entry /\ Counts
    /\ TimerAlive

(***************************************************************************)
(* Counting sets of sessions.                                              *)
(***************************************************************************)
\* The sets of sessions are finite, and a smaller one has no more elements.
LEMMA Counting ==
    ASSUME NEW S \in SUBSET Session, NEW T \in SUBSET S
    PROVE  /\ IsFiniteSet(S) /\ IsFiniteSet(T)
           /\ Cardinality(S) \in Nat /\ Cardinality(T) \in Nat
           /\ Cardinality(T) <= Cardinality(S)
<1>1. IsFiniteSet(S)
  BY ServerAssumption, FS_Subset
<1> QED
  BY <1>1, FS_Subset, FS_CardinalityType

\* One more session is one more element.
LEMMA OneMore ==
    ASSUME NEW S \in SUBSET Session, NEW s \in Session \ S
    PROVE  Cardinality(S \cup {s}) = Cardinality(S) + 1
<1>1. IsFiniteSet(S)
  BY Counting
<1> QED
  BY <1>1, FS_AddElement

\* Entered is a set of sessions.
LEMMA EnteredType == Entered \subseteq Session
BY DEF Entered

\* Who is gone stays so, and nobody else, if no session moves.
LEMMA GoneKept ==
    ASSUME Entered' = Entered, members' = members, \A s \in Session : pc'[s] = pc[s]
    PROVE  Gone' = Gone
BY EnteredType DEF Gone

\* Nothing is counted, and who was out of the table stays out: the counts still agree.
LEMMA CountsKept ==
    ASSUME IInv, Entered' = Entered, Gone \subseteq Gone', UNCHANGED stat
    PROVE  Counts'
<1>1. Gone' \in SUBSET Session
  BY DEF Gone, Entered
<1>2. Cardinality(Gone) <= Cardinality(Gone') /\ Cardinality(Gone) \in Nat
      /\ Cardinality(Gone') \in Nat
  BY <1>1, Counting
<1> QED
  BY <1>2 DEF IInv, TypeOK, Counts, stat

\* queryValidId takes nextId, but for the last id, and there is one to take.
LEMMA ValidId ==
    ASSUME TypeOK, NEW s \in Session
    PROVE  /\ queryValidId = IF nextId = IdLimit - 1 THEN StartId ELSE nextId
           /\ queryValidId \in StartId..IdLimit - 2
           /\ (queryValidId + 1) % IdLimit = queryValidId + 1
<1>1. Cardinality(Session) \in Nat /\ Cardinality({s}) = 1 /\ 1 <= Cardinality(Session)
  <2>1. {s} \in SUBSET Session /\ Session \in SUBSET Session
    OBVIOUS
  <2> QED
    BY Counting, FS_Singleton
<1>2. /\ nextId \in StartId..IdLimit - 1 /\ StartId \in Nat \ {0} /\ IdLimit \in Nat
      /\ StartId <= IdLimit - 2
  BY <1>1, ServerAssumption DEF TypeOK
<1>3. queryValidId = IF nextId = IdLimit - 1 THEN StartId ELSE nextId
  <2>1. CASE nextId = IdLimit - 1
    <3>1. IdLimit % IdLimit = 0
      BY <1>2
    <3> QED
      BY <1>2 DEF queryValidId
  <2>2. CASE nextId # IdLimit - 1
    <3>1. (nextId + 1) % IdLimit = nextId + 1
      BY <1>2, <2>2
    <3> QED
      BY <2>2, <1>2 DEF queryValidId
  <2> QED
    BY <2>1, <2>2
<1>4. queryValidId \in StartId..IdLimit - 2
  BY <1>2, <1>3
<1>5. (queryValidId + 1) % IdLimit = queryValidId + 1
  BY <1>2, <1>4
<1> QED
  BY <1>3, <1>4, <1>5

(***************************************************************************)
(* It holds at first, and every step preserves it.                         *)
(***************************************************************************)
\* There is nothing yet.
LEMMA InitIInv == Init => IInv
<1> SUFFICES ASSUME Init PROVE IInv
  OBVIOUS
<1>1. TypeOK
  <2>1. nextId \in StartId..IdLimit - 1 /\ 0 \in {0} \cup StartId..IdLimit - 2 /\ 0 \in 0..AcceptNum
        /\ 0 \in 0..MaxDue
    BY ServerAssumption DEF Init
  <2>2. accepted \in [Server -> Seq(Session \cup {None})]
    BY DEF Init
  <2>3. io \in [Session -> [{"read", "write"} -> {"none", "begun", "done", "failed"}]]
    BY DEF Init
  <2> QED
    BY <2>1, <2>2 DEF Init, TypeOK, PC
<1>2. Places /\ Control /\ Holder /\ TimerAlive
  BY DEF Init, Places, Control, Holder, TimerAlive, Thread
<1>3. Accepts /\ Fresh
  BY ServerAssumption DEF Init, Accepts, InUse, Fresh, Thread
<1>4. Entered = {} /\ Numbered = {} /\ Gone = {}
  BY DEF Init, Entered, Numbered, Gone
<1>5. Ids /\ Entry
  BY <1>4 DEF Init, Ids, Entry, Thread
<1>6. Counts
  BY <1>4, FS_EmptySet DEF Init, Counts
<1> QED
  BY <1>1, <1>2, <1>3, <1>5, <1>6 DEF IInv

\* A server that has nothing left of an earlier start begins AcceptNum accepts.
LEMMA startServerKeeps ==
    ASSUME IInv, startServer
    PROVE  IInv'
<1>1. TypeOK'
  BY ServerAssumption DEF IInv, TypeOK, startServer, sessions, table, stat
<1>2. Control'
  BY ServerAssumption DEF IInv, TypeOK, Control, startServer
<1>3. Accepts'
  <2>1. PICK g \in Server : accepting[g] = 0 /\ accepted[g] = << >> /\ pc[g] = "idle"
          /\ acceptor' = [acceptor EXCEPT ![g] = TRUE]
          /\ accepting' = [accepting EXCEPT ![g] = AcceptNum]
          /\ g # current /\ UNCHANGED << accepted, pc >>
    BY DEF startServer
  <2>2. ~started
    BY DEF startServer
  <2>3. \A h \in Server : h # g => InUse(h)' = InUse(h) /\ acceptor'[h] = acceptor[h]
    BY <2>1 DEF InUse, IInv
  <2>4. InUse(g)' = AcceptNum /\ AcceptNum \in Nat /\ DOMAIN accepted[g] = {}
    BY <2>1, ServerAssumption DEF InUse, IInv, TypeOK
  <2> QED
    BY <2>1, <2>3, <2>4 DEF IInv, Accepts
<1>4. TimerAlive'
  BY DEF IInv, TimerAlive, startServer, sessions, table, timer, stat
<1>5. Places' /\ Fresh' /\ Holder' /\ Ids' /\ Entry' /\ Counts'
  BY DEF IInv, Places, Fresh, Holder, Ids, Entry, Counts, Behind, Entered, Gone,
     Numbered, Open, startServer, sessions, table, stat
<1> QED
  BY <1>1, <1>2, <1>3, <1>4, <1>5 DEF IInv

\* The application has seen the server started.
LEMMA stopServerKeeps ==
    ASSUME IInv, stopServer
    PROVE  IInv'
<1>1. TypeOK'
  BY DEF IInv, TypeOK, PC, stopServer, Goto, listening, sessions, table, timer, stat
<1>2. Places'
  BY ServerAssumption DEF IInv, Places, stopServer, Goto
<1>3. Control'
  BY DEF IInv, TypeOK, Control, stopServer, Goto, listening
<1>4. Accepts'
  BY ServerAssumption DEF IInv, Accepts, Thread, InUse, stopServer, Goto, listening
<1>5. Fresh'
  BY ServerAssumption DEF IInv, Fresh, stopServer, Goto, listening, sessions, table
<1>6. Holder'
  BY ServerAssumption DEF IInv, Holder, stopServer, Goto
<1>7. Entry'
  BY DEF IInv, Places, Entry, Entered, Numbered, Open, stopServer, Goto, listening,
     sessions, table
<1>8. Counts'
  <2>1. \A s \in Session : pc'[s] = pc[s]
    BY ServerAssumption DEF IInv, stopServer, Goto
  <2>2. Entered' = Entered
    BY DEF IInv, Thread, Entered, stopServer, Goto, listening, table
  <2>3. Gone' = Gone
    BY <2>1, <2>2, GoneKept DEF stopServer, table
  <2> QED
    BY <2>2, <2>3, CountsKept DEF stopServer, table
<1>9. TimerAlive'
  BY DEF IInv, Places, TimerAlive, Thread, stopServer, Goto, timer
<1>10. Ids'
  BY DEF IInv, Ids, Behind, Numbered, stopServer, Goto, table
<1> QED
  BY <1>1, <1>2, <1>3, <1>4, <1>5, <1>6, <1>7, <1>8, <1>9, <1>10 DEF IInv

\* The members are closed, and stay members.
LEMMA stopAllKeeps ==
    ASSUME IInv, stopAll
    PROVE  IInv'
<1>1. TypeOK'
  BY DEF IInv, TypeOK, PC, stopAll, Goto, table, stat
<1>2. Places'
  BY ServerAssumption DEF IInv, Places, Thread, stopAll, Goto
<1>3. Control'
  BY DEF IInv, TypeOK, Control, Thread, stopAll, Goto
<1>4. Accepts'
  BY DEF IInv, Places, Accepts, Thread, InUse, stopAll, Goto
<1>5. Fresh'
  BY DEF IInv, TypeOK, Places, Fresh, Thread, stopAll, Goto, table
<1>6. Holder'
  BY DEF IInv, TypeOK, Holder, stopAll, Goto
<1>7. Entry'
  BY DEF IInv, Entry, Thread, Entered, Numbered, Open, stopAll, Goto, table
<1>8. Counts'
  <2>1. \A s \in Session : pc'[s] = pc[s]
    BY ServerAssumption DEF IInv, stopAll, Goto
  <2>2. Entered' = Entered
    BY DEF IInv, Thread, Entered, stopAll, Goto, table
  <2>3. Gone' = Gone
    BY <2>1, <2>2, GoneKept DEF stopAll, Goto, table
  <2> QED
    BY <2>2, <2>3, CountsKept DEF stopAll, table
<1>9. TimerAlive'
  BY DEF IInv, Places, TimerAlive, Thread, stopAll
<1>10. Ids'
  BY DEF IInv, Ids, Behind, Numbered, stopAll, table
<1> QED
  BY <1>1, <1>2, <1>3, <1>4, <1>5, <1>6, <1>7, <1>8, <1>9, <1>10 DEF IInv

\* A new connection is in one queue, once.
LEMMA ConnectKeeps ==
    ASSUME IInv, NEW g \in Server, NEW s \in Session, Connect(g, s)
    PROVE  IInv'
<1>1. TypeOK'
  BY ServerAssumption DEF IInv, TypeOK, Connect, Complete, table, timer, stat
<1>2. Accepts'
  BY ServerAssumption DEF IInv, TypeOK, Places, Accepts, Thread, InUse, Connect,
     Complete, table, timer, stat
<1>3. Fresh'
  <2>1. /\ accepted' = [accepted EXCEPT ![g] = Append(accepted[g], s)]
        /\ socket[s] = "none" /\ socket' = [socket EXCEPT ![s] = "open"]
        /\ UNCHANGED << id, inHand, pc >>
    BY DEF Connect, Complete, table
  <2>2. id[s] = 0
    BY <2>1 DEF IInv, Entry
  <2>3. ASSUME NEW h \in Server, NEW k \in DOMAIN accepted'[h]
        PROVE  \/ k \in DOMAIN accepted[h] /\ accepted'[h][k] = accepted[h][k] /\ accepted[h][k] # s
               \/ h = g /\ k = Len(accepted[g]) + 1 /\ k \notin DOMAIN accepted[g] /\ accepted'[h][k] = s
    <3>1. accepted[h] \in Seq(Session \cup {None}) /\ accepted[g] \in Seq(Session \cup {None})
      BY DEF IInv, TypeOK
    <3>2. \A l \in DOMAIN accepted[h] : accepted[h][l] # s
      BY <2>1, ServerAssumption DEF IInv, Fresh, Thread
    <3>3. CASE h = g
      BY <2>1, <3>1, <3>2 DEF IInv, TypeOK
    <3>4. CASE h # g
      BY <2>1, <3>2, <3>4 DEF IInv
    <3> QED
      BY <3>3, <3>4
  <2>4. \A t \in Session : socket[t] # "none" => t # s /\ socket'[t] # "none"
    BY <2>1 DEF IInv, TypeOK
  <2>5. \A h \in Server : \A k \in DOMAIN accepted[h] : accepted[h][k] \in Session \cup {None}
    BY DEF IInv, TypeOK
  <2>6. socket'[s] # "none"
    BY <2>1 DEF IInv, TypeOK
  <2> QED
    BY <2>1, <2>2, <2>6 DEF IInv, Fresh
<1>4. Entry'
  BY DEF IInv, Entry, Entered, Numbered, Open, Connect, table, timer, stat
<1>5. Places' /\ Control' /\ Holder' /\ Ids' /\ Counts' /\ TimerAlive'
  BY DEF IInv, Places, Control, Holder, Ids, Counts, TimerAlive, Behind, Entered, Gone,
     Numbered, Connect, table, timer, stat
<1> QED
  BY <1>1, <1>2, <1>3, <1>4, <1>5 DEF IInv

\* An accept that fails has no session.
LEMMA FailAcceptKeeps ==
    ASSUME IInv, NEW g \in Server, FailAccept(g)
    PROVE  IInv'
<1>1. TypeOK'
  BY ServerAssumption DEF IInv, TypeOK, PC, FailAccept, Complete, sessions, table,
     timer, stat
<1>2. Accepts'
  BY DEF IInv, TypeOK, Places, Accepts, InUse, FailAccept, Complete, table
<1>3. Fresh'
  BY ServerAssumption DEF IInv, Places, Fresh, Thread, FailAccept, Complete, sessions,
     table, timer, stat
<1>4. Places' /\ Control' /\ Holder' /\ Ids' /\ Entry' /\ Counts' /\ TimerAlive'
  BY DEF IInv, Places, Control, Holder, Ids, Entry, Counts, TimerAlive, Behind, Entered,
     Gone, Numbered, Open, FailAccept, sessions, table, timer, stat
<1> QED
  BY <1>1, <1>2, <1>3, <1>4 DEF IInv

\* The head of the queue is in hand, or it was an error.
LEMMA onAcceptCallbackKeeps ==
    ASSUME IInv, NEW g \in Server, onAcceptCallback(g)
    PROVE  IInv'
<1>1. TypeOK'
  BY DEF IInv, TypeOK, Thread, PC, onAcceptCallback, Goto, sessions, table, timer, stat
<1>2. Places'
  BY ServerAssumption DEF IInv, Places, onAcceptCallback, Goto
<1>3. Control'
  BY DEF IInv, TypeOK, Control, onAcceptCallback, Goto
<1>4. Accepts'
  <2>1. /\ pc[g] = "idle" /\ accepted[g] # << >>
        /\ accepted' = [accepted EXCEPT ![g] = Tail(accepted[g])]
        /\ pc' = [pc EXCEPT ![g] = IF Head(accepted[g]) = None THEN "idle" ELSE "onAccept"]
        /\ UNCHANGED << acceptor, accepting >>
    BY DEF onAcceptCallback, Goto
  <2>2. /\ accepted[g] \in Seq(Session \cup {None}) /\ accepted'[g] = Tail(accepted[g])
        /\ pc'[g] = (IF Head(accepted[g]) = None THEN "idle" ELSE "onAccept")
        /\ accepting[g] \in Nat
        /\ \A h \in Server : h # g => pc'[h] = pc[h] /\ accepted'[h] = accepted[h]
    BY <2>1 DEF IInv, TypeOK, Thread
  <2>3. Len(accepted'[g]) = Len(accepted[g]) - 1 /\ 1 \in DOMAIN accepted[g]
        /\ Head(accepted[g]) = accepted[g][1]
        /\ \A k \in DOMAIN accepted'[g] :
              k + 1 \in DOMAIN accepted[g] /\ accepted'[g][k] = accepted[g][k + 1]
    <3> DEFINE q == accepted[g]
    <3>1. q \in Seq(Session \cup {None}) /\ q # << >> /\ accepted'[g] = Tail(q)
      BY <2>1, <2>2
    <3> HIDE DEF q
    <3>2. /\ Len(Tail(q)) = Len(q) - 1 /\ 1 \in DOMAIN q /\ Head(q) = q[1]
          /\ \A k \in DOMAIN Tail(q) : k + 1 \in DOMAIN q /\ Tail(q)[k] = q[k + 1]
      BY <3>1
    <3> QED
      BY <3>1 DEF q
  <2>4. \A h \in Server : h # g => InUse(h)' = InUse(h)
    BY <2>1 DEF InUse
  <2>5. InUse(g)' = IF accepted[g][1] = None THEN InUse(g) - 1 ELSE InUse(g)
    BY <2>1, <2>2, <2>3 DEF InUse
  <2>6. InUse(g) \in Nat /\ AcceptNum \in Nat
    BY <2>1, <2>2, ServerAssumption DEF InUse
  <2> QED
    BY <2>1, <2>3, <2>4, <2>5, <2>6 DEF IInv, Accepts
<1>5. Fresh'
  BY ServerAssumption DEF IInv, TypeOK, Places, Fresh, Thread, onAcceptCallback, Goto,
     listening, sessions, table, timer, stat
<1>6. Holder'
  BY DEF IInv, Holder, onAcceptCallback, Goto
<1>7. Entry'
  BY DEF IInv, Entry, Thread, Entered, Numbered, Open, onAcceptCallback, Goto, sessions,
     table
<1>8. Counts'
  <2>1. \A s \in Session : pc'[s] = pc[s]
    BY ServerAssumption DEF IInv, onAcceptCallback, Goto
  <2>2. Entered' = Entered
    BY DEF IInv, Thread, Entered, onAcceptCallback, Goto, table
  <2>3. Gone' = Gone
    BY <2>1, <2>2, GoneKept DEF onAcceptCallback, table
  <2> QED
    BY <2>2, <2>3, CountsKept DEF onAcceptCallback, table
<1>9. TimerAlive'
  BY DEF IInv, Places, TimerAlive, Thread, onAcceptCallback, Goto, timer
<1>10. Ids'
  BY DEF IInv, Ids, Behind, Numbered, onAcceptCallback, table
<1> QED
  BY <1>1, <1>2, <1>3, <1>4, <1>5, <1>6, <1>7, <1>8, <1>9, <1>10 DEF IInv

\* The session in hand gets an id that no other session has.
LEMMA onAcceptKeeps ==
    ASSUME IInv, NEW g \in Server, onAccept(g)
    PROVE  IInv'
<1>a. PICK s \in Session :
      /\ s = inHand[g] /\ socket[s] # "none" /\ id[s] = 0 /\ pc[g] = "onAccept"
      /\ \A h \in Server : h # g /\ pc[h] = "onAccept" => inHand[h] # s
      /\ \A h \in Server : pc[h] # "insert"
  BY ServerAssumption DEF IInv, Fresh, Holder, onAccept, Goto, Thread
<1>b. /\ queryValidId = IF nextId = IdLimit - 1 THEN StartId ELSE nextId
      /\ queryValidId \in StartId..IdLimit - 2
      /\ nextId' = queryValidId + 1
  BY ValidId DEF IInv, onAccept
<1>c. /\ id' = [id EXCEPT ![s] = queryValidId]
      /\ handlers' = handlers \cup {s}
      /\ io' = [io EXCEPT ![s]["read"] = "begun"]
      /\ pc' = [pc EXCEPT ![g] = "insert"] /\ sessionMutex' = g
      /\ UNCHANGED << started, current, listening, socket, lost, members, timer, stat >>
  BY <1>a DEF onAccept, Goto
<1>d. StartId \in Nat \ {0} /\ IdLimit \in Nat /\ Cardinality(Session) < IdLimit - StartId
  BY ServerAssumption
<1>e. TypeOK /\ id[s] = 0 /\ queryValidId # 0 /\ id \in [Session -> {0} \cup StartId..IdLimit - 2]
  <2>1. queryValidId # 0
    BY <1>b, <1>d
  <2> QED
    BY <1>a, <2>1 DEF IInv, TypeOK
<1>1. TypeOK'
  <2>1. nextId' \in StartId..IdLimit - 1 /\ id' \in [Session -> {0} \cup StartId..IdLimit - 2]
    BY <1>b, <1>c, <1>d, <1>e
  <2>2. io' \in [Session -> [{"read", "write"} -> {"none", "begun", "done", "failed"}]]
    BY <1>a, <1>c, <1>e DEF TypeOK
  <2> QED
    BY <1>c, <1>e, <2>1 DEF TypeOK, Thread, PC, listening, timer, stat
<1>2. Places'
  BY <1>a, <1>c, ServerAssumption DEF IInv, TypeOK, Places, Thread, listening, sessions,
     table, timer, stat
<1>3. Control'
  BY <1>c DEF IInv, Control, listening
<1>4. Accepts'
  BY <1>a, <1>c DEF IInv, Accepts, Thread, InUse, listening, timer
<1>5. Fresh'
  <2>1. \A t \in Session : id'[t] = IF t = s THEN queryValidId ELSE id[t]
    BY <1>c, <1>e
  <2>2. \A h \in Server : pc'[h] = IF h = g THEN "insert" ELSE pc[h]
    BY <1>c, <1>e DEF TypeOK, Thread
  <2>3. \A h \in Server : \A k \in DOMAIN accepted[h] :
          accepted[h][k] # s /\ (accepted[h][k] # None => accepted[h][k] \in Session)
    BY <1>a DEF IInv, TypeOK, Fresh
  <2>4. UNCHANGED << accepted, inHand, socket >>
    BY <1>c DEF listening
  <2> QED
    BY <1>a, <1>e, <2>1, <2>2, <2>3, <2>4 DEF IInv, Fresh
<1>6. Holder'
  BY <1>a, <1>c DEF IInv, Holder, Thread, listening, sessions, table, timer, stat
<1>7. Ids'
  <2>1. Numbered' = Numbered \cup {s} /\ s \in Session \ Numbered /\ Numbered \in SUBSET Session
    BY <1>c, <1>e DEF Numbered
  <2>2. Cardinality(Numbered') = Cardinality(Numbered) + 1 /\ Cardinality(Numbered) \in Nat
        /\ Cardinality(Numbered') <= Cardinality(Session) /\ Cardinality(Session) \in Nat
    <3>1. Numbered' \in SUBSET Session /\ Session \in SUBSET Session
      BY DEF Numbered
    <3> QED
      BY <2>1, OneMore, Counting
  <2>3. ASSUME NEW t \in Numbered
        PROVE  /\ id'[t] = id[t] /\ id[t] \in StartId..IdLimit - 2 /\ t # s
               /\ Behind(id[t]) <= Cardinality(Numbered)
    BY <1>c, <1>e DEF IInv, Ids, Numbered
  <2>4. ASSUME NEW t \in Numbered
        PROVE  Behind(id[t])' <= Cardinality(Numbered) + 1 /\ id[t] # queryValidId
    <3>1. nextId \in StartId..IdLimit - 1
      BY <1>e DEF TypeOK
    <3>2. Behind(id[t])' = IF id'[t] < nextId' THEN nextId' - id'[t]
                          ELSE nextId' - id'[t] + (IdLimit - 1 - StartId)
      BY DEF Behind
    <3> QED
      BY <1>b, <1>d, <2>2, <2>3 DEF Behind
  <2>5. id'[s] = queryValidId /\ Behind(id[s])' = 1
    <3>1. id'[s] = queryValidId
      BY <1>c, <1>e
    <3> QED
      BY <1>b, <1>d, <3>1 DEF Behind
  <2>6. \A t \in Numbered' : Behind(id[t])' <= Cardinality(Numbered')
    BY <2>1, <2>2, <2>4, <2>5
  <2>7. \A t, r \in Numbered' : id'[t] = id'[r] => t = r
    BY <2>1, <2>3, <2>4, <2>5 DEF IInv, Ids
  <2> QED
    BY <2>6, <2>7 DEF Ids
<1>8. Entry'
  <2>1. Entered' = Entered /\ Numbered' = Numbered \cup {s}
    <3>1. \A t \in Session : id'[t] = IF t = s THEN queryValidId ELSE id[t]
      BY <1>c, <1>e
    <3>2. \A h \in Server : pc'[h] = IF h = g THEN "insert" ELSE pc[h]
      BY <1>c, <1>e DEF TypeOK, Thread
    <3> QED
      BY <1>a, <1>c, <1>e, <3>2 DEF Entered, Numbered, listening
  <2>2. s \notin Entered /\ Open' = Open /\ members' = members /\ socket' = socket
    BY <1>a, <1>c DEF Entered, Open
  <2>3. \A t \in Session : pc'[t] = pc[t]
    BY <1>c, ServerAssumption DEF TypeOK, Thread
  <2>4. \A t \in Session : socket[t] = "none" => id'[t] = 0
    BY <1>a, <1>c, <1>e DEF IInv, Entry
  <2> QED
    BY <1>c, <2>1, <2>2, <2>4 DEF IInv, Entry
<1>9. Counts'
  <2>1. Entered' = Entered /\ Numbered' = Numbered \cup {s}
    <3>1. \A t \in Session : id'[t] = IF t = s THEN queryValidId ELSE id[t]
      BY <1>c, <1>e
    <3>2. \A h \in Server : pc'[h] = IF h = g THEN "insert" ELSE pc[h]
      BY <1>c, <1>e DEF TypeOK, Thread
    <3> QED
      BY <1>a, <1>c, <1>e, <3>2 DEF Entered, Numbered, listening
  <2>2. \A t \in Session : pc'[t] = pc[t]
    BY <1>c, <1>e, ServerAssumption DEF TypeOK, Thread
  <2>3. Gone' = Gone
    BY <1>c, <2>1, <2>2, GoneKept
  <2> QED
    BY <1>c, <2>1, <2>3, CountsKept
<1>10. TimerAlive'
  BY <1>c DEF IInv, TimerAlive, sessions, table, timer, stat
<1> QED
  BY <1>1, <1>2, <1>3, <1>4, <1>5, <1>6, <1>7, <1>8, <1>9, <1>10 DEF IInv

\* The session in hand is entered and counted.
LEMMA insertKeeps ==
    ASSUME IInv, NEW g \in Server, insert(g)
    PROVE  IInv'
<1>a. PICK s \in Session :
      /\ s = inHand[g] /\ id[s] # 0 /\ pc[g] = "insert" /\ sessionMutex = g /\ g # None
      /\ \A h \in Server : pc[h] = "insert" => h = g
  BY ServerAssumption DEF IInv, Fresh, Holder, insert, Goto, Thread
<1>b. /\ pc' = [pc EXCEPT ![g] = "processAccept"] /\ sessionMutex' = None
      /\ members' = members \cup {s} /\ connects' = connects + 1
      /\ UNCHANGED << started, current, listening, sessions, id, nextId, timer, disconnects >>
  BY <1>a DEF insert, Goto
<1>c. \A h \in Server : pc'[h] = IF h = g THEN "processAccept" ELSE pc[h]
  BY <1>b DEF IInv, TypeOK, Thread
<1>d. \A t \in Session : pc'[t] = pc[t]
  BY <1>b, ServerAssumption DEF IInv, TypeOK, Thread
<1>e. Entered' = Entered \cup {s} /\ s \notin Entered /\ s \notin members
  <2>1. Entered' = Entered \cup {s} /\ s \notin Entered
    BY <1>a, <1>b, <1>c DEF Entered
  <2> QED
    BY <2>1 DEF IInv, Entry
<1>1. TypeOK'
  <2>1. pc' \in [Thread -> PC]
    BY <1>b DEF IInv, TypeOK, PC
  <2>2. connects' \in Nat /\ disconnects' \in Nat /\ members' \subseteq Session
    BY <1>a, <1>b DEF IInv, TypeOK
  <2> QED
    BY <1>b, <2>1 DEF IInv, TypeOK, listening, sessions, timer
<1>2. Places'
  BY DEF IInv, Places, insert, Goto, sessions, listening, table, timer, stat
<1>3. Control'
  BY DEF IInv, Control, insert, Goto, listening
<1>4. Accepts'
  BY DEF IInv, Accepts, Thread, InUse, insert, Goto, listening
<1>5. Fresh'
  BY DEF IInv, Places, Fresh, Thread, insert, Goto, sessions, listening
<1>6. Holder'
  BY DEF IInv, TypeOK, Holder, insert, Goto, sessions, listening
<1>7. Entry'
  BY <1>b, <1>e DEF IInv, Entry, Numbered, Open, sessions
<1>8. Counts'
  <2>1. Entered \in SUBSET Session /\ s \in Session \ Entered
    BY <1>e DEF Entered
  <2>2. Cardinality(Entered') = Cardinality(Entered) + 1
    BY <1>e, <2>1, OneMore
  <2>3. Gone' = Gone
    BY <1>b, <1>d, <1>e, EnteredType DEF Gone
  <2> QED
    BY <1>b, <2>2, <2>3 DEF IInv, Counts
<1>9. TimerAlive'
  BY DEF IInv, TimerAlive, insert, Goto, listening, table, timer, stat
<1>10. Ids'
  BY DEF IInv, Ids, Behind, Numbered, insert
<1> QED
  BY <1>1, <1>2, <1>3, <1>4, <1>5, <1>6, <1>7, <1>8, <1>9, <1>10 DEF IInv

\* The next accept begins, if the acceptor is there.
LEMMA processAcceptKeeps ==
    ASSUME IInv, NEW g \in Server, processAccept(g)
    PROVE  IInv'
<1>1. TypeOK'
  <2>1. accepting'[g] \in 0..AcceptNum
    <3>1. accepting[g] \in 0..AcceptNum /\ Len(accepted[g]) \in Nat /\ AcceptNum \in Nat
      BY ServerAssumption DEF IInv, TypeOK
    <3>2. accepting[g] + Len(accepted[g]) + 1 <= AcceptNum
      BY DEF IInv, Accepts, InUse, processAccept, Goto
    <3> QED
      BY <3>1, <3>2 DEF processAccept, IInv, TypeOK
  <2>2. accepting' \in [Server -> 0..AcceptNum]
    BY <2>1 DEF processAccept, IInv, TypeOK
  <2> QED
    BY <2>2 DEF IInv, TypeOK, PC, processAccept, Goto, sessions, table, timer, stat
<1>2. Places'
  BY DEF IInv, TypeOK, Places, processAccept, Goto, listening, sessions, table, timer,
     stat
<1>3. Control'
  BY DEF IInv, Control, processAccept, Goto
<1>4. Accepts'
  BY ServerAssumption DEF IInv, TypeOK, Places, Accepts, Thread, InUse, processAccept,
     Goto, sessions, table, timer, stat
<1>5. Fresh'
  BY DEF IInv, TypeOK, Fresh, Thread, processAccept, Goto, sessions, table, timer
<1>6. Holder'
  BY DEF IInv, Holder, processAccept, Goto
<1>7. Entry'
  BY DEF IInv, Entry, Thread, Entered, Numbered, Open, processAccept, Goto, sessions,
     table
<1>8. Counts'
  <2>1. \A s \in Session : pc'[s] = pc[s]
    BY ServerAssumption DEF IInv, processAccept, Goto
  <2>2. Entered' = Entered
    BY DEF IInv, Thread, Entered, processAccept, Goto, table
  <2>3. Gone' = Gone
    BY <2>1, <2>2, GoneKept DEF processAccept, Goto, table
  <2> QED
    BY <2>2, <2>3, CountsKept DEF processAccept, table
<1>9. TimerAlive'
  BY DEF IInv, Places, TimerAlive, Thread, processAccept, Goto, timer
<1>10. Ids'
  BY DEF IInv, Ids, Behind, Numbered, processAccept, Goto, table
<1> QED
  BY <1>1, <1>2, <1>3, <1>4, <1>5, <1>6, <1>7, <1>8, <1>9, <1>10 DEF IInv

\* Only an outstanding operation changes.
LEMMA FinishKeeps ==
    ASSUME IInv, NEW s \in Session, NEW op \in {"read", "write"},
           NEW r \in {"none", "done", "failed"}, Finish(s, op, r)
    PROVE  IInv'
<1>1. TypeOK'
  BY DEF IInv, TypeOK, Finish, listening, table, timer, stat
<1>2. Places' /\ Control' /\ Accepts' /\ Fresh' /\ Holder' /\ Ids' /\ Entry' /\ Counts' /\ TimerAlive'
  BY DEF IInv, Places, Control, Accepts, Fresh, Holder, Ids, Entry, Counts, TimerAlive,
     Behind, Entered, Gone, InUse, Numbered, Open, Finish, listening, table, timer, stat
<1> QED
  BY <1>1, <1>2 DEF IInv

\* Only the peer changes.
LEMMA PeerLostKeeps ==
    ASSUME IInv, NEW s \in Session, PeerLost(s)
    PROVE  IInv'
<1>1. TypeOK'
  BY DEF IInv, TypeOK, PeerLost, listening, table, timer, stat
<1>2. Places' /\ Control' /\ Accepts' /\ Fresh' /\ Holder' /\ Ids' /\ Entry' /\ Counts' /\ TimerAlive'
  BY DEF IInv, Places, Control, Accepts, Fresh, Holder, Ids, Entry, Counts, TimerAlive,
     Behind, Entered, Gone, InUse, Numbered, Open, PeerLost, listening, table, timer,
     stat
<1> QED
  BY <1>1, <1>2 DEF IInv

\* Only the read changes.
LEMMA onRecvKeeps ==
    ASSUME IInv, NEW s \in Session, onRecv(s)
    PROVE  IInv'
<1>1. TypeOK'
  BY DEF IInv, TypeOK, onRecv, listening, table, timer, stat
<1>2. Places' /\ Control' /\ Accepts' /\ Fresh' /\ Holder' /\ Ids' /\ Entry' /\ Counts' /\ TimerAlive'
  BY DEF IInv, Places, Control, Accepts, Fresh, Holder, Ids, Entry, Counts, TimerAlive,
     Behind, Entered, Gone, InUse, Numbered, Open, onRecv, listening, table, timer, stat
<1> QED
  BY <1>1, <1>2 DEF IInv

\* A session that closes has its handlers still, so it is not gone.
LEMMA onErrorKeeps ==
    ASSUME IInv, NEW s \in Session, onError(s)
    PROVE  IInv'
<1>1. TypeOK'
  BY DEF IInv, TypeOK, Thread, PC, onError, Goto, listening, table, timer, stat
<1>2. Places'
  BY ServerAssumption DEF IInv, Places, onError, Goto
<1>3. Control'
  BY DEF IInv, TypeOK, Control, onError, Goto, listening
<1>4. Accepts'
  BY ServerAssumption DEF IInv, Accepts, Thread, InUse, onError, Goto, listening
<1>5. Fresh'
  BY ServerAssumption DEF IInv, Places, Fresh, onError, Goto, listening, table
<1>6. Holder'
  BY ServerAssumption DEF IInv, Holder, onError, Goto, listening
<1>7. Entry'
  BY DEF IInv, Places, Entry, Entered, Numbered, Open, onError, Goto, listening, table
<1>8. Counts'
  <2>1. Entered' = Entered
    BY DEF IInv, Entered, onError, Goto, listening, table
  <2>2. Gone \subseteq Gone'
    BY <2>1 DEF IInv, Entry, Gone, onError, Goto, listening, table
  <2> QED
    BY <2>1, <2>2, CountsKept DEF onError
<1>9. TimerAlive'
  BY DEF IInv, Places, TimerAlive, Thread, onError, Goto, timer
<1>10. Ids'
  BY DEF IInv, Ids, Behind, Numbered, onError, Goto, table
<1> QED
  BY <1>1, <1>2, <1>3, <1>4, <1>5, <1>6, <1>7, <1>8, <1>9, <1>10 DEF IInv

\* The session leaves the table, if it is there, and is gone when it is counted.
LEMMA onSessionCloseKeeps ==
    ASSUME IInv, NEW s \in Session, onSessionClose(s)
    PROVE  IInv'
<1>1. TypeOK'
  BY DEF IInv, TypeOK, Thread, PC, onSessionClose, Goto, Remove, listening, timer
<1>2. Places'
  BY DEF IInv, Places, onSessionClose, Goto
<1>3. Control'
  BY DEF IInv, Control, onSessionClose, Goto, listening
<1>4. Accepts'
  BY ServerAssumption DEF IInv, Accepts, Thread, InUse, onSessionClose, Goto, listening
<1>5. Fresh'
  BY DEF IInv, TypeOK, Fresh, onSessionClose, Goto, Remove, listening
<1>6. Holder'
  BY DEF IInv, TypeOK, Holder, onSessionClose, Goto
<1>7. Entry'
  BY DEF IInv, Entry, Thread, Entered, Numbered, Open, onSessionClose, Goto, Remove,
     listening
<1>8. Counts'
  <2>1. s \in Numbered /\ pc[s] = "onSessionClose" /\ sessionMutex = None
    BY DEF IInv, Entry, onSessionClose, Goto, Remove
  <2>2. \A g \in Server : pc[g] # "insert" /\ g # None
    BY <2>1, ServerAssumption DEF IInv, Holder, Thread
  <2>3. s \in Entered /\ s \notin Gone
    BY <2>1, <2>2 DEF Entered, Numbered, Gone
  <2>4. {m \in members : id[m] = id[s]} \subseteq {s}
    BY <2>1 DEF IInv, Entry, Ids, Entered, Numbered
  <2>5. \A m \in members : id[m] = id[s] <=> m = s
    BY <2>4
  <2>6. members' = members \ {s}
    BY <2>5 DEF onSessionClose, Remove
  <2>7. \A g \in Server : pc'[g] = pc[g]
    BY ServerAssumption DEF IInv, Thread, onSessionClose, Goto
  <2>8. \A t \in Session : pc'[t] = IF t = s THEN "idle" ELSE pc[t]
    BY DEF IInv, TypeOK, Thread, onSessionClose, Goto
  <2>9. Entered' = Entered
    BY <2>7 DEF Entered, onSessionClose, listening
  <2>10. Gone' = Gone \cup {s}
    BY <2>3, <2>6, <2>8, <2>9, EnteredType DEF Gone
  <2>11. Cardinality(Gone') = Cardinality(Gone) + 1 /\ Cardinality(Gone) \in Nat
    <3>1. Gone \in SUBSET Session /\ s \in Session \ Gone
      BY <2>3 DEF Gone, Entered
    <3> QED
      BY <2>10, <3>1, OneMore, Counting
  <2> QED
    BY <2>9, <2>11 DEF IInv, TypeOK, Counts, onSessionClose
<1>9. TimerAlive'
  BY ServerAssumption DEF IInv, TimerAlive, onSessionClose, Goto, sessions, table,
     timer, stat
<1>10. Ids'
  BY DEF IInv, Ids, Behind, Numbered, onSessionClose
<1> QED
  BY <1>1, <1>2, <1>3, <1>4, <1>5, <1>6, <1>7, <1>8, <1>9, <1>10 DEF IInv

\* Members leave the table.
LEMMA closeSessionKeeps ==
    ASSUME IInv, NEW u \in Users, NEW i, closeSession(u, i)
    PROVE  IInv'
<1>1. TypeOK'
  BY DEF IInv, TypeOK, closeSession, Remove, listening, timer, stat
<1>2. Fresh'
  BY DEF IInv, TypeOK, Fresh, closeSession, Remove, listening
<1>3. Entry'
  BY DEF IInv, Entry, Entered, Numbered, Open, closeSession, Remove, listening
<1>4. Counts'
  <2>1. Entered' = Entered
    BY DEF IInv, Entered, closeSession, listening
  <2>2. Gone \subseteq Gone'
    BY <2>1 DEF IInv, Gone, closeSession, Remove, listening
  <2> QED
    BY <2>1, <2>2, CountsKept DEF closeSession
<1>5. Places' /\ Control' /\ Accepts' /\ Holder' /\ Ids' /\ TimerAlive'
  BY DEF IInv, Places, Control, Accepts, Holder, Ids, TimerAlive, Behind, InUse,
     Numbered, closeSession, Remove, listening, timer
<1> QED
  BY <1>1, <1>2, <1>3, <1>4, <1>5 DEF IInv

\* A handler of the timer is ready.
LEMMA ExpireKeeps ==
    ASSUME IInv, Expire
    PROVE  IInv'
<1>1. TypeOK'
  <2>1. due' \in 0..MaxDue /\ armed' \in BOOLEAN
    <3>1. MaxDue \in Nat /\ due \in 0..MaxDue /\ due < MaxDue /\ due' = due + 1
      BY ServerAssumption DEF Expire, IInv, TypeOK
    <3>2. due' \in 0..MaxDue
      BY <3>1
    <3> QED
      BY <3>2 DEF Expire
  <2> QED
    BY <2>1 DEF Expire, IInv, TypeOK, listening, sessions, table, stat
<1>2. TimerAlive'
  BY DEF IInv, TypeOK, TimerAlive, Thread, Expire, listening, sessions, table, timer,
     stat
<1>3. Places' /\ Control' /\ Accepts' /\ Fresh' /\ Holder' /\ Ids' /\ Entry' /\ Counts'
  BY DEF IInv, Places, Control, Accepts, Fresh, Holder, Ids, Entry, Counts, Behind,
     Entered, Gone, InUse, Numbered, Open, Expire, listening, sessions, table, stat
<1> QED
  BY <1>1, <1>2, <1>3 DEF IInv

\* The handler goes on, if the server is started.
LEMMA onTimerUpdateCallbackKeeps ==
    ASSUME IInv, NEW t \in TimerThreads, onTimerUpdateCallback(t)
    PROVE  IInv'
<1>1. TypeOK'
  BY ServerAssumption DEF IInv, TypeOK, Thread, PC, onTimerUpdateCallback, Goto,
     listening, sessions, table, stat
<1>2. Places'
  BY ServerAssumption DEF IInv, Places, onTimerUpdateCallback, Goto
<1>3. Control'
  BY DEF IInv, TypeOK, Control, onTimerUpdateCallback, Goto, listening
<1>4. Accepts'
  BY ServerAssumption DEF IInv, Accepts, Thread, InUse, onTimerUpdateCallback, Goto,
     listening
<1>5. Fresh'
  BY ServerAssumption DEF IInv, Fresh, onTimerUpdateCallback, Goto, listening, sessions,
     table
<1>6. Holder'
  BY ServerAssumption DEF IInv, Holder, onTimerUpdateCallback, Goto
<1>7. Entry'
  BY DEF IInv, Places, Entry, Entered, Numbered, Open, onTimerUpdateCallback, Goto,
     listening, sessions, table
<1>8. Counts'
  <2>1. \A s \in Session : pc'[s] = pc[s]
    BY ServerAssumption DEF IInv, onTimerUpdateCallback, Goto
  <2>2. Entered' = Entered
    BY DEF IInv, Thread, Entered, onTimerUpdateCallback, Goto, listening, table
  <2>3. Gone' = Gone
    BY <2>1, <2>2, GoneKept DEF onTimerUpdateCallback, table
  <2> QED
    BY <2>2, <2>3, CountsKept DEF onTimerUpdateCallback, table
<1>9. TimerAlive'
  BY DEF IInv, TypeOK, Places, TimerAlive, Thread, onTimerUpdateCallback, Goto
<1>10. Ids'
  BY DEF IInv, Ids, Behind, Numbered, onTimerUpdateCallback, table
<1> QED
  BY <1>1, <1>2, <1>3, <1>4, <1>5, <1>6, <1>7, <1>8, <1>9, <1>10 DEF IInv

\* Members leave the table.
LEMMA updateClientKeeps ==
    ASSUME IInv, NEW t \in TimerThreads, updateClient(t)
    PROVE  IInv'
<1>1. TypeOK'
  BY DEF IInv, TypeOK, PC, updateClient, Goto, Remove, listening, timer, stat
<1>2. Places'
  BY ServerAssumption DEF IInv, Places, updateClient, Goto
<1>3. Control'
  BY DEF IInv, Control, updateClient, Goto, listening
<1>4. Accepts'
  BY DEF IInv, Accepts, Thread, InUse, updateClient, Goto, listening
<1>5. Fresh'
  BY DEF IInv, TypeOK, Fresh, updateClient, Goto, Remove, listening
<1>6. Holder'
  BY DEF IInv, TypeOK, Holder, updateClient, Goto
<1>7. Entry'
  BY DEF IInv, Entry, Thread, Entered, Numbered, Open, updateClient, Goto, Remove,
     listening
<1>8. Counts'
  <2>1. Entered' = Entered
    BY DEF IInv, Entered, updateClient, Goto, listening
  <2>2. Gone \subseteq Gone'
    BY <2>1 DEF IInv, Gone, updateClient, Goto, Remove
  <2> QED
    BY <2>1, <2>2, CountsKept DEF updateClient
<1>9. TimerAlive'
  BY DEF IInv, TimerAlive, Thread, updateClient, Goto
<1>10. Ids'
  BY DEF IInv, Ids, Behind, Numbered, updateClient, Goto
<1> QED
  BY <1>1, <1>2, <1>3, <1>4, <1>5, <1>6, <1>7, <1>8, <1>9, <1>10 DEF IInv

\* The timer waits again.
LEMMA waitKeeps ==
    ASSUME IInv, NEW t \in TimerThreads, wait(t)
    PROVE  IInv'
<1>1. TypeOK'
  BY DEF IInv, TypeOK, PC, wait, Goto, listening, sessions, table, stat
<1>2. Places'
  BY ServerAssumption DEF IInv, Places, wait, Goto
<1>3. Control'
  BY DEF IInv, Control, wait, Goto, listening
<1>4. Accepts'
  BY ServerAssumption DEF IInv, Accepts, Thread, InUse, wait, Goto, listening
<1>5. Fresh'
  BY DEF IInv, Places, Fresh, Thread, wait, Goto, listening, sessions, table
<1>6. Holder'
  BY DEF IInv, Holder, wait, Goto
<1>7. Entry'
  BY DEF IInv, Entry, Thread, Entered, Numbered, Open, wait, Goto, listening, sessions,
     table
<1>8. Counts'
  <2>1. \A s \in Session : pc'[s] = pc[s]
    BY ServerAssumption DEF IInv, wait, Goto
  <2>2. Entered' = Entered
    BY DEF IInv, Thread, Entered, wait, Goto, listening, table
  <2>3. Gone' = Gone
    BY <2>1, <2>2, GoneKept DEF wait, listening, table
  <2> QED
    BY <2>2, <2>3, CountsKept DEF wait, table
<1>9. TimerAlive'
  BY DEF IInv, Places, TimerAlive, Thread, wait
<1>10. Ids'
  BY DEF IInv, Ids, Behind, Numbered, wait, table
<1> QED
  BY <1>1, <1>2, <1>3, <1>4, <1>5, <1>6, <1>7, <1>8, <1>9, <1>10 DEF IInv

\* Only writes begin.
LEMMA sendToAllKeeps ==
    ASSUME IInv, NEW u \in Users, sendToAll(u)
    PROVE  IInv'
<1>1. TypeOK'
  BY DEF IInv, TypeOK, sendToAll, listening, table, timer, stat
<1>2. Places' /\ Control' /\ Accepts' /\ Fresh' /\ Holder' /\ Ids' /\ Entry' /\ Counts' /\ TimerAlive'
  BY DEF IInv, Places, Control, Accepts, Fresh, Holder, Ids, Entry, Counts, TimerAlive,
     Behind, Entered, Gone, InUse, Numbered, Open, sendToAll, listening, table, timer,
     stat
<1> QED
  BY <1>1, <1>2 DEF IInv

\* The mutex was free.
LEMMA sendToKeeps ==
    ASSUME IInv, NEW u \in Users, sendTo(u)
    PROVE  IInv'
<1>1. TypeOK'
  BY DEF IInv, TypeOK, Thread, PC, sendTo, Goto, listening, sessions, table, timer, stat
<1>2. Places'
  BY ServerAssumption DEF IInv, Places, sendTo, Goto
<1>3. Control'
  BY DEF IInv, TypeOK, Control, sendTo, Goto, listening
<1>4. Accepts'
  BY ServerAssumption DEF IInv, Accepts, Thread, InUse, sendTo, Goto, listening
<1>5. Fresh'
  BY ServerAssumption DEF IInv, Places, Fresh, Thread, sendTo, Goto, listening,
     sessions, table
<1>6. Holder'
  BY ServerAssumption DEF IInv, Holder, Thread, sendTo, Goto
<1>7. Entry'
  BY DEF IInv, Entry, Thread, Entered, Numbered, Open, sendTo, Goto, listening,
     sessions, table
<1>8. Counts'
  <2>1. \A s \in Session : pc'[s] = pc[s]
    BY ServerAssumption DEF IInv, sendTo, Goto
  <2>2. Entered' = Entered
    BY DEF IInv, Thread, Entered, sendTo, Goto, listening, table
  <2>3. Gone' = Gone
    BY <2>1, <2>2, GoneKept DEF sendTo, listening, table
  <2> QED
    BY <2>2, <2>3, CountsKept DEF sendTo, table
<1>9. TimerAlive'
  BY DEF IInv, Places, TimerAlive, Thread, sendTo, Goto, timer
<1>10. Ids'
  BY DEF IInv, Ids, Behind, Numbered, sendTo, Goto, table
<1> QED
  BY <1>1, <1>2, <1>3, <1>4, <1>5, <1>6, <1>7, <1>8, <1>9, <1>10 DEF IInv

\* Only the user moves.
LEMMA getSessionKeeps ==
    ASSUME IInv, NEW u \in Users, getSession(u)
    PROVE  IInv'
<1>a. PICK v \in {"getSession", "idle"} : pc' = [pc EXCEPT ![u] = v]
  BY DEF getSession, Goto
<1>b. UNCHANGED << started, current, listening, sessions, table, sessionMutex, timer, stat >>
  BY DEF getSession
<1>1. TypeOK'
  BY <1>a, <1>b DEF IInv, TypeOK, PC, listening, sessions, table, timer, stat
<1>2. Places'
  BY <1>a, <1>b, ServerAssumption DEF IInv, Places
<1>3. Control'
  BY <1>a, <1>b, ServerAssumption DEF IInv, TypeOK, Control, listening
<1>4. Accepts'
  BY <1>a, <1>b, ServerAssumption DEF IInv, Accepts, Thread, InUse, listening
<1>5. Fresh'
  BY <1>a, <1>b, ServerAssumption DEF IInv, Places, Fresh, Thread, listening, sessions,
     table
<1>6. Holder'
  BY <1>a, <1>b, ServerAssumption DEF IInv, Holder
<1>7. Entry'
  BY <1>a, <1>b DEF IInv, TypeOK, Places, Entry, Thread, Entered, Numbered, Open,
     listening, sessions, table
<1>8. Counts'
  <2>1. \A s \in Session : pc'[s] = pc[s]
    BY <1>a, ServerAssumption DEF IInv
  <2>2. Entered' = Entered
    BY <1>a, <1>b DEF IInv, Places, Thread, Entered, listening, table
  <2>3. Gone' = Gone
    BY <1>b, <2>1, <2>2, GoneKept DEF listening, table
  <2> QED
    BY <1>b, <2>2, <2>3, CountsKept DEF table
<1>9. TimerAlive'
  BY <1>a, <1>b, ServerAssumption DEF IInv, TypeOK, Places, TimerAlive, Thread, timer
<1>10. Ids'
  BY DEF IInv, Ids, Behind, Numbered, getSession, table
<1> QED
  BY <1>1, <1>2, <1>3, <1>4, <1>5, <1>6, <1>7, <1>8, <1>9, <1>10 DEF IInv

\* Every step is one of the above, or changes nothing.
LEMMA NextKeeps == IInv /\ [Next]_vars => IInv'
<1> SUFFICES ASSUME IInv, [Next]_vars PROVE IInv'
  OBVIOUS
<1>1. CASE startServer \/ stopServer \/ stopAll \/ Expire
  BY <1>1, startServerKeeps, stopServerKeeps, stopAllKeeps, ExpireKeeps
<1>2. ASSUME NEW g \in Server, ServerStep(g) \/ FailAccept(g) PROVE IInv'
  BY <1>2, onAcceptCallbackKeeps, onAcceptKeeps, insertKeeps, processAcceptKeeps,
     FailAcceptKeeps DEF ServerStep
<1>3. ASSUME NEW g \in Server, NEW s \in Session, Connect(g, s) PROVE IInv'
  BY <1>3, ConnectKeeps
<1>4. ASSUME NEW s \in Session, SessionStep(s) \/ PeerLost(s) PROVE IInv'
  BY <1>4, onRecvKeeps, onErrorKeeps, onSessionCloseKeeps, PeerLostKeeps DEF SessionStep
<1>5. ASSUME NEW s \in Session, Arrive(s) \/ Written(s) \/ FailIO(s) PROVE IInv'
  <2>1. \A op \in {"read", "write"}, r \in {"none", "done", "failed"} :
           Finish(s, op, r) => IInv'
    BY FinishKeeps
  <2> QED
    BY <1>5, <2>1 DEF Arrive, Written, FailIO
<1>6. ASSUME NEW t \in TimerThreads, TimerStep(t) PROVE IInv'
  BY <1>6, onTimerUpdateCallbackKeeps, updateClientKeeps, waitKeeps DEF TimerStep
<1>7. ASSUME NEW u \in Users, sendToAll(u) \/ sendTo(u) \/ getSession(u) PROVE IInv'
  BY <1>7, sendToAllKeeps, sendToKeeps, getSessionKeeps
<1>8. ASSUME NEW u \in Users, NEW i, closeSession(u, i) PROVE IInv'
  BY <1>8, closeSessionKeeps
<1>9. CASE UNCHANGED vars
  BY <1>9 DEF vars, listening, sessions, table, timer, stat, IInv, TypeOK, Places,
     Control, Accepts, InUse, Fresh, Holder, Ids, Numbered, Behind, Entry, Entered,
     Open, Counts, Gone, TimerAlive
<1> QED
  BY <1>1, <1>2, <1>3, <1>4, <1>5, <1>6, <1>7, <1>8, <1>9 DEF Next

\* Every reachable state has the inductive invariant.
THEOREM Inductive == Spec => []IInv
<1> QED
  BY InitIInv, NextKeeps, PTL DEF Spec

(***************************************************************************)
(* What follows from it.                                                   *)
(***************************************************************************)
\* Type correctness.
THEOREM TypeCorrect == Spec => []TypeOK
<1>1. IInv => TypeOK
  BY DEF IInv
<1> QED
  BY <1>1, Inductive, PTL

\* However accepts, errors, closeSession, the update timer and stopServer interleave, a
\* session that was entered and is out of the table is closed and has no handlers.
THEOREM NoneOrphaned == Spec => []NoOrphan
<1>1. IInv => NoOrphan
  BY DEF IInv, Entry, NoOrphan
<1> QED
  BY <1>1, Inductive, PTL

\* The number of current connections is never below the size of the table.
THEOREM CountersCorrect == Spec => []CountCoversTable
<1>1. ASSUME IInv PROVE CountCoversTable
  <2>1. /\ Entered \in SUBSET Session /\ members \in SUBSET Entered /\ Gone \in SUBSET Entered
        /\ members \cup Gone \in SUBSET Entered /\ members \cap Gone = {}
    BY <1>1 DEF IInv, Entry, Entered, Gone
  <2>2. /\ IsFiniteSet(members) /\ IsFiniteSet(Gone)
        /\ Cardinality(members \cup Gone) <= Cardinality(Entered)
        /\ Cardinality(members) \in Nat /\ Cardinality(Gone) \in Nat
        /\ Cardinality(Entered) \in Nat
    BY <2>1, Counting
  <2>3. Cardinality(members \cup Gone)
          = Cardinality(members) + Cardinality(Gone) - Cardinality(members \cap Gone)
    BY <2>2, FS_Union
  <2>4. Cardinality(members \cap Gone) = 0
    BY <2>1, FS_EmptySet
  <2> QED
    BY <1>1, <2>2, <2>3, <2>4 DEF IInv, TypeOK, Counts, CountCoversTable,
       current_connects
<1>2. IInv => CountCoversTable
  BY <1>1
<1> QED
  BY <1>2, Inductive, PTL

\* No two members have the same id, although ids go round: m_mapSession, which is keyed
\* by them, has an entry of its own for each session, and erasing one erases that one.
DistinctKeys == \A s, t \in members : id[s] = id[t] => s = t

\* Members have distinct ids.
THEOREM KeysDistinct == Spec => []DistinctKeys
<1>1. IInv => DistinctKeys
  BY DEF IInv, Entry, Ids, Entered, Numbered, DistinctKeys
<1> QED
  BY <1>1, Inductive, PTL

\* As long as no accept fails, a started server has all its accepts, through any number
\* of stops and starts.
THEOREM ListeningKept == ASSUME ~AcceptMayFail PROVE Spec => []KeepsListening
<1>1. IInv => KeepsListening
  BY DEF IInv, Control, Accepts, InUse, KeepsListening
<1> QED
  BY <1>1, Inductive, PTL

\* A started server's update timer waits, is ready, or is being handled.
THEOREM TimerKept == Spec => []TimerAlive
<1>1. IInv => TimerAlive
  BY DEF IInv
<1> QED
  BY <1>1, Inductive, PTL
================================================================================

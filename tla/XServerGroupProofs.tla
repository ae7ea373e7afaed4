------------------------- MODULE XServerGroupProofs -------------------------
(***************************************************************************)
(* Theorems about XServerGroup, for any number of requests, connections    *)
(* and failures: a group that was ready when it was asked loses no         *)
(* request, and its table of registered servers is used by the packet      *)
(* thread only, unless it is counted; and whatever fails each request is   *)
(* accounted for once.                                                     *)
(***************************************************************************)
EXTENDS XServerGroup, FiniteSetTheorems, TLAPS

\* The servers that requests go by are there.
Complete == {"gate", "center", "world", "db"} \subseteq Group

Content == [op : {"register", "msg", "cmd"}, dest : Types \cup {"none"},
            what : {"server", "login", "logout", "loginReq", "logoutReq", "loginRes", "logoutRes"},
            from : Session \cup {NoSession}]

--------------------------------------------------------------------------------
(***************************************************************************)
(* The inductive invariant, first what is true whatever fails.             *)
(***************************************************************************)
\* The requests that a server knows what to do with.
Takes(s, p) ==
    \/ s = "gate" /\ p.op = "msg" /\ p.what \in Kinds
    \/ s = "world" /\ p.op = "cmd" /\ p.dest = "world"
       /\ p.what \in Kinds \cup {"loginRes", "logoutRes"}
    \/ s = "db" /\ p.op = "msg" /\ p.what \in {"loginReq", "logoutReq"}
    \/ s = "center" /\ p.op = "cmd" /\ p.dest = "world" /\ p.what = "logoutRes"

\* What goes over a link either way, and what comes into the list of a server: the
\* link's registration, and requests that the server at the end takes.
There(l) == {p \in Content : \/ Takes(l[2], p)
                             \/ p.op = "register" /\ p.what = "server" /\ p.dest = l[1]}
Back(l) == {p \in Content : Takes(l[1], p)}
Incoming(s) == {p \in Content : \/ Takes(s, p)
                                \/ /\ p.op = "register" /\ p.what = "server" /\ p.from \in Session
                                   /\ p.from[1] = <<p.dest, s>>}

Wiring == {w \in [Link -> [there : Seq(Content), back : Seq(Content)]] :
             \A l \in Link : w[l].there \in Seq(There(l)) /\ w[l].back \in Seq(Back(l))}

Lists == {r \in [Group -> Seq(Content)] : \A s \in Group : r[s] \in Seq(Incoming(s))}

States == {"none", "connecting", "failed", "up", "lost", "down", "released"}

Typed ==
    /\ link \in [Link -> States]
    /\ conns \in [Link -> 0..MaxConns]
    /\ live \subseteq Session
    /\ registered \in [Group -> [Types -> SUBSET Session]]
    /\ asked \in Nat /\ failures \in Nat
    /\ early \in BOOLEAN /\ offThread \in BOOLEAN /\ counted \in 0..MaxCounts

Addressed ==
    /\ wire \in Wiring
    /\ received \in Lists

\* A type is registered by the sessions of its own link only, and a session is one of
\* the connections its link had.
Entered ==
    /\ \A s \in Group, t \in Types : \A x \in registered[s][t] : x[1] = <<t, s>>
    /\ \A x \in live : x[2] <= conns[x[1]]

\* A group that was ready when it was asked has made all its connectors.
ConnectorsMade == asked > 0 /\ ~early => \A l \in Link : link[l] # "none"

GroupInv == Typed /\ Addressed /\ Entered /\ ConnectorsMade

--------------------------------------------------------------------------------
(***************************************************************************)
(* Where requests go.                                                      *)
(***************************************************************************)
Paths == {<<"gate", "world">>, <<"world", "db">>, <<"db", "world">>, <<"db", "center">>,
          <<"center", "world">>}

\* The servers that make connectors, and to whom.
LEMMA Links ==
    ASSUME Complete
    PROVE  /\ {<<"world", "gate">>, <<"world", "db">>, <<"center", "world">>, <<"center", "db">>}
                \subseteq Link
           /\ {<<"gate", "world">>, <<"db", "world">>, <<"db", "center">>} \cap Link = {}
           /\ \A l \in Link : l \in Group \X Group /\ l[1] \in {"world", "center"}
<1>1. \A s : s \notin {"world", "center"} => EndPoints(s) = {}
  BY DEF EndPoints
<1>2. EndPoints("world") = {"db", "log", "gate"} /\ EndPoints("center") = {"world", "gate", "log", "db"}
  BY DEF EndPoints
<1> QED BY <1>1, <1>2 DEF Link, Complete

\* A server sends a request it takes to one that takes it, or has its answer.
LEMMA Outcomes ==
    ASSUME NEW s, NEW p \in Content, Takes(s, p)
    PROVE  \/ Outcome(s, p) = <<>> /\ s = "world" /\ worldAnswered(p.what)
           \/ \E d \in Types, q \in Content :
                 Outcome(s, p) = <<d, q>> /\ Takes(d, q) /\ <<s, d>> \in Paths
<1>0. NoSession \in Session \cup {NoSession}
  OBVIOUS
<1>1. CASE s = "gate"
  <2>1. Outcome(s, p) = <<"world", Packet("cmd", "world", p.what)>>
    BY <1>1 DEF Takes, Outcome, Answer, gateSends
  <2>2. Packet("cmd", "world", p.what) \in Content
        /\ Takes("world", Packet("cmd", "world", p.what))
    BY <1>0, <1>1 DEF Takes, Packet, Content, Types
  <2> QED BY <1>1, <2>1, <2>2 DEF Types, Paths
<1>2. CASE s = "center"
  <2>1. Outcome(s, p) = <<"world", p>> /\ Takes("world", p)
    BY <1>2 DEF Takes, Outcome
  <2> QED BY <1>2, <2>1 DEF Types, Paths
<1>3. CASE s = "db"
  <2>1. CASE p.what = "loginReq"
    <3>1. Outcome(s, p) = <<"world", Packet("cmd", "world", "loginRes")>>
      BY <1>3, <2>1 DEF Takes, Outcome, Answer, dbSends
    <3>2. Packet("cmd", "world", "loginRes") \in Content
          /\ Takes("world", Packet("cmd", "world", "loginRes"))
      BY <1>0 DEF Takes, Packet, Content, Types
    <3> QED BY <1>3, <3>1, <3>2 DEF Types, Paths
  <2>2. CASE p.what = "logoutReq"
    <3>1. Outcome(s, p) = <<"center", Packet("cmd", "world", "logoutRes")>>
      BY <1>3, <2>2 DEF Takes, Outcome, Answer, dbSends
    <3>2. Packet("cmd", "world", "logoutRes") \in Content
          /\ Takes("center", Packet("cmd", "world", "logoutRes"))
      BY <1>0 DEF Takes, Packet, Content, Types
    <3> QED BY <1>3, <3>1, <3>2 DEF Types, Paths
  <2> QED BY <1>3, <2>1, <2>2 DEF Takes
<1>4. CASE s = "world"
  <2>0. Outcome(s, p) = worldSends(p.what)
    BY <1>4 DEF Takes, Outcome, Answer
  <2>1. CASE p.what \in {"login", "logout"}
    <3>1. PICK w \in {"loginReq", "logoutReq"} :
            Outcome(s, p) = <<"db", Packet("msg", "none", w)>>
      BY <2>0, <2>1 DEF worldSends
    <3>2. Packet("msg", "none", w) \in Content /\ Takes("db", Packet("msg", "none", w))
      BY <1>0 DEF Takes, Packet, Content, Types
    <3> QED BY <1>4, <3>1, <3>2 DEF Types, Paths
  <2>2. CASE p.what \in {"loginRes", "logoutRes"}
    BY <1>4, <2>0, <2>2 DEF worldSends, worldAnswered
  <2> QED BY <1>4, <2>1, <2>2, GroupAssumption DEF Takes
<1> QED BY <1>1, <1>2, <1>3, <1>4 DEF Takes

\* One direction of a wire may change to anything of what goes that way.
LEMMA Put ==
    ASSUME NEW w \in Wiring, NEW l \in Link
    PROVE  /\ \A t \in Seq(There(l)) : [w EXCEPT ![l].there = t] \in Wiring
           /\ \A t \in Seq(Back(l)) : [w EXCEPT ![l].back = t] \in Wiring
<1>1. Seq(There(l)) \subseteq Seq(Content) /\ Seq(Back(l)) \subseteq Seq(Content)
  <2>1. There(l) \subseteq Content /\ Back(l) \subseteq Content
    BY DEF There, Back
  <2> QED BY <2>1
<1>2. ASSUME NEW t \in Seq(There(l))
      PROVE  [w EXCEPT ![l].there = t] \in Wiring
  BY <1>1, <1>2 DEF Wiring
<1>3. ASSUME NEW t \in Seq(Back(l))
      PROVE  [w EXCEPT ![l].back = t] \in Wiring
  BY <1>1, <1>3 DEF Wiring
<1> QED BY <1>2, <1>3

\* A wire may also be cut, with what is on it.
LEMMA Cut ==
    ASSUME NEW w \in Wiring, NEW v, v = [l \in Link |-> v[l]],
           \A l \in Link : v[l] = w[l] \/ v[l] = [there |-> <<>>, back |-> <<>>]
    PROVE  v \in Wiring
<1>1. \A S : <<>> \in Seq(S)
  OBVIOUS
<1>2. ASSUME NEW l \in Link
      PROVE  /\ v[l] \in [there : Seq(Content), back : Seq(Content)]
             /\ v[l].there \in Seq(There(l)) /\ v[l].back \in Seq(Back(l))
  <2>1. CASE v[l] = w[l]
    BY <2>1 DEF Wiring
  <2>2. CASE v[l] = [there |-> <<>>, back |-> <<>>]
    <3>1. <<>> \in Seq(Content) /\ <<>> \in Seq(There(l)) /\ <<>> \in Seq(Back(l))
      BY <1>1
    <3>2. [there |-> <<>>, back |-> <<>>] \in [there : Seq(Content), back : Seq(Content)]
      BY <3>1
    <3>3. v[l].there = <<>> /\ v[l].back = <<>>
      BY <2>2
    <3> QED BY <2>2, <3>1, <3>2, <3>3
  <2> QED BY <2>1, <2>2
<1> QED BY <1>2 DEF Wiring

\* And so may the list of a server.
LEMMA Enlist ==
    ASSUME NEW r \in Lists, NEW s \in Group, NEW t \in Seq(Incoming(s))
    PROVE  [r EXCEPT ![s] = t] \in Lists
<1>1. Incoming(s) \subseteq Content
  BY DEF Incoming
<1>2. t \in Seq(Content)
  BY <1>1
<1> QED BY <1>2 DEF Lists

\* Appending leaves nothing empty.
LEMMA Grown ==
    ASSUME NEW S, NEW q \in Seq(S), NEW e \in S
    PROVE  Append(q, e) # <<>>
<1>1. Len(Append(q, e)) = Len(q) + 1 /\ Len(q) \in Nat
  OBVIOUS
<1> QED BY <1>1

\* What is sent stays addressed, whichever way it goes.
LEMMA SendAddressed ==
    ASSUME GroupInv, Complete, NEW s \in Group, NEW d \in Types, NEW q \in Content, Takes(d, q),
           <<s, d>> \in Paths
    PROVE  /\ sendToServer(s, d, q).wires \in Wiring
           /\ \A m \in Link : wire[m].back # <<>> => sendToServer(s, d, q).wires[m].back # <<>>
<1> DEFINE q0 == [q EXCEPT !.from = NoSession]
<1>1. q0 \in Content /\ Takes(d, q0)
  BY DEF Content, Takes
<1>2. CASE Route(s, d) = {}
  BY <1>2 DEF sendToServer, GroupInv, Addressed
<1>3. CASE Route(s, d) # {}
  <2>1. PICK r \in Route(s, d) :
          sendToServer(s, d, q).wires =
            IF r.way = "there" THEN [wire EXCEPT ![r.over].there = Append(@, q0)]
                               ELSE [wire EXCEPT ![r.over].back = Append(@, q0)]
    BY <1>3 DEF sendToServer
  <2>2. wire \in Wiring
    BY DEF GroupInv, Addressed
  <2>3. ASSUME NEW l \in Link, r = [over |-> l, way |-> "there"], l[2] = d
        PROVE  /\ sendToServer(s, d, q).wires \in Wiring
               /\ \A m \in Link : sendToServer(s, d, q).wires[m].back = wire[m].back
    <3> DEFINE t == Append(wire[l].there, q0)
    <3>1. q0 \in There(l)
      BY <1>1, <2>3 DEF There
    <3>2. t \in Seq(There(l))
      BY <2>2, <3>1 DEF Wiring
    <3>3. sendToServer(s, d, q).wires = [wire EXCEPT ![l].there = t]
      BY <2>1, <2>2, <2>3 DEF Wiring
    <3>5. \A m \in Link : [wire EXCEPT ![l].there = t][m].back = wire[m].back
      BY <2>2 DEF Wiring
    <3> HIDE DEF t
    <3>4. [wire EXCEPT ![l].there = t] \in Wiring
      BY <2>2, <3>2, Put
    <3> QED BY <3>3, <3>4, <3>5
  <2>4. ASSUME NEW l \in Link, r = [over |-> l, way |-> "back"], l[1] = d
        PROVE  /\ sendToServer(s, d, q).wires \in Wiring
               /\ \A m \in Link : wire[m].back # <<>> => sendToServer(s, d, q).wires[m].back # <<>>
    <3> DEFINE t == Append(wire[l].back, q0)
    <3>1. q0 \in Back(l)
      BY <1>1, <2>4 DEF Back
    <3>2. t \in Seq(Back(l))
      BY <2>2, <3>1 DEF Wiring
    <3>3. sendToServer(s, d, q).wires = [wire EXCEPT ![l].back = t]
      BY <2>1, <2>2, <2>4 DEF Wiring
    <3>5. \A m \in Link : [wire EXCEPT ![l].back = t][m].back = IF m = l THEN t ELSE wire[m].back
      BY <2>2 DEF Wiring
    <3>6. t # <<>>
      BY <2>2, <3>1, Grown DEF Wiring
    <3> HIDE DEF t
    <3>4. [wire EXCEPT ![l].back = t] \in Wiring
      BY <2>2, <3>2, Put
    <3> QED BY <3>3, <3>4, <3>5, <3>6
  <2>5. CASE HasConnector(s, d)
    <3>1. <<s, d>> \in Link /\ r = [over |-> <<s, d>>, way |-> "there"]
      BY <2>5 DEF Route, HasConnector
    <3> QED BY <2>3, <3>1
  <2>6. CASE ~HasConnector(s, d)
    <3>1. PICK x \in registered[s][d] : r = [over |-> x[1], way |-> "back"]
      BY <2>6 DEF Route, getAppServer
    <3>2. x[1] = <<d, s>> /\ x[1] \in Link
      BY <3>1 DEF GroupInv, Entered, Typed, Session
    <3> QED BY <2>4, <3>1, <3>2
  <2> QED BY <2>5, <2>6
<1> QED BY <1>2, <1>3

\* So what a server does with a request it takes leaves the wires as they should be,
LEMMA WiresAddressed ==
    ASSUME GroupInv, Complete, NEW s \in Group, NEW p \in Content, Takes(s, p)
    PROVE  /\ Wires(s, p) \in Wiring
           /\ \A m \in Link : wire[m].back # <<>> => Wires(s, p)[m].back # <<>>
<1>1. CASE Outcome(s, p) = <<>>
  BY <1>1 DEF Wires, GroupInv, Addressed
<1>2. CASE Outcome(s, p) # <<>>
  <2>1. PICK d \in Types, q \in Content :
          Outcome(s, p) = <<d, q>> /\ Takes(d, q) /\ <<s, d>> \in Paths
    BY <1>2, Outcomes
  <2>2. Wires(s, p) = sendToServer(s, d, q).wires
    BY <1>2, <2>1 DEF Wires
  <2> QED BY <2>1, <2>2, SendAddressed
<1> QED BY <1>1, <1>2

\* and what a connector receives goes on over a connector.
LEMMA OnwardByConnector ==
    ASSUME GroupInv, Complete, asked > 0, ~early, NEW l \in Link, NEW p \in Content,
           Takes(l[1], p), Outcome(l[1], p) # <<>>
    PROVE  HasConnector(l[1], Outcome(l[1], p)[1])
<1>0. PICK s \in Group : s = l[1]
  BY DEF Link
<1>1. PICK d \in Types, q \in Content : Outcome(s, p) = <<d, q>> /\ <<s, d>> \in Paths
  BY <1>0, Outcomes
<1>2. l[1] \in {"world", "center"}
  BY Links
<1>3. <<l[1], d>> \in {<<"world", "db">>, <<"center", "world">>}
  BY <1>0, <1>1, <1>2 DEF Paths
<1>4. PICK m \in Link : m = <<l[1], d>> /\ m[1] = l[1]
  BY <1>3, Links
<1>5. link[m] # "none"
  BY <1>4 DEF GroupInv, ConnectorsMade
<1> QED BY <1>0, <1>1, <1>4, <1>5 DEF HasConnector

--------------------------------------------------------------------------------
(***************************************************************************)
(* Every step keeps it.                                                    *)
(***************************************************************************)
\* The group starts with its wires and its tables empty.
LEMMA GroupInit == Init => GroupInv
<1> SUFFICES ASSUME Init PROVE GroupInv
  OBVIOUS
<1>1. Typed
  <2>1. conns \in [Link -> 0..MaxConns] /\ asked \in Nat /\ failures \in Nat /\ counted \in 0..MaxCounts
    BY GroupAssumption DEF Init
  <2>2. link \in [Link -> States]
    BY DEF Init, States
  <2>3. registered \in [Group -> [Types -> SUBSET Session]] /\ live \subseteq Session
    BY DEF Init
  <2> QED BY <2>1, <2>2, <2>3 DEF Init, Typed
<1>2. Addressed
  <2>1. \A S : <<>> \in Seq(S)
    OBVIOUS
  <2>2. wire \in Wiring
    BY <2>1 DEF Init, Wiring
  <2>3. received \in Lists
    BY <2>1 DEF Init, Lists
  <2> QED BY <2>2, <2>3 DEF Addressed
<1>3. Entered /\ ConnectorsMade
  BY DEF Init, Entered, ConnectorsMade
<1> QED BY <1>1, <1>2, <1>3 DEF GroupInv

\* Only the state of one connector changes.
LEMMA Altered ==
    ASSUME GroupInv, NEW l \in Link, NEW v \in States, v # "none", link[l] # "none",
           link' = [link EXCEPT ![l] = v], failures' \in Nat,
           UNCHANGED << conns, wire, live, registered, received, asked, early, counted, offThread >>
    PROVE  GroupInv'
<1>1. Typed'
  BY DEF GroupInv, Typed
<1>2. Addressed'
  BY DEF GroupInv, Addressed
<1>3. Entered'
  BY DEF GroupInv, Entered
<1>4. ConnectorsMade'
  BY DEF GroupInv, Typed, ConnectorsMade
<1> QED BY <1>1, <1>2, <1>3, <1>4 DEF GroupInv

\* Each step of a server or of a link.
LEMMA GroupStep ==
    ASSUME GroupInv, Complete, [Next]_vars
    PROVE  GroupInv'
<1> USE DEF GroupInv
<1>1. ASSUME NEW s \in Group, startServer(s)
      PROVE  GroupInv'
  BY <1>1 DEF startServer, history, Typed, Addressed, Entered, ConnectorsMade
<1>2. ASSUME NEW s \in Group, stopServer(s)
      PROVE  GroupInv'
  <2>1. /\ link' = [l \in Link |-> IF l[1] = s /\ Up(l) THEN "released"
                                  ELSE IF l[2] = s /\ Up(l) THEN "lost" ELSE link[l]]
        /\ \A l \in Link : wire'[l] = wire[l] \/ wire'[l] = [there |-> <<>>, back |-> <<>>]
        /\ wire' = [l \in Link |-> wire'[l]]
        /\ live' \subseteq live /\ failures' = failures + 1
        /\ received' = [received EXCEPT ![s] = <<>>]
        /\ UNCHANGED << ever, conns, registered, asked, done, early, counted, offThread >>
    BY <1>2 DEF stopServer, Fail
  <2>2. Typed'
    BY <2>1 DEF Typed, States
  <2>3. Addressed'
    <3>1. wire' \in Wiring
      BY <2>1, Cut DEF Addressed
    <3>2. <<>> \in Seq(Incoming(s))
      OBVIOUS
    <3>3. received' \in Lists
      BY <2>1, <3>2, Enlist DEF Addressed
    <3> QED BY <3>1, <3>3 DEF Addressed
  <2>4. Entered' /\ ConnectorsMade'
    BY <2>1 DEF Entered, ConnectorsMade, Up, Typed
  <2> QED BY <2>2, <2>3, <2>4
<1>3. ASSUME NEW l \in Link, connectAppServer(l)
      PROVE  GroupInv'
  BY <1>3 DEF connectAppServer, history, Typed, States, Addressed, Entered, ConnectorsMade
<1>4. ASSUME NEW s \in Group, onProcessPacket(s)
      PROVE  GroupInv'
  <2> DEFINE r == Head(received[s])
  <2>0. received[s] # <<>> /\ r \in Incoming(s)
    BY <1>4 DEF onProcessPacket, Addressed, Lists
  <2>1. received' = [received EXCEPT ![s] = Tail(@)] /\ UNCHANGED << started, ever, link, conns, live >>
    BY <1>4 DEF onProcessPacket
  <2>2. received' \in Lists
    <3>1. Tail(received[s]) \in Seq(Incoming(s))
      BY <2>0 DEF Addressed, Lists
    <3> QED BY <2>1, <3>1, Enlist DEF Addressed
  <2>3. CASE IsRequest(r)
    <3>1. r \in Content /\ Takes(s, r)
      BY <2>0, <2>3 DEF Incoming, IsRequest
    <3>2. Handle(s, r, FALSE) /\ wire' = Wires(s, r) /\ UNCHANGED registered
      BY <1>4, <2>3 DEF onProcessPacket
    <3>3. wire' \in Wiring
      BY <3>1, <3>2, WiresAddressed
    <3>4. UNCHANGED << asked, early, failures, counted, offThread >>
      BY <3>2 DEF Handle, Typed
    <3> QED BY <2>1, <2>2, <3>2, <3>3, <3>4 DEF Typed, Addressed, Entered, ConnectorsMade
  <2>4. CASE ~IsRequest(r)
    <3>1. /\ registered' = onProcessRegPacket(s, r.from, r.dest)
          /\ UNCHANGED << wire, asked, early, failures, counted, offThread >>
      BY <1>4, <2>4 DEF onProcessPacket, history
    <3>2. r.dest \in Types /\ r.from \in Session /\ r.from[1] = <<r.dest, s>>
      <4>1. r.from \in Session /\ r.from[1] = <<r.dest, s>>
        BY <2>0, <2>4 DEF Incoming, IsRequest, Takes
      <4>2. r.from[1] \in Group \X Group
        BY <4>1 DEF Session, Link
      <4> QED BY <4>1, <4>2, GroupAssumption
    <3>3. registered' \in [Group -> [Types -> SUBSET Session]]
      BY <3>1, <3>2 DEF onProcessRegPacket, Typed
    <3>4. \A u \in Group, t \in Types : \A x \in registered'[u][t] : x[1] = <<t, u>>
      BY <3>1, <3>2 DEF onProcessRegPacket, Typed, Entered
    <3> QED BY <2>1, <2>2, <3>1, <3>3, <3>4 DEF Typed, Addressed, Entered, ConnectorsMade
  <2> QED BY <2>3, <2>4
<1>5. ASSUME NEW l \in Link, onConnect(l)
      PROVE  GroupInv'
  <2>1. Typed'
    <3>1. conns[l] + 1 \in 1..MaxConns
      BY <1>5, GroupAssumption DEF onConnect, Typed
    <3> QED BY <1>5, <3>1 DEF onConnect, history, Typed, States, Session
  <2>2. Addressed'
    <3>1. Register(l) \in Seq(There(l))
      <4>1. Packet("register", l[1], "server") \in There(l)
        BY GroupAssumption DEF There, Packet, Content, Link
      <4> QED BY <4>1 DEF Register
    <3>2. wire' = [wire EXCEPT ![l].there = Register(l)]
      BY <1>5 DEF onConnect
    <3> HIDE DEF Register
    <3>3. wire' \in Wiring
      BY <3>1, <3>2, Put DEF Addressed
    <3> QED BY <1>5, <3>3 DEF onConnect, Addressed
  <2>3. Entered'
    BY <1>5 DEF onConnect, Entered, Typed, Session
  <2>4. ConnectorsMade'
    BY <1>5 DEF onConnect, history, ConnectorsMade, Typed
  <2> QED BY <2>1, <2>2, <2>3, <2>4
<1>6. ASSUME NEW l \in Link, ConnectFails(l)
      PROVE  GroupInv'
  <2>1. PICK v \in {"failed", "down"} : link' = [link EXCEPT ![l] = v]
    BY <1>6 DEF ConnectFails
  <2>2. failures' \in Nat
    BY <1>6 DEF ConnectFails, Fail, Typed
  <2>3. link[l] # "none" /\ UNCHANGED << conns, wire, live, registered, received, asked, early, counted, offThread >>
    BY <1>6 DEF ConnectFails
  <2> QED BY <2>1, <2>2, <2>3, Altered DEF States
<1>7. ASSUME NEW l \in Link, onReconnectCallback(l) \/ onClose(l)
      PROVE  GroupInv'
  <2>1. PICK v \in {"connecting", "down"} : link' = [link EXCEPT ![l] = v]
    BY <1>7 DEF onReconnectCallback, onClose
  <2>2. failures' \in Nat
    BY <1>7 DEF onReconnectCallback, onClose, history, Typed
  <2>3. link[l] # "none" /\ UNCHANGED << conns, wire, live, registered, received, asked, early, counted, offThread >>
    BY <1>7 DEF onReconnectCallback, onClose, history
  <2> QED BY <2>1, <2>2, <2>3, Altered DEF States
<1>8. ASSUME NEW l \in Link, Lose(l)
      PROVE  GroupInv'
  <2>1. Typed' /\ Entered' /\ ConnectorsMade'
    BY <1>8 DEF Lose, Fail, Up, Typed, States, Entered, ConnectorsMade
  <2>2. Addressed'
    <3>1. wire' = [wire EXCEPT ![l] = [there |-> <<>>, back |-> <<>>]] /\ UNCHANGED received
      BY <1>8 DEF Lose
    <3>2. wire \in Wiring /\ wire \in [Link -> [there : Seq(Content), back : Seq(Content)]]
      BY DEF Addressed, Wiring
    <3>3. /\ wire' = [m \in Link |-> wire'[m]]
          /\ \A m \in Link : wire'[m] = wire[m] \/ wire'[m] = [there |-> <<>>, back |-> <<>>]
      BY <3>1, <3>2
    <3> QED BY <3>1, <3>2, <3>3, Cut DEF Addressed
  <2> QED BY <2>1, <2>2
<1>9. ASSUME NEW l \in Link, onSessionRecv(l)
      PROVE  GroupInv'
  <2> DEFINE p == Head(wire[l].there)
             x == <<l, conns[l]>>
             p0 == [p EXCEPT !.from = x]
  <2>1. wire[l].there # <<>> /\ p \in There(l) /\ x \in Session /\ l[2] \in Group
    <3>1. wire[l].there # <<>> /\ wire[l].there \in Seq(There(l))
      BY <1>9 DEF onSessionRecv, Addressed, Wiring
    <3>2. p \in There(l)
      BY <3>1
    <3>3. x \in Session
      BY <1>9 DEF onSessionRecv, Typed
    <3>4. l[2] \in Group
      BY DEF Link
    <3> QED BY <3>1, <3>2, <3>3, <3>4
  <2>2. p0 \in Incoming(l[2])
    <3>1. p0 \in Content
      BY <2>1 DEF There, Content
    <3>2. Takes(l[2], p) => Takes(l[2], p0)
      BY <2>1 DEF Takes, There, Content
    <3>3. p.op = "register" /\ p.what = "server" /\ p.dest = l[1]
            => p0.op = "register" /\ p0.what = "server" /\ p0.from = x /\ x[1] = <<p0.dest, l[2]>>
      BY <2>1 DEF There, Content, Link
    <3> QED BY <2>1, <3>1, <3>2, <3>3 DEF There, Incoming
  <2>3. received' = [received EXCEPT ![l[2]] = Append(@, p0)]
        /\ wire' = [wire EXCEPT ![l].there = Tail(@)]
        /\ UNCHANGED << started, ever, link, conns, live, registered, history >>
    BY <1>9 DEF onSessionRecv
  <2> HIDE DEF p0
  <2>4. received' \in Lists
    <3>1. received \in Lists /\ received[l[2]] \in Seq(Incoming(l[2]))
      BY <2>1 DEF Addressed, Lists
    <3>2. Append(received[l[2]], p0) \in Seq(Incoming(l[2]))
      BY <2>2, <3>1
    <3> QED BY <2>1, <2>3, <3>1, <3>2, Enlist
  <2>5. wire' \in Wiring
    <3>1. Tail(wire[l].there) \in Seq(There(l))
      BY <2>1 DEF Addressed, Wiring
    <3> QED BY <2>3, <3>1, Put DEF Addressed
  <2> QED BY <2>3, <2>4, <2>5 DEF history, Typed, Addressed, Entered, ConnectorsMade
<1>10. ASSUME NEW l \in Link, onConnectorRecv(l)
       PROVE  GroupInv'
  <2> DEFINE p == Head(wire[l].back)
  <2>1. /\ Up(l) /\ wire[l].back # <<>>
        /\ Handle(l[1], p, TRUE)
        /\ wire' = [Wires(l[1], p) EXCEPT ![l].back = Tail(@)]
        /\ UNCHANGED << started, ever, link, conns, live, registered, received >>
    BY <1>10 DEF onConnectorRecv
  <2>2. p \in Content /\ Takes(l[1], p) /\ l[1] \in Group
    <3>1. wire[l].back \in Seq(Back(l))
      BY DEF Addressed, Wiring
    <3>2. p \in Back(l)
      BY <2>1, <3>1
    <3> QED BY <3>2 DEF Back, Link
  <2>3. UNCHANGED << asked, early, failures, counted >> /\ offThread' \in BOOLEAN
    BY <2>1 DEF Handle, Typed
  <2>4. wire' \in Wiring
    <3>1. Wires(l[1], p) \in Wiring /\ Wires(l[1], p)[l].back # <<>>
      BY <2>1, <2>2, WiresAddressed
    <3>2. Tail(Wires(l[1], p)[l].back) \in Seq(Back(l))
      BY <3>1 DEF Wiring
    <3> QED BY <2>1, <3>1, <3>2, Put
  <2> QED BY <2>1, <2>3, <2>4 DEF Typed, Addressed, Entered, ConnectorsMade
<1>11. ASSUME NEW x \in Session, onSessionClose(x)
       PROVE  GroupInv'
  BY <1>11 DEF onSessionClose, history, Typed, Addressed, Entered, ConnectorsMade
<1>12. ASSUME NEW what \in Kinds, Ask(what)
       PROVE  GroupInv'
  <2>1. Typed'
    BY <1>12 DEF Ask, Typed
  <2>2. Addressed'
    <3>1. Packet("msg", "none", what) \in Incoming("gate")
      BY GroupAssumption DEF Packet, Incoming, Takes, Content
    <3>2. "gate" \in Group
      BY DEF Complete
    <3> HIDE DEF Packet
    <3>3. received["gate"] \in Seq(Incoming("gate")) /\ received \in Lists
      BY <3>2 DEF Addressed, Lists
    <3>4. Append(received["gate"], Packet("msg", "none", what)) \in Seq(Incoming("gate"))
      BY <3>1, <3>3
    <3>5. received' \in Lists
      BY <1>12, <3>2, <3>3, <3>4, Enlist DEF Ask
    <3> QED BY <1>12, <3>5 DEF Ask, Addressed
  <2>3. Entered' /\ ConnectorsMade'
    BY <1>12 DEF Ask, Entered, ConnectorsMade, Ready, Up
  <2> QED BY <2>1, <2>2, <2>3
<1>13. ASSUME getAppServerCnt
       PROVE  GroupInv'
  <2>1. counted' \in 0..MaxCounts /\ offThread' \in BOOLEAN
    BY <1>13, GroupAssumption DEF getAppServerCnt, Typed
  <2> QED BY <1>13, <2>1 DEF getAppServerCnt, Typed, Addressed, Entered, ConnectorsMade
<1>14. ASSUME UNCHANGED vars
       PROVE  GroupInv'
  BY <1>14 DEF vars, history, Typed, Addressed, Entered, ConnectorsMade
<1> QED BY <1>1, <1>2, <1>3, <1>4, <1>5, <1>6, <1>7, <1>8, <1>9, <1>10, <1>11, <1>12, <1>13, <1>14 DEF Next

--------------------------------------------------------------------------------
(***************************************************************************)
(* As long as nothing fails: the rest of the inductive invariant.          *)
(***************************************************************************)
Registrations(S) == {p \in S : p.op = "register"}

\* Before the first request there is none anywhere.
Idle == asked = 0 =>
    /\ \A l \in Link : wire[l].there \in Seq(Registrations(Content)) /\ wire[l].back = <<>>
    /\ \A s \in Group : received[s] \in Seq(Registrations(Content))

\* A link is connected once, and its session stays; the types are registered by it.
Connected == failures = 0 =>
    /\ \A l \in Link : /\ link[l] \in {"none", "connecting", "failed", "up"}
                       /\ conns[l] = IF Up(l) THEN 1 ELSE 0
                       /\ Up(l) => <<l, 1>> \in live
    /\ \A s \in Group, t \in Types : \A x \in registered[s][t] : x[2] = 1

\* A group that was ready for its first request is ready for all of them.
StaysReady == (failures = 0 /\ ~early) => gone = 0 /\ (asked > 0 => Ready)

CalmInv == Idle /\ Connected /\ StaysReady

\* When the group is ready, a request finds its way,
LEMMA WayFound ==
    ASSUME GroupInv, Connected, Complete, failures = 0, Ready, NEW s \in Group, NEW d \in Types,
           NEW q, <<s, d>> \in Paths
    PROVE  sendToServer(s, d, q).gone = 0
<1> SUFFICES Route(s, d) # {}
  BY DEF sendToServer
<1>1. CASE <<s, d>> \in Link
  <2>1. HasConnector(s, d) /\ Up(<<s, d>>)
    BY <1>1 DEF Ready, Up, HasConnector
  <2> QED BY <2>1 DEF Route
<1>2. CASE <<s, d>> \notin Link
  <2>1. <<d, s>> \in Link
    BY <1>2, Links DEF Paths
  <2>2. PICK l \in Link : l = <<d, s>>
    BY <2>1
  <2>3. Up(l) /\ conns[l] = 1 /\ <<l, 1>> \in live /\ <<l, 1>> \in registered[s][d]
    BY <2>2 DEF Ready, Connected
  <2>4. \A y \in registered[s][d] : y[2] = 1
    BY DEF Connected
  <2>5. <<l, 1>> \in getAppServer(s, d)
    BY <2>3, <2>4 DEF getAppServer
  <2>6. ~HasConnector(s, d)
    BY <1>2 DEF HasConnector
  <2>7. [over |-> l, way |-> "back"] \in Route(s, d)
    <3>1. PICK x \in getAppServer(s, d) : x[1] = l /\ x[2] = 1 /\ x \in live
      BY <2>3, <2>5
    <3> QED BY <2>3, <2>6, <3>1 DEF Route
  <2> QED BY <2>7
<1> QED BY <1>1, <1>2

\* and none that a server takes is given up.
LEMMA NoneGivenUp ==
    ASSUME GroupInv, Connected, Complete, failures = 0, Ready, NEW s \in Group, NEW p \in Content,
           Takes(s, p), NEW io, Handle(s, p, io), gone = 0
    PROVE  gone' = 0
<1>1. CASE Outcome(s, p) = <<>>
  <2>0. \A d, q : <<d, q>> # <<>>
    OBVIOUS
  <2>1. s = "world" /\ worldAnswered(p.what)
    BY <1>1, <2>0, Outcomes
  <2> QED BY <1>1, <2>1 DEF Handle
<1>2. CASE Outcome(s, p) # <<>>
  <2>1. PICK d \in Types, q \in Content : Outcome(s, p) = <<d, q>> /\ <<s, d>> \in Paths
    BY <1>2, Outcomes
  <2>2. gone' = gone + sendToServer(s, d, q).gone
    BY <1>2, <2>1 DEF Handle
  <2>3. sendToServer(s, d, q).gone = 0
    BY <2>1, WayFound
  <2> QED BY <2>2, <2>3
<1> QED BY <1>1, <1>2

\* No link is connected and nothing was asked at first.
LEMMA CalmInit == Init => CalmInv
<1> SUFFICES ASSUME Init PROVE CalmInv
  OBVIOUS
<1>1. <<>> \in Seq(Registrations(Content))
  OBVIOUS
<1>2. Idle
  BY <1>1 DEF Init, Idle
<1>3. Connected
  BY DEF Init, Connected, Up
<1>4. StaysReady
  BY DEF Init, StaysReady
<1> QED BY <1>2, <1>3, <1>4 DEF CalmInv

\* The steps that only change how links are.
LEMMA CalmAltered ==
    ASSUME GroupInv, CalmInv, UNCHANGED << wire, received, asked, gone, early, conns, live, registered >>,
           failures' = 0 =>
              /\ failures = 0
              /\ \A l \in Link : /\ Up(l) <=> Up(l)'
                                 /\ link'[l] \in {"none", "connecting", "failed", "up"}
    PROVE  CalmInv'
<1>1. Idle'
  BY DEF CalmInv, Idle
<1>2. Connected'
  BY DEF CalmInv, Connected
<1>3. StaysReady'
  BY DEF CalmInv, StaysReady, Ready
<1> QED BY <1>1, <1>2, <1>3 DEF CalmInv

\* Each step again.
LEMMA CalmStep ==
    ASSUME GroupInv, CalmInv, Complete, [Next]_vars
    PROVE  CalmInv'
<1> USE DEF GroupInv, CalmInv
<1>1. ASSUME NEW s \in Group, startServer(s)
      PROVE  CalmInv'
  <2>1. UNCHANGED << wire, received, asked, gone, early, conns, live, registered, failures, link >>
    BY <1>1 DEF startServer, history
  <2> QED BY <2>1, CalmAltered DEF Up, Connected
<1>2. ASSUME NEW s \in Group, stopServer(s)
      PROVE  CalmInv'
  <2>1. failures' = failures + 1 /\ failures \in Nat /\ asked' = asked
        /\ received' = [received EXCEPT ![s] = <<>>]
        /\ \A l \in Link : wire'[l] = wire[l] \/ wire'[l] = [there |-> <<>>, back |-> <<>>]
    BY <1>2 DEF stopServer, Fail, Typed
  <2>2. <<>> \in Seq(Registrations(Content))
    OBVIOUS
  <2>3. Idle'
    <3>1. \A t \in Group : received'[t] = received[t] \/ received'[t] = <<>>
      BY <2>1 DEF Addressed, Lists
    <3>2. \A l \in Link :
            \/ wire'[l].there = wire[l].there /\ wire'[l].back = wire[l].back
            \/ wire'[l].there = <<>> /\ wire'[l].back = <<>>
      <4> TAKE l \in Link
      <4>1. CASE wire'[l] = wire[l]
        BY <4>1
      <4>2. CASE wire'[l] = [there |-> <<>>, back |-> <<>>]
        BY <4>2
      <4> QED BY <2>1, <4>1, <4>2
    <3> QED BY <2>1, <2>2, <3>1, <3>2 DEF Idle
  <2>4. failures' # 0
    BY <2>1
  <2> QED BY <2>3, <2>4 DEF Connected, StaysReady
<1>3. ASSUME NEW l \in Link, connectAppServer(l)
      PROVE  CalmInv'
  <2>1. /\ UNCHANGED << wire, received, asked, gone, early, conns, live, registered, failures >>
        /\ link[l] \in {"none", "down"} /\ link' = [link EXCEPT ![l] = "connecting"]
    BY <1>3 DEF connectAppServer, history
  <2>2. failures = 0 => link[l] = "none"
    BY <2>1 DEF Connected
  <2>3. ASSUME failures = 0, NEW m \in Link
        PROVE  (Up(m) <=> Up(m)') /\ link'[m] \in {"none", "connecting", "failed", "up"}
    BY <2>1, <2>2, <2>3 DEF Up, Connected, Typed
  <2> QED BY <2>1, <2>3, CalmAltered
<1>4. ASSUME NEW s \in Group, onProcessPacket(s)
      PROVE  CalmInv'
  <2> DEFINE r == Head(received[s])
  <2>0. received[s] # <<>> /\ r \in Incoming(s)
    BY <1>4 DEF onProcessPacket, Addressed, Lists
  <2>1. received' = [received EXCEPT ![s] = Tail(@)] /\ UNCHANGED << started, ever, link, conns, live >>
    BY <1>4 DEF onProcessPacket
  <2>2. CASE IsRequest(r)
    <3>1. r \in Content /\ Takes(s, r)
      BY <2>0, <2>2 DEF Incoming, IsRequest
    <3>2. Handle(s, r, FALSE) /\ UNCHANGED registered
      BY <1>4, <2>2 DEF onProcessPacket
    <3>3. UNCHANGED << asked, early, failures >>
      BY <3>2 DEF Handle
    <3>4. asked # 0
      <4> SUFFICES ASSUME asked = 0 PROVE FALSE
        OBVIOUS
      <4>1. received[s] \in Seq(Registrations(Content))
        BY DEF Idle
      <4>2. r.op = "register"
        BY <2>0, <4>1 DEF Registrations
      <4> QED BY <2>2, <4>2 DEF IsRequest
    <3>5. Idle' /\ Connected'
      BY <2>1, <3>2, <3>3, <3>4 DEF Idle, Connected, Up
    <3>6. ASSUME failures' = 0, ~early'
          PROVE  gone' = 0 /\ Ready'
      <4>1. failures = 0 /\ ~early /\ asked > 0 /\ gone = 0 /\ Ready
        BY <3>3, <3>4, <3>6 DEF Typed, StaysReady
      <4>2. gone' = 0
        BY <3>1, <3>2, <4>1, NoneGivenUp
      <4> QED BY <2>1, <3>2, <4>1, <4>2 DEF Ready, Up
    <3> QED BY <3>5, <3>6 DEF StaysReady
  <2>3. CASE ~IsRequest(r)
    <3>1. /\ registered' = onProcessRegPacket(s, r.from, r.dest)
          /\ UNCHANGED << wire, asked, early, failures, gone >>
      BY <1>4, <2>3 DEF onProcessPacket, history
    <3>2. r.from \in live => r.from[2] <= conns[r.from[1]] /\ r.from \in Session
      BY DEF Entered, Typed
    <3>3. Idle'
      <4> SUFFICES ASSUME asked = 0 PROVE Idle'
        BY <3>1 DEF Idle
      <4>1. received[s] \in Seq(Registrations(Content))
        BY DEF Idle
      <4>2. Tail(received[s]) \in Seq(Registrations(Content))
        BY <2>0, <4>1
      <4> QED BY <2>1, <3>1, <4>2 DEF Idle, Addressed, Lists
    <3>4. failures = 0 /\ r.from \in live => r.from[2] = 1
      <4> SUFFICES ASSUME failures = 0, r.from \in live PROVE r.from[2] = 1
        OBVIOUS
      <4>1. r.from[1] \in Link /\ r.from[2] \in 1..MaxConns
        BY <3>2 DEF Session
      <4>2. conns[r.from[1]] \in {0, 1}
        BY <4>1 DEF Connected
      <4> QED BY <3>2, <4>1, <4>2, GroupAssumption
    <3>5. Connected'
      BY <2>1, <3>1, <3>4 DEF onProcessRegPacket, Connected, Up, Typed
    <3>6. \A u \in Group, t \in Types : registered[u][t] \subseteq registered'[u][t]
      BY <3>1 DEF onProcessRegPacket, Typed
    <3>7. Ready => Ready'
      <4>1. \A l \in Link : l[1] \in Types /\ l[2] \in Group
        BY GroupAssumption DEF Link
      <4> QED BY <2>1, <3>6, <4>1 DEF Ready, Up
    <3> QED BY <3>1, <3>3, <3>5, <3>7 DEF StaysReady
  <2> QED BY <2>2, <2>3
<1>5. ASSUME NEW l \in Link, onConnect(l)
      PROVE  CalmInv'
  <2>1. /\ ~Up(l) /\ link' = [link EXCEPT ![l] = "up"] /\ conns' = [conns EXCEPT ![l] = @ + 1]
        /\ live' = live \cup {<<l, conns[l] + 1>>}
        /\ wire' = [wire EXCEPT ![l].there = Register(l)]
        /\ UNCHANGED << registered, received, asked, gone, early, failures >>
    BY <1>5 DEF onConnect, history, Up
  <2>2. Idle'
    <3>1. Register(l) \in Seq(Registrations(Content))
      <4>1. Packet("register", l[1], "server") \in Registrations(Content)
        BY GroupAssumption DEF Registrations, Packet, Content, Link
      <4> QED BY <4>1 DEF Register
    <3> HIDE DEF Register
    <3>2. \A m \in Link : wire'[m].back = wire[m].back /\ (wire'[m].there = wire[m].there \/ wire'[m].there = Register(l))
      BY <2>1 DEF Addressed, Wiring
    <3> QED BY <2>1, <3>1, <3>2 DEF Idle
  <2>3. Connected'
    BY <2>1 DEF Connected, Up, Typed
  <2>4. StaysReady'
    BY <2>1 DEF StaysReady, Ready
  <2> QED BY <2>2, <2>3, <2>4
<1>6. ASSUME NEW l \in Link, ConnectFails(l)
      PROVE  CalmInv'
  <2>1. /\ link[l] = "connecting"
        /\ \/ link' = [link EXCEPT ![l] = "failed"] /\ failures' = failures
           \/ link' = [link EXCEPT ![l] = "down"] /\ failures' = failures + 1
        /\ UNCHANGED << wire, received, asked, gone, early, conns, live, registered >>
    BY <1>6 DEF ConnectFails, Fail
  <2>2. failures' = 0 => failures = 0 /\ link' = [link EXCEPT ![l] = "failed"]
    BY <2>1 DEF Typed
  <2> QED BY <2>1, <2>2, CalmAltered DEF Up, Connected, Typed
<1>7. ASSUME NEW l \in Link, onReconnectCallback(l) \/ onClose(l)
      PROVE  CalmInv'
  <2>1. /\ \/ link[l] = "failed" /\ link' = [link EXCEPT ![l] = "connecting"]
           \/ link[l] = "lost" /\ link' = [link EXCEPT ![l] = "down"]
        /\ UNCHANGED << wire, received, asked, gone, early, conns, live, registered, failures >>
    BY <1>7 DEF onReconnectCallback, onClose, history
  <2> QED BY <2>1, CalmAltered DEF Up, Connected, Typed
<1>8. ASSUME NEW l \in Link, Lose(l)
      PROVE  CalmInv'
  <2>1. /\ failures' = failures + 1 /\ failures \in Nat /\ UNCHANGED << asked, received >>
        /\ wire' = [wire EXCEPT ![l] = [there |-> <<>>, back |-> <<>>]]
    BY <1>8 DEF Lose, Fail, Typed
  <2>2. \A m \in Link : wire'[m] = wire[m] \/ wire'[m] = [there |-> <<>>, back |-> <<>>]
    BY <2>1 DEF Addressed, Wiring
  <2>3. <<>> \in Seq(Registrations(Content))
    OBVIOUS
  <2>4. Idle'
    BY <2>1, <2>2, <2>3 DEF Idle
  <2>5. failures' # 0
    BY <2>1
  <2> QED BY <2>4, <2>5 DEF Connected, StaysReady
<1>9. ASSUME NEW l \in Link, onSessionRecv(l)
      PROVE  CalmInv'
  <2> DEFINE p == Head(wire[l].there)
             p0 == [p EXCEPT !.from = <<l, conns[l]>>]
  <2>1. /\ wire[l].there # <<>> /\ wire' = [wire EXCEPT ![l].there = Tail(@)]
        /\ received' = [received EXCEPT ![l[2]] = Append(@, p0)]
        /\ UNCHANGED << link, conns, live, registered, asked, gone, early, failures >>
    BY <1>9 DEF onSessionRecv, history
  <2>2. Idle'
    <3> SUFFICES ASSUME asked = 0 PROVE Idle'
      BY <2>1 DEF Idle
    <3>1. wire[l].there \in Seq(Registrations(Content)) /\ l[2] \in Group
      BY DEF Idle, Link
    <3>2. p \in Registrations(Content) /\ Tail(wire[l].there) \in Seq(Registrations(Content))
      BY <2>1, <3>1
    <3>3. <<l, conns[l]>> \in Session
      BY <1>9 DEF onSessionRecv, Typed
    <3>4. p0 \in Registrations(Content)
      BY <3>2, <3>3 DEF Registrations, Content
    <3>5. \A m \in Link : wire'[m].back = wire[m].back
                         /\ wire'[m].there = IF m = l THEN Tail(wire[l].there) ELSE wire[m].there
      BY <2>1 DEF Addressed, Wiring
    <3> HIDE DEF p0
    <3>6. Append(received[l[2]], p0) \in Seq(Registrations(Content))
      BY <3>1, <3>4 DEF Idle
    <3>7. \A s \in Group : received'[s] \in Seq(Registrations(Content))
      BY <2>1, <3>1, <3>6 DEF Idle, Addressed, Lists
    <3> QED BY <3>2, <3>5, <3>7 DEF Idle
  <2>3. Connected' /\ StaysReady'
    BY <2>1 DEF Connected, StaysReady, Ready, Up
  <2> QED BY <2>2, <2>3
<1>10. ASSUME NEW l \in Link, onConnectorRecv(l)
       PROVE  CalmInv'
  <2> DEFINE p == Head(wire[l].back)
  <2>1. /\ wire[l].back # <<>> /\ Handle(l[1], p, TRUE)
        /\ UNCHANGED << link, conns, live, registered, received >>
    BY <1>10 DEF onConnectorRecv
  <2>2. p \in Content /\ Takes(l[1], p) /\ l[1] \in Group
    <3>1. wire[l].back \in Seq(Back(l))
      BY DEF Addressed, Wiring
    <3>2. p \in Back(l)
      BY <2>1, <3>1
    <3> QED BY <3>2 DEF Back, Link
  <2>3. UNCHANGED << asked, early, failures >>
    BY <2>1 DEF Handle
  <2>4. asked # 0
    BY <2>1 DEF Idle
  <2>5. Idle' /\ Connected'
    BY <2>1, <2>3, <2>4 DEF Idle, Connected, Up
  <2>6. ASSUME failures' = 0, ~early'
        PROVE  gone' = 0 /\ Ready'
    <3>1. failures = 0 /\ ~early /\ asked > 0 /\ gone = 0 /\ Ready
      BY <2>3, <2>4, <2>6 DEF Typed, StaysReady
    <3>2. gone' = 0
      BY <2>1, <2>2, <3>1, NoneGivenUp
    <3> QED BY <2>1, <3>1, <3>2 DEF Ready, Up
  <2> QED BY <2>5, <2>6 DEF StaysReady
<1>11. ASSUME NEW x \in Session, onSessionClose(x)
       PROVE  CalmInv'
  <2>1. /\ ~(Up(x[1]) /\ conns[x[1]] = x[2]) /\ live' = live \ {x}
        /\ UNCHANGED << link, conns, wire, registered, received, asked, gone, early, failures >>
    BY <1>11 DEF onSessionClose, history
  <2>2. Idle' /\ StaysReady'
    BY <2>1 DEF Idle, StaysReady, Ready, Up
  <2>3. Connected'
    BY <2>1 DEF Connected, Up
  <2> QED BY <2>2, <2>3
<1>12. ASSUME NEW what \in Kinds, Ask(what)
       PROVE  CalmInv'
  <2>1. /\ asked' = asked + 1 /\ asked \in Nat /\ (early' <=> early \/ ~Ready)
        /\ UNCHANGED << link, conns, wire, live, registered, gone, failures >>
    BY <1>12 DEF Ask, Typed
  <2>2. asked' # 0
    BY <2>1
  <2>3. Idle' /\ Connected'
    BY <2>1, <2>2 DEF Idle, Connected, Up
  <2>4. StaysReady'
    BY <2>1 DEF StaysReady, Ready, Up
  <2> QED BY <2>3, <2>4
<1>13. ASSUME getAppServerCnt
       PROVE  CalmInv'
  BY <1>13 DEF getAppServerCnt, Idle, Connected, StaysReady, Ready, Up
<1>14. ASSUME UNCHANGED vars
       PROVE  CalmInv'
  BY <1>14 DEF vars, history, Idle, Connected, StaysReady, Ready, Up
<1> QED BY <1>1, <1>2, <1>3, <1>4, <1>5, <1>6, <1>7, <1>8, <1>9, <1>10, <1>11, <1>12, <1>13, <1>14 DEF Next

\* The table is used by another thread only if a connector's packet finds no connector to
\* go on by, or for the count.
LEMMA ThreadStep ==
    ASSUME GroupInv, CalmInv, Complete, TableOnPacketThread, [Next]_vars
    PROVE  TableOnPacketThread'
<1> SUFFICES ASSUME ~early', counted' = 0
             PROVE  ~offThread'
  BY DEF TableOnPacketThread
<1>1. ASSUME NEW l \in Link, onConnectorRecv(l)
      PROVE  ~offThread'
  <2> DEFINE p == Head(wire[l].back)
  <2>1. /\ wire[l].back # <<>> /\ Handle(l[1], p, TRUE)
    BY <1>1 DEF onConnectorRecv
  <2>2. p \in Content /\ Takes(l[1], p)
    <3>1. wire[l].back \in Seq(Back(l))
      BY DEF GroupInv, Addressed, Wiring
    <3>2. p \in Back(l)
      BY <2>1, <3>1
    <3> QED BY <3>2 DEF Back
  <2>3. ~early /\ counted = 0 /\ ~offThread
    BY <2>1 DEF Handle, TableOnPacketThread
  <2>4. asked > 0
    BY <2>1 DEF CalmInv, Idle, GroupInv, Typed
  <2>5. Outcome(l[1], p) # <<>> => HasConnector(l[1], Outcome(l[1], p)[1])
    BY <2>2, <2>3, <2>4, OnwardByConnector
  <2> QED BY <2>1, <2>3, <2>5 DEF Handle
<1>2. ASSUME NEW s \in Group, onProcessPacket(s)
      PROVE  ~offThread'
  BY <1>2 DEF onProcessPacket, Handle, history, TableOnPacketThread
<1>3. ASSUME NEW what \in Kinds, Ask(what)
      PROVE  ~offThread'
  BY <1>3 DEF Ask, TableOnPacketThread
<1>4. ASSUME getAppServerCnt
      PROVE  FALSE
  BY <1>4 DEF getAppServerCnt, GroupInv, Typed
<1>5. ASSUME UNCHANGED << early, counted, offThread >>
      PROVE  ~offThread'
  BY <1>5 DEF TableOnPacketThread
<1>6. ASSUME NEW s \in Group, startServer(s) \/ stopServer(s)
      PROVE  ~offThread'
  BY <1>5, <1>6 DEF startServer, stopServer, history
<1>7. ASSUME NEW l \in Link, \/ connectAppServer(l) \/ onConnect(l) \/ ConnectFails(l)
                             \/ onReconnectCallback(l) \/ Lose(l) \/ onClose(l) \/ onSessionRecv(l)
      PROVE  ~offThread'
  BY <1>5, <1>7 DEF connectAppServer, onConnect, ConnectFails, onReconnectCallback, Lose, onClose,
                    onSessionRecv, history
<1>8. ASSUME NEW x \in Session, onSessionClose(x)
      PROVE  ~offThread'
  BY <1>5, <1>8 DEF onSessionClose, history
<1>9. ASSUME UNCHANGED vars
      PROVE  ~offThread'
  BY <1>5, <1>9 DEF vars, history
<1> QED BY <1>1, <1>2, <1>3, <1>4, <1>6, <1>7, <1>8, <1>9 DEF Next

(***************************************************************************)
(* Of a group that was ready when it was asked, and is not counted, only   *)
(* the packet threads use m_mapAppSrvSession: whatever comes in over a     *)
(* connector, and however links fail and come back, what is sent on from   *)
(* the io thread goes over a connector (onConnectorRecv, sendToServer).    *)
(***************************************************************************)
THEOREM TableOnPacketThreadCorrect == ASSUME Complete PROVE Spec => []TableOnPacketThread
<1> DEFINE Inv == GroupInv /\ CalmInv /\ TableOnPacketThread
<1>1. Init => Inv
  BY GroupInit, CalmInit DEF Init, TableOnPacketThread
<1>2. Inv /\ [Next]_vars => Inv'
  BY GroupStep, CalmStep, ThreadStep
<1> HIDE DEF Inv
<1>3. Inv => TableOnPacketThread
  BY DEF Inv
<1> QED BY <1>1, <1>2, <1>3, PTL DEF Spec

(***************************************************************************)
(* A group that was connected and registered when it was first asked loses *)
(* no request and no answer, as long as nothing fails: each is sent on by  *)
(* every server on its way and ends at the world server.                   *)
(***************************************************************************)
THEOREM ReadyLosesNothingCorrect == ASSUME Complete PROVE Spec => []ReadyLosesNothing
<1> DEFINE Inv == GroupInv /\ CalmInv
<1>1. Init => Inv
  BY GroupInit, CalmInit
<1>2. Inv /\ [Next]_vars => Inv'
  BY GroupStep, CalmStep
<1>3. Inv => ReadyLosesNothing
  BY DEF CalmInv, StaysReady, ReadyLosesNothing
<1> QED BY <1>1, <1>2, <1>3, PTL DEF Spec

--------------------------------------------------------------------------------
(***************************************************************************)
(* Counting requests: in lists, on wires.                                  *)
(***************************************************************************)
\* A set has as many elements with a tag as without.
LEMMA Tagged ==
    ASSUME NEW A, IsFiniteSet(A), NEW x
    PROVE  IsFiniteSet({x} \X A) /\ Cardinality({x} \X A) = Cardinality(A)
<1>1. IsFiniteSet({x}) /\ Cardinality({x}) = 1
  BY FS_Singleton
<1>2. IsFiniteSet({x} \X A) /\ Cardinality({x} \X A) = 1 * Cardinality(A)
  BY <1>1, FS_Product
<1>3. Cardinality(A) \in Nat
  BY FS_CardinalityType
<1> QED BY <1>2, <1>3

\* Two sets with nothing in common.
LEMMA Apart ==
    ASSUME NEW A, NEW B, IsFiniteSet(A), IsFiniteSet(B), A \cap B = {}
    PROVE  /\ IsFiniteSet(A \cup B) /\ Cardinality(A \cup B) = Cardinality(A) + Cardinality(B)
           /\ Cardinality(A) \in Nat /\ Cardinality(B) \in Nat
<1>1. Cardinality(A) \in Nat /\ Cardinality(B) \in Nat
  BY FS_CardinalityType
<1>2. IsFiniteSet(A \cup B) /\ Cardinality(A \cup B) = Cardinality(A) + Cardinality(B) - Cardinality({})
  BY FS_Union
<1> QED BY <1>1, <1>2, FS_EmptySet

\* The requests of a list, when it is empty, gets one more, or loses its first.
LEMMA CountList ==
    ASSUME NEW q \in Seq(Content)
    PROVE  /\ IsFiniteSet(Requests(q)) /\ Cardinality(Requests(q)) \in Nat
           /\ Requests(<<>>) = {}
           /\ \A p \in Content :
                 Cardinality(Requests(Append(q, p))) = Cardinality(Requests(q)) + (IF IsRequest(p) THEN 1 ELSE 0)
           /\ q # <<>> =>
                 Cardinality(Requests(q)) = Cardinality(Requests(Tail(q))) + (IF IsRequest(Head(q)) THEN 1 ELSE 0)
<1>0. \A r \in Seq(Content) : IsFiniteSet(Requests(r)) /\ Cardinality(Requests(r)) \in Nat
  <2> TAKE r \in Seq(Content)
  <2>1. Requests(r) \in SUBSET (1..Len(r)) /\ Len(r) \in Nat
    BY DEF Requests
  <2>2. IsFiniteSet(1..Len(r))
    BY <2>1, FS_Interval
  <2> QED BY <2>1, <2>2, FS_Subset, FS_CardinalityType
<1>1. Requests(<<>>) = {}
  BY DEF Requests
<1>2. ASSUME NEW p \in Content
      PROVE  Cardinality(Requests(Append(q, p))) = Cardinality(Requests(q)) + (IF IsRequest(p) THEN 1 ELSE 0)
  <2>1. /\ Len(q) \in Nat /\ DOMAIN q = 1..Len(q)
        /\ DOMAIN Append(q, p) = 1..(Len(q) + 1) /\ Append(q, p)[Len(q) + 1] = p
        /\ \A i \in 1..Len(q) : Append(q, p)[i] = q[i]
    OBVIOUS
  <2>2. Requests(Append(q, p)) = Requests(q) \cup (IF IsRequest(p) THEN {Len(q) + 1} ELSE {})
    <3> DEFINE r == Append(q, p)
    <3> HIDE DEF r
    <3>1. DOMAIN r = 1..(Len(q) + 1) /\ r[Len(q) + 1] = p /\ \A i \in 1..Len(q) : r[i] = q[i]
      BY <2>1 DEF r
    <3>2. \A i : i \in 1..(Len(q) + 1) <=> i \in 1..Len(q) \/ i = Len(q) + 1
      BY <2>1
    <3>3. Requests(r) = Requests(q) \cup (IF IsRequest(p) THEN {Len(q) + 1} ELSE {})
      BY <2>1, <3>1, <3>2 DEF Requests
    <3> QED BY <3>3 DEF r
  <2>3. Len(q) + 1 \notin Requests(q)
    BY <2>1 DEF Requests
  <2>4. CASE IsRequest(p)
    <3>1. Requests(Append(q, p)) = Requests(q) \cup {Len(q) + 1}
      BY <2>2, <2>4
    <3> QED BY <1>0, <2>3, <2>4, <3>1, FS_AddElement
  <2>5. CASE ~IsRequest(p)
    <3>1. Requests(Append(q, p)) = Requests(q)
      BY <2>2, <2>5
    <3> QED BY <1>0, <2>5, <3>1
  <2> QED BY <2>4, <2>5
<1>3. ASSUME q # <<>>
      PROVE  Cardinality(Requests(q)) = Cardinality(Requests(Tail(q))) + (IF IsRequest(Head(q)) THEN 1 ELSE 0)
  <2> DEFINE t == Tail(q)
  <2>1. /\ Len(q) \in Nat \ {0} /\ DOMAIN q = 1..Len(q) /\ t \in Seq(Content)
        /\ DOMAIN t = 1..(Len(q) - 1) /\ Head(q) = q[1]
        /\ \A i \in 1..(Len(q) - 1) : t[i] = q[i + 1]
    BY <1>3
  <2> HIDE DEF t
  <2> DEFINE Later == Requests(q) \ {1}
             f == [i \in Requests(t) |-> i + 1]
  <2>2. \A i : i \in Requests(t) <=> i \in 1..(Len(q) - 1) /\ IsRequest(q[i + 1])
    BY <2>1 DEF Requests
  <2>3. \A i : i \in Requests(q) <=> i \in 1..Len(q) /\ IsRequest(q[i])
    BY <2>1 DEF Requests
  <2>4. f \in [Requests(t) -> Later]
    <3>1. ASSUME NEW i \in Requests(t) PROVE i + 1 \in Later
      <4>1. i \in 1..(Len(q) - 1) /\ IsRequest(q[i + 1])
        BY <2>2
      <4>2. i + 1 \in 1..Len(q) /\ i + 1 # 1
        BY <2>1, <4>1
      <4> QED BY <2>3, <4>1, <4>2
    <3> QED BY <3>1
  <2>5. \A i, j \in Requests(t) : f[i] = f[j] => i = j
    BY <2>2
  <2>6. \A j \in Later : \E i \in Requests(t) : f[i] = j
    <3> TAKE j \in Later
    <3>1. j \in 1..Len(q) /\ j # 1 /\ IsRequest(q[j])
      BY <2>3
    <3>2. j - 1 \in 1..(Len(q) - 1) /\ (j - 1) + 1 = j
      BY <2>1, <3>1
    <3>3. j - 1 \in Requests(t)
      BY <2>2, <3>1, <3>2
    <3> QED BY <3>2, <3>3
  <2> HIDE DEF f, Later
  <2>7. f \in Bijection(Requests(t), Later)
    <3>1. f \in Injection(Requests(t), Later)
      BY <2>4, <2>5 DEF Injection, IsInjective
    <3>2. f \in Surjection(Requests(t), Later)
      BY <2>4, <2>6 DEF Surjection
    <3> QED BY <3>1, <3>2 DEF Bijection
  <2>8. Cardinality(Later) = Cardinality(Requests(t)) /\ Cardinality(Requests(t)) \in Nat
    BY <1>0, <2>1, <2>7, FS_Bijection DEF ExistsBijection
  <2>9. Cardinality(Later) = IF 1 \in Requests(q) THEN Cardinality(Requests(q)) - 1 ELSE Cardinality(Requests(q))
    BY <1>0, FS_RemoveElement DEF Later
  <2>10. 1 \in Requests(q) <=> IsRequest(Head(q))
    BY <2>1, <2>3
  <2>11. Cardinality(Requests(q)) \in Nat
    BY <1>0
  <2>12. Cardinality(Requests(q)) = Cardinality(Requests(t)) + (IF IsRequest(Head(q)) THEN 1 ELSE 0)
    BY <2>8, <2>9, <2>10, <2>11
  <2> QED BY <2>12 DEF t
<1> QED BY <1>0, <1>1, <1>2, <1>3

\* There are finitely many servers and links.
LEMMA Finite == IsFiniteSet(Group) /\ IsFiniteSet(Link)
<1>1. IsFiniteSet({"gate"} \cup {"center"})
  BY FS_Singleton, FS_AddElement
<1>2. IsFiniteSet(({"gate"} \cup {"center"}) \cup {"world"})
  BY <1>1, FS_AddElement
<1>3. IsFiniteSet((({"gate"} \cup {"center"}) \cup {"world"}) \cup {"db"})
  BY <1>2, FS_AddElement
<1>4. IsFiniteSet(((({"gate"} \cup {"center"}) \cup {"world"}) \cup {"db"}) \cup {"log"})
  BY <1>3, FS_AddElement
<1>5. Types = ((({"gate"} \cup {"center"}) \cup {"world"}) \cup {"db"}) \cup {"log"}
  BY DEF Types
<1>6. IsFiniteSet(Types)
  BY <1>4, <1>5
<1>7. IsFiniteSet(Group)
  BY <1>6, FS_Subset, GroupAssumption
<1>8. IsFiniteSet(Group \X Group) /\ Link \in SUBSET (Group \X Group)
  BY <1>7, FS_Product DEF Link
<1> QED BY <1>7, <1>8, FS_Subset

\* The requests on one link are those of its two directions.
LEMMA OneWire ==
    ASSUME NEW w \in Wiring, NEW l \in Link
    PROVE  /\ IsFiniteSet(OnWires(w, {l}))
           /\ Cardinality(OnWires(w, {l})) = Cardinality(Requests(w[l].there)) + Cardinality(Requests(w[l].back))
<1>1. w[l].there \in Seq(Content) /\ w[l].back \in Seq(Content)
  BY DEF Wiring
<1>2. IsFiniteSet(Requests(w[l].there)) /\ IsFiniteSet(Requests(w[l].back))
  BY <1>1, CountList
<1> DEFINE A == {<<l, "there">>} \X Requests(w[l].there)
           B == {<<l, "back">>} \X Requests(w[l].back)
<1>3. OnWires(w, {l}) = A \cup B
  BY DEF OnWires
<1>4. A \cap B = {}
  OBVIOUS
<1>5. /\ IsFiniteSet(A) /\ Cardinality(A) = Cardinality(Requests(w[l].there))
      /\ IsFiniteSet(B) /\ Cardinality(B) = Cardinality(Requests(w[l].back))
  BY <1>2, Tagged
<1> HIDE DEF A, B
<1>6. IsFiniteSet(A \cup B) /\ Cardinality(A \cup B) = Cardinality(A) + Cardinality(B)
  BY <1>4, <1>5, Apart
<1> QED BY <1>3, <1>5, <1>6

\* The requests on some links are finitely many,
LEMMA SomeWires ==
    ASSUME NEW w \in Wiring, NEW S \in SUBSET Link
    PROVE  IsFiniteSet(OnWires(w, S)) /\ Cardinality(OnWires(w, S)) \in Nat
<1>1. IsFiniteSet(S)
  BY Finite, FS_Subset
<1> DEFINE f == [l \in S |-> OnWires(w, {l})]
           K == {f[l] : l \in S}
<1>2. f \in Surjection(S, K)
  BY DEF Surjection
<1>3. IsFiniteSet(K)
  BY <1>1, <1>2, FS_Surjection
<1>4. \A T \in K : IsFiniteSet(T)
  BY OneWire
<1>5. UNION K = OnWires(w, S)
  BY DEF OnWires
<1> HIDE DEF K
<1> QED BY <1>3, <1>4, <1>5, FS_UNION, FS_CardinalityType

\* and those on all links are those on some and those on the others.
LEMMA SplitWires ==
    ASSUME NEW w \in Wiring, NEW S \in SUBSET Link, NEW T \in SUBSET S
    PROVE  Cardinality(OnWires(w, S)) = Cardinality(OnWires(w, T)) + Cardinality(OnWires(w, S \ T))
<1>1. OnWires(w, S) = OnWires(w, T) \cup OnWires(w, S \ T)
  BY DEF OnWires
<1>2. OnWires(w, T) \cap OnWires(w, S \ T) = {}
  BY DEF OnWires
<1>3. IsFiniteSet(OnWires(w, T)) /\ IsFiniteSet(OnWires(w, S \ T))
  BY SomeWires
<1> QED BY <1>1, <1>2, <1>3, Apart

\* What changes on some links changes the requests on all by as much.
LEMMA ChangeWires ==
    ASSUME NEW w \in Wiring, NEW v \in Wiring, NEW T \in SUBSET Link,
           \A l \in Link \ T : v[l] = w[l]
    PROVE  /\ Cardinality(OnWires(w, Link)) + Cardinality(OnWires(v, T))
                = Cardinality(OnWires(v, Link)) + Cardinality(OnWires(w, T))
           /\ {Cardinality(OnWires(w, Link)), Cardinality(OnWires(v, T)), Cardinality(OnWires(v, Link)),
               Cardinality(OnWires(w, T))} \subseteq Nat
<1>1. OnWires(w, Link \ T) = OnWires(v, Link \ T)
  BY DEF OnWires
<1>2. /\ Cardinality(OnWires(w, Link)) = Cardinality(OnWires(w, T)) + Cardinality(OnWires(w, Link \ T))
      /\ Cardinality(OnWires(v, Link)) = Cardinality(OnWires(v, T)) + Cardinality(OnWires(v, Link \ T))
  BY SplitWires
<1>3. /\ Cardinality(OnWires(w, T)) \in Nat /\ Cardinality(OnWires(w, Link \ T)) \in Nat
      /\ Cardinality(OnWires(v, T)) \in Nat /\ Cardinality(OnWires(w, Link)) \in Nat
      /\ Cardinality(OnWires(v, Link)) \in Nat
  BY SomeWires
<1> QED BY <1>1, <1>2, <1>3

\* And so for the lists of the servers.
LEMMA ChangeList ==
    ASSUME NEW r \in Lists, NEW s \in Group, NEW q \in Seq(Incoming(s)), NEW x, x = [r EXCEPT ![s] = q]
    PROVE  /\ Cardinality(InLists(r, Group)) + Cardinality(Requests(q))
                = Cardinality(InLists(x, Group)) + Cardinality(Requests(r[s]))
           /\ Cardinality(InLists(r, Group)) \in Nat /\ Cardinality(InLists(x, Group)) \in Nat
           /\ Cardinality(InLists(r, {s})) = Cardinality(Requests(r[s]))
<1>1. \A y \in Lists, t \in Group : IsFiniteSet({t} \X Requests(y[t]))
                                    /\ Cardinality({t} \X Requests(y[t])) = Cardinality(Requests(y[t]))
  BY CountList, Tagged DEF Lists
<1>2. x \in Lists /\ x[s] = q /\ \A t \in Group \ {s} : x[t] = r[t]
  BY Enlist DEF Lists
<1> DEFINE Others == InLists(r, Group \ {s})
           f == [t \in Group \ {s} |-> {t} \X Requests(r[t])]
           K == {f[t] : t \in Group \ {s}}
<1>4. IsFiniteSet(Others)
  <2>1. IsFiniteSet(Group \ {s})
    BY Finite, FS_RemoveElement
  <2>2. f \in Surjection(Group \ {s}, K)
    BY DEF Surjection
  <2>3. IsFiniteSet(K)
    BY <2>1, <2>2, FS_Surjection
  <2>4. \A A \in K : IsFiniteSet(A)
    BY <1>1
  <2>5. UNION K = Others
    BY DEF InLists
  <2> HIDE DEF K, Others
  <2> QED BY <2>3, <2>4, <2>5, FS_UNION
<1>5. /\ InLists(r, Group) = Others \cup ({s} \X Requests(r[s]))
      /\ Others \cap ({s} \X Requests(r[s])) = {}
  BY DEF InLists
<1>6. /\ InLists(x, Group) = Others \cup ({s} \X Requests(q))
      /\ Others \cap ({s} \X Requests(q)) = {}
  BY <1>2 DEF InLists
<1>7. /\ Cardinality(InLists(r, Group)) = Cardinality(Others) + Cardinality(Requests(r[s]))
      /\ Cardinality(Others) \in Nat /\ Cardinality(Requests(r[s])) \in Nat
  <2> HIDE DEF Others
  <2>1. IsFiniteSet({s} \X Requests(r[s])) /\ Cardinality({s} \X Requests(r[s])) = Cardinality(Requests(r[s]))
    BY <1>1
  <2> QED BY <1>4, <1>5, <2>1, Apart
<1>8. Cardinality(InLists(x, Group)) = Cardinality(Others) + Cardinality(Requests(q)) /\ Cardinality(Requests(q)) \in Nat
  <2> HIDE DEF Others
  <2>1. IsFiniteSet({s} \X Requests(q)) /\ Cardinality({s} \X Requests(q)) = Cardinality(Requests(q))
    BY <1>1, <1>2
  <2> QED BY <1>4, <1>6, <2>1, Apart
<1>9. Cardinality(InLists(r, {s})) = Cardinality(Requests(r[s]))
  <2>1. InLists(r, {s}) = {s} \X Requests(r[s])
    BY DEF InLists
  <2> QED BY <1>1, <2>1
<1> HIDE DEF Others
<1> QED BY <1>7, <1>8, <1>9

\* A list changes on one side of a link.
LEMMA PutCounts ==
    ASSUME NEW w \in Wiring, NEW l \in Link
    PROVE  /\ \A t \in Seq(There(l)) :
                 Cardinality(OnWires(w, Link)) + Cardinality(Requests(t))
                   = Cardinality(OnWires([w EXCEPT ![l].there = t], Link)) + Cardinality(Requests(w[l].there))
           /\ \A t \in Seq(Back(l)) :
                 Cardinality(OnWires(w, Link)) + Cardinality(Requests(t))
                   = Cardinality(OnWires([w EXCEPT ![l].back = t], Link)) + Cardinality(Requests(w[l].back))
<1>1. ASSUME NEW v \in Wiring, \A m \in Link \ {l} : v[m] = w[m]
      PROVE  Cardinality(OnWires(w, Link)) + (Cardinality(Requests(v[l].there)) + Cardinality(Requests(v[l].back)))
              = Cardinality(OnWires(v, Link)) + (Cardinality(Requests(w[l].there)) + Cardinality(Requests(w[l].back)))
  <2>1. {l} \in SUBSET Link /\ \A m \in Link \ {l} : v[m] = w[m]
    BY <1>1
  <2>2. Cardinality(OnWires(w, Link)) + Cardinality(OnWires(v, {l}))
          = Cardinality(OnWires(v, Link)) + Cardinality(OnWires(w, {l}))
    BY <2>1, ChangeWires
  <2> QED BY <2>2, OneWire
<1>2. /\ w[l].there \in Seq(Content) /\ w[l].back \in Seq(Content)
      /\ \A m \in Link : w[m] \in [there : Seq(Content), back : Seq(Content)]
  BY DEF Wiring
<1>3. ASSUME NEW t \in Seq(There(l))
      PROVE  Cardinality(OnWires(w, Link)) + Cardinality(Requests(t))
              = Cardinality(OnWires([w EXCEPT ![l].there = t], Link)) + Cardinality(Requests(w[l].there))
  <2> DEFINE v == [w EXCEPT ![l].there = t]
  <2>1. v \in Wiring
    BY Put
  <2>2. v[l].there = t /\ v[l].back = w[l].back /\ \A m \in Link \ {l} : v[m] = w[m]
    BY DEF Wiring
  <2>3. t \in Seq(Content)
    <3>1. There(l) \subseteq Content
      BY DEF There
    <3> QED BY <3>1
  <2> HIDE DEF v
  <2>4. /\ Cardinality(Requests(t)) \in Nat /\ Cardinality(Requests(w[l].there)) \in Nat
        /\ Cardinality(Requests(w[l].back)) \in Nat
    BY <1>2, <2>3, CountList
  <2>5. Cardinality(OnWires(w, Link)) \in Nat /\ Cardinality(OnWires(v, Link)) \in Nat
    BY <2>1, SomeWires
  <2>6. Cardinality(OnWires(w, Link)) + (Cardinality(Requests(t)) + Cardinality(Requests(w[l].back)))
          = Cardinality(OnWires(v, Link)) + (Cardinality(Requests(w[l].there)) + Cardinality(Requests(w[l].back)))
    BY <1>1, <2>1, <2>2
  <2>7. Cardinality(OnWires(w, Link)) + Cardinality(Requests(t))
          = Cardinality(OnWires(v, Link)) + Cardinality(Requests(w[l].there))
    BY <2>4, <2>5, <2>6
  <2> QED BY <2>7 DEF v
<1>4. ASSUME NEW t \in Seq(Back(l))
      PROVE  Cardinality(OnWires(w, Link)) + Cardinality(Requests(t))
              = Cardinality(OnWires([w EXCEPT ![l].back = t], Link)) + Cardinality(Requests(w[l].back))
  <2> DEFINE v == [w EXCEPT ![l].back = t]
  <2>1. v \in Wiring
    BY Put
  <2>2. v[l].back = t /\ v[l].there = w[l].there /\ \A m \in Link \ {l} : v[m] = w[m]
    BY DEF Wiring
  <2>3. t \in Seq(Content)
    <3>1. Back(l) \subseteq Content
      BY DEF Back
    <3> QED BY <3>1
  <2> HIDE DEF v
  <2>4. /\ Cardinality(Requests(t)) \in Nat /\ Cardinality(Requests(w[l].there)) \in Nat
        /\ Cardinality(Requests(w[l].back)) \in Nat
    BY <1>2, <2>3, CountList
  <2>5. Cardinality(OnWires(w, Link)) \in Nat /\ Cardinality(OnWires(v, Link)) \in Nat
    BY <2>1, SomeWires
  <2>6. Cardinality(OnWires(w, Link)) + (Cardinality(Requests(w[l].there)) + Cardinality(Requests(t)))
          = Cardinality(OnWires(v, Link)) + (Cardinality(Requests(w[l].there)) + Cardinality(Requests(w[l].back)))
    BY <1>1, <2>1, <2>2
  <2>7. Cardinality(OnWires(w, Link)) + Cardinality(Requests(t))
          = Cardinality(OnWires(v, Link)) + Cardinality(Requests(w[l].back))
    BY <2>4, <2>5, <2>6
  <2> QED BY <2>7 DEF v
<1> QED BY <1>3, <1>4

\* What is sent is on a link that is up, or gone.
LEMMA SendCounts ==
    ASSUME GroupInv, Complete, NEW s \in Group, NEW d \in Types, NEW q \in Content, Takes(d, q),
           <<s, d>> \in Paths
    PROVE  /\ sendToServer(s, d, q).gone \in Nat
           /\ Cardinality(OnWires(sendToServer(s, d, q).wires, Link)) + sendToServer(s, d, q).gone
                = Cardinality(OnWires(wire, Link)) + 1
           /\ \A m \in Link :
                 /\ ~Up(m) => sendToServer(s, d, q).wires[m] = wire[m]
                 /\ \/ sendToServer(s, d, q).wires[m].back = wire[m].back
                    \/ \E e \in Content : sendToServer(s, d, q).wires[m].back = Append(wire[m].back, e)
<1> DEFINE q0 == [q EXCEPT !.from = NoSession]
<1>1. q0 \in Content /\ Takes(d, q0) /\ IsRequest(q0)
  BY DEF Content, Takes, IsRequest
<1>2. wire \in Wiring /\ Cardinality(OnWires(wire, Link)) \in Nat
  BY SomeWires DEF GroupInv, Addressed
<1>3. CASE Route(s, d) = {}
  <2>1. sendToServer(s, d, q) = [wires |-> wire, gone |-> 1]
    BY <1>3 DEF sendToServer
  <2> QED BY <1>2, <2>1
<1>4. CASE Route(s, d) # {}
  <2>1. PICK r \in Route(s, d) :
          sendToServer(s, d, q) =
            [wires |-> IF r.way = "there" THEN [wire EXCEPT ![r.over].there = Append(@, q0)]
                                          ELSE [wire EXCEPT ![r.over].back = Append(@, q0)],
             gone |-> 0]
    BY <1>4 DEF sendToServer
  <2>2. sendToServer(s, d, q).gone = 0
    BY <2>1
  <2>3. ASSUME NEW l \in Link, r = [over |-> l, way |-> "there"], l[2] = d, Up(l)
        PROVE  /\ Cardinality(OnWires(sendToServer(s, d, q).wires, Link)) = Cardinality(OnWires(wire, Link)) + 1
               /\ \A m \in Link : /\ ~Up(m) => sendToServer(s, d, q).wires[m] = wire[m]
                                  /\ sendToServer(s, d, q).wires[m].back = wire[m].back
    <3> DEFINE t == Append(wire[l].there, q0)
               v == [wire EXCEPT ![l].there = t]
    <3>1. q0 \in There(l)
      BY <1>1, <2>3 DEF There
    <3>2. t \in Seq(There(l)) /\ wire[l].there \in Seq(Content)
      BY <1>2, <3>1 DEF Wiring
    <3>3. sendToServer(s, d, q).wires = v
      BY <1>2, <2>1, <2>3 DEF Wiring
    <3>4. \A m \in Link : v[m].back = wire[m].back /\ (m # l => v[m] = wire[m])
      BY <1>2 DEF Wiring
    <3>5. Cardinality(Requests(t)) = Cardinality(Requests(wire[l].there)) + 1
          /\ Cardinality(Requests(wire[l].there)) \in Nat
      BY <1>1, <3>2, CountList
    <3> HIDE DEF t
    <3>6. Cardinality(OnWires(wire, Link)) + Cardinality(Requests(t))
            = Cardinality(OnWires(v, Link)) + Cardinality(Requests(wire[l].there))
      BY <1>2, <3>2, PutCounts
    <3>7. v \in Wiring
      BY <1>2, <3>2, Put
    <3> HIDE DEF v
    <3>8. Cardinality(OnWires(v, Link)) \in Nat
      BY <3>7, SomeWires
    <3>9. Cardinality(OnWires(v, Link)) = Cardinality(OnWires(wire, Link)) + 1
      BY <1>2, <3>5, <3>6, <3>8
    <3> QED BY <2>3, <3>3, <3>4, <3>9
  <2>4. ASSUME NEW l \in Link, r = [over |-> l, way |-> "back"], l[1] = d, Up(l)
        PROVE  /\ Cardinality(OnWires(sendToServer(s, d, q).wires, Link)) = Cardinality(OnWires(wire, Link)) + 1
               /\ \A m \in Link :
                     /\ ~Up(m) => sendToServer(s, d, q).wires[m] = wire[m]
                     /\ \/ sendToServer(s, d, q).wires[m].back = wire[m].back
                        \/ sendToServer(s, d, q).wires[m].back = Append(wire[m].back, q0)
    <3> DEFINE t == Append(wire[l].back, q0)
               v == [wire EXCEPT ![l].back = t]
    <3>1. q0 \in Back(l)
      BY <1>1, <2>4 DEF Back
    <3>2. t \in Seq(Back(l)) /\ wire[l].back \in Seq(Content)
      BY <1>2, <3>1 DEF Wiring
    <3>3. sendToServer(s, d, q).wires = v
      BY <1>2, <2>1, <2>4 DEF Wiring
    <3>4. \A m \in Link : IF m = l THEN v[m].back = t ELSE v[m] = wire[m]
      BY <1>2 DEF Wiring
    <3>5. Cardinality(Requests(t)) = Cardinality(Requests(wire[l].back)) + 1
          /\ Cardinality(Requests(wire[l].back)) \in Nat
      BY <1>1, <3>2, CountList
    <3>0. t = Append(wire[l].back, q0)
      OBVIOUS
    <3> HIDE DEF t
    <3>6. Cardinality(OnWires(wire, Link)) + Cardinality(Requests(t))
            = Cardinality(OnWires(v, Link)) + Cardinality(Requests(wire[l].back))
      BY <1>2, <3>2, PutCounts
    <3>7. v \in Wiring
      BY <1>2, <3>2, Put
    <3> HIDE DEF v
    <3>8. Cardinality(OnWires(v, Link)) \in Nat
      BY <3>7, SomeWires
    <3>9. Cardinality(OnWires(v, Link)) = Cardinality(OnWires(wire, Link)) + 1
      BY <1>2, <3>5, <3>6, <3>8
    <3> HIDE DEF q0
    <3> QED BY <2>4, <3>0, <3>3, <3>4, <3>9
  <2>5. CASE HasConnector(s, d)
    <3>1. <<s, d>> \in Link /\ r = [over |-> <<s, d>>, way |-> "there"] /\ Up(<<s, d>>)
      BY <2>5 DEF Route, HasConnector
    <3>2. PICK l \in Link : l = <<s, d>>
      BY <3>1
    <3> QED BY <1>2, <2>2, <2>3, <3>1, <3>2
  <2>6. CASE ~HasConnector(s, d)
    <3>1. PICK x \in registered[s][d] : r = [over |-> x[1], way |-> "back"] /\ Up(x[1])
      BY <2>6 DEF Route, getAppServer
    <3>2. x[1] = <<d, s>> /\ x[1] \in Link
      BY <3>1 DEF GroupInv, Entered, Typed, Session
    <3>3. PICK l \in Link : l = x[1]
      BY <3>2
    <3> HIDE DEF q0
    <3> QED BY <1>1, <1>2, <2>2, <2>4, <3>1, <3>2, <3>3
  <2> QED BY <2>5, <2>6
<1> QED BY <1>3, <1>4

\* A request that is processed is one more that is done, gone or under way.
LEMMA HandleCounts ==
    ASSUME GroupInv, Complete, NEW s \in Group, NEW p \in Content, Takes(s, p), NEW io, Handle(s, p, io),
           done \in Nat, gone \in Nat
    PROVE  /\ done' \in Nat /\ gone' \in Nat /\ asked' = asked /\ failures' = failures
           /\ done' + gone' + Cardinality(OnWires(Wires(s, p), Link))
                = done + gone + Cardinality(OnWires(wire, Link)) + 1
           /\ \A m \in Link :
                 /\ ~Up(m) => Wires(s, p)[m] = wire[m]
                 /\ \/ Wires(s, p)[m].back = wire[m].back
                    \/ \E e \in Content : Wires(s, p)[m].back = Append(wire[m].back, e)
<1>1. Cardinality(OnWires(wire, Link)) \in Nat
  BY SomeWires DEF GroupInv, Addressed
<1>2. CASE Outcome(s, p) = <<>>
  <2>1. Wires(s, p) = wire
    BY <1>2 DEF Wires
  <2>2. /\ asked' = asked /\ failures' = failures
        /\ \/ done' = done + 1 /\ gone' = gone + 0
           \/ done' = done + 0 /\ gone' = gone + 1
    BY <1>2, Outcomes DEF Handle
  <2> QED BY <1>1, <2>1, <2>2
<1>3. CASE Outcome(s, p) # <<>>
  <2>1. PICK d \in Types, q \in Content :
          Outcome(s, p) = <<d, q>> /\ Takes(d, q) /\ <<s, d>> \in Paths
    BY <1>3, Outcomes
  <2>2. Wires(s, p) = sendToServer(s, d, q).wires
    BY <1>3, <2>1 DEF Wires
  <2>3. /\ asked' = asked /\ failures' = failures
        /\ done' = done + 0 /\ gone' = gone + sendToServer(s, d, q).gone
    BY <1>3, <2>1 DEF Handle
  <2>4. /\ sendToServer(s, d, q).gone \in Nat
        /\ Cardinality(OnWires(Wires(s, p), Link)) + sendToServer(s, d, q).gone
             = Cardinality(OnWires(wire, Link)) + 1
        /\ \A m \in Link :
              /\ ~Up(m) => Wires(s, p)[m] = wire[m]
              /\ \/ Wires(s, p)[m].back = wire[m].back
                 \/ \E e \in Content : Wires(s, p)[m].back = Append(wire[m].back, e)
    BY <2>1, <2>2, SendCounts
  <2>5. Wires(s, p) \in Wiring
    BY WiresAddressed
  <2>6. Cardinality(OnWires(Wires(s, p), Link)) \in Nat
    BY <2>5, SomeWires
  <2>7. /\ done' \in Nat /\ gone' \in Nat
        /\ done' + gone' + Cardinality(OnWires(Wires(s, p), Link))
             = done + gone + Cardinality(OnWires(wire, Link)) + 1
    <3>1. PICK g \in Nat : g = sendToServer(s, d, q).gone
      BY <2>4
    <3>2. PICK a \in Nat : a = Cardinality(OnWires(wire, Link))
      BY <1>1
    <3>3. PICK b \in Nat : b = Cardinality(OnWires(Wires(s, p), Link))
      BY <2>6
    <3>4. b + g = a + 1 /\ done' = done /\ gone' = gone + g
      BY <2>3, <2>4, <3>1, <3>2, <3>3
    <3>5. done' + gone' + b = done + gone + a + 1
      BY <3>4
    <3> QED BY <3>2, <3>3, <3>4, <3>5
  <2> QED BY <2>3, <2>4, <2>7
<1> QED BY <1>2, <1>3

(***************************************************************************)
(* The inductive invariant of the account, beside GroupInv.                *)
(***************************************************************************)
Nothing == [there |-> <<>>, back |-> <<>>]
Counters ==
    /\ started \subseteq ever /\ ever \subseteq Group
    /\ asked \in 0..MaxRequests /\ done \in Nat /\ gone \in Nat /\ failures \in 0..MaxFailures
\* What is lost with a connection is counted once: no link that is down carries anything.
DownEmpty == \A l \in Link : ~Up(l) => wire[l] = Nothing
Account == asked = done + gone + InTransit

AccountInv == Counters /\ DownEmpty /\ Account

\* The lists and the wires can be counted.
LEMMA Counts ==
    ASSUME GroupInv
    PROVE  /\ Cardinality(OnWires(wire, Link)) \in Nat /\ Cardinality(InLists(received, Group)) \in Nat
           /\ \A l \in Link : wire[l].there \in Seq(Content) /\ wire[l].back \in Seq(Content)
           /\ \A s \in Group : received[s] \in Seq(Content) /\ received[s] \in Seq(Incoming(s))
<1>1. \A l \in Link : wire[l].there \in Seq(Content) /\ wire[l].back \in Seq(Content)
  BY DEF GroupInv, Addressed, Wiring
<1>2. \A s \in Group : received[s] \in Seq(Content) /\ received[s] \in Seq(Incoming(s))
  BY DEF GroupInv, Addressed, Lists
<1>3. Cardinality(OnWires(wire, Link)) \in Nat
  BY SomeWires DEF GroupInv, Addressed
<1>4. CASE Group = {}
  BY <1>1, <1>2, <1>3, <1>4, FS_EmptySet DEF InLists
<1>5. CASE Group # {}
  <2>1. PICK s \in Group : TRUE
    BY <1>5
  <2>2. received[s] \in Seq(Incoming(s)) /\ received \in Lists
    BY <1>2 DEF GroupInv, Addressed
  <2>3. Cardinality(InLists(received, Group)) \in Nat
    BY <2>2, ChangeList
  <2> QED BY <1>1, <1>2, <1>3, <2>3
<1> QED BY <1>4, <1>5

\* Nothing was asked at first.
LEMMA AccountInit == Init => AccountInv
<1> SUFFICES ASSUME Init PROVE AccountInv
  OBVIOUS
<1>1. /\ started = Group \ Late /\ ever = Group \ Late /\ asked = 0 /\ done = 0 /\ gone = 0 /\ failures = 0
      /\ wire = [l \in Link |-> Nothing] /\ received = [s \in Group |-> <<>>]
  BY DEF Init, Nothing
<1>2. Counters /\ DownEmpty
  BY <1>1, GroupAssumption DEF Counters, DownEmpty
<1>3. OnWires(wire, Link) = {}
  <2>1. \A l \in Link : wire[l].there = <<>> /\ wire[l].back = <<>>
    BY <1>1 DEF Nothing
  <2>2. Requests(<<>>) = {}
    BY DEF Requests
  <2> QED BY <2>1, <2>2 DEF OnWires
<1>4. InLists(received, Group) = {}
  <2>1. \A s \in Group : received[s] = <<>>
    BY <1>1
  <2>2. Requests(<<>>) = {}
    BY DEF Requests
  <2> QED BY <2>1, <2>2 DEF InLists
<1>5. Cardinality(OnWires(wire, Link)) = 0 /\ Cardinality(InLists(received, Group)) = 0
  BY <1>3, <1>4, FS_EmptySet
<1>6. asked = done + gone + (Cardinality(OnWires(wire, Link)) + Cardinality(InLists(received, Group)))
  BY <1>1, <1>5
<1> QED BY <1>2, <1>6 DEF AccountInv, Account, InTransit

\* A step that moves no request.
LEMMA NoneMoved ==
    ASSUME AccountInv, Counters', UNCHANGED << wire, received, asked, done, gone >>,
           \A l \in Link : Up(l) => Up(l)' \/ wire[l] = Nothing
    PROVE  AccountInv'
<1>1. DownEmpty'
  BY DEF AccountInv, DownEmpty
<1>2. Account'
  BY DEF AccountInv, Account, InTransit
<1> QED BY <1>1, <1>2 DEF AccountInv

\* Each step keeps the account.
LEMMA AccountStep ==
    ASSUME GroupInv, Complete, AccountInv, [Next]_vars
    PROVE  AccountInv'
<1>0. /\ asked = done + gone + (Cardinality(OnWires(wire, Link)) + Cardinality(InLists(received, Group)))
      /\ done \in Nat /\ gone \in Nat /\ asked \in Nat
      /\ Cardinality(OnWires(wire, Link)) \in Nat /\ Cardinality(InLists(received, Group)) \in Nat
      /\ wire \in Wiring /\ received \in Lists
  BY Counts DEF AccountInv, Counters, Account, InTransit, GroupInv, Addressed
<1>1. ASSUME NEW s \in Group, startServer(s) PROVE AccountInv'
  <2>1. Counters'
    BY <1>1 DEF startServer, history, AccountInv, Counters
  <2> QED BY <1>1, <2>1, NoneMoved DEF startServer, history, Up
<1>2. ASSUME NEW s \in Group, stopServer(s) PROVE AccountInv'
  <2> DEFINE cut == {l \in Link : Up(l) /\ s \in {l[1], l[2]}}
  <2>1. /\ s \in started /\ failures < MaxFailures /\ failures' = failures + 1 /\ started' = started \ {s}
        /\ link' = [l \in Link |-> IF l[1] = s /\ Up(l) THEN "released"
                                  ELSE IF l[2] = s /\ Up(l) THEN "lost" ELSE link[l]]
        /\ wire' = [l \in Link |-> IF l \in cut THEN Nothing ELSE wire[l]]
        /\ gone' = gone + Cardinality(InLists(received, {s})) + Cardinality(OnWires(wire, cut))
        /\ received' = [received EXCEPT ![s] = <<>>]
        /\ UNCHANGED << ever, asked, done >>
    BY <1>2 DEF stopServer, Fail, Nothing
  <2>2. \A l \in Link : Up(l)' <=> Up(l) /\ l \notin cut
    BY <2>1 DEF Up
  <2>3. DownEmpty'
    BY <2>1, <2>2 DEF AccountInv, DownEmpty
  <2>4. cut \in SUBSET Link /\ wire' \in Wiring /\ \A l \in Link \ cut : wire'[l] = wire[l]
    <3>1. \A l \in Link : wire'[l] = wire[l] \/ wire'[l] = [there |-> <<>>, back |-> <<>>]
      BY <2>1 DEF Nothing
    <3>2. wire' = [l \in Link |-> wire'[l]]
      BY <2>1
    <3>3. wire' \in Wiring
      BY <1>0, <3>1, <3>2, Cut
    <3> QED BY <2>1, <3>3
  <2>5. Cardinality(OnWires(wire', cut)) = 0
    <3>1. \A l \in cut : wire'[l].there = <<>> /\ wire'[l].back = <<>>
      BY <2>1 DEF Nothing
    <3>2. Requests(<<>>) = {}
      BY DEF Requests
    <3>3. OnWires(wire', cut) = {}
      BY <3>1, <3>2 DEF OnWires
    <3> QED BY <3>3, FS_EmptySet
  <2> HIDE DEF cut
  <2>6. /\ Cardinality(OnWires(wire, Link)) + 0 = Cardinality(OnWires(wire', Link)) + Cardinality(OnWires(wire, cut))
        /\ Cardinality(OnWires(wire', Link)) \in Nat /\ Cardinality(OnWires(wire, cut)) \in Nat
    BY <1>0, <2>4, <2>5, ChangeWires
  <2>7. /\ Cardinality(InLists(received, Group)) + 0
             = Cardinality(InLists(received', Group)) + Cardinality(InLists(received, {s}))
        /\ Cardinality(InLists(received', Group)) \in Nat /\ Cardinality(InLists(received, {s})) \in Nat
    <3>1. <<>> \in Seq(Incoming(s))
      OBVIOUS
    <3>2. PICK q \in Seq(Incoming(s)) : q = <<>>
      BY <3>1
    <3>3. PICK x : x = [received EXCEPT ![s] = q]
      OBVIOUS
    <3>4. Cardinality(Requests(q)) = 0
      BY <3>2, FS_EmptySet DEF Requests
    <3>5. /\ Cardinality(InLists(received, Group)) + Cardinality(Requests(q))
               = Cardinality(InLists(x, Group)) + Cardinality(Requests(received[s]))
          /\ Cardinality(InLists(x, Group)) \in Nat
          /\ Cardinality(InLists(received, {s})) = Cardinality(Requests(received[s]))
      BY <1>0, <3>3, ChangeList
    <3>6. Cardinality(Requests(received[s])) \in Nat
      BY Counts, CountList
    <3>7. /\ Cardinality(InLists(received, Group)) + 0
             = Cardinality(InLists(x, Group)) + Cardinality(InLists(received, {s}))
          /\ Cardinality(InLists(x, Group)) \in Nat /\ Cardinality(InLists(received, {s})) \in Nat
      BY <3>6, <3>4, <3>5
    <3> QED BY <2>1, <3>2, <3>3, <3>7
  <2>8. gone' \in Nat /\ asked' = done' + gone' + (Cardinality(OnWires(wire', Link)) + Cardinality(InLists(received', Group)))
    <3>1. PICK a \in Nat : a = Cardinality(OnWires(wire', Link))
      BY <2>6
    <3>2. PICK b \in Nat : b = Cardinality(OnWires(wire, cut))
      BY <2>6
    <3>3. PICK c \in Nat : c = Cardinality(InLists(received', Group))
      BY <2>7
    <3>4. PICK d \in Nat : d = Cardinality(InLists(received, {s}))
      BY <2>7
    <3>5. /\ Cardinality(OnWires(wire, Link)) = a + b /\ Cardinality(InLists(received, Group)) = c + d
      BY <1>0, <2>6, <2>7, <3>1, <3>2, <3>3, <3>4
    <3>6. gone' = gone + d + b /\ asked' = asked /\ done' = done
      BY <2>1, <3>2, <3>4
    <3>7. gone' \in Nat /\ asked' = done' + gone' + (a + c)
      BY <1>0, <3>5, <3>6
    <3> QED BY <3>1, <3>3, <3>7
  <2>9. Counters'
    BY <2>1, <2>8, GroupAssumption DEF AccountInv, Counters
  <2> QED BY <2>3, <2>8, <2>9 DEF AccountInv, Account, InTransit
<1>3. ASSUME NEW l \in Link, connectAppServer(l) PROVE AccountInv'
  <2>1. Counters'
    BY <1>3 DEF connectAppServer, history, AccountInv, Counters
  <2>2. \A k \in Link : Up(k) => Up(k)'
    BY <1>3 DEF connectAppServer, Up
  <2> QED BY <1>3, <2>1, <2>2, NoneMoved DEF connectAppServer, history
<1>4. ASSUME NEW s \in Group, onProcessPacket(s) PROVE AccountInv'
  <2>1. PICK r : r = Head(received[s])
    OBVIOUS
  <2>2. /\ received[s] # <<>> /\ received' = [received EXCEPT ![s] = Tail(received[s])]
        /\ UNCHANGED << started, ever, link, conns, live >>
    BY <1>4 DEF onProcessPacket
  <2>3. received[s] \in Seq(Incoming(s)) /\ received[s] \in Seq(Content)
    BY Counts
  <2>4. r \in Incoming(s) /\ r \in Content /\ Tail(received[s]) \in Seq(Incoming(s)) /\ Tail(received[s]) \in Seq(Content)
    BY <2>1, <2>2, <2>3
  <2>5. /\ Cardinality(InLists(received, Group))
             = Cardinality(InLists(received', Group)) + (IF IsRequest(r) THEN 1 ELSE 0)
        /\ Cardinality(InLists(received', Group)) \in Nat
    <3>1. PICK q \in Seq(Incoming(s)) : q = Tail(received[s])
      BY <2>4
    <3>2. PICK x : x = [received EXCEPT ![s] = q]
      OBVIOUS
    <3>3. /\ Cardinality(InLists(received, Group)) + Cardinality(Requests(q))
               = Cardinality(InLists(x, Group)) + Cardinality(Requests(received[s]))
          /\ Cardinality(InLists(x, Group)) \in Nat
      BY <1>0, <3>2, ChangeList
    <3>4. /\ Cardinality(Requests(received[s])) = Cardinality(Requests(q)) + (IF IsRequest(r) THEN 1 ELSE 0)
          /\ Cardinality(Requests(q)) \in Nat
      BY <2>1, <2>2, <2>3, <2>4, <3>1, CountList
    <3>5. Cardinality(InLists(received, Group)) = Cardinality(InLists(x, Group)) + (IF IsRequest(r) THEN 1 ELSE 0)
      BY <1>0, <3>3, <3>4
    <3> QED BY <2>2, <3>1, <3>2, <3>3, <3>5
  <2>6. CASE IsRequest(r)
    <3>1. Handle(s, r, FALSE) /\ wire' = Wires(s, r)
      BY <1>4, <2>1, <2>6 DEF onProcessPacket
    <3>2. Takes(s, r)
      BY <2>4, <2>6 DEF Incoming, IsRequest
    <3>3. /\ done' \in Nat /\ gone' \in Nat /\ asked' = asked /\ failures' = failures
          /\ done' + gone' + Cardinality(OnWires(wire', Link)) = done + gone + Cardinality(OnWires(wire, Link)) + 1
          /\ \A m \in Link : ~Up(m) => wire'[m] = wire[m]
      BY <1>0, <2>4, <3>1, <3>2, HandleCounts
    <3>4. Cardinality(OnWires(wire', Link)) \in Nat
      <4>1. Wires(s, r) \in Wiring
        BY <2>4, <3>2, WiresAddressed
      <4> QED BY <3>1, <4>1, SomeWires
    <3>5. asked' = done' + gone' + (Cardinality(OnWires(wire', Link)) + Cardinality(InLists(received', Group)))
      BY <1>0, <2>5, <2>6, <3>3, <3>4
    <3>6. Counters' /\ DownEmpty'
      BY <2>2, <3>3 DEF AccountInv, Counters, DownEmpty, Up
    <3> QED BY <3>5, <3>6 DEF AccountInv, Account, InTransit
  <2>7. CASE ~IsRequest(r)
    <3>1. UNCHANGED << wire, asked, done, gone, failures >>
      BY <1>4, <2>1, <2>7 DEF onProcessPacket, history
    <3>2. asked' = done' + gone' + (Cardinality(OnWires(wire', Link)) + Cardinality(InLists(received', Group)))
      BY <1>0, <2>5, <2>7, <3>1
    <3>3. Counters' /\ DownEmpty'
      BY <2>2, <3>1 DEF AccountInv, Counters, DownEmpty, Up
    <3> QED BY <3>2, <3>3 DEF AccountInv, Account, InTransit
  <2> QED BY <2>6, <2>7
<1>5. ASSUME NEW l \in Link, onConnect(l) PROVE AccountInv'
  <2>1. /\ link[l] = "connecting" /\ link' = [link EXCEPT ![l] = "up"]
        /\ wire' = [wire EXCEPT ![l].there = Register(l)]
        /\ UNCHANGED << started, ever, received, asked, done, gone, failures >>
    BY <1>5 DEF onConnect, history
  <2>2. wire[l] = Nothing
    BY <2>1 DEF AccountInv, DownEmpty, Up
  <2>3. Register(l) \in Seq(There(l)) /\ Cardinality(Requests(Register(l))) = 0
    <3>1. Packet("register", l[1], "server") \in There(l) /\ ~IsRequest(Packet("register", l[1], "server"))
      BY GroupAssumption DEF There, Packet, Content, Link, IsRequest
    <3>2. Requests(Register(l)) = {}
      BY <3>1 DEF Register, Requests
    <3> QED BY <3>1, <3>2, FS_EmptySet DEF Register
  <2>4. Cardinality(Requests(wire[l].there)) = 0
    BY <2>2, FS_EmptySet DEF Nothing, Requests
  <2>5. Cardinality(OnWires(wire', Link)) = Cardinality(OnWires(wire, Link))
    <3>1. PICK t : t = Register(l)
      OBVIOUS
    <3>2. [wire EXCEPT ![l].there = t] \in Wiring
      BY <1>0, <2>3, <3>1, Put
    <3>3. Cardinality(OnWires(wire, Link)) + 0 = Cardinality(OnWires([wire EXCEPT ![l].there = t], Link)) + 0
      BY <1>0, <2>3, <2>4, <3>1, PutCounts
    <3>4. Cardinality(OnWires([wire EXCEPT ![l].there = t], Link)) \in Nat
      BY <3>2, SomeWires
    <3>5. Cardinality(OnWires([wire EXCEPT ![l].there = t], Link)) = Cardinality(OnWires(wire, Link))
      BY <1>0, <3>3, <3>4
    <3> QED BY <2>1, <3>1, <3>5
  <2>6. Counters'
    BY <2>1 DEF AccountInv, Counters
  <2>7. DownEmpty'
    <3>1. link \in [Link -> States] /\ DOMAIN wire = Link
      BY <1>0 DEF GroupInv, Typed, Wiring
    <3>2. \A m \in Link : ~Up(m)' => ~Up(m) /\ wire'[m] = wire[m]
      BY <2>1, <3>1 DEF Up
    <3> QED BY <3>2 DEF AccountInv, DownEmpty
  <2> QED BY <1>0, <2>1, <2>5, <2>6, <2>7 DEF AccountInv, Account, InTransit
<1>6. ASSUME NEW l \in Link, ConnectFails(l) PROVE AccountInv'
  <2>1. /\ link[l] = "connecting" /\ UNCHANGED << started, ever, wire, received, asked, done, gone >>
        /\ \E v : link' = [link EXCEPT ![l] = v]
        /\ failures' = failures \/ (failures < MaxFailures /\ failures' = failures + 1)
    BY <1>6 DEF ConnectFails, Fail
  <2>2. Counters'
    BY <2>1, GroupAssumption DEF AccountInv, Counters
  <2>3. \A m \in Link : Up(m) => Up(m)'
    BY <2>1 DEF Up, GroupInv, Typed
  <2> QED BY <2>1, <2>2, <2>3, NoneMoved
<1>7. ASSUME NEW l \in Link, onReconnectCallback(l) \/ onClose(l) PROVE AccountInv'
  <2>1. /\ link[l] # "up" /\ UNCHANGED << started, ever, wire, received, asked, done, gone, failures >>
        /\ \E v : link' = [link EXCEPT ![l] = v]
    BY <1>7 DEF onReconnectCallback, onClose, history
  <2>2. Counters'
    BY <2>1 DEF AccountInv, Counters
  <2>3. \A m \in Link : Up(m) => Up(m)'
    BY <2>1 DEF Up, GroupInv, Typed
  <2> QED BY <2>1, <2>2, <2>3, NoneMoved
<1>8. ASSUME NEW l \in Link, Lose(l) PROVE AccountInv'
  <2>1. /\ failures < MaxFailures /\ failures' = failures + 1
        /\ link' = [link EXCEPT ![l] = "lost"]
        /\ wire' = [wire EXCEPT ![l] = Nothing]
        /\ gone' = gone + Cardinality(OnWires(wire, {l}))
        /\ UNCHANGED << started, ever, received, asked, done >>
    BY <1>8 DEF Lose, Fail, Nothing
  <2>2. DOMAIN wire = Link /\ DOMAIN link = Link
    BY <1>0 DEF Wiring, GroupInv, Typed
  <2>3. {l} \in SUBSET Link /\ wire' \in Wiring /\ \A m \in Link \ {l} : wire'[m] = wire[m]
    <3>1. \A m \in Link : wire'[m] = wire[m] \/ wire'[m] = [there |-> <<>>, back |-> <<>>]
      BY <2>1, <2>2 DEF Nothing
    <3>2. wire' = [m \in Link |-> wire'[m]]
      BY <1>0, <2>1, <2>2 DEF Wiring
    <3>3. wire' \in Wiring
      BY <1>0, <3>1, <3>2, Cut
    <3> QED BY <2>1, <2>2, <3>3
  <2>4. Cardinality(OnWires(wire', {l})) = 0
    <3>1. wire'[l].there = <<>> /\ wire'[l].back = <<>>
      BY <2>1, <2>2 DEF Nothing
    <3>2. Requests(<<>>) = {}
      BY DEF Requests
    <3>3. OnWires(wire', {l}) = {}
      BY <3>1, <3>2 DEF OnWires
    <3> QED BY <3>3, FS_EmptySet
  <2>5. /\ Cardinality(OnWires(wire, Link)) + 0 = Cardinality(OnWires(wire', Link)) + Cardinality(OnWires(wire, {l}))
        /\ Cardinality(OnWires(wire', Link)) \in Nat /\ Cardinality(OnWires(wire, {l})) \in Nat
    BY <1>0, <2>3, <2>4, ChangeWires
  <2>6. gone' \in Nat /\ asked' = done' + gone' + (Cardinality(OnWires(wire', Link)) + Cardinality(InLists(received', Group)))
    BY <1>0, <2>1, <2>5
  <2>7. Counters'
    BY <2>1, <2>6, GroupAssumption DEF AccountInv, Counters
  <2>8. DownEmpty'
    BY <2>1, <2>2 DEF AccountInv, DownEmpty, Up
  <2> QED BY <2>6, <2>7, <2>8 DEF AccountInv, Account, InTransit
<1>9. ASSUME NEW l \in Link, onSessionRecv(l) PROVE AccountInv'
  <2>1. PICK p : p = Head(wire[l].there)
    OBVIOUS
  <2>2. PICK p0 : p0 = [p EXCEPT !.from = <<l, conns[l]>>]
    OBVIOUS
  <2>3. /\ wire[l].there # <<>> /\ <<l, conns[l]>> \in live /\ Up(l)
        /\ received' = [received EXCEPT ![l[2]] = Append(received[l[2]], p0)]
        /\ wire' = [wire EXCEPT ![l].there = Tail(wire[l].there)]
        /\ UNCHANGED << started, ever, link, asked, done, gone, failures >>
    BY <1>9, <2>1, <2>2 DEF onSessionRecv, history
  <2>4. PICK s \in Group : s = l[2]
    BY DEF Link
  <2>5. wire[l].there \in Seq(There(l)) /\ wire[l].there \in Seq(Content) /\ received[s] \in Seq(Content)
    BY <1>0, Counts DEF Wiring
  <2>6. p \in There(l) /\ Tail(wire[l].there) \in Seq(There(l)) /\ Tail(wire[l].there) \in Seq(Content)
    BY <2>1, <2>3, <2>5
  <2>7. p0 \in Content /\ p0 \in Incoming(s) /\ (IsRequest(p0) <=> IsRequest(p))
    <3>1. <<l, conns[l]>> \in Session
      BY <2>3 DEF GroupInv, Typed
    <3>2. p \in Content /\ p0 \in Content
      BY <2>2, <2>6, <3>1 DEF There, Content
    <3>3. p0.op = p.op /\ p0.dest = p.dest /\ p0.what = p.what /\ p0.from = <<l, conns[l]>>
      BY <2>2, <3>2 DEF Content
    <3>4. Takes(s, p) => Takes(s, p0)
      BY <3>3 DEF Takes
    <3>5. l = <<l[1], s>>
      BY <2>4 DEF Link
    <3>6. p0 \in Incoming(s)
      BY <2>4, <2>6, <3>1, <3>2, <3>3, <3>4, <3>5 DEF There, Incoming
    <3> QED BY <3>2, <3>3, <3>6 DEF IsRequest
  <2>8. /\ Cardinality(InLists(received', Group))
             = Cardinality(InLists(received, Group)) + (IF IsRequest(p) THEN 1 ELSE 0)
    <3>1. Append(received[s], p0) \in Seq(Incoming(s))
      <4>1. received[s] \in Seq(Incoming(s))
        BY Counts
      <4> QED BY <2>7, <4>1
    <3>2. PICK q \in Seq(Incoming(s)) : q = Append(received[s], p0)
      BY <3>1
    <3>3. PICK x : x = [received EXCEPT ![s] = q]
      OBVIOUS
    <3>4. /\ Cardinality(InLists(received, Group)) + Cardinality(Requests(q))
               = Cardinality(InLists(x, Group)) + Cardinality(Requests(received[s]))
          /\ Cardinality(InLists(x, Group)) \in Nat
      BY <1>0, <3>3, ChangeList
    <3>5. /\ Cardinality(Requests(q))
               = Cardinality(Requests(received[s])) + (IF IsRequest(p0) THEN 1 ELSE 0)
          /\ Cardinality(Requests(received[s])) \in Nat
      BY <2>5, <2>7, <3>2, CountList
    <3>6. Cardinality(InLists(x, Group)) = Cardinality(InLists(received, Group)) + (IF IsRequest(p) THEN 1 ELSE 0)
      BY <1>0, <2>7, <3>4, <3>5
    <3> QED BY <2>3, <2>4, <3>3, <3>6, <3>2
  <2>9. /\ Cardinality(OnWires(wire, Link)) = Cardinality(OnWires(wire', Link)) + (IF IsRequest(p) THEN 1 ELSE 0)
        /\ Cardinality(OnWires(wire', Link)) \in Nat
    <3>1. PICK t : t = Tail(wire[l].there)
      OBVIOUS
    <3>2. [wire EXCEPT ![l].there = t] \in Wiring
      BY <1>0, <2>6, <3>1, Put
    <3>3. Cardinality(OnWires(wire, Link)) + Cardinality(Requests(t))
            = Cardinality(OnWires([wire EXCEPT ![l].there = t], Link)) + Cardinality(Requests(wire[l].there))
      BY <1>0, <2>6, <3>1, PutCounts
    <3>4. /\ Cardinality(Requests(wire[l].there)) = Cardinality(Requests(t)) + (IF IsRequest(p) THEN 1 ELSE 0)
          /\ Cardinality(Requests(t)) \in Nat
      BY <2>1, <2>3, <2>5, <2>6, <3>1, CountList
    <3>5. PICK c \in Nat : c = Cardinality(OnWires([wire EXCEPT ![l].there = t], Link))
      BY <3>2, SomeWires
    <3>6. Cardinality(OnWires(wire, Link)) = c + (IF IsRequest(p) THEN 1 ELSE 0)
      <4>1. PICK n \in Nat : n = Cardinality(Requests(t))
        BY <3>4
      <4>2. PICK e \in {0, 1} : e = (IF IsRequest(p) THEN 1 ELSE 0)
        OBVIOUS
      <4>3. PICK k \in Nat : k = Cardinality(OnWires(wire, Link))
        BY <1>0
      <4>4. k + n = c + (n + e)
        BY <3>3, <3>4, <3>5, <4>1, <4>2, <4>3
      <4>5. k = c + e
        BY <4>4
      <4> QED BY <4>2, <4>3, <4>5
    <3> QED BY <2>3, <3>1, <3>5, <3>6
  <2>10. asked' = done' + gone' + (Cardinality(OnWires(wire', Link)) + Cardinality(InLists(received', Group)))
    BY <1>0, <2>3, <2>8, <2>9
  <2>11. Counters'
    BY <2>3 DEF AccountInv, Counters
  <2>12. DownEmpty'
    BY <1>0, <2>3 DEF AccountInv, DownEmpty, Up, Wiring
  <2> QED BY <2>10, <2>11, <2>12 DEF AccountInv, Account, InTransit
<1>10. ASSUME NEW l \in Link, onConnectorRecv(l) PROVE AccountInv'
  <2>1. PICK p : p = Head(wire[l].back)
    OBVIOUS
  <2>2. PICK s \in Group : s = l[1]
    BY DEF Link
  <2>3. PICK v : v = Wires(s, p)
    OBVIOUS
  <2>4. /\ Up(l) /\ wire[l].back # <<>> /\ Handle(s, p, TRUE)
        /\ wire' = [v EXCEPT ![l].back = Tail(v[l].back)]
        /\ UNCHANGED << started, ever, link, received >>
    BY <1>10, <2>1, <2>2, <2>3 DEF onConnectorRecv
  <2>5. p \in Content /\ Takes(s, p) /\ IsRequest(p)
    <3>1. wire[l].back \in Seq(Back(l))
      BY <1>0 DEF Wiring
    <3>2. p \in Back(l)
      BY <2>1, <2>4, <3>1
    <3> QED BY <2>2, <3>2 DEF Back, Takes, IsRequest
  <2>6. v \in Wiring /\ v[l].back # <<>>
    BY <2>3, <2>4, <2>5, WiresAddressed
  <2>7. /\ done' \in Nat /\ gone' \in Nat /\ asked' = asked /\ failures' = failures
        /\ done' + gone' + Cardinality(OnWires(v, Link)) = done + gone + Cardinality(OnWires(wire, Link)) + 1
        /\ \A m \in Link : ~Up(m) => v[m] = wire[m]
        /\ v[l].back = wire[l].back \/ \E e \in Content : v[l].back = Append(wire[l].back, e)
    BY <1>0, <2>3, <2>4, <2>5, HandleCounts
  <2>8. v[l].back \in Seq(Back(l)) /\ v[l].back \in Seq(Content) /\ wire[l].back \in Seq(Content)
    BY <1>0, <2>6 DEF Wiring
  <2>9. Head(v[l].back) = p
    <3>1. ASSUME NEW e \in Content PROVE Head(Append(wire[l].back, e)) = p
      BY <2>1, <2>4, <2>8
    <3> QED BY <2>1, <2>7, <3>1
  <2>10. Tail(v[l].back) \in Seq(Back(l)) /\ Tail(v[l].back) \in Seq(Content)
    BY <2>6, <2>8
  <2>11. PICK t : t = Tail(v[l].back)
    OBVIOUS
  <2>12. PICK w : w = [v EXCEPT ![l].back = t]
    OBVIOUS
  <2>13. w \in Wiring /\ wire' = w
    BY <2>4, <2>6, <2>10, <2>11, <2>12, Put
  <2>14. Cardinality(OnWires(v, Link)) = Cardinality(OnWires(w, Link)) + 1
    <3>1. Cardinality(OnWires(v, Link)) + Cardinality(Requests(t))
            = Cardinality(OnWires(w, Link)) + Cardinality(Requests(v[l].back))
      BY <2>6, <2>10, <2>11, <2>12, PutCounts
    <3>2. Cardinality(Requests(v[l].back)) = Cardinality(Requests(t)) + 1 /\ Cardinality(Requests(t)) \in Nat
      BY <2>5, <2>6, <2>8, <2>9, <2>10, <2>11, CountList
    <3>3. Cardinality(OnWires(v, Link)) \in Nat /\ Cardinality(OnWires(w, Link)) \in Nat
      BY <2>6, <2>13, SomeWires
    <3> QED BY <3>1, <3>2, <3>3
  <2>15. asked' = done' + gone' + (Cardinality(OnWires(wire', Link)) + Cardinality(InLists(received', Group)))
    <3>1. PICK a \in Nat : a = Cardinality(OnWires(v, Link))
      BY <2>6, SomeWires
    <3>2. PICK b \in Nat : b = Cardinality(OnWires(w, Link))
      BY <2>13, SomeWires
    <3>3. a = b + 1 /\ done' + gone' + a = done + gone + Cardinality(OnWires(wire, Link)) + 1
      BY <2>7, <2>14, <3>1, <3>2
    <3>4. asked' = done' + gone' + (b + Cardinality(InLists(received, Group)))
      <4>1. PICK c \in Nat : c = Cardinality(InLists(received, Group))
        BY <1>0
      <4>2. PICK k \in Nat : k = Cardinality(OnWires(wire, Link))
        BY <1>0
      <4>3. asked' = done + gone + (k + c)
        BY <1>0, <2>7, <4>1, <4>2
      <4>4. done' + gone' + a = done + gone + k + 1
        BY <3>3, <4>2
      <4>5. done' \in Nat /\ gone' \in Nat /\ done \in Nat /\ gone \in Nat /\ a = b + 1
        BY <1>0, <2>7, <3>3
      <4>6. asked' = done' + gone' + (b + c)
        <5>1. PICK d \in Nat : d = done
          BY <4>5
        <5>2. PICK g \in Nat : g = gone
          BY <4>5
        <5>3. PICK d1 \in Nat : d1 = done'
          BY <4>5
        <5>4. PICK g1 \in Nat : g1 = gone'
          BY <4>5
        <5>5. asked' = d + g + (k + c)
          BY <4>3, <5>1, <5>2
        <5>6. d1 + g1 + a = d + g + k + 1
          BY <4>4, <5>1, <5>2, <5>3, <5>4
        <5>7. d + g + (k + c) = d1 + g1 + (b + c)
          BY <4>5, <5>6
        <5> QED BY <5>3, <5>4, <5>5, <5>7
      <4> QED BY <4>1, <4>6
    <3> QED BY <2>4, <2>13, <3>2, <3>4
  <2>16. Counters'
    BY <2>4, <2>7 DEF AccountInv, Counters
  <2>17. DownEmpty'
    <3>1. \A m \in Link : ~Up(m) => wire'[m] = wire[m]
      BY <2>4, <2>6, <2>7 DEF Wiring
    <3> QED BY <2>4, <3>1 DEF AccountInv, DownEmpty, Up
  <2> QED BY <2>15, <2>16, <2>17 DEF AccountInv, Account, InTransit
<1>11. ASSUME NEW x \in Session, onSessionClose(x) PROVE AccountInv'
  <2>1. Counters'
    BY <1>11 DEF onSessionClose, history, AccountInv, Counters
  <2> QED BY <1>11, <2>1, NoneMoved DEF onSessionClose, history, Up
<1>12. ASSUME NEW what \in Kinds, Ask(what) PROVE AccountInv'
  <2>1. PICK p : p = Packet("msg", "none", what)
    OBVIOUS
  <2>2. /\ asked < MaxRequests /\ asked' = asked + 1
        /\ received' = [received EXCEPT !["gate"] = Append(received["gate"], p)]
        /\ UNCHANGED << started, ever, link, wire, done, gone, failures >>
    BY <1>12, <2>1 DEF Ask
  <2>3. PICK s \in Group : s = "gate"
    BY DEF Complete
  <2>4. p \in Incoming(s) /\ p \in Content /\ IsRequest(p)
    BY <2>1, <2>3, GroupAssumption DEF Packet, Incoming, Takes, Content, IsRequest
  <2>5. received[s] \in Seq(Incoming(s)) /\ received[s] \in Seq(Content)
    BY Counts
  <2>6. PICK q \in Seq(Incoming(s)) : q = Append(received[s], p)
    <3>1. Append(received[s], p) \in Seq(Incoming(s))
      BY <2>4, <2>5
    <3> QED BY <3>1
  <2>7. PICK x : x = [received EXCEPT ![s] = q]
    OBVIOUS
  <2>8. /\ Cardinality(InLists(received, Group)) + Cardinality(Requests(q))
             = Cardinality(InLists(x, Group)) + Cardinality(Requests(received[s]))
        /\ Cardinality(InLists(x, Group)) \in Nat
    BY <1>0, <2>7, ChangeList
  <2>9. /\ Cardinality(Requests(q)) = Cardinality(Requests(received[s])) + 1
        /\ Cardinality(Requests(received[s])) \in Nat
    BY <2>4, <2>5, <2>6, CountList
  <2>10. Cardinality(InLists(x, Group)) = Cardinality(InLists(received, Group)) + 1
    BY <1>0, <2>8, <2>9
  <2>11. asked' = done' + gone' + (Cardinality(OnWires(wire', Link)) + Cardinality(InLists(received', Group)))
    <3>1. received' = x
      BY <2>2, <2>3, <2>6, <2>7
    <3>2. PICK a \in Nat : a = Cardinality(OnWires(wire, Link))
      BY <1>0
    <3>3. PICK b \in Nat : b = Cardinality(InLists(received, Group))
      BY <1>0
    <3>4. asked' = done + gone + (a + (b + 1))
      BY <1>0, <2>2, <3>2, <3>3
    <3>5. Cardinality(InLists(received', Group)) = b + 1 /\ wire' = wire
      BY <2>2, <2>10, <3>1, <3>3
    <3> QED BY <2>2, <3>2, <3>4, <3>5
  <2>12. Counters' /\ DownEmpty'
    BY <2>2, GroupAssumption DEF AccountInv, Counters, DownEmpty, Up
  <2> QED BY <2>11, <2>12 DEF AccountInv, Account, InTransit
<1>13. ASSUME getAppServerCnt PROVE AccountInv'
  BY <1>13, NoneMoved DEF getAppServerCnt, AccountInv, Counters, Up
<1>14. ASSUME UNCHANGED vars PROVE AccountInv'
  BY <1>14, NoneMoved DEF vars, history, AccountInv, Counters, Up
<1> QED BY <1>1, <1>2, <1>3, <1>4, <1>5, <1>6, <1>7, <1>8, <1>9, <1>10, <1>11, <1>12, <1>13, <1>14 DEF Next

\* What comes in is of the packets the servers know.
LEMMA KnownPackets ==
    ASSUME NEW l \in Link, NEW s \in Group
    PROVE  There(l) \subseteq Packets /\ Back(l) \subseteq Packets /\ Incoming(s) \subseteq Packets
<1>1. ASSUME NEW p \in Content, (\E t : Takes(t, p)) \/ (p.op = "register" /\ p.what = "server")
      PROVE  p \in Packets
  BY <1>1 DEF Content, Takes, Packets
<1> QED BY <1>1 DEF There, Back, Incoming

\* The account, with the types of the packets, is the property.
LEMMA AccountImplies == ASSUME GroupInv, AccountInv PROVE RequestsAccounted
<1>1. Range(<<>>) = {}
  BY DEF Range
<1>2. ASSUME NEW S, S \subseteq Packets, NEW q \in Seq(S) PROVE Range(q) \subseteq Packets
  BY <1>2 DEF Range
<1>3. \A l \in Link : Range(wire[l].there) \cup Range(wire[l].back) \subseteq Packets
  <2> TAKE l \in Link
  <2>1. wire[l].there \in Seq(There(l)) /\ wire[l].back \in Seq(Back(l)) /\ l[1] \in Group
    BY DEF GroupInv, Addressed, Wiring, Link
  <2>2. There(l) \subseteq Packets /\ Back(l) \subseteq Packets
    BY <2>1, KnownPackets
  <2> QED BY <1>2, <2>1, <2>2
<1>4. \A s \in Group : Range(received[s]) \subseteq Packets
  <2> TAKE s \in Group
  <2>1. received[s] \in Seq(Incoming(s))
    BY DEF GroupInv, Addressed, Lists
  <2>2. Incoming(s) \subseteq Packets
    <3>1. ASSUME NEW p \in Incoming(s) PROVE p \in Packets
      BY DEF Incoming, Content, Takes, Packets
    <3> QED BY <3>1
  <2> QED BY <1>2, <2>1, <2>2
<1>5. {asked, done, gone} \subseteq 0..MaxRequests
  <2>1. InTransit \in Nat
    BY Counts DEF InTransit
  <2> QED BY <2>1, GroupAssumption DEF AccountInv, Counters, Account
<1>6. TypeOK
  BY <1>3, <1>4, <1>5 DEF TypeOK, AccountInv, Counters, GroupInv, Typed, States
<1> QED BY <1>6 DEF RequestsAccounted, AccountInv, Account

(***************************************************************************)
(* Wherever requests are redirected, and whatever fails, each that was     *)
(* asked is under way, answered, or was given up, and once: none is sent   *)
(* twice and none disappears unseen.                                       *)
(***************************************************************************)
THEOREM RequestsAccountedCorrect == ASSUME Complete PROVE Spec => []RequestsAccounted
<1> DEFINE Inv == GroupInv /\ AccountInv
<1>1. Init => Inv
  BY GroupInit, AccountInit
<1>2. Inv /\ [Next]_vars => Inv'
  BY GroupStep, AccountStep
<1>3. Inv => RequestsAccounted
  BY AccountImplies
<1> QED BY <1>1, <1>2, <1>3, PTL DEF Spec

=================================================================================

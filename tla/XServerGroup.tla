------------------------------ MODULE XServerGroup ------------------------------
(***************************************************************************)
(* The servers of extend/XServerGroup: XAppServer with its connectors      *)
(* (XAppConnector), its packet thread and its table of registered servers, *)
(* and the gate, center, world, db and log servers built on it.            *)
(*                                                                         *)
(* Every server listens, connects to the servers its configuration names   *)
(* and registers with them.  A packet for another server goes over the     *)
(* connector to it, or else over the session it registered from.  What a   *)
(* server accepts is handled by its packet thread, what its connectors     *)
(* receive by an io thread.                                                *)
(*                                                                         *)
(* A connector is a link <<s, d>> between the server that made it and the  *)
(* one it leads to; of the client under it (module XClient) only whether   *)
(* it is connected is kept, and a session of d is named by its link and    *)
(* by how many connections the link had.  Sending and processing are one   *)
(* step: the queues between them are those of the wires.                   *)
(***************************************************************************)
EXTENDS Integers, Sequences, FiniteSets, SequencesExt

CONSTANTS
    Group,          \* the servers of the group that are there
    Kinds,          \* what players ask: "login" or "logout"
    MaxConns,       \* bound: connections of a link
    MaxRequests,    \* bound: requests of players
    Late,           \* the servers that start after the others
    Fragile,        \* the servers that are stopped, or whose links fail
    MaxFailures,    \* bound: connections lost, names unresolved, servers stopped
    MaxCounts       \* bound: calls of getAppServerCnt

Types == {"gate", "center", "world", "db", "log"}

ASSUME GroupAssumption ==
    /\ Group \subseteq Types /\ Kinds \subseteq {"login", "logout"}
    /\ MaxConns \in Nat \ {0} /\ MaxRequests \in Nat /\ MaxFailures \in Nat /\ MaxCounts \in Nat
    /\ Late \subseteq Group /\ Fragile \subseteq Group

CenterForgetsWorld(s) ==        \* mutant
    CASE s = "world" -> {"db", "log", "gate"}
      [] s = "center" -> {"gate", "log", "db"}
      [] OTHER -> {}
\* The servers that the configuration of s has it connect to.
EndPoints(s) ==
    CASE s = "world" -> {"db", "log", "gate"}
      [] s = "center" -> {"world", "gate", "log", "db"}
      [] OTHER -> {}

Link == {l \in Group \X Group : l[2] \in EndPoints(l[1])}
Session == Link \X (1..MaxConns)

VARIABLES
    started,        \* the servers whose XServer is started and whose packet thread runs
    ever,           \* the servers that were started (each is, once)
    link,           \* the client under each connector
    conns,          \* connections each link had
    wire,           \* packets on each connection, in either direction
    live,           \* the sessions in the tables of the XServers
    registered,     \* m_mapAppSrvSession: sessions by server and type
    received,       \* m_listRecvPacket: packets and the sessions they came from
    asked,          \* requests of players
    done,           \* answers that came back to the world server
    gone,           \* requests and answers that no server sent on, or a loss took
    early,          \* a request came before the group was ready
    failures,       \* connections lost, names unresolved, servers stopped
    counted,        \* calls of getAppServerCnt
    offThread       \* a thread other than the packet thread used m_mapAppSrvSession

history == << asked, done, gone, early, failures, counted, offThread >>

vars == << started, ever, link, conns, wire, live, registered, received, history >>

NoSession == <<>>       \* not one of the group's: a player's, or not known
Packet(op, dest, what) == [op |-> op, dest |-> dest, what |-> what, from |-> NoSession]

Init ==
    /\ started = Group \ Late /\ ever = Group \ Late
    /\ link = [l \in Link |-> "none"]
    /\ conns = [l \in Link |-> 0]
    /\ wire = [l \in Link |-> [there |-> <<>>, back |-> <<>>]]
    /\ live = {}
    /\ registered = [s \in Group |-> [t \in Types |-> {}]]
    /\ received = [s \in Group |-> <<>>]
    /\ asked = 0 /\ done = 0 /\ gone = 0 /\ early = FALSE /\ failures = 0
    /\ counted = 0 /\ offThread = FALSE

Up(l) == link[l] = "up"
IsRequest(p) == p.op # "register"

\* Where requests are: in a list, on the links of S, in the lists of the servers of S.
Requests(q) == {i \in DOMAIN q : IsRequest(q[i])}
OnWires(w, S) == UNION {({<<l, "there">>} \X Requests(w[l].there))
                          \cup ({<<l, "back">>} \X Requests(w[l].back)) : l \in S}
InLists(r, S) == UNION {{s} \X Requests(r[s]) : s \in S}

--------------------------------------------------------------------------------
(***************************************************************************)
(* XAppServer is started and stopped, and connects.                        *)
(***************************************************************************)
startServer(s) ==
    /\ s \notin ever
    /\ started' = started \cup {s} /\ ever' = ever \cup {s}
    /\ UNCHANGED << link, conns, wire, live, registered, received, history >>

Fail(s) == s \in Fragile /\ failures < MaxFailures /\ failures' = failures + 1

\* The connectors that are connected are released for good: m_bIsConnected stays
\* set.  The others go on.  Nothing is registered any less.
stopServer(s) ==
    /\ s \in started /\ Fail(s)
    /\ started' = started \ {s}
    /\ link' = [l \in Link |-> IF l[1] = s /\ Up(l) THEN "released"
                               ELSE IF l[2] = s /\ Up(l) THEN "lost" ELSE link[l]]
    /\ LET cut == {l \in Link : Up(l) /\ s \in {l[1], l[2]}}
       IN  /\ wire' = [l \in Link |-> IF l \in cut THEN [there |-> <<>>, back |-> <<>>] ELSE wire[l]]
           /\ gone' = gone + Cardinality(InLists(received, {s})) + Cardinality(OnWires(wire, cut))
    /\ live' = {x \in live : x[1][2] # s}
    /\ received' = [received EXCEPT ![s] = <<>>]
    /\ UNCHANGED << ever, conns, registered, asked, done, early, counted, offThread >>

\* One round of its loop, which makes the connector and has it connect.  Other threads,
\* the connector's among them, go on between two rounds.
connectAppServer(l) ==
    /\ l[1] \in ever /\ link[l] \in {"none", "down"}
    /\ link' = [link EXCEPT ![l] = "connecting"]
    /\ UNCHANGED << started, ever, conns, wire, live, registered, received, history >>

(***************************************************************************)
(* XAppConnector.                                                          *)
(***************************************************************************)
\* The packet by which a connector registers its server.
Register(l) == << Packet("register", l[1], "server") >>

onConnect(l) ==
    /\ link[l] = "connecting" /\ l[2] \in started /\ conns[l] < MaxConns
    /\ link' = [link EXCEPT ![l] = "up"]
    /\ conns' = [conns EXCEPT ![l] = @ + 1]
    /\ live' = live \cup {<<l, conns[l] + 1>>}
    /\ wire' = [wire EXCEPT ![l].there = Register(l)]
    /\ UNCHANGED << started, ever, registered, received, history >>

\* An attempt fails, which the connector is told; a name that is not resolved it is not.
ConnectFails(l) ==
    /\ link[l] = "connecting"
    /\ \/ l[2] \notin started /\ link' = [link EXCEPT ![l] = "failed"]
          /\ UNCHANGED failures
       \/ link' = [link EXCEPT ![l] = "down"] /\ Fail(l[2])
    /\ UNCHANGED << started, ever, conns, wire, live, registered, received, asked, done, gone,
                    early, counted, offThread >>

onReconnectCallback(l) ==
    /\ link[l] = "failed"
    /\ link' = [link EXCEPT ![l] = "connecting"]
    /\ UNCHANGED << started, ever, conns, wire, live, registered, received, history >>

Lose(l) ==
    /\ Up(l) /\ Fail(l[2])
    /\ link' = [link EXCEPT ![l] = "lost"]
    /\ wire' = [wire EXCEPT ![l] = [there |-> <<>>, back |-> <<>>]]
    /\ gone' = gone + Cardinality(OnWires(wire, {l}))
    /\ UNCHANGED << started, ever, conns, live, registered, received, asked, done, early,
                    counted, offThread >>

\* The connector notices, and nobody connects it again but connectAppServer.
onClose(l) ==
    /\ link[l] = "lost"
    /\ link' = [link EXCEPT ![l] = "down"]
    /\ UNCHANGED << started, ever, conns, wire, live, registered, received, history >>

\* The XServer notices, and deletes the session; its pointer stays registered.
onSessionClose(x) ==
    /\ x \in live
    /\ ~(Up(x[1]) /\ conns[x[1]] = x[2])
    /\ live' = live \ {x}
    /\ UNCHANGED << started, ever, link, conns, wire, registered, received, history >>

--------------------------------------------------------------------------------
(***************************************************************************)
(* Sending and processing.                                                 *)
(***************************************************************************)
HasConnector(s, d) == <<s, d>> \in Link /\ link[<<s, d>>] # "none"

\* getAppServer: the first session that the type registered from, if any.
getAppServer(s, d) ==
    {x \in registered[s][d] : \A y \in registered[s][d] : x[2] <= y[2]}

ByConnectorOnly(s, d) ==        \* mutant
    IF HasConnector(s, d) /\ Up(<<s, d>>) THEN {[over |-> <<s, d>>, way |-> "there"]} ELSE {}
\* Where what server s sends to type d goes: over the connector, whether or not it is
\* connected, or else the session, whether or not it is still there.
Route(s, d) ==
    IF HasConnector(s, d)
    THEN IF Up(<<s, d>>) THEN {[over |-> <<s, d>>, way |-> "there"]} ELSE {}
    ELSE {[over |-> x[1], way |-> "back"] :
            x \in {y \in getAppServer(s, d) : y \in live /\ Up(y[1]) /\ conns[y[1]] = y[2]}}

SendsBothWays(s, d, p) ==       \* mutant: no return after the connector's send
    IF Route(s, d) = {} THEN [wires |-> wire, gone |-> 0]
    ELSE [wires |-> [l \in Link |-> IF l = <<s, d>> \/ l = <<d, s>> THEN
                        [there |-> Append(wire[l].there, p), back |-> Append(wire[l].back, p)]
                     ELSE wire[l]],
          gone |-> 0]
sendToServer(s, d, p) ==
    IF Route(s, d) = {}
    THEN [wires |-> wire, gone |-> 1]
    ELSE LET r == CHOOSE r \in Route(s, d) : TRUE
             sent == [p EXCEPT !.from = NoSession]
         IN  [wires |-> IF r.way = "there" THEN [wire EXCEPT ![r.over].there = Append(@, sent)]
                                           ELSE [wire EXCEPT ![r.over].back = Append(@, sent)],
              gone |-> 0]

\* What each server sends on, and to whom, when it processes a packet of its own:
\* onProcessMsgPacket of the gate server,
gateSends(what) == IF what \in Kinds THEN <<"world", Packet("cmd", "world", what)>> ELSE <<>>

\* of the world server, where an answer ends,
worldSends(what) ==
    CASE what = "login" -> <<"db", Packet("msg", "none", "loginReq")>>
      [] what = "logout" -> <<"db", Packet("msg", "none", "logoutReq")>>
      [] OTHER -> <<>>
worldAnswered(what) == what \in {"loginRes", "logoutRes"}

\* of the db server, whose answer to a logout goes by way of the center server,
dbSends(what) ==
    CASE what = "loginReq" -> <<"world", Packet("cmd", "world", "loginRes")>>
      [] what = "logoutReq" -> <<"center", Packet("cmd", "world", "logoutRes")>>
      [] OTHER -> <<>>

\* and of the center and log servers, which send nothing.
centerSends(what) == <<>>
logSends(what) == <<>>

AsksAgain(s, what) ==           \* mutant: a case of the world server lacks its break
    CASE s = "gate" -> gateSends(what)
      [] s = "world" -> <<"db", Packet("msg", "none", "loginReq")>>
      [] s = "db" -> dbSends("loginReq")
      [] OTHER -> <<>>
\* onProcessMsgPacket: the server sent to, and the packet.
Answer(s, what) ==
    CASE s = "gate" -> gateSends(what)
      [] s = "world" -> worldSends(what)
      [] s = "db" -> dbSends(what)
      [] s = "center" -> centerSends(what)
      [] s = "log" -> logSends(what)

\* onProcessPacket and onProcessCmdPacket: a command for another server is redirected.
Outcome(s, p) ==
    IF p.op = "cmd" /\ p.dest # s THEN <<p.dest, p>> ELSE Answer(s, p.what)

\* A request that server s processes is sent on, or ends there: well if it is an
\* answer that reached the world server.
Handle(s, p, io) ==
    LET o == Outcome(s, p)
        answered == s = "world" /\ worldAnswered(p.what)
    IN  /\ done' = done + (IF o = <<>> /\ answered THEN 1 ELSE 0)
        /\ gone' = gone + (IF o # <<>> THEN sendToServer(s, o[1], o[2]).gone
                           ELSE IF answered THEN 0 ELSE 1)
        /\ offThread' = (offThread \/ (io /\ o # <<>> /\ ~HasConnector(s, o[1])))
        /\ UNCHANGED << asked, early, failures, counted >>

\* What is on the wires afterwards.
Wires(s, p) == LET o == Outcome(s, p)
               IN  IF o = <<>> THEN wire ELSE sendToServer(s, o[1], o[2]).wires

\* onProcessRegPacket: the session it came from is entered, if it is still there.
onProcessRegPacket(s, x, t) ==
    IF x \in live THEN [registered EXCEPT ![s][t] = @ \cup {x}] ELSE registered

\* One packet of the list, on the packet thread.
onProcessPacket(s) ==
    /\ s \in started /\ received[s] # <<>>
    /\ LET r == Head(received[s])
       IN  IF IsRequest(r)
           THEN /\ Handle(s, r, FALSE)
                /\ wire' = Wires(s, r)
                /\ UNCHANGED registered
           ELSE /\ registered' = onProcessRegPacket(s, r.from, r.dest)
                /\ UNCHANGED << wire, history >>
    /\ received' = [received EXCEPT ![s] = Tail(@)]
    /\ UNCHANGED << started, ever, link, conns, live >>

\* A packet arrives at the server a link leads to, and is put in its list.
onSessionRecv(l) ==
    /\ Up(l) /\ wire[l].there # <<>> /\ <<l, conns[l]>> \in live
    /\ received' = [received EXCEPT ![l[2]] =
                      Append(@, [Head(wire[l].there) EXCEPT !.from = <<l, conns[l]>>])]
    /\ wire' = [wire EXCEPT ![l].there = Tail(@)]
    /\ UNCHANGED << started, ever, link, conns, live, registered, history >>

\* One arrives at the connector, and is processed at once.
onConnectorRecv(l) ==
    /\ Up(l) /\ wire[l].back # <<>>
    /\ LET p == Head(wire[l].back)
       IN  /\ Handle(l[1], p, TRUE)
           /\ wire' = [Wires(l[1], p) EXCEPT ![l].back = Tail(@)]
    /\ UNCHANGED << started, ever, link, conns, live, registered, received >>

\* Every connector is connected and its server registered.
Ready == \A l \in Link : Up(l) /\ <<l, conns[l]>> \in registered[l[2]][l[1]]

\* A player's packet arrives at the gate.
Ask(what) ==
    /\ "gate" \in started /\ asked < MaxRequests
    /\ asked' = asked + 1
    /\ early' = (early \/ ~Ready)
    /\ received' = [received EXCEPT !["gate"] =
                      Append(@, Packet("msg", "none", what))]
    /\ UNCHANGED << started, ever, link, conns, wire, live, registered, done, gone,
                    failures, counted, offThread >>

\* Any thread may have the servers counted that are registered.
getAppServerCnt ==
    /\ counted < MaxCounts
    /\ counted' = counted + 1 /\ offThread' = TRUE
    /\ UNCHANGED << started, ever, link, conns, wire, live, registered, received, asked, done,
                    gone, early, failures >>

--------------------------------------------------------------------------------
Next ==
    \/ \E s \in Group : startServer(s) \/ stopServer(s) \/ onProcessPacket(s)
    \/ \E l \in Link :
          \/ connectAppServer(l)
          \/ onConnect(l) \/ ConnectFails(l) \/ onReconnectCallback(l) \/ Lose(l) \/ onClose(l)
          \/ onSessionRecv(l) \/ onConnectorRecv(l)
    \/ \E x \in Session : onSessionClose(x)
    \/ \E what \in Kinds : Ask(what)
    \/ getAppServerCnt

Spec == Init /\ [][Next]_vars

\* As long as packets wait to be processed, the packet threads and io threads process
\* one or the other.  That a server is ever reached is not taken for granted.
FairSpec ==
    /\ Spec
    /\ WF_vars(\/ \E s \in Group : onProcessPacket(s)
               \/ \E l \in Link : onSessionRecv(l) \/ onConnectorRecv(l))

--------------------------------------------------------------------------------
(***************************************************************************)
(* Properties.                                                             *)
(***************************************************************************)
Packets == [op : {"register", "msg", "cmd"}, dest : Types \cup {"none"},
            what : {"server", "loginReq", "loginRes", "logoutReq", "logoutRes"} \cup Kinds,
            from : Session \cup {NoSession}]
InTransit == Cardinality(OnWires(wire, Link)) + Cardinality(InLists(received, Group))

TypeOK ==
    /\ started \subseteq ever /\ ever \subseteq Group
    /\ link \in [Link -> {"none", "connecting", "failed", "up", "lost", "down", "released"}]
    /\ conns \in [Link -> 0..MaxConns]
    /\ \A l \in Link : Range(wire[l].there) \cup Range(wire[l].back) \subseteq Packets
    /\ live \subseteq Session
    /\ registered \in [Group -> [Types -> SUBSET Session]]
    /\ \A s \in Group : Range(received[s]) \subseteq Packets
    /\ {asked, done, gone} \subseteq 0..MaxRequests /\ failures \in 0..MaxFailures
    /\ counted \in 0..MaxCounts /\ {early, offThread} \subseteq BOOLEAN

\* Wherever requests are redirected, and whatever fails, none is sent twice and none
\* disappears unseen: each is under way, answered, or was given up at one place.
RequestsAccounted == TypeOK /\ asked = done + gone + InTransit

\* Once the whole group is connected and registered, every request finds its way
\* through the servers and its answer back, as long as nothing fails.
ReadyLosesNothing == (~early /\ failures = 0) => gone = 0

\* m_mapAppSrvSession has no lock.  Of a group that was ready when it was asked, and is
\* not counted, only the packet threads use it: with the configured connections, what a
\* connector receives goes on over a connector, whatever fails meanwhile.
TableOnPacketThread == ~early /\ counted = 0 => ~offThread

\* No request is redirected for ever, or stuck: if some day no more are asked, all
\* have ended.
EveryRequestEnds == []<>(asked = done + gone \/ asked < MaxRequests)
================================================================================

-------------------------------- MODULE XClient --------------------------------
(***************************************************************************)
(* XClient over XAsioTCPClient: connecting with a timer beside the attempt,*)
(* reading while connected, the echo test, losing and giving up the        *)
(* connection, and connecting again.                                       *)
(*                                                                         *)
(* Attempt k is the k-th XAsioTCPClient a client makes, with the session   *)
(* it creates.  The object lives while m_ptrTCPClient points at it or an   *)
(* operation it began is under way, and closes its session when it is      *)
(* destroyed.  The functions of XClient take no lock: each is one step     *)
(* here, taken by the application's thread or by a thread of the           *)
(* io_service.  The registration of the service, which onConnectCallback   *)
(* looks up, lasts as long as the object and is left out.                  *)
(***************************************************************************)
EXTENDS Naturals, Sequences

CONSTANTS
    Attempts,    \* bound: calls of connect that are not refused
    MaxReads     \* bound: reads completed with data, per session

ASSUME ClientAssumption == Attempts \in Nat \ {0} /\ MaxReads \in Nat

VARIABLES
    alive,     \* the client is not destroyed
    current,   \* m_ptrTCPClient: an attempt, or 0
    made,      \* attempts made
    attempt,   \* of each attempt: the operation under way
    socket,    \* the socket of its session
    bound,     \* the session's handlers call this client
    reads,     \* reads outstanding on the session
    sends,     \* writes outstanding on the session
    ptrSession,\* m_ptrSession: the session of an attempt, or 0
    connected, \* m_bIsConnected
    idle,      \* m_bTimeoutDisconnect
    testing,   \* m_bTestEcho
    header,    \* m_recvPacket: "none", or a header whose body is awaited and "fits" or is "huge"
    waiting,   \* what m_timer waits for: "connect", "silence" or "nothing"
    due,       \* waits that have expired, whose handler has not run
    got,       \* history: reads of each session completed with data
    told,      \* history: what the application was told of each attempt, "ok" or "failed"
    late       \* history: a handler of an older attempt has called the client

vars == << alive, current, made, attempt, socket, bound, reads, sends, ptrSession, connected,
           idle, testing, header, waiting, due, got, told, late >>
link == << bound, reads, sends, got >>
history == << header, told, late >>

Attempt == 1..Attempts

Init ==
    /\ alive = TRUE
    /\ current = 0 /\ made = 0 /\ ptrSession = 0
    /\ attempt = [k \in Attempt |-> "none"]
    /\ socket = [k \in Attempt |-> "none"]
    /\ bound = [k \in Attempt |-> FALSE]
    /\ reads = [k \in Attempt |-> 0]
    /\ sends = [k \in Attempt |-> 0]
    /\ got = [k \in Attempt |-> 0]
    /\ connected = FALSE /\ testing = FALSE
    /\ idle \in BOOLEAN /\ header = "none"
    /\ waiting = "nothing" /\ due = {}
    /\ told = [k \in Attempt |-> {}]
    /\ late = FALSE

UnderWay(k) == attempt[k] \in {"resolving", "connecting"}

--------------------------------------------------------------------------------
(***************************************************************************)
(* XAsioTCPClient and the session's close.                                 *)
(***************************************************************************)
closed(s, k) == [s EXCEPT ![k] = IF @ = "none" THEN @ ELSE "closed"]

DestroyNothing(s, k) == s    \* mutant: the session outlives the client object
\* ~XAsioTCPClient, when the last reference to attempt k goes.
destroy(s, k) == closed(s, k)

\* expires_from_now and cancel: a wait that has expired is not called back.
cancel == waiting' = "nothing" /\ UNCHANGED due

--------------------------------------------------------------------------------
(***************************************************************************)
(* XClient.                                                                *)
(***************************************************************************)
connect ==
    LET k == made + 1
    IN  /\ alive /\ ~connected /\ made < Attempts
        /\ made' = k /\ current' = k
        /\ attempt' = [attempt EXCEPT ![k] = "resolving"]
        /\ socket' = IF current # 0 /\ ~UnderWay(current) THEN destroy(socket, current) ELSE socket
        /\ waiting' = "connect"
        /\ UNCHANGED << alive, link, ptrSession, connected, idle, testing, due, history >>

\* The session's handlers are released and its socket closed; m_bIsConnected stays.
Released == connected /\ ptrSession # 0
DisconnectOnlyReleases ==    \* mutant
    /\ bound' = IF Released THEN [bound EXCEPT ![ptrSession] = FALSE] ELSE bound
    /\ UNCHANGED socket
    /\ cancel
disconnect ==
    /\ bound' = IF Released THEN [bound EXCEPT ![ptrSession] = FALSE] ELSE bound
    /\ socket' = IF Released THEN closed(socket, ptrSession) ELSE socket
    /\ cancel

Disconnect ==
    /\ alive
    /\ disconnect
    /\ UNCHANGED << alive, current, made, attempt, reads, sends, got, ptrSession, connected,
                    idle, testing, history >>

\* The session's recv throws when it is asked for a body longer than its buffer, and
\* the thread that called it leaves there.  The echo test asks only for headers.
Throws(h) == h = "huge" /\ ~testing

RecvNever(r, s, h) == r                    \* mutant
\* The reads outstanding once recv has asked session s for a header, or for h's body.
recv(r, s, h) == IF Throws(h) THEN r ELSE [r EXCEPT ![s] = @ + 1]
\* It watches for silence with the timer, if it was asked to.
watch(h) == waiting' = IF idle /\ ~Throws(h) THEN "silence" ELSE waiting

\* A header left by an earlier session is still in m_recvPacket: it is its body that is
\* asked of the new one, and when recv throws the connect handler is not called.
onConnect(k) ==
    /\ connected' = TRUE
    /\ ptrSession' = k
    /\ bound' = [bound EXCEPT ![k] = TRUE]
    /\ reads' = recv(reads, k, header)
    /\ waiting' = IF idle /\ ~Throws(header) THEN "silence" ELSE "nothing"
    /\ told' = IF Throws(header) THEN told ELSE [told EXCEPT ![k] = @ \cup {"ok"}]

send ==
    /\ alive /\ connected /\ ptrSession # 0
    /\ socket[ptrSession] = "open" /\ sends[ptrSession] = 0
    /\ sends' = [sends EXCEPT ![ptrSession] = 1]
    /\ UNCHANGED << alive, current, made, attempt, socket, bound, reads, got, ptrSession,
                    connected, idle, testing, waiting, due, history >>

\* The header that testEcho sends is one more write, and its recv one more read.
testEcho ==
    /\ alive /\ ~testing
    /\ testing' = TRUE
    /\ IF connected
       THEN /\ reads' = recv(reads, ptrSession, "none")
            /\ sends' = [sends EXCEPT ![ptrSession] = IF socket[ptrSession] = "open" THEN 1 ELSE @]
            /\ watch("none")
       ELSE UNCHANGED << reads, sends, waiting >>
    /\ UNCHANGED << alive, current, made, attempt, socket, bound, got, ptrSession, connected,
                    idle, due, history >>

\* A handler of attempt k calls the client.
Calls(k) == late' = (late \/ k # current)

OnCloseIgnored(k) == UNCHANGED connected /\ Calls(k)    \* mutant
onClose(k) == connected' = FALSE /\ Calls(k)

\* ~XClient.  What runs afterwards touches a destroyed client: nothing is said of it.
release ==
    /\ alive
    /\ alive' = FALSE
    /\ connected' = FALSE
    /\ bound' = IF ptrSession # 0 THEN [bound EXCEPT ![ptrSession] = FALSE] ELSE bound
    /\ socket' = IF current # 0 /\ ~UnderWay(current)
                 THEN destroy(IF Released THEN closed(socket, ptrSession) ELSE socket, current)
                 ELSE IF Released THEN closed(socket, ptrSession) ELSE socket
    /\ cancel
    /\ UNCHANGED << current, made, attempt, reads, sends, got, ptrSession, idle, testing, history >>

--------------------------------------------------------------------------------
(***************************************************************************)
(* The io_service.                                                         *)
(***************************************************************************)
\* An error of the resolver is logged, and nobody is told.
onResolveCallback(k) ==
    /\ alive /\ attempt[k] = "resolving"
    /\ \/ /\ attempt' = [attempt EXCEPT ![k] = "connecting"]
          /\ socket' = [socket EXCEPT ![k] = "connecting"]
       \/ /\ attempt' = [attempt EXCEPT ![k] = "failed"]
          /\ UNCHANGED socket
    /\ UNCHANGED << alive, current, made, link, ptrSession, connected, idle, testing, waiting,
                    due, history >>

\* The attempt fails: onConnect(nullptr) is disconnect, and the connect handler is not called.
ConnectFails(k) ==
    /\ alive /\ attempt[k] = "connecting"
    /\ attempt' = [attempt EXCEPT ![k] = "failed"]
    /\ bound' = IF Released THEN [bound EXCEPT ![ptrSession] = FALSE] ELSE bound
    /\ socket' = closed(IF Released THEN closed(socket, ptrSession) ELSE socket, k)
    /\ cancel
    /\ Calls(k)
    /\ UNCHANGED << alive, current, made, reads, sends, got, ptrSession, connected, idle,
                    testing, header, told >>

\* It succeeds; an attempt that was replaced meanwhile is destroyed as its handler returns.
ConnectSucceeds(k) ==
    /\ alive /\ attempt[k] = "connecting"
    /\ attempt' = [attempt EXCEPT ![k] = "made"]
    /\ socket' = LET s == [socket EXCEPT ![k] = "open"]
                 IN  IF current = k THEN s ELSE destroy(s, k)
    /\ onConnect(k)
    /\ Calls(k)
    /\ UNCHANGED << alive, current, made, sends, got, idle, testing, header, due >>

\* The peer closes or resets the connection.
Lose(k) ==
    /\ socket[k] = "open"
    /\ socket' = [socket EXCEPT ![k] = "lost"]
    /\ UNCHANGED << alive, current, made, attempt, link, ptrSession, connected, idle, testing,
                    waiting, due, history >>

\* setData: what arrives is the body that was awaited, or a header, whose body may be empty.
Imported(h) == IF h = "none" THEN {"none", "fits", "huge"} ELSE {"none"}

\* A read completes with data: onRecv imports it and calls recv, which reads from
\* m_ptrSession whichever session the data came from.
onRecv(k) ==
    /\ alive /\ reads[k] > 0 /\ socket[k] \in {"open", "closed"} /\ got[k] < MaxReads
    /\ got' = [got EXCEPT ![k] = @ + 1]
    /\ header' \in (IF bound[k] THEN Imported(header) ELSE {header})
    /\ LET r == [reads EXCEPT ![k] = @ - 1]
       IN  IF bound[k] /\ connected
           THEN reads' = recv(r, ptrSession, header') /\ watch(header')
           ELSE reads' = r /\ UNCHANGED waiting
    /\ IF bound[k] THEN Calls(k) ELSE UNCHANGED late
    /\ UNCHANGED << alive, current, made, attempt, socket, bound, sends, ptrSession, connected,
                    idle, testing, due, told >>

\* A read or a write fails, and the close handler is called unless it was released.
Fails(k) ==
    /\ alive /\ socket[k] \in {"lost", "closed"}
    /\ \/ /\ reads[k] > 0
          /\ reads' = [reads EXCEPT ![k] = @ - 1] /\ UNCHANGED sends
       \/ /\ sends[k] > 0
          /\ sends' = [sends EXCEPT ![k] = @ - 1] /\ UNCHANGED reads
    /\ IF bound[k] THEN onClose(k) ELSE UNCHANGED << connected, late >>
    /\ UNCHANGED << alive, current, made, attempt, socket, bound, got, ptrSession, idle,
                    testing, header, waiting, due, told >>

onSend(k) ==
    /\ alive /\ sends[k] > 0 /\ socket[k] # "lost"
    /\ sends' = [sends EXCEPT ![k] = @ - 1]
    /\ UNCHANGED << alive, current, made, attempt, socket, bound, reads, got, ptrSession,
                    connected, idle, testing, waiting, due, history >>

Expire ==
    /\ alive /\ waiting # "nothing"
    /\ due' = due \cup {waiting}
    /\ waiting' = "nothing"
    /\ UNCHANGED << alive, current, made, attempt, socket, link, ptrSession, connected, idle,
                    testing, history >>

\* The attempt goes on after its failure was told.
onConnTimeoutCallback ==
    /\ alive /\ "connect" \in due
    /\ due' = due \ {"connect"}
    /\ told' = IF connected THEN told ELSE [told EXCEPT ![current] = @ \cup {"failed"}]
    /\ UNCHANGED << alive, current, made, attempt, socket, link, ptrSession, connected, idle,
                    testing, header, waiting, late >>

\* The application's close handler is called, and the connection is kept.
onDisconnTimeCallback ==
    /\ alive /\ "silence" \in due
    /\ due' = due \ {"silence"}
    /\ UNCHANGED << alive, current, made, attempt, socket, link, ptrSession, connected, idle,
                    testing, waiting, history >>

Application == connect \/ Disconnect \/ send \/ testEcho \/ release
Service ==
    \/ Expire \/ onConnTimeoutCallback \/ onDisconnTimeCallback
    \/ \E k \in Attempt :
          \/ onResolveCallback(k) \/ ConnectFails(k) \/ ConnectSucceeds(k)
          \/ onRecv(k) \/ Fails(k) \/ onSend(k)
Next == Application \/ Service \/ \E k \in Attempt : Lose(k)

Spec == Init /\ [][Next]_vars

\* The io_service runs what is ready, and operations and waits come to an end.
FairSpec == Spec /\ WF_vars(Service) /\ \A k \in Attempt : WF_vars(Fails(k))
                 /\ WF_vars(Expire) /\ WF_vars(onConnTimeoutCallback)

--------------------------------------------------------------------------------
(***************************************************************************)
(* Properties.                                                             *)
(***************************************************************************)
\* Until an older attempt interferes a session has one read outstanding at most, or
\* with the echo test two: they share m_recvBuffer.
TypeOK ==
    /\ current \in 0..made /\ ptrSession \in 0..made /\ made \in 0..Attempts
    /\ attempt \in [Attempt -> {"none", "resolving", "connecting", "failed", "made"}]
    /\ socket \in [Attempt -> {"none", "connecting", "open", "lost", "closed"}]
    /\ reads \in [Attempt -> Nat]
    /\ ~late => \A k \in Attempt : reads[k] <= (IF testing THEN 2 ELSE 1)
    /\ sends \in [Attempt -> 0..1]
    /\ connected => ptrSession # 0
    /\ header \in {"none", "fits", "huge"}
    /\ due \subseteq {"connect", "silence"}

\* However attempts, timeouts and retries overlap, no session but that of the
\* latest attempt stays open: one that succeeds late is closed, none is forgotten.
OnlyCurrentOpen == TypeOK /\ \A k \in Attempt : socket[k] \in {"open", "lost"} => k = current

\* A client that calls itself connected over an open socket is reading from it, or
\* it would hear neither data nor the loss of the connection; unless the last header
\* it was sent, over this connection or an earlier one, states a body its session
\* will not read: recv has then thrown, and nothing begins another read.
NeverDeaf ==
    (alive /\ connected /\ socket[ptrSession] = "open") =>
        reads[ptrSession] > 0 \/ Throws(header)

\* Until a handler of an older attempt calls the client the session that is open is the client's: it is
\* connected over it, and its handlers call the client unless it was given up.
OpenIsConnected ==
    (alive /\ ~late) => \A k \in Attempt :
        socket[k] = "open" => connected /\ ptrSession = k /\ bound[k]

\* A lost connection is noticed: the client stops calling itself connected, unless it
\* gives the session up first, another attempt takes its place, or recv has thrown.
LossIsNoticed == \A k \in Attempt :
    (socket[k] = "lost") ~> \/ ~connected \/ ~bound[k] \/ socket[k] = "closed"
                            \/ ~alive \/ late \/ header = "huge"
================================================================================

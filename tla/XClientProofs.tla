----------------------------- MODULE XClientProofs -----------------------------
(***************************************************************************)
(* Theorems about XClient, for every number of attempts and of reads: at   *)
(* most one connection is open and it is the latest attempt's, a client    *)
(* that is connected listens until recv throws, and what is open is the    *)
(* client's own until an older attempt interferes.                         *)
(***************************************************************************)
EXTENDS XClient, TLAPS

(***************************************************************************)
(* The inductive invariant.                                                *)
(***************************************************************************)
\* The values of the variables it speaks of.
Kinds ==
    /\ alive \in BOOLEAN /\ connected \in BOOLEAN /\ testing \in BOOLEAN /\ late \in BOOLEAN
    /\ made \in 0..Attempts /\ current \in 0..made /\ ptrSession \in 0..made
    /\ attempt \in [Attempt -> {"none", "resolving", "connecting", "failed", "made"}]
    /\ socket \in [Attempt -> {"none", "connecting", "open", "lost", "closed"}]
    /\ bound \in [Attempt -> BOOLEAN]
    /\ reads \in [Attempt -> Nat]
    /\ sends \in [Attempt -> 0..1]
    /\ waiting \in {"connect", "silence", "nothing"} /\ due \subseteq {"connect", "silence"}
    /\ connected => ptrSession # 0
    /\ header \in {"none", "fits", "huge"}

\* What an attempt has before it is made, and that the client's session is one that was.
Made ==
    /\ \A k \in Attempt : k > made => attempt[k] = "none"
    /\ \A k \in Attempt : attempt[k] # "made" =>
          reads[k] = 0 /\ ~bound[k] /\ socket[k] \in {"none", "connecting", "closed"}
    /\ \A k \in Attempt : attempt[k] \in {"none", "resolving"} => socket[k] = "none"
    /\ ptrSession # 0 => attempt[ptrSession] = "made"

OneOpen == \A k \in Attempt : socket[k] \in {"open", "lost"} => k = current

BoundIsCurrent == ~late => \A k \in Attempt : bound[k] /\ k = current => k = ptrSession

Listening == (alive /\ connected /\ socket[ptrSession] = "open") =>
                bound[ptrSession] /\ (reads[ptrSession] > 0 \/ Throws(header))

FewReads == ~late => \A k \in Attempt : reads[k] <= (IF testing THEN 2 ELSE 1)

IInv == /\ Kinds /\ Made /\ OneOpen /\ BoundIsCurrent /\ Listening /\ OpenIsConnected /\ FewReads

(***************************************************************************)
(* It holds at first, and every step preserves it.                         *)
(***************************************************************************)
\* No attempt is made yet.
LEMMA InitIInv == Init => IInv
<1> SUFFICES ASSUME Init PROVE IInv
  OBVIOUS
<1>1. Kinds
  <2>1. /\ alive \in BOOLEAN /\ connected \in BOOLEAN /\ testing \in BOOLEAN /\ late \in BOOLEAN
        /\ waiting \in {"connect", "silence", "nothing"} /\ due \subseteq {"connect", "silence"}
        /\ connected => ptrSession # 0
        /\ header \in {"none", "fits", "huge"}
    BY DEF Init
  <2>2. made \in 0..Attempts /\ current \in 0..made /\ ptrSession \in 0..made
    BY ClientAssumption DEF Init
  <2>3. /\ attempt \in [Attempt -> {"none", "resolving", "connecting", "failed", "made"}]
        /\ socket \in [Attempt -> {"none", "connecting", "open", "lost", "closed"}]
        /\ bound \in [Attempt -> BOOLEAN]
    BY DEF Init
  <2>4. reads \in [Attempt -> Nat] /\ sends \in [Attempt -> 0..1]
    BY DEF Init
  <2> QED
    BY <2>1, <2>2, <2>3, <2>4 DEF Kinds
<1>2. Made /\ OneOpen /\ FewReads
  BY ClientAssumption DEF Init, Attempt, Made, OneOpen, FewReads
<1>3. BoundIsCurrent /\ Listening /\ OpenIsConnected
  BY DEF Init, BoundIsCurrent, Listening, OpenIsConnected
<1> QED
  BY <1>1, <1>2, <1>3 DEF IInv

\* A new attempt: the one it replaces is destroyed with its session, or still under way.
LEMMA connectKeeps ==
    ASSUME IInv, connect
    PROVE  IInv'
<1>1. Kinds'
    BY ClientAssumption DEF IInv, Kinds, Attempt, connect, destroy, closed, UnderWay,
     link, history
<1>2. Made'
    BY ClientAssumption DEF IInv, Kinds, Made, Attempt, connect, destroy, closed,
     UnderWay, link, history
<1>3. OneOpen'
  <2> SUFFICES ASSUME NEW k \in Attempt, socket'[k] \in {"open", "lost"} PROVE k = current'
    BY DEF OneOpen
  <2>1. k = current /\ ~UnderWay(current)
    BY DEF IInv, Kinds, Made, OneOpen, Attempt, connect, destroy, closed, UnderWay
  <2>2. socket'[k] = closed(socket, k)[k]
    BY <2>1 DEF Attempt, connect, destroy
  <2> QED
    BY <2>1, <2>2 DEF IInv, Kinds, closed
<1>4. BoundIsCurrent'
    BY ClientAssumption DEF IInv, Kinds, Made, BoundIsCurrent, Attempt, connect,
     destroy, closed, UnderWay, link, history
<1>5. Listening'
    BY ClientAssumption DEF IInv, Kinds, Listening, Throws, Attempt, connect, destroy,
     closed,
     UnderWay, link, history
<1>6. OpenIsConnected'
    BY ClientAssumption DEF IInv, Kinds, OpenIsConnected, Attempt, connect, destroy,
     closed, UnderWay, link, history
<1>7. FewReads'
    BY ClientAssumption DEF IInv, Kinds, FewReads, Attempt, connect, destroy, closed,
     UnderWay, link, history
<1> QED
  BY <1>1, <1>2, <1>3, <1>4, <1>5, <1>6, <1>7 DEF IInv

\* The session is given up: its handlers are released and its socket is closed.
LEMMA DisconnectKeeps ==
    ASSUME IInv, Disconnect
    PROVE  IInv'
<1>1. Kinds'
    BY ClientAssumption DEF IInv, Kinds, Attempt, Disconnect, disconnect, Released,
     closed, cancel, history
<1>2. Made'
    BY ClientAssumption DEF IInv, Kinds, Made, Attempt, Disconnect, disconnect,
     Released, closed, cancel, history
<1>3. OneOpen'
    BY ClientAssumption DEF IInv, Kinds, OneOpen, Attempt, Disconnect, disconnect,
     Released, closed, cancel, history
<1>4. BoundIsCurrent'
    BY ClientAssumption DEF IInv, Kinds, BoundIsCurrent, Attempt, Disconnect,
     disconnect, Released, closed, cancel, history
<1>5. Listening'
    BY ClientAssumption DEF IInv, Kinds, Listening, Throws, Attempt, Disconnect, disconnect,
     Released, closed, cancel, history
<1>6. OpenIsConnected'
    BY ClientAssumption DEF IInv, Kinds, OpenIsConnected, Attempt, Disconnect,
     disconnect, Released, closed, cancel, history
<1>7. FewReads'
    BY ClientAssumption DEF IInv, Kinds, FewReads, Attempt, Disconnect, disconnect,
     Released, closed, cancel, history
<1> QED
  BY <1>1, <1>2, <1>3, <1>4, <1>5, <1>6, <1>7 DEF IInv

\* A write is begun; nothing else moves.
LEMMA sendKeeps ==
    ASSUME IInv, send
    PROVE  IInv'
<1>1. Kinds'
    BY ClientAssumption DEF IInv, Kinds, Attempt, send, history
<1>2. Made'
    BY ClientAssumption DEF IInv, Kinds, Made, Attempt, send, history
<1>3. OneOpen'
    BY ClientAssumption DEF IInv, Kinds, OneOpen, Attempt, send, history
<1>4. BoundIsCurrent'
    BY ClientAssumption DEF IInv, Kinds, BoundIsCurrent, Attempt, send, history
<1>5. Listening'
    BY ClientAssumption DEF IInv, Kinds, Listening, Throws, Attempt, send, history
<1>6. OpenIsConnected'
    BY ClientAssumption DEF IInv, Kinds, OpenIsConnected, Attempt, send, history
<1>7. FewReads'
    BY ClientAssumption DEF IInv, Kinds, FewReads, Attempt, send, history
<1> QED
  BY <1>1, <1>2, <1>3, <1>4, <1>5, <1>6, <1>7 DEF IInv

\* One more read, on the session the client is connected over.
LEMMA testEchoKeeps ==
    ASSUME IInv, testEcho
    PROVE  IInv'
<1>1. Kinds'
    BY ClientAssumption DEF IInv, Kinds, Attempt, testEcho, recv, Throws, watch, history
<1>2. Made'
    BY ClientAssumption DEF IInv, Kinds, Made, Attempt, testEcho, recv, Throws, watch,
     history
<1>3. OneOpen'
    BY ClientAssumption DEF IInv, Kinds, OneOpen, Attempt, testEcho, recv, Throws, watch,
     history
<1>4. BoundIsCurrent'
    BY ClientAssumption DEF IInv, Kinds, BoundIsCurrent, Attempt, testEcho, recv, Throws,
     watch, history
<1>5. Listening'
    BY ClientAssumption DEF IInv, Kinds, Listening, Throws, Attempt, testEcho, recv,
     Throws, watch,
     history
<1>6. OpenIsConnected'
    BY ClientAssumption DEF IInv, Kinds, OpenIsConnected, Attempt, testEcho, recv, Throws,
     watch, history
<1>7. FewReads'
    BY ClientAssumption DEF IInv, Kinds, FewReads, Attempt, testEcho, recv, Throws, watch,
     history
<1> QED
  BY <1>1, <1>2, <1>3, <1>4, <1>5, <1>6, <1>7 DEF IInv

\* The client is destroyed, and the last two parts speak of a client that is not.
LEMMA releaseKeeps ==
    ASSUME IInv, release
    PROVE  IInv'
<1>1. Kinds'
    BY ClientAssumption DEF IInv, Kinds, Attempt, release, Released, closed, destroy,
     UnderWay, cancel, history
<1>2. Made'
    BY ClientAssumption DEF IInv, Kinds, Made, Attempt, release, Released, closed,
     destroy, UnderWay, cancel, history
<1>3. OneOpen'
    BY ClientAssumption DEF IInv, Kinds, OneOpen, Attempt, release, Released, closed,
     destroy, UnderWay, cancel, history
<1>4. BoundIsCurrent'
    BY ClientAssumption DEF IInv, Kinds, BoundIsCurrent, Attempt, release, Released,
     closed, destroy, UnderWay, cancel, history
<1>5. Listening'
    BY ClientAssumption DEF IInv, Kinds, Listening, Throws, Attempt, release, Released,
     closed, destroy, UnderWay, cancel, history
<1>6. OpenIsConnected'
    BY ClientAssumption DEF IInv, Kinds, OpenIsConnected, Attempt, release, Released,
     closed, destroy, UnderWay, cancel, history
<1>7. FewReads'
    BY ClientAssumption DEF IInv, Kinds, FewReads, Attempt, release, Released, closed,
     destroy, UnderWay, cancel, history
<1> QED
  BY <1>1, <1>2, <1>3, <1>4, <1>5, <1>6, <1>7 DEF IInv

\* A wait expires.
LEMMA ExpireKeeps ==
    ASSUME IInv, Expire
    PROVE  IInv'
<1>1. Kinds'
    BY ClientAssumption DEF IInv, Kinds, Attempt, Expire, link, history
<1>2. Made'
    BY ClientAssumption DEF IInv, Kinds, Made, Attempt, Expire, link, history
<1>3. OneOpen'
    BY ClientAssumption DEF IInv, Kinds, OneOpen, Attempt, Expire, link, history
<1>4. BoundIsCurrent'
    BY ClientAssumption DEF IInv, Kinds, BoundIsCurrent, Attempt, Expire, link,
     history
<1>5. Listening'
    BY ClientAssumption DEF IInv, Kinds, Listening, Throws, Attempt, Expire, link, history
<1>6. OpenIsConnected'
    BY ClientAssumption DEF IInv, Kinds, OpenIsConnected, Attempt, Expire, link,
     history
<1>7. FewReads'
    BY ClientAssumption DEF IInv, Kinds, FewReads, Attempt, Expire, link, history
<1> QED
  BY <1>1, <1>2, <1>3, <1>4, <1>5, <1>6, <1>7 DEF IInv

\* The application is told of a failure, and the attempt goes on.
LEMMA onConnTimeoutCallbackKeeps ==
    ASSUME IInv, onConnTimeoutCallback
    PROVE  IInv'
<1>1. Kinds'
    BY ClientAssumption DEF IInv, Kinds, Attempt, onConnTimeoutCallback, link
<1>2. Made'
    BY ClientAssumption DEF IInv, Kinds, Made, Attempt, onConnTimeoutCallback, link
<1>3. OneOpen'
    BY ClientAssumption DEF IInv, Kinds, OneOpen, Attempt, onConnTimeoutCallback, link
<1>4. BoundIsCurrent'
    BY ClientAssumption DEF IInv, Kinds, BoundIsCurrent, Attempt,
     onConnTimeoutCallback, link
<1>5. Listening'
    BY ClientAssumption DEF IInv, Kinds, Listening, Throws, Attempt, onConnTimeoutCallback,
     link
<1>6. OpenIsConnected'
    BY ClientAssumption DEF IInv, Kinds, OpenIsConnected, Attempt,
     onConnTimeoutCallback, link
<1>7. FewReads'
    BY ClientAssumption DEF IInv, Kinds, FewReads, Attempt, onConnTimeoutCallback,
     link
<1> QED
  BY <1>1, <1>2, <1>3, <1>4, <1>5, <1>6, <1>7 DEF IInv

\* The application is told of silence, and the connection is kept.
LEMMA onDisconnTimeCallbackKeeps ==
    ASSUME IInv, onDisconnTimeCallback
    PROVE  IInv'
<1>1. Kinds'
    BY ClientAssumption DEF IInv, Kinds, Attempt, onDisconnTimeCallback, link, history
<1>2. Made'
    BY ClientAssumption DEF IInv, Kinds, Made, Attempt, onDisconnTimeCallback, link,
     history
<1>3. OneOpen'
    BY ClientAssumption DEF IInv, Kinds, OneOpen, Attempt, onDisconnTimeCallback,
     link, history
<1>4. BoundIsCurrent'
    BY ClientAssumption DEF IInv, Kinds, BoundIsCurrent, Attempt,
     onDisconnTimeCallback, link, history
<1>5. Listening'
    BY ClientAssumption DEF IInv, Kinds, Listening, Throws, Attempt, onDisconnTimeCallback,
     link, history
<1>6. OpenIsConnected'
    BY ClientAssumption DEF IInv, Kinds, OpenIsConnected, Attempt,
     onDisconnTimeCallback, link, history
<1>7. FewReads'
    BY ClientAssumption DEF IInv, Kinds, FewReads, Attempt, onDisconnTimeCallback,
     link, history
<1> QED
  BY <1>1, <1>2, <1>3, <1>4, <1>5, <1>6, <1>7 DEF IInv

\* An attempt that has no socket gets one that is not open, or ends.
LEMMA onResolveCallbackKeeps ==
    ASSUME IInv, NEW k \in Attempt, onResolveCallback(k)
    PROVE  IInv'
<1>1. Kinds'
    BY ClientAssumption DEF IInv, Kinds, Attempt, onResolveCallback, link, history
<1>2. Made'
    BY ClientAssumption DEF IInv, Kinds, Made, Attempt, onResolveCallback, link,
     history
<1>3. OneOpen'
    BY ClientAssumption DEF IInv, Kinds, OneOpen, Attempt, onResolveCallback, link,
     history
<1>4. BoundIsCurrent'
    BY ClientAssumption DEF IInv, Kinds, BoundIsCurrent, Attempt, onResolveCallback,
     link, history
<1>5. Listening'
    BY ClientAssumption DEF IInv, Kinds, Listening, Throws, Attempt, onResolveCallback,
     link,
     history
<1>6. OpenIsConnected'
    BY ClientAssumption DEF IInv, Kinds, OpenIsConnected, Attempt, onResolveCallback,
     link, history
<1>7. FewReads'
    BY ClientAssumption DEF IInv, Kinds, FewReads, Attempt, onResolveCallback, link,
     history
<1> QED
  BY <1>1, <1>2, <1>3, <1>4, <1>5, <1>6, <1>7 DEF IInv

\* The attempt's socket closes, and the session the client holds is given up.
LEMMA ConnectFailsKeeps ==
    ASSUME IInv, NEW k \in Attempt, ConnectFails(k)
    PROVE  IInv'
<1>1. Kinds'
    BY ClientAssumption DEF IInv, Kinds, Attempt, ConnectFails, Released, closed,
     cancel, Calls
<1>2. Made'
    BY ClientAssumption DEF IInv, Kinds, Made, Attempt, ConnectFails, Released,
     closed, cancel, Calls
<1>3. OneOpen'
    BY ClientAssumption DEF IInv, Kinds, OneOpen, Attempt, ConnectFails, Released,
     closed, cancel, Calls
<1>4. BoundIsCurrent'
    BY ClientAssumption DEF IInv, Kinds, BoundIsCurrent, Attempt, ConnectFails,
     Released, closed, cancel, Calls
<1>5. Listening'
    BY ClientAssumption DEF IInv, Kinds, Listening, Throws, Attempt, ConnectFails, Released,
     closed, cancel, Calls
<1>6. OpenIsConnected'
    BY ClientAssumption DEF IInv, Kinds, OpenIsConnected, Attempt, ConnectFails,
     Released, closed, cancel, Calls
<1>7. FewReads'
    BY ClientAssumption DEF IInv, Kinds, FewReads, Attempt, ConnectFails, Released,
     closed, cancel, Calls
<1> QED
  BY <1>1, <1>2, <1>3, <1>4, <1>5, <1>6, <1>7 DEF IInv

\* Only the latest attempt's socket stays open, and the client reads from it.
LEMMA ConnectSucceedsKeeps ==
    ASSUME IInv, NEW k \in Attempt, ConnectSucceeds(k)
    PROVE  IInv'
<1>1. Kinds'
    BY ClientAssumption DEF IInv, Kinds, Attempt, ConnectSucceeds, onConnect, recv, Throws,
     destroy, closed, Calls
<1>2. Made'
    BY ClientAssumption DEF IInv, Kinds, Made, Attempt, ConnectSucceeds, onConnect,
     recv, Imported, Throws, destroy, closed, Calls
<1>3. OneOpen'
    BY ClientAssumption DEF IInv, Kinds, OneOpen, Attempt, ConnectSucceeds, onConnect,
     recv, Imported, Throws, destroy, closed, Calls
<1>4. BoundIsCurrent'
    BY ClientAssumption DEF IInv, Kinds, BoundIsCurrent, Attempt, ConnectSucceeds,
     onConnect, recv, Imported, Throws, destroy, closed, Calls
<1>5. Listening'
    BY ClientAssumption DEF IInv, Kinds, Listening, Throws, Attempt, ConnectSucceeds,
     onConnect, recv, Imported, Throws, destroy, closed, Calls
<1>6. OpenIsConnected'
    BY ClientAssumption DEF IInv, Kinds, OneOpen, OpenIsConnected, Attempt,
     ConnectSucceeds, onConnect, destroy, closed, Calls
<1>7. FewReads'
  <2>1. SUFFICES ASSUME ~late', NEW j \in Attempt
                 PROVE  reads'[j] <= (IF testing THEN 2 ELSE 1)
    BY DEF FewReads, ConnectSucceeds
  <2>2. reads' = reads \/ reads' = [reads EXCEPT ![k] = @ + 1]
    BY DEF ConnectSucceeds, onConnect, recv
  <2>3. reads[k] = 0 /\ ~late
    BY <2>1 DEF IInv, Made, ConnectSucceeds, Calls
  <2> QED
    BY <2>1, <2>2, <2>3 DEF IInv, Kinds, FewReads
<1> QED
  BY <1>1, <1>2, <1>3, <1>4, <1>5, <1>6, <1>7 DEF IInv

\* A read that completes is replaced by one on the client's own session.
LEMMA onRecvKeeps ==
    ASSUME IInv, NEW k \in Attempt, onRecv(k)
    PROVE  IInv'
<1>1. Kinds'
  <2>1. late' \in BOOLEAN /\ header' \in {"none", "fits", "huge"}
    BY DEF IInv, Kinds, onRecv, Imported, Calls
  <2>2. waiting' \in {"connect", "silence", "nothing"}
    BY DEF IInv, Kinds, onRecv, watch
  <2>3. reads' \in [Attempt -> Nat]
    BY ClientAssumption DEF IInv, Kinds, Attempt, onRecv, recv
  <2> QED
    BY <2>1, <2>2, <2>3 DEF IInv, Kinds, onRecv
<1>2. Made'
    BY ClientAssumption DEF IInv, Kinds, Made, Attempt, onRecv, recv, Imported, Throws,
     watch, Calls
<1>3. OneOpen'
    BY ClientAssumption DEF IInv, Kinds, OneOpen, Attempt, onRecv, recv, Imported,
     Throws, watch, Calls
<1>4. BoundIsCurrent'
    BY ClientAssumption DEF IInv, Kinds, BoundIsCurrent, Attempt, onRecv, recv,
     Imported, Throws, watch,
     Calls
<1>5. Listening'
    BY ClientAssumption DEF IInv, Kinds, Listening, Throws, Attempt, onRecv, recv,
     Imported, Throws, watch,
     Calls
<1>6. OpenIsConnected'
    BY ClientAssumption DEF IInv, Kinds, OpenIsConnected, Attempt, onRecv, recv,
     Imported, Throws,
     watch, Calls
<1>7. FewReads'
    BY ClientAssumption DEF IInv, Kinds, Made, OneOpen, BoundIsCurrent, FewReads,
     Attempt, onRecv, recv, Imported, Throws, watch, Calls
<1> QED
  BY <1>1, <1>2, <1>3, <1>4, <1>5, <1>6, <1>7 DEF IInv

\* A failure the client hears of ends the connection, so no open session is left unread.
LEMMA FailsKeeps ==
    ASSUME IInv, NEW k \in Attempt, Fails(k)
    PROVE  IInv'
<1>1. Kinds'
  <2>1. late' \in BOOLEAN /\ connected' \in BOOLEAN /\ (connected' => connected)
    BY DEF IInv, Kinds, Fails, onClose, Calls
  <2>2. reads' \in [Attempt -> Nat]
    BY DEF IInv, Kinds, Fails
  <2>3. sends' \in [Attempt -> 0..1]
    BY DEF IInv, Kinds, Fails
  <2> QED
    BY <2>1, <2>2, <2>3 DEF IInv, Kinds, Fails
<1>2. Made'
    BY ClientAssumption DEF IInv, Kinds, Made, Attempt, Fails, onClose, Calls
<1>3. OneOpen'
    BY ClientAssumption DEF IInv, Kinds, OneOpen, Attempt, Fails, onClose, Calls
<1>4. BoundIsCurrent'
    BY ClientAssumption DEF IInv, Kinds, BoundIsCurrent, Attempt, Fails, onClose,
     Calls
<1>5. Listening'
  <2>1. CASE bound[k]
    BY <2>1 DEF Fails, onClose, Listening
  <2>2. CASE ~bound[k]
    <3> SUFFICES ASSUME alive, connected, socket[ptrSession] = "open"
                 PROVE  bound[ptrSession] /\ (reads'[ptrSession] > 0 \/ Throws(header))
      BY <2>2 DEF Fails, Listening, Throws
    <3>1. bound[ptrSession] /\ (reads[ptrSession] > 0 \/ Throws(header))
      BY DEF IInv, Listening
    <3>4. ptrSession \in Attempt
      BY ClientAssumption DEF IInv, Kinds, Attempt
    <3>2. ptrSession # k
      BY <2>2, <3>1
    <3>3. reads' = reads \/ reads' = [reads EXCEPT ![k] = @ - 1]
      BY DEF Fails
    <3>5. bound[ptrSession] /\ reads'[ptrSession] = reads[ptrSession]
      BY <3>1, <3>2, <3>3, <3>4 DEF IInv, Kinds
    <3> QED
      BY <3>1, <3>5
  <2> QED
    BY <2>1, <2>2
<1>6. OpenIsConnected'
    BY ClientAssumption DEF IInv, Kinds, OneOpen, OpenIsConnected, Attempt, Fails,
     onClose, Calls
<1>7. FewReads'
    BY ClientAssumption DEF IInv, Kinds, Made, FewReads, Attempt, Fails, onClose,
     Calls
<1> QED
  BY <1>1, <1>2, <1>3, <1>4, <1>5, <1>6, <1>7 DEF IInv

\* A write completes.
LEMMA onSendKeeps ==
    ASSUME IInv, NEW k \in Attempt, onSend(k)
    PROVE  IInv'
<1>1. Kinds'
    BY ClientAssumption DEF IInv, Kinds, Attempt, onSend, history
<1>2. Made'
    BY ClientAssumption DEF IInv, Kinds, Made, Attempt, onSend, history
<1>3. OneOpen'
    BY ClientAssumption DEF IInv, Kinds, OneOpen, Attempt, onSend, history
<1>4. BoundIsCurrent'
    BY ClientAssumption DEF IInv, Kinds, BoundIsCurrent, Attempt, onSend, history
<1>5. Listening'
    BY ClientAssumption DEF IInv, Kinds, Listening, Throws, Attempt, onSend, history
<1>6. OpenIsConnected'
    BY ClientAssumption DEF IInv, Kinds, OpenIsConnected, Attempt, onSend, history
<1>7. FewReads'
    BY ClientAssumption DEF IInv, Kinds, FewReads, Attempt, onSend, history
<1> QED
  BY <1>1, <1>2, <1>3, <1>4, <1>5, <1>6, <1>7 DEF IInv

\* An open session's connection is lost; it was the latest attempt's, and stays so.
LEMMA LoseKeeps ==
    ASSUME IInv, NEW k \in Attempt, Lose(k)
    PROVE  IInv'
<1>1. Kinds'
    BY ClientAssumption DEF IInv, Kinds, Attempt, Lose, link, history
<1>2. Made'
    BY ClientAssumption DEF IInv, Kinds, Made, Attempt, Lose, link, history
<1>3. OneOpen'
    BY ClientAssumption DEF IInv, Kinds, OneOpen, Attempt, Lose, link, history
<1>4. BoundIsCurrent'
    BY ClientAssumption DEF IInv, Kinds, BoundIsCurrent, Attempt, Lose, link, history
<1>5. Listening'
    BY ClientAssumption DEF IInv, Kinds, Listening, Throws, Attempt, Lose, link, history
<1>6. OpenIsConnected'
    BY ClientAssumption DEF IInv, Kinds, OpenIsConnected, Attempt, Lose, link, history
<1>7. FewReads'
    BY ClientAssumption DEF IInv, Kinds, FewReads, Attempt, Lose, link, history
<1> QED
  BY <1>1, <1>2, <1>3, <1>4, <1>5, <1>6, <1>7 DEF IInv

\* Every step is one of the above, or changes nothing.
LEMMA NextKeeps == IInv /\ [Next]_vars => IInv'
<1> SUFFICES ASSUME IInv, [Next]_vars PROVE IInv'
  OBVIOUS
<1>1. CASE Application
  BY <1>1, connectKeeps, DisconnectKeeps, sendKeeps, testEchoKeeps,
     releaseKeeps DEF Application
<1>2. CASE Service
  BY <1>2, ExpireKeeps, onConnTimeoutCallbackKeeps, onDisconnTimeCallbackKeeps,
     onResolveCallbackKeeps, ConnectFailsKeeps, ConnectSucceedsKeeps, onRecvKeeps, FailsKeeps,
     onSendKeeps DEF Service
<1>3. CASE \E k \in Attempt : Lose(k)
  BY <1>3, LoseKeeps
<1>4. CASE UNCHANGED vars
  BY <1>4 DEF vars, IInv, Kinds, Made, OneOpen, BoundIsCurrent, Listening, Throws,
     OpenIsConnected, FewReads
<1> QED
  BY <1>1, <1>2, <1>3, <1>4 DEF Next

\* Every reachable state has the inductive invariant.
THEOREM Inductive == Spec => []IInv
<1> QED
  BY InitIInv, NextKeeps, PTL DEF Spec

(***************************************************************************)
(* The properties.                                                         *)
(***************************************************************************)
\* Whatever attempts, timeouts and retries overlap (XAsioClient.cpp, connect,
\* onConnectCallback, onConnTimeoutCallback), only the latest attempt's session is open.
THEOREM OnlyCurrentOpenCorrect == Spec => []OnlyCurrentOpen
<1>1. IInv => OnlyCurrentOpen
  BY DEF IInv, Kinds, OneOpen, FewReads, OnlyCurrentOpen, TypeOK
<1> QED
  BY <1>1, Inductive, PTL

\* A client that is connected over an open socket is reading from it (XClient::onRecv
\* and recv), or it would not hear that the connection is lost; only a header that
\* states too long a body stops it, which makes XAsioTCPSession::recv throw.
THEOREM NeverDeafCorrect == Spec => []NeverDeaf
<1>1. IInv => NeverDeaf
  BY DEF IInv, Listening, NeverDeaf
<1> QED
  BY <1>1, Inductive, PTL

\* Until a handler of an older attempt calls the client, an open session is the one the
\* client is connected over and hears of (XClient::onConnect, onClose, disconnect).
THEOREM OpenIsConnectedCorrect == Spec => []OpenIsConnected
<1>1. IInv => OpenIsConnected
  BY DEF IInv
<1> QED
  BY <1>1, Inductive, PTL
================================================================================

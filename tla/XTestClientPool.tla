----------------------------- MODULE XTestClientPool -----------------------------
(***************************************************************************)
(* XTestClientPool (extend/XServerGroupTestClient.cpp): m_mapClient, the   *)
(* clients that were created, and m_mapTempClient, those that were closed, *)
(* which are dropped when they are no longer connected.                    *)
(*                                                                         *)
(* createClient and closeClient hold m_mutexMap; the io threads of the     *)
(* clients, which do not, come in between isConnected and disconnect, and  *)
(* look for their client in m_mapClient.                                   *)
(***************************************************************************)
EXTENDS Integers, FiniteSets

CONSTANT MaxClients     \* bound: clients created

ClientsAssumption == MaxClients \in Nat

VARIABLES
    mapClient,      \* m_mapClient
    tempClient,     \* m_mapTempClient
    allocateId,     \* m_allocateId
    isConnected,    \* of each client
    bound,          \* its session has its handlers
    service,        \* its service
    closing,        \* rounds closeClient has to do yet
    target,         \* the client it has found connected, 0 if none
    finding,        \* clients whose io thread is in m_mapClient.find
    torn            \* m_mapClient was changed meanwhile

vars == << mapClient, tempClient, allocateId, isConnected, bound, service, closing, target,
           finding, torn >>

Clients == 1..MaxClients

Init ==
    /\ mapClient = {} /\ tempClient = {} /\ allocateId = 0
    /\ isConnected = [c \in Clients |-> FALSE]
    /\ bound = [c \in Clients |-> FALSE]
    /\ service = [c \in Clients |-> "none"]
    /\ closing = 0 /\ target = 0
    /\ finding = {} /\ torn = FALSE

Unlocked == closing = 0 /\ target = 0

createClient ==
    /\ Unlocked /\ allocateId < MaxClients
    /\ allocateId' = allocateId + 1
    /\ mapClient' = mapClient \cup {allocateId + 1}
    /\ service' = [service EXCEPT ![allocateId + 1] = "run"]
    /\ torn' = (torn \/ finding # {})
    /\ UNCHANGED << tempClient, isConnected, bound, closing, target, finding >>

--------------------------------------------------------------------------------
\* closeClient: what is closed and not connected any more is dropped; then id is
\* closed, or as many rounds begin as there are clients, or 1 to 3.
Purged == {c \in tempClient : ~isConnected[c]}
closeClient(id) ==
    /\ Unlocked
    /\ tempClient' = tempClient \ Purged
    /\ IF id > 0
       THEN /\ target' = IF id \in mapClient /\ isConnected[id] THEN id ELSE 0
            /\ UNCHANGED closing
       ELSE /\ closing' \in IF mapClient = {} THEN {0}
                            ELSE IF id = -1 THEN {Cardinality(mapClient)} ELSE 1..3
            /\ UNCHANGED target
    /\ UNCHANGED << mapClient, allocateId, isConnected, bound, service, finding, torn >>

\* A round picks any client, and does nothing if that is not connected.
closeAny ==
    /\ closing > 0 /\ target = 0
    /\ IF mapClient = {} THEN closing' = 0 /\ UNCHANGED target
       ELSE /\ closing' = closing - 1
            /\ \E c \in mapClient : target' = IF isConnected[c] THEN c ELSE 0
    /\ UNCHANGED << mapClient, tempClient, allocateId, isConnected, bound, service,
                    finding, torn >>

ServiceKept ==      \* mutant: no removeService
    /\ target # 0
    /\ bound' = [bound EXCEPT ![target] = @ /\ ~isConnected[target]]
    /\ tempClient' = tempClient \cup {target} /\ mapClient' = mapClient \ {target}
    /\ target' = 0
    /\ UNCHANGED << allocateId, isConnected, service, closing, finding, torn >>
\* The rest of onClientClose.  XClient::disconnect leaves m_bIsConnected as it is.
onClientClose ==
    /\ target # 0
    /\ bound' = [bound EXCEPT ![target] = @ /\ ~isConnected[target]]
    /\ service' = [service EXCEPT ![target] = "removed"]
    /\ tempClient' = tempClient \cup {target} /\ mapClient' = mapClient \ {target}
    /\ target' = 0
    /\ torn' = (torn \/ finding # {})
    /\ UNCHANGED << allocateId, isConnected, closing, finding >>

--------------------------------------------------------------------------------
\* The io threads: XClient::onConnect, and XClient::onClose, whose handler onClientClose
\* looks for the client without the mutex and, as it is not connected any more, leaves
\* it where it is.
onConnect(c) ==
    /\ service[c] = "run" /\ ~isConnected[c] /\ ~bound[c] /\ c \notin finding
    /\ isConnected' = [isConnected EXCEPT ![c] = TRUE]
    /\ bound' = [bound EXCEPT ![c] = TRUE]
    /\ UNCHANGED << mapClient, tempClient, allocateId, service, closing, target, finding, torn >>

onClose(c) ==
    /\ bound[c] /\ isConnected[c]
    /\ isConnected' = [isConnected EXCEPT ![c] = FALSE]
    /\ finding' = finding \cup {c}
    /\ UNCHANGED << mapClient, tempClient, allocateId, bound, service, closing, target, torn >>

found(c) ==
    /\ c \in finding
    /\ finding' = finding \ {c}
    /\ UNCHANGED << mapClient, tempClient, allocateId, isConnected, bound, service, closing,
                    target, torn >>

--------------------------------------------------------------------------------
Next ==
    \/ createClient \/ closeAny \/ onClientClose
    \/ \E id \in {-1, 0} \cup Clients : closeClient(id)
    \/ \E c \in Clients : onConnect(c) \/ onClose(c) \/ found(c)

Spec == Init /\ [][Next]_vars

--------------------------------------------------------------------------------
TypeOK ==
    /\ mapClient \cup tempClient \subseteq 1..allocateId
    /\ isConnected \in [Clients -> BOOLEAN] /\ bound \in [Clients -> BOOLEAN]
    /\ closing \in Nat /\ target \in mapClient \cup {0}

\* Whatever the io threads do meanwhile, a client is in one of the maps; and one that
\* is not, or no more, among the live ones has its service removed, and was let go
\* with its connection gone.  That is said as long as m_mapClient is not changed while an
\* io thread looks into it.
NoneForgotten ==
    /\ TypeOK
    /\ ~torn =>
        /\ mapClient \cap tempClient = {}
        /\ \A c \in 1..allocateId :
              /\ (c \in mapClient) = (service[c] = "run")
              /\ c \notin mapClient \cup tempClient => ~isConnected[c]
================================================================================

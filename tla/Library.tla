--------------------------------- MODULE Library ---------------------------------
(***************************************************************************)
(* The parts of the library that do without the network.  They share       *)
(* nothing but the threads' names: a behaviour is one of one of them,      *)
(* which Init picks, the others standing still.                            *)
(***************************************************************************)
EXTENDS Integers, Sequences, FiniteSets

CONSTANTS
    Users, NoUser, App, IoThreads,                  \* threads
    Conns, NoConn, Objects, NoObject, Sizes, Separator, Quote, Others,
    MaxPacketSize, HeaderSize, Wrap,
    MaxConnect, MaxObjectNum, MaxDue, MaxLogBuffer, MaxTexts, MaxClients,
    MaxField, MaxColumns, MaxRows

VARIABLES
    part,           \* the one that moves
    bufData, cursor, unread, packetSize, pastHalf, rewound,
    driver, conn, pConnection, listConnect, curConnect, using, making, leaked, wasClosed, overwritten,
    status, waits, due, pc, container, temp, old, running, hand,
    util, mutex, pLogFile, buffer, file, todo, text, says, szText, logged, raced, mixed,
    mapClient, tempClient, allocateId, isConnected, bound, service, closing, target,
    finding, torn,
    vLines, maxColumn, written

packetVars == << bufData, cursor, unread, packetSize, pastHalf, rewound >>
mysqlVars == << driver, conn, pConnection, listConnect, curConnect, using, making, leaked,
                wasClosed, overwritten >>
poolVars == << status, waits, due, pc, container, temp, old, running, hand >>
logVars == << util, mutex, pLogFile, buffer, file, todo, text, says, szText, logged, raced,
              mixed >>
clientsVars == << mapClient, tempClient, allocateId, isConnected, bound, service, closing, target,
                  finding, torn >>
csvVars == << vLines, maxColumn, written >>
vars == << part, packetVars, mysqlVars, poolVars, logVars, clientsVars, csvVars >>

Packet == INSTANCE PacketBuffer
Mysql == INSTANCE XDBMysql
Pool == INSTANCE XAsioPool
Log == INSTANCE XLog
TestClients == INSTANCE XTestClientPool
CSV == INSTANCE XCSVParser

ASSUME LibraryAssumption ==
    /\ Packet!BufferAssumption
    /\ Mysql!MysqlAssumption
    /\ Pool!PoolAssumption
    /\ Log!LogAssumption
    /\ TestClients!ClientsAssumption
    /\ CSV!CSVAssumption

Init ==
    /\ part \in {"packet", "mysql", "pool", "log", "clients", "csv"}
    /\ Packet!Init /\ (part # "packet" => ~bufData.data)
    /\ Mysql!Init
    /\ Pool!Init /\ (part # "pool" => temp = <<>>)
    /\ Log!Init /\ (part # "log" => util)
    /\ TestClients!Init
    /\ CSV!Init

Next ==
    \/ /\ part = "packet" /\ Packet!Next
       /\ UNCHANGED << part, mysqlVars, poolVars, logVars, clientsVars, csvVars >>
    \/ /\ part = "mysql" /\ Mysql!Next
       /\ UNCHANGED << part, packetVars, poolVars, logVars, clientsVars, csvVars >>
    \/ /\ part = "pool" /\ Pool!Next
       /\ UNCHANGED << part, packetVars, mysqlVars, logVars, clientsVars, csvVars >>
    \/ /\ part = "log" /\ Log!Next
       /\ UNCHANGED << part, packetVars, mysqlVars, poolVars, clientsVars, csvVars >>
    \/ /\ part = "clients" /\ TestClients!Next
       /\ UNCHANGED << part, packetVars, mysqlVars, poolVars, logVars, csvVars >>
    \/ /\ part = "csv" /\ CSV!Next
       /\ UNCHANGED << part, packetVars, mysqlVars, poolVars, logVars, clientsVars >>

Spec == Init /\ [][Next]_vars

FairSpec == Spec /\ Pool!Fairness

--------------------------------------------------------------------------------
(***************************************************************************)
(* The properties of the parts, stated there.                              *)
(***************************************************************************)
\* XAsioBuffer: what is written stays within what is allocated.
WithinAllocation == Packet!WithinAllocation
\* XAsioBuffer: the reader finds what was written.
ReadsBack == Packet!ReadsBack
\* XDBMysql: no connection has two users, and m_iCurConnect counts them.
Accounted == Mysql!Accounted
\* XAsioPool: no object is handed out twice.
OneHome == Pool!OneHome
\* XAsioTimer: a stopped timer is quiet in the end.
StopIsQuiet == Pool!StopIsQuiet
\* XLog: no text is lost.
AllLogged == Log!AllLogged
\* XTestClientPool: no client is forgotten.
NoneForgotten == TestClients!NoneForgotten
\* XCSVParser: the fields are where they were written.
FieldsFound == CSV!FieldsFound
================================================================================

-------------------------------- MODULE XDBMysql --------------------------------
(***************************************************************************)
(* XDBMysql (db/XDBMysql.cpp): the main connection m_pConnection, the pool *)
(* m_listConnect of further ones with its count m_iCurConnect, and threads *)
(* that execute, update, query and prepare statements.  execute, update    *)
(* and query treat their connection alike and are one operation here.      *)
(*                                                                         *)
(* The mutex of the pool is held by one call at a time, each one step;     *)
(* the main connection is looked at and made without it.                   *)
(* Nothing is said of what happens after a connection that was deleted     *)
(* is used.  initConnectionPool and destroyPool are called by nobody.      *)
(***************************************************************************)
EXTENDS Integers, Sequences, FiniteSets, SequencesExt

CONSTANTS
    Users,          \* threads that execute statements
    Conns,          \* connections of the driver
    NoConn,         \* NULL
    MaxConnect      \* m_iMaxConnect

MysqlAssumption == NoConn \notin Conns /\ MaxConnect \in Nat \ {0}

VARIABLES
    driver,         \* m_pDriver is set
    conn,           \* what became of each connection
    pConnection,    \* m_pConnection
    listConnect,    \* m_listConnect
    curConnect,     \* m_iCurConnect
    using,          \* the connection each thread executes a statement on
    making,         \* how far each thread is with getConnection
    leaked,         \* connections of the pool that nobody will give back
    wasClosed,      \* close was called when there was something to close
    overwritten     \* a thread made the main connection when there was one already

vars == << driver, conn, pConnection, listConnect, curConnect, using, making,
           leaked, wasClosed, overwritten >>

Init ==
    /\ driver = FALSE
    /\ making = [t \in Users |-> "no"]
    /\ conn = [c \in Conns |-> "none"]
    /\ pConnection = NoConn /\ listConnect = <<>> /\ curConnect = 0
    /\ using = [t \in Users |-> NoConn]
    /\ leaked = {} /\ wasClosed = FALSE /\ overwritten = FALSE

Opened(f, c) == [d \in Conns |-> IF d = c THEN "open" ELSE f[d]]
Deleted(f, S) == [d \in Conns |-> IF d \in S THEN "deleted" ELSE f[d]]

\* createConnection with result c, after f: it may fail, and if selecting the schema
\* does, the connection that was made is nobody's.
createConnection(f, c) ==
    \/ c = NoConn /\ conn' = f
    \/ \E d \in Conns :
          /\ driver /\ conn[d] = "none" /\ conn' = Opened(f, d)
          /\ c \in {d, NoConn}

--------------------------------------------------------------------------------
Idle(t) == using[t] = NoConn /\ making[t] = "no"

\* close, also by connect: the count keeps its value, m_pDriver too, and what is in
\* use is given back later.  An exception of a connection leaves those before it in the
\* list, deleted, or the main one.
CloseAll ==
    /\ \A c \in Range(listConnect) : conn[c] # "deleted"
    /\ wasClosed' = (wasClosed \/ listConnect # <<>> \/ pConnection # NoConn \/ curConnect > 0)
    /\ \/ /\ conn' = Deleted(conn, Range(listConnect) \cup {pConnection})
          /\ listConnect' = <<>> /\ pConnection' = NoConn
       \/ \E i \in DOMAIN listConnect :
             /\ conn' = Deleted(conn, {listConnect[j] : j \in 1..(i - 1)})
             /\ UNCHANGED << listConnect, pConnection >>
       \/ /\ pConnection # NoConn
          /\ conn' = Deleted(conn, Range(listConnect))
          /\ listConnect' = <<>> /\ UNCHANGED pConnection
    /\ UNCHANGED << curConnect, using, leaked, overwritten >>

close ==
    /\ CloseAll
    /\ UNCHANGED << driver, making >>

\* There may be no driver.
connect(t) ==
    /\ Idle(t)
    /\ IF driver THEN CloseAll
       ELSE UNCHANGED << conn, pConnection, listConnect, curConnect, using, leaked,
                         wasClosed, overwritten >>
    /\ \/ driver' = TRUE /\ making' = [making EXCEPT ![t] = "test"]
       \/ UNCHANGED << driver, making >>

\* getConnection, by connect or for a savepoint, sees whether the main connection is there ...
getConnection(t) ==
    /\ Idle(t) \/ making[t] = "test"
    /\ making' = [making EXCEPT ![t] = IF pConnection = NoConn THEN "create" ELSE "no"]
    /\ UNCHANGED << driver, conn, pConnection, listConnect, curConnect, using, leaked,
                    wasClosed, overwritten >>

\* ... and makes it if it was not.
makeMain(t) ==
    /\ making[t] = "create"
    /\ making' = [making EXCEPT ![t] = "no"]
    /\ \E c \in {NoConn} \cup Conns : createConnection(conn, c) /\ pConnection' = c
    /\ overwritten' = (overwritten \/ pConnection # NoConn)
    /\ UNCHANGED << driver, listConnect, curConnect, using, leaked, wasClosed >>

\* getPoolConnection with result c: the first of the list, replaced if it is closed,
\* or else a new one if there may be more.
CountKept(c) ==             \* mutant: a closed connection that is not replaced is still counted
    IF listConnect # <<>> /\ conn[Head(listConnect)] # "open"
    THEN /\ createConnection(Deleted(conn, {Head(listConnect)}), c)
         /\ listConnect' = Tail(listConnect) /\ UNCHANGED curConnect
    ELSE /\ listConnect = <<>> /\ curConnect < MaxConnect
         /\ createConnection(conn, c)
         /\ curConnect' = curConnect + (IF c = NoConn THEN 0 ELSE 1)
         /\ UNCHANGED listConnect
getPoolConnection(c) ==
    \/ /\ listConnect # <<>> /\ conn[Head(listConnect)] = "open"
       /\ c = Head(listConnect)
       /\ listConnect' = Tail(listConnect)
       /\ UNCHANGED << conn, curConnect >>
    \/ /\ listConnect # <<>> /\ conn[Head(listConnect)] = "closed"
       /\ createConnection(Deleted(conn, {Head(listConnect)}), c)
       /\ listConnect' = Tail(listConnect)
       /\ curConnect' = curConnect - (IF c = NoConn THEN 1 ELSE 0)
    \/ /\ listConnect = <<>> /\ curConnect < MaxConnect
       /\ createConnection(conn, c)
       /\ curConnect' = curConnect + (IF c = NoConn THEN 0 ELSE 1)
       /\ UNCHANGED listConnect

\* execute, update or query, with no connection given: createStatement may throw.
execute(t) ==
    /\ driver /\ Idle(t)
    /\ \E c \in {NoConn} \cup Conns :
          /\ getPoolConnection(c)
          /\ \/ using' = [using EXCEPT ![t] = c] /\ UNCHANGED leaked
             \/ c # NoConn /\ leaked' = leaked \cup {c} /\ UNCHANGED using
    /\ UNCHANGED << driver, pConnection, making, wasClosed, overwritten >>

\* The same with the main connection, which any number of threads may be given.
executeOnMain(t) ==
    /\ driver /\ Idle(t) /\ pConnection # NoConn
    /\ using' = [using EXCEPT ![t] = pConnection]
    /\ UNCHANGED << driver, conn, pConnection, listConnect, curConnect, making, leaked,
                    wasClosed, overwritten >>

\* A statement that was prepared keeps its connection for good.
createPreparestatement ==
    /\ driver
    /\ \E c \in {NoConn} \cup Conns :
          /\ getPoolConnection(c)
          /\ leaked' = leaked \cup ({c} \ {NoConn})
    /\ UNCHANGED << driver, pConnection, using, making, wasClosed, overwritten >>

\* The statement is done, or has thrown.  What is not the main connection, or is not
\* any more, goes to the list.  (The test is not under the mutex, but no connection that
\* was given out becomes the main one later.)
releaseConnection(t) ==
    /\ using[t] # NoConn
    /\ listConnect' = IF using[t] = pConnection THEN listConnect ELSE Append(listConnect, using[t])
    /\ using' = [using EXCEPT ![t] = NoConn]
    /\ UNCHANGED << driver, conn, pConnection, curConnect, making, leaked, wasClosed,
                    overwritten >>

\* The database closes a connection.
Dropped(c) ==
    /\ conn[c] = "open"
    /\ conn' = [conn EXCEPT ![c] = "closed"]
    /\ UNCHANGED << driver, pConnection, listConnect, curConnect, using, making, leaked, wasClosed,
                    overwritten >>

--------------------------------------------------------------------------------
Next ==
    \/ close \/ createPreparestatement
    \/ \E t \in Users :
          \/ connect(t) \/ getConnection(t) \/ makeMain(t)
          \/ execute(t) \/ executeOnMain(t) \/ releaseConnection(t)
    \/ \E c \in Conns : Dropped(c)

Spec == Init /\ [][Next]_vars

--------------------------------------------------------------------------------
(***************************************************************************)
(* Properties.                                                             *)
(***************************************************************************)
InUse == {using[t] : t \in Users} \ {NoConn, pConnection}

TypeOK ==
    /\ conn \in [Conns -> {"none", "open", "closed", "deleted"}]
    /\ pConnection \in Conns \cup {NoConn}
    /\ Range(listConnect) \subseteq Conns
    /\ curConnect \in Int /\ (~overwritten => curConnect \in 0..MaxConnect)
    /\ leaked \subseteq Conns

\* However threads take and give back connections, and the database drops them: each
\* is in the list once, or used by one thread, or leaked, the main one excepted; and
\* these are what the count counts, so that an idle pool always has one to give.
\* Closing, which empties the list and leaves the count, ends that for good; so do two
\* threads that both find no main connection: the one overwritten, if in use, goes to the
\* list and is not counted.
Accounted ==
    /\ TypeOK
    /\ ~wasClosed /\ ~overwritten =>
        /\ \A t, s \in Users : t # s /\ using[t] = using[s] => using[t] \in {NoConn, pConnection}
        /\ IsInjective(listConnect)
        /\ Range(listConnect) \cap (InUse \cup leaked \cup {pConnection}) = {}
        /\ curConnect = Len(listConnect) + Cardinality(InUse \cup leaked)
================================================================================

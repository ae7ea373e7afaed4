-------------------------------- MODULE XAsioPool --------------------------------
(***************************************************************************)
(* XAsioPool (asio/XAsioPool.h) over XAsioTimer (asio/XAsioTimer.cpp): the *)
(* objects that are handed out, the released ones that wait to be reused,  *)
(* and the timer that frees those.                                         *)
(*                                                                         *)
(* What happens under one of the mutexes is a step.  The timer is started  *)
(* and stopped outside them, expires_from_now (which cancels the waits     *)
(* there are) before async_wait, by the io threads and the application.    *)
(* reuseObject and freeObjects look at the end of m_tempContainer before   *)
(* they test for it: what they read there makes no difference, they stop.  *)
(***************************************************************************)
EXTENDS Naturals, Sequences, FiniteSets, SequencesExt

CONSTANTS
    App,            \* the thread that starts and stops the pool
    IoThreads,      \* threads that run the timer's handlers
    Users,          \* threads that query and release objects
    Objects,        \* bound: objects there are at a time
    NoObject,
    MaxObjectNum,   \* MAX_OBJECT_NUM
    MaxDue          \* bound: handlers of expired waits not yet run

PoolAssumption ==
    /\ NoObject \notin Objects /\ IsFiniteSet(IoThreads)
    /\ MaxObjectNum \in Nat /\ MaxDue \in Nat \ {0}

Threads == IoThreads \cup {App}

VARIABLES
    status,         \* _enStatus of the free timer
    waits,          \* its async_waits
    due,            \* handlers of those that expired
    pc,             \* where each thread is with the timer
    container,      \* m_objContainer
    temp,           \* m_tempContainer
    old,            \* the objects in it that are timed out
    running,        \* the objects that are started
    hand            \* the object a user takes from one list to the other, and to which

timer == << status, waits, due, pc >>
pool == << container, temp, old, running, hand >>
vars == << timer, pool >>

\* allocateObject comes first, if at all: its objects count as timed out.
Init ==
    /\ status = "stop" /\ waits = 0 /\ due = 0
    /\ pc = [t \in Threads |-> "idle"]
    /\ container = <<>>
    /\ temp \in {<<>>} \cup {<<o>> : o \in Objects}
    /\ old = Range(temp) /\ running = {}
    /\ hand = [u \in Users |-> << NoObject, "none" >>]

Goto(t, from, to) == pc[t] = from /\ pc' = [pc EXCEPT ![t] = to]

--------------------------------------------------------------------------------
(***************************************************************************)
(* XAsioTimer.                                                             *)
(***************************************************************************)
setTimer ==
    /\ Goto(App, "idle", "expire")
    /\ status' = "run"
    /\ UNCHANGED << waits, due, pool >>

\* startTimer.
expires_from_now(t) ==
    /\ Goto(t, "expire", "wait")
    /\ waits' = 0
    /\ UNCHANGED << status, due, pool >>

async_wait(t) ==
    /\ Goto(t, "wait", "idle")
    /\ waits' = waits + 1
    /\ UNCHANGED << status, due, pool >>

stopTimer ==
    /\ Goto(App, "idle", "stop")
    /\ waits' = 0
    /\ UNCHANGED << status, due, pool >>

stopped ==
    /\ Goto(App, "stop", "idle")
    /\ status' = "stop"
    /\ UNCHANGED << waits, due, pool >>

Expire ==
    /\ waits > 0 /\ due < MaxDue
    /\ waits' = waits - 1 /\ due' = due + 1
    /\ UNCHANGED << status, pc, pool >>

\* The objects that freeObjects takes away: of the first ones, which are timed out,
\* those that are not started.
Prefix(S) == {i \in DOMAIN temp : \A j \in 1..i : temp[j] \in S}
Freed == {temp[i] : i \in Prefix(old)} \ running

\* q without the elements of D.
Without(q, D) ==
    LET kept[i \in 0..Len(q)] ==
            IF i = 0 THEN <<>> ELSE IF q[i] \in D THEN kept[i - 1] ELSE Append(kept[i - 1], q[i])
    IN  kept[Len(q)]

\* onTimerHandler, and onTimer: freeObjects.
onTimer(t) ==
    /\ due > 0
    /\ Goto(t, "idle", "test")
    /\ due' = due - 1
    /\ temp' = Without(temp, Freed)
    /\ old' = old \ Freed
    /\ UNCHANGED << status, waits, container, running, hand >>

StatusIgnored(t) ==     \* mutant
    /\ Goto(t, "test", "expire")
    /\ UNCHANGED << status, waits, due, pool >>
onTimerHandler(t) ==
    /\ Goto(t, "test", IF status = "run" THEN "expire" ELSE "idle")
    /\ UNCHANGED << status, waits, due, pool >>

--------------------------------------------------------------------------------
(***************************************************************************)
(* The lists.                                                              *)
(***************************************************************************)
InHand == {hand[u][1] : u \in Users} \ {NoObject}
Fresh == Objects \ (Range(container) \cup Range(temp) \cup InHand)

\* The first that is timed out and not started, or else a new one.
Reusable == {i \in Prefix(old) : temp[i] \notin running /\ \A j \in 1..(i - 1) : temp[j] \in running}

reuseObject(u) ==
    /\ hand[u][1] = NoObject
    /\ IF Reusable # {}
       THEN \E i \in Reusable :
               /\ hand' = [hand EXCEPT ![u] = << temp[i], "add" >>]
               /\ temp' = RemoveAt(temp, i)
               /\ old' = old \ {temp[i]}
       ELSE /\ \E o \in Fresh : hand' = [hand EXCEPT ![u] = << o, "add" >>]
            /\ UNCHANGED << temp, old >>
    /\ UNCHANGED << timer, container, running >>

\* The rest of queryObject; if the pool is full the object is not entered in it, and
\* nobody knows of it but the caller.
addObject(u) ==
    /\ hand[u][2] = "add"
    /\ container' = IF Len(container) < MaxObjectNum THEN Append(container, hand[u][1]) ELSE container
    /\ hand' = [hand EXCEPT ![u] = << NoObject, "none" >>]
    /\ UNCHANGED << timer, temp, old, running >>

FoundOrNot(u, o) ==     \* mutant: bFound is not tested
    /\ hand[u][1] = NoObject /\ o \notin Fresh
    /\ container' = Without(container, {o})
    /\ hand' = [hand EXCEPT ![u] = << o, "park" >>]
    /\ UNCHANGED << timer, temp, old, running >>
\* Two threads may release the same object: one of them finds it.
releaseObject(u, o) ==
    /\ hand[u][1] = NoObject
    /\ \E i \in DOMAIN container :
          /\ container[i] = o /\ \A j \in 1..(i - 1) : container[j] # o
          /\ container' = RemoveAt(container, i)
    /\ hand' = [hand EXCEPT ![u] = << o, "park" >>]
    /\ UNCHANGED << timer, temp, old, running >>

park(u) ==
    /\ hand[u][2] = "park"
    /\ temp' = Append(temp, hand[u][1])
    /\ hand' = [hand EXCEPT ![u] = << NoObject, "none" >>]
    /\ UNCHANGED << timer, container, old, running >>

\* An object is started by those who have it, and stops in its own time.
Run(o) ==
    /\ o \in Range(container) \ running
    /\ running' = running \cup {o}
    /\ UNCHANGED << timer, container, temp, old, hand >>

Halt(o) ==
    /\ o \in running
    /\ running' = running \ {o}
    /\ UNCHANGED << timer, container, temp, old, hand >>

\* Time passes: those released first are timed out first.
Age ==
    /\ \E i \in DOMAIN temp : temp[i] \notin old /\ old' = old \cup {temp[j] : j \in 1..i}
    /\ UNCHANGED << timer, container, temp, running, hand >>

--------------------------------------------------------------------------------
Handler(t) == onTimer(t) \/ onTimerHandler(t) \/ expires_from_now(t) \/ async_wait(t)

Next ==
    \/ setTimer \/ stopTimer \/ stopped \/ Expire \/ Age
    \/ expires_from_now(App) \/ async_wait(App)
    \/ \E t \in IoThreads : onTimer(t) \/ onTimerHandler(t) \/ expires_from_now(t) \/ async_wait(t)
    \/ \E u \in Users : reuseObject(u) \/ addObject(u) \/ park(u)
    \/ \E u \in Users, o \in Objects : releaseObject(u, o)
    \/ \E o \in Objects : Run(o) \/ Halt(o)

Spec == Init /\ [][Next]_vars

\* Waits expire, the io threads run handlers, and a call that has begun ends.
Fairness ==
    /\ WF_vars(Expire)
    /\ WF_vars(stopped \/ expires_from_now(App) \/ async_wait(App))
    /\ \A t \in IoThreads : WF_vars(Handler(t))
FairSpec == Spec /\ Fairness

--------------------------------------------------------------------------------
(***************************************************************************)
(* Properties.                                                             *)
(***************************************************************************)
TypeOK ==
    /\ status \in {"run", "stop"} /\ waits \in 0..Cardinality(Threads) /\ due \in 0..MaxDue
    /\ Range(container) \cup Range(temp) \subseteq Objects /\ Len(container) <= MaxObjectNum
    /\ old \subseteq Range(temp) /\ running \subseteq Objects

\* However queries and releases overlap, an object is in one list or in one hand, and
\* once: it is never handed out twice.
OneHome ==
    /\ TypeOK
    /\ IsInjective(container \o temp)
    /\ InHand \cap Range(container \o temp) = {}
    /\ \A u, v \in Users : u # v /\ hand[u][1] = hand[v][1] => hand[u][1] = NoObject

Idle == \A t \in Threads : pc[t] = "idle"

\* A timer that was stopped is quiet in the end, although a handler may start it once more.
StopIsQuiet == (status = "stop") ~> (status = "run" \/ (waits = 0 /\ due = 0 /\ Idle))
================================================================================

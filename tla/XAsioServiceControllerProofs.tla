--------------------- MODULE XAsioServiceControllerProofs ---------------------
(***************************************************************************)
(* Theorems about XAsioServiceController, for any sets of callers, runners *)
(* and services and any number of threads: a stop that has returned leaves *)
(* no thread behind, and what was asked for is started.                    *)
(***************************************************************************)
EXTENDS XAsioServiceController, TLAPS

(***************************************************************************)
(* The inductive invariant.                                                *)
(***************************************************************************)
Before == {"spawned", "reset", "services", "flag"}
Within == {"running", "joining"}

\* The values of the variables.
Kinds ==
    /\ isStarted \in BOOLEAN /\ work \in BOOLEAN /\ stopped \in BOOLEAN
    /\ calm \in BOOLEAN /\ quiet \in BOOLEAN
    /\ ops \in 0..MaxOps
    /\ container \subseteq Services /\ started \subseteq Services /\ asked \subseteq Services
    /\ runner \in [Runners -> Gone \cup Before \cup Within]
    /\ extra \in [Runners -> 0..(ThreadNum - 1)]
    /\ call \in [Callers -> Stopping \cup {"idle", "start"}]

\* Only a runner that is within runIOService has threads, and the flag is not set
\* without one.
Threads ==
    /\ \A r \in Runners : extra[r] > 0 => runner[r] \in Within
    /\ isStarted => \E r \in Runners : runner[r] \in Within

\* As long as it is calm there is one runner, the flag tells where it is, nobody stops
\* what is not started, and a stop that has returned has waited for it.
OneRunner == calm =>
    /\ \A r, t \in Runners : runner[r] \notin Gone /\ runner[t] \notin Gone => r = t
    /\ \A r \in Runners : runner[r] \in Within => isStarted
    /\ \A r \in Runners : runner[r] \in Before =>
          ~isStarted /\ \A c \in Callers : call[c] \notin Stopping
    /\ quiet => \A r \in Runners : runner[r] \in Gone

\* What was asked for is in the list until the runner has started it.
Asked ==
    /\ asked \subseteq container
    /\ calm => \A r \in Runners : runner[r] \in Within \cup {"flag"} => asked \subseteq started

IInv == Kinds /\ Threads /\ OneRunner /\ Asked

(***************************************************************************)
(* It holds at first, and every step preserves it.                         *)
(***************************************************************************)
\* There is no runner yet.
LEMMA InitIInv == Init => IInv
<1> SUFFICES ASSUME Init PROVE IInv
  OBVIOUS
<1>1. ops \in 0..MaxOps /\ extra \in [Runners -> 0..(ThreadNum - 1)]
  BY ControllerAssumption DEF Init
<1>2. Kinds
  BY <1>1 DEF Init, Kinds, Gone, Stopping
<1>3. Threads
  BY DEF Init, Threads
<1>4. OneRunner /\ Asked
  BY DEF Init, OneRunner, Asked, Gone, Before, Within
<1> QED
  BY <1>2, <1>3, <1>4 DEF IInv

\* The list grows; nothing is started by it.
LEMMA registerServiceKeeps ==
    ASSUME IInv, NEW s \in Services, registerService(s) PROVE IInv'
<1>1. Kinds'
  BY ControllerAssumption DEF IInv, Kinds, Gone, Before, Within, Stopping,
     registerService, io, threads
<1>2. Threads'
  BY ControllerAssumption DEF IInv, Kinds, Threads, Gone, Before, Within, Stopping,
     registerService, io, threads
<1>3. OneRunner'
  BY ControllerAssumption DEF IInv, Kinds, Threads, OneRunner, Gone, Before, Within,
     Stopping, registerService, io, threads
<1>4. Asked'
  BY ControllerAssumption DEF IInv, Kinds, Asked, Gone, Before, Within, Stopping,
     registerService, io, threads
<1> QED
  BY <1>1, <1>2, <1>3, <1>4 DEF IInv

\* A service that is stopped was asked for no longer.
LEMMA stopServiceKeeps ==
    ASSUME IInv, NEW s \in Services, stopService(s) PROVE IInv'
<1>1. Kinds'
  BY ControllerAssumption DEF IInv, Kinds, Gone, Before, Within, Stopping,
     stopService, stopServices, io, threads
<1>2. Threads'
  BY ControllerAssumption DEF IInv, Kinds, Threads, Gone, Before, Within, Stopping,
     stopService, stopServices, io, threads
<1>3. OneRunner'
  BY ControllerAssumption DEF IInv, Kinds, Threads, OneRunner, Gone, Before, Within,
     Stopping, stopService, stopServices, io, threads
<1>4. Asked'
  BY ControllerAssumption DEF IInv, Kinds, Asked, Gone, Before, Within, Stopping,
     stopService, stopServices, io, threads
<1> QED
  BY <1>1, <1>2, <1>3, <1>4 DEF IInv

\* The same, and it leaves the list.
LEMMA removeServiceKeeps ==
    ASSUME IInv, NEW s \in Services, removeService(s) PROVE IInv'
<1>1. Kinds'
  BY ControllerAssumption DEF IInv, Kinds, Gone, Before, Within, Stopping,
     removeService, stopServices, io, threads
<1>2. Threads'
  BY ControllerAssumption DEF IInv, Kinds, Threads, Gone, Before, Within, Stopping,
     removeService, stopServices, io, threads
<1>3. OneRunner'
  BY ControllerAssumption DEF IInv, Kinds, Threads, OneRunner, Gone, Before, Within,
     Stopping, removeService, stopServices, io, threads
<1>4. Asked'
  BY ControllerAssumption DEF IInv, Kinds, Asked, Gone, Before, Within, Stopping,
     removeService, stopServices, io, threads
<1> QED
  BY <1>1, <1>2, <1>3, <1>4 DEF IInv

\* All of the list are stopped.
LEMMA clearAllServicesKeeps ==
    ASSUME IInv, clearAllServices PROVE IInv'
<1>1. Kinds'
  BY ControllerAssumption DEF IInv, Kinds, Gone, Before, Within, Stopping,
     clearAllServices, stopServices, io, threads
<1>2. Threads'
  BY ControllerAssumption DEF IInv, Kinds, Threads, Gone, Before, Within, Stopping,
     clearAllServices, stopServices, io, threads
<1>3. OneRunner'
  BY ControllerAssumption DEF IInv, Kinds, Threads, OneRunner, Gone, Before, Within,
     Stopping, clearAllServices, stopServices, io, threads
<1>4. Asked'
  BY ControllerAssumption DEF IInv, Kinds, Asked, Gone, Before, Within, Stopping,
     clearAllServices, stopServices, io, threads
<1> QED
  BY <1>1, <1>2, <1>3, <1>4 DEF IInv

\* A new runner: the only one, or it is not calm.
LEMMA startAllServicesKeeps ==
    ASSUME IInv, NEW c \in Callers, NEW S \in SUBSET container, startAllServices(c, S) PROVE IInv'
<1>1. Kinds'
  BY ControllerAssumption DEF IInv, Kinds, Gone, Before, Within, Stopping,
     startAllServices, io
<1>2. Threads'
  BY ControllerAssumption DEF IInv, Kinds, Threads, Gone, Before, Within, Stopping,
     startAllServices, io
<1>3. OneRunner'
  BY ControllerAssumption DEF IInv, Kinds, Threads, OneRunner, Gone, Before, Within,
     Stopping, startAllServices, io
<1>4. Asked'
  BY ControllerAssumption DEF IInv, Kinds, Asked, Gone, Before, Within, Stopping,
     startAllServices, io
<1> QED
  BY <1>1, <1>2, <1>3, <1>4 DEF IInv

\* startService while the controller is started: the service is started at once.
LEMMA startRunningKeeps ==
    ASSUME IInv, NEW s \in container, isStarted,
           started' = started \cup {s}, asked' = asked \cup {s}, quiet' = FALSE,
           UNCHANGED << isStarted, io, container, call, threads, calm >>
    PROVE IInv'
<1>1. Kinds'
  BY ControllerAssumption DEF IInv, Kinds, Gone, Before, Within, Stopping, io, threads
<1>2. Threads'
  BY ControllerAssumption DEF IInv, Kinds, Threads, Gone, Before, Within, Stopping,
     io, threads
<1>3. OneRunner'
  BY ControllerAssumption DEF IInv, Kinds, Threads, OneRunner, Gone, Before, Within,
     Stopping, io, threads
<1>4. Asked'
  BY ControllerAssumption DEF IInv, Kinds, Asked, Gone, Before, Within, Stopping, io,
     threads
<1> QED
  BY <1>1, <1>2, <1>3, <1>4 DEF IInv

\* A start that has seen the flag returns.
LEMMA StartReturnsKeeps ==
    ASSUME IInv, NEW c \in Callers, StartReturns(c) PROVE IInv'
<1>1. Kinds'
  BY ControllerAssumption DEF IInv, Kinds, Gone, Before, Within, Stopping,
     StartReturns, io, threads
<1>2. Threads'
  BY ControllerAssumption DEF IInv, Kinds, Threads, Gone, Before, Within, Stopping,
     StartReturns, io, threads
<1>3. OneRunner'
  BY ControllerAssumption DEF IInv, Kinds, Threads, OneRunner, Gone, Before, Within,
     Stopping, StartReturns, io, threads
<1>4. Asked'
  BY ControllerAssumption DEF IInv, Kinds, Asked, Gone, Before, Within, Stopping,
     StartReturns, io, threads
<1> QED
  BY <1>1, <1>2, <1>3, <1>4 DEF IInv

\* A start that gives up is not calm.
LEMMA GiveUpKeeps ==
    ASSUME IInv, NEW c \in Callers, GiveUp(c) PROVE IInv'
<1>1. Kinds'
  BY ControllerAssumption DEF IInv, Kinds, Gone, Before, Within, Stopping, GiveUp, io,
     threads
<1>2. Threads'
  BY ControllerAssumption DEF IInv, Kinds, Threads, Gone, Before, Within, Stopping,
     GiveUp, io, threads
<1>3. OneRunner'
  BY ControllerAssumption DEF IInv, Kinds, Threads, OneRunner, Gone, Before, Within,
     Stopping, GiveUp, io, threads
<1>4. Asked'
  BY ControllerAssumption DEF IInv, Kinds, Asked, Gone, Before, Within, Stopping,
     GiveUp, io, threads
<1> QED
  BY <1>1, <1>2, <1>3, <1>4 DEF IInv

\* The runner goes on, for the flag is not set.
LEMMA TestKeeps ==
    ASSUME IInv, NEW r \in Runners, Test(r) PROVE IInv'
<1>1. Kinds'
  BY ControllerAssumption DEF IInv, Kinds, Gone, Before, Within, Stopping, Test, io,
     threads
<1>2. Threads'
  BY ControllerAssumption DEF IInv, Kinds, Threads, Gone, Before, Within, Stopping,
     Test, io, threads
<1>3. OneRunner'
  BY ControllerAssumption DEF IInv, Kinds, Threads, OneRunner, Gone, Before, Within,
     Stopping, Test, io, threads
<1>4. Asked'
  BY ControllerAssumption DEF IInv, Kinds, Asked, Gone, Before, Within, Stopping,
     Test, io, threads
<1> QED
  BY <1>1, <1>2, <1>3, <1>4 DEF IInv

\* The io_service is reset.
LEMMA ResetKeeps ==
    ASSUME IInv, NEW r \in Runners, Reset(r) PROVE IInv'
<1>1. Kinds'
  BY ControllerAssumption DEF IInv, Kinds, Gone, Before, Within, Stopping, Reset, io,
     threads
<1>2. Threads'
  BY ControllerAssumption DEF IInv, Kinds, Threads, Gone, Before, Within, Stopping,
     Reset, io, threads
<1>3. OneRunner'
  BY ControllerAssumption DEF IInv, Kinds, Threads, OneRunner, Gone, Before, Within,
     Stopping, Reset, io, threads
<1>4. Asked'
  BY ControllerAssumption DEF IInv, Kinds, Asked, Gone, Before, Within, Stopping,
     Reset, io, threads
<1> QED
  BY <1>1, <1>2, <1>3, <1>4 DEF IInv

\* What was asked for is in the list, and so is started.
LEMMA StartThemKeeps ==
    ASSUME IInv, NEW r \in Runners, StartThem(r) PROVE IInv'
<1>1. Kinds'
  BY ControllerAssumption DEF IInv, Kinds, Gone, Before, Within, Stopping, StartThem,
     io, threads
<1>2. Threads'
  BY ControllerAssumption DEF IInv, Kinds, Threads, Gone, Before, Within, Stopping,
     StartThem, io, threads
<1>3. OneRunner'
  BY ControllerAssumption DEF IInv, Kinds, Threads, OneRunner, Gone, Before, Within,
     Stopping, StartThem, io, threads
<1>4. Asked'
  BY ControllerAssumption DEF IInv, Kinds, Asked, Gone, Before, Within, Stopping,
     StartThem, io, threads
<1> QED
  BY <1>1, <1>2, <1>3, <1>4 DEF IInv

\* The flag is set, and the runner has threads.
LEMMA SpawnKeeps ==
    ASSUME IInv, NEW r \in Runners, Spawn(r) PROVE IInv'
<1>1. Kinds'
  BY ControllerAssumption DEF IInv, Kinds, Gone, Before, Within, Stopping, Spawn, io,
     threads
<1>2. Threads'
  BY ControllerAssumption DEF IInv, Kinds, Threads, Gone, Before, Within, Stopping,
     Spawn, io, threads
<1>3. OneRunner'
  BY ControllerAssumption DEF IInv, Kinds, Threads, OneRunner, Gone, Before, Within,
     Stopping, Spawn, io, threads
<1>4. Asked'
  BY ControllerAssumption DEF IInv, Kinds, Asked, Gone, Before, Within, Stopping,
     Spawn, io, threads
<1> QED
  BY <1>1, <1>2, <1>3, <1>4 DEF IInv

\* A thread of the runner leaves the io_service.
LEMMA RunReturnsKeeps ==
    ASSUME IInv, NEW r \in Runners, RunReturns(r) PROVE IInv'
<1>1. Kinds'
  BY ControllerAssumption DEF IInv, Kinds, Gone, Before, Within, Stopping, RunReturns,
     io, threads
<1>2. Threads'
  BY ControllerAssumption DEF IInv, Kinds, Threads, Gone, Before, Within, Stopping,
     RunReturns, io, threads
<1>3. OneRunner'
  BY ControllerAssumption DEF IInv, Kinds, Threads, OneRunner, Gone, Before, Within,
     Stopping, RunReturns, io, threads
<1>4. Asked'
  BY ControllerAssumption DEF IInv, Kinds, Asked, Gone, Before, Within, Stopping,
     RunReturns, io, threads
<1> QED
  BY <1>1, <1>2, <1>3, <1>4 DEF IInv

\* The runner ends when its threads have, and clears the flag.
LEMMA JoinKeeps ==
    ASSUME IInv, NEW r \in Runners, Join(r) PROVE IInv'
<1>1. Kinds'
  BY ControllerAssumption DEF IInv, Kinds, Gone, Before, Within, Stopping, Join, io,
     threads
<1>2. Threads'
  BY ControllerAssumption DEF IInv, Kinds, Threads, Gone, Before, Within, Stopping,
     Join, io, threads
<1>3. OneRunner'
  BY ControllerAssumption DEF IInv, Kinds, Threads, OneRunner, Gone, Before, Within,
     Stopping, Join, io, threads
<1>4. Asked'
  BY ControllerAssumption DEF IInv, Kinds, Asked, Gone, Before, Within, Stopping,
     Join, io, threads
<1> QED
  BY <1>1, <1>2, <1>3, <1>4 DEF IInv

\* A thread of the runner ends by an exception.
LEMMA ThrowKeeps ==
    ASSUME IInv, NEW r \in Runners, Throw(r) PROVE IInv'
<1>1. Kinds'
  BY ControllerAssumption DEF IInv, Kinds, Gone, Before, Within, Stopping, Throw, io,
     threads
<1>2. Threads'
  BY ControllerAssumption DEF IInv, Kinds, Threads, Gone, Before, Within, Stopping,
     Throw, io, threads
<1>3. OneRunner'
  BY ControllerAssumption DEF IInv, Kinds, Threads, OneRunner, Gone, Before, Within,
     Stopping, Throw, io, threads
<1>4. Asked'
  BY ControllerAssumption DEF IInv, Kinds, Asked, Gone, Before, Within, Stopping,
     Throw, io, threads
<1> QED
  BY <1>1, <1>2, <1>3, <1>4 DEF IInv

\* An operation begins.
LEMMA BeginKeeps ==
    ASSUME IInv, Begin PROVE IInv'
<1>1. Kinds'
  BY ControllerAssumption DEF IInv, Kinds, Gone, Before, Within, Stopping, Begin, io,
     threads
<1>2. Threads'
  BY ControllerAssumption DEF IInv, Kinds, Threads, Gone, Before, Within, Stopping,
     Begin, io, threads
<1>3. OneRunner'
  BY ControllerAssumption DEF IInv, Kinds, Threads, OneRunner, Gone, Before, Within,
     Stopping, Begin, io, threads
<1>4. Asked'
  BY ControllerAssumption DEF IInv, Kinds, Asked, Gone, Before, Within, Stopping,
     Begin, io, threads
<1> QED
  BY <1>1, <1>2, <1>3, <1>4 DEF IInv

\* An operation completes.
LEMMA CompleteKeeps ==
    ASSUME IInv, Complete PROVE IInv'
<1>1. Kinds'
  BY ControllerAssumption DEF IInv, Kinds, Gone, Before, Within, Stopping, Complete,
     io, threads
<1>2. Threads'
  BY ControllerAssumption DEF IInv, Kinds, Threads, Gone, Before, Within, Stopping,
     Complete, io, threads
<1>3. OneRunner'
  BY ControllerAssumption DEF IInv, Kinds, Threads, OneRunner, Gone, Before, Within,
     Stopping, Complete, io, threads
<1>4. Asked'
  BY ControllerAssumption DEF IInv, Kinds, Asked, Gone, Before, Within, Stopping,
     Complete, io, threads
<1> QED
  BY <1>1, <1>2, <1>3, <1>4 DEF IInv

\* The io_service is stopped; the runner is waited for all the same.
LEMMA ForceStopKeeps ==
    ASSUME IInv, NEW c \in Callers, ForceStop(c) PROVE IInv'
<1>1. Kinds'
  BY ControllerAssumption DEF IInv, Kinds, Gone, Before, Within, Stopping, ForceStop,
     io, threads
<1>2. Threads'
  BY ControllerAssumption DEF IInv, Kinds, Threads, Gone, Before, Within, Stopping,
     ForceStop, io, threads
<1>3. OneRunner'
  BY ControllerAssumption DEF IInv, Kinds, Threads, OneRunner, Gone, Before, Within,
     Stopping, ForceStop, io, threads
<1>4. Asked'
  BY ControllerAssumption DEF IInv, Kinds, Asked, Gone, Before, Within, Stopping,
     ForceStop, io, threads
<1> QED
  BY <1>1, <1>2, <1>3, <1>4 DEF IInv

\* The flag is clear, so that the one runner there may be has ended.
LEMMA StopReturnsKeeps ==
    ASSUME IInv, NEW c \in Callers, StopReturns(c) PROVE IInv'
<1>1. Kinds'
  BY ControllerAssumption DEF IInv, Kinds, Gone, Before, Within, Stopping,
     StopReturns, io, threads
<1>2. Threads'
  BY ControllerAssumption DEF IInv, Kinds, Threads, Gone, Before, Within, Stopping,
     StopReturns, io, threads
<1>3. OneRunner'
  BY ControllerAssumption DEF IInv, Kinds, Threads, OneRunner, Gone, Before, Within,
     Stopping, StopReturns, io, threads
<1>4. Asked'
  BY ControllerAssumption DEF IInv, Kinds, Asked, Gone, Before, Within, Stopping,
     StopReturns, io, threads
<1> QED
  BY <1>1, <1>2, <1>3, <1>4 DEF IInv

\* A stop begins: the controller is started, so no runner is before that.
LEMMA stopAllServicesKeeps ==
    ASSUME IInv, NEW c \in Callers, NEW m \in {"stop", "force"}, stopAllServices(c, m)
    PROVE IInv'
<1>1. Kinds'
  BY ControllerAssumption DEF IInv, Kinds, Gone, Before, Within, Stopping,
     stopAllServices, stopServices, threads
<1>2. Threads'
  BY ControllerAssumption DEF IInv, Kinds, Threads, Gone, Before, Within, Stopping,
     stopAllServices, stopServices, threads
<1>3. OneRunner'
  BY ControllerAssumption DEF IInv, Kinds, Threads, OneRunner, Gone, Before, Within,
     Stopping, stopAllServices, stopServices, threads
<1>4. Asked'
  BY ControllerAssumption DEF IInv, Kinds, Asked, Gone, Before, Within, Stopping,
     stopAllServices, stopServices, threads
<1> QED
  BY <1>1, <1>2, <1>3, <1>4 DEF IInv

\* Every step is one of the above, or changes nothing.
LEMMA NextKeeps == IInv /\ [Next]_vars => IInv'
<1> SUFFICES ASSUME IInv, [Next]_vars PROVE IInv'
  OBVIOUS
<1>1. CASE \E s \in Services : registerService(s) \/ stopService(s) \/ removeService(s)
  BY <1>1, registerServiceKeeps, stopServiceKeeps, removeServiceKeeps
<1>2. CASE clearAllServices \/ Begin \/ Complete
  BY <1>2, clearAllServicesKeeps, BeginKeeps, CompleteKeeps
<1>3. ASSUME NEW c \in Callers, startAllServices(c, {}) PROVE IInv'
  BY <1>3, startAllServicesKeeps
<1>4. ASSUME NEW c \in Callers, NEW s \in Services, startService(c, s) PROVE IInv'
  <2>1. s \in container
    BY <1>4 DEF startService
  <2>2. CASE startAllServices(c, {s})
    <3>1. {s} \in SUBSET container
      BY <2>1
    <3> QED
      BY <2>2, <3>1, startAllServicesKeeps
  <2>3. CASE ~startAllServices(c, {s})
    BY <1>4, <2>1, <2>3, startRunningKeeps DEF startService
  <2> QED
    BY <2>2, <2>3
<1>5. ASSUME NEW c \in Callers, NEW m \in {"stop", "force"}, stopAllServices(c, m) PROVE IInv'
  BY <1>5, stopAllServicesKeeps
<1>6. ASSUME NEW c \in Callers, Call(c) PROVE IInv'
  BY <1>6, StartReturnsKeeps, GiveUpKeeps, ForceStopKeeps, StopReturnsKeeps DEF Call
<1>7. ASSUME NEW r \in Runners, Run(r) \/ Throw(r) PROVE IInv'
  BY <1>7, TestKeeps, ResetKeeps, StartThemKeeps, SpawnKeeps, RunReturnsKeeps, JoinKeeps,
     ThrowKeeps DEF Run
<1>8. CASE UNCHANGED vars
  BY <1>8 DEF vars, io, threads, IInv, Kinds, Threads, OneRunner, Asked
<1> QED
  BY <1>1, <1>2, <1>3, <1>4, <1>5, <1>6, <1>7, <1>8 DEF Next

\* Every reachable state has the inductive invariant.
THEOREM Inductive == Spec => []IInv
<1> QED
  BY InitIInv, NextKeeps, PTL DEF Spec

(***************************************************************************)
(* The properties.                                                         *)
(***************************************************************************)
\* When stopAllServices or forceStopAllServices has returned no thread runs the
\* io_service (runIOService joins them before m_bIsStarted is cleared), as long as
\* starts and stops do not overlap.
THEOREM StopWaitsCorrect == Spec => []StopWaits
<1>1. IInv => StopWaits
  BY ControllerAssumption DEF IInv, Kinds, Threads, OneRunner, StopWaits, Gone, Within, Before
<1> QED
  BY <1>1, Inductive, PTL

\* A service that startService was asked for is started while the controller is,
\* whether runAllServices found it in the list or it came later.
THEOREM AskedIsStartedCorrect == Spec => []AskedIsStarted
<1>1. IInv => TypeOK
  BY DEF IInv, Kinds, Threads, TypeOK, Gone, Before, Within, Stopping
<1>2. IInv => AskedIsStarted
  BY <1>1 DEF IInv, Threads, Asked, AskedIsStarted
<1> QED
  BY <1>2, Inductive, PTL
================================================================================

------------------------ MODULE XAsioServiceController ------------------------
(***************************************************************************)
(* XAsioServiceController: the io_service, the threads that run it, and    *)
(* the services registered with it.  A thread that starts the services     *)
(* spawns a runner and polls m_bIsStarted for a while; the runner sets it, *)
(* runs the io_service with more threads, joins them and clears it; a      *)
(* thread that stops them waits for that.  m_bIsStarted is a plain bool,   *)
(* tested and set by all of them.                                          *)
(***************************************************************************)
EXTENDS Naturals, FiniteSets

CONSTANTS
    Callers,   \* threads that start and stop the services
    Services,  \* XAsioServiceInterface objects
    Runners,   \* bound: threads running runAllServices at a time
    ThreadNum, \* threadNum of runIOService
    MaxOps     \* bound: operations outstanding on the io_service

ASSUME ControllerAssumption == ThreadNum \in Nat \ {0} /\ MaxOps \in Nat

VARIABLES
    isStarted, \* m_bIsStarted of the controller
    work,      \* m_ptrIoWork is set
    stopped,   \* m_ioService.stopped()
    ops,       \* operations outstanding on the io_service
    container, \* m_serviceContainer
    started,   \* services whose m_bIsStarted is set
    call,      \* of each caller: the call it is in
    runner,    \* of each runner: where it is in runAllServices
    extra,     \* of each runner: threads of its group still running the io_service
    calm,      \* history: no start gave up polling, or overlapped another start or a stop
    quiet,     \* history: a stop has returned, and nothing was started since
    asked      \* history: services startService was called for, not stopped since

vars == << isStarted, work, stopped, ops, container, started, call, runner, extra,
           calm, quiet, asked >>
io == << work, stopped, ops >>
threads == << runner, extra >>

Gone == {"none", "ended"}
Stopping == {"stop", "force", "forced"}

Init ==
    /\ isStarted = FALSE /\ work = FALSE /\ stopped = FALSE /\ ops = 0
    /\ container = {} /\ started = {}
    /\ call = [c \in Callers |-> "idle"]
    /\ runner = [r \in Runners |-> "none"]
    /\ extra = [r \in Runners |-> 0]
    /\ calm = TRUE /\ quiet = FALSE /\ asked = {}

--------------------------------------------------------------------------------
(***************************************************************************)
(* The services.                                                           *)
(***************************************************************************)
registerService(s) ==
    /\ s \notin container
    /\ container' = container \cup {s}
    /\ UNCHANGED << isStarted, io, started, call, threads, calm, quiet, asked >>

stopServices(S) == started' = started \ S /\ asked' = asked \ S

stopService(s) ==
    /\ s \in container
    /\ stopServices({s})
    /\ UNCHANGED << isStarted, io, container, call, threads, calm, quiet >>

removeService(s) ==
    /\ s \in container
    /\ container' = container \ {s}
    /\ stopServices({s})
    /\ UNCHANGED << isStarted, io, call, threads, calm, quiet >>

\* The splice has the list for source and for destination, and moves nothing.
clearAllServices ==
    /\ stopServices(container)
    /\ UNCHANGED << isStarted, io, container, call, threads, calm, quiet >>

--------------------------------------------------------------------------------
(***************************************************************************)
(* Starting: startService and startAllServices.                            *)
(***************************************************************************)
\* S is the service to start, or no service for startAllServices.
startAllServices(c, S) ==
    /\ call[c] = "idle" /\ ~isStarted
    /\ \E r \in Runners :
          /\ runner[r] \in Gone
          /\ runner' = [runner EXCEPT ![r] = "spawned"]
    /\ call' = [call EXCEPT ![c] = "start"]
    /\ calm' = /\ calm
               /\ \A r \in Runners : runner[r] \in Gone
               /\ \A d \in Callers : call[d] \notin Stopping
    /\ quiet' = FALSE
    /\ asked' = asked \cup S
    /\ UNCHANGED << isStarted, io, container, started, extra >>

startService(c, s) ==
    /\ call[c] = "idle" /\ s \in container
    /\ \/ /\ isStarted
          /\ started' = started \cup {s} /\ asked' = asked \cup {s}
          /\ quiet' = FALSE
          /\ UNCHANGED << isStarted, io, container, call, threads, calm >>
       \/ startAllServices(c, {s})

\* The poll of startAllServices sees the flag.
StartReturns(c) ==
    /\ call[c] = "start" /\ isStarted
    /\ call' = [call EXCEPT ![c] = "idle"]
    /\ UNCHANGED << isStarted, io, container, started, threads, calm, quiet, asked >>

\* It has polled eleven times in vain, and returns all the same.
GiveUp(c) ==
    /\ call[c] = "start" /\ ~isStarted
    /\ call' = [call EXCEPT ![c] = "idle"]
    /\ calm' = FALSE
    /\ UNCHANGED << isStarted, io, container, started, threads, quiet, asked >>

--------------------------------------------------------------------------------
(***************************************************************************)
(* The runner: runAllServices and runIOService.                            *)
(***************************************************************************)
Test(r) ==
    /\ runner[r] = "spawned"
    /\ runner' = [runner EXCEPT ![r] = IF isStarted THEN "ended" ELSE "reset"]
    /\ UNCHANGED << isStarted, io, container, started, call, extra, calm, quiet, asked >>

Reset(r) ==
    /\ runner[r] = "reset"
    /\ work' = TRUE /\ stopped' = FALSE
    /\ runner' = [runner EXCEPT ![r] = "services"]
    /\ UNCHANGED << isStarted, ops, container, started, call, extra, calm, quiet, asked >>

NoServices(r) ==    \* mutant
    /\ runner[r] = "services"
    /\ runner' = [runner EXCEPT ![r] = "flag"]
    /\ UNCHANGED << isStarted, io, container, started, call, extra, calm, quiet, asked >>
StartThem(r) ==
    /\ runner[r] = "services"
    /\ started' = started \cup container
    /\ runner' = [runner EXCEPT ![r] = "flag"]
    /\ UNCHANGED << isStarted, io, container, call, extra, calm, quiet, asked >>

Spawn(r) ==
    /\ runner[r] = "flag"
    /\ isStarted' = TRUE
    /\ extra' = [extra EXCEPT ![r] = ThreadNum - 1]
    /\ runner' = [runner EXCEPT ![r] = "running"]
    /\ UNCHANGED << io, container, started, call, calm, quiet, asked >>

\* run returns once the io_service is stopped, or has neither work nor operations,
\* which stops it.
RunEnds == stopped \/ (~work /\ ops = 0)

RunReturns(r) ==
    /\ RunEnds
    /\ stopped' = TRUE
    /\ \/ /\ runner[r] = "running"
          /\ runner' = [runner EXCEPT ![r] = "joining"]
          /\ UNCHANGED extra
       \/ /\ extra[r] > 0
          /\ extra' = [extra EXCEPT ![r] = @ - 1]
          /\ UNCHANGED runner
    /\ UNCHANGED << isStarted, work, ops, container, started, call, calm, quiet, asked >>

JoinNobody(r) ==    \* mutant
    /\ runner[r] = "joining"
    /\ isStarted' = FALSE
    /\ runner' = [runner EXCEPT ![r] = "ended"]
    /\ UNCHANGED << io, container, started, call, extra, calm, quiet, asked >>
Join(r) ==
    /\ runner[r] = "joining" /\ extra[r] = 0
    /\ isStarted' = FALSE
    /\ runner' = [runner EXCEPT ![r] = "ended"]
    /\ UNCHANGED << io, container, started, call, extra, calm, quiet, asked >>

--------------------------------------------------------------------------------
(***************************************************************************)
(* The io_service.                                                         *)
(***************************************************************************)
Begin ==
    /\ ops < MaxOps
    /\ ops' = ops + 1
    /\ UNCHANGED << isStarted, work, stopped, container, started, call, threads, calm, quiet, asked >>

\* An operation completes on a thread that runs the io_service.
Complete ==
    /\ ops > 0 /\ ~stopped
    /\ \E r \in Runners : runner[r] = "running" \/ extra[r] > 0
    /\ ops' = ops - 1
    /\ UNCHANGED << isStarted, work, stopped, container, started, call, threads, calm, quiet, asked >>

\* Its handler throws on a thread of the group, which ends quietly.  On the runner's
\* own thread the exception is not caught: the program ends, and the behaviour.
Throw(r) ==
    /\ ops > 0 /\ ~stopped /\ extra[r] > 0
    /\ ops' = ops - 1
    /\ extra' = [extra EXCEPT ![r] = @ - 1]
    /\ UNCHANGED << isStarted, work, stopped, container, started, call, runner, calm, quiet, asked >>

--------------------------------------------------------------------------------
(***************************************************************************)
(* Stopping.                                                               *)
(***************************************************************************)
\* m is "stop" for stopAllServices, "force" for forceStopAllServices.
stopAllServices(c, m) ==
    /\ call[c] = "idle" /\ isStarted
    /\ work' = FALSE
    /\ stopServices(container)
    /\ call' = [call EXCEPT ![c] = m]
    /\ UNCHANGED << isStarted, stopped, ops, container, threads, calm, quiet >>

NeverForce(c) ==    \* mutant: the counter of forceStopAllServices never runs out
    /\ FALSE
    /\ UNCHANGED vars
\* forceStopAllServices has polled twenty times, and stops the io_service once.
ForceStop(c) ==
    /\ call[c] = "force" /\ isStarted
    /\ stopped' = TRUE
    /\ call' = [call EXCEPT ![c] = "forced"]
    /\ UNCHANGED << isStarted, work, ops, container, started, threads, calm, quiet, asked >>

StopReturns(c) ==
    /\ call[c] \in Stopping /\ ~isStarted
    /\ call' = [call EXCEPT ![c] = "idle"]
    /\ quiet' = TRUE
    /\ UNCHANGED << isStarted, io, container, started, threads, calm, asked >>

Run(r) == Test(r) \/ Reset(r) \/ StartThem(r) \/ Spawn(r) \/ RunReturns(r) \/ Join(r)
Call(c) == StartReturns(c) \/ GiveUp(c) \/ ForceStop(c) \/ StopReturns(c)

Next ==
    \/ \E s \in Services : registerService(s) \/ stopService(s) \/ removeService(s)
    \/ clearAllServices
    \/ \E c \in Callers :
          \/ startAllServices(c, {})
          \/ \E s \in Services : startService(c, s)
          \/ \E m \in {"stop", "force"} : stopAllServices(c, m)
          \/ Call(c)
    \/ \E r \in Runners : Run(r) \/ Throw(r)
    \/ Begin \/ Complete

Spec == Init /\ [][Next]_vars

\* Threads are scheduled.  Operations need not complete: an accept may wait for ever.
FairSpec ==
    /\ Spec
    /\ \A r \in Runners : WF_vars(Run(r))
    /\ \A c \in Callers : WF_vars(Call(c))

--------------------------------------------------------------------------------
(***************************************************************************)
(* Properties.                                                             *)
(***************************************************************************)
\* The flag is set only while a runner is between setting and clearing it, and no
\* runner has more threads than it was asked for.
TypeOK ==
    /\ isStarted => \E r \in Runners : runner[r] \in {"running", "joining"}
    /\ \A r \in Runners :
          /\ runner[r] \in {"none", "spawned", "reset", "services", "flag", "running", "joining", "ended"}
          /\ extra[r] \in 0..(ThreadNum - 1)
    /\ ops \in 0..MaxOps
    /\ container \subseteq Services /\ started \subseteq Services /\ asked \subseteq Services
    /\ \A c \in Callers : call[c] \in Stopping \cup {"idle", "start"}

\* When a stop has returned no thread runs the io_service any more: its objects may
\* be destroyed.  Not so if two starts have each begun a runner, or one a new one.
StopWaits == (calm /\ quiet) =>
    \A r \in Runners : runner[r] \in Gone /\ extra[r] = 0

\* While the controller is started every service it was asked to start is, until
\* somebody stops it, whether the runner found it in the list or it came later.
AskedIsStarted == TypeOK /\ ((calm /\ isStarted) => asked \subseteq started)

\* forceStopAllServices returns, whatever is outstanding on the io_service.
ForceReturns == \A c \in Callers :
    (call[c] = "force") ~> (call[c] = "idle" \/ ~calm)
================================================================================

-------------------------- MODULE ServerLifecycleProofs --------------------------
(***************************************************************************)
(* Proofs about ServerLifecycle: its typing, and that a service which      *)
(* stop() has found running is silent when the wait in                     *)
(* stop_mdns_service is over.                                              *)
(***************************************************************************)
EXTENDS ServerLifecycle, TLAPS

(* Typing *)

\* No step of any thread leaves a flag, a pointer or a thread in a state that the
\* code does not have.
THEOREM LifecycleTyping == Spec => []TypeOK
  <1>1. Init => TypeOK
    BY DEF Init, TypeOK
  <1>2. TypeOK /\ [Next]_vars => TypeOK'
    <2> SUFFICES ASSUME TypeOK, [Next]_vars PROVE TypeOK'
      OBVIOUS
    <2> USE DEF TypeOK
    <2>1. CASE StartStep
      BY <2>1 DEF StartStep, LaunchMdns, GetLoop, RunReturns, ServerGoto, flags, stopVars
    <2>2. CASE MdnsStep \/ OpenFails \/ SelectFails
      BY <2>2 DEF MdnsStep, CreateService, RequestRun, SetRunning, OpenFails, Announce,
           LeaveLoop, SelectFails, Goodbye, ClearRunning, MdnsGoto, mdnsKeeps, flags,
           serverVars, stopVars
    <2>3. CASE CallStop \/ StopStep \/ TimeOut
      BY <2>3 DEF CallStop, StopStep, StopService, StopWaiting, CloseWebServer, TimeOut,
           StopGoto, stopKeeps, serverVars
    <2>4. CASE HandleThingMessage
      BY <2>4 DEF HandleThingMessage, flags, serverVars, stopVars
    <2>5. CASE UNCHANGED vars
      BY <2>5 DEF vars, flags, serverVars, stopVars
    <2>6. QED
      BY <2>1, <2>2, <2>3, <2>4, <2>5 DEF Next
  <1>3. QED
    BY <1>1, <1>2, PTL DEF Spec

---------------------------------------------------------------------------------
(* The end of the service *)

\* `running` is true exactly while service_mdns() is at work ...
RunningFollows == running <=> mdns \in {"opening", "serving", "leaving", "returning"}

\* ... and what was announced stands from the announcement to the goodbye.
AnnouncedFollows == announced <=> mdns \in {"serving", "leaving"}

\* A service that was caught running has left the phases in which it is not yet
\* running, and never comes back to them; when the wait is over it has ended.
CaughtEnds ==
    caughtRunning =>
        /\ stopping \in {"wait", "close", "returned"}
        /\ mdns \in {"opening", "serving", "leaving", "returning", "ended"}
        /\ stopping # "wait" => mdns = "ended"

\* There is no mDNS thread before start() launches it.
NotLaunched == server = "constructed" => mdns = "none"

\* The inductive invariant.
SilenceInv == TypeOK /\ NotLaunched /\ RunningFollows /\ AnnouncedFollows /\ CaughtEnds

\* The inductive invariant behind StoppedServiceIsSilent: the flags that stop()
\* polls say where the service is.
THEOREM LifecycleSilenceInvariant == Spec => []SilenceInv
  <1>1. Init => SilenceInv
    BY DEF Init, SilenceInv, TypeOK, NotLaunched, RunningFollows, AnnouncedFollows,
           CaughtEnds
  <1>2. SilenceInv /\ TypeOK' /\ [Next]_vars => SilenceInv'
    <2> SUFFICES ASSUME SilenceInv, TypeOK', [Next]_vars PROVE SilenceInv'
      OBVIOUS
    <2> USE DEF SilenceInv, NotLaunched, RunningFollows, AnnouncedFollows, CaughtEnds
    <2>1. CASE LaunchMdns
      BY <2>1 DEF LaunchMdns, ServerGoto, flags, stopVars
    <2>2. CASE GetLoop \/ RunReturns
      BY <2>2 DEF GetLoop, RunReturns, ServerGoto, flags, stopVars
    <2>3. CASE MdnsStep \/ OpenFails \/ SelectFails
      BY <2>3 DEF MdnsStep, CreateService, RequestRun, SetRunning, OpenFails, Announce,
           LeaveLoop, SelectFails, Goodbye, ClearRunning, MdnsGoto, mdnsKeeps, flags,
           serverVars, stopVars
    <2>4. CASE CallStop
      BY <2>4 DEF CallStop, StopGoto, stopKeeps, serverVars
    <2>5. CASE StopService
      BY <2>5 DEF StopService, StopGoto, stopKeeps, serverVars
    <2>6. CASE StopWaiting
      BY <2>6 DEF StopWaiting, StopGoto, stopKeeps, serverVars
    <2>7. CASE CloseWebServer \/ TimeOut
      BY <2>7 DEF CloseWebServer, TimeOut, StopGoto, stopKeeps, serverVars
    <2>8. CASE HandleThingMessage \/ UNCHANGED vars
      BY <2>8 DEF HandleThingMessage, vars, flags, serverVars, stopVars
    <2>9. QED
      BY <2>1, <2>2, <2>3, <2>4, <2>5, <2>6, <2>7, <2>8 DEF Next, StartStep, StopStep
  <1>3. QED
    BY <1>1, <1>2, LifecycleTyping, PTL DEF Spec

\* StoppedServiceIsSilent: when stop() closes the web server after it has found the
\* mDNS service running, the service has said goodbye and will not run again, in
\* every order of the steps of the four threads.
THEOREM LifecycleStoppedServiceIsSilent == Spec => []StoppedServiceIsSilent
  <1>1. SilenceInv => StoppedServiceIsSilent
    BY DEF SilenceInv, AnnouncedFollows, CaughtEnds, StoppedServiceIsSilent
  <1>2. QED
    BY <1>1, LifecycleSilenceInvariant, PTL

---------------------------------------------------------------------------------
(* The time-out *)

\* The time-out strikes while stop() waits, which then never ends, and cannot strike
\* for a service that was caught running: nobody requests a second run.
TimeOutInv ==
    /\ timeout_reached => stopping = "wait"
    /\ caughtRunning => ~timeout_reached /\ ~run_requested

\* stop_mdns_service: a stop() whose time-out has struck waits for ever, and it strikes
\* only when stop() has come before the mDNS thread was running and was overtaken by
\* it; a service that was running ends in time.
THEOREM TimeOutMeansOvertaken ==
    Spec => [](timeout_reached => stopping = "wait" /\ ~caughtRunning)
  <1>1. Init => TimeOutInv
    BY DEF Init, TimeOutInv
  <1>2. SilenceInv /\ TimeOutInv /\ [Next]_vars => TimeOutInv'
    <2> SUFFICES ASSUME SilenceInv, TimeOutInv, [Next]_vars PROVE TimeOutInv'
      OBVIOUS
    <2> USE DEF SilenceInv, CaughtEnds, TimeOutInv
    <2>1. CASE StartStep
      BY <2>1 DEF StartStep, LaunchMdns, GetLoop, RunReturns, flags, stopVars
    <2>2. CASE RequestRun
      BY <2>2 DEF RequestRun, MdnsGoto, mdnsKeeps, stopVars
    <2>3. CASE (MdnsStep /\ ~RequestRun) \/ OpenFails \/ SelectFails
      BY <2>3 DEF MdnsStep, CreateService, SetRunning, OpenFails, Announce, LeaveLoop,
           SelectFails, Goodbye, ClearRunning, mdnsKeeps, flags, stopVars
    <2>4. CASE CallStop \/ StopStep
      BY <2>4 DEF CallStop, StopStep, StopService, StopWaiting, CloseWebServer, StopGoto
    <2>5. CASE TimeOut
      BY <2>5 DEF TimeOut
    <2>6. CASE HandleThingMessage \/ UNCHANGED vars
      BY <2>6 DEF HandleThingMessage, vars, flags, stopVars
    <2>7. QED
      BY <2>1, <2>2, <2>3, <2>4, <2>5, <2>6 DEF Next
  <1>3. TimeOutInv => (timeout_reached => stopping = "wait" /\ ~caughtRunning)
    BY DEF TimeOutInv
  <1>4. QED
    BY <1>1, <1>2, <1>3, LifecycleSilenceInvariant, PTL DEF Spec
=================================================================================

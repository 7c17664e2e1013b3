---------------------------- MODULE ServerLifecycle -----------------------------
(***************************************************************************)
(* Starting and stopping a WebThingServer (server.hpp) and its MdnsService *)
(* (mdns.hpp). Four threads meet:                                          *)
(*   - the one that calls start() and stays in the event loop;             *)
(*   - the detached thread that start_mdns_service launches;               *)
(*   - the one that calls stop(), for example the tests' client thread;    *)
(*   - a sensor of the application, which may report a change of a         *)
(*     property as soon as the server is constructed.                      *)
(* They share the pointers webserver_loop and mdns_service and the flags   *)
(* run_requested and running, which are volatile but not atomic: a read is *)
(* taken to return the last value written. An operator commented "Mutant"  *)
(* is a plausible bug in the operator that follows it; Next uses none.     *)
(***************************************************************************)
EXTENDS Naturals

VARIABLES enable_mdns,      \* the builder's choice
          server,           \* where start() is
          webserver_loop,   \* "unset" until start() assigns it
          open,             \* does the web server hold its listening socket
          mdns,             \* where the thread of the mDNS service is
          mdns_service,     \* has mdns_service been assigned
          run_requested,
          running,
          announced,        \* the service is announced and no goodbye was sent
          stopping,         \* where stop() is
          timeout_reached,
          caughtRunning,    \* history: stop_service() was called while running
          notice            \* history: what became of the last property notice

serverVars == <<server, webserver_loop>>
flags == <<mdns_service, run_requested, running>>
stopVars == <<stopping, timeout_reached, caughtRunning>>
vars == <<enable_mdns, serverVars, open, mdns, flags, announced, stopVars, notice>>

\* The constructor has registered the routes, the observers of the things and
\* the listening socket. It has not initialised webserver_loop.
Init == /\ enable_mdns \in BOOLEAN
        /\ server = "constructed"
        /\ webserver_loop = "unset"
        /\ open = TRUE
        /\ mdns = "none"
        /\ mdns_service = FALSE
        /\ run_requested = FALSE
        /\ running = FALSE
        /\ announced = FALSE
        /\ stopping = "no"
        /\ timeout_reached = FALSE
        /\ caughtRunning = FALSE
        /\ notice = "none"

---------------------------------------------------------------------------------
(* start() *)

ServerGoto(from, to) == server = from /\ server' = to

\* if(enable_mdns) start_mdns_service(): a detached thread is launched.
LaunchMdns ==
    /\ ServerGoto("constructed", "launched")
    /\ mdns' = IF enable_mdns THEN "launched" ELSE mdns
    /\ UNCHANGED <<enable_mdns, webserver_loop, open, flags, announced, stopVars, notice>>

\* webserver_loop = uWS::Loop::get()
GetLoop ==
    /\ ServerGoto("launched", "looping")
    /\ webserver_loop' = "set"
    /\ UNCHANGED <<enable_mdns, open, mdns, flags, announced, stopVars, notice>>

\* Mutant: start() gives its loop back when it returns.
RunReturnsAndFrees ==
    /\ ~open
    /\ ServerGoto("looping", "returned")
    /\ webserver_loop' = "freed"
    /\ UNCHANGED <<enable_mdns, open, mdns, flags, announced, stopVars, notice>>

\* web_server->run() returns when there is no socket left to serve.
RunReturns ==
    /\ ~open
    /\ ServerGoto("looping", "returned")
    /\ UNCHANGED <<enable_mdns, webserver_loop, open, mdns, flags, announced, stopVars, notice>>

StartStep == LaunchMdns \/ GetLoop \/ RunReturns

---------------------------------------------------------------------------------
(* The thread of the mDNS service *)

MdnsGoto(from, to) == mdns = from /\ mdns' = to

mdnsKeeps == <<enable_mdns, serverVars, open, stopVars, notice>>

\* mdns_service = std::make_unique<MdnsService>()
CreateService ==
    /\ MdnsGoto("launched", "created")
    /\ mdns_service' = TRUE
    /\ UNCHANGED <<run_requested, running, announced, mdnsKeeps>>

\* start_service: run_requested = true
RequestRun ==
    /\ MdnsGoto("created", "requested")
    /\ run_requested' = TRUE
    /\ UNCHANGED <<mdns_service, running, announced, mdnsKeeps>>

\* service_mdns: running = true
SetRunning ==
    /\ MdnsGoto("requested", "opening")
    /\ running' = TRUE
    /\ UNCHANGED <<mdns_service, run_requested, announced, mdnsKeeps>>

\* No socket could be opened: service_mdns returns -1.
OpenFails ==
    /\ MdnsGoto("opening", "returning")
    /\ UNCHANGED <<flags, announced, mdnsKeeps>>

\* The sockets are open, the records are built and announced.
Announce ==
    /\ MdnsGoto("opening", "serving")
    /\ announced' = TRUE
    /\ UNCHANGED <<flags, mdnsKeeps>>

\* while(run_requested) ends within one select() of 100 ms.
LeaveLoop ==
    /\ ~run_requested
    /\ MdnsGoto("serving", "leaving")
    /\ UNCHANGED <<flags, announced, mdnsKeeps>>

\* select() fails: break.
SelectFails ==
    /\ MdnsGoto("serving", "leaving")
    /\ UNCHANGED <<flags, announced, mdnsKeeps>>

\* The goodbye is sent, the sockets are closed.
Goodbye ==
    /\ MdnsGoto("leaving", "returning")
    /\ announced' = FALSE
    /\ UNCHANGED <<flags, mdnsKeeps>>

\* start_service: running = false
ClearRunning ==
    /\ MdnsGoto("returning", "ended")
    /\ running' = FALSE
    /\ UNCHANGED <<mdns_service, run_requested, announced, mdnsKeeps>>

MdnsStep == \/ CreateService
            \/ RequestRun
            \/ SetRunning
            \/ Announce
            \/ LeaveLoop
            \/ Goodbye
            \/ ClearRunning

---------------------------------------------------------------------------------
(* stop() *)

StopGoto(from, to) == stopping = from /\ stopping' = to

stopKeeps == <<enable_mdns, serverVars, mdns, mdns_service, running, announced, notice>>

\* stop(): if(enable_mdns) and if(mdns_service) decide where to go.
CallStop ==
    /\ StopGoto("no", IF enable_mdns /\ mdns_service THEN "request" ELSE "close")
    /\ UNCHANGED <<open, run_requested, timeout_reached, caughtRunning, stopKeeps>>

\* Mutant: stop_service() does not reset the flag.
StopServiceIdle ==
    /\ StopGoto("request", "wait")
    /\ caughtRunning' = running
    /\ UNCHANGED <<open, run_requested, timeout_reached, stopKeeps>>

\* mdns_service->stop_service(): run_requested = false
StopService ==
    /\ StopGoto("request", "wait")
    /\ run_requested' = FALSE
    /\ caughtRunning' = running
    /\ UNCHANGED <<open, timeout_reached, stopKeeps>>

\* 5000 ms have passed. A service that has seen the end of its run is given the
\* time to end: a select() takes at most 100 ms.
TimeOut ==
    /\ stopping = "wait"
    /\ run_requested
    /\ timeout_reached' = TRUE
    /\ UNCHANGED <<stopping, caughtRunning, open, run_requested, stopKeeps>>

\* Mutant: the loop waits for the request to be withdrawn, not for the end.
StopWaitingForRequest ==
    /\ ~run_requested
    /\ StopGoto("wait", "close")
    /\ UNCHANGED <<open, run_requested, timeout_reached, caughtRunning, stopKeeps>>

\* while(mdns_service->is_running() || timeout_reached) ends.
StopWaiting ==
    /\ ~(running \/ timeout_reached)
    /\ StopGoto("wait", "close")
    /\ UNCHANGED <<open, run_requested, timeout_reached, caughtRunning, stopKeeps>>

\* Mutant: nothing is closed while start() has not got its loop.
CloseIfLooping ==
    /\ StopGoto("close", "returned")
    /\ open' = (webserver_loop = "unset")
    /\ UNCHANGED <<run_requested, timeout_reached, caughtRunning, stopKeeps>>

\* web_server->close()
CloseWebServer ==
    /\ StopGoto("close", "returned")
    /\ open' = FALSE
    /\ UNCHANGED <<run_requested, timeout_reached, caughtRunning, stopKeeps>>

StopStep == StopService \/ StopWaiting \/ CloseWebServer

---------------------------------------------------------------------------------
(* A notice of a property, from a thread of the application *)

\* handle_thing_message: if(!webserver_loop) return; webserver_loop->defer(...).
\* The indeterminate value of the pointer before start() may read as null, and
\* the notice is dropped, or as an address where there is no loop.
HandleThingMessage ==
    /\ notice' \in IF webserver_loop = "set" THEN {"deferred"} ELSE {"dropped", "astray"}
    /\ UNCHANGED <<enable_mdns, serverVars, open, mdns, flags, announced, stopVars>>

Next == \/ StartStep
        \/ MdnsStep
        \/ OpenFails
        \/ SelectFails
        \/ CallStop
        \/ StopStep
        \/ TimeOut
        \/ HandleThingMessage

Spec == Init /\ [][Next]_vars

\* Each thread is scheduled; nothing obliges anyone to call stop(), a socket to
\* fail or a clock to run out.
FairSpec == Spec /\ WF_vars(StartStep) /\ WF_vars(MdnsStep) /\ WF_vars(StopStep)

---------------------------------------------------------------------------------
(* Properties *)

TypeOK ==
    /\ enable_mdns \in BOOLEAN
    /\ server \in {"constructed", "launched", "looping", "returned"}
    /\ webserver_loop \in {"unset", "set"}
    /\ mdns \in {"none", "launched", "created", "requested", "opening", "serving",
                 "leaving", "returning", "ended"}
    /\ \A flag \in {open, mdns_service, run_requested, running, announced,
                    timeout_reached, caughtRunning} : flag \in BOOLEAN
    /\ stopping \in {"no", "request", "wait", "close", "returned"}
    /\ notice \in {"none", "deferred", "dropped", "astray"}

\* When stop() has found the service running, it returns only after the service
\* has said goodbye and will not run again: nothing on the network still points
\* to the web server that stop() closes.
StoppedServiceIsSilent ==
    caughtRunning /\ stopping \in {"close", "returned"} => mdns = "ended" /\ ~announced

\* A stop() that finds the service running returns, and so does start().
RunningServerStops ==
    caughtRunning ~> stopping = "returned" /\ server = "returned"

\* Once stop() has returned, start() returns, whether or not it had got to its
\* event loop when stop() was called.
StartReturnsAfterStop == stopping = "returned" ~> server = "returned"

\* "server.stop(); ... server.start(); t.join();" (server_http_tests.cpp:32-36):
\* stop(), called from another thread at any time, returns. "timeout =
\* milliseconds(5000)" (server.hpp:564) says that it waits five seconds at most.
StopReturns == stopping # "no" ~> stopping = "returned"

\* "Must be initialized from thread that calls start()" (server.hpp:1049): a
\* notice is given to a loop that start() has got, or to none.
NoticesReachALoop == notice # "astray"
=================================================================================

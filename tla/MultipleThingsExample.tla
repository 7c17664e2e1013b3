-------------------------- MODULE MultipleThingsExample --------------------------
(***************************************************************************)
(* A program built on the library, examples/multiple-things.cpp, composed  *)
(* with ServerLifecycle: a humidity sensor polled by a thread of its own,  *)
(* a lamp whose fade action runs in another, and a SIGINT handler that     *)
(* stops both sensor and server. The signal goes to the main thread, which *)
(* is in start(): while the handler runs, start() does not go on, and      *)
(* neither does what the main thread was doing, such as logging under      *)
(* logger::log_mutex. SIGINT comes at most once. A second program, "test", *)
(* is that of the tests, as ServerLifecycle has it: stop() is called from  *)
(* another thread.                                                         *)
(* An operator commented "Mutant" is a plausible bug in the next one.      *)
(***************************************************************************)
EXTENDS ServerLifecycle, Integers

CONSTANTS Destination,  \* brightness to which clients ask the lamp to fade
          Level,        \* brightness that clients set by a PUT
          MaxSets       \* bound: how often they do

ASSUME LevelAssumption == Destination \cup Level \subseteq 0 .. 100 /\ MaxSets \in Nat

VARIABLES program,           \* "example" or "test"
          exited,            \* main() has returned
          logging,           \* the main thread holds logger::log_mutex
          handler,           \* where the handler of SIGINT is
          read_from_sensor,
          sensor,            \* where the sensor's thread is
          brightness,
          fade,              \* the fade action
          sets               \* history: PUTs of the brightness

mainVars == <<exited, logging, handler>>
sensorVars == <<read_from_sensor, sensor>>
lightVars == <<brightness, fade, sets>>
exampleVars == <<program, mainVars, sensorVars, lightVars>>
allVars == <<vars, exampleVars>>

\* The lamp, the sensor and the server are constructed, the sensor's thread runs, and
\* the main thread may be in the first line of start(), which logs.
ProgramInit ==
    /\ Init
    /\ program \in {"example", "test"}
    /\ program = "example" => enable_mdns
    /\ exited = FALSE
    /\ logging \in IF program = "example" THEN BOOLEAN ELSE {FALSE}
    /\ handler = "none"
    /\ read_from_sensor = TRUE
    /\ sensor = "sleeping"
    /\ brightness = 50
    /\ fade = [at |-> "none", interpolate |-> FALSE, destination |-> 0, from |-> 0,
               current |-> 0, inc |-> 0, cancel |-> FALSE]
    /\ sets = 0

---------------------------------------------------------------------------------
(* The main thread *)

\* It is neither interrupted nor in the logger.
MainRuns == handler \in {"none", "returned"} /\ ~logging

\* start(), which logs when run() has returned
MainStarts ==
    /\ MainRuns
    /\ StartStep
    /\ logging' = (server' = "returned")
    /\ UNCHANGED <<program, exited, handler, sensorVars, lightVars>>

\* logger::default_log_impl gives the mutex back.
MainLogged ==
    /\ handler \in {"none", "returned"}
    /\ logging
    /\ logging' = FALSE
    /\ UNCHANGED <<vars, program, exited, handler, sensorVars, lightVars>>

\* run_server() and main() return, which ends every thread.
Exit ==
    /\ MainRuns
    /\ server = "returned"
    /\ exited' = TRUE
    /\ UNCHANGED <<vars, program, logging, handler, sensorVars, lightVars>>

---------------------------------------------------------------------------------
(* The handler of SIGINT, on the main thread *)

HandlerGoto(from, to) == /\ handler = from
                         /\ handler' = to
                         /\ UNCHANGED <<program, exited, logging, lightVars>>

Interrupt == HandlerGoto("none", "entered") /\ UNCHANGED <<vars, sensorVars>>

\* Mutant: it waits for the thread first.
CancelAfterJoin ==
    /\ ~logging
    /\ HandlerGoto("entered", "joining")
    /\ read_from_sensor' = (sensor # "ended")
    /\ UNCHANGED <<vars, sensor>>

\* sensor.cancel(): it logs, which the mutex prevents for ever when the main thread
\* was interrupted with it, and resets the flag ...
CancelSensor ==
    /\ ~logging
    /\ HandlerGoto("entered", "joining")
    /\ read_from_sensor' = FALSE
    /\ UNCHANGED <<vars, sensor>>

\* ... and waits for the thread: runner.join().
JoinSensor ==
    /\ sensor = "ended"
    /\ HandlerGoto("joining", "stopping")
    /\ UNCHANGED <<vars, sensorVars>>

\* server.stop()
HandlerStops ==
    /\ handler = "stopping"
    /\ CallStop \/ StopStep
    /\ UNCHANGED exampleVars

HandlerReturns ==
    /\ stopping = "returned"
    /\ HandlerGoto("stopping", "returned")
    /\ UNCHANGED <<vars, sensorVars>>

MainThread == \/ MainStarts
              \/ MainLogged
              \/ Exit
              \/ CancelSensor
              \/ JoinSensor
              \/ HandlerStops
              \/ HandlerReturns

---------------------------------------------------------------------------------
(* The thread of the sensor *)

SensorGoto(from, to) == /\ sensor = from
                        /\ sensor' = to
                        /\ UNCHANGED <<program, mainVars, read_from_sensor, lightVars>>

SensorWakes ==
    /\ SensorGoto("sleeping", IF read_from_sensor THEN "reading" ELSE "ended")
    /\ UNCHANGED vars

\* It logs, then level->notify_of_external_update(new_level), and the test of the loop.
SensorReports ==
    /\ ~logging
    /\ SensorGoto("reading", IF read_from_sensor THEN "sleeping" ELSE "ended")
    /\ HandleThingMessage

SensorThread == SensorWakes \/ SensorReports

---------------------------------------------------------------------------------
(* FadeAction::perform_action, in the thread of the action *)

\* The division of C++, which truncates.
Divide(a, b) == IF a >= 0 THEN a \div b ELSE -((-a) \div b)

Steps(difference) == 1 + (IF difference >= 0 THEN difference ELSE -difference) \div 10
Inc(difference) == 1 + Divide(difference, Steps(difference))

NextStep == LET incremented == fade.current + fade.inc
                passed == IF fade.inc > 0 THEN incremented >= fade.destination
                                          ELSE incremented <= fade.destination
            IN  IF passed THEN fade.destination ELSE incremented

\* Thing::set_property: the forwarder of the value logs, and a notice comes when the
\* value is another one.
SetBrightness(level) ==
    /\ ~logging
    /\ brightness' = level
    /\ IF level # brightness THEN HandleThingMessage ELSE UNCHANGED vars

FadeGoto(from, to) == /\ fade.at = from
                      /\ fade' = [fade EXCEPT !.at = to]
                      /\ UNCHANGED <<program, mainVars, sensorVars, sets>>

FadeBegins ==
    /\ fade.at = "started"
    /\ fade' = IF fade.interpolate
               THEN [fade EXCEPT !.at = "testing", !.from = brightness, !.current = brightness,
                                 !.inc = Inc(fade.destination - brightness)]
               ELSE [fade EXCEPT !.at = "waiting", !.from = brightness]
    /\ UNCHANGED <<vars, program, mainVars, sensorVars, brightness, sets>>

\* while(!cancel && current != destination)
FadeTests ==
    /\ FadeGoto("testing", IF fade.cancel \/ fade.current = fade.destination
                           THEN "emitting" ELSE "sleeping")
    /\ UNCHANGED <<vars, brightness>>

FadeWakes ==
    /\ FadeGoto("sleeping", IF fade.cancel THEN "ended" ELSE "setting")
    /\ UNCHANGED <<vars, brightness>>

FadeSets == FadeGoto("setting", "reading") /\ SetBrightness(NextStep)

\* Mutant: the level is not read again.
FadeReadsNothing ==
    /\ FadeGoto("reading", "testing")
    /\ UNCHANGED <<vars, brightness>>

\* current = *get_property<int>("brightness")
FadeReads ==
    /\ fade.at = "reading"
    /\ fade' = [fade EXCEPT !.at = "testing", !.current = brightness]
    /\ UNCHANGED <<vars, program, mainVars, sensorVars, brightness, sets>>

\* Without interpolation the destination is set after the duration.
FadeJumps == FadeGoto("waiting", "emitting") /\ SetBrightness(fade.destination)

\* emit_event(..., OverheatedEvent(...)), also of a fade that was cancelled in time. The
\* event logs.
FadeEmits ==
    /\ ~logging
    /\ FadeGoto("emitting", "ended")
    /\ HandleThingMessage
    /\ UNCHANGED brightness

FadeThread == \/ FadeBegins
              \/ FadeTests
              \/ FadeWakes
              \/ FadeSets
              \/ FadeReads
              \/ FadeJumps
              \/ FadeEmits

---------------------------------------------------------------------------------
(* Requests of clients, in the loop of the main thread. Each is logged.         *)

Request == /\ MainRuns
           /\ open
           /\ server = "looping"
           /\ logging' = TRUE
           /\ UNCHANGED <<program, exited, handler, sensorVars>>

\* A POST of the action: "Fade to ..."
RequestFade(destination, interpolate) ==
    /\ Request
    /\ fade.at = "none"
    /\ fade' = [fade EXCEPT !.at = "started", !.destination = destination,
                            !.interpolate = interpolate]
    /\ UNCHANGED <<vars, brightness, sets>>

\* A DELETE of the action: "Cancel fade instance ..."
CancelFade ==
    /\ Request
    /\ fade.at # "none" /\ ~fade.cancel
    /\ fade' = [fade EXCEPT !.cancel = TRUE]
    /\ UNCHANGED <<vars, brightness, sets>>

\* A PUT: "Brightness is now ...", in one step with the assignment that follows the line
PutBrightness(level) ==
    /\ Request
    /\ sets < MaxSets
    /\ sets' = sets + 1
    /\ SetBrightness(level)
    /\ UNCHANGED fade

---------------------------------------------------------------------------------
(* The thread of the mDNS service, whose first line is logged *)

MdnsThread ==
    /\ MdnsStep
    /\ mdns = "launched" => ~logging
    /\ UNCHANGED exampleVars

ExampleStep ==
    \/ MainThread
    \/ Interrupt
    \/ SensorThread
    \/ FadeThread
    \/ \E destination \in Destination, interpolate \in BOOLEAN :
          RequestFade(destination, interpolate)
    \/ CancelFade
    \/ \E level \in Level : PutBrightness(level)
    \/ MdnsThread
    \/ (OpenFails \/ SelectFails \/ TimeOut) /\ UNCHANGED exampleVars

\* The handler waits for the mutex that the main thread, which it interrupted, holds.
Hangs == handler = "entered" /\ logging

\* A program that has ended, and one that hangs, may stay as they are.
ProgramNext ==
    \/ program = "test" /\ Next /\ UNCHANGED exampleVars
    \/ program = "example" /\ ~exited /\ ExampleStep
    \/ (exited \/ Hangs) /\ UNCHANGED allVars

\* The fairness of ServerLifecycle, and each thread of the example is scheduled. No
\* one has to send requests or SIGINT.
ProgramSpec ==
    /\ ProgramInit /\ [][ProgramNext]_allVars
    /\ WF_allVars(program = "test" /\ StartStep /\ UNCHANGED exampleVars)
    /\ WF_allVars(program = "test" /\ StopStep /\ UNCHANGED exampleVars)
    /\ WF_allVars(~exited /\ MdnsThread)
    /\ WF_allVars(program = "example" /\ ~exited /\ MainThread)
    /\ WF_allVars(program = "example" /\ ~exited /\ SensorThread)
    /\ WF_allVars(program = "example" /\ ~exited /\ FadeThread)

---------------------------------------------------------------------------------
(* Properties *)

ProgramTypeOK ==
    /\ TypeOK
    /\ program \in {"example", "test"}
    /\ \A flag \in {exited, logging, read_from_sensor} : flag \in BOOLEAN
    /\ handler \in {"none", "entered", "joining", "stopping", "returned"}
    /\ sensor \in {"sleeping", "reading", "ended"}
    /\ brightness \in 0 .. 100
    /\ fade.at \in {"none", "started", "waiting", "testing", "sleeping", "setting",
                    "reading", "emitting", "ended"}
    /\ {fade.destination, fade.from, fade.current} \subseteq 0 .. 100
    /\ fade.inc \in Int
    /\ sets \in 0 .. MaxSets

\* Ctrl+C ends the program: the sensor's thread has ended, the service has said goodbye
\* and start() has returned, whatever fades, reports and requests are under way. There
\* are two exceptions. The signal may interrupt the main thread while it holds the mutex
\* that the handler needs in order to log; and it may find the service not yet running.
InterruptEndsProgram ==
    handler = "entered" /\ ~Hangs /\ running ~> exited /\ sensor = "ended" /\ ~announced

\* "Fade the lamp to a given level" (multiple-things.cpp:103): a fade ends, also when it
\* is cancelled and when a client sets the brightness meanwhile. There are two exceptions:
\* for a fade to the next lower level the increment is zero, and after a signal that
\* interrupted the main thread with the logger's mutex nobody can log any more.
FadeEnds ==
    fade.at # "none" ~>
        \/ exited
        \/ fade.at = "ended"
        \/ fade.interpolate /\ fade.destination = fade.from - 1
        \/ Hangs
=================================================================================

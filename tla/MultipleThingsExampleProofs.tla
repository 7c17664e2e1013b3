----------------------- MODULE MultipleThingsExampleProofs ------------------------
(***************************************************************************)
(* The programs of MultipleThingsExample use the server as ServerLifecycle *)
(* has it, whatever their own threads and the handler of SIGINT do: what   *)
(* is proved of the one holds in the other.                                *)
(***************************************************************************)
EXTENDS MultipleThingsExample, ServerLifecycleProofs

\* Each step of a program, one of the main thread, the handler, the sensor, the fade or
\* a client, takes one step of the server's life or none.
LEMMA ProgramStep == [ProgramNext]_allVars => [Next]_vars
<1> SUFFICES ASSUME [ProgramNext]_allVars PROVE [Next]_vars
  OBVIOUS
<1>1. CASE UNCHANGED allVars
  BY <1>1 DEF allVars
<1>2. CASE program = "test" /\ Next /\ UNCHANGED exampleVars
  BY <1>2
<1>3. CASE (exited \/ Hangs) /\ UNCHANGED allVars
  BY <1>3 DEF allVars
<1>4. ASSUME NEW level, SetBrightness(level) PROVE [Next]_vars
  BY <1>4 DEF SetBrightness, Next
<1>5. CASE ExampleStep
  <2>1. CASE MainThread
    BY <2>1 DEF MainThread, MainStarts, MainLogged, Exit, CancelSensor, JoinSensor,
                HandlerStops, HandlerReturns, Next
  <2>2. CASE Interrupt
    BY <2>2 DEF Interrupt
  <2>3. CASE SensorThread
    BY <2>3 DEF SensorThread, SensorWakes, SensorReports, Next
  <2>4. CASE FadeThread
    BY <2>4, <1>4 DEF FadeThread, FadeBegins, FadeTests, FadeWakes, FadeSets, FadeReads,
                      FadeJumps, FadeEmits, Next
  <2>5. CASE CancelFade
    BY <2>5 DEF CancelFade
  <2>6. ASSUME NEW destination \in Destination, NEW interpolate \in BOOLEAN,
               RequestFade(destination, interpolate)
        PROVE  [Next]_vars
    BY <2>6 DEF RequestFade
  <2>7. ASSUME NEW level \in Level, PutBrightness(level) PROVE [Next]_vars
    BY <2>7, <1>4 DEF PutBrightness
  <2>8. CASE MdnsThread
    BY <2>8 DEF MdnsThread, Next
  <2>9. CASE (OpenFails \/ SelectFails \/ TimeOut) /\ UNCHANGED exampleVars
    BY <2>9 DEF Next
  <2> QED
    BY <1>5, <2>1, <2>2, <2>3, <2>4, <2>5, <2>6, <2>7, <2>8, <2>9 DEF ExampleStep
<1> QED
  BY <1>1, <1>2, <1>3, <1>5 DEF ProgramNext

\* Both programs implement the specification of the server's life: neither the handler,
\* which calls stop() on the thread that is in start(), nor any other thread of theirs
\* makes the server do what ServerLifecycle does not allow.
THEOREM ProgramImplementsServer == ProgramSpec => Spec
<1>1. ProgramInit => Init
  BY DEF ProgramInit
<1> QED
  BY <1>1, ProgramStep, PTL DEF ProgramSpec, Spec

\* When stop(), called by the handler of SIGINT or by another thread, closes the web
\* server after it found the mDNS service running, the service is silent.
THEOREM ProgramStoppedServiceIsSilent == ProgramSpec => []StoppedServiceIsSilent
BY ProgramImplementsServer, LifecycleStoppedServiceIsSilent

---------------------------------------------------------------------------------
(* Typing of the programs' own state *)

\* The fade is one record; its levels are percentages and its increment any integer.
Fade == [at : {"none", "started", "waiting", "testing", "sleeping", "setting",
               "reading", "emitting", "ended"},
         interpolate : BOOLEAN, destination : 0 .. 100, from : 0 .. 100,
         current : 0 .. 100, inc : Int, cancel : BOOLEAN]

\* The invariant behind ProgramTypeOK.
ProgramInv ==
    /\ program \in {"example", "test"}
    /\ exited \in BOOLEAN /\ logging \in BOOLEAN /\ read_from_sensor \in BOOLEAN
    /\ handler \in {"none", "entered", "joining", "stopping", "returned"}
    /\ sensor \in {"sleeping", "reading", "ended"}
    /\ brightness \in 0 .. 100
    /\ fade \in Fade
    /\ sets \in 0 .. MaxSets

\* The increment of a fade over any difference is an integer: the divisor is not zero.
LEMMA IncIsInteger ==
    ASSUME NEW difference \in Int
    PROVE  Inc(difference) \in Int
<1> DEFINE size == IF difference >= 0 THEN difference ELSE -difference
           steps == 1 + size \div 10
<1>1. size \in Nat
  OBVIOUS
<1>2. steps \in Nat /\ steps > 0
  <2> HIDE DEF size
  <2>1. size \div 10 \in Nat
    BY <1>1
  <2> QED
    BY <2>1
<1>3. Steps(difference) = steps
  BY DEF Steps
<1>4. Divide(difference, steps) \in Int
  <2> HIDE DEF steps
  <2>1. CASE difference >= 0
    <3>1. difference \div steps \in Int
      BY <1>2
    <3> QED
      BY <2>1, <3>1 DEF Divide
  <2>2. CASE ~(difference >= 0)
    <3>1. (-difference) \div steps \in Int
      BY <1>2
    <3> QED
      BY <2>2, <3>1 DEF Divide
  <2> QED
    BY <2>1, <2>2
<1> HIDE DEF steps
<1> QED
  BY <1>3, <1>4 DEF Inc

\* A step of a fade never overshoots: the next level lies between the current one and
\* the destination, whatever the increment, and is a percentage.
LEMMA NextStepInRange ==
    ASSUME fade \in Fade
    PROVE  NextStep \in 0 .. 100
<1>1. /\ fade.destination \in 0 .. 100 /\ fade.current \in 0 .. 100 /\ fade.inc \in Int
  BY DEF Fade
<1> DEFINE d == fade.destination
           next == fade.current + fade.inc
<1>2. next \in Int /\ d \in 0 .. 100
  BY <1>1
<1>3. CASE fade.inc > 0
  <2>1. NextStep = IF next >= d THEN d ELSE next
    BY <1>3 DEF NextStep
  <2>2. next >= 0
    BY <1>1, <1>3
  <2> HIDE DEF next, d
  <2> QED
    BY <1>2, <2>1, <2>2
<1>4. CASE ~(fade.inc > 0)
  <2>1. NextStep = IF next <= d THEN d ELSE next
    BY <1>4 DEF NextStep
  <2>2. next <= 100
    BY <1>1, <1>4
  <2> HIDE DEF next, d
  <2> QED
    BY <1>2, <2>1, <2>2
<1> QED
  BY <1>3, <1>4

\* The thread of the fade keeps the types.
LEMMA FadeTypes ==
    ASSUME ProgramInv, FadeThread
    PROVE  ProgramInv'
<1>0. /\ fade \in Fade /\ brightness \in 0 .. 100
      /\ fade.destination \in 0 .. 100
  BY DEF ProgramInv, Fade
<1>1. CASE FadeBegins
  <2>1. Inc(fade.destination - brightness) \in Int
    <3>1. fade.destination - brightness \in Int
      BY <1>0
    <3> QED
      BY <3>1, IncIsInteger
  <2>2. fade' \in Fade
    BY ZenonT(60), <1>0, <1>1, <2>1 DEF FadeBegins, Fade
  <2> QED
    BY <1>1, <2>2 DEF FadeBegins, ProgramInv, mainVars, sensorVars
<1>2. ASSUME NEW from, NEW to \in {"testing", "sleeping", "setting", "reading", "emitting",
                                   "ended"},
             FadeGoto(from, to)
      PROVE  fade' \in Fade /\ UNCHANGED <<program, mainVars, sensorVars, sets>>
  BY <1>0, <1>2 DEF FadeGoto, Fade
<1>3. CASE FadeTests
  <2>1. fade' \in Fade /\ UNCHANGED <<program, mainVars, sensorVars, sets, brightness>>
    BY <1>2, <1>3 DEF FadeTests
  <2> QED
    BY <2>1 DEF ProgramInv, mainVars, sensorVars
<1>4. CASE FadeWakes
  <2>1. fade' \in Fade /\ UNCHANGED <<program, mainVars, sensorVars, sets, brightness>>
    BY <1>2, <1>4 DEF FadeWakes
  <2> QED
    BY <2>1 DEF ProgramInv, mainVars, sensorVars
<1>5. CASE FadeSets
  <2>1. fade' \in Fade /\ UNCHANGED <<program, mainVars, sensorVars, sets>>
    BY <1>2, <1>5 DEF FadeSets
  <2>2. brightness' \in 0 .. 100
    BY <1>0, <1>5, NextStepInRange DEF FadeSets, SetBrightness
  <2> QED
    BY <2>1, <2>2 DEF ProgramInv, mainVars, sensorVars
<1>6. CASE FadeReads
  <2>1. fade' \in Fade
    BY <1>0, <1>6 DEF FadeReads, Fade
  <2> QED
    BY <1>6, <2>1 DEF FadeReads, ProgramInv, mainVars, sensorVars
<1>7. CASE FadeJumps
  <2>1. fade' \in Fade /\ UNCHANGED <<program, mainVars, sensorVars, sets>>
    BY <1>2, <1>7 DEF FadeJumps
  <2>2. brightness' \in 0 .. 100
    BY <1>0, <1>7 DEF FadeJumps, SetBrightness
  <2> QED
    BY <2>1, <2>2 DEF ProgramInv, mainVars, sensorVars
<1>8. CASE FadeEmits
  <2>1. fade' \in Fade /\ UNCHANGED <<program, mainVars, sensorVars, sets, brightness>>
    BY <1>2, <1>8 DEF FadeEmits
  <2> QED
    BY <2>1 DEF ProgramInv, mainVars, sensorVars
<1> QED
  BY <1>1, <1>3, <1>4, <1>5, <1>6, <1>7, <1>8 DEF FadeThread

\* So do the requests of the clients.
LEMMA RequestTypes ==
    ASSUME ProgramInv,
           \/ \E destination \in Destination, interpolate \in BOOLEAN :
                 RequestFade(destination, interpolate)
           \/ CancelFade
           \/ \E level \in Level : PutBrightness(level)
    PROVE  ProgramInv'
<1>0. fade \in Fade /\ Destination \cup Level \subseteq 0 .. 100 /\ MaxSets \in Nat
  BY LevelAssumption DEF ProgramInv
<1>1. ASSUME NEW destination \in Destination, NEW interpolate \in BOOLEAN,
             RequestFade(destination, interpolate)
      PROVE  ProgramInv'
  <2>1. destination \in 0 .. 100
    BY <1>0
  <2>2. fade' \in Fade
    BY <1>0, <1>1, <2>1 DEF RequestFade, Fade
  <2> QED
    BY <1>1, <2>2 DEF RequestFade, Request, ProgramInv, sensorVars
<1>2. CASE CancelFade
  <2>1. fade' \in Fade
    BY <1>0, <1>2 DEF CancelFade, Fade
  <2> QED
    BY <1>2, <2>1 DEF CancelFade, Request, ProgramInv, sensorVars
<1>3. ASSUME NEW level \in Level, PutBrightness(level)
      PROVE  ProgramInv'
  <2>1. brightness' \in 0 .. 100
    BY <1>0, <1>3 DEF PutBrightness, SetBrightness
  <2>2. sets' \in 0 .. MaxSets
    BY <1>0, <1>3 DEF PutBrightness, ProgramInv
  <2> QED
    BY <1>3, <2>1, <2>2 DEF PutBrightness, Request, ProgramInv, sensorVars
<1> QED
  BY <1>1, <1>2, <1>3

\* Every variable of the programs keeps its type; in particular the brightness that a
\* fade computes stays a percentage, whatever clients set beside it.
THEOREM ProgramTyping == ProgramSpec => []ProgramTypeOK
<1>1. ProgramInit => ProgramInv
  <2> SUFFICES ASSUME ProgramInit
               PROVE  ProgramInv
    OBVIOUS
  <2>1. logging \in BOOLEAN
    BY DEF ProgramInit
  <2>2. fade \in Fade
    BY DEF ProgramInit, Fade
  <2>3. brightness \in 0 .. 100 /\ sets \in 0 .. MaxSets
    BY LevelAssumption DEF ProgramInit
  <2> QED
    BY <2>1, <2>2, <2>3 DEF ProgramInit, ProgramInv
<1>2. ProgramInv /\ [ProgramNext]_allVars => ProgramInv'
  <2> SUFFICES ASSUME ProgramInv, [ProgramNext]_allVars
               PROVE  ProgramInv'
    OBVIOUS
  <2>1. CASE UNCHANGED exampleVars
    BY <2>1 DEF ProgramInv, exampleVars, mainVars, sensorVars, lightVars
  <2>2. CASE MainThread
    <3>1. CASE MainStarts
      BY <3>1 DEF MainStarts, ProgramInv, sensorVars, lightVars
    <3>2. CASE MainLogged \/ Exit
      BY ZenonT(60), <3>2 DEF MainLogged, Exit, ProgramInv, sensorVars, lightVars
    <3>3. CASE CancelSensor \/ JoinSensor \/ HandlerReturns
      BY <3>3 DEF CancelSensor, JoinSensor, HandlerReturns, HandlerGoto, ProgramInv, sensorVars,
                  lightVars
    <3>4. CASE HandlerStops
      BY <2>1, <3>4 DEF HandlerStops
    <3> QED
      BY <2>2, <3>1, <3>2, <3>3, <3>4 DEF MainThread
  <2>3. CASE Interrupt
    BY <2>3 DEF Interrupt, HandlerGoto, ProgramInv, sensorVars, lightVars
  <2>4. CASE SensorThread
    BY <2>4 DEF SensorThread, SensorWakes, SensorReports, SensorGoto, ProgramInv, mainVars,
                lightVars
  <2>5. CASE FadeThread
    BY <2>5, FadeTypes
  <2>6. CASE MdnsThread
    BY <2>1, <2>6 DEF MdnsThread
  <2>7. CASE UNCHANGED allVars
    BY <2>1, <2>7 DEF allVars
  <2> QED
    BY <2>1, <2>2, <2>3, <2>4, <2>5, <2>6, <2>7, RequestTypes DEF ProgramNext, ExampleStep
<1>3. ProgramInv /\ TypeOK => ProgramTypeOK
  BY DEF ProgramInv, ProgramTypeOK, Fade
<1> QED
  BY <1>1, <1>2, <1>3, ProgramImplementsServer, LifecycleTyping, PTL DEF ProgramSpec
=================================================================================

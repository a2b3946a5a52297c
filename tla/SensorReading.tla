--------------------------- MODULE SensorReading ---------------------------
(***************************************************************************)
(* The measurements of the Sense HAT programs of RPi/: a thread powers the *)
(* pressure sensor P down and up, starts a one-shot measurement, polls     *)
(* until it is done and reads it, and so with the temperature sensor T.    *)
(* In rpi6.c, rpi7.c and withPi.cpp every connection thread that reaches   *)
(* sendData does both, and takes none of the two mutexes initialised for   *)
(* this; in rpi5.c one thread per sensor measures over and over under a    *)
(* mutex nobody else takes, which therefore is never busy; in rpi4.c main  *)
(* does it itself when a key says so.  Main, when it leaves its keyboard   *)
(* loop, powers the sensors down and closes them without waiting for       *)
(* anybody.  In withPi.cpp that main is a thread of a Qt program, whose    *)
(* window polls and reads the sensors every 5 seconds too.                 *)
(***************************************************************************)
EXTENDS Integers, SensorBus

CONSTANTS Threads,          \* the threads that measure
          WindowThreads     \* BOUND: those that do so next to the window of withPi.cpp
ASSUME NobodyAssumption == Nobody \notin Threads

Sensors == {"P", "T"}       \* behind pressure_fd and temperature_fd

(* The programs: is there a web thread, does a thread measure one sensor   *)
(* over and over, does main measure at a key, is there a window.           *)
rpi7   == [web |-> TRUE, loops |-> FALSE, keys |-> FALSE, window |-> FALSE]
rpi6   == rpi7
withPi == [rpi7 EXCEPT !.window = TRUE]
rpi5   == [rpi7 EXCEPT !.web = FALSE, !.loops = TRUE]
rpi4   == [rpi5 EXCEPT !.keys = TRUE]
Programs == {rpi4, rpi5, rpi6, rpi7, withPi}

VARIABLES
    program,        \* the program that runs
    process,        \* "running", "exited" (main returned), "interrupted" (SIGINT)
    is_run,         \* the flag main and the threads test
    mainPc,         \* main: "loop", then the steps of END
    webReturned,    \* webserverFunction has returned
    isOpen,         \* the sensors whose descriptor main has not closed
    sensor,         \* per sensor: its registers
    pc,             \* per thread: the next step of its measurement
    at,             \* per thread: the sensor it is at
    monitor,        \* PiWidget::monitor: "idle", "poll" or "read", and the sensor
    got,            \* history, per thread and sensor: what the read brought
    mixed,          \* history: <<t, s>>, s was written by another amid t's measurement
    rearmed         \* history: sensors powered up after main's power-down

main == <<program, process, is_run, mainPc, webReturned>>
thread == <<pc, at, monitor, got>>
vars == <<main, isOpen, sensor, thread, mixed, rearmed>>

Measuring == {"on", "start", "poll", "read"}

TypeOK ==
    /\ process \in {"running", "exited", "interrupted"}
    /\ is_run \in BOOLEAN
    /\ program \in Programs
    /\ mainPc \in {"loop", "offP", "closeP", "offT", "closeT", "return", "returned"}
    /\ webReturned \in BOOLEAN
    /\ isOpen \subseteq Sensors
    /\ sensor \in [Sensors -> Sensor(Threads)]
    /\ pc \in [Threads -> {"off", "done"} \union Measuring]
    /\ at \in [Threads -> Sensors]
    /\ monitor \in {"idle", "poll", "read"} \X Sensors
    /\ got \in [Threads -> [Sensors -> {"nothing", "own", "stale", "garbage"}]]
    /\ mixed \subseteq Threads \X Sensors
    /\ rearmed \subseteq Sensors

Init ==
    /\ program \in Programs
    /\ process = "running" /\ is_run = TRUE /\ mainPc = "loop" /\ webReturned = ~program.web
    /\ isOpen = Sensors
    /\ sensor = [s \in Sensors |-> Asleep]
    /\ pc = [t \in Threads |-> "off"]
    /\ at \in [Threads -> Sensors]
    /\ IF program.loops THEN \A t, u \in Threads : t # u => at[t] # at[u]
                        ELSE \A t \in Threads : at[t] = "P"
    /\ monitor = <<"idle", "P">>
    /\ got = [t \in Threads |-> [s \in Sensors |-> "nothing"]]
    /\ mixed = {}
    /\ rearmed = {}

Running == process = "running"

-----------------------------------------------------------------------------
(* The keyboard, the joystick and the web thread.                          *)

(* joystickFunction: KEY_ENTER *)
JoystickEnter ==
    /\ Running
    /\ is_run /\ ~program.keys
    /\ is_run' = FALSE
    /\ UNCHANGED <<program, process, mainPc, webReturned, isOpen, sensor, thread, mixed, rearmed>>

(* while(is_run) of webserverFunction ends, after a last accept. *)
WebReturn ==
    /\ Running
    /\ ~is_run /\ ~webReturned
    /\ webReturned' = TRUE
    /\ UNCHANGED <<program, process, is_run, mainPc, isOpen, sensor, thread, mixed, rearmed>>

(* 'q': pthread_kill(ptWebserver, SIGINT), where there is a web thread.    *)
(* Nobody handles SIGINT, so it ends the process unless that thread has    *)
(* already returned.  A main that measures itself sees no key meanwhile.   *)
KeyQuit ==
    /\ Running
    /\ mainPc = "loop"
    /\ program.keys => \A t \in Threads : pc[t] = "off"
    /\ IF webReturned
         THEN is_run' = FALSE /\ mainPc' = "offP" /\ UNCHANGED process
         ELSE process' = "interrupted" /\ UNCHANGED <<program, is_run, mainPc>>
    /\ UNCHANGED <<program, webReturned, isOpen, sensor, thread, mixed, rearmed>>

-----------------------------------------------------------------------------
(* main.                                                                   *)

(* The window is closed: app.exec() returns, and so does the Qt main.      *)
CloseWindow ==
    /\ Running
    /\ program.window
    /\ process' = "interrupted"
    /\ UNCHANGED <<program, is_run, mainPc, webReturned, isOpen, sensor, thread, mixed, rearmed>>

(* Mutant: main waits for the other threads before it cleans up. *)
LoopEndJoining ==
    /\ Running
    /\ mainPc = "loop" /\ ~is_run /\ webReturned
    /\ \A t \in Threads : pc[t] \in {"off", "done"}
    /\ mainPc' = "offP"
    /\ UNCHANGED <<program, process, is_run, webReturned, isOpen, sensor, thread, mixed, rearmed>>

LoopEnd ==
    /\ Running
    /\ mainPc = "loop" /\ ~is_run
    /\ mainPc' = "offP"
    /\ UNCHANGED <<program, process, is_run, webReturned, isOpen, sensor, thread, mixed, rearmed>>

OffPc(s) == IF s = "P" THEN "offP" ELSE "offT"
ClosePc(s) == IF s = "P" THEN "closeP" ELSE "closeT"

(* A register write by `writer` comes between the first write and the read *)
(* of every other thread that is measuring with this sensor.               *)
Disturbed(s, writer) ==
    {<<t, s>> : t \in {u \in Threads \ {writer} : at[u] = s /\ pc[u] \in Measuring}}

(* Mutant: each power-down is written after that device has been closed. *)
MainOffLate(s) ==
    /\ Running
    /\ mainPc = OffPc(s)
    /\ mainPc' = ClosePc(s)
    /\ UNCHANGED <<program, process, is_run, webReturned, isOpen, sensor, thread, mixed, rearmed>>

MainOff(s) ==
    /\ Running
    /\ mainPc = OffPc(s)
    /\ mainPc' = ClosePc(s)
    /\ \E r \in PoweredDown(sensor[s]) : sensor' = [sensor EXCEPT ![s] = r]
    /\ mixed' = mixed \union Disturbed(s, Nobody)
    /\ UNCHANGED <<program, process, is_run, webReturned, isOpen, thread, rearmed>>

MainClose(s) ==
    /\ Running
    /\ mainPc = ClosePc(s)
    /\ mainPc' = IF s = "P" THEN "offT" ELSE "return"
    /\ isOpen' = isOpen \ {s}
    /\ UNCHANGED <<program, process, is_run, webReturned, sensor, thread, mixed, rearmed>>

(* The mutexes are destroyed and main returns, which ends every thread;    *)
(* as a thread of the Qt program it only ends itself.                      *)
MainReturn ==
    /\ Running
    /\ mainPc = "return"
    /\ mainPc' = "returned"
    /\ process' = IF program.window THEN process ELSE "exited"
    /\ UNCHANGED <<program, is_run, webReturned, isOpen, sensor, thread, mixed, rearmed>>

-----------------------------------------------------------------------------
(* sendData: the three writes, then getPressure or getTemperature.  A      *)
(* write or read on a closed descriptor fails, or meets a socket that was  *)
(* given its number, and nobody looks at the result.                       *)

Step(t, from, to) == Running /\ pc[t] = from /\ pc' = [pc EXCEPT ![t] = to]

Write(t, results) ==
    LET s == at[t] IN
    /\ IF s \in isOpen
         THEN /\ \E r \in results : sensor' = [sensor EXCEPT ![s] = r]
              /\ mixed' = mixed \union Disturbed(s, t)
         ELSE UNCHANGED <<sensor, mixed>>
    /\ UNCHANGED <<main, isOpen, at, monitor, got>>

(* while(is_run) of rpi5's threads, the key of rpi4; always for a request. *)
MayMeasure(t) ==
    /\ program.loops => is_run
    /\ program.keys => \A u \in Threads : pc[u] = "off"
    /\ program.window => t \in WindowThreads

(* CTRL_REG1 = 0x00.  What t has measured before is nobody's from now on.  *)
PowerDown(t) ==
    /\ MayMeasure(t)
    /\ Step(t, "off", "on")
    /\ Write(t, PoweredDown(Forgotten(sensor[at[t]], t)))
    /\ UNCHANGED rearmed

(* Mutant: the sensor is not powered up again. *)
PowerUpMissing(t) ==
    /\ Step(t, "on", "start")
    /\ Write(t, {sensor[at[t]]})
    /\ UNCHANGED rearmed

(* CTRL_REG1 = 0x84 *)
PowerUp(t) ==
    /\ Step(t, "on", "start")
    /\ Write(t, {PoweredUp(sensor[at[t]])})
    /\ rearmed' = rearmed \union ({at[t]} \intersect {s \in isOpen : mainPc = ClosePc(s)})

(* CTRL_REG2 = 0x01 *)
Start(t) ==
    /\ Step(t, "start", "poll")
    /\ Write(t, {Started(sensor[at[t]], t)})
    /\ UNCHANGED rearmed

(* Mutant: the output registers are read without waiting for CTRL_REG2. *)
PollOnce(t) ==
    /\ Step(t, "poll", "read")
    /\ UNCHANGED <<main, isOpen, sensor, at, monitor, got, mixed, rearmed>>

(* do ... while(result != 0): left when CTRL_REG2 reads 0.  On a closed    *)
(* descriptor it reads -1, and the loop goes on for ever.                  *)
Poll(t) ==
    /\ Step(t, "poll", "read")
    /\ at[t] \in isOpen /\ ~sensor[at[t]].busy
    /\ UNCHANGED <<main, isOpen, sensor, at, monitor, got, mixed, rearmed>>

(* Mutant: the thread goes on to a third sensor. *)
ReadOutThird(t) ==
    LET s == at[t] IN
    /\ Step(t, "read", "off")
    /\ at' = [at EXCEPT ![t] = IF s = "P" THEN "T" ELSE "H"]
    /\ UNCHANGED <<main, isOpen, sensor, monitor, got, mixed, rearmed>>

(* The output registers are read and converted. *)
ReadOut(t) ==
    LET s == at[t] IN
    /\ Step(t, "read", IF program.loops \/ s = "P" THEN "off" ELSE "done")
    /\ at' = [at EXCEPT ![t] = IF program.loops THEN s ELSE "T"]
    /\ got' = [got EXCEPT ![t][s] = CASE s \notin isOpen -> "garbage"
                                      [] s \in isOpen /\ sensor[s].out = t -> "own"
                                      [] s \in isOpen /\ sensor[s].out # t -> "stale"]
    /\ UNCHANGED <<main, isOpen, sensor, monitor, mixed, rearmed>>

-----------------------------------------------------------------------------
(* PiWidget::monitor, called by a timer in the thread of the window: the   *)
(* same polls and reads, but nothing is started and nothing is locked.     *)
MonitorStep(from, to) == Running /\ monitor = from /\ monitor' = to

MonitorBegin == program.window /\ MonitorStep(<<"idle", "P">>, <<"poll", "P">>)
MonitorPoll(s) ==
    /\ MonitorStep(<<"poll", s>>, <<"read", s>>)
    /\ s \in isOpen /\ ~sensor[s].busy
MonitorRead(s) == MonitorStep(<<"read", s>>, IF s = "P" THEN <<"poll", "T">> ELSE <<"idle", "P">>)

Monitor ==
    /\ MonitorBegin \/ \E s \in Sensors : MonitorPoll(s) \/ MonitorRead(s)
    /\ UNCHANGED <<main, isOpen, sensor, pc, at, got, mixed, rearmed>>

-----------------------------------------------------------------------------
(* The hardware finishes a measurement. *)
Measure(s) ==
    /\ Running
    /\ CanFinish(sensor[s])
    /\ sensor' = [sensor EXCEPT ![s] = Finished(@)]
    /\ UNCHANGED <<main, isOpen, thread, mixed, rearmed>>

Main == LoopEnd \/ (\E s \in Sensors : MainOff(s) \/ MainClose(s)) \/ MainReturn
SendData(t) == PowerDown(t) \/ PowerUp(t) \/ Start(t) \/ Poll(t) \/ ReadOut(t)

Next == \/ JoystickEnter \/ WebReturn \/ KeyQuit \/ CloseWindow \/ Main \/ Monitor
        \/ (\E t \in Threads : SendData(t)) \/ (\E s \in Sensors : Measure(s))

Spec == Init /\ [][Next]_vars

(* The kernel runs main and every thread that can go on, and a powered     *)
(* sensor finishes what was started.  Nothing is assumed of the user.      *)
FairSpec == /\ Spec
            /\ WF_vars(Main) /\ WF_vars(Monitor)
            /\ \A t \in Threads : WF_vars(SendData(t))
            /\ \A s \in Sensors : WF_vars(Measure(s))

-----------------------------------------------------------------------------
(* Properties.                                                             *)

(* Nobody locks the sensors, so a thread may answer with a measurement     *)
(* that is not its own.  It does so only if another thread, or main's      *)
(* shutdown, wrote that sensor's registers between its own power-down and  *)
(* its read; and it reads nothing at all only once main closed the device. *)
UndisturbedMeasurementIsFresh ==
    \A t \in Threads, s \in Sensors :
        /\ got[t][s] = "stale" => <<t, s>> \in mixed
        /\ got[t][s] = "garbage" => s \notin isOpen

(* When main returns, a sensor is still powered only if a connection       *)
(* thread powered it up again after main's power-down write and before     *)
(* main's close of that device.                                            *)
SensorsOffUnlessRearmed ==
    mainPc = "returned" => \A s \in Sensors : sensor[s].on => s \in rearmed

(* Once is_run is FALSE main returns, and ends the process where it is not *)
(* a thread of the Qt program: it waits for no thread, not even for one    *)
(* that polls a closed device for ever.                                    *)
ShutdownCompletes == ~is_run ~> (~Running \/ (mainPc = "returned" /\ program.window))

(* While main keeps the devices open, no thread polls a sensor for ever,   *)
(* and neither does the window, although others power it down and start it *)
(* again without any lock.                                                 *)
MeasurementEnds ==
    /\ \A t \in Threads : pc[t] = "poll" ~> (pc[t] # "poll" \/ ~Running \/ mainPc # "loop")
    /\ \A s \in Sensors :
          monitor = <<"poll", s>> ~> (monitor # <<"poll", s>> \/ ~Running \/ mainPc # "loop")

-----------------------------------------------------------------------------
(* rpi7.c:197 "if the character read is q, the program ends" and :212      *)
(* "clean up the devices that are no longer used": however the user ends   *)
(* the program, no sensor is left powered.  The code does not do this.     *)
DevicesCleanedUp ==
    process \in {"exited", "interrupted"} => \A s \in Sensors : ~sensor[s].on
=============================================================================

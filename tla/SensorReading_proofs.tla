----------------------- MODULE SensorReading_proofs -----------------------
(***************************************************************************)
(* Proofs about SensorReading for every set of threads: what a thread      *)
(* reads is its own measurement unless it was disturbed, and main leaves   *)
(* no sensor powered unless a thread powered it up behind main's back.     *)
(***************************************************************************)
EXTENDS SensorReading, TLAPS

(* Where the measurement of an undisturbed thread is: in the sensor until  *)
(* CTRL_REG2 reads 0, in the output registers from then on.                *)
UnderWay(s, t) == sensor[s].busy /\ sensor[s].conv = t
Available(s, t) == ~sensor[s].busy /\ sensor[s].out = t

OwnMeasurement ==
    \A t \in Threads : at[t] \in isOpen /\ <<t, at[t]>> \notin mixed =>
        /\ pc[t] = "poll" => UnderWay(at[t], t) \/ Available(at[t], t)
        /\ pc[t] = "read" => Available(at[t], t)

(* Once main has written the power-down of s, only a rearmed s is powered; *)
(* once main has closed s, nobody can write it.                            *)
PastOff(s) == mainPc \in IF s = "P" THEN {"closeP", "offT", "closeT", "return", "returned"}
                                    ELSE {"closeT", "return", "returned"}
PastClose(s) == PastOff(s) /\ mainPc # ClosePc(s)

ShutdownInv ==
    /\ \A s \in Sensors : PastOff(s) /\ sensor[s].on => s \in rearmed
    /\ \A s \in Sensors : PastClose(s) => s \notin isOpen

IInv == TypeOK /\ OwnMeasurement /\ UndisturbedMeasurementIsFresh /\ ShutdownInv

-----------------------------------------------------------------------------
(* Every register operation yields a sensor again.                         *)
LEMMA SensorTypes ==
    ASSUME NEW r \in Sensor(Threads), NEW t \in Threads
    PROVE  /\ PoweredDown(r) \subseteq Sensor(Threads)
           /\ PoweredDown(Forgotten(r, t)) \subseteq Sensor(Threads)
           /\ PoweredUp(r) \in Sensor(Threads)
           /\ Started(r, t) \in Sensor(Threads)
           /\ Finished(r) \in Sensor(Threads)
  BY DEF Sensor, PoweredDown, Forgotten, PoweredUp, Started, Finished

(* What each register operation does, field by field.                      *)
LEMMA SensorFields ==
    ASSUME NEW r \in Sensor(Threads), NEW t \in Threads
    PROVE  /\ \A q \in PoweredDown(Forgotten(r, t)) : ~q.on
           /\ PoweredUp(r).on
           /\ Started(r, t).on = r.on /\ Started(r, t).busy /\ Started(r, t).conv = t
           /\ Finished(r).on = r.on /\ ~Finished(r).busy /\ Finished(r).out = r.conv
  BY DEF Sensor, PoweredDown, Forgotten, PoweredUp, Started, Finished

LEMMA TypeStep == TypeOK /\ [Next]_vars => TypeOK'
  <1> SUFFICES ASSUME TypeOK, [Next]_vars PROVE TypeOK'
    OBVIOUS
  <1> USE DEF main, thread
  <1>1. CASE JoystickEnter
    BY <1>1 DEF JoystickEnter, TypeOK
  <1>2. CASE WebReturn
    BY <1>2 DEF WebReturn, TypeOK
  <1>3. CASE KeyQuit
    BY <1>3 DEF KeyQuit, TypeOK
  <1>4. CASE LoopEnd
    BY <1>4 DEF LoopEnd, TypeOK
  <1>5. ASSUME NEW s \in Sensors, MainOff(s) PROVE TypeOK'
    <2>1. sensor[s] \in Sensor(Threads)
      BY DEF TypeOK
    <2>2. sensor' \in [Sensors -> Sensor(Threads)]
      <3>1. PoweredDown(sensor[s]) \subseteq Sensor(Threads)
        BY <2>1 DEF Sensor, PoweredDown
      <3>2. QED
        BY <1>5, <3>1 DEF MainOff, TypeOK
    <2>3. Disturbed(s, Nobody) \subseteq Threads \X Sensors
      BY DEF Disturbed
    <2>4. mainPc' \in {"closeP", "closeT"}
      BY <1>5 DEF MainOff, ClosePc
    <2>5. QED
      BY <1>5, <2>2, <2>3, <2>4 DEF MainOff, TypeOK
  <1>6. ASSUME NEW s \in Sensors, MainClose(s) PROVE TypeOK'
    BY <1>6 DEF MainClose, TypeOK
  <1>7. CASE MainReturn
    BY <1>7 DEF MainReturn, TypeOK
  <1>8. ASSUME NEW t \in Threads, SendData(t) PROVE TypeOK'
    <2>0. at[t] \in Sensors /\ sensor[at[t]] \in Sensor(Threads)
      BY DEF TypeOK
    <2>1. ASSUME NEW results \in SUBSET Sensor(Threads), NEW a, NEW b \in {"off", "done"} \union Measuring,
                 Step(t, a, b), Write(t, results), rearmed' \subseteq Sensors
          PROVE  TypeOK'
      <3>1. pc' \in [Threads -> {"off", "done"} \union Measuring]
        BY <2>1 DEF Step, TypeOK
      <3>2. sensor' \in [Sensors -> Sensor(Threads)]
        BY <2>0, <2>1 DEF Write, TypeOK
      <3>3. mixed' \subseteq Threads \X Sensors
        BY <2>0, <2>1 DEF Write, TypeOK, Disturbed
      <3>4. QED
        BY <2>1, <3>1, <3>2, <3>3 DEF Write, TypeOK
    <2>2. CASE PowerDown(t)
      BY <2>0, <2>1, <2>2, SensorTypes DEF PowerDown, TypeOK, Measuring
    <2>3. CASE PowerUp(t)
      <3>1. rearmed' \subseteq Sensors
        BY <2>0, <2>3 DEF PowerUp, TypeOK
      <3>2. QED
        BY <2>0, <2>1, <2>3, <3>1, SensorTypes DEF PowerUp, Measuring
    <2>4. CASE Start(t)
      BY <2>0, <2>1, <2>4, SensorTypes DEF Start, TypeOK, Measuring
    <2>5. CASE Poll(t)
      BY <2>5 DEF Poll, Step, TypeOK, Measuring
    <2>6. CASE ReadOut(t)
      <3>1. pc' \in [Threads -> {"off", "done"} \union Measuring]
        BY <2>6 DEF ReadOut, Step, TypeOK
      <3>2. at' \in [Threads -> Sensors]
        BY <2>6 DEF ReadOut, TypeOK, Sensors
      <3>3. got' \in [Threads -> [Sensors -> {"nothing", "own", "stale", "garbage"}]]
        BY <2>0, <2>6 DEF ReadOut, TypeOK
      <3>4. QED
        BY <2>6, <3>1, <3>2, <3>3 DEF ReadOut, TypeOK
    <2>7. QED
      BY <1>8, <2>2, <2>3, <2>4, <2>5, <2>6 DEF SendData
  <1>9. ASSUME NEW s \in Sensors, Measure(s) PROVE TypeOK'
    <2>1. Finished(sensor[s]) \in Sensor(Threads)
      <3>1. sensor[s] \in Sensor(Threads)
        BY DEF TypeOK
      <3>2. QED
        BY <3>1 DEF Finished, Sensor
    <2>2. QED
      BY <1>9, <2>1 DEF Measure, TypeOK
  <1>10. CASE CloseWindow
    BY <1>10 DEF CloseWindow, TypeOK
  <1>11. CASE Monitor
    <2>1. monitor' \in {"idle", "poll", "read"} \X Sensors
      BY <1>11 DEF Monitor, MonitorBegin, MonitorPoll, MonitorRead, MonitorStep, Sensors
    <2>2. QED
      BY <1>11, <2>1 DEF Monitor, TypeOK
  <1>12. CASE UNCHANGED vars
    BY <1>12 DEF vars, TypeOK
  <1>13. QED
    BY <1>1, <1>2, <1>3, <1>4, <1>5, <1>6, <1>7, <1>8, <1>9, <1>10, <1>11, <1>12 DEF Next, Main

LEMMA TypeInit == Init => TypeOK
  <1> SUFFICES ASSUME Init PROVE TypeOK
    OBVIOUS
  <1>1. Asleep \in Sensor(Threads)
    BY DEF Asleep, Sensor
  <1>2. sensor \in [Sensors -> Sensor(Threads)]
    BY <1>1 DEF Init
  <1>3. at \in [Threads -> Sensors]
    BY DEF Init, Sensors
  <1>4. got \in [Threads -> [Sensors -> {"nothing", "own", "stale", "garbage"}]]
    BY DEF Init
  <1>5. monitor \in {"idle", "poll", "read"} \X Sensors
    BY DEF Init, Sensors
  <1>6. webReturned \in BOOLEAN
    BY DEF Init, Programs, rpi4, rpi5, rpi6, rpi7, withPi
  <1>7. QED
    BY <1>2, <1>3, <1>4, <1>5, <1>6 DEF Init, TypeOK

(* Every variable keeps the type TypeOK gives it, whatever the threads.    *)
THEOREM TypeCorrect == Spec => []TypeOK
  BY TypeInit, TypeStep, PTL DEF Spec

-----------------------------------------------------------------------------
(* A write by `writer` marks as mixed everybody else who measures there.   *)
LEMMA DisturbedIs ==
    ASSUME NEW s \in Sensors, NEW w, NEW t \in Threads, t # w, at[t] = s, pc[t] \in Measuring
    PROVE  <<t, s>> \in Disturbed(s, w)
  BY DEF Disturbed

LEMMA OwnStep == TypeOK /\ OwnMeasurement /\ [Next]_vars => OwnMeasurement'
  <1> SUFFICES ASSUME TypeOK, OwnMeasurement, [Next]_vars,
                      NEW t \in Threads, (at[t] \in isOpen /\ <<t, at[t]>> \notin mixed)'
               PROVE  (/\ pc[t] = "poll" => UnderWay(at[t], t) \/ Available(at[t], t)
                       /\ pc[t] = "read" => Available(at[t], t))'
    BY DEF OwnMeasurement
  <1> DEFINE Goal == (/\ pc[t] = "poll" => UnderWay(at[t], t) \/ Available(at[t], t)
                      /\ pc[t] = "read" => Available(at[t], t))'
  <1>n. t # Nobody
    BY NobodyAssumption
  <1>o. at[t] \in Sensors /\ sensor[at[t]] \in Sensor(Threads)
    BY DEF TypeOK
  <1>s. ASSUME UNCHANGED <<sensor, pc, at>>, isOpen' \subseteq isOpen, mixed \subseteq mixed'
        PROVE  Goal
    BY <1>s DEF OwnMeasurement, UnderWay, Available
  <1>1. ASSUME NEW s \in Sensors, MainOff(s) PROVE Goal
    <2>1. CASE at[t] = s /\ pc[t] \in Measuring
      BY <1>1, <1>n, <2>1, DisturbedIs DEF MainOff, thread
    <2>2. CASE at[t] # s
      BY <1>1, <2>2 DEF MainOff, thread, OwnMeasurement, UnderWay, Available, TypeOK
    <2>3. CASE pc[t] \notin Measuring
      BY <1>1, <2>3 DEF MainOff, thread, Measuring
    <2>4. QED
      BY <2>1, <2>2, <2>3
  <1>2. ASSUME NEW s \in Sensors, MainClose(s) PROVE Goal
    BY <1>s, <1>2 DEF MainClose, thread
  <1>3. CASE JoystickEnter \/ WebReturn \/ KeyQuit \/ CloseWindow \/ LoopEnd \/ MainReturn \/ Monitor
    BY <1>s, <1>3 DEF JoystickEnter, WebReturn, KeyQuit, CloseWindow, LoopEnd, MainReturn, Monitor, thread
  <1>4. ASSUME NEW u \in Threads \ {t}, SendData(u) PROVE Goal
    <2>0. at[u] \in Sensors
      BY DEF TypeOK
    <2>1. ASSUME NEW results, NEW a, NEW b, Step(u, a, b), Write(u, results) PROVE Goal
      <3>1. UNCHANGED <<at, isOpen>> /\ pc'[t] = pc[t] /\ mixed \subseteq mixed'
        BY <1>4, <2>1 DEF Write, Step, TypeOK
      <3>2. CASE at[u] \notin isOpen
        BY <2>1, <3>1, <3>2 DEF Write, OwnMeasurement, UnderWay, Available
      <3>3. CASE at[u] \in isOpen /\ at[t] = at[u] /\ pc[t] \in Measuring
        BY <1>4, <2>0, <2>1, <3>1, <3>3, DisturbedIs DEF Write
      <3>4. CASE at[u] \in isOpen /\ at[t] # at[u]
        <4>1. sensor'[at[t]] = sensor[at[t]]
          BY <1>o, <2>1, <3>4 DEF Write, TypeOK
        <4>2. QED
          BY <3>1, <4>1 DEF OwnMeasurement, UnderWay, Available
      <3>5. CASE pc[t] \notin Measuring
        BY <3>1, <3>5 DEF Measuring
      <3>6. QED
        BY <3>2, <3>3, <3>4, <3>5
    <2>2. CASE PowerDown(u) \/ PowerUp(u) \/ Start(u)
      BY <2>1, <2>2 DEF PowerDown, PowerUp, Start
    <2>3. CASE Poll(u)
      BY <1>4, <2>3 DEF Poll, Step, OwnMeasurement, UnderWay, Available, TypeOK
    <2>4. CASE ReadOut(u)
      <3>1. UNCHANGED <<sensor, isOpen, mixed>> /\ pc'[t] = pc[t] /\ at'[t] = at[t]
        BY <1>4, <2>4 DEF ReadOut, Step, TypeOK
      <3>2. QED
        BY <3>1 DEF OwnMeasurement, UnderWay, Available
    <2>5. QED
      BY <1>4, <2>2, <2>3, <2>4 DEF SendData
  <1>5. CASE SendData(t)
    <2>1. CASE PowerDown(t)
      BY <2>1 DEF PowerDown, Step, TypeOK
    <2>2. CASE PowerUp(t)
      BY <2>2 DEF PowerUp, Step, TypeOK
    <2>3. CASE Start(t)
      <3>1. UNCHANGED <<at, isOpen>> /\ pc'[t] = "poll"
        BY <2>3 DEF Start, Step, Write, TypeOK
      <3>2. sensor'[at[t]] = Started(sensor[at[t]], t)
        BY <1>o, <2>3, <3>1 DEF Start, Write, TypeOK
      <3>3. QED
        BY <1>o, <3>1, <3>2, SensorFields DEF UnderWay
    <2>4. CASE Poll(t)
      <3>1. UNCHANGED <<at, isOpen, mixed, sensor>> /\ pc'[t] = "read" /\ pc[t] = "poll"
        BY <2>4 DEF Poll, Step, TypeOK
      <3>2. ~sensor[at[t]].busy
        BY <2>4 DEF Poll
      <3>3. QED
        BY <3>1, <3>2 DEF OwnMeasurement, UnderWay, Available
    <2>5. CASE ReadOut(t)
      BY <2>5 DEF ReadOut, Step, TypeOK
    <2>6. QED
      BY <1>5, <2>1, <2>2, <2>3, <2>4, <2>5 DEF SendData
  <1>6. ASSUME NEW s \in Sensors, Measure(s) PROVE Goal
    <2>1. UNCHANGED <<pc, at, isOpen, mixed>>
      BY <1>6 DEF Measure, thread
    <2>2. CASE at[t] # s
      BY <1>6, <2>1, <2>2 DEF Measure, OwnMeasurement, UnderWay, Available, TypeOK
    <2>3. CASE at[t] = s
      <3>1. sensor[s].busy /\ sensor'[s] = Finished(sensor[s])
        BY <1>6 DEF Measure, CanFinish, TypeOK
      <3>2. ~sensor'[s].busy /\ sensor'[s].out = sensor[s].conv
        BY <1>o, <2>3, <3>1, SensorFields
      <3>3. QED
        BY <2>1, <2>3, <3>1, <3>2 DEF OwnMeasurement, UnderWay, Available
    <2>4. QED
      BY <2>2, <2>3
  <1>7. CASE UNCHANGED vars
    BY <1>s, <1>7 DEF vars, thread
  <1>8. QED
    BY <1>1, <1>2, <1>3, <1>4, <1>5, <1>6, <1>7 DEF Next, Main

LEMMA FreshStep ==
    TypeOK /\ OwnMeasurement /\ UndisturbedMeasurementIsFresh /\ [Next]_vars
        => UndisturbedMeasurementIsFresh'
  <1> SUFFICES ASSUME TypeOK, OwnMeasurement, UndisturbedMeasurementIsFresh, [Next]_vars,
                      NEW t \in Threads, NEW s \in Sensors
               PROVE  (/\ got[t][s] = "stale" => <<t, s>> \in mixed
                       /\ got[t][s] = "garbage" => s \notin isOpen)'
    BY DEF UndisturbedMeasurementIsFresh
  <1>1. isOpen' \subseteq isOpen /\ mixed \subseteq mixed'
    <2>1. ASSUME NEW r \in Sensors, MainOff(r) \/ MainClose(r) \/ Measure(r)
          PROVE  isOpen' \subseteq isOpen /\ mixed \subseteq mixed'
      BY <2>1 DEF MainOff, MainClose, Measure
    <2>2. ASSUME NEW u \in Threads, SendData(u)
          PROVE  isOpen' \subseteq isOpen /\ mixed \subseteq mixed'
      BY <2>2 DEF SendData, PowerDown, PowerUp, Start, Poll, ReadOut, Write
    <2>3. CASE JoystickEnter \/ WebReturn \/ KeyQuit \/ CloseWindow \/ LoopEnd \/ MainReturn \/ Monitor
      BY <2>3 DEF JoystickEnter, WebReturn, KeyQuit, CloseWindow, LoopEnd, MainReturn, Monitor
    <2>4. CASE UNCHANGED vars
      BY <2>4 DEF vars
    <2>5. QED
      BY <2>1, <2>2, <2>3, <2>4 DEF Next, Main
  <1>2. CASE got'[t][s] = got[t][s]
    BY <1>1, <1>2 DEF UndisturbedMeasurementIsFresh
  <1>3. CASE ReadOut(t) /\ s = at[t]
    <2>1. UNCHANGED <<isOpen, sensor, mixed>> /\ pc[t] = "read"
      BY <1>3 DEF ReadOut, Step
    <2>2. got'[t][s] = CASE s \notin isOpen -> "garbage"
                         [] s \in isOpen /\ sensor[s].out = t -> "own"
                         [] s \in isOpen /\ sensor[s].out # t -> "stale"
      BY <1>3 DEF ReadOut, TypeOK
    <2>3. got'[t][s] = "garbage" => s \notin isOpen
      BY <2>2
    <2>4. got'[t][s] = "stale" => s \in isOpen /\ sensor[s].out # t
      BY <2>2
    <2>5. s \in isOpen /\ <<t, s>> \notin mixed => sensor[s].out = t
      BY <1>3, <2>1 DEF OwnMeasurement, Available
    <2>6. QED
      BY <2>1, <2>3, <2>4, <2>5
  <1>4. got'[t][s] = got[t][s] \/ (ReadOut(t) /\ s = at[t])
    <2>1. ASSUME NEW u \in Threads, ReadOut(u)
          PROVE  got'[t][s] = got[t][s] \/ (ReadOut(t) /\ s = at[t])
      <3>1. CASE u = t /\ s = at[t]
        BY <2>1, <3>1
      <3>2. CASE u # t \/ s # at[t]
        BY <2>1, <3>2 DEF ReadOut, TypeOK
      <3>3. QED
        BY <3>1, <3>2
    <2>2. ASSUME NEW u \in Threads, PowerDown(u) \/ PowerUp(u) \/ Start(u) \/ Poll(u)
          PROVE  got' = got
      BY <2>2 DEF PowerDown, PowerUp, Start, Poll, Write
    <2>3. ASSUME NEW r \in Sensors, MainOff(r) \/ MainClose(r) \/ Measure(r) PROVE got' = got
      BY <2>3 DEF MainOff, MainClose, Measure, thread
    <2>4. CASE JoystickEnter \/ WebReturn \/ KeyQuit \/ CloseWindow \/ LoopEnd \/ MainReturn \/ Monitor
      BY <2>4 DEF JoystickEnter, WebReturn, KeyQuit, CloseWindow, LoopEnd, MainReturn, Monitor, thread
    <2>5. CASE UNCHANGED vars
      BY <2>5 DEF vars, thread
    <2>6. QED
      BY <2>1, <2>2, <2>3, <2>4, <2>5 DEF Next, Main, SendData
  <1>5. QED
    BY <1>2, <1>3, <1>4

-----------------------------------------------------------------------------
LEMMA ShutdownStep == TypeOK /\ ShutdownInv /\ [Next]_vars => ShutdownInv'
  <1> SUFFICES ASSUME TypeOK, ShutdownInv, [Next]_vars PROVE ShutdownInv'
    OBVIOUS
  <1> USE DEF PastOff, PastClose, ClosePc, OffPc
  <1>s. ASSUME UNCHANGED <<sensor, isOpen, rearmed, mainPc>> PROVE ShutdownInv'
    BY <1>s DEF ShutdownInv
  <1>1. CASE JoystickEnter \/ WebReturn \/ CloseWindow \/ Monitor
    BY <1>s, <1>1 DEF JoystickEnter, WebReturn, CloseWindow, Monitor, main
  <1>2. CASE KeyQuit \/ LoopEnd
    <2>1. UNCHANGED <<sensor, isOpen, rearmed>>
      BY <1>2 DEF KeyQuit, LoopEnd
    <2>2. mainPc' \in {"loop", "offP"}
      BY <1>2 DEF KeyQuit, LoopEnd
    <2>3. QED
      BY <2>1, <2>2 DEF ShutdownInv
  <1>3. ASSUME NEW s \in Sensors, MainOff(s) PROVE ShutdownInv'
    <2>1. ~sensor'[s].on
      <3>1. sensor[s] \in Sensor(Threads)
        BY DEF TypeOK
      <3>2. \A q \in PoweredDown(sensor[s]) : ~q.on
        BY <3>1 DEF PoweredDown, Sensor
      <3>3. PICK q \in PoweredDown(sensor[s]) : sensor' = [sensor EXCEPT ![s] = q]
        BY <1>3 DEF MainOff
      <3>4. sensor'[s] = q
        BY <3>3 DEF TypeOK
      <3>5. QED
        BY <3>2, <3>4
    <2>2. UNCHANGED <<isOpen, rearmed>>
      BY <1>3 DEF MainOff
    <2>3. \A r \in Sensors \ {s} : sensor'[r] = sensor[r]
      BY <1>3 DEF MainOff, TypeOK
    <2>4. \A r \in Sensors \ {s} : (PastOff(r)' => PastOff(r)) /\ (PastClose(r)' => PastClose(r))
      BY <1>3 DEF MainOff, Sensors
    <2>5. ~PastClose(s)'
      BY <1>3 DEF MainOff, Sensors
    <2>6. QED
      BY <2>1, <2>2, <2>3, <2>4, <2>5 DEF ShutdownInv
  <1>4. ASSUME NEW s \in Sensors, MainClose(s) PROVE ShutdownInv'
    <2>1. UNCHANGED <<sensor, rearmed>> /\ isOpen' = isOpen \ {s}
      BY <1>4 DEF MainClose
    <2>2. \A r \in Sensors \ {s} : (PastOff(r)' => PastOff(r)) /\ (PastClose(r)' => PastClose(r))
      BY <1>4 DEF MainClose, Sensors
    <2>3. PastOff(s)
      BY <1>4 DEF MainClose, Sensors
    <2>4. QED
      BY <2>1, <2>2, <2>3 DEF ShutdownInv
  <1>5. CASE MainReturn
    BY <1>5 DEF MainReturn, ShutdownInv
  <1>6. ASSUME NEW t \in Threads, SendData(t) PROVE ShutdownInv'
    <2>0. at[t] \in Sensors /\ sensor[at[t]] \in Sensor(Threads)
      BY DEF TypeOK
    <2>1. UNCHANGED <<isOpen, mainPc>> /\ \A s \in Sensors \ {at[t]} : sensor'[s] = sensor[s]
      BY <1>6 DEF SendData, PowerDown, PowerUp, Start, Poll, ReadOut, Write, main, TypeOK
    <2>2. CASE PowerDown(t)
      <3>1. rearmed' = rearmed /\ (sensor'[at[t]].on => sensor[at[t]].on)
        BY <2>0, <2>2, SensorFields DEF PowerDown, Write, TypeOK
      <3>2. QED
        BY <2>0, <2>1, <3>1 DEF ShutdownInv
    <2>3. CASE PowerUp(t)
      <3>1. rearmed \subseteq rearmed'
        BY <2>3 DEF PowerUp
      <3>2. CASE at[t] \notin isOpen
        BY <2>0, <2>1, <2>3, <3>1, <3>2 DEF PowerUp, Write, ShutdownInv
      <3>3. CASE at[t] \in isOpen /\ PastOff(at[t])
        <4>1. mainPc = ClosePc(at[t])
          BY <2>0, <3>3 DEF ShutdownInv
        <4>2. at[t] \in rearmed'
          BY <2>3, <3>3, <4>1 DEF PowerUp
        <4>3. QED
          BY <2>0, <2>1, <3>1, <4>2 DEF ShutdownInv
      <3>4. CASE ~PastOff(at[t])
        BY <2>0, <2>1, <3>1, <3>4 DEF ShutdownInv
      <3>5. QED
        BY <3>2, <3>3, <3>4
    <2>4. CASE Start(t)
      <3>1. rearmed' = rearmed /\ sensor'[at[t]].on = sensor[at[t]].on
        BY <2>0, <2>4, SensorFields DEF Start, Write, TypeOK
      <3>2. QED
        BY <2>0, <2>1, <3>1 DEF ShutdownInv
    <2>5. CASE Poll(t) \/ ReadOut(t)
      BY <1>s, <2>5 DEF Poll, ReadOut, main
    <2>6. QED
      BY <1>6, <2>2, <2>3, <2>4, <2>5 DEF SendData
  <1>7. ASSUME NEW s \in Sensors, Measure(s) PROVE ShutdownInv'
    <2>1. UNCHANGED <<isOpen, mainPc, rearmed>>
      BY <1>7 DEF Measure, main
    <2>2. sensor'[s].on = sensor[s].on
      BY <1>7, SensorFields DEF Measure, TypeOK, Finished, Sensor
    <2>3. \A r \in Sensors \ {s} : sensor'[r] = sensor[r]
      BY <1>7 DEF Measure, TypeOK
    <2>4. QED
      BY <2>1, <2>2, <2>3 DEF ShutdownInv
  <1>8. CASE UNCHANGED vars
    BY <1>s, <1>8 DEF vars, main
  <1>9. QED
    BY <1>1, <1>2, <1>3, <1>4, <1>5, <1>6, <1>7, <1>8 DEF Next, Main

LEMMA InvariantHolds == Spec => []IInv
  <1>1. Init => IInv
    <2> SUFFICES ASSUME Init PROVE IInv
      OBVIOUS
    <2>1. OwnMeasurement
      BY DEF Init, OwnMeasurement
    <2>2. UndisturbedMeasurementIsFresh
      BY DEF Init, UndisturbedMeasurementIsFresh
    <2>3. ShutdownInv
      BY DEF Init, ShutdownInv, PastOff, PastClose
    <2>4. QED
      BY TypeInit, <2>1, <2>2, <2>3 DEF IInv
  <1>2. IInv /\ [Next]_vars => IInv'
    BY TypeStep, OwnStep, FreshStep, ShutdownStep DEF IInv
  <1>3. QED
    BY <1>1, <1>2, PTL DEF Spec

(* A thread answers with a measurement that is not its own only if another *)
(* wrote the sensor's registers amid its measurement, for any number of    *)
(* threads of any of the programs.                                         *)
THEOREM FreshCorrect == Spec => []UndisturbedMeasurementIsFresh
  BY InvariantHolds, PTL DEF IInv

(* When main returns, only a sensor that a thread powered up     *)
(* between main's power-down and main's close is still powered.            *)
THEOREM SensorsOffCorrect == Spec => []SensorsOffUnlessRearmed
  <1>1. IInv => SensorsOffUnlessRearmed
    BY DEF IInv, ShutdownInv, SensorsOffUnlessRearmed, PastOff
  <1>2. QED
    BY <1>1, InvariantHolds, PTL
=============================================================================

-------------------------- MODULE LedDriver_proofs --------------------------
(***************************************************************************)
(* Proofs about LedDriver for any set of programs: what the timer, the     *)
(* interrupt handler and the unlocked writers may rely on.                 *)
(***************************************************************************)
EXTENDS LedDriver, FiniteSetTheorems, TLAPS

(* TypeOK in two parts: the handlers' variables, and the calls'.            *)
HandlerTypes ==
    /\ kernel \in {"ok", "timer list corrupted", "BUG in add_timer", "signal to no task",
                  "no pid"}
    /\ led \in {0, 1} /\ ledflag \in {0, 1}
    /\ lock \in {"free", "timer", "isr"}
    /\ timer \in {"idle", "pending"}
    /\ cb \in {"idle", "try", "set", "rearm"}
    /\ isr \in {"idle", "try", "look", "on", "again", "signal", "off"}
    /\ cut \in BOOLEAN

CallTypes ==
    /\ msg \in Procs \union {Nobody}
    /\ task \in Procs \union {Nobody}
    /\ driver \in Drivers /\ tail \in BOOLEAN
    /\ pc \in [Procs -> {"start", "read", "wait", "dead"} \union InWrite]
    /\ cmd \in [Procs -> Procs \union {Nobody}]
    /\ blinks \subseteq Procs /\ overlap \subseteq Procs

Added == {"task", "read", "wait", "dead"}       \* gpio_write has been through add_timer
Commanded == {"del", "ledoff", "setup", "add", "ledon", "task"}

(* An armed or running timer has an owner: a program whose "1" went all    *)
(* the way to add_timer and that no "0" undid.                             *)
TimerInv ==
    /\ \A p \in Procs : pc[p] = "add" => p \in blinks
    /\ timer = "pending" \/ cb # "idle" => \E p \in blinks : pc[p] \in Added
    /\ IsFiniteSet(blinks)

(* What the two handlers hold, in the drivers that have a mutex: the same  *)
(* ones that have a timer.                                                 *)
LockInv ==
    /\ cb = "set" => lock = "timer"
    /\ driver.mutex /\ isr \in {"look", "on", "again", "signal", "off"} => lock = "isr"
    /\ timer = "pending" \/ cb # "idle" => driver.timer
    /\ \A p \in Procs : /\ pc[p] \in {"del", "setup", "add"} => driver.timer
                        /\ pc[p] = "ledon" => ~driver.timer

(* Two programs inside gpio_write know it of each other; a program that    *)
(* was never disturbed finds its own command in msg, and parsed it.        *)
WriteInv ==
    /\ \A p, q \in Procs : p # q /\ pc[p] \in InWrite /\ pc[q] \in InWrite => p \in overlap
    /\ \A p \in Procs \ overlap :
          /\ pc[p] \in {"copy", "parse"} => driver.signal \/ ~tail
          /\ pc[p] = "parse" => msg = p
          /\ pc[p] \in Commanded => cmd[p] = p

IInv == /\ TypeOK /\ TimerInv /\ LockInv /\ WriteInv
        /\ BlinkingGoesOn /\ TimerRuinedByTwo /\ PressActsOnWhatItSaw /\ AloneIsServed

-----------------------------------------------------------------------------
(* The five drivers have a timer exactly when they have the mutex.         *)
LEMMA DriverFacts ==
    ASSUME NEW d \in Drivers
    PROVE  /\ d.switch \in BOOLEAN /\ d.mutex \in BOOLEAN
           /\ d.timer \in BOOLEAN /\ d.signal \in BOOLEAN
           /\ d.mutex = d.timer
  <1> USE DEF Drivers, gpio_module, gpiofunction_module, gpioirq_module, gpiotimer_module,
              gpiosignal_module
  <1>1. CASE d = gpio_module
    BY <1>1
  <1>2. CASE d = gpioirq_module
    BY <1>2
  <1>3. CASE d = gpiotimer_module
    BY <1>3
  <1>4. CASE d = gpiosignal_module
    BY <1>4
  <1> QED BY <1>1, <1>2, <1>3, <1>4

LEMMA TypeParts == TypeOK <=> HandlerTypes /\ CallTypes
  BY Zenon DEF TypeOK, HandlerTypes, CallTypes

LEMMA InitIInv == Init => IInv
  <1> SUFFICES ASSUME Init PROVE IInv
    OBVIOUS
  <1> USE DEF Init
  <1>1. HandlerTypes /\ CallTypes
    BY NobodyAssumption DEF HandlerTypes, CallTypes
  <1>2. TimerInv
    BY FS_EmptySet DEF TimerInv
  <1>3. LockInv /\ WriteInv
    BY DEF LockInv, WriteInv, InWrite, Commanded
  <1>4. BlinkingGoesOn /\ TimerRuinedByTwo /\ PressActsOnWhatItSaw /\ AloneIsServed
    BY DEF BlinkingGoesOn, TimerRuinedByTwo, PressActsOnWhatItSaw, AloneIsServed
  <1> QED BY <1>1, <1>2, <1>3, <1>4, TypeParts DEF IInv

-----------------------------------------------------------------------------
LEMMA Toggle == \A f \in {0, 1} : 1 - f \in {0, 1}
  OBVIOUS

LEMMA HandlerStep == HandlerTypes /\ [Next]_vars => HandlerTypes'
  <1> SUFFICES ASSUME HandlerTypes, [Next]_vars PROVE HandlerTypes'
    OBVIOUS
  <1> USE DEF HandlerTypes
  <1>1. CASE Timer
    <2>1. CASE TimerSet
      <3>1. led' \in {0, 1} /\ ledflag' \in {0, 1}
        <4>1. led' = ledflag /\ ledflag' = 1 - ledflag
          BY <2>1 DEF TimerSet
        <4>2. ledflag \in {0, 1}
          BY DEF HandlerTypes
        <4> QED BY <4>1, <4>2, Toggle, Zenon
      <3> QED BY <2>1, <3>1 DEF TimerSet
    <2>2. CASE TimerFires \/ TimerTry \/ TimerRearm
      BY <2>2 DEF TimerFires, TimerTry, TimerRearm, lamp, call
    <2> QED BY <1>1, <2>1, <2>2 DEF Timer
  <1>2. CASE Isr
    BY <1>2 DEF Isr, Press, IsrTry, IsrLook, IsrLookAgain, IsrSignal, IsrSet, Crash, lamp, call
  <1>3. ASSUME NEW p \in Procs, Program(p) PROVE HandlerTypes'
    <2> USE DEF Goto, lamp, call
    <2>1. CASE WriteClear(p)
      BY <2>1 DEF WriteClear
    <2>2. CASE WriteCopy(p)
      BY <2>2 DEF WriteCopy
    <2>3. CASE WriteParse(p)
      BY <2>3 DEF WriteParse, Answer
    <2>4. CASE WriteDel(p)
      BY <2>4 DEF WriteDel
    <2>5. CASE WriteLed(p)
      BY <2>5 DEF WriteLed, Parsed
    <2>6. CASE WriteSetup(p)
      BY <2>6 DEF WriteSetup
    <2>7. CASE WriteAdd(p)
      BY <2>7 DEF WriteAdd, Parsed
    <2>8. CASE WriteTask(p)
      BY <2>8 DEF WriteTask, Crash
    <2>9. CASE Read(p)
      BY <2>9 DEF Read
    <2>10. CASE Exit(p)
      BY <2>10 DEF Exit
    <2> QED BY <1>3, <2>1, <2>2, <2>3, <2>4, <2>5, <2>6, <2>7, <2>8, <2>9, <2>10 DEF Program
  <1>4. CASE UNCHANGED vars
    BY <1>4 DEF vars, lamp, call
  <1> QED BY <1>1, <1>2, <1>3, <1>4 DEF Next

LEMMA CallStep == CallTypes /\ [Next]_vars => CallTypes'
  <1> SUFFICES ASSUME CallTypes, [Next]_vars PROVE CallTypes'
    OBVIOUS
  <1> USE NobodyAssumption DEF CallTypes, InWrite
  <1>1. CASE Timer
    BY <1>1 DEF Timer, TimerFires, TimerTry, TimerSet, TimerRearm, lamp, call
  <1>2. CASE Isr
    BY <1>2 DEF Isr, Press, IsrTry, IsrLook, IsrLookAgain, IsrSignal, IsrSet, Crash, lamp, call
  <1>3. ASSUME NEW p \in Procs, Program(p) PROVE CallTypes'
    <2> USE DEF Goto, lamp, call
    <2>1. CASE WriteClear(p)
      BY <2>1 DEF WriteClear
    <2>2. CASE WriteCopy(p)
      BY <2>2 DEF WriteCopy
    <2>3. CASE WriteParse(p)
      BY <2>3 DEF WriteParse, Answer
    <2>4. CASE WriteDel(p)
      BY <2>4 DEF WriteDel
    <2>5. CASE WriteLed(p)
      BY <2>5 DEF WriteLed, Parsed
    <2>6. CASE WriteSetup(p)
      BY <2>6 DEF WriteSetup
    <2>7. CASE WriteAdd(p)
      BY <2>7 DEF WriteAdd, Parsed
    <2>8. CASE WriteTask(p)
      BY <2>8 DEF WriteTask, Crash
    <2>9. CASE Read(p)
      BY <2>9 DEF Read
    <2>10. CASE Exit(p)
      BY <2>10 DEF Exit
    <2> QED BY <1>3, <2>1, <2>2, <2>3, <2>4, <2>5, <2>6, <2>7, <2>8, <2>9, <2>10 DEF Program
  <1>4. CASE UNCHANGED vars
    BY <1>4 DEF vars, lamp, call
  <1> QED BY <1>1, <1>2, <1>3, <1>4 DEF Next

(* The timer and its owners.  "0" takes away every owner, and with them    *)
(* the timer; only the owner's own add_timer arms an idle one.             *)
LEMMA TimerStep == HandlerTypes /\ CallTypes /\ TimerInv /\ [Next]_vars => TimerInv'
  <1> SUFFICES ASSUME HandlerTypes, CallTypes, TimerInv, [Next]_vars PROVE TimerInv'
    OBVIOUS
  <1> USE DEF TimerInv, CallTypes, Added
  <1>1. CASE Timer
    BY <1>1 DEF Timer, TimerFires, TimerTry, TimerSet, TimerRearm, lamp, call
  <1>2. CASE Isr
    BY <1>2 DEF Isr, Press, IsrTry, IsrLook, IsrLookAgain, IsrSignal, IsrSet, Crash, lamp, call
  <1>3. ASSUME NEW p \in Procs, Program(p) PROVE TimerInv'
    <2> USE DEF Goto, lamp, call, InWrite
    <2>1. CASE WriteClear(p) \/ WriteCopy(p)
      BY <2>1 DEF WriteClear, WriteCopy
    <2>3. CASE WriteParse(p)
      BY <2>3 DEF WriteParse, Answer
    <2>4. CASE WriteDel(p)
      <3>1. IsFiniteSet(blinks')
        BY <2>4, FS_Subset DEF WriteDel
      <3> QED BY <2>4, <3>1 DEF WriteDel, Undone
    <2>5. CASE WriteLed(p)
      BY <2>5 DEF WriteLed, Parsed
    <2>6. CASE WriteSetup(p)
      <3>1. IsFiniteSet(blinks')
        BY <2>6, FS_AddElement DEF WriteSetup
      <3> QED BY <2>6, <3>1 DEF WriteSetup
    <2>7. CASE WriteAdd(p)
      BY <2>7 DEF WriteAdd, Parsed
    <2>8. CASE WriteTask(p)
      BY <2>8 DEF WriteTask, Crash
    <2>9. CASE Read(p) \/ Exit(p)
      BY <2>9 DEF Read, Exit
    <2> QED BY <1>3, <2>1, <2>3, <2>4, <2>5, <2>6, <2>7, <2>8, <2>9 DEF Program
  <1>4. CASE UNCHANGED vars
    BY <1>4 DEF vars, lamp, call
  <1> QED BY <1>1, <1>2, <1>3, <1>4 DEF Next

LEMMA BlinkingStep == CallTypes /\ BlinkingGoesOn /\ [Next]_vars => BlinkingGoesOn'
  <1> SUFFICES ASSUME CallTypes, BlinkingGoesOn, [Next]_vars PROVE BlinkingGoesOn'
    OBVIOUS
  <1> USE DEF BlinkingGoesOn, CallTypes, Ok
  <1>1. CASE Timer
    BY <1>1 DEF Timer, TimerFires, TimerTry, TimerSet, TimerRearm, lamp, call
  <1>2. CASE Isr
    BY <1>2 DEF Isr, Press, IsrTry, IsrLook, IsrLookAgain, IsrSignal, IsrSet, Crash, lamp, call
  <1>3. ASSUME NEW p \in Procs, Program(p) PROVE BlinkingGoesOn'
    <2> USE DEF Goto, lamp, call, InWrite
    <2>1. CASE WriteClear(p) \/ WriteCopy(p) \/ Read(p) \/ Exit(p)
      BY <2>1 DEF WriteClear, WriteCopy, Read, Exit
    <2>3. CASE WriteParse(p)
      BY <2>3 DEF WriteParse, Answer
    <2>4. CASE WriteDel(p)
      BY <2>4 DEF WriteDel, Undone
    <2>5. CASE WriteLed(p)
      BY <2>5 DEF WriteLed, Parsed
    <2>6. CASE WriteSetup(p)
      BY <2>6 DEF WriteSetup
    <2>7. CASE WriteAdd(p)
      BY <2>7 DEF WriteAdd, Parsed
    <2>8. CASE WriteTask(p)
      BY <2>8 DEF WriteTask, Crash
    <2> QED BY <1>3, <2>1, <2>3, <2>4, <2>5, <2>6, <2>7, <2>8 DEF Program
  <1>4. CASE UNCHANGED vars
    BY <1>4 DEF vars, lamp, call
  <1> QED BY <1>1, <1>2, <1>3, <1>4 DEF Next

(* A "1" that finds the timer armed finds another program's: with its own  *)
(* there are two that blink.                                               *)
LEMMA RuinedStep == HandlerTypes /\ CallTypes /\ TimerInv /\ TimerRuinedByTwo /\ [Next]_vars => TimerRuinedByTwo'
  <1> SUFFICES ASSUME HandlerTypes, CallTypes, TimerInv, TimerRuinedByTwo, [Next]_vars PROVE TimerRuinedByTwo'
    OBVIOUS
  <1>1. ASSUME NEW p \in Procs, WriteSetup(p) \/ WriteAdd(p), kernel' # "ok"
        PROVE  Cardinality(blinks') >= 2
    <2>1. PICK q \in blinks : pc[q] \in Added
      BY <1>1 DEF WriteSetup, WriteAdd, TimerInv
    <2>2. q # p /\ {p, q} \subseteq blinks'
      BY <1>1, <2>1 DEF WriteSetup, WriteAdd, TimerInv, Goto, Added, CallTypes
    <2>3. IsFiniteSet(blinks')
      BY TimerStep DEF TimerInv
    <2>4. Cardinality({p, q}) = 2
      <3>1. IsFiniteSet({p}) /\ Cardinality({p}) = 1
        BY FS_Singleton
      <3>2. {p, q} = {p} \union {q} /\ q \notin {p}
        BY <2>2
      <3>3. Cardinality({p} \union {q}) = Cardinality({p}) + 1
        BY <3>1, <3>2, FS_AddElement
      <3> QED BY <3>1, <3>2, <3>3
    <2>5. Cardinality({p, q}) <= Cardinality(blinks')
      BY <2>2, <2>3, FS_Subset
    <2> QED BY <2>3, <2>4, <2>5, FS_CardinalityType
  <1> DEFINE Ruined == {"timer list corrupted", "BUG in add_timer"}
  <1>2. ASSUME NEW p \in Procs, WriteSetup(p) \/ WriteAdd(p) PROVE TimerRuinedByTwo'
    BY <1>1, <1>2 DEF TimerRuinedByTwo
  <1>3. CASE kernel' \notin Ruined
    BY <1>3 DEF TimerRuinedByTwo
  <1>4. CASE UNCHANGED <<kernel, blinks>>
    BY <1>4 DEF TimerRuinedByTwo
  <1>5. CASE Timer \/ Isr
    <2>1. kernel' \notin Ruined \/ UNCHANGED <<kernel, blinks>>
      BY <1>5 DEF Timer, TimerFires, TimerTry, TimerSet, TimerRearm, Isr, Press, IsrTry, IsrLook,
                  IsrLookAgain, IsrSignal, IsrSet, Crash
    <2> QED BY <1>3, <1>4, <2>1
  <1>6. ASSUME NEW p \in Procs, Program(p), ~WriteSetup(p), ~WriteAdd(p) PROVE TimerRuinedByTwo'
    <2>1. kernel' \notin Ruined \/ UNCHANGED <<kernel, blinks>>
      BY <1>6 DEF Program, WriteClear, WriteCopy, WriteParse, WriteDel, WriteLed, WriteTask, Read,
                  Exit, Crash, Goto, Ok
    <2> QED BY <1>3, <1>4, <2>1
  <1>7. CASE UNCHANGED vars
    BY <1>7, <1>4 DEF vars
  <1> QED BY <1>2, <1>5, <1>6, <1>7 DEF Next
(* Who holds the mutex: only its holder gives it back, and a driver        *)
(* without it has no timer_func to keep apart from.                        *)
LEMMA LockStep == CallTypes /\ LockInv /\ [Next]_vars => LockInv'
  <1> SUFFICES ASSUME CallTypes, LockInv, [Next]_vars PROVE LockInv'
    OBVIOUS
  <1> USE DriverFacts DEF LockInv, CallTypes
  <1>1. CASE Timer
    BY <1>1 DEF Timer, TimerFires, TimerTry, TimerSet, TimerRearm, lamp, call
  <1>2. CASE Isr
    BY <1>2 DEF Isr, Press, IsrTry, IsrLook, IsrLookAgain, IsrSignal, IsrSet, Crash, lamp, call
  <1>3. ASSUME NEW p \in Procs, Program(p) PROVE LockInv'
    <2> USE DEF Goto, lamp, call, InWrite
    <2>1. CASE WriteClear(p) \/ WriteCopy(p)
      BY <2>1 DEF WriteClear, WriteCopy
    <2>2. CASE WriteParse(p)
      BY <2>2 DEF WriteParse, Answer
    <2>3. CASE WriteDel(p)
      BY <2>3 DEF WriteDel
    <2>4. CASE WriteLed(p)
      BY <2>4 DEF WriteLed, Parsed
    <2>5. CASE WriteSetup(p)
      BY <2>5 DEF WriteSetup
    <2>6. CASE WriteAdd(p)
      BY <2>6 DEF WriteAdd, Parsed
    <2>7. CASE WriteTask(p)
      BY <2>7 DEF WriteTask, Crash
    <2>8. CASE Read(p) \/ Exit(p)
      BY <2>8 DEF Read, Exit
    <2> QED BY <1>3, <2>1, <2>2, <2>3, <2>4, <2>5, <2>6, <2>7, <2>8 DEF Program
  <1>4. CASE UNCHANGED vars
    BY <1>4 DEF vars, lamp, call
  <1> QED BY <1>1, <1>2, <1>3, <1>4 DEF Next

(* The handler acts on the LED it saw: timer_func needs the mutex, and a   *)
(* write leaves its mark in cut.                                           *)
LEMMA PressStep == HandlerTypes /\ CallTypes /\ LockInv /\ PressActsOnWhatItSaw /\ [Next]_vars => PressActsOnWhatItSaw'
  <1> SUFFICES ASSUME HandlerTypes, CallTypes, LockInv, PressActsOnWhatItSaw, [Next]_vars PROVE PressActsOnWhatItSaw'
    OBVIOUS
  <1> USE DriverFacts DEF LockInv, CallTypes, HandlerTypes, PressActsOnWhatItSaw
  <1>1. CASE Timer
    BY <1>1 DEF Timer, TimerFires, TimerTry, TimerSet, TimerRearm, lamp, call
  <1>2. CASE Isr
    BY <1>2 DEF Isr, Press, IsrTry, IsrLook, IsrLookAgain, IsrSignal, IsrSet, Crash, lamp, call
  <1>3. ASSUME NEW p \in Procs, Program(p) PROVE PressActsOnWhatItSaw'
    <2> USE DEF Goto, lamp, call, InWrite
    <2>1. CASE WriteClear(p) \/ WriteCopy(p)
      BY <2>1 DEF WriteClear, WriteCopy
    <2>2. CASE WriteParse(p)
      BY <2>2 DEF WriteParse, Answer
    <2>3. CASE WriteDel(p)
      BY <2>3 DEF WriteDel
    <2>4. CASE WriteLed(p)
      BY <2>4 DEF WriteLed, Parsed
    <2>5. CASE WriteSetup(p)
      BY <2>5 DEF WriteSetup
    <2>6. CASE WriteAdd(p)
      BY <2>6 DEF WriteAdd, Parsed
    <2>7. CASE WriteTask(p)
      BY <2>7 DEF WriteTask, Crash
    <2>8. CASE Read(p) \/ Exit(p)
      BY <2>8 DEF Read, Exit
    <2> QED BY <1>3, <2>1, <2>2, <2>3, <2>4, <2>5, <2>6, <2>7, <2>8 DEF Program
  <1>4. CASE UNCHANGED vars
    BY <1>4 DEF vars, lamp, call
  <1> QED BY <1>1, <1>2, <1>3, <1>4 DEF Next

(* A writer that nobody disturbed had msg to itself.                       *)
LEMMA WriteStep == CallTypes /\ WriteInv /\ [Next]_vars => WriteInv'
  <1> SUFFICES ASSUME CallTypes, WriteInv, [Next]_vars PROVE WriteInv'
    OBVIOUS
  <1> USE DEF WriteInv, CallTypes, Commanded
  <1>1. CASE Timer
    <2>1. UNCHANGED <<driver, call, overlap>>
      BY <1>1 DEF Timer, TimerFires, TimerTry, TimerSet, TimerRearm
    <2> QED BY <2>1 DEF call
  <1>2. CASE Isr
    <2>1. UNCHANGED <<driver, call, overlap>>
      BY <1>2 DEF Isr, Press, IsrTry, IsrLook, IsrLookAgain, IsrSignal, IsrSet, Crash
    <2> QED BY <2>1 DEF call
  <1>3. ASSUME NEW p \in Procs, Program(p) PROVE WriteInv'
    <2> USE DEF Goto, lamp, call, InWrite
    <2>1. CASE WriteClear(p) \/ WriteCopy(p)
      BY <2>1 DEF WriteClear, WriteCopy
    <2>2. CASE WriteParse(p)
      BY <2>2 DEF WriteParse, Answer
    <2>3. CASE WriteDel(p)
      BY <2>3 DEF WriteDel
    <2>4. CASE WriteLed(p)
      BY <2>4 DEF WriteLed, Parsed
    <2>5. CASE WriteSetup(p)
      BY <2>5 DEF WriteSetup
    <2>6. CASE WriteAdd(p)
      BY <2>6 DEF WriteAdd, Parsed
    <2>7. CASE WriteTask(p)
      BY <2>7 DEF WriteTask, Crash
    <2>8. CASE Read(p) \/ Exit(p)
      BY <2>8 DEF Read, Exit
    <2> QED BY <1>3, <2>1, <2>2, <2>3, <2>4, <2>5, <2>6, <2>7, <2>8 DEF Program
  <1>4. CASE UNCHANGED vars
    BY <1>4 DEF vars, lamp, call
  <1> QED BY <1>1, <1>2, <1>3, <1>4 DEF Next

(* It therefore parsed its own command, and takes the branch of it.        *)
LEMMA AloneStep == CallTypes /\ WriteInv /\ AloneIsServed /\ [Next]_vars => AloneIsServed'
  <1> SUFFICES ASSUME CallTypes, WriteInv, AloneIsServed, [Next]_vars PROVE AloneIsServed'
    OBVIOUS
  <1> USE CommandAssumption, NobodyAssumption DEF WriteInv, CallTypes, Commanded, AloneIsServed, SaysOff
  <1>1. CASE Timer
    BY <1>1 DEF Timer, TimerFires, TimerTry, TimerSet, TimerRearm, lamp, call
  <1>2. CASE Isr
    BY <1>2 DEF Isr, Press, IsrTry, IsrLook, IsrLookAgain, IsrSignal, IsrSet, Crash, lamp, call
  <1>3. ASSUME NEW p \in Procs, Program(p) PROVE AloneIsServed'
    <2> USE DEF Goto, lamp, call, InWrite
    <2>1. CASE WriteClear(p) \/ WriteCopy(p)
      <3>1. CASE WriteClear(p)
        BY <3>1 DEF WriteClear
      <3>2. CASE WriteCopy(p)
        BY <3>2 DEF WriteCopy
      <3> QED BY <2>1, <3>1, <3>2
    <2>2. CASE WriteParse(p)
      <3>1. \A q \in Procs : q # p => pc'[q] = pc[q] /\ cmd'[q] = cmd[q]
        BY <2>2 DEF WriteParse
      <3>2. kernel' # "no pid" /\ UNCHANGED overlap
        BY <2>2 DEF WriteParse, Ok
      <3>3. cmd'[p] = msg /\ (p \notin overlap => msg = p)
        BY <2>2 DEF WriteParse
      <3>4. p \notin overlap => (SaysOff <=> Command[p] = "0")
        BY <2>2 DEF WriteParse
      <3>5. pc'[p] = Answer(SaysOff)
        BY <2>2 DEF WriteParse
      <3>6. p \notin overlap => /\ pc'[p] \in {"del", "ledoff"} => Command[p] = "0"
                                /\ pc'[p] \in {"setup", "add", "ledon"} => Command[p] = "1"
                                /\ pc'[p] # "task"
        <4>1. CASE p \in overlap
          BY <4>1
        <4>2. CASE p \notin overlap /\ SaysOff
          BY <3>4, <3>5, <4>2 DEF Answer
        <4>3. CASE p \notin overlap /\ ~SaysOff
          <5>1. Command[p] = "1"
            BY <3>4, <4>3
          <5> QED BY <3>5, <4>3, <5>1 DEF Answer
        <4> QED BY <4>1, <4>2, <4>3
      <3>7. ASSUME NEW q \in Procs \ overlap
            PROVE  /\ pc'[q] \in {"del", "ledoff"} => Command[q] = "0"
                   /\ pc'[q] \in {"setup", "add", "ledon"} => Command[q] = "1"
                   /\ pc'[q] = "task" => cmd'[q] = q
        <4>1. CASE q = p
          BY <3>6, <4>1
        <4>2. CASE q # p
          <5>1. pc'[q] = pc[q] /\ cmd'[q] = cmd[q]
            BY <3>1, <4>2
          <5> QED BY <5>1, Zenon DEF AloneIsServed
        <4> QED BY <4>1, <4>2
      <3> QED BY <3>2, <3>7, Zenon DEF AloneIsServed
    <2>3. CASE WriteDel(p)
      BY <2>3 DEF WriteDel
    <2>4. CASE WriteLed(p)
      <3>1. UNCHANGED <<cmd, overlap>> /\ kernel' = "ok" /\ kernel = "ok"
        BY <2>4 DEF WriteLed, Ok
      <3>2. pc'[p] \in {"task", "read"} /\ pc[p] \in {"ledoff", "ledon"}
        BY <2>4 DEF WriteLed, Parsed
      <3>3. \A q \in Procs : q # p => pc'[q] = pc[q]
        BY <2>4 DEF WriteLed
      <3> QED BY <3>1, <3>2, <3>3
    <2>5. CASE WriteSetup(p)
      BY <2>5 DEF WriteSetup
    <2>6. CASE WriteAdd(p)
      BY <2>6 DEF WriteAdd, Parsed
    <2>7. CASE WriteTask(p)
      BY <2>7 DEF WriteTask, Crash
    <2>8. CASE Read(p) \/ Exit(p)
      BY <2>8 DEF Read, Exit
    <2> QED BY <1>3, <2>1, <2>2, <2>3, <2>4, <2>5, <2>6, <2>7, <2>8 DEF Program
  <1>4. CASE UNCHANGED vars
    BY <1>4 DEF vars, lamp, call
  <1> QED BY <1>1, <1>2, <1>3, <1>4 DEF Next

-----------------------------------------------------------------------------
LEMMA OffFromTimer == HandlerTypes /\ TimerInv => OffMeansOff
  BY DEF HandlerTypes, TimerInv, OffMeansOff

(* The inductive invariant holds in every reachable state.                 *)
LEMMA Invariance == Spec => []IInv
  <1>1. IInv /\ [Next]_vars => IInv'
    <2> SUFFICES ASSUME IInv, [Next]_vars PROVE IInv'
      OBVIOUS
    <2>1. HandlerTypes /\ CallTypes
      BY TypeParts DEF IInv
    <2>2. TypeOK'
      <3>1. HandlerTypes' /\ CallTypes'
        BY <2>1, HandlerStep, CallStep
      <3> QED BY <3>1, Zenon DEF TypeOK, HandlerTypes, CallTypes
    <2>3. TimerInv' /\ LockInv' /\ WriteInv'
      BY <2>1, TimerStep, LockStep, WriteStep DEF IInv
    <2>4. BlinkingGoesOn' /\ TimerRuinedByTwo' /\ PressActsOnWhatItSaw' /\ AloneIsServed'
      BY <2>1, BlinkingStep, RuinedStep, PressStep, AloneStep DEF IInv
    <2> QED BY <2>2, <2>3, <2>4 DEF IInv
  <1> QED BY InitIInv, <1>1, PTL DEF Spec

(* The variables keep their types, with any driver and any programs.       *)
THEOREM TypeCorrect == Spec => []TypeOK
  BY Invariance, PTL DEF IInv

(* For any number of programs: after a "0" that no "1" follows, the timer  *)
(* that arms itself is neither armed nor running.                          *)
THEOREM OffCorrect == Spec => []OffMeansOff
  <1>1. IInv => OffMeansOff
    BY OffFromTimer, TypeParts DEF IInv
  <1> QED BY Invariance, <1>1, PTL

(* For any number of programs: after a "1" that no "0" follows, the timer  *)
(* is armed or about to be, as long as the kernel lives.                   *)
THEOREM BlinkingCorrect == Spec => []BlinkingGoesOn
  <1>1. IInv => BlinkingGoesOn
    BY DEF IInv
  <1> QED BY Invariance, <1>1, PTL

(* For any number of programs: it takes two "1"s to ruin the kernel's      *)
(* timer.                                                                  *)
THEOREM RuinedCorrect == Spec => []TimerRuinedByTwo
  <1>1. IInv => TimerRuinedByTwo
    BY DEF IInv
  <1> QED BY Invariance, <1>1, PTL

(* For any number of programs: the interrupt handler acts on the LED it    *)
(* looked at unless an unlocked gpio_write set it meanwhile.               *)
THEOREM PressCorrect == Spec => []PressActsOnWhatItSaw
  <1>1. IInv => PressActsOnWhatItSaw
    BY DEF IInv
  <1> QED BY Invariance, <1>1, PTL

(* For any number of programs: a write that no other call disturbed is     *)
(* carried out as it was meant, and registers its own program.             *)
THEOREM AloneCorrect == Spec => []AloneIsServed
  <1>1. IInv => AloneIsServed
    BY DEF IInv
  <1> QED BY Invariance, <1>1, PTL
=============================================================================

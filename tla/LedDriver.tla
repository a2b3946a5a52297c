----------------------------- MODULE LedDriver -----------------------------
(***************************************************************************)
(* The LED drivers of Chapter12/module, one loaded at a time.  Programs    *)
(* write "1" or "0" to /dev/gpioled, with their pid in gpiosignal_module.  *)
(* The simplest drivers set the LED; gpioirq_module adds a switch whose    *)
(* interrupt toggles it, gpiotimer_module a kernel timer that blinks it,   *)
(* gpiosignal_module a signal to the program registered last.  Timer and   *)
(* interrupt handler share led_mutex by trylock; gpio_write takes no lock  *)
(* at all, and msg, the timer and the task pointer are shared by every     *)
(* caller.  The handlers run on different cores.                           *)
(*                                                                         *)
(* init_module takes a reference on its own module, so cleanup_module is   *)
(* never called.  Each program writes once, reads once and exits (gpio.c)  *)
(* or waits for SIGIO (catch_signal.c).  Nothing is followed past a crash. *)
(***************************************************************************)
EXTENDS Integers, FiniteSets

CONSTANTS
    Procs,      \* programs
    Command,    \* per program: "0" or "1"
    Nobody      \* the NULL task

ASSUME CommandAssumption == Command \in [Procs -> {"0", "1"}]
ASSUME NobodyAssumption == Nobody \notin Procs

VARIABLES
    driver,     \* the loaded module
    kernel,     \* "ok", or how it was lost
    led,        \* the output of GPIO_LED
    ledflag,    \* timer_func's static ledflag: what it writes next
    lock,       \* holder of led_mutex: "free", "timer", "isr"
    timer,      \* "idle" or "pending"
    cb,         \* timer_func: "idle", "try", "set", "rearm"
    isr,        \* isr_func: "idle", "try", "look", "on", "again", "signal", "off"
    msg,        \* whose command is in msg
    tail,      \* " from Kernel" stands behind it
    task,       \* the program to signal
    pc,         \* per program: where it is
    cmd,        \* per program: whose command its gpio_write parsed
    blinks,     \* history: programs whose write armed the timer and no "0" undid it
    overlap,    \* history: programs whose gpio_write another program's call disturbed
    cut         \* history: gpio_write set the LED under the interrupt handler

lamp == <<led, ledflag, lock>>
call == <<msg, tail, task, pc, cmd>>
vars == <<driver, kernel, lamp, timer, cb, isr, call, blinks, overlap, cut>>

(* The drivers: what each has of switch, mutex, timer and signal.          *)
gpio_module         == [switch |-> FALSE, mutex |-> FALSE, timer |-> FALSE, signal |-> FALSE]
gpiofunction_module == gpio_module
gpioirq_module      == [gpio_module EXCEPT !.switch = TRUE]
gpiotimer_module    == [gpioirq_module EXCEPT !.mutex = TRUE, !.timer = TRUE]
gpiosignal_module   == [gpiotimer_module EXCEPT !.signal = TRUE]
Drivers == {gpio_module, gpiofunction_module, gpioirq_module, gpiotimer_module, gpiosignal_module}

InWrite == {"copy", "parse", "del", "ledoff", "setup", "add", "ledon", "task"}

TypeOK ==
    /\ kernel \in {"ok", "timer list corrupted", "BUG in add_timer", "signal to no task",
                  "no pid"}
    /\ led \in {0, 1} /\ ledflag \in {0, 1}
    /\ lock \in {"free", "timer", "isr"}
    /\ timer \in {"idle", "pending"}
    /\ cb \in {"idle", "try", "set", "rearm"}
    /\ isr \in {"idle", "try", "look", "on", "again", "signal", "off"}
    /\ msg \in Procs \union {Nobody}
    /\ task \in Procs \union {Nobody}
    /\ driver \in Drivers /\ tail \in BOOLEAN
    /\ pc \in [Procs -> {"start", "read", "wait", "dead"} \union InWrite]
    /\ cmd \in [Procs -> Procs \union {Nobody}]
    /\ blinks \subseteq Procs /\ overlap \subseteq Procs
    /\ cut \in BOOLEAN

(* After the init_module of one of them. *)
Init ==
    /\ driver \in Drivers /\ tail = FALSE
    /\ kernel = "ok"
    /\ led = 0 /\ ledflag = 1 /\ lock = "free"
    /\ timer = "idle" /\ cb = "idle" /\ isr = "idle"
    /\ msg = Nobody /\ task = Nobody
    /\ pc = [p \in Procs |-> "start"]
    /\ cmd = [p \in Procs |-> Nobody]
    /\ blinks = {} /\ overlap = {} /\ cut = FALSE

Ok == kernel = "ok"

Crash(how) ==
    /\ kernel' = how
    /\ UNCHANGED <<driver, lamp, timer, cb, isr, call, blinks, overlap, cut>>

-----------------------------------------------------------------------------
(* timer_func, one second after it was last armed.                         *)

TimerFires ==
    /\ Ok
    /\ timer = "pending" /\ cb = "idle"
    /\ timer' = "idle"
    /\ cb' = "try"
    /\ UNCHANGED <<driver, kernel, lamp, isr, call, blinks, overlap, cut>>

(* Mutant: the timer is armed again only inside the trylock's branch. *)
TimerTryOrStop ==
    /\ Ok
    /\ cb = "try"
    /\ \/ lock = "free" /\ lock' = "timer" /\ cb' = "set"
       \/ lock # "free" /\ cb' = "idle" /\ UNCHANGED lock
    /\ UNCHANGED <<driver, kernel, led, ledflag, timer, isr, call, blinks, overlap, cut>>

(* mutex_trylock *)
TimerTry ==
    /\ Ok
    /\ cb = "try"
    /\ \/ lock = "free" /\ lock' = "timer" /\ cb' = "set"
       \/ lock # "free" /\ cb' = "rearm" /\ UNCHANGED lock
    /\ UNCHANGED <<driver, kernel, led, ledflag, timer, isr, call, blinks, overlap, cut>>

(* Mutant: ledflag counts instead of toggling. *)
TimerSetCount ==
    /\ Ok
    /\ cb = "set"
    /\ led' = ledflag /\ ledflag' = ledflag + 1
    /\ lock' = "free"
    /\ cb' = "rearm"
    /\ UNCHANGED <<driver, kernel, timer, isr, call, blinks, overlap, cut>>

(* The LED takes ledflag, ledflag toggles, mutex_unlock. *)
TimerSet ==
    /\ Ok
    /\ cb = "set"
    /\ led' = ledflag /\ ledflag' = 1 - ledflag
    /\ lock' = "free"
    /\ cb' = "rearm"
    /\ UNCHANGED <<driver, kernel, timer, isr, call, blinks, overlap, cut>>

(* mod_timer *)
TimerRearm ==
    /\ Ok
    /\ cb = "rearm"
    /\ timer' = "pending"
    /\ cb' = "idle"
    /\ UNCHANGED <<driver, kernel, lamp, isr, call, blinks, overlap, cut>>

-----------------------------------------------------------------------------
(* isr_func.                                                               *)

Press ==
    /\ Ok /\ driver.switch
    /\ isr = "idle"
    /\ isr' = "try"
    /\ cut' = FALSE
    /\ UNCHANGED <<driver, kernel, lamp, timer, cb, call, blinks, overlap>>

(* Mutant: the result of mutex_trylock is not looked at. *)
IsrNoLock ==
    /\ Ok
    /\ isr = "try"
    /\ isr' = "look"
    /\ lock' = "isr"
    /\ UNCHANGED <<driver, kernel, led, ledflag, timer, cb, call, blinks, overlap, cut>>

(* mutex_trylock; gpioirq_module has no mutex. *)
IsrTry ==
    /\ Ok
    /\ isr = "try"
    /\ \/ driver.mutex /\ lock = "free" /\ lock' = "isr" /\ isr' = "look"
       \/ driver.mutex /\ lock # "free" /\ isr' = "idle" /\ UNCHANGED lock
       \/ ~driver.mutex /\ isr' = "look" /\ UNCHANGED lock
    /\ UNCHANGED <<driver, kernel, led, ledflag, timer, cb, call, blinks, overlap, cut>>

(* gpio_get_value, a second time when the first one is not 0. *)
IsrLook ==
    /\ Ok
    /\ isr = "look"
    /\ isr' = IF led = 0 THEN "on" ELSE "again"
    /\ UNCHANGED <<driver, kernel, lamp, timer, cb, call, blinks, overlap, cut>>

IsrLookAgain ==
    /\ Ok
    /\ isr = "again"
    /\ IF led = 1 THEN isr' = (IF driver.signal THEN "signal" ELSE "off") /\ UNCHANGED lock
                  ELSE isr' = "idle" /\ lock' = "free"
    /\ UNCHANGED <<driver, kernel, led, ledflag, timer, cb, call, blinks, overlap, cut>>

(* send_sig_info: SIGIO makes a live program exit (see Exit); the task     *)
(* structure of one that has exited is freed memory, which may or may not  *)
(* be noticed, and with no task there is none at all.                      *)
IsrSignal ==
    /\ Ok
    /\ isr = "signal"
    /\ \/ (task # Nobody => pc[task] = "dead") /\ Crash("signal to no task")
       \/ /\ task # Nobody
          /\ isr' = "off"
          /\ UNCHANGED <<driver, kernel, lamp, timer, cb, call, blinks, overlap, cut>>

(* The LED changes, mutex_unlock. *)
IsrSet ==
    /\ Ok
    /\ \/ isr = "on" /\ led' = 1
       \/ isr = "off" /\ led' = 0
    /\ lock' = "free"
    /\ isr' = "idle"
    /\ UNCHANGED <<driver, kernel, ledflag, timer, cb, call, blinks, overlap, cut>>

-----------------------------------------------------------------------------
(* gpio_write, called by a program.                                        *)

Goto(p, from, to) == Ok /\ pc[p] = from /\ pc' = [pc EXCEPT ![p] = to]

(* memset(msg, 0) *)
WriteClear(p) ==
    LET others == {q \in Procs : pc[q] \in InWrite} IN
    /\ Goto(p, "start", "copy")
    /\ msg' = Nobody /\ tail' = FALSE
    /\ overlap' = overlap \union others \union (IF others = {} THEN {} ELSE {p})
    /\ UNCHANGED <<driver, kernel, lamp, timer, cb, isr, task, cmd, blinks, cut>>

(* copy_from_user into the one msg. *)
WriteCopy(p) ==
    /\ Goto(p, "copy", "parse")
    /\ msg' = p
    /\ UNCHANGED <<driver, kernel, lamp, timer, cb, isr, tail, task, cmd, blinks, overlap, cut>>

(* What msg says.  By now it may be another caller's, or empty, and to all *)
(* drivers but gpiosignal_module a "0" with something behind it is no "0". *)
SaysOff == msg # Nobody /\ Command[msg] = "0" /\ (driver.signal \/ ~tail)
Answer(off) == IF off THEN (IF driver.timer THEN "del" ELSE "ledoff")
                      ELSE (IF driver.timer THEN "setup" ELSE "ledon")

(* Mutant: strcmp is tested without the negation. *)
WriteParseInverted(p) ==
    /\ Goto(p, "parse", Answer(~SaysOff))
    /\ cmd' = [cmd EXCEPT ![p] = msg]
    /\ UNCHANGED <<driver, kernel, lamp, timer, cb, isr, msg, tail, task, blinks, overlap, cut>>

(* strcmp, in gpiosignal_module of a kstrdup'ed copy cut by strsep. *)
WriteParse(p) ==
    /\ Goto(p, "parse", Answer(SaysOff))
    /\ cmd' = [cmd EXCEPT ![p] = msg]
    /\ UNCHANGED <<driver, kernel, lamp, timer, cb, isr, msg, tail, task, blinks, overlap, cut>>

(* A "0" undoes every "1" that has been added. *)
Undone == {p \in blinks : pc[p] # "add"}

(* Mutant: del_timer, which does not wait for a running timer_func. *)
WriteDelNow(p) ==
    /\ Goto(p, "del", "ledoff")
    /\ timer' = "idle"
    /\ blinks' = blinks \ Undone
    /\ UNCHANGED <<driver, kernel, lamp, cb, isr, msg, tail, task, cmd, overlap, cut>>

(* del_timer_sync: returns when timer_func is not running and not armed. *)
WriteDel(p) ==
    /\ Goto(p, "del", "ledoff")
    /\ cb = "idle"
    /\ timer' = "idle"
    /\ blinks' = blinks \ Undone
    /\ UNCHANGED <<driver, kernel, lamp, cb, isr, msg, tail, task, cmd, overlap, cut>>

Parsed == IF driver.signal THEN "task" ELSE "read"

(* gpio_set_value(GPIO_LED, ...), without led_mutex. *)
WriteLed(p) ==
    /\ \/ Goto(p, "ledoff", Parsed) /\ led' = 0
       \/ Goto(p, "ledon", Parsed) /\ led' = 1
    /\ cut' = (cut \/ isr # "idle")
    /\ UNCHANGED <<driver, kernel, ledflag, lock, timer, cb, isr, msg, tail, task, cmd, blinks, overlap>>

(* timer_setup clears the list node: fatal when the timer is on a list. *)
WriteSetup(p) ==
    /\ blinks' = blinks \union {p}
    /\ Goto(p, "setup", "add")
    /\ kernel' = IF timer = "pending" THEN "timer list corrupted" ELSE "ok"
    /\ UNCHANGED <<driver, lamp, timer, cb, isr, msg, tail, task, cmd, overlap, cut>>

(* add_timer has a BUG_ON for a timer that is pending. *)
WriteAdd(p) ==
    /\ Goto(p, "add", Parsed)
    /\ kernel' = IF timer = "pending" THEN "BUG in add_timer" ELSE "ok"
    /\ timer' = "pending"
    /\ UNCHANGED <<driver, lamp, cb, isr, msg, tail, task, cmd, blinks, overlap, cut>>

(* pid_task(find_vpid(pid)): NULL when that program is gone.  With no pid  *)
(* in an empty msg, simple_strtol reads from NULL.                         *)
WriteTask(p) ==
    \/ /\ Ok /\ pc[p] = "task" /\ cmd[p] = Nobody
       /\ Crash("no pid")
    \/ /\ cmd[p] # Nobody
       /\ Goto(p, "task", "read")
       /\ task' = IF pc[cmd[p]] = "dead" THEN Nobody ELSE cmd[p]
       /\ UNCHANGED <<driver, kernel, lamp, timer, cb, isr, msg, tail, cmd, blinks, overlap, cut>>

(* gpio_read: strcat to the one msg, without a lock and whoever wrote it. *)
Read(p) ==
    /\ Goto(p, "read", "wait")
    /\ tail' = TRUE
    /\ overlap' = overlap \union {q \in Procs : ~driver.signal /\ pc[q] \in {"copy", "parse"}}
    /\ UNCHANGED <<driver, kernel, lamp, timer, cb, isr, msg, task, cmd, blinks, cut>>

(* signal_handler's exit, or the user ends the program. *)
Exit(p) ==
    /\ Ok
    /\ pc[p] = "wait"
    /\ pc' = [pc EXCEPT ![p] = "dead"]
    /\ UNCHANGED <<driver, kernel, lamp, timer, cb, isr, msg, tail, task, cmd, blinks, overlap, cut>>

-----------------------------------------------------------------------------
Timer == TimerFires \/ TimerTry \/ TimerSet \/ TimerRearm
Isr == Press \/ IsrTry \/ IsrLook \/ IsrLookAgain \/ IsrSignal \/ IsrSet
Program(p) == \/ WriteClear(p) \/ WriteCopy(p) \/ WriteParse(p) \/ WriteDel(p) \/ WriteLed(p)
              \/ WriteSetup(p) \/ WriteAdd(p) \/ WriteTask(p) \/ Read(p) \/ Exit(p)

Next == Timer \/ Isr \/ \E p \in Procs : Program(p)

Spec == Init /\ [][Next]_vars

-----------------------------------------------------------------------------
(* Properties.                                                             *)

(* After a "0", unless a "1" came or was under way, the timer is not armed *)
(* and timer_func is not running, although it arms itself: nothing turns   *)
(* the LED on again but the switch.                                        *)
OffMeansOff == blinks = {} => timer = "idle" /\ cb = "idle"

(* After a "1", until a "0", the LED goes on blinking: a timer_func that   *)
(* found led_mutex taken has armed itself all the same.                    *)
BlinkingGoesOn ==
    Ok /\ (\E p \in blinks : pc[p] # "add") => timer = "pending" \/ cb # "idle"

(* The kernel's timer list is ruined only by a second "1" that no "0" came *)
(* before, never by the timer and one blinking program alone.              *)
TimerRuinedByTwo ==
    kernel \in {"timer list corrupted", "BUG in add_timer"} => Cardinality(blinks) >= 2

(* The LED the interrupt handler acts on is the one it looked at: only a   *)
(* gpio_write that sets the LED, which takes no lock, can come between,    *)
(* and under the mutex only one of "0".                                    *)
PressActsOnWhatItSaw ==
    /\ isr = "on" => led = 0 \/ (cut /\ ~driver.mutex)
    /\ isr \in {"signal", "off"} => led = 1 \/ cut

(* A program whose write no other program's write, and but for             *)
(* gpiosignal_module no other's read, disturbed has its own command carried *)
(* out and its own pid registered, and only a disturbed write is left with *)
(* a message that names no pid.                                            *)
AloneIsServed ==
    /\ \A p \in Procs \ overlap :
          /\ pc[p] \in {"del", "ledoff"} => Command[p] = "0"
          /\ pc[p] \in {"setup", "add", "ledon"} => Command[p] = "1"
          /\ pc[p] = "task" => cmd[p] = p
    /\ kernel = "no pid" => \E p \in overlap : pc[p] = "task" /\ cmd[p] = Nobody

-----------------------------------------------------------------------------
(* gpiosignal_module.c:93 "send a signal to that process": whenever the    *)
(* handler signals, there is a process.  The code does not see to this.    *)
SignalHasAProcess == kernel # "signal to no task"
=============================================================================

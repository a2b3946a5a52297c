---------------------------- MODULE NamedSemaphore ----------------------------
(***************************************************************************)
(* Chapter5/thread.c and posix_sem.c: both open the POSIX semaphore        *)
(* "posix_sem", which outlives a process that is killed, and both give a   *)
(* value that counts only when the semaphore is new.  thread.c has one     *)
(* thread that counts up and waits and one that posts and counts down; the *)
(* counter itself is changed outside of the semaphore.                     *)
(***************************************************************************)
EXTENDS Integers, FiniteSets

CONSTANTS Runs,          \* runs of the two programs, one after the other or at once
          Rounds,        \* the 10 rounds of a thread
          ThreadValue,   \* thread.c's value, 7
          PosixValue     \* posix_sem.c's value and last count, 8

ASSUME SemaphoreAssumption ==
  /\ IsFiniteSet(Runs)
  /\ {Rounds, ThreadValue, PosixValue} \subseteq Nat

VARIABLES
  job,             \* the program of a run
  rpc,             \* "new", "running", "ended" or "killed"
  named, value,    \* the semaphore of that name (0: none), the value of each that was made
  sem,             \* the semaphore a run has open
  cnt,             \* its counter
  up, ups, upLoad, \* the thread that counts up: place, rounds done, the cnt it has loaded
  down, downs, downLoad,
  found, crowded, raced    \* history: the value at sem_open, another run had the semaphore
                           \* open meanwhile, both threads were inside cnt++ and cnt--

semVars == <<job, rpc, named, value, sem, cnt, up, ups, upLoad, down, downs, downLoad,
             found, crowded, raced>>

Running(r) == rpc[r] = "running"
At(r, p) == Running(r) /\ up[r] = p
DownAt(r, p) == Running(r) /\ down[r] = p
Unchanged == UNCHANGED <<job, rpc, named, sem, found, crowded>>

-----------------------------------------------------------------------------
\* sem_open(name, O_CREAT, ..., value): what is there is taken as it is.
SemOpen(r) ==
  /\ rpc[r] = "new" /\ rpc' = [rpc EXCEPT ![r] = "running"]
  /\ IF named # 0
       THEN UNCHANGED <<named, value>>
       ELSE /\ named' = CHOOSE n \in DOMAIN value : value[n] = -1 /\ \A m \in 1..(n - 1) : value[m] # -1
            /\ value' = [value EXCEPT ![named'] = IF job[r] = "thread" THEN ThreadValue ELSE PosixValue]
  /\ sem' = [sem EXCEPT ![r] = named'] /\ found' = [found EXCEPT ![r] = value'[named']]
  /\ LET others == {q \in Runs \ {r} : Running(q) /\ sem[q] = named'}
     IN crowded' = [q \in Runs |-> crowded[q] \/ (others # {} /\ q \in others \cup {r})]
  /\ UNCHANGED <<job, cnt, up, ups, upLoad, down, downs, downLoad, raced>>

\* cnt++ of ptheadV and of posix_sem.c's v(): a load and a store.
CountUp(r) ==
  /\ \/ /\ At(r, "idle")
        /\ IF job[r] = "thread" THEN ups[r] < Rounds ELSE cnt[r] < PosixValue /\ downs[r] = 0
        /\ up' = [up EXCEPT ![r] = "store"] /\ upLoad' = [upLoad EXCEPT ![r] = cnt[r]]
        /\ raced' = [raced EXCEPT ![r] = @ \/ down[r] = "store"] /\ UNCHANGED cnt
     \/ /\ At(r, "store")
        /\ up' = [up EXCEPT ![r] = "wait"] /\ cnt' = [cnt EXCEPT ![r] = upLoad[r] + 1]
        /\ upLoad' = [upLoad EXCEPT ![r] = 0] /\ UNCHANGED raced
  /\ Unchanged /\ UNCHANGED <<value, ups, down, downs, downLoad>>

(* Mutant: sem_trywait, its result ignored. *)
TryV(r) ==
  /\ At(r, "wait")
  /\ value' = [value EXCEPT ![sem[r]] = @ - 1]
  /\ up' = [up EXCEPT ![r] = "idle"] /\ ups' = [ups EXCEPT ![r] = @ + 1]
  /\ Unchanged /\ UNCHANGED <<cnt, upLoad, down, downs, downLoad, raced>>

\* v(): sem_wait.
V(r) ==
  /\ At(r, "wait") /\ value[sem[r]] > 0
  /\ value' = [value EXCEPT ![sem[r]] = @ - 1]
  /\ up' = [up EXCEPT ![r] = "idle"] /\ ups' = [ups EXCEPT ![r] = @ + 1]
  /\ Unchanged /\ UNCHANGED <<cnt, upLoad, down, downs, downLoad, raced>>

(* Mutant: the P thread blocks at 0, as a comment of the code has it. *)
PWaiting(r) ==
  /\ job[r] = "thread" /\ DownAt(r, "idle") /\ downs[r] < Rounds /\ value[sem[r]] > 0
  /\ value' = [value EXCEPT ![sem[r]] = @ - 1] /\ down' = [down EXCEPT ![r] = "load"]
  /\ Unchanged /\ UNCHANGED <<cnt, up, ups, upLoad, downs, downLoad, raced>>

\* ptheadP: it posts, then counts down.
P(r) ==
  /\ job[r] = "thread" /\ DownAt(r, "idle") /\ downs[r] < Rounds
  /\ value' = [value EXCEPT ![sem[r]] = @ + 1] /\ down' = [down EXCEPT ![r] = "load"]
  /\ Unchanged /\ UNCHANGED <<cnt, up, ups, upLoad, downs, downLoad, raced>>

CountDown(r) ==
  /\ \/ /\ DownAt(r, "load") /\ down' = [down EXCEPT ![r] = "store"]
        /\ downLoad' = [downLoad EXCEPT ![r] = cnt[r]]
        /\ raced' = [raced EXCEPT ![r] = @ \/ up[r] = "store"] /\ UNCHANGED <<cnt, downs>>
     \/ /\ DownAt(r, "store") /\ down' = [down EXCEPT ![r] = "idle"]
        /\ cnt' = [cnt EXCEPT ![r] = downLoad[r] - 1] /\ downs' = [downs EXCEPT ![r] = @ + 1]
        /\ downLoad' = [downLoad EXCEPT ![r] = 0] /\ UNCHANGED raced
  /\ Unchanged /\ UNCHANGED <<value, up, ups, upLoad>>

(* Mutant: p() posts and leaves the count. *)
PosixPost(r) ==
  /\ job[r] = "posix" /\ At(r, "idle") /\ cnt[r] >= PosixValue
  /\ downs' = [downs EXCEPT ![r] = 1]
  /\ value' = [value EXCEPT ![sem[r]] = @ + 1]
  /\ Unchanged /\ UNCHANGED <<cnt, up, ups, upLoad, down, downLoad, raced>>

\* posix_sem.c's p() at the top, once.
PosixP(r) ==
  /\ job[r] = "posix" /\ At(r, "idle") /\ cnt[r] >= PosixValue
  /\ cnt' = [cnt EXCEPT ![r] = @ - 1] /\ downs' = [downs EXCEPT ![r] = 1]
  /\ value' = [value EXCEPT ![sem[r]] = @ + 1]
  /\ Unchanged /\ UNCHANGED <<up, ups, upLoad, down, downLoad, raced>>

\* With the process goes its memory.
Gone(r) ==
  /\ sem' = [sem EXCEPT ![r] = 0] /\ cnt' = [cnt EXCEPT ![r] = 0]
  /\ up' = [up EXCEPT ![r] = "idle"] /\ ups' = [ups EXCEPT ![r] = 0] /\ upLoad' = [upLoad EXCEPT ![r] = 0]
  /\ down' = [down EXCEPT ![r] = "idle"] /\ downs' = [downs EXCEPT ![r] = 0]
  /\ downLoad' = [downLoad EXCEPT ![r] = 0] /\ found' = [found EXCEPT ![r] = 0]
  /\ crowded' = [crowded EXCEPT ![r] = FALSE] /\ raced' = [raced EXCEPT ![r] = FALSE]
  /\ UNCHANGED <<job, value>>

\* The joins, sem_close and sem_unlink: the name is removed, whoever's it is now.
SemUnlink(r) ==
  /\ At(r, "idle") /\ down[r] = "idle"
  /\ IF job[r] = "thread" THEN ups[r] = Rounds /\ downs[r] = Rounds ELSE downs[r] = 1
  /\ rpc' = [rpc EXCEPT ![r] = "ended"] /\ named' = 0 /\ Gone(r)

\* Ctrl-C: the semaphore stays, with the value it has.
Kill(r) ==
  /\ Running(r) /\ rpc' = [rpc EXCEPT ![r] = "killed"] /\ Gone(r) /\ UNCHANGED named

-----------------------------------------------------------------------------
SemInit(jobs) ==
  /\ job \in jobs
  /\ rpc = [r \in Runs |-> "new"]
  /\ named = 0 /\ value = [n \in 1..Cardinality(Runs) |-> -1] /\ sem = [r \in Runs |-> 0]
  /\ cnt = [r \in Runs |-> 0]
  /\ up = [r \in Runs |-> "idle"] /\ ups = [r \in Runs |-> 0] /\ upLoad = [r \in Runs |-> 0]
  /\ down = [r \in Runs |-> "idle"] /\ downs = [r \in Runs |-> 0] /\ downLoad = [r \in Runs |-> 0]
  /\ found = [r \in Runs |-> 0]
  /\ crowded = [r \in Runs |-> FALSE] /\ raced = [r \in Runs |-> FALSE]

Jobs == [Runs -> {"thread", "posix"}]
UpThread(r) == CountUp(r) \/ V(r) \/ PosixP(r) \/ SemUnlink(r)
DownThread(r) == P(r) \/ CountDown(r)
SemNext == \E r \in Runs : SemOpen(r) \/ UpThread(r) \/ DownThread(r) \/ Kill(r)
SemFairness == \A r \in Runs : WF_semVars(UpThread(r)) /\ WF_semVars(DownThread(r))
SemSpec == SemInit(Jobs) /\ [][SemNext]_semVars /\ SemFairness

-----------------------------------------------------------------------------
(* Properties.                                                             *)

SemTypeOK ==
  /\ job \in Jobs /\ rpc \in [Runs -> {"new", "running", "ended", "killed"}]
  /\ named \in {0} \cup DOMAIN value /\ value \in [1..Cardinality(Runs) -> Nat \cup {-1}]
  /\ sem \in [Runs -> {0} \cup DOMAIN value]
  /\ cnt \in [Runs -> Int] /\ upLoad \in [Runs -> Int] /\ downLoad \in [Runs -> Int]
  /\ up \in [Runs -> {"idle", "store", "wait"}] /\ down \in [Runs -> {"idle", "load", "store"}]
  /\ ups \in [Runs -> Nat] /\ downs \in [Runs -> 0..Rounds \cup {1}]
  /\ found \in [Runs -> Nat]
  /\ crowded \in [Runs -> BOOLEAN] /\ raced \in [Runs -> BOOLEAN]

\* A run of thread.c always ends, whatever value a killed run has left in the semaphore,
\* as long as nobody else takes from it; one of posix_sem.c needs a new semaphore, and
\* waits for ever on the leftovers of a killed run.
RunsEnd ==
  \A r \in Runs :
    Running(r) ~> \/ rpc[r] \in {"ended", "killed"} \/ crowded[r]
                  \/ job[r] = "posix" /\ found[r] < PosixValue

\* Between the rounds the counter says how many were taken from the semaphore, unless
\* the two threads were inside cnt++ and cnt-- at once, where no semaphore keeps them apart.
CountTracksSemaphore ==
  \A r \in Runs :
    Running(r) /\ up[r] = "idle" /\ down[r] = "idle" /\ ~crowded[r] /\ ~raced[r]
      => cnt[r] = found[r] - value[sem[r]]
=============================================================================

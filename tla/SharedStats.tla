----------------------------- MODULE SharedStats -----------------------------
(***************************************************************************)
(* The statistics of webserver/stats/stats.c: counters in a memory region  *)
(* shared by main and all its children, a semaphore in a second one, and   *)
(* the statement every process uses to update them:                        *)
(*                                                                         *)
(*     sem_wait(shared_semaphore);                                         *)
(*     get_stats()->counter++;                                             *)
(*     sem_post(shared_semaphore);                                         *)
(*                                                                         *)
(* The increment is a load and a store.  sem_wait either takes a positive  *)
(* semaphore or puts its process to sleep in the kernel; a signal whose    *)
(* handler has SA_RESTART interrupts the sleep, and the restarted call     *)
(* looks at the semaphore again.  init_stats creates the semaphore with    *)
(* pshared = 0 and copies it into the shared region, so the kernel keeps   *)
(* the sleepers of each process apart: sem_post wakes sleepers of its own  *)
(* process only.                                                           *)
(***************************************************************************)
EXTENDS Naturals

CONSTANTS
  Procs,      \* the main process and the children it forks
  Counters,   \* the fields of web_stats
  MaxCount    \* bound: no increment starts once its counter is this high

ASSUME MaxCountAssumption == MaxCount \in Nat

VARIABLES
  sem,        \* the value of *shared_semaphore
  asleep,     \* processes the kernel has put to sleep in sem_wait
  phase,      \* where each process is in the three statements above
  want,       \* want[p]: the counter p is updating, {} outside the statements
  reg,        \* reg[p]: the value p has loaded
  stats       \* *shared_memory

statsVars == <<sem, asleep, phase, want, reg, stats>>

Phases == {"out", "wait", "in", "loaded", "stored"}

\* The processes that hold the semaphore.
Inside == {p \in Procs : phase[p] \in {"in", "loaded", "stored"}}

TypeOK ==
  /\ sem \in Nat
  /\ asleep \in SUBSET Procs
  /\ phase \in [Procs -> Phases]
  /\ want \in [Procs -> SUBSET Counters]
  /\ reg \in [Procs -> Nat]
  /\ stats \in [Counters -> Nat]

\* Variant for mutation testing: sem_init is given 2 as the initial value.
InitTwo ==
  /\ sem = 2
  /\ asleep = {}
  /\ phase = [p \in Procs |-> "out"]
  /\ want = [p \in Procs |-> {}]
  /\ reg = [p \in Procs |-> 0]
  /\ stats = [k \in Counters |-> 0]

\* init_stats: a semaphore of value 1 and counters at zero.
Init ==
  /\ sem = 1
  /\ asleep = {}
  /\ phase = [p \in Procs |-> "out"]
  /\ want = [p \in Procs |-> {}]
  /\ reg = [p \in Procs |-> 0]
  /\ stats = [k \in Counters |-> 0]

\* The second argument of sem_init.
PShared == FALSE

SharesFutex(p, q) == PShared \/ p = q

-------------------------------------------------------------------------------
(* The steps of one process.                                               *)

\* sem_wait is called on the way to counter k.
SemWait(p, k) ==
  /\ phase[p] = "out"
  /\ stats[k] < MaxCount
  /\ phase' = [phase EXCEPT ![p] = "wait"]
  /\ want' = [want EXCEPT ![p] = {k}]
  /\ UNCHANGED <<sem, asleep, reg, stats>>

\* sem_wait finds the semaphore positive and takes it.
SemTake(p) ==
  /\ phase[p] = "wait"
  /\ p \notin asleep
  /\ sem > 0
  /\ sem' = sem - 1
  /\ phase' = [phase EXCEPT ![p] = "in"]
  /\ UNCHANGED <<asleep, want, reg, stats>>

\* sem_wait finds it zero and sleeps.
SemSleep(p) ==
  /\ phase[p] = "wait"
  /\ p \notin asleep
  /\ sem = 0
  /\ asleep' = asleep \cup {p}
  /\ UNCHANGED <<sem, phase, want, reg, stats>>

\* Variant for mutation testing: without SA_RESTART the interrupted sem_wait
\* returns EINTR, and the code does not look at what sem_wait returns.
InterruptWithoutRestart(p) ==
  /\ p \in asleep
  /\ asleep' = asleep \ {p}
  /\ phase' = [phase EXCEPT ![p] = "in"]
  /\ UNCHANGED <<sem, want, reg, stats>>

\* A signal is handled by p and its sem_wait is restarted.
Interrupt(p) ==
  /\ p \in asleep
  /\ asleep' = asleep \ {p}
  /\ UNCHANGED <<sem, phase, want, reg, stats>>

Load(p) ==
  \E k \in want[p] :
    /\ phase[p] = "in"
    /\ reg' = [reg EXCEPT ![p] = stats[k]]
    /\ phase' = [phase EXCEPT ![p] = "loaded"]
    /\ UNCHANGED <<sem, asleep, want, stats>>

Store(p) ==
  \E k \in want[p] :
    /\ phase[p] = "loaded"
    /\ stats' = [stats EXCEPT ![k] = reg[p] + 1]
    /\ phase' = [phase EXCEPT ![p] = "stored"]
    /\ UNCHANGED <<sem, asleep, want, reg>>

\* The sleepers left after sem_post has asked the kernel to wake one of those
\* it can reach.
AfterWake(p) ==
  LET reach == {q \in asleep : SharesFutex(p, q)}
  IN  IF reach = {} THEN {asleep} ELSE {asleep \ {q} : q \in reach}

\* Variant for mutation testing: the semaphore is posted twice.
SemPostTwice(p) ==
  /\ phase[p] = "stored"
  /\ sem' = sem + 2
  /\ asleep' \in AfterWake(p)
  /\ phase' = [phase EXCEPT ![p] = "out"]
  /\ want' = [want EXCEPT ![p] = {}]
  /\ UNCHANGED <<reg, stats>>

SemPost(p) ==
  /\ phase[p] = "stored"
  /\ sem' = sem + 1
  /\ asleep' \in AfterWake(p)
  /\ phase' = [phase EXCEPT ![p] = "out"]
  /\ want' = [want EXCEPT ![p] = {}]
  /\ UNCHANGED <<reg, stats>>

\* One step of the increment that p has begun.
Advance(p) == SemTake(p) \/ SemSleep(p) \/ Load(p) \/ Store(p) \/ SemPost(p)

Next ==
  \E p \in Procs :
    \/ \E k \in Counters : SemWait(p, k)
    \/ Advance(p)
    \/ Interrupt(p)

Spec == Init /\ [][Next]_statsVars

-------------------------------------------------------------------------------
(* Properties.                                                             *)

\* Mutual exclusion: between sem_wait and sem_post of one process no other
\* process is between its own (main.c:89-91 and the child's copies of it).
MutualExclusion == \A p, q \in Inside : p = q

\* The semaphore is 1 exactly when nobody is inside.
SemaphoreCountsInside == sem = IF Inside = {} THEN 1 ELSE 0

\* What one process has loaded is still what memory holds.
LoadedIsFresh ==
  \A p \in Procs : phase[p] = "loaded" => \A k \in want[p] : reg[p] = stats[k]

\* Only a process that is waiting can be asleep, and a process is after one
\* counter exactly while it is in the three statements.
SleepersWait == \A p \in asleep : phase[p] = "wait"
OneCounter ==
  \A p \in Procs :
    IF phase[p] = "out" THEN want[p] = {} ELSE \E k \in Counters : want[p] = {k}

\* The inductive invariant behind the two theorems of SharedStats_proofs.
IInv ==
  /\ TypeOK
  /\ MutualExclusion
  /\ SemaphoreCountsInside
  /\ LoadedIsFresh
  /\ SleepersWait
  /\ OneCounter

\* Refinement: an increment is pending until its store, and the store is the
\* indivisible increment that AtomicStats asks for.
Pending(p) == IF phase[p] \in {"wait", "in", "loaded"} THEN want[p] ELSE {}

Atomic == INSTANCE AtomicStats
            WITH total <- stats, todo <- [p \in Procs |-> Pending(p)]

\* No increment is lost or made twice, whatever the interleaving: every step
\* of the processes is a step of AtomicStats or leaves its state alone.
IncrementsAreAtomic == Atomic!Spec
===============================================================================

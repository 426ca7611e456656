-------------------------- MODULE SharedStats_proofs --------------------------
(***************************************************************************)
(* For any set of processes, any set of counters and any bound: the        *)
(* semaphore of stats.c gives mutual exclusion, and the increments made    *)
(* under it implement the indivisible increments of AtomicStats.           *)
(***************************************************************************)
EXTENDS SharedStats, TLAPS

\* The state in which init_stats leaves the shared memory satisfies IInv.
LEMMA InitIInv == Init => IInv
BY DEF Init, IInv, TypeOK, Phases, Inside, MutualExclusion,
       SemaphoreCountsInside, LoadedIsFresh, SleepersWait, OneCounter

\* Whatever sem_post wakes, nobody new falls asleep.
LEMMA WakeShrinks ==
  ASSUME NEW p \in Procs, NEW S \in AfterWake(p)
  PROVE  S \subseteq asleep
BY DEF AfterWake

\* Every step of every process preserves the inductive invariant.
LEMMA StepIInv == IInv /\ [Next]_statsVars => IInv'
<1> SUFFICES ASSUME IInv, [Next]_statsVars PROVE IInv'
  OBVIOUS
<1> USE DEF IInv, TypeOK, Phases, Inside, MutualExclusion,
            SemaphoreCountsInside, LoadedIsFresh, SleepersWait, OneCounter
<1>1. ASSUME NEW p \in Procs, NEW k \in Counters, SemWait(p, k) PROVE IInv'
  BY <1>1 DEF SemWait
<1>2. ASSUME NEW p \in Procs, SemTake(p) PROVE IInv'
  BY <1>2 DEF SemTake
<1>3. ASSUME NEW p \in Procs, SemSleep(p) PROVE IInv'
  BY <1>3 DEF SemSleep
<1>4. ASSUME NEW p \in Procs, Load(p) PROVE IInv'
  BY <1>4 DEF Load
<1>5. ASSUME NEW p \in Procs, Store(p) PROVE IInv'
  BY <1>5 DEF Store
<1>6. ASSUME NEW p \in Procs, SemPost(p) PROVE IInv'
  <2>1. asleep' \subseteq asleep
    BY <1>6, WakeShrinks DEF SemPost
  <2>2. QED
    BY <1>6, <2>1 DEF SemPost
<1>7. ASSUME NEW p \in Procs, Interrupt(p) PROVE IInv'
  BY <1>7 DEF Interrupt
<1>8. CASE UNCHANGED statsVars
  BY <1>8 DEF statsVars
<1>9. QED
  BY <1>1, <1>2, <1>3, <1>4, <1>5, <1>6, <1>7, <1>8 DEF Next, Advance

\* IInv holds in every reachable state.
THEOREM Invariance == Spec => []IInv
<1>1. IInv /\ [Next]_statsVars => IInv'
  BY StepIInv
<1>2. QED
  BY InitIInv, <1>1, PTL DEF Spec

\* No two processes are between sem_wait and sem_post at the same time, for
\* any number of processes and of counters (main.c:89-91).
THEOREM MutualExclusionHolds == Spec => []MutualExclusion
<1>1. IInv => MutualExclusion
  BY DEF IInv
<1>2. QED
  BY Invariance, <1>1, PTL

-------------------------------------------------------------------------------

\* The initial state of stats.c is the initial state of AtomicStats.
LEMMA InitRefines == Init => Atomic!Init
BY DEF Init, Atomic!Init, Pending

\* A step of a process asks for an increment, commits one, or is invisible.
LEMMA StepRefines == IInv /\ [Next]_statsVars => [Atomic!Next]_(Atomic!absVars)
<1> SUFFICES ASSUME IInv, [Next]_statsVars
             PROVE  Atomic!Next \/ UNCHANGED Atomic!absVars
  OBVIOUS
<1> DEFINE todo == [p \in Procs |-> Pending(p)]
<1> USE DEF IInv, TypeOK, Phases
<1>a. ASSUME UNCHANGED stats, \A p \in Procs : Pending(p)' = Pending(p)
      PROVE  UNCHANGED Atomic!absVars
  BY <1>a DEF Atomic!absVars
<1>1. ASSUME NEW p \in Procs, NEW k \in Counters, SemWait(p, k)
      PROVE  Atomic!Ask(p, k)
  <2>1. todo' = [todo EXCEPT ![p] = {k}]
    BY <1>1 DEF SemWait, Pending
  <2>2. QED
    BY <1>1, <2>1 DEF SemWait, Pending, Atomic!Ask
<1>2. ASSUME NEW p \in Procs, SemTake(p) PROVE UNCHANGED Atomic!absVars
  BY <1>2, <1>a DEF SemTake, Pending
<1>3. ASSUME NEW p \in Procs, SemSleep(p) PROVE UNCHANGED Atomic!absVars
  BY <1>3, <1>a DEF SemSleep, Pending
<1>4. ASSUME NEW p \in Procs, Load(p) PROVE UNCHANGED Atomic!absVars
  BY <1>4, <1>a DEF Load, Pending
<1>5. ASSUME NEW p \in Procs, Store(p) PROVE Atomic!Commit(p)
  <2>1. PICK k \in want[p] :
          phase[p] = "loaded" /\ stats' = [stats EXCEPT ![k] = reg[p] + 1]
    BY <1>5 DEF Store
  <2>2. stats' = [stats EXCEPT ![k] = @ + 1]
    BY <2>1 DEF LoadedIsFresh
  <2>3. todo' = [todo EXCEPT ![p] = {}]
    BY <1>5 DEF Store, Pending
  <2>4. k \in todo[p]
    BY <2>1 DEF Pending
  <2>5. QED
    BY <2>2, <2>3, <2>4 DEF Atomic!Commit
<1>6. ASSUME NEW p \in Procs, SemPost(p) PROVE UNCHANGED Atomic!absVars
  BY <1>6, <1>a DEF SemPost, Pending
<1>7. ASSUME NEW p \in Procs, Interrupt(p) PROVE UNCHANGED Atomic!absVars
  BY <1>7, <1>a DEF Interrupt, Pending
<1>8. CASE UNCHANGED statsVars
  BY <1>8, <1>a DEF statsVars, Pending
<1>9. QED
  BY <1>1, <1>2, <1>3, <1>4, <1>5, <1>6, <1>7, <1>8
     DEF Next, Advance, Atomic!Next

\* The semaphore-protected ++ of main.c implements an indivisible increment:
\* none is lost and none is counted twice, for any number of processes.
THEOREM Refinement == Spec => IncrementsAreAtomic
<1>1. IInv /\ [Next]_statsVars => [Atomic!Next]_(Atomic!absVars)
  BY StepRefines
<1>2. QED
  BY InitRefines, <1>1, Invariance, PTL DEF Spec, IncrementsAreAtomic, Atomic!Spec
===============================================================================

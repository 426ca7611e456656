----------------------------- MODULE AtomicStats -----------------------------
(***************************************************************************)
(* What the shared statistics promise: a process asks for one counter to   *)
(* be incremented, and the increment takes effect exactly once, in one     *)
(* indivisible step.  Nothing here mentions a semaphore, a register or a   *)
(* load and a store: SharedStats has those and is shown to implement this. *)
(***************************************************************************)
EXTENDS Naturals

CONSTANTS
  Procs,      \* the main process and the children it forks
  Counters,   \* the fields of web_stats
  MaxCount    \* no increment is asked for once a counter is this high

VARIABLES
  total,      \* the value of every counter
  todo        \* todo[p]: the counter p still has to increment, {} for none

absVars == <<total, todo>>

Init ==
  /\ total = [k \in Counters |-> 0]
  /\ todo  = [p \in Procs |-> {}]

\* p has reached the statement that increments counter k.
Ask(p, k) ==
  /\ todo[p] = {}
  /\ total[k] < MaxCount
  /\ todo' = [todo EXCEPT ![p] = {k}]
  /\ UNCHANGED total

\* The increment of p takes effect.
Commit(p) ==
  \E k \in todo[p] :
    /\ total' = [total EXCEPT ![k] = @ + 1]
    /\ todo'  = [todo EXCEPT ![p] = {}]

Next == \E p \in Procs : Commit(p) \/ \E k \in Counters : Ask(p, k)

Spec == Init /\ [][Next]_absVars
===============================================================================

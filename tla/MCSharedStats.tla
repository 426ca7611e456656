---------------------------- MODULE MCSharedStats ----------------------------
(* SharedStats with four processes that update two counters.              *)
EXTENDS SharedStats, TLC

\* Processes are interchangeable in SharedStats, and so are counters.
Symmetry == Permutations(Procs) \cup Permutations(Counters)
===============================================================================

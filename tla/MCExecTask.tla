----------------------------- MODULE MCExecTask -----------------------------
(* ExecTask for TLC: the constants are model values given in the .cfg files *)
EXTENDS ExecTask, TLC

\* Threads outside Runners, rows and Event objects are interchangeable.
Symmetric == Permutations(Threads \ Runners) \cup Permutations(Runners)
             \cup Permutations(Recs) \cup Permutations(Events)
=============================================================================

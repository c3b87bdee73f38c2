-------------------------- MODULE MCDiscoveryJobs ---------------------------
(* DiscoveryJobs for TLC: two tasks, 1 and 10.                                *)
EXTENDS DiscoveryJobs, Integers, TLC

CONSTANTS t1, t2

MCHits == [i \in Tasks |-> IF i = 1 THEN {10} \cap Tasks ELSE {}]

Symmetric == Permutations(Threads)

=============================================================================

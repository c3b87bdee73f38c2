---------------------------- MODULE MCEscalation ----------------------------
(* Escalation for TLC: a policy that repeats and one that does not, for two *)
(* alerts of one group.                                                     *)
EXTENDS Escalation, TLC

CONSTANTS a1, a2, cron, req, g

MCScope   == <<{a1}, {a2}>>
MCFrom    == <<"warning", "warning">>
MCTarget  == <<"critical", "critical">>
MCMost    == <<1, 1>>
MCGroupOf == [a \in {a1, a2} |-> g]

Symmetric == Permutations(Runs)

=============================================================================

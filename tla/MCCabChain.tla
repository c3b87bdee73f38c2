----------------------------- MODULE MCCabChain -----------------------------
(* CabChain for TLC: two configurations an administrator may switch between *)
EXTENDS CabChain

CONSTANTS u1, u2

Any(approvers) == [approvers |-> approvers, mode |-> "any"]
All(approvers) == [approvers |-> approvers, mode |-> "all"]

\* Two stages, the first of which takes either of two approvers.
TwoStage == <<Any({u1, u2}), All({u1})>>

\* All of two approvers, and an open stage like the one of the default chain.
AllThenOpen == <<All({u1, u2}), Any({})>>

LongConfigs == {TwoStage, AllThenOpen}
JustTwo     == {TwoStage}
=============================================================================

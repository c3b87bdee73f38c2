-------------------------- MODULE MCFlowCollector ---------------------------
(* FlowCollector for TLC: four records, a buffer of two, two stop requests    *)
EXTENDS FlowCollector

=============================================================================

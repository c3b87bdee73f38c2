---------------------------- MODULE MCDiscovery -----------------------------
(* Discovery for TLC: the constants are model values given in the .cfg file  *)
EXTENDS Discovery

CONSTANTS t1, t2, w1, c, e1, e2, e3

=============================================================================

------------------------------ MODULE MCMonitor ------------------------------
(* An instance of Monitor for TLC.                                          *)
EXTENDS Monitor, TLC

CONSTANTS t1, t2

Two == {t1, t2}
Traces == Permutations(Trace)
=============================================================================

----------------------------- MODULE MCChatTrace -----------------------------
(* Instances of ChatTrace for TLC.                                          *)
EXTENDS ChatTrace, TLC

CONSTANTS t1, t2

Two == {t1, t2}
Traces == Permutations(Trace)
TwoStrategies == {"hard_stop", "soft_alert"}
=============================================================================

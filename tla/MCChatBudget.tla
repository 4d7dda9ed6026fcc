---------------------------- MODULE MCChatBudget ----------------------------
(* Instances of ChatBudget for TLC.                                         *)
EXTENDS ChatBudget, TLC

CONSTANTS r1, r2, r3

One == {r1}
Two == {r1, r2}
Three == {r1, r2, r3}
Requests == Permutations(Request)
=============================================================================

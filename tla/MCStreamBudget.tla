---------------------------- MODULE MCStreamBudget ----------------------------
(* Instances of StreamBudget for TLC.                                       *)
EXTENDS StreamBudget, TLC

CONSTANTS r1, r2, s1, s2

TwoRequests == {r1, r2}
TwoStreams == {s1, s2}

\* A priced model that degrades to one without a price.
Prices == [dear |-> 2, plain |-> 0]
Degrades == [dear |-> "plain", plain |-> "plain"]
Streams == Permutations(Stream)
Symmetry == Permutations(Request) \union Streams
=============================================================================

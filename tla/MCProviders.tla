----------------------------- MODULE MCProviders -----------------------------
(* Instances of Providers for TLC.                                          *)
EXTENDS Providers, TLC

CONSTANTS p1, p2, m1, c1, a1, a2, fine, coarse, huge

TwoProviders == {p1, p2}
OneModel == {m1}
OneChat == {c1}
OneAdmin == {a1}
TwoAdmins == {a1, a2}
SameModel == [c \in Chat |-> m1]
\* A price that is rounded, one that is not, one that does not fit.
ThreePrices == {fine, coarse, huge}
Rounds == fine :> coarse @@ coarse :> coarse @@ huge :> Refused
TwoUpstreams == p1 :> {} @@ p2 :> {m1}
=============================================================================

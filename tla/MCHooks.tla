------------------------------- MODULE MCHooks -------------------------------
(* An instance of Hooks for TLC.                                              *)
EXTENDS Hooks, TLC

CONSTANTS r1, r2, r3, session1

ThreeRequests == {r1, r2, r3}
OneSession == {session1}
SameSession == [r \in Request |-> session1]
Kinds == {"email", "credit_card"}
Prompts ==
  r1 :> <<"email">> @@ r2 :> <<"email", "credit_card">> @@ r3 :> <<>>
LimiterFirst == {<<"noop", "rate-limiter", "pii-detector">>}
=============================================================================

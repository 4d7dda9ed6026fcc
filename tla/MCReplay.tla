------------------------------ MODULE MCReplay ------------------------------
(* Instances of Replay for TLC.                                             *)
EXTENDS Replay, TLC

CONSTANTS c1, r1, r2, m1, m2, a, b

OneChat == {c1}
OneEval == {r1}
TwoEvals == {r1, r2}
TwoModels == {m1, m2}
OneRoute == {m1}
Runes == {a, b}
Widths == a :> 1 @@ b :> 2
Names == {"temperature"}
NoOrColder == {<<>>, "temperature" :> 1}
NoOverride == {}

ThreeWishes ==
  {[model |-> None, params |-> NoParams], [model |-> None, params |-> <<>>],
   [model |-> m1, params |-> "temperature" :> 1]}

TwoAnswers ==
  {[response |-> <<a, b>>, tokens |-> 3, finish |-> "stop"],
   [response |-> <<>>, tokens |-> 1, finish |-> ""]}
=============================================================================

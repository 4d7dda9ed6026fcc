------------------------------ MODULE MCDiffer ------------------------------
(* Instances of Differ for TLC: every pair of short responses, and pairs of  *)
(* longer ones beside every change of the other fields.                      *)
EXTENDS Differ, TLC

CONSTANTS a, b, w

Runes == {a, b, w}
Widths == a :> 1 @@ b :> 1 @@ w :> 3
Names == {"temperature", "user"}
CriticalNames == {"temperature"}

T(id, model, params, response, tokens, finish) ==
  [id |-> id, model |-> model, params |-> params, response |-> response,
   tokens |-> tokens, cost |-> tokens, finish |-> finish]

Short == {NoResponse} \union UNION {[1 .. n -> Runes] : n \in 0 .. 3}

ShortPairs ==
  {<<T("chat", "m1", NoParams, s1, 2, "stop"),
     T("replay", m, NoParams, s2, 2, "stop")>> :
     s1 \in Short, s2 \in Short, m \in {"m1", "m2"}}

Repeated(rune, n) == [i \in 1 .. n |-> rune]

\* Ten runes, the last n of which are those of Repeated(a, 10).
Alike(n) == [i \in 1 .. 10 |-> IF i > 10 - n THEN a ELSE b]

Tokens == {<<2, 2>>, <<2, 3>>, <<2, 4>>, <<2, 5>>, <<0, 3>>}
Finishes == {<<"stop", "stop">>, <<"stop", "length">>, <<"stop", "error">>, <<"length", "stop">>}

LongPairs ==
  {<<T("chat", "m1", "temperature" :> 1 @@ "user" :> 1, Repeated(a, 10), t[1], f[1]),
     T("replay", m, p, Alike(n), t[2], f[2])>> :
     n \in 2 .. 10, m \in {"m1", "m2"},
     p \in {NoParams, "temperature" :> 1 @@ "user" :> 1, "user" :> 1,
            "temperature" :> 1 @@ "user" :> 2},
     t \in Tokens, f \in Finishes}

AllPairs == ShortPairs \union LongPairs
=============================================================================

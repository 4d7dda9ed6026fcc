------------------------------- MODULE SpendCap -------------------------------
(***************************************************************************)
(* What a budget store promises a session: an account is opened with a cap *)
(* and nothing taken; whatever is taken afterwards fits under the cap; and *)
(* no more is given back than was taken.                                   *)
(***************************************************************************)
EXTENDS Integers

CONSTANT Account

VARIABLES cap, taken

NothingOpen ==
  /\ cap = [a \in Account |-> 0]
  /\ taken = [a \in Account |-> 0]

Open(a, amount) ==
  /\ cap' = [cap EXCEPT ![a] = amount]
  /\ taken' = [taken EXCEPT ![a] = 0]

Take(a, amount) ==
  /\ amount > 0
  /\ taken[a] + amount <= cap[a]
  /\ taken' = [taken EXCEPT ![a] = @ + amount]
  /\ UNCHANGED cap

GiveBack(a, amount) ==
  /\ amount \in 1 .. taken[a]
  /\ taken' = [taken EXCEPT ![a] = @ - amount]
  /\ UNCHANGED cap

\* The amounts are whatever the new state shows, so that TLC can evaluate the
\* step relation without enumerating the integers.
CapStep ==
  \E a \in Account :
    \/ Open(a, cap'[a])
    \/ Take(a, taken'[a] - taken[a])
    \/ GiveBack(a, taken[a] - taken'[a])

CapSpec == NothingOpen /\ [][CapStep]_<<cap, taken>>
=============================================================================

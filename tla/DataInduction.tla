---------------------------- MODULE DataInduction ----------------------------
(***************************************************************************)
(* Induction over data, in a form that first-order provers can use: the    *)
(* theorems of the library take the formula to be proved as an operator,   *)
(* the lemmas here take the set of the values it holds for.                *)
(***************************************************************************)
EXTENDS Integers, FiniteSetsExt, FiniteSetTheorems, WellFoundedInduction, TLAPS

\* A set of numbers that is not empty has a least element.
LEMMA LeastNumber ==
  ASSUME NEW T \in SUBSET Nat, T # {}
  PROVE  \E m \in T : \A k \in T : m <= k
<1> DEFINE Less == {ss \in Nat \X Nat : ss[1] < ss[2]}
<1>1. IsWellFoundedOn(Less, Nat)
  BY NatLessThanWellFounded, Zenon DEF OpToRel, IsWellFoundedOn
<1>2. PICK m \in T : \A k \in T : ~ (<<k, m>> \in Less)
  BY <1>1, WFMin
<1>3. \A k \in T : k \in Nat /\ m \in Nat /\ ~ (k < m)
  BY <1>2
<1> QED BY <1>3

\* A set that has each number of which it has all smaller ones has them all.
LEMMA NumberInduction ==
  ASSUME NEW Good \in SUBSET Nat,
         \A n \in Nat : (\A k \in Nat : k < n => k \in Good) => n \in Good
  PROVE  Good = Nat
<1> SUFFICES ASSUME Nat \ Good # {} PROVE FALSE
  OBVIOUS
<1>1. PICK m \in Nat \ Good : \A k \in Nat \ Good : m <= k
  BY LeastNumber
<1> QED BY <1>1

\* A collection that has each finite set of which it has all smaller subsets has
\* them all.
LEMMA SetInduction ==
  ASSUME NEW S, IsFiniteSet(S), NEW Good \in SUBSET SUBSET S,
         \A T \in SUBSET S : (\A U \in SUBSET T : U # T => U \in Good) => T \in Good
  PROVE  Good = SUBSET S
<1> DEFINE Sizes == {n \in Nat : \A T \in SUBSET S : Cardinality(T) = n => T \in Good}
<1>1. \A T \in SUBSET S : IsFiniteSet(T) /\ Cardinality(T) \in Nat
  BY FS_Subset, FS_CardinalityType
<1>2. \A T \in SUBSET S : \A U \in SUBSET T : U # T => Cardinality(U) < Cardinality(T)
  <2> SUFFICES ASSUME NEW T \in SUBSET S, NEW U \in SUBSET T, U # T
               PROVE  Cardinality(U) < Cardinality(T)
    OBVIOUS
  <2>1. Cardinality(U) <= Cardinality(T) /\ (Cardinality(U) = Cardinality(T) => U = T)
    BY <1>1, FS_Subset
  <2> QED BY <1>1, <2>1
<1>3. ASSUME NEW n \in Nat, \A k \in Nat : k < n => k \in Sizes
      PROVE  n \in Sizes
  <2> SUFFICES ASSUME NEW T \in SUBSET S, Cardinality(T) = n PROVE T \in Good
    OBVIOUS
  <2>1. ASSUME NEW U \in SUBSET T, U # T PROVE U \in Good
    <3>1. Cardinality(U) \in Nat /\ Cardinality(U) < n
      BY <1>1, <1>2, <2>1
    <3> QED BY <1>3, <3>1
  <2> QED BY <2>1
<1>4. Sizes = Nat
  <2> HIDE DEF Sizes
  <2>1. Sizes \in SUBSET Nat BY DEF Sizes
  <2> QED BY <1>3, <2>1, NumberInduction
<1> QED BY <1>1, <1>4

\* g starts with a value and has each other value from the one before.
Recursive(g, V, base, step, N) ==
  /\ g \in [0 .. N -> V] /\ g[0] = base
  /\ \A n \in 1 .. N : g[n] = step[<<n, g[n - 1]>>]

\* There is such a function.
LEMMA RecursionExists ==
  ASSUME NEW V, NEW base \in V, NEW step \in [Nat \X V -> V], NEW N \in Nat
  PROVE  \E g : Recursive(g, V, base, step, N)
<1> DEFINE Follows(g, m) == Recursive(g, V, base, step, m)
           Good == {m \in Nat : \E g : Follows(g, m)}
<1> USE DEF Recursive
<1>1. \E g : Follows(g, 0)
  <2> DEFINE g == [n \in 0 .. 0 |-> base]
  <2>1. Follows(g, 0) OBVIOUS
  <2> QED BY <2>1
<1>2. ASSUME NEW m \in Nat, \E g : Follows(g, m) PROVE \E g : Follows(g, m + 1)
  <2>1. PICK g : Follows(g, m) BY <1>2
  <2> DEFINE h == [n \in 0 .. m + 1 |-> IF n = m + 1 THEN step[<<m + 1, g[m]>>] ELSE g[n]]
  <2>2. g[m] \in V /\ step[<<m + 1, g[m]>>] \in V
    <3>1. g[m] \in V /\ m + 1 \in Nat BY <2>1
    <3> QED BY <3>1
  <2>3. h \in [0 .. m + 1 -> V]
    <3> SUFFICES ASSUME NEW n \in 0 .. m + 1
                 PROVE  (IF n = m + 1 THEN step[<<m + 1, g[m]>>] ELSE g[n]) \in V
      OBVIOUS
    <3>1. n # m + 1 => n \in 0 .. m OBVIOUS
    <3> QED BY <2>1, <2>2, <3>1
  <2>4. h[0] = base /\ h[m + 1] = step[<<m + 1, g[m]>>] /\ \A n \in 0 .. m : h[n] = g[n]
    BY <2>1
  <2> HIDE DEF h
  <2>5. ASSUME NEW n \in 1 .. m + 1 PROVE h[n] = step[<<n, h[n - 1]>>]
    <3>1. n - 1 \in 0 .. m OBVIOUS
    <3>2. h[n - 1] = g[n - 1] BY <2>4, <3>1
    <3>3. CASE n = m + 1
      <4>1. n - 1 = m BY <3>3
      <4> QED BY <2>4, <3>2, <3>3, <4>1
    <3>4. CASE n # m + 1
      <4>1. n \in 1 .. m /\ n \in 0 .. m BY <3>4
      <4> QED BY <2>1, <2>4, <3>2, <4>1
    <3> QED BY <3>3, <3>4
  <2> QED BY <2>3, <2>4, <2>5
<1>3. Good = Nat
  <2> HIDE DEF Follows
  <2>1. ASSUME NEW n \in Nat, \A k \in Nat : k < n => k \in Good PROVE n \in Good
    <3>1. CASE n = 0 BY <1>1, <3>1
    <3>2. CASE n # 0
      <4>1. n - 1 \in Nat /\ n - 1 < n /\ (n - 1) + 1 = n BY <3>2
      <4> QED BY <1>2, <2>1, <4>1
    <3> QED BY <3>1, <3>2
  <2>2. Good \in SUBSET Nat OBVIOUS
  <2> HIDE DEF Good
  <2> QED BY <2>1, <2>2, NumberInduction
<1> QED BY <1>3

-----------------------------------------------------------------------------
(***************************************************************************)
(* Sums.  SumFunctionOnSet(f, S) is the value at S of a function that takes *)
(* the elements out of a set one by one, in the order in which CHOOSE finds *)
(* them; what it comes to does not depend on that order.                   *)
(***************************************************************************)
First(s) == CHOOSE x \in s : TRUE

\* What g has to be at s to be a sum of f.
Adds(g, f, s) == g[s] = IF s = {} THEN 0 ELSE f[First(s)] + g[s \ {First(s)}]

Sums(f, S) ==
  CHOOSE g : g = [s \in SUBSET S |-> IF s = {} THEN 0 ELSE f[First(s)] + g[s \ {First(s)}]]

LEMMA FirstFact == \A s : s # {} => First(s) \in s
  BY DEF First

\* Without its first element a set is smaller.
LEMMA RestFact ==
  ASSUME NEW S, IsFiniteSet(S), NEW s \in SUBSET S, s # {}
  PROVE  /\ s \ {First(s)} \in SUBSET S
         /\ Cardinality(s) \in Nat /\ Cardinality(s \ {First(s)}) \in Nat
         /\ Cardinality(s \ {First(s)}) < Cardinality(s)
<1>1. First(s) \in s /\ IsFiniteSet(s)
  BY FirstFact, FS_Subset
<1>2. Cardinality(s \ {First(s)}) = Cardinality(s) - 1 /\ Cardinality(s) \in Nat
  BY <1>1, FS_RemoveElement, FS_CardinalityType
<1>3. Cardinality(s \ {First(s)}) \in Nat
  BY <1>1, FS_Subset, FS_CardinalityType
<1> QED BY <1>2, <1>3

\* There is such a function, as can be seen for larger and larger sets.
LEMMA SumsDefined ==
  ASSUME NEW S, IsFiniteSet(S), NEW f
  PROVE  Sums(f, S) = [s \in SUBSET S |-> IF s = {} THEN 0
                                          ELSE f[First(s)] + Sums(f, S)[s \ {First(s)}]]
<1> DEFINE UpTo(n) == \E g : \A s \in SUBSET S : Cardinality(s) <= n => Adds(g, f, s)
           Sizes == {n \in Nat : UpTo(n)}
<1>1. \A s \in SUBSET S : /\ Cardinality(s) \in Nat
                          /\ Cardinality(s) = 0 <=> s = {}
  BY FS_Subset, FS_CardinalityType, FS_EmptySet
<1>2. UpTo(0)
  <2> DEFINE g == [s \in SUBSET S |-> 0]
  <2>1. \A s \in SUBSET S : Cardinality(s) <= 0 => Adds(g, f, s)
    BY <1>1 DEF Adds
  <2> HIDE DEF g
  <2> QED BY <2>1
<1>3. ASSUME NEW n \in Nat, UpTo(n) PROVE UpTo(n + 1)
  <2>1. PICK g : \A s \in SUBSET S : Cardinality(s) <= n => Adds(g, f, s)
    BY <1>3
  <2> DEFINE h == [s \in SUBSET S |-> IF Cardinality(s) = n + 1
                                      THEN f[First(s)] + g[s \ {First(s)}] ELSE g[s]]
  <2>2. ASSUME NEW s \in SUBSET S, Cardinality(s) <= n + 1 PROVE Adds(h, f, s)
    <3>1. CASE s = {}
      <4>1. h[s] = g[s] /\ Adds(g, f, s)
        BY <1>1, <2>1, <3>1
      <4> QED BY <3>1, <4>1 DEF Adds
    <3>2. CASE s # {}
      <4> DEFINE rest == s \ {First(s)}
      <4>1. rest \in SUBSET S /\ Cardinality(rest) \in Nat /\ Cardinality(rest) < Cardinality(s)
        BY <3>2, RestFact
      <4>2. h[rest] = g[rest]
        BY <1>1, <2>2, <4>1
      <4>3. h[s] = f[First(s)] + g[rest]
        <5>1. CASE Cardinality(s) = n + 1 BY <5>1
        <5>2. CASE Cardinality(s) # n + 1
          <6>1. Cardinality(s) <= n BY <1>1, <2>2, <5>2
          <6>2. Adds(g, f, s) BY <2>1, <6>1
          <6> QED BY <3>2, <5>2, <6>2 DEF Adds
        <5> QED BY <5>1, <5>2
      <4> HIDE DEF h
      <4> QED BY <3>2, <4>2, <4>3 DEF Adds
    <3> QED BY <3>1, <3>2
  <2> HIDE DEF h
  <2> QED BY <2>2
<1>4. Sizes = Nat
  <2> HIDE DEF UpTo
  <2>1. ASSUME NEW n \in Nat, \A k \in Nat : k < n => k \in Sizes PROVE n \in Sizes
    <3>1. CASE n = 0 BY <1>2, <3>1
    <3>2. CASE n # 0
      <4>1. n - 1 \in Nat /\ n - 1 < n /\ (n - 1) + 1 = n BY <3>2
      <4> QED BY <1>3, <2>1, <4>1
    <3> QED BY <3>1, <3>2
  <2>2. Sizes \in SUBSET Nat OBVIOUS
  <2> HIDE DEF Sizes
  <2> QED BY <2>1, <2>2, NumberInduction
<1>5. PICK g : \A s \in SUBSET S : Adds(g, f, s)
  <2>1. Cardinality(S) \in Nat /\ \A s \in SUBSET S : Cardinality(s) <= Cardinality(S)
    BY FS_Subset, FS_CardinalityType
  <2>2. UpTo(Cardinality(S)) BY <1>4, <2>1
  <2> QED BY <2>1, <2>2
<1> DEFINE h == [s \in SUBSET S |-> g[s]]
<1>6. h = [s \in SUBSET S |-> IF s = {} THEN 0 ELSE f[First(s)] + h[s \ {First(s)}]]
  <2> SUFFICES ASSUME NEW s \in SUBSET S
               PROVE  g[s] = IF s = {} THEN 0 ELSE f[First(s)] + h[s \ {First(s)}]
    OBVIOUS
  <2>1. s \ {First(s)} \in SUBSET S /\ Adds(g, f, s) BY <1>5
  <2> QED BY <2>1 DEF Adds
<1> HIDE DEF h
<1> QED BY <1>6 DEF Sums

\* The sums over a set are those over a larger one.
LEMMA SumsAgree ==
  ASSUME NEW S, IsFiniteSet(S), NEW T \in SUBSET S, NEW f
  PROVE  Sums(f, T)[T] = Sums(f, S)[T]
<1> DEFINE Good == {U \in SUBSET T : Sums(f, T)[U] = Sums(f, S)[U]}
<1>1. IsFiniteSet(T) BY FS_Subset
<1>2. ASSUME NEW U \in SUBSET T, \A V \in SUBSET U : V # U => V \in Good
      PROVE  U \in Good
  <2>1. U \in SUBSET S OBVIOUS
  <2>2. /\ Sums(f, T)[U] = IF U = {} THEN 0 ELSE f[First(U)] + Sums(f, T)[U \ {First(U)}]
        /\ Sums(f, S)[U] = IF U = {} THEN 0 ELSE f[First(U)] + Sums(f, S)[U \ {First(U)}]
    <3> DEFINE sum(g, V) == IF V = {} THEN 0 ELSE f[First(V)] + g[V \ {First(V)}]
    <3>1. /\ Sums(f, T) = [V \in SUBSET T |-> sum(Sums(f, T), V)]
          /\ Sums(f, S) = [V \in SUBSET S |-> sum(Sums(f, S), V)]
      BY <1>1, SumsDefined
    <3> HIDE DEF sum
    <3>2. Sums(f, T)[U] = sum(Sums(f, T), U) /\ Sums(f, S)[U] = sum(Sums(f, S), U)
      BY <2>1, <3>1
    <3> QED BY <3>2 DEF sum
  <2>3. U # {} => U \ {First(U)} \in Good
    BY <1>2, FirstFact
  <2> QED BY <2>2, <2>3
<1>3. Good = SUBSET T
  <2>1. Good \in SUBSET SUBSET T OBVIOUS
  <2> HIDE DEF Good
  <2> QED BY <1>1, <1>2, <2>1, SetInduction
<1> QED BY <1>3

LEMMA SumIsSums ==
  ASSUME NEW S, NEW f
  PROVE  SumFunctionOnSet(f, S) = Sums(f, S)[S]
  BY DEF SumFunctionOnSet, FoldFunctionOnSet, MapThenFoldSet, Sums, First

\* A sum without the first element.
LEMMA SumFirst ==
  ASSUME NEW S, IsFiniteSet(S), NEW f
  PROVE  SumFunctionOnSet(f, S)
           = IF S = {} THEN 0 ELSE f[First(S)] + SumFunctionOnSet(f, S \ {First(S)})
<1>1. Sums(f, S)[S] = IF S = {} THEN 0 ELSE f[First(S)] + Sums(f, S)[S \ {First(S)}]
  <2> DEFINE sum(g, V) == IF V = {} THEN 0 ELSE f[First(V)] + g[V \ {First(V)}]
  <2>1. Sums(f, S) = [V \in SUBSET S |-> sum(Sums(f, S), V)]
    BY SumsDefined
  <2> HIDE DEF sum
  <2>2. Sums(f, S)[S] = sum(Sums(f, S), S)
    BY <2>1
  <2> QED BY <2>2 DEF sum
<1>2. Sums(f, S)[S \ {First(S)}] = Sums(f, S \ {First(S)})[S \ {First(S)}]
  BY SumsAgree
<1> QED BY <1>1, <1>2, SumIsSums

LEMMA SumEmpty == \A f : SumFunctionOnSet(f, {}) = 0
  BY SumFirst, FS_EmptySet

\* The type of a sum.
LEMMA SumType ==
  ASSUME NEW S, IsFiniteSet(S), NEW f, \A x \in S : f[x] \in Int
  PROVE  SumFunctionOnSet(f, S) \in Int
<1> DEFINE Good == {T \in SUBSET S : SumFunctionOnSet(f, T) \in Int}
<1>1. ASSUME NEW T \in SUBSET S, \A U \in SUBSET T : U # T => U \in Good PROVE T \in Good
  <2>1. T # {} => First(T) \in S /\ T \ {First(T)} \in Good
    BY <1>1, FirstFact
  <2>2. SumFunctionOnSet(f, T)
           = IF T = {} THEN 0 ELSE f[First(T)] + SumFunctionOnSet(f, T \ {First(T)})
    BY FS_Subset, SumFirst
  <2> QED BY <2>1, <2>2
<1>2. Good = SUBSET S
  <2>1. Good \in SUBSET SUBSET S OBVIOUS
  <2> HIDE DEF Good
  <2> QED BY <1>1, <2>1, SetInduction
<1> QED BY <1>2

LEMMA SumNat ==
  ASSUME NEW S, IsFiniteSet(S), NEW f, \A x \in S : f[x] \in Nat
  PROVE  SumFunctionOnSet(f, S) \in Nat
<1> DEFINE Good == {T \in SUBSET S : SumFunctionOnSet(f, T) \in Nat}
<1>1. ASSUME NEW T \in SUBSET S, \A U \in SUBSET T : U # T => U \in Good PROVE T \in Good
  <2>1. T # {} => First(T) \in S /\ T \ {First(T)} \in Good
    BY <1>1, FirstFact
  <2>2. SumFunctionOnSet(f, T)
           = IF T = {} THEN 0 ELSE f[First(T)] + SumFunctionOnSet(f, T \ {First(T)})
    BY FS_Subset, SumFirst
  <2> QED BY <2>1, <2>2
<1>2. Good = SUBSET S
  <2>1. Good \in SUBSET SUBSET S OBVIOUS
  <2> HIDE DEF Good
  <2> QED BY <1>1, <2>1, SetInduction
<1> QED BY <1>2

\* Any element may be taken out, not only the first.
LEMMA SumWithout ==
  ASSUME NEW S, IsFiniteSet(S), NEW f, \A x \in S : f[x] \in Int, NEW a \in S
  PROVE  SumFunctionOnSet(f, S) = f[a] + SumFunctionOnSet(f, S \ {a})
<1> DEFINE Good == {T \in SUBSET S : \A b \in T :
                      SumFunctionOnSet(f, T) = f[b] + SumFunctionOnSet(f, T \ {b})}
<1>1. ASSUME NEW T \in SUBSET S, \A U \in SUBSET T : U # T => U \in Good PROVE T \in Good
  <2> SUFFICES ASSUME NEW b \in T
               PROVE  SumFunctionOnSet(f, T) = f[b] + SumFunctionOnSet(f, T \ {b})
    OBVIOUS
  <2> DEFINE p == First(T)
  <2>1. p \in T /\ T # {} BY FirstFact
  <2>2. SumFunctionOnSet(f, T) = f[p] + SumFunctionOnSet(f, T \ {p})
    BY <2>1, FS_Subset, SumFirst
  <2> HIDE DEF p
  <2>3. CASE b = p BY <2>2, <2>3
  <2>4. CASE b # p
    <3>1. SumFunctionOnSet(f, T \ {p}) = f[b] + SumFunctionOnSet(f, (T \ {p}) \ {b})
      <4>1. T \ {p} \in Good BY <1>1, <2>1
      <4> QED BY <2>4, <4>1
    <3>2. SumFunctionOnSet(f, T \ {b}) = f[p] + SumFunctionOnSet(f, (T \ {b}) \ {p})
      <4>1. T \ {b} \in Good BY <1>1
      <4> QED BY <2>1, <2>4, <4>1
    <3>3. (T \ {b}) \ {p} = (T \ {p}) \ {b} OBVIOUS
    <3>4. /\ f[p] \in Int /\ f[b] \in Int
          /\ SumFunctionOnSet(f, (T \ {p}) \ {b}) \in Int
      <4>1. IsFiniteSet((T \ {p}) \ {b}) BY FS_Subset
      <4>2. \A x \in (T \ {p}) \ {b} : f[x] \in Int OBVIOUS
      <4>3. SumFunctionOnSet(f, (T \ {p}) \ {b}) \in Int BY <4>1, <4>2, SumType
      <4> QED BY <2>1, <4>3
    <3>5. \A x, y, z \in Int : x + (y + z) = y + (x + z)
      OBVIOUS
    <3>6. f[p] + (f[b] + SumFunctionOnSet(f, (T \ {p}) \ {b}))
            = f[b] + (f[p] + SumFunctionOnSet(f, (T \ {p}) \ {b}))
      BY <3>4, <3>5
    <3> QED BY <2>2, <3>1, <3>2, <3>3, <3>6, Zenon
  <2> QED BY <2>3, <2>4
<1>2. Good = SUBSET S
  <2>1. Good \in SUBSET SUBSET S OBVIOUS
  <2> HIDE DEF Good
  <2> QED BY <1>1, <2>1, SetInduction
<1>3. S \in Good BY <1>2
<1> QED BY <1>3

\* Functions that agree on a set have the same sum over it.
LEMMA SumSame ==
  ASSUME NEW S, IsFiniteSet(S), NEW f, NEW g, \A x \in S : f[x] = g[x]
  PROVE  SumFunctionOnSet(f, S) = SumFunctionOnSet(g, S)
<1> DEFINE Good == {T \in SUBSET S : SumFunctionOnSet(f, T) = SumFunctionOnSet(g, T)}
<1>1. ASSUME NEW T \in SUBSET S, \A U \in SUBSET T : U # T => U \in Good PROVE T \in Good
  <2>1. T # {} => First(T) \in S /\ T \ {First(T)} \in Good
    BY <1>1, FirstFact
  <2>2. \A h : SumFunctionOnSet(h, T)
           = IF T = {} THEN 0 ELSE h[First(T)] + SumFunctionOnSet(h, T \ {First(T)})
    BY FS_Subset, SumFirst
  <2> QED BY <2>1, <2>2
<1>2. Good = SUBSET S
  <2>1. Good \in SUBSET SUBSET S OBVIOUS
  <2> HIDE DEF Good
  <2> QED BY <1>1, <2>1, SetInduction
<1> QED BY <1>2

LEMMA SumZero ==
  ASSUME NEW S, IsFiniteSet(S), NEW f, \A x \in S : f[x] = 0
  PROVE  SumFunctionOnSet(f, S) = 0
<1> DEFINE Good == {T \in SUBSET S : SumFunctionOnSet(f, T) = 0}
<1>1. ASSUME NEW T \in SUBSET S, \A U \in SUBSET T : U # T => U \in Good PROVE T \in Good
  <2>1. T # {} => First(T) \in S /\ T \ {First(T)} \in Good
    BY <1>1, FirstFact
  <2>2. SumFunctionOnSet(f, T)
           = IF T = {} THEN 0 ELSE f[First(T)] + SumFunctionOnSet(f, T \ {First(T)})
    BY FS_Subset, SumFirst
  <2> QED BY <2>1, <2>2
<1>2. Good = SUBSET S
  <2>1. Good \in SUBSET SUBSET S OBVIOUS
  <2> HIDE DEF Good
  <2> QED BY <1>1, <2>1, SetInduction
<1> QED BY <1>2

\* A sum grows by the value of an element that joins the set.
LEMMA SumWith ==
  ASSUME NEW S, IsFiniteSet(S), NEW f, NEW a, a \notin S,
         \A x \in S \union {a} : f[x] \in Int
  PROVE  SumFunctionOnSet(f, S \union {a}) = SumFunctionOnSet(f, S) + f[a]
<1>1. IsFiniteSet(S \union {a})
  BY FS_AddElement
<1>2. (S \union {a}) \ {a} = S
  OBVIOUS
<1>3. SumFunctionOnSet(f, S \union {a}) = f[a] + SumFunctionOnSet(f, S)
  <2>1. a \in S \union {a} OBVIOUS
  <2>2. SumFunctionOnSet(f, S \union {a}) = f[a] + SumFunctionOnSet(f, (S \union {a}) \ {a})
    BY <1>1, <2>1, SumWithout
  <2> QED BY <1>2, <2>2
<1>4. f[a] \in Int /\ SumFunctionOnSet(f, S) \in Int
  BY SumType
<1> QED BY <1>3, <1>4

\* A sum changes by as much as the one value that changes.
LEMMA SumChanged ==
  ASSUME NEW S, IsFiniteSet(S), NEW f \in [S -> Int], NEW a \in S, NEW v \in Int
  PROVE  SumFunctionOnSet([f EXCEPT ![a] = v], S) = SumFunctionOnSet(f, S) + (v - f[a])
<1> DEFINE g == [f EXCEPT ![a] = v]
<1>1. g[a] = v /\ \A x \in S \ {a} : g[x] = f[x]
  OBVIOUS
<1>2. (\A x \in S : f[x] \in Int) /\ (\A x \in S : g[x] \in Int)
  OBVIOUS
<1> HIDE DEF g
<1>3. IsFiniteSet(S \ {a})
  BY FS_Subset
<1>4. SumFunctionOnSet(g, S) = v + SumFunctionOnSet(g, S \ {a})
  BY <1>1, <1>2, SumWithout
<1>5. SumFunctionOnSet(f, S) = f[a] + SumFunctionOnSet(f, S \ {a})
  BY <1>2, SumWithout
<1>6. SumFunctionOnSet(g, S \ {a}) = SumFunctionOnSet(f, S \ {a})
  BY <1>1, <1>3, SumSame
<1>7. f[a] \in Int /\ SumFunctionOnSet(f, S \ {a}) \in Int
  BY <1>2, <1>3, SumType
<1>8. \A x, y, z \in Int : z + y = (x + y) + (z - x)
  OBVIOUS
<1>9. v + SumFunctionOnSet(f, S \ {a})
        = (f[a] + SumFunctionOnSet(f, S \ {a})) + (v - f[a])
  BY <1>7, <1>8
<1> QED BY <1>4, <1>5, <1>6, <1>9 DEF g
=============================================================================

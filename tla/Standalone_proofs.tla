--------------------------- MODULE Standalone_proofs ---------------------------
(***************************************************************************)
(* Proofs about three parts that share nothing: the registry of extensions *)
(* (Registry), the reload of the configuration (ConfigReload) and the      *)
(* comparison of two traces (Differ).                                      *)
(***************************************************************************)
EXTENDS Registry, ConfigReload, Differ, DataInduction

(***************************************************************************)
(* The registry.  What is promised of the entries has to hold of what was  *)
(* saved as well: UnmarshalJSON brings it back unasked.                    *)
(***************************************************************************)
RegistryInv ==
  /\ RegistryTypeOK
  /\ AllPresent(entries) /\ LateComersOnly(entries, before)
  /\ AllPresent(saved.entries) /\ LateComersOnly(saved.entries, saved.before)

\* An accepted entry takes its place, or a new one, without leaving anyone
\* alone, and came after everybody that its conflicts spared.
LEMMA PutKeeps ==
  ASSUME RegistryInv, NEW e \in Entry, Accepts(e), Put(e)
  PROVE  /\ entries' \subseteq Entry /\ before' \subseteq Namespace \X Namespace
         /\ AllPresent(entries')
         /\ LateComersOnly(entries', before')
<1> DEFINE n == e.namespace
<1> USE DEF RegistryInv, RegistryTypeOK
<1>1. n \in Namespace /\ Registered \subseteq Namespace
  BY DEF Entry, Registered
<1>2. entries' \subseteq Entry /\ before' \subseteq Namespace \X Namespace
  BY <1>1 DEF Put, Without, OrderWithout
<1>3. Registered \subseteq {f.namespace : f \in entries'}
  BY DEF Put, Without, Registered
<1>4. AllPresent(entries')
  <2>1. \A f \in entries' : f.dependencies \subseteq Registered
    BY DEF Put, Without, Accepts, AllPresent, Registered
  <2> QED BY <1>3, <2>1 DEF AllPresent
<1>5. LateComersOnly(entries', before')
  <2> SUFFICES ASSUME NEW f \in entries', NEW g \in entries', f # g,
                      g.namespace \in f.conflictsWith
               PROVE  <<f.namespace, g.namespace>> \in before'
    BY DEF LateComersOnly
  <2>1. CASE f = e
    <3>1. g \in entries BY <2>1 DEF Put, Without
    <3> QED BY <2>1, <3>1 DEF Accepts, Registered
  <2>2. CASE g = e /\ f # e
    <3>1. f \in entries /\ f.namespace # n BY <2>2 DEF Put, Without
    <3> QED BY <2>2, <3>1 DEF Put, Registered
  <2>3. CASE f # e /\ g # e
    <3>1. /\ f \in entries /\ f.namespace # n
          /\ g \in entries /\ g.namespace # n
      BY <2>3 DEF Put, Without
    <3>2. <<f.namespace, g.namespace>> \in before BY <3>1 DEF LateComersOnly
    <3> QED BY <3>1, <3>2 DEF Put, OrderWithout
  <2> QED BY <2>1, <2>2, <2>3
<1> QED BY <1>2, <1>4, <1>5

\* Every call of the registry keeps it.
LEMMA RegistryStep == RegistryInv /\ [RegistryNext]_rvars => RegistryInv'
<1> SUFFICES ASSUME RegistryInv, [RegistryNext]_rvars PROVE RegistryInv'
  OBVIOUS
<1> USE DEF RegistryInv, RegistryTypeOK
<1>1. CASE Register
  <2>1. PICK e \in Offered : Accepts(e) /\ Put(e) BY <1>1 DEF Register
  <2>2. e \in Entry BY RegistryAssumption
  <2> QED BY <1>1, <2>1, <2>2, PutKeeps DEF Register
<1>2. CASE Remove
  <2>1. PICK n \in Registered :
          ~Required(n) /\ entries' = Without(n) /\ before' = OrderWithout(n)
    BY <1>2 DEF Remove
  <2>2. entries' \subseteq Entry /\ before' \subseteq Namespace \X Namespace
    BY <2>1 DEF Without, OrderWithout
  <2>3. AllPresent(entries')
    <3> SUFFICES ASSUME NEW e \in entries', NEW m \in e.dependencies
                 PROVE  \E f \in entries' : f.namespace = m
      BY DEF AllPresent
    <3>1. e \in entries /\ m # n BY <2>1 DEF Without, Required
    <3>2. PICK f \in entries : f.namespace = m BY <3>1 DEF AllPresent
    <3> QED BY <2>1, <3>1, <3>2 DEF Without
  <2>4. LateComersOnly(entries', before')
    <3> SUFFICES ASSUME NEW e \in entries', NEW f \in entries', e # f,
                        f.namespace \in e.conflictsWith
                 PROVE  <<e.namespace, f.namespace>> \in before'
      BY DEF LateComersOnly
    <3>1. e \in entries /\ f \in entries /\ e.namespace # n /\ f.namespace # n
      BY <2>1 DEF Without
    <3>2. <<e.namespace, f.namespace>> \in before BY <3>1 DEF LateComersOnly
    <3> QED BY <2>1, <3>1, <3>2 DEF OrderWithout
  <2> QED BY <1>2, <2>2, <2>3, <2>4 DEF Remove
<1>3. CASE LoadFromConfig
  BY <1>3, RegistryAssumption DEF LoadFromConfig
<1>4. CASE LoadEntry
  <2>1. Head(loading) \in Entry /\ Tail(loading) \in Seq(Entry)
    BY <1>4 DEF LoadEntry
  <2>2. CASE Accepts(Head(loading))
    <3>1. Put(Head(loading)) /\ loading' = Tail(loading) /\ UNCHANGED saved
      BY <1>4, <2>2 DEF LoadEntry
    <3> QED BY <2>1, <2>2, <3>1, PutKeeps
  <2>3. CASE ~Accepts(Head(loading))
    BY <1>4, <2>3 DEF LoadEntry
  <2> QED BY <2>2, <2>3
<1>5. CASE MarshalJSON
  BY <1>5 DEF MarshalJSON, Snapshot
<1>6. CASE UnmarshalJSON
  BY <1>6 DEF UnmarshalJSON, Snapshot
<1>7. CASE UNCHANGED rvars
  BY <1>7 DEF rvars
<1> QED BY <1>1, <1>2, <1>3, <1>4, <1>5, <1>6, <1>7 DEF RegistryNext

\* For any extensions and any lists of them: the types, the presence of every
\* dependency, and the order between extensions that conflict.
THEOREM RegistryCorrect == RegistrySpec => []RegistryInv
<1>1. RegistryInit => RegistryInv
  BY DEF RegistryInit, RegistryInv, RegistryTypeOK, Snapshot, AllPresent, LateComersOnly
<1> QED BY <1>1, RegistryStep, PTL DEF RegistrySpec

\* An extension is never registered without what it depends on: neither a
\* removal, a replacement, a load that stopped half-way nor a restored registry
\* leaves one alone.
THEOREM DependenciesPresentHolds == RegistrySpec => []DependenciesPresent
<1>1. RegistryInv => DependenciesPresent
  BY DEF RegistryInv, DependenciesPresent
<1> QED BY <1>1, RegistryCorrect, PTL

\* Of two registered extensions that conflict, the one that says so came first.
THEOREM ConflictsByOrderHolds == RegistrySpec => []ConflictsByOrder
<1>1. RegistryInv => ConflictsByOrder
  BY DEF RegistryInv, ConflictsByOrder
<1> QED BY <1>1, RegistryCorrect, PTL

-----------------------------------------------------------------------------
(***************************************************************************)
(* The configuration file.  Without a cause, what a load is about to       *)
(* install is what the file holds, and a manager that waits has it or sees *)
(* that the file has changed.                                              *)
(***************************************************************************)
ConfigInv ==
  /\ ConfigTypeOK
  /\ loadedAt = lastModTime
  /\ managerAt = "install" => buffer \in Content
  /\ managerAt = "install" /\ ~raced /\ content # Missing => buffer = content
  /\ managerAt = "waiting" /\ ~raced /\ Loadable => Changed \/ config = content

\* Every write of the file keeps it, at whatever point of a load it comes.
LEMMA WriteKeeps ==
  ASSUME ConfigInv, NEW form \in {"whole", "empty", "broken"},
         NEW time \in 1 .. MaxTime, Write(form, time)
  PROVE  ConfigInv'
<1> USE ConfigBoundAssumption, NamesAssumption DEF ConfigInv, ConfigTypeOK
<1>1. writes + 1 \in 0 .. MaxWrites BY DEF Write
<1>2. content' \in Content BY <1>1 DEF Write, Content
<1>3. ConfigTypeOK'
  BY <1>1, <1>2 DEF Write, manager
<1>4. managerAt' = "install" => raced' BY DEF Write, manager
<1>5. ASSUME managerAt' = "waiting", ~raced' PROVE Changed'
  <2>1. content' # Missing BY <1>2
  <2>2. managerAt = "waiting" /\ lastModTime' = lastModTime /\ modTime' = time
    BY <1>5 DEF Write, manager
  <2>3. ~(time <= loadedAt) BY <1>5, <2>2 DEF Write
  <2> QED BY <2>1, <2>2, <2>3 DEF Changed
<1> QED BY <1>3, <1>4, <1>5 DEF Write, manager

\* Every step keeps it.
LEMMA ConfigStep == ConfigInv /\ [ConfigNext]_cvars => ConfigInv'
<1> SUFFICES ASSUME ConfigInv, [ConfigNext]_cvars PROVE ConfigInv'
  OBVIOUS
<1> USE ConfigBoundAssumption, NamesAssumption DEF ConfigInv, ConfigTypeOK
<1>1. CASE Tick
  BY <1>1 DEF Tick, file, manager, history, Loadable, Changed
<1>2. CASE Truncate
  BY <1>2, WriteKeeps DEF Truncate
<1>3. CASE Fill
  BY <1>3, WriteKeeps DEF Fill
<1>4. CASE Replace
  <2>1. PICK form \in {"whole", "broken"}, time \in 1 .. now : Write(form, time)
    BY <1>4 DEF Replace
  <2> QED BY <2>1, WriteKeeps
<1>5. CASE RemoveFile
  BY <1>5 DEF RemoveFile, manager, history, Loadable
<1>6. CASE WatchConfig
  BY <1>6 DEF WatchConfig, file, history
<1>7. CASE ReadFile
  <2>1. CASE Loadable
    <3>1. content \in Content BY <2>1 DEF Loadable
    <3> QED BY <1>7, <2>1, <3>1 DEF ReadFile, file, history, Loadable
  <2>2. CASE ~Loadable
    BY <1>7, <2>2 DEF ReadFile, Unloaded, file, history, Loadable
  <2> QED BY <2>1, <2>2
<1>8. CASE Install
  <2>1. /\ content' = content /\ modTime' = modTime /\ raced' = raced
        /\ config' = buffer /\ managerAt' = "waiting"
    BY <1>8 DEF Install, file
  <2>2. ConfigTypeOK'
    BY <1>8 DEF Install, file
  <2>3. ~raced' /\ Loadable' => config' = content'
    BY <1>8, <2>1 DEF Install, Loadable
  <2> QED BY <1>8, <2>1, <2>2, <2>3 DEF Install
<1>9. CASE UNCHANGED cvars
  BY <1>9 DEF cvars, file, manager, history, Loadable, Changed
<1> QED BY <1>1, <1>2, <1>3, <1>4, <1>5, <1>6, <1>7, <1>8, <1>9
        DEF ConfigNext, Manage

\* For any number of writes, however they fall: the types, and what a manager
\* has read or will see of the file.
THEOREM ConfigCorrect == ConfigSpec => []ConfigInv
<1>1. ASSUME ConfigInit PROVE ConfigInv
  <2> USE <1>1, ConfigBoundAssumption DEF ConfigInit
  <2>1. content \in Content \union {Missing} BY DEF Content
  <2>2. 1 \in 1 .. MaxTime /\ 0 \in 0 .. MaxTime /\ 0 \in 0 .. MaxWrites
    OBVIOUS
  <2>3. buffer \in Content \union {Missing} /\ config \in Content \union {NoConfig}
    OBVIOUS
  <2>4. ConfigTypeOK BY <2>1, <2>2, <2>3, Zenon DEF ConfigTypeOK
  <2> QED BY <2>4 DEF ConfigInv
<1> QED BY <1>1, ConfigStep, PTL DEF ConfigSpec

\* The manager settles on an old configuration only after a write that fell
\* between the read and the install of a load, or brought no later time.
THEOREM OverlookedForCauseHolds == ConfigSpec => []OverlookedForCause
<1>1. ConfigInv => OverlookedForCause
  BY DEF ConfigInv, OverlookedForCause, Overlooked
<1> QED BY <1>1, ConfigCorrect, PTL
-----------------------------------------------------------------------------
(***************************************************************************)
(* The comparison of two traces.  First the table of LevenshteinDistance:  *)
(* that there is one, that cells beside each other differ by one at most,  *)
(* and that it finds the least number of edits, all by induction on the    *)
(* place of a cell.  Then the judgement, which is arithmetic on its last   *)
(* cell.                                                                   *)
(***************************************************************************)
\* What the table has at a cell, when it is dp.
Cell(dp, s1, s2, i, j) ==
  IF i = 0 THEN j
  ELSE IF j = 0 THEN i
  ELSE IF s1[i] = s2[j] THEN dp[<<i - 1, j - 1>>]
  ELSE 1 + Min({dp[<<i - 1, j>>], dp[<<i, j - 1>>], dp[<<i - 1, j - 1>>]})

Cells(m, n) == (0 .. m) \X (0 .. n)

Table(s1, s2) ==
  CHOOSE dp : dp = [cell \in Cells(Len(s1), Len(s2)) |-> Cell(dp, s1, s2, cell[1], cell[2])]

\* The distance is what the table has at its last cell.
LEMMA EditDistanceIsInTable ==
  ASSUME NEW s1, NEW s2
  PROVE  EditDistance(s1, s2) = Table(s1, s2)[<<Len(s1), Len(s2)>>]
  BY DEF EditDistance, Table, Cell, Cells

\* Min of a set of numbers, and of three of them.
LEMMA MinIsLeast ==
  ASSUME NEW S \in SUBSET Nat, S # {}
  PROVE  Min(S) \in S /\ \A x \in S : Min(S) <= x
<1>1. \E m \in S : \A x \in S : m <= x BY LeastNumber
<1> QED BY <1>1 DEF Min

LEMMA MinOfThree ==
  ASSUME NEW x \in Nat, NEW y \in Nat, NEW z \in Nat
  PROVE  /\ Min({x, y, z}) \in {x, y, z} /\ Min({x, y, z}) \in Nat
         /\ Min({x, y, z}) <= x /\ Min({x, y, z}) <= y /\ Min({x, y, z}) <= z
<1> DEFINE S == {x, y, z}
<1>1. S \in SUBSET Nat /\ S # {} OBVIOUS
<1>2. x \in S /\ y \in S /\ z \in S OBVIOUS
<1> HIDE DEF S
<1>3. Min(S) \in S /\ \A v \in S : Min(S) <= v BY <1>1, MinIsLeast
<1> QED BY <1>1, <1>2, <1>3 DEF S

\* The table: a cell is the number of runes beside an empty text; equal runes
\* leave the cell before both as it is, different ones add one to the least
\* of the three cells before them.
IsTable(dp, s1, s2) ==
  /\ dp \in [Cells(Len(s1), Len(s2)) -> Nat]
  /\ \A i \in 0 .. Len(s1), j \in 0 .. Len(s2) :
       dp[<<i, j>>] = Cell(dp, s1, s2, i, j)

\* There is such a table, as can be seen for more and more of its cells.
LEMMA TableExists ==
  ASSUME NEW R, NEW s1 \in Seq(R), NEW s2 \in Seq(R)
  PROVE  IsTable(Table(s1, s2), s1, s2)
<1> DEFINE m == Len(s1)
           n == Len(s2)
           UpTo(k) == \E g \in [Cells(m, n) -> Nat] : \A i \in 0 .. m, j \in 0 .. n :
                        i + j <= k => g[<<i, j>>] = Cell(g, s1, s2, i, j)
           Good == {k \in Nat : UpTo(k)}
<1>1. m \in Nat /\ n \in Nat OBVIOUS
<1> HIDE DEF m, n
<1>2. UpTo(0)
  <2> DEFINE g == [cell \in Cells(m, n) |-> 0]
  <2>1. ASSUME NEW i \in 0 .. m, NEW j \in 0 .. n, i + j <= 0
        PROVE  g[<<i, j>>] = Cell(g, s1, s2, i, j)
    <3>1. i = 0 /\ j = 0 BY <1>1, <2>1
    <3>2. <<i, j>> \in Cells(m, n) BY DEF Cells
    <3> QED BY <3>1, <3>2 DEF Cell
  <2>2. g \in [Cells(m, n) -> Nat] OBVIOUS
  <2> HIDE DEF g
  <2> QED BY <2>1, <2>2
<1>3. ASSUME NEW k \in Nat, UpTo(k) PROVE UpTo(k + 1)
  <2>1. PICK g \in [Cells(m, n) -> Nat] : \A i \in 0 .. m, j \in 0 .. n :
          i + j <= k => g[<<i, j>>] = Cell(g, s1, s2, i, j)
    BY <1>3
  <2> DEFINE h == [cell \in Cells(m, n) |-> IF cell[1] + cell[2] <= k THEN g[cell]
                                            ELSE Cell(g, s1, s2, cell[1], cell[2])]
  <2>2. ASSUME NEW i \in 0 .. m, NEW j \in 0 .. n
        PROVE  h[<<i, j>>] = IF i + j <= k THEN g[<<i, j>>] ELSE Cell(g, s1, s2, i, j)
    BY DEF Cells
  <2>3. ASSUME NEW i \in 0 .. m, NEW j \in 0 .. n
        PROVE  Cell(g, s1, s2, i, j) \in Nat
    <3>1. CASE i = 0 \/ j = 0 BY <1>1, <3>1 DEF Cell
    <3>2. CASE i # 0 /\ j # 0
      <4>1. i - 1 \in 0 .. m /\ j - 1 \in 0 .. n BY <1>1, <3>2
      <4>2. /\ g[<<i - 1, j>>] \in Nat /\ g[<<i, j - 1>>] \in Nat
            /\ g[<<i - 1, j - 1>>] \in Nat
        BY <4>1 DEF Cells
      <4>3. Min({g[<<i - 1, j>>], g[<<i, j - 1>>], g[<<i - 1, j - 1>>]}) \in Nat
        BY <4>2, MinOfThree
      <4> QED BY <3>2, <4>2, <4>3 DEF Cell
    <3> QED BY <3>1, <3>2
  <2>4. h \in [Cells(m, n) -> Nat]
    <3> SUFFICES ASSUME NEW cell \in Cells(m, n)
                 PROVE  (IF cell[1] + cell[2] <= k THEN g[cell]
                         ELSE Cell(g, s1, s2, cell[1], cell[2])) \in Nat
      OBVIOUS
    <3>1. cell[1] \in 0 .. m /\ cell[2] \in 0 .. n BY DEF Cells
    <3> QED BY <2>3, <3>1
  <2> HIDE DEF h
  <2>5. ASSUME NEW i \in 0 .. m, NEW j \in 0 .. n, i + j <= k + 1
        PROVE  h[<<i, j>>] = Cell(h, s1, s2, i, j)
    <3>1. h[<<i, j>>] = Cell(g, s1, s2, i, j) BY <2>1, <2>2
    <3>2. CASE i = 0 \/ j = 0 BY <3>1, <3>2 DEF Cell
    <3>3. CASE i # 0 /\ j # 0
      <4>1. i - 1 \in 0 .. m /\ j - 1 \in 0 .. n BY <1>1, <3>3
      <4>2. (i - 1) + j <= k /\ i + (j - 1) <= k /\ (i - 1) + (j - 1) <= k
        BY <1>1, <2>5
      <4>3. /\ h[<<i - 1, j>>] = g[<<i - 1, j>>]
            /\ h[<<i, j - 1>>] = g[<<i, j - 1>>]
            /\ h[<<i - 1, j - 1>>] = g[<<i - 1, j - 1>>]
        BY <2>2, <4>1, <4>2
      <4> QED BY <3>1, <4>3 DEF Cell
    <3> QED BY <3>2, <3>3
  <2> QED BY <2>4, <2>5
<1>4. Good = Nat
  <2> HIDE DEF UpTo
  <2>1. ASSUME NEW k \in Nat, \A l \in Nat : l < k => l \in Good PROVE k \in Good
    <3>1. CASE k = 0 BY <1>2, <3>1
    <3>2. CASE k # 0
      <4>1. k - 1 \in Nat /\ k - 1 < k /\ (k - 1) + 1 = k BY <3>2
      <4> QED BY <1>3, <2>1, <4>1
    <3> QED BY <3>1, <3>2
  <2>2. Good \in SUBSET Nat OBVIOUS
  <2> HIDE DEF Good
  <2> QED BY <2>1, <2>2, NumberInduction
<1>5. PICK g \in [Cells(m, n) -> Nat] : \A i \in 0 .. m, j \in 0 .. n :
        g[<<i, j>>] = Cell(g, s1, s2, i, j)
  <2>1. m + n \in Nat /\ \A i \in 0 .. m, j \in 0 .. n : i + j <= m + n BY <1>1
  <2>2. UpTo(m + n) BY <1>4, <2>1
  <2> QED BY <2>1, <2>2
<1>6. g = [cell \in Cells(m, n) |-> Cell(g, s1, s2, cell[1], cell[2])]
  <2> SUFFICES ASSUME NEW cell \in Cells(m, n)
               PROVE  g[cell] = Cell(g, s1, s2, cell[1], cell[2])
    OBVIOUS
  <2>1. cell[1] \in 0 .. m /\ cell[2] \in 0 .. n /\ cell = <<cell[1], cell[2]>>
    BY DEF Cells
  <2> QED BY <1>5, <2>1
<1>7. Table(s1, s2) = [cell \in Cells(m, n) |-> Cell(Table(s1, s2), s1, s2, cell[1], cell[2])]
  BY <1>6 DEF Table, m, n
<1> DEFINE dp == Table(s1, s2)
<1> HIDE DEF dp
<1>8. ASSUME NEW i \in 0 .. m, NEW j \in 0 .. n
      PROVE  dp[<<i, j>>] = Cell(dp, s1, s2, i, j)
  <2>1. <<i, j>> \in Cells(m, n) BY DEF Cells
  <2> QED BY <1>7, <2>1 DEF dp
<1>9. ASSUME NEW i \in 0 .. m, NEW j \in 0 .. n
      PROVE  dp[<<i, j>>] \in Nat
  <2> DEFINE Typed == {k \in Nat : \A p \in 0 .. m, q \in 0 .. n :
                                     p + q = k => dp[<<p, q>>] \in Nat}
  <2>1. ASSUME NEW k \in Nat, \A l \in Nat : l < k => l \in Typed,
               NEW p \in 0 .. m, NEW q \in 0 .. n, p + q = k
        PROVE  dp[<<p, q>>] \in Nat
    <3> p \in Nat /\ q \in Nat BY <1>1
    <3>0. dp[<<p, q>>] = Cell(dp, s1, s2, p, q) BY <1>8
    <3>1. CASE p = 0 \/ q = 0 BY <3>0, <3>1 DEF Cell
    <3>2. CASE p # 0 /\ q # 0
      <4>1. p - 1 \in 0 .. m /\ q - 1 \in 0 .. n BY <1>1, <3>2
      <4>2. /\ (p - 1) + q \in Nat /\ (p - 1) + q < k
            /\ p + (q - 1) \in Nat /\ p + (q - 1) < k
            /\ (p - 1) + (q - 1) \in Nat /\ (p - 1) + (q - 1) < k
        BY <1>1, <2>1, <3>2
      <4>3. /\ dp[<<p - 1, q>>] \in Nat /\ dp[<<p, q - 1>>] \in Nat
            /\ dp[<<p - 1, q - 1>>] \in Nat
        BY <2>1, <4>1, <4>2
      <4>4. Min({dp[<<p - 1, q>>], dp[<<p, q - 1>>], dp[<<p - 1, q - 1>>]}) \in Nat
        BY <4>3, MinOfThree
      <4> QED BY <3>0, <3>2, <4>3, <4>4 DEF Cell
    <3> QED BY <3>1, <3>2
  <2>2. Typed = Nat
    <3>1. Typed \in SUBSET Nat OBVIOUS
    <3>2. ASSUME NEW k \in Nat, \A l \in Nat : l < k => l \in Typed PROVE k \in Typed
      BY <2>1, <3>2
    <3> HIDE DEF Typed
    <3> QED BY <3>1, <3>2, NumberInduction
  <2>3. i + j \in Nat BY <1>1
  <2>4. i + j \in Typed BY <2>2, <2>3
  <2> QED BY <2>4
<1>10. dp \in [Cells(m, n) -> Nat]
  <2> DEFINE value(cell) == Cell(dp, s1, s2, cell[1], cell[2])
  <2>1. \A cell \in Cells(m, n) : value(cell) \in Nat
    <3> SUFFICES ASSUME NEW cell \in Cells(m, n) PROVE value(cell) \in Nat
      OBVIOUS
    <3>1. cell[1] \in 0 .. m /\ cell[2] \in 0 .. n BY DEF Cells
    <3> QED BY <1>8, <1>9, <3>1
  <2>2. dp = [cell \in Cells(m, n) |-> value(cell)] BY <1>7 DEF dp
  <2> HIDE DEF value
  <2> QED BY <2>1, <2>2
<1> QED BY <1>8, <1>10 DEF IsTable, dp, m, n

\* A cell of a table, without the others it is computed from ...
Edge(dp, i, j) ==
  /\ dp[<<i, j>>] \in Nat
  /\ i = 0 => dp[<<i, j>>] = j
  /\ j = 0 => dp[<<i, j>>] = i

\* ... and with them.
Inner(dp, s1, s2, i, j) ==
  /\ s1[i] = s2[j] => dp[<<i, j>>] = dp[<<i - 1, j - 1>>]
  /\ s1[i] # s2[j] =>
       /\ dp[<<i, j>>] <= 1 + dp[<<i - 1, j>>]
       /\ dp[<<i, j>>] <= 1 + dp[<<i, j - 1>>]
       /\ dp[<<i, j>>] <= 1 + dp[<<i - 1, j - 1>>]
       /\ \/ dp[<<i, j>>] = 1 + dp[<<i - 1, j>>]
          \/ dp[<<i, j>>] = 1 + dp[<<i, j - 1>>]
          \/ dp[<<i, j>>] = 1 + dp[<<i - 1, j - 1>>]

LEMMA TableFacts ==
  ASSUME NEW R, NEW s1 \in Seq(R), NEW s2 \in Seq(R), NEW dp, IsTable(dp, s1, s2)
  PROVE  /\ \A i \in 0 .. Len(s1), j \in 0 .. Len(s2) : Edge(dp, i, j)
         /\ \A i \in 1 .. Len(s1), j \in 1 .. Len(s2) : Inner(dp, s1, s2, i, j)
<1> DEFINE m == Len(s1)
           n == Len(s2)
<1>1. m \in Nat /\ n \in Nat OBVIOUS
<1>2. /\ dp \in [Cells(m, n) -> Nat]
      /\ \A i \in 0 .. m, j \in 0 .. n : dp[<<i, j>>] = Cell(dp, s1, s2, i, j)
  BY DEF IsTable
<1> HIDE DEF m, n
<1>3. ASSUME NEW i \in 0 .. m, NEW j \in 0 .. n
      PROVE  Edge(dp, i, j)
  <2>1. <<i, j>> \in Cells(m, n) BY DEF Cells
  <2>2. dp[<<i, j>>] \in Nat BY <1>2, <2>1
  <2>3. dp[<<i, j>>] = Cell(dp, s1, s2, i, j) BY <1>2
  <2>4. i = 0 => dp[<<i, j>>] = j BY <2>3 DEF Cell
  <2>5. j = 0 => dp[<<i, j>>] = i BY <2>3 DEF Cell
  <2> QED BY <2>2, <2>4, <2>5 DEF Edge
<1>4. ASSUME NEW i \in 1 .. m, NEW j \in 1 .. n
      PROVE  Inner(dp, s1, s2, i, j)
  <2> DEFINE x == dp[<<i - 1, j>>]
             y == dp[<<i, j - 1>>]
             z == dp[<<i - 1, j - 1>>]
  <2>1. /\ i \in 0 .. m /\ i - 1 \in 0 .. m /\ i # 0
        /\ j \in 0 .. n /\ j - 1 \in 0 .. n /\ j # 0
    BY <1>1
  <2>2. x \in Nat /\ y \in Nat /\ z \in Nat BY <1>3, <2>1 DEF Edge
  <2>3. dp[<<i, j>>] = IF s1[i] = s2[j] THEN z ELSE 1 + Min({x, y, z})
    BY <1>2, <2>1 DEF Cell
  <2> HIDE DEF x, y, z
  <2>4. /\ Min({x, y, z}) \in {x, y, z} /\ Min({x, y, z}) \in Nat
        /\ Min({x, y, z}) <= x /\ Min({x, y, z}) <= y /\ Min({x, y, z}) <= z
    BY <2>2, MinOfThree
  <2>5. CASE s1[i] = s2[j] BY <2>3, <2>5 DEF z, Inner
  <2>6. CASE s1[i] # s2[j]
    <3>1. dp[<<i, j>>] = 1 + Min({x, y, z}) BY <2>3, <2>6
    <3>2. /\ dp[<<i, j>>] <= 1 + x /\ dp[<<i, j>>] <= 1 + y /\ dp[<<i, j>>] <= 1 + z
          /\ dp[<<i, j>>] = 1 + x \/ dp[<<i, j>>] = 1 + y \/ dp[<<i, j>>] = 1 + z
      BY <2>2, <2>4, <3>1
    <3> QED BY <2>6, <3>2 DEF x, y, z, Inner
  <2> QED BY <2>5, <2>6
<1> QED BY <1>3, <1>4 DEF m, n

\* Cells beside each other differ by one at most.
Near(x, y) == x <= y + 1 /\ y <= x + 1

LEMMA TableIsSmooth ==
  ASSUME NEW R, NEW s1 \in Seq(R), NEW s2 \in Seq(R), NEW dp, IsTable(dp, s1, s2)
  PROVE  \A i \in 0 .. Len(s1), j \in 0 .. Len(s2) :
           /\ i # 0 => Near(dp[<<i, j>>], dp[<<i - 1, j>>])
           /\ j # 0 => Near(dp[<<i, j>>], dp[<<i, j - 1>>])
<1> DEFINE m == Len(s1)
           n == Len(s2)
           Smooth(i, j) == /\ i # 0 => Near(dp[<<i, j>>], dp[<<i - 1, j>>])
                           /\ j # 0 => Near(dp[<<i, j>>], dp[<<i, j - 1>>])
           Good == {k \in Nat : \A i \in 0 .. m, j \in 0 .. n : i + j = k => Smooth(i, j)}
<1>1. m \in Nat /\ n \in Nat OBVIOUS
<1>2. /\ \A i \in 0 .. m, j \in 0 .. n : Edge(dp, i, j)
      /\ \A i \in 1 .. m, j \in 1 .. n : Inner(dp, s1, s2, i, j)
  BY TableFacts
<1> HIDE DEF m, n, Smooth
<1>4. ASSUME NEW k \in Nat, \A l \in Nat : l < k => l \in Good,
             NEW i \in 0 .. m, NEW j \in 0 .. n, i + j = k
      PROVE  Smooth(i, j)
  <2>1. i \in Nat /\ j \in Nat BY <1>1
  <2>2. CASE i = 0
    <3>1. j # 0 => j - 1 \in 0 .. n BY <1>1
    <3>2. dp[<<i, j>>] = j /\ (j # 0 => dp[<<i, j - 1>>] = j - 1)
      BY <1>2, <2>2, <3>1 DEF Edge
    <3> QED BY <2>1, <2>2, <3>2 DEF Smooth, Near
  <2>3. CASE j = 0
    <3>1. i # 0 => i - 1 \in 0 .. m BY <1>1
    <3>2. dp[<<i, j>>] = i /\ (i # 0 => dp[<<i - 1, j>>] = i - 1)
      BY <1>2, <2>3, <3>1 DEF Edge
    <3> QED BY <2>1, <2>3, <3>2 DEF Smooth, Near
  <2>4. CASE i # 0 /\ j # 0
    <3>1. /\ i \in 1 .. m /\ i - 1 \in 0 .. m
          /\ j \in 1 .. n /\ j - 1 \in 0 .. n
      BY <1>1, <2>4
    <3>2. Smooth(i - 1, j) /\ Smooth(i, j - 1)
      <4>1. /\ (i - 1) + j \in Nat /\ (i - 1) + j < k
            /\ i + (j - 1) \in Nat /\ i + (j - 1) < k
        BY <1>4, <2>1, <2>4
      <4>2. (i - 1) + j \in Good /\ i + (j - 1) \in Good BY <1>4, <4>1
      <4> QED BY <3>1, <4>2
    <3>3. /\ Near(dp[<<i - 1, j>>], dp[<<i - 1, j - 1>>])
          /\ Near(dp[<<i, j - 1>>], dp[<<i - 1, j - 1>>])
      BY <2>4, <3>2 DEF Smooth
    <3>4. /\ dp[<<i, j>>] \in Nat /\ dp[<<i - 1, j>>] \in Nat
          /\ dp[<<i, j - 1>>] \in Nat /\ dp[<<i - 1, j - 1>>] \in Nat
      BY <1>2, <3>1 DEF Edge
    <3>5. Near(dp[<<i, j>>], dp[<<i - 1, j>>]) /\ Near(dp[<<i, j>>], dp[<<i, j - 1>>])
      <4>1. CASE s1[i] = s2[j]
        <5>1. dp[<<i, j>>] = dp[<<i - 1, j - 1>>] BY <1>2, <3>1, <4>1 DEF Inner
        <5> QED BY <3>3, <5>1 DEF Near
      <4>2. CASE s1[i] # s2[j]
        <5>1. /\ dp[<<i, j>>] <= 1 + dp[<<i - 1, j>>]
              /\ dp[<<i, j>>] <= 1 + dp[<<i, j - 1>>]
              /\ \/ dp[<<i, j>>] = 1 + dp[<<i - 1, j>>]
                 \/ dp[<<i, j>>] = 1 + dp[<<i, j - 1>>]
                 \/ dp[<<i, j>>] = 1 + dp[<<i - 1, j - 1>>]
          BY <1>2, <3>1, <4>2 DEF Inner
        <5> DEFINE d == dp[<<i, j>>]
                   x == dp[<<i - 1, j>>]
                   y == dp[<<i, j - 1>>]
                   z == dp[<<i - 1, j - 1>>]
        <5>2. /\ x <= z + 1 /\ z <= x + 1 /\ y <= z + 1 /\ z <= y + 1
          BY <3>3 DEF Near
        <5>3. /\ d \in Nat /\ x \in Nat /\ y \in Nat /\ z \in Nat
              /\ d <= 1 + x /\ d <= 1 + y
              /\ d = 1 + x \/ d = 1 + y \/ d = 1 + z
          BY <3>4, <5>1
        <5> HIDE DEF d, x, y, z
        <5>4. d <= x + 1 /\ x <= d + 1 /\ d <= y + 1 /\ y <= d + 1
          BY <5>2, <5>3
        <5> QED BY <5>4 DEF d, x, y, z, Near
      <4> QED BY <4>1, <4>2
    <3> QED BY <3>5 DEF Smooth
  <2> QED BY <2>2, <2>3, <2>4
<1>5. Good = Nat
  <2>1. Good \in SUBSET Nat OBVIOUS
  <2>2. ASSUME NEW k \in Nat, \A l \in Nat : l < k => l \in Good PROVE k \in Good
    BY <1>4, <2>2
  <2> HIDE DEF Good
  <2> QED BY <2>1, <2>2, NumberInduction
<1>6. ASSUME NEW i \in 0 .. m, NEW j \in 0 .. n PROVE Smooth(i, j)
  <2>1. i + j \in Nat BY <1>1
  <2>2. i + j \in Good BY <1>5, <2>1
  <2> QED BY <2>2
<1> QED BY <1>6 DEF Smooth, m, n

\* Equal texts are at no distance.
LEMMA DiagonalIsZero ==
  ASSUME NEW R, NEW s \in Seq(R) PROVE EditDistance(s, s) = 0
<1> DEFINE m == Len(s)
           dp == Table(s, s)
           Good == {k \in Nat : k <= m => dp[<<k, k>>] = 0}
<1>1. m \in Nat OBVIOUS
<1>2. IsTable(dp, s, s) BY TableExists
<1> HIDE DEF dp
<1>3. dp[<<0, 0>>] = 0 /\ \A i \in 1 .. m : dp[<<i, i>>] = dp[<<i - 1, i - 1>>]
  <2>1. /\ \A i \in 0 .. m, j \in 0 .. m : Edge(dp, i, j)
        /\ \A i \in 1 .. m, j \in 1 .. m : Inner(dp, s, s, i, j)
    BY <1>2, TableFacts
  <2>2. 0 \in 0 .. m BY <1>1
  <2>3. dp[<<0, 0>>] = 0 BY <2>1, <2>2 DEF Edge
  <2>4. ASSUME NEW i \in 1 .. m PROVE dp[<<i, i>>] = dp[<<i - 1, i - 1>>]
    BY <2>1 DEF Inner
  <2> QED BY <2>3, <2>4
<1> HIDE DEF m
<1>4. ASSUME NEW k \in Nat, \A l \in Nat : l < k => l \in Good PROVE k \in Good
  <2>1. CASE k = 0 BY <1>3, <2>1
  <2>2. CASE k # 0
    <3>1. k - 1 \in Nat /\ k - 1 < k BY <2>2
    <3>2. k - 1 \in Good BY <1>4, <3>1
    <3>3. k <= m => k \in 1 .. m /\ k - 1 <= m BY <1>1, <2>2
    <3> QED BY <1>3, <3>2, <3>3
  <2> QED BY <2>1, <2>2
<1>5. m \in Good
  <2>1. Good \in SUBSET Nat OBVIOUS
  <2> HIDE DEF Good
  <2>2. Good = Nat BY <1>4, <2>1, NumberInduction
  <2> QED BY <1>1, <2>2
<1> QED BY <1>1, <1>5, EditDistanceIsInTable DEF dp, m

\* The alignments of the first i runes of one text with the first j of another,
\* and the edits that each stands for.
InOrder(kept) ==
  \A p, q \in kept : p # q =>
    (p[1] < q[1] /\ p[2] < q[2]) \/ (q[1] < p[1] /\ q[2] < p[2])

Aligned(i, j) == {kept \in SUBSET ((1 .. i) \X (1 .. j)) : InOrder(kept)}

Replaced(s1, s2, kept) == {p \in kept : s1[p[1]] # s2[p[2]]}

Change(s1, s2, i, j) == IF s1[i] = s2[j] THEN 0 ELSE 1

EditsUpTo(s1, s2, i, j, kept) ==
  i + j - 2 * Cardinality(kept) + Cardinality(Replaced(s1, s2, kept))

LEMMA AlignedIsFinite ==
  ASSUME NEW i \in Nat, NEW j \in Nat, NEW kept \in Aligned(i, j), NEW s1, NEW s2
  PROVE  /\ IsFiniteSet(kept) /\ Cardinality(kept) \in Nat
         /\ IsFiniteSet(Replaced(s1, s2, kept)) /\ Cardinality(Replaced(s1, s2, kept)) \in Nat
         /\ EditsUpTo(s1, s2, i, j, kept) \in Int
<1>1. kept \subseteq (1 .. i) \X (1 .. j) BY DEF Aligned
<1>2. IsFiniteSet((1 .. i) \X (1 .. j))
  <2>1. IsFiniteSet(1 .. i) /\ IsFiniteSet(1 .. j) BY FS_Interval
  <2> QED BY <2>1, FS_Product
<1>3. IsFiniteSet(kept) BY <1>1, <1>2, FS_Subset
<1>4. IsFiniteSet(Replaced(s1, s2, kept))
  <2>1. Replaced(s1, s2, kept) \in SUBSET kept BY DEF Replaced
  <2> QED BY <1>3, <2>1, FS_Subset
<1>5. Cardinality(kept) \in Nat /\ Cardinality(Replaced(s1, s2, kept)) \in Nat
  BY <1>3, <1>4, FS_CardinalityType
<1> QED BY <1>3, <1>4, <1>5 DEF EditsUpTo

\* Keeping one more pair of places, the last of both texts.
LEMMA KeepLast ==
  ASSUME NEW i \in Nat \ {0}, NEW j \in Nat \ {0}, NEW kept \in Aligned(i - 1, j - 1),
         NEW s1, NEW s2
  PROVE  /\ kept \union {<<i, j>>} \in Aligned(i, j)
         /\ EditsUpTo(s1, s2, i, j, kept \union {<<i, j>>})
              = EditsUpTo(s1, s2, i - 1, j - 1, kept) + Change(s1, s2, i, j)
<1> DEFINE p == <<i, j>>
           more == kept \union {p}
<1>1. kept \subseteq (1 .. i - 1) \X (1 .. j - 1) /\ InOrder(kept) BY DEF Aligned
<1>2. \A q \in kept : q[1] < i /\ q[2] < j /\ q \in (1 .. i) \X (1 .. j)
  BY <1>1
<1>3. p \notin kept /\ p[1] = i /\ p[2] = j BY <1>2
<1>4. more \in Aligned(i, j)
  <2>1. p \in (1 .. i) \X (1 .. j) OBVIOUS
  <2>2. more \in SUBSET ((1 .. i) \X (1 .. j)) BY <1>2, <2>1
  <2>3. InOrder(more) BY <1>1, <1>2, <1>3 DEF InOrder
  <2> QED BY <2>2, <2>3 DEF Aligned
<1> HIDE DEF p
<1>5. /\ IsFiniteSet(kept) /\ Cardinality(kept) \in Nat
      /\ IsFiniteSet(Replaced(s1, s2, kept)) /\ Cardinality(Replaced(s1, s2, kept)) \in Nat
  <2>1. i - 1 \in Nat /\ j - 1 \in Nat OBVIOUS
  <2> QED BY <2>1, AlignedIsFinite
<1>6. Cardinality(more) = Cardinality(kept) + 1
  BY <1>3, <1>5, FS_AddElement
<1>7. Cardinality(Replaced(s1, s2, more))
        = Cardinality(Replaced(s1, s2, kept)) + Change(s1, s2, i, j)
  <2>1. CASE s1[i] = s2[j]
    <3>1. Replaced(s1, s2, more) = Replaced(s1, s2, kept) BY <1>3, <2>1 DEF Replaced
    <3> QED BY <1>5, <2>1, <3>1 DEF Change
  <2>2. CASE s1[i] # s2[j]
    <3>1. Replaced(s1, s2, more) = Replaced(s1, s2, kept) \union {p}
      BY <1>3, <2>2 DEF Replaced
    <3>2. p \notin Replaced(s1, s2, kept) BY <1>3 DEF Replaced
    <3> QED BY <1>5, <2>2, <3>1, <3>2, FS_AddElement DEF Change
  <2> QED BY <2>1, <2>2
<1> HIDE DEF more
<1>8. EditsUpTo(s1, s2, i, j, more)
        = EditsUpTo(s1, s2, i - 1, j - 1, kept) + Change(s1, s2, i, j)
  BY <1>5, <1>6, <1>7 DEF EditsUpTo, Change
<1> QED BY <1>4, <1>8 DEF more, p

\* An alignment keeps the last rune of both texts with each other, or leaves the
\* last of one of them alone.
LEMMA LastOfBoth ==
  ASSUME NEW i \in Nat \ {0}, NEW j \in Nat \ {0}, NEW kept \in Aligned(i, j),
         NEW s1, NEW s2
  PROVE  \/ /\ kept \in Aligned(i - 1, j)
            /\ EditsUpTo(s1, s2, i, j, kept) = EditsUpTo(s1, s2, i - 1, j, kept) + 1
         \/ /\ kept \in Aligned(i, j - 1)
            /\ EditsUpTo(s1, s2, i, j, kept) = EditsUpTo(s1, s2, i, j - 1, kept) + 1
         \/ /\ kept \ {<<i, j>>} \in Aligned(i - 1, j - 1)
            /\ EditsUpTo(s1, s2, i, j, kept)
                 = EditsUpTo(s1, s2, i - 1, j - 1, kept \ {<<i, j>>})
                     + Change(s1, s2, i, j)
<1>1. kept \subseteq (1 .. i) \X (1 .. j) /\ InOrder(kept) BY DEF Aligned
<1>2. Cardinality(kept) \in Nat /\ Cardinality(Replaced(s1, s2, kept)) \in Nat
  BY AlignedIsFinite
<1>3. CASE <<i, j>> \in kept
  <2> DEFINE less == kept \ {<<i, j>>}
  <2>1. less \in Aligned(i - 1, j - 1)
    <3>1. ASSUME NEW q \in less PROVE q \in (1 .. i - 1) \X (1 .. j - 1)
      <4>1. q \in (1 .. i) \X (1 .. j) /\ q # <<i, j>> BY <1>1
      <4>2. q[1] < i /\ q[2] < j
        BY <1>1, <1>3, <4>1 DEF InOrder
      <4> QED BY <4>1, <4>2
    <3>2. InOrder(less) BY <1>1 DEF InOrder
    <3> QED BY <3>1, <3>2 DEF Aligned
  <2>2. less \union {<<i, j>>} = kept BY <1>3
  <2> HIDE DEF less
  <2>3. EditsUpTo(s1, s2, i, j, less \union {<<i, j>>})
          = EditsUpTo(s1, s2, i - 1, j - 1, less) + Change(s1, s2, i, j)
    BY <2>1, KeepLast
  <2> QED BY <2>1, <2>2, <2>3 DEF less
<1>4. CASE \A p \in kept : p[1] # i
  <2>1. kept \in SUBSET ((1 .. i - 1) \X (1 .. j))
    <3>1. ASSUME NEW p \in kept PROVE p \in (1 .. i - 1) \X (1 .. j)
      <4>1. p \in (1 .. i) \X (1 .. j) /\ p[1] # i BY <1>1, <1>4
      <4> QED BY <4>1
    <3> QED BY <3>1
  <2>2. kept \in Aligned(i - 1, j) BY <1>1, <2>1 DEF Aligned
  <2>3. EditsUpTo(s1, s2, i, j, kept) = EditsUpTo(s1, s2, i - 1, j, kept) + 1
    BY <1>2 DEF EditsUpTo
  <2> QED BY <2>2, <2>3
<1>5. CASE \A p \in kept : p[2] # j
  <2>1. kept \in SUBSET ((1 .. i) \X (1 .. j - 1))
    <3>1. ASSUME NEW p \in kept PROVE p \in (1 .. i) \X (1 .. j - 1)
      <4>1. p \in (1 .. i) \X (1 .. j) /\ p[2] # j BY <1>1, <1>5
      <4> QED BY <4>1
    <3> QED BY <3>1
  <2>2. kept \in Aligned(i, j - 1) BY <1>1, <2>1 DEF Aligned
  <2>3. EditsUpTo(s1, s2, i, j, kept) = EditsUpTo(s1, s2, i, j - 1, kept) + 1
    BY <1>2 DEF EditsUpTo
  <2> QED BY <2>2, <2>3
<1>6. ASSUME NEW p \in kept, p[1] = i, NEW q \in kept, q[2] = j PROVE <<i, j>> \in kept
  <2>1. /\ p \in (1 .. i) \X (1 .. j) /\ q \in (1 .. i) \X (1 .. j)
    BY <1>1
  <2>2. p[2] <= j /\ q[1] <= i BY <2>1
  <2>3. p = q BY <1>1, <1>6, <2>1, <2>2 DEF InOrder
  <2> QED BY <1>6, <2>1, <2>3
<1> QED BY <1>3, <1>4, <1>5, <1>6

\* What is not kept has to be removed or inserted: no alignment costs less than
\* the table says ...
LEMMA TableIsLowerBound ==
  ASSUME NEW R, NEW s1 \in Seq(R), NEW s2 \in Seq(R), NEW dp, IsTable(dp, s1, s2)
  PROVE  \A i \in 0 .. Len(s1), j \in 0 .. Len(s2) :
           \A kept \in Aligned(i, j) : dp[<<i, j>>] <= EditsUpTo(s1, s2, i, j, kept)
<1> DEFINE m == Len(s1)
           n == Len(s2)
           Bound(i, j) == \A kept \in Aligned(i, j) :
                            dp[<<i, j>>] <= EditsUpTo(s1, s2, i, j, kept)
           Good == {k \in Nat : \A i \in 0 .. m, j \in 0 .. n : i + j = k => Bound(i, j)}
<1>1. m \in Nat /\ n \in Nat OBVIOUS
<1>2. /\ \A i \in 0 .. m, j \in 0 .. n : Edge(dp, i, j)
      /\ \A i \in 1 .. m, j \in 1 .. n : Inner(dp, s1, s2, i, j)
  BY TableFacts
<1>3. \A i \in 0 .. m, j \in 0 .. n :
        /\ i # 0 => Near(dp[<<i, j>>], dp[<<i - 1, j>>])
        /\ j # 0 => Near(dp[<<i, j>>], dp[<<i, j - 1>>])
  BY TableIsSmooth
<1> HIDE DEF m, n, Bound
<1>4. ASSUME NEW k \in Nat, \A l \in Nat : l < k => l \in Good,
             NEW i \in 0 .. m, NEW j \in 0 .. n, i + j = k
      PROVE  Bound(i, j)
  <2> SUFFICES ASSUME NEW kept \in Aligned(i, j)
               PROVE  dp[<<i, j>>] <= EditsUpTo(s1, s2, i, j, kept)
    BY DEF Bound
  <2>1. i \in Nat /\ j \in Nat BY <1>1
  <2>2. CASE i = 0 \/ j = 0
    <3>0. Cardinality({}) = 0 BY FS_EmptySet
    <3>1. kept = {} BY <2>2 DEF Aligned
    <3>2. Replaced(s1, s2, kept) = {} BY <3>1 DEF Replaced
    <3>3. EditsUpTo(s1, s2, i, j, kept) = i + j
      <4>1. EditsUpTo(s1, s2, i, j, {}) = i + j - 2 * 0 + 0
        BY <3>0, <3>1, <3>2, Zenon DEF EditsUpTo
      <4> QED BY <2>1, <3>1, <4>1
    <3>4. Edge(dp, i, j) BY <1>2
    <3>5. dp[<<i, j>>] = i + j BY <2>1, <2>2, <3>4 DEF Edge
    <3> QED BY <2>1, <3>3, <3>5
  <2>3. CASE i # 0 /\ j # 0
    <3> DEFINE e == EditsUpTo(s1, s2, i, j, kept)
               d == dp[<<i, j>>]
               cut == kept \ {<<i, j>>}
    <3>1. /\ i \in 1 .. m /\ i - 1 \in 0 .. m /\ i \in Nat \ {0} /\ i - 1 \in Nat
          /\ j \in 1 .. n /\ j - 1 \in 0 .. n /\ j \in Nat \ {0} /\ j - 1 \in Nat
      BY <1>1, <2>3
    <3>2. Bound(i - 1, j) /\ Bound(i, j - 1) /\ Bound(i - 1, j - 1)
      <4>1. /\ (i - 1) + j \in Nat /\ (i - 1) + j < k
            /\ i + (j - 1) \in Nat /\ i + (j - 1) < k
            /\ (i - 1) + (j - 1) \in Nat /\ (i - 1) + (j - 1) < k
        BY <1>4, <2>1, <3>1
      <4>2. (i - 1) + j \in Good /\ i + (j - 1) \in Good /\ (i - 1) + (j - 1) \in Good
        BY <1>4, <4>1
      <4> QED BY <3>1, <4>2
    <3>3. /\ d \in Nat /\ dp[<<i - 1, j>>] \in Nat
          /\ dp[<<i, j - 1>>] \in Nat /\ dp[<<i - 1, j - 1>>] \in Nat
      BY <1>2, <3>1 DEF Edge
    <3>4. \/ kept \in Aligned(i - 1, j) /\ e = EditsUpTo(s1, s2, i - 1, j, kept) + 1
          \/ kept \in Aligned(i, j - 1) /\ e = EditsUpTo(s1, s2, i, j - 1, kept) + 1
          \/ /\ cut \in Aligned(i - 1, j - 1)
             /\ e = EditsUpTo(s1, s2, i - 1, j - 1, cut) + Change(s1, s2, i, j)
      BY <3>1, LastOfBoth
    <3>5. Near(d, dp[<<i - 1, j>>]) /\ Near(d, dp[<<i, j - 1>>]) BY <1>3, <2>3
    <3>6. Inner(dp, s1, s2, i, j) BY <1>2, <3>1
    <3>7. e \in Int BY <2>1, AlignedIsFinite
    <3> HIDE DEF e, d, cut
    <3>8. CASE kept \in Aligned(i - 1, j) /\ e = EditsUpTo(s1, s2, i - 1, j, kept) + 1
      <4>1. dp[<<i - 1, j>>] <= EditsUpTo(s1, s2, i - 1, j, kept)
        BY <3>2, <3>8 DEF Bound
      <4>2. EditsUpTo(s1, s2, i - 1, j, kept) \in Int BY <2>1, <3>1, <3>8, AlignedIsFinite
      <4>3. d <= dp[<<i - 1, j>>] + 1 BY <3>5 DEF Near
      <4>4. d <= e BY <3>3, <3>8, <4>1, <4>2, <4>3
      <4> QED BY <4>4 DEF d, e
    <3>9. CASE kept \in Aligned(i, j - 1) /\ e = EditsUpTo(s1, s2, i, j - 1, kept) + 1
      <4>1. dp[<<i, j - 1>>] <= EditsUpTo(s1, s2, i, j - 1, kept)
        BY <3>2, <3>9 DEF Bound
      <4>2. EditsUpTo(s1, s2, i, j - 1, kept) \in Int BY <2>1, <3>1, <3>9, AlignedIsFinite
      <4>3. d <= dp[<<i, j - 1>>] + 1 BY <3>5 DEF Near
      <4>4. d <= e BY <3>3, <3>9, <4>1, <4>2, <4>3
      <4> QED BY <4>4 DEF d, e
    <3>10. CASE /\ cut \in Aligned(i - 1, j - 1)
                /\ e = EditsUpTo(s1, s2, i - 1, j - 1, cut)
                         + Change(s1, s2, i, j)
      <4>1. dp[<<i - 1, j - 1>>] <= EditsUpTo(s1, s2, i - 1, j - 1, cut)
        BY <3>2, <3>10 DEF Bound
      <4>2. EditsUpTo(s1, s2, i - 1, j - 1, cut) \in Int BY <3>1, <3>10, AlignedIsFinite
      <4>3. d <= dp[<<i - 1, j - 1>>] + Change(s1, s2, i, j)
        BY <3>3, <3>6 DEF Inner, d, Change
      <4>4. d <= e BY <3>3, <3>10, <4>1, <4>2, <4>3 DEF Change
      <4> QED BY <4>4 DEF d, e
    <3> QED BY <3>4, <3>8, <3>9, <3>10
  <2> QED BY <2>2, <2>3
<1>5. Good = Nat
  <2>1. Good \in SUBSET Nat OBVIOUS
  <2>2. ASSUME NEW k \in Nat, \A l \in Nat : l < k => l \in Good PROVE k \in Good
    BY <1>4, <2>2
  <2> HIDE DEF Good
  <2> QED BY <2>1, <2>2, NumberInduction
<1>6. ASSUME NEW i \in 0 .. m, NEW j \in 0 .. n PROVE Bound(i, j)
  <2>1. i + j \in Nat BY <1>1
  <2>2. i + j \in Good BY <1>5, <2>1
  <2> QED BY <2>2
<1> QED BY <1>6 DEF Bound, m, n

\* ... and some alignment costs just that.
Attained(dp, s1, s2, i, j) ==
  \E kept \in Aligned(i, j) : EditsUpTo(s1, s2, i, j, kept) = dp[<<i, j>>]

LEMMA TableIsAttained ==
  ASSUME NEW R, NEW s1 \in Seq(R), NEW s2 \in Seq(R), NEW dp, IsTable(dp, s1, s2)
  PROVE  \A i \in 0 .. Len(s1), j \in 0 .. Len(s2) : Attained(dp, s1, s2, i, j)
<1> DEFINE m == Len(s1)
           n == Len(s2)
           Good == {k \in Nat : \A i \in 0 .. m, j \in 0 .. n :
                                  i + j = k => Attained(dp, s1, s2, i, j)}
<1>1. m \in Nat /\ n \in Nat OBVIOUS
<1>2. /\ \A i \in 0 .. m, j \in 0 .. n : Edge(dp, i, j)
      /\ \A i \in 1 .. m, j \in 1 .. n : Inner(dp, s1, s2, i, j)
  BY TableFacts
<1> HIDE DEF m, n
<1>4. ASSUME NEW k \in Nat, \A l \in Nat : l < k => l \in Good,
             NEW i \in 0 .. m, NEW j \in 0 .. n, i + j = k
      PROVE  Attained(dp, s1, s2, i, j)
  <2>1. i \in Nat /\ j \in Nat BY <1>1
  <2>2. CASE i = 0 \/ j = 0
    <3>0. Cardinality({}) = 0 BY FS_EmptySet
    <3>1. {} \in Aligned(i, j) BY DEF Aligned, InOrder
    <3>2. Replaced(s1, s2, {}) = {} BY DEF Replaced
    <3>3. EditsUpTo(s1, s2, i, j, {}) = i + j
      <4>1. EditsUpTo(s1, s2, i, j, {}) = i + j - 2 * 0 + 0
        BY <3>0, <3>2, Zenon DEF EditsUpTo
      <4> QED BY <2>1, <4>1
    <3>4. Edge(dp, i, j) BY <1>2
    <3>5. dp[<<i, j>>] = i + j BY <2>1, <2>2, <3>4 DEF Edge
    <3> QED BY <3>1, <3>3, <3>5 DEF Attained
  <2>3. CASE i # 0 /\ j # 0
    <3>1. /\ i \in 1 .. m /\ i - 1 \in 0 .. m /\ i \in Nat \ {0} /\ i - 1 \in Nat
          /\ j \in 1 .. n /\ j - 1 \in 0 .. n /\ j \in Nat \ {0} /\ j - 1 \in Nat
      BY <1>1, <2>3
    <3>2. /\ Attained(dp, s1, s2, i - 1, j) /\ Attained(dp, s1, s2, i, j - 1)
          /\ Attained(dp, s1, s2, i - 1, j - 1)
      <4>1. /\ (i - 1) + j \in Nat /\ (i - 1) + j < k
            /\ i + (j - 1) \in Nat /\ i + (j - 1) < k
            /\ (i - 1) + (j - 1) \in Nat /\ (i - 1) + (j - 1) < k
        BY <1>4, <2>1, <3>1
      <4>2. (i - 1) + j \in Good /\ i + (j - 1) \in Good /\ (i - 1) + (j - 1) \in Good
        BY <1>4, <4>1
      <4> QED BY <3>1, <4>2
    <3>3. \/ dp[<<i, j>>] = dp[<<i - 1, j - 1>>] + Change(s1, s2, i, j)
          \/ dp[<<i, j>>] = 1 + dp[<<i - 1, j>>]
          \/ dp[<<i, j>>] = 1 + dp[<<i, j - 1>>]
      <4>1. dp[<<i - 1, j - 1>>] \in Nat BY <1>2, <3>1 DEF Edge
      <4>2. Inner(dp, s1, s2, i, j) BY <1>2, <3>1
      <4> QED BY <4>1, <4>2 DEF Inner, Change
    <3>4. CASE dp[<<i, j>>] = dp[<<i - 1, j - 1>>] + Change(s1, s2, i, j)
      <4>1. PICK kept \in Aligned(i - 1, j - 1) :
              EditsUpTo(s1, s2, i - 1, j - 1, kept) = dp[<<i - 1, j - 1>>]
        BY <3>2 DEF Attained
      <4>2. /\ kept \union {<<i, j>>} \in Aligned(i, j)
            /\ EditsUpTo(s1, s2, i, j, kept \union {<<i, j>>})
                 = EditsUpTo(s1, s2, i - 1, j - 1, kept) + Change(s1, s2, i, j)
        BY <3>1, KeepLast
      <4> QED BY <3>4, <4>1, <4>2 DEF Attained
    <3>5. CASE dp[<<i, j>>] = 1 + dp[<<i - 1, j>>]
      <4>1. PICK kept \in Aligned(i - 1, j) :
              EditsUpTo(s1, s2, i - 1, j, kept) = dp[<<i - 1, j>>]
        BY <3>2 DEF Attained
      <4>2. Cardinality(kept) \in Nat /\ Cardinality(Replaced(s1, s2, kept)) \in Nat
        BY <2>1, <3>1, AlignedIsFinite
      <4>3. EditsUpTo(s1, s2, i, j, kept) = 1 + EditsUpTo(s1, s2, i - 1, j, kept)
        BY <2>1, <4>2 DEF EditsUpTo
      <4>4. kept \in Aligned(i, j)
        <5>1. (1 .. i - 1) \X (1 .. j) \subseteq (1 .. i) \X (1 .. j) BY <2>1
        <5> QED BY <5>1 DEF Aligned
      <4> QED BY <3>5, <4>1, <4>3, <4>4 DEF Attained
    <3>6. CASE dp[<<i, j>>] = 1 + dp[<<i, j - 1>>]
      <4>1. PICK kept \in Aligned(i, j - 1) :
              EditsUpTo(s1, s2, i, j - 1, kept) = dp[<<i, j - 1>>]
        BY <3>2 DEF Attained
      <4>2. Cardinality(kept) \in Nat /\ Cardinality(Replaced(s1, s2, kept)) \in Nat
        BY <2>1, <3>1, AlignedIsFinite
      <4>3. EditsUpTo(s1, s2, i, j, kept) = 1 + EditsUpTo(s1, s2, i, j - 1, kept)
        BY <2>1, <4>2 DEF EditsUpTo
      <4>4. kept \in Aligned(i, j)
        <5>1. (1 .. i) \X (1 .. j - 1) \subseteq (1 .. i) \X (1 .. j) BY <2>1
        <5> QED BY <5>1 DEF Aligned
      <4> QED BY <3>6, <4>1, <4>3, <4>4 DEF Attained
    <3> QED BY <3>3, <3>4, <3>5, <3>6
  <2> QED BY <2>2, <2>3
<1>5. Good = Nat
  <2>1. Good \in SUBSET Nat OBVIOUS
  <2>2. ASSUME NEW k \in Nat, \A l \in Nat : l < k => l \in Good PROVE k \in Good
    BY <1>4, <2>2
  <2> HIDE DEF Good
  <2> QED BY <2>1, <2>2, NumberInduction
<1>6. ASSUME NEW i \in 0 .. m, NEW j \in 0 .. n PROVE Attained(dp, s1, s2, i, j)
  <2>1. i + j \in Nat BY <1>1
  <2>2. i + j \in Good BY <1>5, <2>1
  <2> QED BY <2>2
<1> QED BY <1>6 DEF m, n

\* So the distance is the least number of edits.
LEMMA EditDistanceIsLeast ==
  ASSUME NEW R, NEW s1 \in Seq(R), NEW s2 \in Seq(R),
         Len(s1) \in 1 .. MaxAligned, Len(s2) \in 1 .. MaxAligned
  PROVE  EditDistance(s1, s2) = LeastEdits(s1, s2) /\ EditDistance(s1, s2) \in Nat
<1> DEFINE m == Len(s1)
           n == Len(s2)
           dp == Table(s1, s2)
           d == dp[<<m, n>>]
           all == {EditsUpTo(s1, s2, m, n, kept) : kept \in Aligned(m, n)}
<1>1. m \in Nat /\ n \in Nat /\ m \in 0 .. m /\ n \in 0 .. n OBVIOUS
<1>2. IsTable(dp, s1, s2) BY TableExists
<1> HIDE DEF dp
<1>3. d \in Nat
  <2>1. Edge(dp, m, n) BY <1>1, <1>2, TableFacts
  <2> QED BY <2>1 DEF Edge
<1>4. \A kept \in Aligned(m, n) : d <= EditsUpTo(s1, s2, m, n, kept)
  BY <1>1, <1>2, TableIsLowerBound
<1>5. d \in all
  <2>1. Attained(dp, s1, s2, m, n) BY <1>1, <1>2, TableIsAttained
  <2> QED BY <2>1 DEF Attained
<1>6. LeastEdits(s1, s2) = Min(all)
  <2>1. <<m, n>> \in (0 .. MaxAligned) \X (0 .. MaxAligned)
    BY <1>1, AlignedAssumption
  <2>2. AlignmentsOf[<<m, n>>] = Aligned(m, n)
    BY <2>1 DEF AlignmentsOf, Aligned, InOrder
  <2>3. \A kept : Edits(s1, s2, kept) = EditsUpTo(s1, s2, m, n, kept)
    BY DEF Edits, EditsUpTo, Replaced
  <2> QED BY <2>2, <2>3 DEF LeastEdits
<1>7. Min(all) = d
  <2>1. \A x \in all : x \in Int /\ d <= x BY <1>1, <1>4, AlignedIsFinite
  <2> HIDE DEF all, d
  <2>2. \A x \in all : (\A y \in all : x <= y) => x = d BY <1>3, <1>5, <2>1
  <2> QED BY <1>5, <2>1, <2>2 DEF Min
<1> QED BY <1>3, <1>6, <1>7, EditDistanceIsInTable DEF d, dp

\* The bytes of a text are a number, and those of one that is not empty a
\* positive one.
LEMMA BytesType ==
  ASSUME NEW s \in Seq(Rune)
  PROVE  Bytes(s) \in Nat /\ (s # <<>> => Bytes(s) > 0)
<1> DEFINE width == [i \in DOMAIN s |-> Width[s[i]]]
           D == DOMAIN s
<1>1. Len(s) \in Nat /\ D = 1 .. Len(s) /\ IsFiniteSet(D) BY FS_Interval
<1>2. \A i \in D : width[i] \in Nat /\ width[i] > 0
  <2>1. \A i \in D : s[i] \in Rune BY <1>1
  <2> QED BY <2>1, WidthAssumption
<1>3. Bytes(s) = SumFunctionOnSet(width, D) BY DEF Bytes
<1>4. s # <<>> => 1 \in D BY <1>1
<1> HIDE DEF width, D
<1>5. SumFunctionOnSet(width, D) \in Nat BY <1>1, <1>2, SumNat
<1>6. CASE 1 \in D
  <2>1. IsFiniteSet(D \ {1}) BY <1>1, FS_Subset
  <2>2. SumFunctionOnSet(width, D \ {1}) \in Nat BY <1>2, <2>1, SumNat
  <2>3. \A i \in D : width[i] \in Int BY <1>2
  <2>4. SumFunctionOnSet(width, D) = width[1] + SumFunctionOnSet(width, D \ {1})
    BY <1>1, <1>6, <2>3, SumWithout
  <2> QED BY <1>2, <1>3, <1>6, <2>2, <2>4
<1> QED BY <1>3, <1>4, <1>5, <1>6

\* The types of what a comparison measures.
LEMMA LongestType ==
  ASSUME NEW s1 \in Seq(Rune), NEW s2 \in Seq(Rune)
  PROVE  /\ MaxLen(s1, s2) \in Nat
         /\ s1 # <<>> => MaxLen(s1, s2) > 0
         /\ s2 # <<>> => MaxLen(s1, s2) > 0
  BY BytesType DEF MaxLen

LEMMA DistanceType ==
  ASSUME NEW s1 \in Seq(Rune), NEW s2 \in Seq(Rune)
  PROVE  LevenshteinDistance(s1, s2) \in Nat
<1>1. EditDistance(s1, s2) \in Nat
  <2> DEFINE dp == Table(s1, s2)
  <2>1. IsTable(dp, s1, s2) BY TableExists
  <2>2. Len(s1) \in 0 .. Len(s1) /\ Len(s2) \in 0 .. Len(s2) OBVIOUS
  <2> HIDE DEF dp
  <2>3. Edge(dp, Len(s1), Len(s2)) BY <2>1, <2>2, TableFacts
  <2> QED BY <2>3, EditDistanceIsInTable DEF Edge, dp
<1>2. Bytes(s1) \in Nat /\ Bytes(s2) \in Nat BY BytesType
<1> QED BY <1>1, <1>2 DEF LevenshteinDistance

\* Summands of one and more add up to no less than how many they are.
LEMMA SumAtLeastSize ==
  ASSUME NEW S, IsFiniteSet(S), NEW f, \A x \in S : f[x] \in Nat /\ f[x] > 0
  PROVE  Cardinality(S) <= SumFunctionOnSet(f, S)
<1> DEFINE Good == {T \in SUBSET S : Cardinality(T) <= SumFunctionOnSet(f, T)}
<1>1. ASSUME NEW T \in SUBSET S, \A U \in SUBSET T : U # T => U \in Good PROVE T \in Good
  <2>1. IsFiniteSet(T) BY FS_Subset
  <2>2. CASE T = {}
    <3>1. Cardinality(T) = 0 /\ SumFunctionOnSet(f, T) = 0 BY <2>2, FS_EmptySet, SumEmpty
    <3> QED BY <3>1
  <2>3. CASE T # {}
    <3> DEFINE a == First(T)
               U == T \ {a}
    <3>1. a \in T BY <2>3, FirstFact
    <3>2. U \in SUBSET T /\ U # T /\ IsFiniteSet(U) BY <2>1, <3>1, FS_Subset
    <3>3. Cardinality(U) <= SumFunctionOnSet(f, U) BY <1>1, <3>2
    <3>4. SumFunctionOnSet(f, T) = f[a] + SumFunctionOnSet(f, U) BY <2>1, <2>3, SumFirst
    <3>5. SumFunctionOnSet(f, U) \in Nat BY <3>2, SumNat
    <3>6. Cardinality(U) = Cardinality(T) - 1 BY <2>1, <3>1, FS_RemoveElement
    <3>7. Cardinality(T) \in Nat BY <2>1, FS_CardinalityType
    <3>8. f[a] \in Nat /\ f[a] > 0 BY <3>1
    <3> HIDE DEF a, U
    <3> QED BY <3>3, <3>4, <3>5, <3>6, <3>7, <3>8
  <2> QED BY <2>2, <2>3
<1>2. Good = SUBSET S
  <2>1. Good \in SUBSET SUBSET S OBVIOUS
  <2> HIDE DEF Good
  <2> QED BY <1>1, <2>1, SetInduction
<1>3. S \in Good BY <1>2
<1> QED BY <1>3

\* A text has no fewer bytes than runes.
LEMMA BytesAtLeastRunes ==
  ASSUME NEW s \in Seq(Rune) PROVE Len(s) <= Bytes(s)
<1> DEFINE width == [i \in DOMAIN s |-> Width[s[i]]]
           D == DOMAIN s
<1>1. Len(s) \in Nat /\ D = 1 .. Len(s) OBVIOUS
<1>2. IsFiniteSet(D) /\ Cardinality(D) = Len(s)
  <2>1. Cardinality(1 .. Len(s)) = IF 1 > Len(s) THEN 0 ELSE Len(s) - 1 + 1
    BY <1>1, FS_Interval
  <2>2. IsFiniteSet(1 .. Len(s)) BY <1>1, FS_Interval
  <2> QED BY <1>1, <2>1, <2>2
<1>3. \A i \in D : width[i] \in Nat /\ width[i] > 0
  <2>1. \A i \in D : s[i] \in Rune BY <1>1
  <2> QED BY <2>1, WidthAssumption
<1>4. Bytes(s) = SumFunctionOnSet(width, D) BY DEF Bytes
<1> HIDE DEF width, D
<1> QED BY <1>2, <1>3, <1>4, SumAtLeastSize

\* No cell has more than the longer of the two beginnings it is about.
LEMMA TableIsUpperBound ==
  ASSUME NEW R, NEW s1 \in Seq(R), NEW s2 \in Seq(R), NEW dp, IsTable(dp, s1, s2)
  PROVE  \A i \in 0 .. Len(s1), j \in 0 .. Len(s2) : dp[<<i, j>>] <= i \/ dp[<<i, j>>] <= j
<1> DEFINE m == Len(s1)
           n == Len(s2)
           Bound(i, j) == dp[<<i, j>>] <= i \/ dp[<<i, j>>] <= j
           Good == {k \in Nat : \A i \in 0 .. m, j \in 0 .. n : i = k => Bound(i, j)}
<1>1. m \in Nat /\ n \in Nat OBVIOUS
<1>2. /\ \A i \in 0 .. m, j \in 0 .. n : Edge(dp, i, j)
      /\ \A i \in 1 .. m, j \in 1 .. n : Inner(dp, s1, s2, i, j)
  BY TableFacts
<1> HIDE DEF m, n, Bound
<1>3. ASSUME NEW k \in Nat, \A l \in Nat : l < k => l \in Good,
             NEW i \in 0 .. m, NEW j \in 0 .. n, i = k
      PROVE  Bound(i, j)
  <2>1. i \in Nat /\ j \in Nat BY <1>1
  <2>2. CASE i = 0 \/ j = 0
    <3>1. Edge(dp, i, j) BY <1>2
    <3> QED BY <2>1, <2>2, <3>1 DEF Edge, Bound
  <2>3. CASE i # 0 /\ j # 0
    <3>1. /\ i \in 1 .. m /\ i - 1 \in 0 .. m /\ i - 1 \in Nat /\ i - 1 < k
          /\ j \in 1 .. n /\ j - 1 \in 0 .. n
      BY <1>1, <1>3, <2>3
    <3>2. Bound(i - 1, j - 1)
      <4>1. i - 1 \in Good BY <1>3, <3>1
      <4> QED BY <3>1, <4>1
    <3>3. dp[<<i, j>>] \in Nat /\ dp[<<i - 1, j - 1>>] \in Nat BY <1>2, <3>1 DEF Edge
    <3>4. Inner(dp, s1, s2, i, j) BY <1>2, <3>1
    <3>5. dp[<<i, j>>] <= 1 + dp[<<i - 1, j - 1>>] BY <3>3, <3>4 DEF Inner
    <3>6. dp[<<i - 1, j - 1>>] <= i - 1 \/ dp[<<i - 1, j - 1>>] <= j - 1
      BY <3>2 DEF Bound
    <3>7. dp[<<i, j>>] <= i \/ dp[<<i, j>>] <= j BY <2>1, <3>3, <3>5, <3>6
    <3> QED BY <3>7 DEF Bound
  <2> QED BY <2>2, <2>3
<1>4. Good = Nat
  <2>1. Good \in SUBSET Nat OBVIOUS
  <2>2. ASSUME NEW k \in Nat, \A l \in Nat : l < k => l \in Good PROVE k \in Good
    BY <1>3, <2>2
  <2> HIDE DEF Good
  <2> QED BY <2>1, <2>2, NumberInduction
<1>5. ASSUME NEW i \in 0 .. m, NEW j \in 0 .. n PROVE Bound(i, j)
  <2>1. i \in Good BY <1>1, <1>4
  <2> QED BY <2>1
<1> QED BY <1>5 DEF Bound, m, n

\* The distance is at most the longest, though one counts runes and the other
\* bytes, so that the score is in its range before calculateRiskScore cuts it to
\* it: RiskComparison leaves the cuts out.
THEOREM ScoreInRange ==
  ASSUME NEW s1 \in Seq(Rune), NEW s2 \in Seq(Rune), NEW modelChanged \in BOOLEAN
  PROVE  /\ LevenshteinDistance(s1, s2) <= MaxLen(s1, s2)
         /\ CalculateRiskScore(LevenshteinDistance(s1, s2), MaxLen(s1, s2), modelChanged)
              \in 0 .. 100
<1> DEFINE d == LevenshteinDistance(s1, s2)
           l == MaxLen(s1, s2)
<1>1. d \in Nat /\ l \in Nat BY DistanceType, LongestType
<1>2. /\ Bytes(s1) \in Nat /\ Bytes(s2) \in Nat
      /\ Len(s1) \in Nat /\ Len(s1) <= Bytes(s1)
      /\ Len(s2) \in Nat /\ Len(s2) <= Bytes(s2)
  BY BytesType, BytesAtLeastRunes
<1>3. Bytes(s1) <= l /\ Bytes(s2) <= l BY <1>2 DEF MaxLen
<1>4. EditDistance(s1, s2) <= Len(s1) \/ EditDistance(s1, s2) <= Len(s2)
  <2>1. IsTable(Table(s1, s2), s1, s2) BY TableExists
  <2>2. Len(s1) \in 0 .. Len(s1) /\ Len(s2) \in 0 .. Len(s2) BY <1>2
  <2> QED BY <2>1, <2>2, TableIsUpperBound, EditDistanceIsInTable
<1>5. d <= l
  <2> HIDE DEF l
  <2>1. CASE s1 = <<>> BY <1>3, <2>1 DEF LevenshteinDistance
  <2>2. CASE s1 # <<>> /\ s2 = <<>> BY <1>3, <2>2 DEF LevenshteinDistance
  <2>3. CASE s1 # <<>> /\ s2 # <<>>
    <3>1. d = EditDistance(s1, s2) BY <2>3 DEF LevenshteinDistance
    <3> HIDE DEF d
    <3>2. EditDistance(s1, s2) \in Nat BY <1>1, <3>1
    <3> QED BY <1>1, <1>2, <1>3, <1>4, <3>1, <3>2
  <2> QED BY <2>1, <2>2, <2>3
<1> HIDE DEF d, l
<1>6. CalculateRiskScore(d, l, modelChanged) \in 0 .. 100
  <2>1. CASE l = 0
    <3>1. d = 0 BY <1>1, <1>5, <2>1
    <3> QED BY <2>1, <3>1 DEF CalculateRiskScore
  <2>2. CASE l > 0
    <3> DEFINE same == (200 * d + l) \div (2 * l)
               other == (160 * d + l) \div (2 * l)
    <3>1. same \in Int /\ 0 <= same /\ same <= 100
      BY <1>1, <1>5, <2>2
    <3>2. other \in Int /\ 0 <= other /\ other <= 80
      BY <1>1, <1>5, <2>2
    <3>4. CASE modelChanged = FALSE
      <4>1. CalculateRiskScore(d, l, modelChanged) = same
        BY <1>1, <2>2, <3>4 DEF CalculateRiskScore
      <4> HIDE DEF same
      <4> QED BY <3>1, <4>1
    <3>5. CASE modelChanged = TRUE
      <4>1. CalculateRiskScore(d, l, modelChanged) = 20 + other
        BY <1>1, <2>2, <3>5 DEF CalculateRiskScore
      <4> HIDE DEF other
      <4> QED BY <3>2, <4>1
    <3> QED BY <3>4, <3>5
  <2> QED BY <1>1, <2>1, <2>2
<1> QED BY <1>5, <1>6 DEF d, l

\* How many fields are at a level.
LEMMA FieldsCounted ==
  ASSUME NEW risks, NEW level
  PROVE  /\ Cardinality(FieldsAt(risks, level)) \in Nat
         /\ Cardinality(FieldsAt(risks, level)) = 0 => \A field \in Fields : risks[field] # level
<1>1. IsFiniteSet(Fields)
  <2> DEFINE F == {"model", "output.response", "observations.tokens_count",
                   "observations.cost_estimated_usd", "output.finish_reason"}
  <2>1. IsFiniteSet(F)
    <3>1. IsFiniteSet({}) BY FS_EmptySet
    <3>2. IsFiniteSet({} \union {"model"}) BY <3>1, FS_AddElement
    <3>3. IsFiniteSet(({} \union {"model"}) \union {"output.response"}) BY <3>2, FS_AddElement
    <3>4. IsFiniteSet((({} \union {"model"}) \union {"output.response"})
                        \union {"observations.tokens_count"})
      BY <3>3, FS_AddElement
    <3>5. IsFiniteSet(((({} \union {"model"}) \union {"output.response"})
                        \union {"observations.tokens_count"})
                        \union {"observations.cost_estimated_usd"})
      BY <3>4, FS_AddElement
    <3>6. IsFiniteSet((((({} \union {"model"}) \union {"output.response"})
                        \union {"observations.tokens_count"})
                        \union {"observations.cost_estimated_usd"})
                        \union {"output.finish_reason"})
      BY <3>5, FS_AddElement
    <3>7. F = (((({} \union {"model"}) \union {"output.response"})
                        \union {"observations.tokens_count"})
                        \union {"observations.cost_estimated_usd"})
                        \union {"output.finish_reason"}
      OBVIOUS
    <3> HIDE DEF F
    <3> QED BY <3>6, <3>7
  <2> HIDE DEF F
  <2>2. IsFiniteSet(F \union Param) BY <2>1, ParamAssumption, FS_Union
  <2> QED BY <2>2 DEF Fields, F
<1>2. FieldsAt(risks, level) \in SUBSET Fields BY DEF FieldsAt
<1>3. IsFiniteSet(FieldsAt(risks, level)) BY <1>1, <1>2, FS_Subset
<1>4. Cardinality(FieldsAt(risks, level)) \in Nat BY <1>3, FS_CardinalityType
<1>5. Cardinality(FieldsAt(risks, level)) = 0 => FieldsAt(risks, level) = {}
  BY <1>3, FS_EmptySet
<1> QED BY <1>4, <1>5 DEF FieldsAt

-----------------------------------------------------------------------------
\* What a comparison has found is in the report until the end.
DifferInv ==
  /\ Comparable(baseline) /\ Comparable(candidate)
  /\ report = NoReport \/ report = Compare(baseline, candidate)

LEMMA DifferInductive == Spec => []DifferInv
<1>1. Init => DifferInv BY PairsAssumption DEF Init, DifferInv
<1>2. DifferInv /\ [CompareTraces]_dvars => DifferInv'
  <2> SUFFICES ASSUME DifferInv, [CompareTraces]_dvars PROVE DifferInv'
    OBVIOUS
  <2>1. baseline' = baseline /\ candidate' = candidate BY DEF CompareTraces, dvars
  <2>2. report' = report \/ report' = Compare(baseline, candidate)
    BY DEF CompareTraces, dvars
  <2> QED BY <2>1, <2>2 DEF DifferInv
<1> QED BY <1>1, <1>2, PTL DEF Spec

\* What a report says, unless both responses are nil.
LEMMA ReportFacts ==
  ASSUME DifferInv, report # NoReport
  PROVE  LET s1 == Text(baseline)
             s2 == Text(candidate)
             d == LevenshteinDistance(s1, s2)
             l == MaxLen(s1, s2)
             score == CalculateRiskScore(d, l, baseline.model # candidate.model)
         IN  /\ s1 \in Seq(Rune) /\ s2 \in Seq(Rune) /\ d \in Nat /\ l \in Nat
             /\ s1 # <<>> \/ s2 # <<>> => l > 0
             /\ {baseline.response, candidate.response} # {NoResponse} =>
                  /\ report.distance = d
                  /\ report.modelChanged = (baseline.model # candidate.model)
                  /\ report.recommendation =
                       DetermineRecommendation(score, baseline.model # candidate.model,
                                               Analysed("HIGH"), Analysed("MEDIUM"))
<1> DEFINE s1 == Text(baseline)
           s2 == Text(candidate)
           d == LevenshteinDistance(s1, s2)
           l == MaxLen(s1, s2)
           changed == baseline.model # candidate.model
           score == CalculateRiskScore(d, l, changed)
           advice == DetermineRecommendation(score, changed, Analysed("HIGH"),
                                             Analysed("MEDIUM"))
<1>1. s1 \in Seq(Rune) /\ s2 \in Seq(Rune)
  BY DEF DifferInv, Comparable, Text
<1>2. /\ d \in Nat /\ l \in Nat /\ (s1 # <<>> \/ s2 # <<>> => l > 0)
  <2> HIDE DEF s1, s2
  <2> QED BY <1>1, DistanceType, LongestType
<1>3. ASSUME {baseline.response, candidate.response} # {NoResponse}
      PROVE  /\ report.distance = d /\ report.modelChanged = changed
             /\ report.recommendation = advice
  <2>1. report = [NewRiskReport(baseline, candidate) EXCEPT
                    !.distance = d, !.score = score, !.recommendation = advice]
    <3>1. report = Compare(baseline, candidate) BY DEF DifferInv
    <3>2. ~ (baseline.response = NoResponse /\ candidate.response = NoResponse) BY <1>3
    <3> QED BY <3>1, <3>2, Zenon DEF Compare, Analysed, Risks
  <2> HIDE DEF d, score, advice
  <2> QED BY <2>1 DEF NewRiskReport
<1> HIDE DEF s1, s2, d, l, score, advice, changed
<1> QED BY <1>1, <1>2, <1>3 DEF s1, s2, d, l, score, advice, changed

\* For texts of any length up to MaxAligned, which may be any number: the table
\* of LevenshteinDistance finds the least number of edits.
THEOREM DistanceIsLeastHolds == Spec => []DistanceIsLeast
<1>1. DifferInv => DistanceIsLeast
  <2> SUFFICES ASSUME DifferInv, report # NoReport,
                      Len(Text(baseline)) \in 1 .. MaxAligned,
                      Len(Text(candidate)) \in 1 .. MaxAligned
               PROVE  report.distance = LeastEdits(Text(baseline), Text(candidate))
    BY DEF DistanceIsLeast
  <2> DEFINE s1 == Text(baseline)
             s2 == Text(candidate)
  <2>1. /\ s1 \in Seq(Rune) /\ s2 \in Seq(Rune)
        /\ {baseline.response, candidate.response} # {NoResponse} =>
             report.distance = LevenshteinDistance(s1, s2)
    BY ReportFacts
  <2>2. {baseline.response, candidate.response} # {NoResponse}
    BY DEF Text
  <2> HIDE DEF s1, s2
  <2>3. s1 # <<>> /\ s2 # <<>> BY DEF s1, s2
  <2>4. EditDistance(s1, s2) = LeastEdits(s1, s2)
    <3>1. Len(s1) \in 1 .. MaxAligned /\ Len(s2) \in 1 .. MaxAligned BY DEF s1, s2
    <3> QED BY <2>1, <3>1, EditDistanceIsLeast
  <2>5. report.distance = LeastEdits(s1, s2)
    BY <2>1, <2>2, <2>3, <2>4 DEF LevenshteinDistance
  <2> QED BY <2>5 DEF s1, s2
<1> QED BY <1>1, DifferInductive, PTL

\* A score of which it is known on which side of a limit it is.
LEMMA ScoreBounds ==
  ASSUME NEW d \in Nat, NEW l \in Nat, l > 0
  PROVE  /\ CalculateRiskScore(d, l, FALSE) < 30 => 200 * d < 59 * l
         /\ CalculateRiskScore(d, l, TRUE) < 30 => 160 * d < 19 * l
         /\ CalculateRiskScore(d, l, FALSE) >= 70 => 200 * d >= 139 * l
         /\ CalculateRiskScore(d, l, TRUE) >= 70 => 160 * d >= 99 * l
  BY DEF CalculateRiskScore

\* A block needs two HIGH fields, or none and a score of 70: a response that is
\* HIGH by itself leaves at most a review, and any other that scores 70 is in the
\* band.  Equal responses are no way around it: their distance is 0.
THEOREM BlockedInBandHolds == Spec => []BlockedInBand
<1>1. DifferInv => BlockedInBand
  <2> DEFINE s1 == Text(baseline)
             s2 == Text(candidate)
             d == LevenshteinDistance(s1, s2)
             l == MaxLen(s1, s2)
             changed == baseline.model # candidate.model
             score == CalculateRiskScore(d, l, changed)
  <2> SUFFICES ASSUME DifferInv, report # NoReport,
                      report.recommendation = "BLOCK_RELEASE",
                      Analysed("HIGH") < 2, s1 # <<>>, s2 # <<>>
               PROVE  /\ ~LessSimilar(report.distance, l, 30)
                      /\ LessSimilar(report.distance, l,
                                     IF report.modelChanged THEN 39 ELSE 31)
    BY DEF BlockedInBand
  <2>1. /\ s1 \in Seq(Rune) /\ s2 \in Seq(Rune) /\ d \in Nat /\ l \in Nat /\ l > 0
        /\ report.distance = d /\ report.modelChanged = changed
        /\ report.recommendation =
             DetermineRecommendation(score, changed, Analysed("HIGH"), Analysed("MEDIUM"))
    <3>1. {baseline.response, candidate.response} # {NoResponse} BY DEF Text
    <3> QED BY <3>1, ReportFacts
  <2>2. Analysed("HIGH") \in Nat /\ Analysed("MEDIUM") \in Nat
    BY FieldsCounted DEF Analysed
  <2>3. Analysed("HIGH") = 0 /\ score >= 70
    <3> HIDE DEF score
    <3>1. DetermineRecommendation(score, changed, Analysed("HIGH"), Analysed("MEDIUM"))
            = "BLOCK_RELEASE"
      BY <2>1
    <3> HIDE DEF changed
    <3> QED BY <2>2, <3>1 DEF DetermineRecommendation
  <2>4. ResponseRisk(baseline, candidate, d, l) # "HIGH"
    <3>1. Risks["output.response"] # "HIGH"
      <4>1. "output.response" \in Fields BY DEF Fields
      <4> QED BY <2>3, <4>1, FieldsCounted DEF Analysed
    <3> HIDE DEF d, l
    <3>2. Risks["output.response"] = ResponseRisk(baseline, candidate, d, l)
      BY DEF Risks, FieldRisks, Fields, d, l
    <3> QED BY <3>1, <3>2
  <2>5. baseline.response = candidate.response => d = 0
    <3>1. baseline.response = candidate.response => s1 = s2 BY DEF Text
    <3>2. s1 = s2 => EditDistance(s1, s2) = 0
      <4> HIDE DEF s1, s2
      <4> QED BY <2>1, DiagonalIsZero
    <3> QED BY <3>1, <3>2 DEF LevenshteinDistance
  <2>6. ~LessSimilar(d, l, 30)
    <3>1. CASE baseline.response = candidate.response
      <4>1. d = 0 BY <2>5, <3>1
      <4> HIDE DEF d, l
      <4> QED BY <2>1, <4>1 DEF LessSimilar
    <3>2. CASE baseline.response # candidate.response
      <4> HIDE DEF d, l
      <4> QED BY <2>4, <3>2 DEF ResponseRisk
    <3> QED BY <3>1, <3>2
  <2>7. LessSimilar(d, l, IF changed THEN 39 ELSE 31)
    <3>1. /\ changed => 160 * d >= 99 * l
          /\ ~changed => 200 * d >= 139 * l
      <4>0. d \in Nat /\ l \in Nat /\ l > 0 BY <2>1
      <4> HIDE DEF d, l
      <4>1. CASE changed = TRUE
        <5>1. CalculateRiskScore(d, l, TRUE) >= 70 BY <2>3, <4>1
        <5> HIDE DEF changed
        <5> QED BY <4>0, <4>1, <5>1, ScoreBounds
      <4>2. CASE changed = FALSE
        <5>1. CalculateRiskScore(d, l, FALSE) >= 70 BY <2>3, <4>2
        <5> HIDE DEF changed
        <5> QED BY <4>0, <4>2, <5>1, ScoreBounds
      <4> QED BY <4>1, <4>2
    <3> HIDE DEF d, l, changed
    <3> QED BY <2>1, <3>1 DEF LessSimilar
  <2> HIDE DEF d, l, changed
  <2> QED BY <2>1, <2>6, <2>7
<1> QED BY <1>1, DifferInductive, PTL

\* An approval means no HIGH field at all and a score below 30, which a response
\* that is 70 percent alike or less does not get.
THEOREM ApprovedIsCloseHolds == Spec => []ApprovedIsClose
<1>1. DifferInv => ApprovedIsClose
  <2> DEFINE s1 == Text(baseline)
             s2 == Text(candidate)
             d == LevenshteinDistance(s1, s2)
             l == MaxLen(s1, s2)
             changed == baseline.model # candidate.model
             score == CalculateRiskScore(d, l, changed)
  <2> SUFFICES ASSUME DifferInv, report # NoReport,
                      report.recommendation = "APPROVE",
                      {baseline.response, candidate.response} # {NoResponse}
               PROVE  /\ ~LessSimilar(report.distance, l, 70)
                      /\ ~(baseline.finish = "stop" /\ candidate.finish = "length")
                      /\ ~(baseline.cost > 0 /\ candidate.cost > 2 * baseline.cost)
                      /\ Analysed("MEDIUM") < 2
    BY DEF ApprovedIsClose
  <2>1. /\ d \in Nat /\ l \in Nat /\ report.distance = d
        /\ report.recommendation =
             DetermineRecommendation(score, changed, Analysed("HIGH"), Analysed("MEDIUM"))
    BY ReportFacts
  <2>2. Analysed("HIGH") \in Nat /\ Analysed("MEDIUM") \in Nat
    BY FieldsCounted DEF Analysed
  <2>3. score \in Int
    <3> HIDE DEF d, l, changed
    <3>1. l = 0 \/ l > 0 BY <2>1
    <3> QED BY <2>1, <3>1 DEF CalculateRiskScore
  <2>4. Analysed("HIGH") = 0 /\ Analysed("MEDIUM") < 2 /\ score < 30
    <3> HIDE DEF score
    <3>1. DetermineRecommendation(score, changed, Analysed("HIGH"), Analysed("MEDIUM"))
            = "APPROVE"
      BY <2>1
    <3> HIDE DEF changed
    <3> QED BY <2>2, <2>3, <3>1 DEF DetermineRecommendation
  <2>5. \A field \in Fields : Risks[field] # "HIGH"
    BY <2>4, FieldsCounted DEF Analysed
  <2>6. ~LessSimilar(d, l, 70)
    <3>1. l > 0 => (changed => 160 * d < 19 * l) /\ (~changed => 200 * d < 59 * l)
      <4>0. d \in Nat /\ l \in Nat BY <2>1
      <4> HIDE DEF d, l
      <4>1. CASE changed = TRUE
        <5>1. CalculateRiskScore(d, l, TRUE) < 30 BY <2>4, <4>1
        <5> HIDE DEF changed
        <5> QED BY <4>0, <4>1, <5>1, ScoreBounds
      <4>2. CASE changed = FALSE
        <5>1. CalculateRiskScore(d, l, FALSE) < 30 BY <2>4, <4>2
        <5> HIDE DEF changed
        <5> QED BY <4>0, <4>2, <5>1, ScoreBounds
      <4> QED BY <4>1, <4>2
    <3> HIDE DEF d, l, changed
    <3> QED BY <2>1, <3>1 DEF LessSimilar
  <2>7. FinishRisk(baseline, candidate) # "HIGH" /\ CostRisk(baseline, candidate) # "HIGH"
    <3>1. /\ "output.finish_reason" \in Fields
          /\ "observations.cost_estimated_usd" \in Fields
      BY DEF Fields
    <3>2. /\ Risks["output.finish_reason"] = FinishRisk(baseline, candidate)
          /\ Risks["observations.cost_estimated_usd"] = CostRisk(baseline, candidate)
      BY <3>1 DEF Risks, FieldRisks
    <3> QED BY <2>5, <3>1, <3>2
  <2>8. ~(baseline.finish = "stop" /\ candidate.finish = "length")
    BY <2>7 DEF FinishRisk
  <2>9. ~(baseline.cost > 0 /\ candidate.cost > 2 * baseline.cost)
    <3>1. baseline.cost \in Int /\ candidate.cost \in Int BY DEF DifferInv, Comparable
    <3>2. \A x, y \in Int : x > 0 /\ y > 2 * x => x # y OBVIOUS
    <3> QED BY <2>7, <3>1, <3>2 DEF CostRisk
  <2> HIDE DEF d, l
  <2> QED BY <2>1, <2>4, <2>6, <2>8, <2>9
<1> QED BY <1>1, DifferInductive, PTL
=============================================================================

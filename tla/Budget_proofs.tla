---------------------------- MODULE Budget_proofs ----------------------------
(***************************************************************************)
(* Theorems of ChatBudget and StreamBudget, for any number of requests and *)
(* streams and any amounts.                                                *)
(***************************************************************************)
EXTENDS StreamBudget, DataInduction

-----------------------------------------------------------------------------
\* A store call leaves a row of the right type.
LEMMA RowType ==
  ASSUME NEW row \in Row, NEW amount \in Int
  PROVE  /\ Held(row, amount) \in Row
         /\ amount >= 0 => Committed(row, amount) \in Row
         /\ RolledBack(row, amount) \in Row
         /\ Budgeted(row, amount) \in Row
         /\ AdminBudgeted(row, amount) \in Row
         /\ Remaining(row) \in Int
<1>1. Held(row, amount) \in Row
  BY DEF Row, Held
<1>2. ASSUME amount >= 0 PROVE Committed(row, amount) \in Row
  <2>1. row.used + amount \in Nat /\ row.reserved - amount \in Int
    BY <1>2 DEF Row
  <2> CASE Backend = "redis"
    BY <2>1 DEF Row, Committed
  <2> CASE Backend # "redis"
    BY <2>1 DEF Row, Committed
  <2> QED OBVIOUS
<1>3. RolledBack(row, amount) \in Row
  <2>1. row.reserved - amount \in Int
    BY DEF Row
  <2> QED BY <2>1 DEF Row, RolledBack
<1>4. Budgeted(row, amount) \in Row
  BY DEF Row, Budgeted
<1>5. AdminBudgeted(row, amount) \in Row
  BY DEF Row, AdminBudgeted
<1>6. Remaining(row) \in Int
  BY DEF Row, Remaining
<1> QED BY <1>1, <1>2, <1>3, <1>4, <1>5, <1>6

\* An account that exists is the one a request writes.
LEMMA AccountType ==
  ASSUME NEW r \in Request
  PROVE  AccountOf(r) \in Account
BY DEF AccountOf, Account

LEMMA FreshRowsType == FreshRows \in [Account -> Row]
BY MoneyAssumption DEF FreshRows, MemoryRow, NoRow, Row

\* Writing a row keeps the store's type.
LEMMA WriteType ==
  ASSUME rows \in [Account -> Row], NEW r \in Request, NEW row \in Row, Write(r, row)
  PROVE  rows' \in [Account -> Row]
BY AccountType DEF Write

\* A jump to a known place keeps the types of pc and of sent.
LEMMA GotoType ==
  ASSUME pc \in [Request -> {"idle"} \union Live \union Final],
         sent \in [Request -> 0 .. MaxRetries],
         NEW r \in Request, NEW w \in {"idle"} \union Live \union Final, Goto(r, w)
  PROVE  /\ pc' \in [Request -> {"idle"} \union Live \union Final]
         /\ sent' \in [Request -> 0 .. MaxRetries]
<1>1. 0 \in 0 .. MaxRetries
  BY FaultAssumption
<1> QED BY <1>1 DEF Goto

\* The amounts of a request are numbers, and it works on a row of the store.
LEMMA AmountsType ==
  ASSUME TypeOK, NEW r \in Request
  PROVE  /\ limit[r] \in Nat /\ est[r] \in Nat /\ cost[r] \in Nat
         /\ limit[r] \in Int /\ est[r] \in Int /\ cost[r] \in Int /\ cost[r] >= 0
         /\ Balance(r) \in Row
<1>1. limit[r] \in Nat /\ est[r] \in Nat /\ cost[r] \in Nat
  BY DEF TypeOK
<1>2. Balance(r) \in Row
  BY AccountType DEF Balance, TypeOK
<1> QED BY <1>1, <1>2

\* A call that is carried out, or settles nothing, keeps the types of what it writes.
LEMMA CountsType ==
  ASSUME TypeOK, NEW r \in Request, Counts(r) \/ SettlesNothing(r)
  PROVE  /\ rows' \in [Account -> Row]
         /\ granted' \in [Request -> BOOLEAN]
         /\ settled' \in [Request -> {"none", "committed", "returned", "kept"}]
<1> USE DEF TypeOK
<1>0. /\ limit[r] \in Int /\ est[r] \in Int /\ cost[r] \in Int /\ cost[r] >= 0
      /\ Balance(r) \in Row
  BY AmountsType
<1>1. CASE SetCounts(r)
  <2>1. Budgeted(Balance(r), limit[r]) \in Row
    BY <1>0, RowType
  <2> QED BY <1>1, <2>1, WriteType DEF SetCounts, ghosts
<1>2. CASE ReserveCounts(r)
  <2>1. Held(Balance(r), est[r]) \in Row
    BY <1>0, RowType
  <2> QED BY <1>2, <2>1, WriteType DEF ReserveCounts
<1>3. CASE CommitCounts(r)
  <2>1. Committed(Balance(r), cost[r]) \in Row
    BY <1>0, RowType
  <2> QED BY <1>3, <2>1, WriteType DEF CommitCounts
<1>4. CASE RollbackCounts(r)
  <2>1. RolledBack(Balance(r), est[r]) \in Row
    BY <1>0, RowType
  <2> QED BY <1>4, <2>1, WriteType DEF RollbackCounts
<1>5. CASE SettlesNothing(r)
  BY <1>5 DEF SettlesNothing
<1> QED BY <1>1, <1>2, <1>3, <1>4, <1>5 DEF Counts

-----------------------------------------------------------------------------
\* Every step keeps the types.
LEMMA TypeStep ==
  TypeOK /\ [Next]_vars => TypeOK'
<1> SUFFICES ASSUME TypeOK, [Next]_vars PROVE TypeOK'
  OBVIOUS
<1> USE MoneyAssumption DEF TypeOK, request, ghosts
<1>1. ASSUME NEW r \in Request, Arrive(r) PROVE TypeOK'
  <2>1. PICK l \in Limits, e \in Estimates :
          /\ limit' = [limit EXCEPT ![r] = l]
          /\ est' = [est EXCEPT ![r] = e]
          /\ Goto(r, IF l > 0 THEN "set" ELSE "chat")
    BY <1>1 DEF Arrive
  <2>2. (IF l > 0 THEN "set" ELSE "chat") \in {"idle"} \union Live \union Final
    BY DEF Live
  <2>3. /\ pc' \in [Request -> {"idle"} \union Live \union Final]
        /\ sent' \in [Request -> 0 .. MaxRetries]
    BY <2>1, <2>2, GotoType
  <2>4. limit' \in [Request -> Nat] /\ est' \in [Request -> Nat]
    BY <2>1
  <2> QED BY <1>1, <2>3, <2>4 DEF Arrive
<1>2. ASSUME NEW r \in Request, UNCHANGED <<rows, ghosts>> \/ Counts(r) \/ SettlesNothing(r)
      PROVE  /\ rows' \in [Account -> Row]
             /\ granted' \in [Request -> BOOLEAN]
             /\ settled' \in [Request -> {"none", "committed", "returned", "kept"}]
  BY <1>2, CountsType
<1>3. ASSUME NEW r \in Request, SetBudget(r) PROVE TypeOK'
  <2>1. Goto(r, "reserve") /\ (UNCHANGED <<rows, ghosts>> \/ Counts(r))
    BY <1>3 DEF SetBudget, Counts
  <2> QED BY <1>2, <1>3, <2>1, GotoType DEF SetBudget, Live
<1>4. ASSUME NEW r \in Request, ReserveGranted(r) PROVE TypeOK'
  <2>1. Goto(r, "chat") /\ Counts(r)
    BY <1>4 DEF ReserveGranted, Counts
  <2> QED BY <1>2, <1>4, <2>1, GotoType DEF ReserveGranted, Live
<1>5. ASSUME NEW r \in Request, ReserveRefused(r) PROVE TypeOK'
  BY <1>5, GotoType DEF ReserveRefused, Final
<1>6. ASSUME NEW r \in Request, ReserveErrored(r) PROVE TypeOK'
  <2>1. Goto(r, "chat") /\ (UNCHANGED <<rows, ghosts>> \/ Counts(r))
    BY <1>6 DEF ReserveErrored, Counts
  <2> QED BY <1>2, <1>6, <2>1, GotoType DEF ReserveErrored, Live
<1>7. ASSUME NEW r \in Request, UpstreamReplies(r) PROVE TypeOK'
  BY <1>7, GotoType DEF UpstreamReplies, Live, Final
<1>8. ASSUME NEW r \in Request, UpstreamFails(r) PROVE TypeOK'
  BY <1>8, GotoType DEF UpstreamFails, Live, Final
<1>9. ASSUME NEW r \in Request, CommitBudget(r) PROVE TypeOK'
  <2>1. Goto(r, "tell") /\ (Counts(r) \/ SettlesNothing(r))
    BY <1>9 DEF CommitBudget, Counts
  <2> QED BY <1>2, <1>9, <2>1, GotoType DEF CommitBudget, Live
<1>10. ASSUME NEW r \in Request, RollbackBudget(r) PROVE TypeOK'
  <2>1. Goto(r, "failed") /\ (Counts(r) \/ SettlesNothing(r))
    BY <1>10 DEF RollbackBudget, Counts
  <2> QED BY <1>2, <1>10, <2>1, GotoType DEF RollbackBudget, Final
<1>11. ASSUME NEW r \in Request, TellRemaining(r) PROVE TypeOK'
  <2>1. Remaining(Balance(r)) \in Int
    BY AmountsType, RowType
  <2>2. limit[r] - cost[r] \in Int
    BY AmountsType
  <2>3. quoted' \in [Request -> Int \union {NoQuote}]
    BY <1>11, <2>1, <2>2 DEF TellRemaining
  <2> QED BY <1>11, <2>3, GotoType DEF TellRemaining, Final
<1>12. ASSUME AdminSet PROVE TypeOK'
  <2>1. PICK total \in AdminTotals :
          rows' = [rows EXCEPT ![Global] = AdminBudgeted(@, total)]
    BY <1>12 DEF AdminSet
  <2>2. AdminBudgeted(rows[Global], total) \in Row
    BY RowType DEF Account
  <2> QED BY <1>12, <2>1, <2>2 DEF AdminSet
<1>13. ASSUME NEW r \in Request, Disconnect(r) PROVE TypeOK'
  BY <1>13 DEF Disconnect
<1>14. ASSUME Crash PROVE TypeOK'
  <2>1. rows' \in [Account -> Row] /\ granted' \in [Request -> BOOLEAN]
    BY <1>14, FreshRowsType DEF Crash
  <2>2. pc' \in [Request -> {"idle"} \union Live \union Final]
    BY <1>14 DEF Crash, Final
  <2>3. crashes' \in 0 .. MaxCrashes
    BY <1>14, FaultAssumption DEF Crash
  <2> QED BY <1>14, <2>1, <2>2, <2>3 DEF Crash
<1>15. ASSUME UNCHANGED vars PROVE TypeOK'
  BY <1>15 DEF vars
<1>16. ASSUME NEW r \in Request, SentAgain(r) PROVE TypeOK'
  <2>1. sent[r] \in 0 .. MaxRetries /\ sent[r] < MaxRetries /\ MaxRetries \in Nat
    BY <1>16, FaultAssumption DEF SentAgain
  <2>2. sent[r] + 1 \in 0 .. MaxRetries
    BY <2>1
  <2>3. sent' \in [Request -> 0 .. MaxRetries]
    BY <1>16, <2>2 DEF SentAgain
  <2> QED BY <1>2, <1>16, <2>3 DEF SentAgain
<1> QED
  BY <1>1, <1>3, <1>4, <1>5, <1>6, <1>7, <1>8, <1>9, <1>10, <1>11, <1>12,
     <1>13, <1>14, <1>15, <1>16 DEF Next, Handle, Interfere

\* Every variable keeps its type in every behaviour, on each of the backends.
THEOREM TypeCorrect == Spec => []TypeOK
<1>1. Init => TypeOK
  BY FreshRowsType, FaultAssumption DEF Init, TypeOK
<1>2. TypeOK /\ [Next]_vars => TypeOK'
  BY TypeStep
<1> QED BY <1>1, <1>2, PTL DEF Spec

-----------------------------------------------------------------------------
\* Where sessions have rows of their own, a request works on the row it names.
LEMMA OwnRow ==
  ASSUME Backend # "memory", NEW r \in Request
  PROVE  AccountOf(r) = r /\ Balance(r) = rows[r] /\ Balance(r)' = rows'[r]
BY DEF AccountOf, Balance

\* What a request does changes nothing of another request.
LEMMA OthersApart ==
  ASSUME TypeOK, NEW r \in Request, Arrive(r) \/ Handle(r) \/ Interfere(r),
         NEW q \in Request, q # r
  PROVE  /\ pc'[q] = pc[q] /\ granted'[q] = granted[q] /\ settled'[q] = settled[q]
         /\ didReserve'[q] = didReserve[q] /\ quoted'[q] = quoted[q]
         /\ limit'[q] = limit[q] /\ est'[q] = est[q] /\ cost'[q] = cost[q]
<1> USE DEF TypeOK
<1>1. granted'[q] = granted[q] /\ settled'[q] = settled[q]
  <2>1. CASE Counts(r) \/ SettlesNothing(r)
    BY <2>1 DEF Counts, SetCounts, ReserveCounts, CommitCounts, RollbackCounts,
       SettlesNothing, ghosts
  <2>2. CASE ~(Counts(r) \/ SettlesNothing(r))
    <3>1. UNCHANGED ghosts
      BY <2>2 DEF Arrive, Handle, Interfere, SetBudget, ReserveGranted, ReserveRefused,
         ReserveErrored, UpstreamReplies, UpstreamFails, CommitBudget,
         RollbackBudget, TellRemaining, SentAgain, Disconnect, Counts, ghosts
    <3> QED BY <3>1 DEF ghosts
  <2> QED BY <2>1, <2>2
<1>2. pc'[q] = pc[q]
  <2>1. CASE Arrive(r)
    <3>1. PICK l \in Limits : Goto(r, IF l > 0 THEN "set" ELSE "chat")
      BY <2>1 DEF Arrive
    <3> QED BY <3>1 DEF Goto
  <2>2. CASE Handle(r)
    BY <2>2 DEF Handle, SetBudget, ReserveGranted, ReserveRefused,
       ReserveErrored, UpstreamReplies, UpstreamFails, CommitBudget,
       RollbackBudget, TellRemaining, SentAgain, Goto
  <2>3. CASE Interfere(r)
    BY <2>3 DEF Interfere, Disconnect, SentAgain
  <2> QED BY <2>1, <2>2, <2>3
<1>3. quoted'[q] = quoted[q] /\ didReserve'[q] = didReserve[q] /\ cost'[q] = cost[q]
  BY DEF Arrive, Handle, Interfere, SetBudget, ReserveGranted, ReserveRefused,
     ReserveErrored, UpstreamReplies, UpstreamFails, CommitBudget,
     RollbackBudget, TellRemaining, SentAgain, Disconnect
<1>4. limit'[q] = limit[q] /\ est'[q] = est[q]
  BY DEF Arrive, Handle, Interfere, SetBudget, ReserveGranted, ReserveRefused,
     ReserveErrored, UpstreamReplies, UpstreamFails, CommitBudget,
     RollbackBudget, TellRemaining, SentAgain, Disconnect, request
<1> QED BY <1>1, <1>2, <1>3, <1>4

\* What a request does to the store is one of the calls, or nothing.
LEMMA WritesAre ==
  ASSUME NEW r \in Request, Arrive(r) \/ Handle(r) \/ Interfere(r)
  PROVE  Counts(r) \/ UNCHANGED rows
BY DEF Arrive, Handle, Interfere, SetBudget, ReserveGranted, ReserveRefused, ReserveErrored,
   UpstreamReplies, UpstreamFails, CommitBudget, RollbackBudget, SettlesNothing,
   TellRemaining, SentAgain, Disconnect, Counts

\* Nor does it touch the books of another.
LEMMA OthersUntouched ==
  ASSUME Backend # "memory", TypeOK, NEW r \in Request,
         Arrive(r) \/ Handle(r) \/ Interfere(r),
         NEW q \in Request, q # r, BooksOf(q)
  PROVE  BooksOf(q)'
<1>1. ASSUME NEW row, Write(r, row) PROVE rows'[q] = rows[q]
  BY <1>1, OwnRow DEF Write, Account, TypeOK
<1>2. rows'[q] = rows[q]
  BY <1>1, WritesAre DEF Counts, SetCounts, ReserveCounts, CommitCounts, RollbackCounts
<1> QED BY <1>2, OthersApart DEF BooksOf, Outstanding

\* A budget that is set, for the first time or again, leaves the books right.
LEMMA SetBooks ==
  ASSUME Backend # "memory", TypeOK, NEW r \in Request, BooksOf(r), SetCounts(r),
         pc'[r] \in {"set", "reserve"}, limit' = limit, est' = est, quoted' = quoted
  PROVE  BooksOf(r)'
<1>1. rows'[r] = Budgeted(rows[r], limit[r])
  BY OwnRow DEF SetCounts, Write, Account, TypeOK
<1>2. rows'[r].total = limit[r] /\ rows'[r].used = 0 /\ rows'[r].reserved = 0
  BY <1>1 DEF Budgeted
<1>3. granted' = granted /\ settled' = settled /\ pc[r] = "set"
  BY DEF SetCounts, ghosts
<1>4. /\ est[r] > 0 /\ ~granted[r] /\ settled[r] = "none" /\ quoted[r] = NoQuote
      /\ limit[r] > 0 /\ limit[r] \in Nat
  BY <1>3 DEF BooksOf, Live, TypeOK
<1> QED BY <1>2, <1>3, <1>4 DEF BooksOf, Outstanding

\* A reservation that the store admits, for the first time or, in Redis, again,
\* leaves the books of the request right.
LEMMA HeldBooks ==
  ASSUME Backend # "memory", TypeOK, NEW r \in Request, BooksOf(r), ReserveCounts(r),
         pc'[r] = "chat" \/ (Backend = "redis" /\ pc'[r] = "reserve"),
         limit' = limit, est' = est, quoted' = quoted
  PROVE  BooksOf(r)'
<1>1. /\ rows[r] \in Row /\ limit[r] \in Nat /\ est[r] \in Nat
      /\ pc[r] = "reserve" /\ granted'[r] /\ settled' = settled
      /\ rows'[r] = Held(rows[r], est[r]) /\ Admits(rows[r], est[r])
  BY OwnRow DEF ReserveCounts, Write, TypeOK, Account
<1>2. /\ rows'[r].total = rows[r].total
      /\ rows'[r].used = rows[r].used
      /\ rows'[r].reserved = rows[r].reserved + est[r]
      /\ rows[r].total \in Int /\ rows[r].reserved \in Int
  BY <1>1 DEF Held, Row
<1>3. /\ rows[r].used = 0 /\ rows[r].reserved >= 0 /\ rows[r].total \in {0, limit[r]}
      /\ est[r] > 0 /\ limit[r] > 0 /\ quoted[r] = NoQuote /\ settled[r] = "none"
      /\ Backend = "sqlite" => rows[r].reserved = 0
  BY <1>1, BackendAssumption DEF BooksOf, Live
<1>4. rows[r].reserved + est[r] <= rows[r].total /\ rows[r].total = limit[r]
  <2>1. rows[r].total - rows[r].reserved >= est[r]
    BY <1>1, <1>2, <1>3 DEF Admits
  <2> QED BY <1>1, <1>2, <1>3, <2>1
<1>5. est[r] <= limit[r] /\ rows'[r].reserved >= est[r] /\ rows'[r].reserved <= rows'[r].total
  BY <1>1, <1>2, <1>3, <1>4
<1>6. Backend = "sqlite" => rows'[r].reserved = est[r] /\ rows'[r].used + rows'[r].reserved <= rows'[r].total
  BY <1>1, <1>2, <1>3, <1>5
<1> QED BY <1>1, <1>2, <1>3, <1>4, <1>5, <1>6, BackendAssumption DEF BooksOf, Outstanding, Live

\* A commit that is counted, once or, in Redis, again.
LEMMA CommittedBooks ==
  ASSUME Backend # "memory", TypeOK, NEW r \in Request, BooksOf(r), CommitCounts(r),
         pc'[r] = "tell" \/ (Backend = "redis" /\ pc'[r] = "commit"),
         limit' = limit, est' = est, quoted' = quoted
  PROVE  BooksOf(r)'
<1>1. /\ rows[r] \in Row /\ limit[r] \in Nat /\ est[r] \in Nat /\ cost[r] \in Nat
      /\ pc[r] = "commit" /\ granted' = granted /\ settled'[r] = "committed"
      /\ rows'[r] = Committed(rows[r], cost[r]) /\ ~CommitFails(rows[r], cost[r])
  BY OwnRow DEF CommitCounts, Write, TypeOK, Account
<1>2. /\ rows'[r].total = rows[r].total
      /\ rows'[r].used = rows[r].used + cost[r]
      /\ Backend = "redis" => rows'[r].reserved = rows[r].reserved
      /\ Backend = "sqlite" => /\ rows'[r].reserved = rows[r].reserved - cost[r]
                               /\ cost[r] <= rows[r].reserved
      /\ rows[r].total \in Int /\ rows[r].reserved \in Int /\ rows[r].used \in Int
  BY <1>1, BackendAssumption DEF Committed, CommitFails, Row
<1>3. /\ ~granted[r] => rows[r].reserved = 0
      /\ granted[r] => rows[r].total = limit[r] /\ est[r] <= limit[r]
      /\ rows[r].total >= 0 /\ rows[r].used >= 0 /\ rows[r].reserved >= 0
      /\ rows[r].reserved <= rows[r].total /\ est[r] > 0 /\ quoted[r] = NoQuote
  BY <1>1 DEF BooksOf, Live
<1>4. CASE Backend = "redis"
  BY <1>1, <1>2, <1>3, <1>4 DEF BooksOf, Outstanding, Live
<1>5. CASE Backend = "sqlite"
  <2>1. /\ rows[r].used + rows[r].reserved <= rows[r].total
        /\ granted[r] => rows[r].reserved = est[r] /\ rows[r].used = 0
    BY <1>1, <1>5 DEF BooksOf, Outstanding
  <2>2. /\ rows'[r].used + rows'[r].reserved = rows[r].used + rows[r].reserved
        /\ rows'[r].used >= 0 /\ rows'[r].reserved >= 0
        /\ rows'[r].reserved <= rows[r].reserved
        /\ ~granted[r] => rows'[r].reserved = 0
    BY <1>1, <1>2, <1>3, <1>5
  <2>3. granted[r] => rows'[r].used + rows'[r].reserved = est[r]
    BY <1>1, <2>1, <2>2
  <2>4. rows'[r].reserved <= rows'[r].total
        /\ rows'[r].used + rows'[r].reserved <= rows'[r].total
    BY <1>1, <1>2, <1>3, <1>5, <2>1, <2>2
  <2>5. pc'[r] = "tell"
    BY <1>5
  <2> QED BY <1>1, <1>2, <1>3, <1>5, <2>2, <2>3, <2>4, <2>5 DEF BooksOf, Outstanding, Live
<1> QED BY <1>4, <1>5, BackendAssumption

\* A rollback that is counted, once or, in Redis, again.
LEMMA ReturnedBooks ==
  ASSUME Backend # "memory", TypeOK, NEW r \in Request, BooksOf(r), RollbackCounts(r),
         pc'[r] = "failed" \/ (Backend = "redis" /\ pc'[r] = "rollback"),
         limit' = limit, est' = est, quoted' = quoted
  PROVE  BooksOf(r)'
<1>1. /\ rows[r] \in Row /\ limit[r] \in Nat /\ est[r] \in Nat
      /\ pc[r] = "rollback" /\ granted' = granted /\ settled'[r] = "returned"
      /\ rows'[r] = RolledBack(rows[r], est[r]) /\ ~RollbackFails(rows[r], est[r])
  BY OwnRow DEF RollbackCounts, Write, TypeOK, Account
<1>2. /\ ~granted[r] => rows[r].reserved = 0
      /\ granted[r] => rows[r].total = limit[r] /\ est[r] <= limit[r]
      /\ rows[r].total >= 0 /\ rows[r].used >= 0 /\ rows[r].reserved >= 0
      /\ rows[r].reserved <= rows[r].total /\ est[r] > 0 /\ quoted[r] = NoQuote
      /\ Backend = "sqlite" => rows[r].used + rows[r].reserved <= rows[r].total
  BY <1>1 DEF BooksOf, Live
<1>3. /\ rows'[r].total = rows[r].total
      /\ rows'[r].used = rows[r].used
      /\ rows'[r].reserved \in 0 .. rows[r].reserved
      /\ rows[r].total \in Int /\ rows[r].reserved \in Int /\ rows[r].used \in Int
  BY <1>1, <1>2, BackendAssumption DEF RolledBack, RollbackFails, Row
<1>4. rows'[r].reserved <= rows'[r].total /\ (~granted[r] => rows'[r].reserved = 0)
  BY <1>2, <1>3
<1>5. Backend = "sqlite" => rows'[r].used + rows'[r].reserved <= rows'[r].total
  BY <1>2, <1>3
<1> QED BY <1>1, <1>2, <1>3, <1>4, <1>5, BackendAssumption DEF BooksOf, Outstanding, Live

\* One step of a request keeps its own books.
LEMMA OwnBooks ==
  ASSUME Backend # "memory", TypeOK, NEW r \in Request, BooksOf(r),
         Arrive(r) \/ Handle(r) \/ Interfere(r)
  PROVE  BooksOf(r)'
<1> USE DEF TypeOK
<1>0. rows[r] \in Row
  BY DEF Account
<1>1. CASE Arrive(r)
  <2>1. PICK l \in Limits, e \in Estimates :
          /\ limit' = [limit EXCEPT ![r] = l]
          /\ est' = [est EXCEPT ![r] = e]
          /\ Goto(r, IF l > 0 THEN "set" ELSE "chat")
    BY <1>1 DEF Arrive
  <2>2. limit'[r] = l /\ est'[r] = e /\ l \in Nat /\ e \in Nat /\ e > 0
    BY <2>1, MoneyAssumption
  <2>3. pc[r] = "idle" /\ pc'[r] = IF l > 0 THEN "set" ELSE "chat"
    BY <1>1, <2>1 DEF Goto, Arrive
  <2>4. rows' = rows /\ granted' = granted /\ settled' = settled /\ quoted' = quoted
    BY <1>1 DEF Arrive, ghosts
  <2>5. /\ ~granted[r] /\ rows[r].used = 0 /\ rows[r].total = 0 /\ rows[r].reserved = 0
        /\ settled[r] = "none"
    BY <1>0, <2>3 DEF BooksOf, Row
  <2>6. quoted[r] = NoQuote
    BY <2>3 DEF BooksOf
  <2>7. CASE l > 0
    BY <2>2, <2>3, <2>4, <2>5, <2>6, <2>7 DEF BooksOf, Outstanding
  <2>8. CASE ~(l > 0)
    BY <2>2, <2>3, <2>4, <2>5, <2>6, <2>8 DEF BooksOf, Outstanding
  <2> QED BY <2>7, <2>8
<1>2. CASE SetBudget(r)
  <2>1. /\ pc[r] = "set" /\ pc'[r] = "reserve"
        /\ limit' = limit /\ est' = est /\ quoted' = quoted
    BY <1>2 DEF SetBudget, Goto, request
  <2>2. CASE SetCounts(r)
    BY <2>1, <2>2, SetBooks
  <2>3. CASE UNCHANGED <<rows, ghosts>>
    BY <1>0, <2>1, <2>3 DEF ghosts, BooksOf, Outstanding, Live, Row
  <2> QED BY <1>2, <2>2, <2>3 DEF SetBudget
<1>3. CASE ReserveGranted(r)
  <2>1. pc'[r] = "chat" /\ limit' = limit /\ est' = est /\ quoted' = quoted
    BY <1>3 DEF ReserveGranted, Goto, request
  <2> QED BY <1>3, <2>1, HeldBooks DEF ReserveGranted
<1>4. CASE ReserveRefused(r)
  BY <1>0, <1>4
     DEF ReserveRefused, Goto, BooksOf, Outstanding, ghosts, Live, Row, request
<1>5. CASE ReserveErrored(r)
  <2>1. /\ pc[r] = "reserve" /\ pc'[r] = "chat"
        /\ limit' = limit /\ est' = est /\ quoted' = quoted
    BY <1>5 DEF ReserveErrored, Goto, request
  <2>2. CASE UNCHANGED <<rows, ghosts>>
    BY <1>0, <2>1, <2>2, BackendAssumption DEF BooksOf, Outstanding, Live, Row, ghosts
  <2>3. CASE ReserveCounts(r)
    BY <2>1, <2>3, HeldBooks
  <2> QED BY <1>5, <2>2, <2>3 DEF ReserveErrored
<1>6. CASE UpstreamReplies(r)
  BY <1>0, <1>6
     DEF UpstreamReplies, Goto, BooksOf, Outstanding, ghosts, Live, Row, request
<1>7. CASE UpstreamFails(r)
  BY <1>0, <1>7
     DEF UpstreamFails, Goto, BooksOf, Outstanding, ghosts, Live, Row, request
<1>8. CASE CommitBudget(r)
  <2>1. /\ pc[r] = "commit" /\ pc'[r] = "tell"
        /\ limit' = limit /\ est' = est /\ quoted' = quoted
    BY <1>8 DEF CommitBudget, Goto, request
  <2>2. CASE SettlesNothing(r)
    <3>1. rows' = rows /\ granted' = granted
      BY <2>2 DEF SettlesNothing
    <3> QED BY <1>0, <2>1, <3>1 DEF BooksOf, Outstanding, Live, Row
  <2>3. CASE CommitCounts(r)
    BY <2>1, <2>3, CommittedBooks
  <2> QED BY <1>8, <2>2, <2>3 DEF CommitBudget
<1>9. CASE RollbackBudget(r)
  <2>1. /\ pc[r] = "rollback" /\ pc'[r] = "failed"
        /\ limit' = limit /\ est' = est /\ quoted' = quoted
    BY <1>9 DEF RollbackBudget, Goto, request
  <2>2. CASE SettlesNothing(r)
    <3>1. rows' = rows /\ granted' = granted
      BY <2>2 DEF SettlesNothing
    <3> QED BY <1>0, <2>1, <3>1 DEF BooksOf, Outstanding, Live, Row
  <2>3. CASE RollbackCounts(r)
    BY <2>1, <2>3, ReturnedBooks
  <2> QED BY <1>9, <2>2, <2>3 DEF RollbackBudget
<1>10. CASE TellRemaining(r)
  BY <1>0, <1>10
     DEF TellRemaining, Goto, BooksOf, Outstanding, ghosts, Live, Row, request
<1>11. CASE Disconnect(r)
  BY <1>0, <1>11
     DEF Disconnect, BooksOf, Outstanding, ghosts, Live, Row, request
<1>12. CASE SentAgain(r)
  <2>1. /\ Backend = "redis" /\ pc' = pc /\ Counts(r)
        /\ limit' = limit /\ est' = est /\ quoted' = quoted
    BY <1>12 DEF SentAgain, request
  <2>2. CASE SetCounts(r)
    BY <2>1, <2>2, SetBooks DEF SetCounts
  <2>3. CASE ReserveCounts(r)
    BY <2>1, <2>3, HeldBooks DEF ReserveCounts
  <2>4. CASE CommitCounts(r)
    BY <2>1, <2>4, CommittedBooks DEF CommitCounts
  <2>5. CASE RollbackCounts(r)
    BY <2>1, <2>5, ReturnedBooks DEF RollbackCounts
  <2> QED BY <2>1, <2>2, <2>3, <2>4, <2>5 DEF Counts
<1> QED BY <1>1, <1>2, <1>3, <1>4, <1>5, <1>6, <1>7, <1>8, <1>9, <1>10, <1>11, <1>12 DEF Handle, Interfere

\* Every step keeps the books of every request.
LEMMA BooksStep ==
  ASSUME Backend # "memory"
  PROVE  TypeOK /\ AccountBooks /\ [Next]_vars => AccountBooks'
<1> SUFFICES ASSUME TypeOK, AccountBooks, [Next]_vars, NEW q \in Request
             PROVE  BooksOf(q)'
  BY DEF AccountBooks
<1>0. BooksOf(q)
  BY DEF AccountBooks
<1>1. ASSUME NEW r \in Request, Arrive(r) \/ Handle(r) \/ Interfere(r)
      PROVE  BooksOf(q)'
  <2>1. CASE q = r
    BY <1>0, <1>1, <2>1, OwnBooks
  <2>2. CASE q # r
    BY <1>0, <1>1, <2>2, OthersUntouched
  <2> QED BY <2>1, <2>2
<1>2. CASE AdminSet
  <2>1. rows'[q] = rows[q]
    BY <1>2, RequestAssumption DEF AdminSet, TypeOK, Account
  <2> QED BY <1>0, <1>2, <2>1
          DEF AdminSet, BooksOf, Outstanding, request, ghosts
<1>3. CASE Crash
  <2>1. /\ rows' = rows /\ granted' = granted /\ settled' = settled
        /\ limit' = limit /\ est' = est /\ quoted' = quoted
    BY <1>3 DEF Crash, request
  <2>2. pc'[q] = IF pc[q] \in Live THEN "lost" ELSE pc[q]
    BY <1>3 DEF Crash, TypeOK
  <2> QED BY <1>0, <2>1, <2>2 DEF BooksOf, Outstanding, Live
<1>4. CASE UNCHANGED vars
  BY <1>0, <1>4 DEF vars, BooksOf, Outstanding
<1> QED BY <1>1, <1>2, <1>3, <1>4 DEF Next

\* The books of every request stay right, so the promises to it hold: a call that
\* the store let through fits its own limit, its reservation stays until it is
\* settled, and the quoted remainder is not too large.
THEOREM BooksKept ==
  ASSUME Backend # "memory"
  PROVE  Spec => []AccountBooks
<1>1. Init => AccountBooks
  BY DEF Init, AccountBooks, BooksOf, FreshRows, NoRow, Account, Outstanding
<1>2. TypeOK /\ AccountBooks /\ [Next]_vars => AccountBooks'
  BY BooksStep
<1> QED BY <1>1, <1>2, TypeCorrect, PTL DEF Spec

\* Where sessions have rows of their own, a request over its own budget is never
\* let through by the store, whatever else runs or fails.
THEOREM HardStopHolds ==
  ASSUME Backend # "memory"
  PROVE  Spec => []HardStop
<1>1. AccountBooks => HardStop
  BY DEF AccountBooks, BooksOf, HardStop
<1> QED BY <1>1, BooksKept, PTL

\* A reservation is held until its request settles it.
THEOREM HeldUntilSettledHolds ==
  ASSUME Backend # "memory"
  PROVE  Spec => []HeldUntilSettled
<1>1. TypeOK /\ AccountBooks => HeldUntilSettled
  BY OwnRow DEF AccountBooks, BooksOf, HeldUntilSettled, TypeOK, Outstanding
<1> QED BY <1>1, BooksKept, TypeCorrect, PTL

\* In SQLite no session owes more than its budget.
THEOREM NoOverdraftHolds ==
  ASSUME Backend = "sqlite"
  PROVE  Spec => []NoOverdraft
<1>1. AccountBooks => NoOverdraft
  BY OwnRow DEF AccountBooks, BooksOf, NoOverdraft
<1>2. Spec => []AccountBooks
  BY BooksKept
<1> QED BY <1>1, <1>2, PTL

\* The quoted budget is right at the only step that quotes it, and nothing the
\* quote depends on changes afterwards.
THEOREM QuoteHolds ==
  ASSUME Backend # "memory"
  PROVE  Spec => []QuoteNeverOverstates
<1>1. Init => QuoteNeverOverstates
  BY DEF Init, QuoteNeverOverstates
<1>2. TypeOK /\ AccountBooks /\ QuoteNeverOverstates /\ [Next]_vars
        => QuoteNeverOverstates'
  <2> SUFFICES ASSUME TypeOK, AccountBooks, QuoteNeverOverstates, [Next]_vars,
                      NEW q \in Request,
                      granted'[q], cost'[q] <= est'[q], quoted'[q] # NoQuote
               PROVE  quoted'[q] <= limit'[q] - cost'[q]
    BY DEF QuoteNeverOverstates
  <2>0. BooksOf(q) /\ rows[q] \in Row
    BY DEF AccountBooks, TypeOK, Account
  <2> USE DEF TypeOK
  <2>1. CASE /\ granted'[q] = granted[q] /\ cost'[q] = cost[q]
             /\ est'[q] = est[q] /\ limit'[q] = limit[q] /\ quoted'[q] = quoted[q]
    BY <2>1 DEF QuoteNeverOverstates
  <2>2. CASE TellRemaining(q)
    <3>1. /\ limit' = limit /\ est' = est /\ cost' = cost /\ granted' = granted
          /\ pc[q] = "tell"
      BY <2>2 DEF TellRemaining, request, ghosts
    <3>2. CASE quoted' = [quoted EXCEPT ![q] = Remaining(Balance(q))]
      <4>1. quoted'[q] = Remaining(rows[q])
        BY <3>2, OwnRow
      <4>2. limit[q] \in Nat /\ est[q] \in Nat /\ cost[q] \in Nat
        OBVIOUS
      <4>3. /\ cost[q] <= est[q] /\ est[q] <= limit[q] /\ rows[q].total = limit[q]
            /\ Backend = "sqlite" => rows[q].used + rows[q].reserved = est[q]
        BY <2>0, <3>1 DEF BooksOf
      <4> QED BY <2>0, <3>1, <4>1, <4>2, <4>3, BackendAssumption DEF Remaining, Row
    <3>3. CASE quoted' = [quoted EXCEPT ![q] = limit[q] - cost[q]]
      BY <3>1, <3>3
    <3> QED BY <2>2, <3>2, <3>3 DEF TellRemaining
  <2>3. CASE pc[q] \in {"idle"} \union Live /\ quoted'[q] = quoted[q]
    BY <2>0, <2>3 DEF BooksOf
  <2>4. ASSUME NEW r \in Request, Arrive(r) \/ Handle(r) \/ Interfere(r)
        PROVE  quoted'[q] <= limit'[q] - cost'[q]
    <3>1. CASE q # r
      BY <2>1, <2>4, <3>1, OthersApart
    <3>2. CASE q = r /\ ~TellRemaining(q)
      <4>1. pc[q] \in {"idle"} \union Live /\ quoted' = quoted
        BY <2>4, <3>2 DEF Arrive, Handle, Interfere, SetBudget, ReserveGranted, ReserveRefused,
           ReserveErrored, UpstreamReplies, UpstreamFails, CommitBudget,
           RollbackBudget, SentAgain, Counts, SetCounts, ReserveCounts, CommitCounts,
           RollbackCounts, Disconnect, Live
      <4> QED BY <2>3, <4>1
    <3> QED BY <2>2, <3>1, <3>2
  <2>5. CASE AdminSet \/ Crash
    BY <2>1, <2>5 DEF AdminSet, Crash, request, ghosts
  <2>6. CASE UNCHANGED vars
    BY <2>1, <2>6 DEF vars
  <2> QED BY <2>4, <2>5, <2>6 DEF Next
<1> QED BY <1>1, <1>2, TypeCorrect, BooksKept, PTL DEF Spec

-----------------------------------------------------------------------------
\* The mapped variables change only in the account of the request that steps.
LEMMA MappedStep ==
  ASSUME TypeOK, NEW r \in Request, NEW row \in Row,
         rows' = [rows EXCEPT ![r] = row]
  PROVE  /\ Caps' = [Caps EXCEPT ![r] = row.total]
         /\ Takens' = [Takens EXCEPT ![r] = TakenOf(row)]
<1>1. rows'[r] = row /\ \A q \in Request : q # r => rows'[q] = rows[q]
  BY DEF TypeOK, Account
<1>2. Caps' = [q \in Request |-> rows'[q].total]
  BY DEF Caps
<1>3. Takens' = [q \in Request |-> TakenOf(rows'[q])]
  BY DEF Takens, TakenOf
<1>4. Caps' = [Caps EXCEPT ![r] = row.total]
  <2>1. [Caps EXCEPT ![r] = row.total]
          = [q \in Request |-> IF q = r THEN row.total ELSE rows[q].total]
    BY DEF Caps
  <2>2. \A q \in Request :
          rows'[q].total = IF q = r THEN row.total ELSE rows[q].total
    BY <1>1
  <2> QED BY <1>2, <2>1, <2>2
<1>5. Takens' = [Takens EXCEPT ![r] = TakenOf(row)]
  <2>1. [Takens EXCEPT ![r] = TakenOf(row)]
          = [q \in Request |-> IF q = r THEN TakenOf(row) ELSE TakenOf(rows[q])]
    BY DEF Takens
  <2>2. \A q \in Request :
          TakenOf(rows'[q]) = IF q = r THEN TakenOf(row) ELSE TakenOf(rows[q])
    BY <1>1
  <2> QED BY <1>3, <2>1, <2>2
<1> QED BY <1>4, <1>5

\* A write to a request's row is a step of SpendCap when it starts the account
\* again, takes no more than is left, or gives back no more than was taken.
LEMMA RowStep ==
  ASSUME TypeOK, NEW r \in Request, NEW row \in Row,
         rows' = [rows EXCEPT ![r] = row],
         \/ TakenOf(row) = 0
         \/ /\ row.total = rows[r].total
            /\ TakenOf(row) >= 0
            /\ TakenOf(row) > TakenOf(rows[r]) => TakenOf(row) <= row.total
  PROVE  [Promise!CapStep]_<<Caps, Takens>>
<1>1. /\ Caps' = [Caps EXCEPT ![r] = row.total]
      /\ Takens' = [Takens EXCEPT ![r] = TakenOf(row)]
  BY MappedStep
<1>2. Caps[r] = rows[r].total /\ Takens[r] = TakenOf(rows[r])
  BY DEF Caps, Takens
<1>3. r \in DOMAIN Caps /\ r \in DOMAIN Takens
  BY DEF Caps, Takens
<1>4. Caps'[r] = row.total /\ Takens'[r] = TakenOf(row)
  BY <1>1, <1>3
<1>5. TakenOf(row) \in Int /\ TakenOf(rows[r]) \in Int /\ row.total \in Int
  BY DEF TypeOK, TakenOf, Row, Account
<1>6. CASE TakenOf(row) = 0
  <2>1. Promise!Open(r, Caps'[r])
    BY <1>1, <1>4, <1>6 DEF Promise!Open
  <2> QED BY <2>1 DEF Promise!CapStep
<1>7. CASE row.total = rows[r].total /\ TakenOf(row) # 0
  <2>1. Caps' = Caps
    BY <1>1, <1>2, <1>7 DEF Caps
  <2>2. CASE TakenOf(row) > TakenOf(rows[r]) /\ TakenOf(row) <= row.total
    <3>0. /\ Takens[r] + (Takens'[r] - Takens[r]) = TakenOf(row)
          /\ Takens'[r] - Takens[r] > 0
          /\ Caps[r] = row.total
      BY <1>2, <1>4, <1>5, <1>7, <2>2
    <3>1. Promise!Take(r, Takens'[r] - Takens[r])
      BY <1>1, <2>1, <2>2, <3>0 DEF Promise!Take
    <3> QED BY <3>1 DEF Promise!CapStep
  <2>3. CASE TakenOf(row) < TakenOf(rows[r]) /\ TakenOf(row) >= 0
    <3>0. /\ Takens[r] - (Takens[r] - Takens'[r]) = TakenOf(row)
          /\ Takens[r] - Takens'[r] \in 1 .. Takens[r]
      BY <1>2, <1>4, <1>5, <2>3
    <3>1. Promise!GiveBack(r, Takens[r] - Takens'[r])
      BY <1>1, <2>1, <3>0 DEF Promise!GiveBack
    <3> QED BY <3>1 DEF Promise!CapStep
  <2>4. CASE TakenOf(row) = TakenOf(rows[r])
    <3>1. Takens' = Takens
      BY <1>1, <1>2, <2>4 DEF Takens
    <3> QED BY <2>1, <3>1
  <2> QED BY <1>5, <1>7, <2>2, <2>3, <2>4
<1> QED BY <1>6, <1>7

\* Every step of the requests is one of SpendCap, or none.
LEMMA PromiseStep ==
  ASSUME Backend # "memory"
  PROVE  TypeOK /\ AccountBooks /\ [Next]_vars => [Promise!CapStep]_<<Caps, Takens>>
<1> SUFFICES ASSUME TypeOK, AccountBooks, [Next]_vars
             PROVE  [Promise!CapStep]_<<Caps, Takens>>
  OBVIOUS
<1>0. ASSUME NEW r \in Request
      PROVE  /\ rows[r] \in Row /\ BooksOf(r)
             /\ limit[r] \in Nat /\ est[r] \in Nat /\ cost[r] \in Nat
  BY DEF AccountBooks, TypeOK, Account
<1>1. ASSUME \A q \in Request : rows'[q] = rows[q]
      PROVE  UNCHANGED <<Caps, Takens>>
  BY <1>1 DEF Caps, Takens, TakenOf
<1>2. ASSUME NEW r \in Request, ReserveCounts(r)
      PROVE  [Promise!CapStep]_<<Caps, Takens>>
  <2>1. rows' = [rows EXCEPT ![r] = Held(rows[r], est[r])]
    BY <1>2, OwnRow DEF ReserveCounts, Write
  <2>2. Held(rows[r], est[r]) \in Row
    BY <1>0, RowType
  <2>3. /\ Held(rows[r], est[r]).total = rows[r].total
        /\ Held(rows[r], est[r]).reserved = rows[r].reserved + est[r]
        /\ Held(rows[r], est[r]).used = rows[r].used
    BY <1>0 DEF Held, Row
  <2>4. rows[r].reserved >= 0 /\ rows[r].used >= 0 /\ Admits(rows[r], est[r])
    BY <1>0, <1>2, OwnRow DEF BooksOf, ReserveCounts
  <2>5. /\ TakenOf(Held(rows[r], est[r])) >= 0
        /\ TakenOf(Held(rows[r], est[r])) <= rows[r].total
    BY <1>0, <2>3, <2>4 DEF TakenOf, Admits, Row
  <2> QED BY <2>1, <2>2, <2>3, <2>5, RowStep
<1>3. ASSUME NEW r \in Request, SetCounts(r)
      PROVE  [Promise!CapStep]_<<Caps, Takens>>
  <2>1. rows' = [rows EXCEPT ![r] = Budgeted(rows[r], limit[r])]
    BY <1>3, OwnRow DEF SetCounts, Write
  <2>2. Budgeted(rows[r], limit[r]) \in Row
    BY <1>0, RowType
  <2>3. TakenOf(Budgeted(rows[r], limit[r])) = 0
    BY DEF TakenOf, Budgeted
  <2> QED BY <2>1, <2>2, <2>3, RowStep
<1>4. ASSUME NEW r \in Request, CommitCounts(r)
      PROVE  [Promise!CapStep]_<<Caps, Takens>>
  <2>1. rows' = [rows EXCEPT ![r] = Committed(rows[r], cost[r])]
    BY <1>4, OwnRow DEF CommitCounts, Write
  <2>2. Committed(rows[r], cost[r]) \in Row
    BY <1>0, RowType
  <2>3. /\ Committed(rows[r], cost[r]).total = rows[r].total
        /\ Committed(rows[r], cost[r]).used = rows[r].used + cost[r]
        /\ Backend = "redis" =>
             Committed(rows[r], cost[r]).reserved = rows[r].reserved
        /\ Backend # "redis" =>
             Committed(rows[r], cost[r]).reserved = rows[r].reserved - cost[r]
    BY <1>0 DEF Committed, Row
  <2>4. rows[r].reserved >= 0 /\ rows[r].used >= 0
    BY <1>0 DEF BooksOf
  <2>5. /\ TakenOf(Committed(rows[r], cost[r])) = TakenOf(rows[r])
        /\ TakenOf(rows[r]) >= 0
    BY <1>0, <2>3, <2>4 DEF TakenOf, Row
  <2>6. ~(TakenOf(Committed(rows[r], cost[r])) > TakenOf(rows[r]))
    BY <1>0, <2>5 DEF TakenOf, Row
  <2> QED BY <2>1, <2>2, <2>3, <2>5, <2>6, RowStep
<1>5. ASSUME NEW r \in Request, RollbackCounts(r)
      PROVE  [Promise!CapStep]_<<Caps, Takens>>
  <2>1. /\ rows' = [rows EXCEPT ![r] = RolledBack(rows[r], est[r])]
        /\ ~RollbackFails(rows[r], est[r])
    BY <1>5, OwnRow DEF RollbackCounts, Write
  <2>2. RolledBack(rows[r], est[r]) \in Row
    BY <1>0, RowType
  <2>3. rows[r].reserved >= 0 /\ rows[r].used >= 0
    BY <1>0 DEF BooksOf
  <2>4. /\ RolledBack(rows[r], est[r]).total = rows[r].total
        /\ RolledBack(rows[r], est[r]).used = rows[r].used
        /\ RolledBack(rows[r], est[r]).reserved \in 0 .. rows[r].reserved
    BY <1>0, <2>1, <2>3, BackendAssumption DEF RolledBack, RollbackFails, Row
  <2>5. /\ TakenOf(RolledBack(rows[r], est[r])) >= 0
        /\ TakenOf(RolledBack(rows[r], est[r])) <= TakenOf(rows[r])
    BY <1>0, <2>3, <2>4 DEF TakenOf, Row
  <2>6. ~(TakenOf(RolledBack(rows[r], est[r])) > TakenOf(rows[r]))
    BY <1>0, <2>2, <2>5 DEF TakenOf, Row
  <2> QED BY <2>1, <2>2, <2>4, <2>5, <2>6, RowStep
<1>6. ASSUME NEW r \in Request, Arrive(r) \/ Handle(r) \/ Interfere(r)
      PROVE  [Promise!CapStep]_<<Caps, Takens>>
  <2>1. CASE Counts(r)
    BY <1>2, <1>3, <1>4, <1>5, <2>1 DEF Counts
  <2>2. CASE UNCHANGED rows
    BY <1>1, <2>2
  <2> QED BY <1>6, <2>1, <2>2, WritesAre
<1>7. CASE AdminSet
  <2>1. \A q \in Request : rows'[q] = rows[q]
    BY <1>7, RequestAssumption DEF AdminSet, TypeOK, Account
  <2> QED BY <1>1, <2>1
<1>8. CASE Crash \/ UNCHANGED vars
  BY <1>1, <1>8 DEF Crash, vars
<1> QED BY <1>6, <1>7, <1>8 DEF Next

\* Alone on their rows, the requests drive the store as SpendCap allows: accounts
\* are opened, takings fit what is left, and no more is given back than taken.
THEOREM PromiseKept ==
  ASSUME Backend # "memory"
  PROVE  Spec => KeepsPromise
<1>1. Init => Promise!NothingOpen
  BY DEF Init, FreshRows, NoRow, Account, Promise!NothingOpen, Caps, Takens, TakenOf
<1>2. TypeOK /\ AccountBooks /\ [Next]_vars => [Promise!CapStep]_<<Caps, Takens>>
  BY PromiseStep
<1> QED
  BY <1>1, <1>2, TypeCorrect, BooksKept, PTL DEF Spec, KeepsPromise, Promise!CapSpec

-----------------------------------------------------------------------------
\* The lesser of two numbers.
LEMMA MinOfTwo ==
  ASSUME NEW a \in Nat, NEW b \in Nat
  PROVE  Min({a, b}) = IF a <= b THEN a ELSE b
<1> DEFINE least == IF a <= b THEN a ELSE b
<1>1. least \in {a, b} /\ \A y \in {a, b} : least <= y
  OBVIOUS
<1>2. \A x \in {a, b} : (\A y \in {a, b} : x <= y) => x = least
  OBVIOUS
<1> HIDE DEF least
<1>3. (CHOOSE x \in {a, b} : \A y \in {a, b} : x <= y) = least
  BY <1>1, <1>2
<1> QED BY <1>3 DEF Min, least

\* What a chunk is reserved at is a number.
LEMMA CostType ==
  ASSUME StreamTypeOK, NEW s \in Stream, NEW tokens \in Chunks
  PROVE  EstimateCost(s, tokens) \in Nat
<1>1. model[s] \in DOMAIN PriceOf
  BY DEF StreamTypeOK
<1>2. PriceOf[model[s]] \in Nat /\ DefaultPrice \in Nat /\ tokens \in Nat
  BY <1>1, StreamAssumption
<1>3. \A x, y \in Nat : x * y \in Nat
  OBVIOUS
<1> QED BY <1>2, <1>3 DEF EstimateCost

\* The ledgers after an amount is settled: what the stream held goes first.
LEMMA SettledAmounts ==
  ASSUME StreamTypeOK, NEW s \in Stream, NEW amount \in Nat, Settle(s, amount)
  PROVE  \E own \in Nat :
           /\ own = IF held[s] <= amount THEN held[s] ELSE amount
           /\ held[s] - own \in Nat /\ amount - own \in Nat
           /\ held' = [held EXCEPT ![s] = held[s] - own]
           /\ twice' = [twice EXCEPT ![s] = twice[s] + (amount - own)]
<1> DEFINE own == Min({held[s], amount})
<1>1. held[s] \in Nat /\ twice[s] \in Nat
  BY DEF StreamTypeOK
<1>2. own = IF held[s] <= amount THEN held[s] ELSE amount
  BY <1>1, MinOfTwo
<1>3. /\ held' = [held EXCEPT ![s] = held[s] - own]
      /\ twice' = [twice EXCEPT ![s] = twice[s] + amount - own]
  BY DEF Settle
<1> HIDE DEF own
<1>4. own \in Nat /\ held[s] - own \in Nat /\ amount - own \in Nat
  BY <1>1, <1>2
<1>5. twice[s] + amount - own = twice[s] + (amount - own)
  BY <1>1, <1>4
<1> QED BY <1>2, <1>3, <1>4, <1>5

LEMMA SettleType ==
  ASSUME StreamTypeOK, NEW s \in Stream, NEW amount \in Nat, Settle(s, amount)
  PROVE  held' \in [Stream -> Nat] /\ twice' \in [Stream -> Nat]
<1>1. PICK own \in Nat :
        /\ held[s] - own \in Nat /\ amount - own \in Nat
        /\ held' = [held EXCEPT ![s] = held[s] - own]
        /\ twice' = [twice EXCEPT ![s] = twice[s] + (amount - own)]
  BY SettledAmounts
<1>2. held \in [Stream -> Nat] /\ twice \in [Stream -> Nat]
  BY DEF StreamTypeOK
<1>3. twice[s] + (amount - own) \in Nat
  BY <1>1, <1>2
<1> QED BY <1>1, <1>2, <1>3

\* A stream writes a row of the right type, to the global account.
LEMMA SessionType ==
  ASSUME StreamTypeOK, NEW amount \in Nat
  PROVE  /\ SessionRow \in Row
         /\ Held(SessionRow, amount) \in Row
         /\ Committed(SessionRow, amount) \in Row
         /\ RolledBack(SessionRow, amount) \in Row
         /\ \A row \in Row : WriteSession(row) => rows' \in [Account -> Row]
<1>1. SessionRow \in Row /\ Global \in Account /\ rows \in [Account -> Row]
  BY DEF StreamTypeOK, TypeOK, SessionRow, Account
<1> QED BY <1>1, RowType DEF WriteSession

\* What a call of a stream does to the store keeps the types of all it writes.
LEMMA StoreCallType ==
  ASSUME StreamTypeOK, NEW s \in Stream, NEW amount \in Nat,
         ReserveOf(s, amount) \/ CommitOf(s, amount) \/ RollbackOf(s, amount) \/ StoreUnchanged
  PROVE  /\ rows' \in [Account -> Row]
         /\ held' \in [Stream -> Nat] /\ twice' \in [Stream -> Nat] /\ spent' \in [Stream -> Nat]
<1>1. /\ held \in [Stream -> Nat] /\ twice \in [Stream -> Nat] /\ spent \in [Stream -> Nat]
      /\ rows \in [Account -> Row]
  BY DEF StreamTypeOK, TypeOK
<1>2. held[s] + amount \in Nat /\ spent[s] + amount \in Nat
  <2>1. held[s] \in Nat /\ spent[s] \in Nat
    BY <1>1
  <2> QED BY <2>1
<1>3. CASE ReserveOf(s, amount)
  BY <1>1, <1>2, <1>3, SessionType DEF ReserveOf
<1>4. CASE CommitOf(s, amount)
  <2>1. held' \in [Stream -> Nat] /\ twice' \in [Stream -> Nat]
    BY <1>1, <1>4, SettleType DEF CommitOf
  <2> QED BY <1>1, <1>2, <1>4, <2>1, SessionType DEF CommitOf
<1>5. CASE RollbackOf(s, amount)
  BY <1>1, <1>5, SessionType, SettleType DEF RollbackOf
<1>6. CASE StoreUnchanged
  BY <1>1, <1>6 DEF StoreUnchanged
<1> QED BY <1>3, <1>4, <1>5, <1>6

\* However its reply comes, the pending call and the count of lost replies keep theirs.
LEMMA ReplyType ==
  ASSUME StreamTypeOK, NEW s \in Stream, NEW amount \in Nat,
         NEW op \in {"reserve", "commit", "rollback"},
         Hears(s) \/ GivesUp(s) \/ SentOnceMore(s, op, amount)
  PROVE  call' \in [Stream -> Call] /\ lost' \in [Stream -> 0 .. MaxLost]
<1>1. call \in [Stream -> Call] /\ lost \in [Stream -> 0 .. MaxLost]
  BY DEF StreamTypeOK
<1>2. NoCall \in Call
  BY FaultAssumption DEF NoCall, Call
<1>3. ASSUME ReplyLost(s) PROVE lost' \in [Stream -> 0 .. MaxLost]
  <2>1. lost[s] \in 0 .. MaxLost /\ lost[s] < MaxLost /\ MaxLost \in Nat
    BY <1>1, <1>3, StreamAssumption DEF ReplyLost
  <2>2. lost[s] + 1 \in 0 .. MaxLost
    BY <2>1
  <2> QED BY <1>1, <1>3, <2>2 DEF ReplyLost
<1>4. CASE Hears(s)
  BY <1>1, <1>2, <1>4 DEF Hears
<1>5. CASE GivesUp(s)
  BY <1>1, <1>2, <1>3, <1>5 DEF GivesUp
<1>6. CASE SentOnceMore(s, op, amount)
  <2>1. call[s].again \in 0 .. MaxRetries /\ call[s].again < MaxRetries
    BY <1>1, <1>6 DEF SentOnceMore, Call
  <2>2. call[s].again + 1 \in 0 .. MaxRetries
    BY <2>1, FaultAssumption
  <2>3. [op |-> op, amount |-> amount, again |-> call[s].again + 1] \in Call
    BY <2>2 DEF Call
  <2>4. call' = [call EXCEPT ![s] = [op |-> op, amount |-> amount, again |-> call[s].again + 1]]
    BY <1>1, <1>6 DEF SentOnceMore
  <2> QED BY <1>1, <1>3, <1>6, <2>3, <2>4 DEF SentOnceMore
<1> QED BY <1>4, <1>5, <1>6

\* A step of an interceptor is a call that is carried out, or one that changes
\* nothing in the store, and the reply that comes of it or does not.
LEMMA StreamStepIs ==
  ASSUME StreamTypeOK, NEW s \in Stream, StreamStep(s)
  PROVE  \E amount \in Nat :
           /\ \/ ReserveOf(s, amount) \/ CommitOf(s, amount) \/ RollbackOf(s, amount)
              \/ StoreUnchanged
           /\ \/ Hears(s) \/ GivesUp(s)
              \/ \E op \in {"reserve", "commit", "rollback"} : SentOnceMore(s, op, amount)
           /\ UNCHANGED <<Chats, strategy>>
           /\ \/ UNCHANGED reservedAmount
              \/ reservedAmount' = [reservedAmount EXCEPT ![s] = 0]
              \/ reservedAmount' = [reservedAmount EXCEPT ![s] = @ + amount]
<1>1. CASE Intercept(s)
  <2>1. PICK tokens \in Chunks :
          /\ \/ ChunkReserved(s, EstimateCost(s, tokens))
             \/ ChunkErrs(s, EstimateCost(s, tokens))
             \/ ChunkRefused(s, EstimateCost(s, tokens))
             \/ ChunkSentAgain(s, EstimateCost(s, tokens))
          /\ UNCHANGED <<Chats, strategy>>
    BY <1>1 DEF Intercept
  <2> DEFINE amount == EstimateCost(s, tokens)
  <2>2. amount \in Nat
    BY CostType
  <2> HIDE DEF amount
  <2>3. CASE ChunkReserved(s, amount)
    BY <2>1, <2>2, <2>3 DEF ChunkReserved
  <2>4. CASE ChunkErrs(s, amount)
    BY <2>1, <2>2, <2>4 DEF ChunkErrs
  <2>5. CASE ChunkRefused(s, amount)
    BY <2>1, <2>2, <2>5 DEF ChunkRefused
  <2>6. CASE ChunkSentAgain(s, amount)
    BY <2>1, <2>2, <2>6 DEF ChunkSentAgain
  <2> QED BY <2>1, <2>3, <2>4, <2>5, <2>6 DEF amount
<1>2. reservedAmount[s] \in Nat
  BY DEF StreamTypeOK
<1>3. CASE StopRollback(s)
  BY <1>2, <1>3 DEF StopRollback
<1>4. CASE CommitStream(s)
  BY <1>2, <1>4 DEF CommitStream
<1>5. CASE RollbackStream(s)
  BY <1>2, <1>5 DEF RollbackStream
<1> QED BY <1>1, <1>3, <1>4, <1>5 DEF StreamStep

\* A step of a stream keeps every type.
LEMMA StreamStepType ==
  ASSUME StreamTypeOK, NEW s \in Stream, StreamStep(s)
  PROVE  StreamTypeOK'
<1>1. PICK amount \in Nat :
        /\ \/ ReserveOf(s, amount) \/ CommitOf(s, amount) \/ RollbackOf(s, amount)
           \/ StoreUnchanged
        /\ \/ Hears(s) \/ GivesUp(s)
           \/ \E op \in {"reserve", "commit", "rollback"} : SentOnceMore(s, op, amount)
        /\ UNCHANGED <<Chats, strategy>>
        /\ \/ UNCHANGED reservedAmount
           \/ reservedAmount' = [reservedAmount EXCEPT ![s] = 0]
           \/ reservedAmount' = [reservedAmount EXCEPT ![s] = @ + amount]
  BY StreamStepIs
<1>2. /\ rows' \in [Account -> Row]
      /\ held' \in [Stream -> Nat] /\ twice' \in [Stream -> Nat] /\ spent' \in [Stream -> Nat]
  BY <1>1, StoreCallType
<1>3. call' \in [Stream -> Call] /\ lost' \in [Stream -> 0 .. MaxLost]
  BY <1>1, ReplyType
<1>4. TypeOK'
  BY <1>1, <1>2 DEF StreamTypeOK, TypeOK, Chats, request, ghosts
<1>5. reservedAmount' \in [Stream -> Nat]
  <2>1. reservedAmount \in [Stream -> Nat] /\ reservedAmount[s] + amount \in Nat
    <3>1. reservedAmount[s] \in Nat
      BY DEF StreamTypeOK
    <3> QED BY <3>1 DEF StreamTypeOK
  <2> QED BY <1>1, <2>1
<1>6. chunks' \in [Stream -> 0 .. MaxChunks]
  <2>1. CASE UNCHANGED chunks
    BY <2>1 DEF StreamTypeOK
  <2>2. CASE chunks[s] < MaxChunks /\ chunks' = [chunks EXCEPT ![s] = @ + 1]
    <3>1. chunks[s] \in 0 .. MaxChunks /\ MaxChunks \in Nat
      BY StreamAssumption DEF StreamTypeOK
    <3>2. chunks[s] + 1 \in 0 .. MaxChunks
      BY <2>2, <3>1
    <3> QED BY <2>2, <3>2 DEF StreamTypeOK
  <2> QED BY <2>1, <2>2 DEF StreamStep, Intercept, StopRollback, CommitStream, RollbackStream
<1>7. /\ streamAt' \in [Stream -> {"open", "stopping", "stopped", "lost"}]
      /\ model' \in [Stream -> DOMAIN PriceOf]
  BY StreamAssumption
     DEF StreamTypeOK, StreamStep, Intercept, ChunkReserved, ChunkErrs, ChunkRefused,
         ChunkSentAgain, StopRollback, CommitStream, RollbackStream
<1> QED BY <1>1, <1>2, <1>3, <1>4, <1>5, <1>6, <1>7 DEF StreamTypeOK

\* A step of the chats is one of ChatBudget, and moves no stream unless the
\* process ends.
LEMMA ChatStepIs ==
  ASSUME ChatStep
  PROVE  [Next]_vars /\ (Crash \/ UNCHANGED streams)
BY DEF ChatStep, Next

\* Every variable keeps its type with the streams beside the chats, too.
THEOREM StreamTypeCorrect == StreamSpec => []StreamTypeOK
<1>1. StreamInit => StreamTypeOK
  <2> SUFFICES ASSUME StreamInit PROVE StreamTypeOK
    OBVIOUS
  <2>1. TypeOK
    BY FreshRowsType, FaultAssumption DEF StreamInit, Init, TypeOK
  <2>2. /\ Nothing \in [Stream -> 0 .. MaxChunks] /\ Nothing \in [Stream -> Nat]
        /\ Nothing \in [Stream -> 0 .. MaxLost] /\ NoCall \in Call
    BY StreamAssumption, FaultAssumption DEF Nothing, NoCall, Call
  <2> QED BY <2>1, <2>2, StreamAssumption DEF StreamInit, StreamTypeOK
<1>2. StreamTypeOK /\ [StreamNext]_svars => StreamTypeOK'
  <2> SUFFICES ASSUME StreamTypeOK, [StreamNext]_svars PROVE StreamTypeOK'
    OBVIOUS
  <2>1. CASE ChatStep
    <3>1. TypeOK'
      BY <2>1, ChatStepIs, TypeStep DEF StreamTypeOK
    <3>2. CASE UNCHANGED streams
      BY <3>1, <3>2 DEF streams, StreamTypeOK
    <3>3. CASE ~UNCHANGED streams
      <4>1. /\ streamAt' = [s \in Stream |-> "lost"]
            /\ \/ held' = Nothing /\ twice' = Nothing /\ spent' = Nothing
               \/ UNCHANGED <<held, twice, spent>>
            /\ call' = [s \in Stream |-> NoCall]
            /\ UNCHANGED <<strategy, model, reservedAmount, chunks, lost>>
        BY <2>1, <3>3 DEF ChatStep
      <4>2. Nothing \in [Stream -> Nat] /\ NoCall \in Call
        BY FaultAssumption DEF Nothing, NoCall, Call
      <4> QED BY <3>1, <4>1, <4>2 DEF StreamTypeOK
    <3> QED BY <3>2, <3>3
  <2>2. CASE \E s \in Stream : StreamStep(s)
    BY <2>2, StreamStepType
  <2>3. CASE UNCHANGED svars
    BY <2>3 DEF svars, vars, streams, StreamTypeOK, TypeOK
  <2> QED BY <2>1, <2>2, <2>3 DEF StreamNext
<1> QED BY <1>1, <1>2, PTL DEF StreamSpec

-----------------------------------------------------------------------------
\* On the memory store no call fails and no reply is lost.
LEMMA MemoryCalls ==
  ASSUME Backend = "memory", NEW s \in Stream
  PROVE  /\ ~StoreErrs /\ ~ReplyLost(s) /\ ~GivesUp(s)
         /\ \A op, amount : ~SentOnceMore(s, op, amount)
         /\ \A row, amount : /\ ~ReserveFails(row) /\ ~CommitFails(row, amount)
                             /\ ~RollbackFails(row, amount)
<1>1. ~ReplyLost(s)
  BY DEF ReplyLost
<1> QED BY <1>1 DEF StoreErrs, GivesUp, SentOnceMore, ReserveFails, CommitFails, RollbackFails

\* What an interceptor knows there of its own reservations: the store holds for it
\* all that it has to settle, or nothing, and nothing only after the rollback of a
\* hard stop; the sum that is then settled again is the last.
KnowsItsOwn(s) ==
  streamAt[s] # "lost" =>
    /\ streamAt[s] = "stopping" => strategy[s] = "hard_stop"
    /\ held[s] \in {0, reservedAmount[s]}
    /\ held[s] # reservedAmount[s] => streamAt[s] = "stopped" /\ strategy[s] = "hard_stop"
    /\ twice[s] > 0 =>
         streamAt[s] = "stopped" /\ strategy[s] = "hard_stop" /\ reservedAmount[s] = 0

AllKnowTheirOwn == \A s \in Stream : KnowsItsOwn(s)

\* What is settled is what the store held, or the sum a hard stop left behind.
LEMMA SettledOnce ==
  ASSUME StreamTypeOK, NEW s \in Stream, KnowsItsOwn(s), Settle(s, reservedAmount[s]),
         streamAt[s] # "lost", reservedAmount[s] > 0 \/ streamAt[s] = "stopping"
  PROVE  /\ held'[s] = 0
         /\ streamAt[s] # "stopped" \/ strategy[s] # "hard_stop" => ~(twice'[s] > 0)
<1> DEFINE amount == reservedAmount[s]
<1>1. amount \in Nat /\ held[s] \in Nat /\ twice[s] \in Nat
  BY DEF StreamTypeOK
<1>2. PICK own \in Nat :
        /\ own = IF held[s] <= amount THEN held[s] ELSE amount
        /\ held' = [held EXCEPT ![s] = held[s] - own]
        /\ twice' = [twice EXCEPT ![s] = twice[s] + (amount - own)]
  BY <1>1, SettledAmounts
<1>3. held'[s] = held[s] - own /\ twice'[s] = twice[s] + (amount - own)
  BY <1>2 DEF StreamTypeOK
<1>4. held[s] \in {0, amount} /\ own = held[s]
  BY <1>1, <1>2 DEF KnowsItsOwn
<1>5. held'[s] = 0
  BY <1>1, <1>3, <1>4
<1>6. ASSUME streamAt[s] # "stopped" \/ strategy[s] # "hard_stop" PROVE ~(twice'[s] > 0)
  <2>1. held[s] = amount /\ ~(twice[s] > 0)
    BY <1>6 DEF KnowsItsOwn
  <2> QED BY <1>1, <1>3, <1>4, <2>1
<1> QED BY <1>5, <1>6

\* The steps of one stream change nothing another knows.
LEMMA OtherStreams ==
  ASSUME StreamTypeOK, NEW s \in Stream, StreamStep(s), NEW q \in Stream, q # s
  PROVE  /\ streamAt'[q] = streamAt[q] /\ strategy'[q] = strategy[q]
         /\ reservedAmount'[q] = reservedAmount[q] /\ lost'[q] = lost[q]
         /\ held'[q] = held[q] /\ twice'[q] = twice[q]
<1>1. PICK amount \in Nat :
        /\ \/ ReserveOf(s, amount) \/ CommitOf(s, amount) \/ RollbackOf(s, amount)
           \/ StoreUnchanged
        /\ \/ Hears(s) \/ GivesUp(s)
           \/ \E op \in {"reserve", "commit", "rollback"} : SentOnceMore(s, op, amount)
        /\ UNCHANGED <<Chats, strategy>>
        /\ \/ UNCHANGED reservedAmount
           \/ reservedAmount' = [reservedAmount EXCEPT ![s] = 0]
           \/ reservedAmount' = [reservedAmount EXCEPT ![s] = @ + amount]
  BY StreamStepIs
<1>2. lost'[q] = lost[q]
  BY <1>1 DEF Hears, GivesUp, SentOnceMore, ReplyLost, StreamTypeOK
<1>3. held'[q] = held[q] /\ twice'[q] = twice[q]
  BY <1>1 DEF ReserveOf, CommitOf, RollbackOf, Settle, StoreUnchanged, StreamTypeOK
<1>4. reservedAmount'[q] = reservedAmount[q] /\ strategy'[q] = strategy[q]
  BY <1>1 DEF StreamTypeOK
<1>5. streamAt'[q] = streamAt[q]
  BY DEF StreamStep, Intercept, ChunkReserved, ChunkErrs, ChunkRefused, ChunkSentAgain,
     StopRollback, CommitStream, RollbackStream, StreamTypeOK
<1> QED BY <1>2, <1>3, <1>4, <1>5

LEMMA OwnStream ==
  ASSUME Backend = "memory", StreamTypeOK, NEW s \in Stream, StreamStep(s), KnowsItsOwn(s)
  PROVE  KnowsItsOwn(s)'
<1>0. /\ reservedAmount[s] \in Nat /\ held[s] \in Nat /\ twice[s] \in Nat
      /\ s \in DOMAIN streamAt /\ s \in DOMAIN held /\ s \in DOMAIN reservedAmount
  BY DEF StreamTypeOK
<1>1. CASE Intercept(s)
  <2>1. PICK tokens \in Chunks :
          /\ streamAt[s] = "open" /\ strategy' = strategy
          /\ \/ ChunkReserved(s, EstimateCost(s, tokens))
             \/ ChunkRefused(s, EstimateCost(s, tokens))
    BY <1>1, MemoryCalls DEF Intercept, ChunkErrs, ChunkSentAgain
  <2> DEFINE amount == EstimateCost(s, tokens)
  <2>2. amount \in Nat
    BY CostType
  <2> HIDE DEF amount
  <2>3. held[s] = reservedAmount[s] /\ ~(twice[s] > 0)
    BY <2>1 DEF KnowsItsOwn
  <2>4. CASE ChunkReserved(s, amount)
    <3>1. /\ held'[s] = held[s] + amount /\ reservedAmount'[s] = reservedAmount[s] + amount
          /\ streamAt' = streamAt /\ twice' = twice
      BY <1>0, <2>4 DEF ChunkReserved, ReserveOf
    <3> QED BY <1>0, <2>1, <2>2, <2>3, <3>1 DEF KnowsItsOwn
  <2>5. CASE ChunkRefused(s, amount)
    <3>1. /\ UNCHANGED <<held, twice, reservedAmount>>
          /\ streamAt'[s] = "stopping" => strategy[s] = "hard_stop"
      BY <1>0, <2>1, <2>5 DEF ChunkRefused, StoreUnchanged
    <3> QED BY <2>1, <2>3, <3>1 DEF KnowsItsOwn
  <2> QED BY <2>1, <2>4, <2>5 DEF amount
<1>2. CASE StopRollback(s)
  <2>1. /\ streamAt[s] = "stopping" /\ streamAt'[s] = "stopped"
        /\ UNCHANGED <<strategy, reservedAmount>>
        /\ Settle(s, reservedAmount[s])
    BY <1>0, <1>2, MemoryCalls DEF StopRollback, RollbackOf
  <2>2. strategy[s] = "hard_stop" /\ held'[s] = 0 /\ ~(twice'[s] > 0)
    BY <2>1, SettledOnce DEF KnowsItsOwn
  <2> QED BY <2>1, <2>2 DEF KnowsItsOwn
<1>3. CASE CommitStream(s) \/ RollbackStream(s)
  <2>1. /\ streamAt[s] \in {"open", "stopped"} /\ reservedAmount[s] > 0
        /\ UNCHANGED <<streamAt, strategy>>
        /\ Settle(s, reservedAmount[s])
        /\ reservedAmount' = [reservedAmount EXCEPT ![s] = 0]
    BY <1>3, MemoryCalls DEF CommitStream, RollbackStream, CommitOf, RollbackOf
  <2>2. reservedAmount'[s] = 0
    BY <1>0, <2>1
  <2>3. /\ held'[s] = 0
        /\ streamAt[s] # "stopped" \/ strategy[s] # "hard_stop" => ~(twice'[s] > 0)
    BY <2>1, SettledOnce
  <2> QED BY <2>1, <2>2, <2>3 DEF KnowsItsOwn
<1> QED BY <1>1, <1>2, <1>3 DEF StreamStep

\* In the memory store, with chats and restarts beside it, a stream settles all of
\* its own reservations and no one else's, but for the one sum that a hard stop
\* rolls back without forgetting it.
THEOREM SettlesItsOwnHolds == StreamSpec => []SettlesItsOwn
<1> DEFINE Known == Backend = "memory" => AllKnowTheirOwn
<1>1. StreamInit => Known
  BY DEF StreamInit, Nothing, AllKnowTheirOwn, KnowsItsOwn
<1>2. StreamTypeOK /\ Known /\ [StreamNext]_svars => Known'
  <2> SUFFICES ASSUME Backend = "memory", StreamTypeOK, AllKnowTheirOwn, [StreamNext]_svars,
                      NEW q \in Stream
               PROVE  KnowsItsOwn(q)'
    BY DEF AllKnowTheirOwn
  <2>0. KnowsItsOwn(q)
    BY DEF AllKnowTheirOwn
  <2>1. CASE UNCHANGED streams
    BY <2>0, <2>1 DEF streams, KnowsItsOwn
  <2>2. CASE ChatStep /\ ~UNCHANGED streams
    <3>1. streamAt' = [s \in Stream |-> "lost"]
      BY <2>2 DEF ChatStep
    <3> QED BY <3>1 DEF KnowsItsOwn
  <2>3. ASSUME NEW s \in Stream, StreamStep(s) PROVE KnowsItsOwn(q)'
    <3>1. CASE q = s
      BY <2>0, <2>3, <3>1, OwnStream
    <3>2. CASE q # s
      <4>1. /\ streamAt'[q] = streamAt[q] /\ strategy'[q] = strategy[q]
            /\ reservedAmount'[q] = reservedAmount[q]
            /\ held'[q] = held[q] /\ twice'[q] = twice[q]
        BY <2>3, <3>2, OtherStreams
      <4> QED BY <2>0, <4>1 DEF KnowsItsOwn
    <3> QED BY <3>1, <3>2
  <2> QED BY <2>1, <2>2, <2>3 DEF StreamNext, svars
<1>3. Known => SettlesItsOwn
  BY DEF AllKnowTheirOwn, KnowsItsOwn, SettlesItsOwn
<1> QED BY <1>1, <1>2, <1>3, StreamTypeCorrect, PTL DEF StreamSpec

-----------------------------------------------------------------------------
(***************************************************************************)
(* The memory row.  Its books are five sums, and each call of the store    *)
(* changes them by the amount it writes to the row.                        *)
(***************************************************************************)
Booked == {r \in Request : granted[r] /\ settled[r] # "returned"}
Paid == {r \in Booked : settled[r] = "committed"}

Estimated == SumFunctionOnSet(est, Booked)
Cost == SumFunctionOnSet(cost, Paid)
Spent == SumFunctionOnSet(spent, Stream)
HeldByStreams == SumFunctionOnSet(held, Stream)
SettledTwice == SumFunctionOnSet(twice, Stream)

LEMMA BooksAreSums ==
  SharedBooks <=>
    /\ SessionRow.used = Cost + Spent
    /\ SessionRow.reserved = Estimated - Cost + HeldByStreams - SettledTwice
BY DEF SharedBooks, Booked, Paid, Estimated, Cost, Spent, HeldByStreams, SettledTwice

LEMMA BooksTypes ==
  ASSUME StreamTypeOK
  PROVE  /\ IsFiniteSet(Booked) /\ IsFiniteSet(Paid)
         /\ Estimated \in Int /\ Cost \in Int /\ Spent \in Int
         /\ HeldByStreams \in Int /\ SettledTwice \in Int
         /\ SessionRow \in Row
<1>1. Booked \subseteq Request /\ Paid \subseteq Request
  BY DEF Booked, Paid
<1>2. IsFiniteSet(Booked) /\ IsFiniteSet(Paid) /\ IsFiniteSet(Stream)
  BY <1>1, FS_Subset, RequestAssumption, StreamAssumption
<1>3. /\ \A r \in Booked : est[r] \in Int
      /\ \A r \in Paid : cost[r] \in Int
      /\ \A s \in Stream : spent[s] \in Int /\ held[s] \in Int /\ twice[s] \in Int
  BY <1>1 DEF StreamTypeOK, TypeOK
<1>4. Estimated \in Int /\ Cost \in Int
  BY <1>2, <1>3, SumType DEF Estimated, Cost
<1>5. Spent \in Int /\ HeldByStreams \in Int /\ SettledTwice \in Int
  BY <1>2, <1>3, SumType DEF Spent, HeldByStreams, SettledTwice
<1>6. SessionRow \in Row
  BY DEF StreamTypeOK, TypeOK, SessionRow, Account
<1> QED BY <1>2, <1>4, <1>5, <1>6

\* Where a request is with a reservation that the memory store never fails to
\* count, to commit or to return.
MemoryChat(r) ==
  /\ pc[r] \in {"idle", "set", "reserve"} => ~granted[r] /\ ~didReserve[r]
  /\ pc[r] = "chat" /\ didReserve[r] => granted[r]
  /\ pc[r] \in {"commit", "rollback"} => granted[r]
  /\ settled[r] # "none" => pc[r] \in {"tell", "answered", "failed", "lost"}

MemoryChats == \A r \in Request : MemoryChat(r)

LEMMA MemoryChatsStep ==
  ASSUME Backend = "memory"
  PROVE  TypeOK /\ MemoryChats /\ [Next]_vars => MemoryChats'
<1> SUFFICES ASSUME TypeOK, MemoryChats, [Next]_vars, NEW q \in Request
             PROVE  MemoryChat(q)'
  BY DEF MemoryChats
<1>0. MemoryChat(q)
  BY DEF MemoryChats
<1> USE DEF TypeOK
<1>1. ASSUME NEW r \in Request, Arrive(r) PROVE MemoryChat(q)'
  <2>1. PICK l \in Limits : Goto(r, IF l > 0 THEN "set" ELSE "chat")
    BY <1>1 DEF Arrive
  <2>2. /\ pc'[r] \in {"set", "chat"} /\ pc[r] = "idle"
        /\ q # r => pc'[q] = pc[q]
        /\ UNCHANGED <<didReserve, granted, settled>>
    BY <1>1, <2>1 DEF Arrive, Goto, ghosts
  <2> QED BY <1>0, <2>2 DEF MemoryChat
<1>2. ASSUME NEW r \in Request,
             SetBudget(r) \/ ReserveRefused(r) \/ UpstreamReplies(r) \/ UpstreamFails(r)
               \/ TellRemaining(r)
      PROVE  MemoryChat(q)'
  <2>1. /\ UNCHANGED <<didReserve, granted, settled>>
        /\ q # r => pc'[q] = pc[q]
    BY <1>2 DEF SetBudget, SetCounts, ReserveRefused, UpstreamReplies, UpstreamFails,
       TellRemaining, Goto, ghosts
  <2>2. \/ pc[r] = "set" /\ pc'[r] = "reserve"
        \/ pc[r] = "reserve" /\ pc'[r] = "refused"
        \/ pc[r] = "chat" /\ pc'[r] \in {"commit", "rollback"} /\ didReserve[r]
        \/ pc[r] = "chat" /\ pc'[r] \in {"answered", "failed"}
        \/ pc[r] = "tell" /\ pc'[r] = "answered"
    BY <1>2 DEF SetBudget, ReserveRefused, UpstreamReplies, UpstreamFails, TellRemaining, Goto
  <2> QED BY <1>0, <2>1, <2>2 DEF MemoryChat
<1>3. ASSUME NEW r \in Request, ReserveGranted(r) PROVE MemoryChat(q)'
  BY <1>0, <1>3 DEF ReserveGranted, ReserveCounts, Goto, MemoryChat
<1>4. ASSUME NEW r \in Request, ReserveErrored(r) \/ SentAgain(r) PROVE FALSE
  BY <1>4 DEF ReserveErrored, SentAgain, Unserved, Unheard, ReserveFails
<1>5. ASSUME NEW r \in Request, CommitBudget(r) \/ RollbackBudget(r) PROVE MemoryChat(q)'
  <2>1. /\ UNCHANGED <<didReserve, granted>>
        /\ q # r => pc'[q] = pc[q] /\ settled'[q] = settled[q]
        /\ pc'[r] \in {"tell", "failed"} /\ pc[r] \in {"commit", "rollback"}
    BY <1>5 DEF CommitBudget, RollbackBudget, CommitCounts, RollbackCounts, SettlesNothing, Goto
  <2> QED BY <1>0, <2>1 DEF MemoryChat
<1>6. ASSUME NEW r \in Request, Disconnect(r) PROVE MemoryChat(q)'
  BY <1>0, <1>6 DEF Disconnect, MemoryChat, ghosts
<1>7. CASE AdminSet
  BY <1>0, <1>7 DEF AdminSet, MemoryChat, ghosts
<1>8. CASE Crash
  <2>1. /\ granted'[q] = FALSE /\ UNCHANGED <<didReserve, settled>>
        /\ pc'[q] = IF pc[q] \in Live THEN "lost" ELSE pc[q]
    BY <1>8 DEF Crash
  <2> QED BY <1>0, <2>1 DEF MemoryChat, Live
<1>9. CASE UNCHANGED vars
  BY <1>0, <1>9 DEF vars, MemoryChat
<1> QED BY <1>1, <1>2, <1>3, <1>4, <1>5, <1>6, <1>7, <1>8, <1>9 DEF Next, Handle, Interfere

\* The same requests are booked when nothing is granted or settled.
LEMMA SameBookings ==
  ASSUME UNCHANGED <<granted, settled>>
  PROVE  Booked' = Booked /\ Paid' = Paid
BY DEF Booked, Paid

\* A request that changes neither the row nor its reservation changes no sum: the
\* estimate of one that arrives and the cost of one that is answered are not
\* counted yet.
LEMMA QuietChat ==
  ASSUME Backend = "memory", StreamTypeOK, MemoryChats, NEW r \in Request,
         Arrive(r) \/ UpstreamReplies(r)
  PROVE  Estimated' = Estimated /\ Cost' = Cost
<1>1. Booked' = Booked /\ Paid' = Paid
  BY SameBookings DEF Arrive, UpstreamReplies, ghosts
<1>2. MemoryChat(r)
  BY DEF MemoryChats
<1>3. r \notin Paid
  BY <1>2 DEF MemoryChat, Arrive, UpstreamReplies, Paid
<1>4. \A q \in Paid : cost'[q] = cost[q]
  BY <1>3 DEF Arrive, UpstreamReplies, StreamTypeOK, TypeOK, Paid, Booked
<1>5. \A q \in Booked : est'[q] = est[q]
  BY <1>2 DEF MemoryChat, Arrive, UpstreamReplies, StreamTypeOK, TypeOK, Booked, request
<1> QED BY <1>1, <1>4, <1>5, BooksTypes, SumSame DEF Estimated, Cost

LEMMA GrantedSums ==
  ASSUME Backend = "memory", StreamTypeOK, MemoryChats, NEW r \in Request, ReserveGranted(r)
  PROVE  Estimated' = Estimated + est[r] /\ Cost' = Cost
<1>1. ~granted[r] /\ settled[r] = "none"
  <2>1. MemoryChat(r) /\ pc[r] = "reserve"
    BY DEF MemoryChats, ReserveGranted, ReserveCounts
  <2> QED BY <2>1 DEF MemoryChat
<1>2. granted' = [granted EXCEPT ![r] = TRUE] /\ UNCHANGED <<settled, est, cost>>
  BY DEF ReserveGranted, ReserveCounts, request
<1>3. Booked' = Booked \union {r} /\ Paid' = Paid /\ r \notin Booked
  BY <1>1, <1>2 DEF Booked, Paid, StreamTypeOK, TypeOK
<1>4. \A q \in Booked \union {r} : est[q] \in Int
  BY DEF Booked, StreamTypeOK, TypeOK
<1>5. SumFunctionOnSet(est, Booked \union {r}) = SumFunctionOnSet(est, Booked) + est[r]
  BY <1>3, <1>4, BooksTypes, SumWith
<1> QED BY <1>2, <1>3, <1>5 DEF Estimated, Cost

LEMMA CommittedSums ==
  ASSUME Backend = "memory", StreamTypeOK, MemoryChats, NEW r \in Request,
         pc[r] = "commit", settled' = [settled EXCEPT ![r] = "committed"],
         UNCHANGED <<granted, est, cost>>
  PROVE  Estimated' = Estimated /\ Cost' = Cost + cost[r]
<1>1. granted[r] /\ settled[r] = "none"
  <2>1. MemoryChat(r)
    BY DEF MemoryChats
  <2> QED BY <2>1 DEF MemoryChat
<1>2. Booked' = Booked
  BY <1>1 DEF Booked, StreamTypeOK, TypeOK
<1>3. Paid' = Paid \union {r} /\ r \notin Paid
  BY <1>1 DEF Booked, Paid, StreamTypeOK, TypeOK
<1>4. \A q \in Paid \union {r} : cost[q] \in Int
  BY DEF Booked, Paid, StreamTypeOK, TypeOK
<1>5. SumFunctionOnSet(cost, Paid \union {r}) = SumFunctionOnSet(cost, Paid) + cost[r]
  BY <1>3, <1>4, BooksTypes, SumWith
<1> QED BY <1>2, <1>3, <1>5 DEF Estimated, Cost

LEMMA ReturnedSums ==
  ASSUME Backend = "memory", StreamTypeOK, MemoryChats, NEW r \in Request,
         pc[r] = "rollback", settled' = [settled EXCEPT ![r] = "returned"],
         UNCHANGED <<granted, est, cost>>
  PROVE  Estimated = est[r] + Estimated' /\ Cost' = Cost
<1>1. granted[r] /\ settled[r] = "none"
  <2>1. MemoryChat(r)
    BY DEF MemoryChats
  <2> QED BY <2>1 DEF MemoryChat
<1>2. Booked' = Booked \ {r} /\ r \in Booked
  BY <1>1 DEF Booked, StreamTypeOK, TypeOK
<1>3. Paid' = Paid
  BY <1>1 DEF Booked, Paid, StreamTypeOK, TypeOK
<1>4. \A q \in Booked : est[q] \in Int
  BY DEF Booked, StreamTypeOK, TypeOK
<1>5. SumFunctionOnSet(est, Booked) = est[r] + SumFunctionOnSet(est, Booked \ {r})
  BY <1>2, <1>4, BooksTypes, SumWithout
<1> QED BY <1>2, <1>3, <1>5 DEF Estimated, Cost

\* A chat request keeps the books of the row it shares.
LEMMA SharedByChats ==
  ASSUME Backend = "memory", StreamTypeOK, MemoryChats, SharedBooks, UNCHANGED streams,
         NEW r \in Request, Arrive(r) \/ Handle(r) \/ Interfere(r)
  PROVE  SharedBooks'
<1>0. /\ Estimated \in Int /\ Cost \in Int /\ Spent \in Int
      /\ HeldByStreams \in Int /\ SettledTwice \in Int
      /\ SessionRow \in Row
      /\ est[r] \in Nat /\ cost[r] \in Nat
  BY BooksTypes DEF StreamTypeOK, TypeOK
<1>1. Spent' = Spent /\ HeldByStreams' = HeldByStreams /\ SettledTwice' = SettledTwice
  BY DEF streams, Spent, HeldByStreams, SettledTwice
<1>2. /\ SessionRow.used = Cost + Spent
      /\ SessionRow.reserved = Estimated - Cost + HeldByStreams - SettledTwice
  BY BooksAreSums
<1>3. Balance(r) = SessionRow /\ \A row : Write(r, row) => SessionRow' = row
  BY DEF Balance, AccountOf, SessionRow, Write, StreamTypeOK, TypeOK, Account
<1>4. SUFFICES /\ SessionRow'.used = Cost' + Spent'
               /\ SessionRow'.reserved = Estimated' - Cost' + HeldByStreams' - SettledTwice'
  BY DEF SharedBooks, Booked, Paid, Estimated, Cost, Spent, HeldByStreams, SettledTwice
<1>5. ASSUME SessionRow'.used = SessionRow.used, SessionRow'.reserved = SessionRow.reserved,
             Estimated' = Estimated, Cost' = Cost
      PROVE  /\ SessionRow'.used = Cost' + Spent'
             /\ SessionRow'.reserved = Estimated' - Cost' + HeldByStreams' - SettledTwice'
  BY <1>1, <1>2, <1>5
<1>6. CASE Arrive(r) \/ UpstreamReplies(r)
  <2>1. SessionRow' = SessionRow
    BY <1>6 DEF Arrive, UpstreamReplies, SessionRow
  <2> QED BY <1>5, <1>6, <2>1, QuietChat
<1>7. CASE SetBudget(r)
  <2>1. Estimated' = Estimated /\ Cost' = Cost
    BY <1>7, SameBookings DEF SetBudget, SetCounts, request, ghosts, Estimated, Cost
  <2>2. \/ SessionRow' = Budgeted(SessionRow, limit[r])
        \/ SessionRow' = SessionRow
    BY <1>3, <1>7 DEF SetBudget, SetCounts, SessionRow
  <2>3. SessionRow'.used = SessionRow.used /\ SessionRow'.reserved = SessionRow.reserved
    BY <1>0, <2>2 DEF Budgeted, Row
  <2> QED BY <1>5, <2>1, <2>3
<1>8. CASE ReserveGranted(r)
  <2>1. SessionRow' = Held(SessionRow, est[r])
    BY <1>3, <1>8 DEF ReserveGranted, ReserveCounts
  <2>2. SessionRow'.used = SessionRow.used /\ SessionRow'.reserved = SessionRow.reserved + est[r]
    BY <1>0, <2>1 DEF Held, Row
  <2>3. Estimated' = Estimated + est[r] /\ Cost' = Cost
    BY <1>8, GrantedSums
  <2> QED BY <1>0, <1>1, <1>2, <2>2, <2>3
<1>9. CASE ReserveErrored(r) \/ SentAgain(r)
  BY <1>9 DEF ReserveErrored, SentAgain, Unserved, Unheard, ReserveFails
<1>10. CASE ReserveRefused(r) \/ UpstreamFails(r) \/ TellRemaining(r) \/ Disconnect(r)
  <2>1. UNCHANGED <<rows, est, cost, granted, settled>>
    BY <1>10 DEF ReserveRefused, UpstreamFails, TellRemaining, Disconnect, request, ghosts
  <2>2. Estimated' = Estimated /\ Cost' = Cost /\ SessionRow' = SessionRow
    BY <2>1, SameBookings DEF Estimated, Cost, SessionRow
  <2> QED BY <1>5, <2>2
<1>11. CASE CommitBudget(r)
  <2>1. /\ pc[r] = "commit" /\ settled' = [settled EXCEPT ![r] = "committed"]
        /\ UNCHANGED <<granted, est, cost>>
        /\ Write(r, Committed(Balance(r), cost[r]))
    BY <1>11 DEF CommitBudget, CommitCounts, Unserved, CommitFails, request
  <2>2. SessionRow' = Committed(SessionRow, cost[r])
    BY <1>3, <2>1
  <2>3. /\ SessionRow'.used = SessionRow.used + cost[r]
        /\ SessionRow'.reserved = SessionRow.reserved - cost[r]
    BY <1>0, <2>2 DEF Committed, Row
  <2>4. Estimated' = Estimated /\ Cost' = Cost + cost[r]
    BY <2>1, CommittedSums
  <2> QED BY <1>0, <1>1, <1>2, <2>3, <2>4
<1>12. CASE RollbackBudget(r)
  <2>1. /\ pc[r] = "rollback" /\ settled' = [settled EXCEPT ![r] = "returned"]
        /\ UNCHANGED <<granted, est, cost>>
        /\ Write(r, RolledBack(Balance(r), est[r]))
    BY <1>12 DEF RollbackBudget, RollbackCounts, Unserved, RollbackFails, request
  <2>2. SessionRow' = RolledBack(SessionRow, est[r])
    BY <1>3, <2>1
  <2>3. /\ SessionRow'.used = SessionRow.used
        /\ SessionRow'.reserved = SessionRow.reserved - est[r]
    BY <1>0, <2>2 DEF RolledBack, Row
  <2>4. Estimated = est[r] + Estimated' /\ Cost' = Cost
    BY <2>1, ReturnedSums
  <2>5. StreamTypeOK => Estimated' \in Int
    <3>1. Booked' \subseteq Request /\ IsFiniteSet(Booked')
      BY FS_Subset, RequestAssumption DEF Booked
    <3>2. \A q \in Booked' : est'[q] \in Int
      BY <2>1, <3>1 DEF StreamTypeOK, TypeOK
    <3> QED BY <3>1, <3>2, SumType DEF Estimated
  <2> QED BY <1>0, <1>1, <1>2, <2>3, <2>4, <2>5
<1> QED BY <1>6, <1>7, <1>8, <1>9, <1>10, <1>11, <1>12 DEF Handle, Interfere

\* What settling an amount takes from the stream's ledger, and what goes beyond
\* it, together are the amount.
LEMMA SettleSums ==
  ASSUME StreamTypeOK, NEW s \in Stream, NEW amount \in Nat, Settle(s, amount)
  PROVE  /\ HeldByStreams' \in Int /\ SettledTwice' \in Int
         /\ HeldByStreams' - SettledTwice' = HeldByStreams - SettledTwice - amount
<1>1. PICK own \in Nat :
        /\ held[s] - own \in Nat /\ amount - own \in Nat
        /\ held' = [held EXCEPT ![s] = held[s] - own]
        /\ twice' = [twice EXCEPT ![s] = twice[s] + (amount - own)]
  BY SettledAmounts
<1>2. held \in [Stream -> Int] /\ twice \in [Stream -> Int] /\ IsFiniteSet(Stream)
  BY StreamAssumption DEF StreamTypeOK
<1>3. /\ held[s] \in Int /\ twice[s] \in Int
      /\ held[s] - own \in Int /\ twice[s] + (amount - own) \in Int
  BY <1>1, <1>2
<1> DEFINE left == held[s] - own
           more == twice[s] + (amount - own)
<1>4. left \in Int /\ more \in Int /\ left - held[s] = 0 - own /\ more - twice[s] = amount - own
  BY <1>1, <1>3
<1>5. held' = [held EXCEPT ![s] = left] /\ twice' = [twice EXCEPT ![s] = more]
  BY <1>1
<1> HIDE DEF left, more
<1>6. HeldByStreams' = HeldByStreams + (left - held[s])
  BY <1>2, <1>4, <1>5, SumChanged DEF HeldByStreams
<1>7. SettledTwice' = SettledTwice + (more - twice[s])
  BY <1>2, <1>4, <1>5, SumChanged DEF SettledTwice
<1>8. HeldByStreams \in Int /\ SettledTwice \in Int
  BY BooksTypes
<1>9. HeldByStreams' = HeldByStreams + (0 - own) /\ SettledTwice' = SettledTwice + (amount - own)
  BY <1>4, <1>6, <1>7
<1> QED BY <1>1, <1>8, <1>9

\* A stream keeps the books of the row it shares.
LEMMA SharedByStreams ==
  ASSUME Backend = "memory", StreamTypeOK, SharedBooks, NEW s \in Stream, StreamStep(s)
  PROVE  SharedBooks'
<1>0. /\ Estimated \in Int /\ Cost \in Int /\ Spent \in Int
      /\ HeldByStreams \in Int /\ SettledTwice \in Int
      /\ SessionRow \in Row
  BY BooksTypes
<1>1. PICK amount \in Nat :
        /\ \/ ReserveOf(s, amount) \/ CommitOf(s, amount) \/ RollbackOf(s, amount)
           \/ StoreUnchanged
        /\ UNCHANGED Chats
  BY StreamStepIs
<1>2. Estimated' = Estimated /\ Cost' = Cost
  BY <1>1, SameBookings DEF Chats, request, ghosts, Estimated, Cost
<1>3. /\ SessionRow.used = Cost + Spent
      /\ SessionRow.reserved = Estimated - Cost + HeldByStreams - SettledTwice
  BY BooksAreSums
<1>4. \A row : WriteSession(row) => SessionRow' = row
  BY DEF SessionRow, WriteSession, StreamTypeOK, TypeOK, Account
<1>5. SUFFICES /\ SessionRow'.used = Cost' + Spent'
               /\ SessionRow'.reserved = Estimated' - Cost' + HeldByStreams' - SettledTwice'
  BY DEF SharedBooks, Booked, Paid, Estimated, Cost, Spent, HeldByStreams, SettledTwice
<1>6. held \in [Stream -> Int] /\ spent \in [Stream -> Int] /\ IsFiniteSet(Stream)
  BY StreamAssumption DEF StreamTypeOK
<1>7. held[s] \in Int /\ spent[s] \in Int
  BY <1>6
<1>8. CASE StoreUnchanged
  BY <1>2, <1>3, <1>8 DEF StoreUnchanged, SessionRow, HeldByStreams, SettledTwice, Spent
<1>9. ASSUME Settle(s, amount)
      PROVE  (Estimated - Cost + HeldByStreams - SettledTwice) - amount
               = Estimated - Cost + HeldByStreams' - SettledTwice'
  <2>1. /\ HeldByStreams' \in Int /\ SettledTwice' \in Int
        /\ HeldByStreams' - SettledTwice' = HeldByStreams - SettledTwice - amount
    BY <1>9, SettleSums
  <2>2. Estimated - Cost \in Int /\ amount \in Int
    BY <1>0
  <2>3. (Estimated - Cost + HeldByStreams - SettledTwice) - amount
          = Estimated - Cost + (HeldByStreams - SettledTwice - amount)
    BY <1>0, <2>2
  <2>4. Estimated - Cost + HeldByStreams' - SettledTwice'
          = Estimated - Cost + (HeldByStreams' - SettledTwice')
    BY <1>0, <2>1
  <2> QED BY <2>1, <2>3, <2>4
<1>10. CASE ReserveOf(s, amount)
  <2>1. SessionRow' = Held(SessionRow, amount)
    BY <1>4, <1>10 DEF ReserveOf
  <2>2. /\ SessionRow'.used = SessionRow.used
        /\ SessionRow'.reserved = SessionRow.reserved + amount
    BY <1>0, <2>1 DEF Held, Row
  <2>3. held[s] + amount \in Int
    BY <1>7
  <2>4. HeldByStreams' = HeldByStreams + ((held[s] + amount) - held[s])
    BY <1>6, <1>10, <2>3, SumChanged DEF HeldByStreams, ReserveOf
  <2>5. SettledTwice' = SettledTwice /\ Spent' = Spent
    BY <1>10 DEF SettledTwice, Spent, ReserveOf
  <2> QED BY <1>0, <1>2, <1>3, <1>7, <2>2, <2>4, <2>5
<1>11. CASE CommitOf(s, amount)
  <2>1. /\ WriteSession(Committed(SessionRow, amount)) /\ Settle(s, amount)
        /\ spent' = [spent EXCEPT ![s] = spent[s] + amount]
    BY <1>6, <1>11 DEF CommitOf
  <2>2. SessionRow' = Committed(SessionRow, amount)
    BY <1>4, <2>1
  <2>3. /\ SessionRow'.used = SessionRow.used + amount
        /\ SessionRow'.reserved = SessionRow.reserved - amount
    BY <1>0, <2>2 DEF Committed, Row
  <2>4. Spent' = Spent + ((spent[s] + amount) - spent[s])
    <3>1. spent[s] + amount \in Int
      BY <1>7
    <3> QED BY <1>6, <2>1, <3>1, SumChanged DEF Spent
  <2>5. Spent' = Spent + amount /\ (Cost + Spent) + amount = Cost + (Spent + amount)
    BY <1>0, <1>7, <2>4
  <2> QED BY <1>2, <1>3, <1>9, <2>1, <2>3, <2>5
<1>12. CASE RollbackOf(s, amount)
  <2>1. WriteSession(RolledBack(SessionRow, amount)) /\ Settle(s, amount) /\ UNCHANGED spent
    BY <1>12 DEF RollbackOf
  <2>2. SessionRow' = RolledBack(SessionRow, amount)
    BY <1>4, <2>1
  <2>3. /\ SessionRow'.used = SessionRow.used
        /\ SessionRow'.reserved = SessionRow.reserved - amount
    BY <1>0, <2>2 DEF RolledBack, Row
  <2>4. Spent' = Spent
    BY <2>1 DEF Spent
  <2> QED BY <1>2, <1>3, <1>9, <2>1, <2>3, <2>4
<1> QED BY <1>1, <1>8, <1>10, <1>11, <1>12

\* Without a grant and a stream every sum is 0, at the start and after a restart.
LEMMA NothingBooked ==
  ASSUME Backend = "memory"
  PROVE  /\ FreshRows[Global].used = 0 /\ FreshRows[Global].reserved = 0
         /\ SumFunctionOnSet(Nothing, Stream) = 0
         /\ \A f : SumFunctionOnSet(f, {}) = 0
<1>1. FreshRows[Global].used = 0 /\ FreshRows[Global].reserved = 0
  BY DEF FreshRows, MemoryRow, Account
<1>2. \A s \in Stream : Nothing[s] = 0
  BY DEF Nothing
<1>3. SumFunctionOnSet(Nothing, Stream) = 0
  BY <1>2, StreamAssumption, SumZero
<1> QED BY <1>1, <1>3, SumEmpty

\* In the memory store the one row shared by every chat and every stream has used
\* what they committed and holds what is neither spent nor returned, in any order
\* of calls and with restarts: no call is lost on it and none is counted for another.
THEOREM SharedBooksHold ==
  ASSUME Backend = "memory"
  PROVE  StreamSpec => []SharedBooks
<1>1. StreamInit => MemoryChats /\ SharedBooks
  <2> SUFFICES ASSUME StreamInit PROVE MemoryChats /\ SharedBooks
    OBVIOUS
  <2>1. MemoryChats
    BY DEF StreamInit, Init, MemoryChats, MemoryChat
  <2>2. Booked = {} /\ Paid = {}
    BY DEF StreamInit, Init, Booked, Paid
  <2>3. SharedBooks
    BY <2>2, NothingBooked, BooksAreSums
       DEF StreamInit, Init, SessionRow, Estimated, Cost, Spent, HeldByStreams, SettledTwice
  <2> QED BY <2>1, <2>3
<1>2. StreamTypeOK /\ MemoryChats /\ [StreamNext]_svars => MemoryChats'
  <2> SUFFICES ASSUME StreamTypeOK, MemoryChats, [StreamNext]_svars PROVE MemoryChats'
    OBVIOUS
  <2>1. CASE [Next]_vars
    BY <2>1, MemoryChatsStep DEF StreamTypeOK
  <2>2. CASE \E s \in Stream : StreamStep(s)
    <3>1. UNCHANGED Chats
      BY <2>2, StreamStepIs
    <3> QED BY <3>1 DEF Chats, ghosts, MemoryChats, MemoryChat
  <2> QED BY <2>1, <2>2, ChatStepIs DEF StreamNext, svars
<1>3. StreamTypeOK /\ MemoryChats /\ SharedBooks /\ [StreamNext]_svars => SharedBooks'
  <2> SUFFICES ASSUME StreamTypeOK, MemoryChats, SharedBooks, [StreamNext]_svars
               PROVE  SharedBooks'
    OBVIOUS
  <2>1. ASSUME NEW r \in Request, Arrive(r) \/ Handle(r) \/ Interfere(r), UNCHANGED streams
        PROVE  SharedBooks'
    BY <2>1, SharedByChats
  <2>2. CASE AdminSet /\ UNCHANGED streams
    <3>1. SessionRow \in Row
      BY BooksTypes
    <3>2. PICK total \in AdminTotals : SessionRow' = AdminBudgeted(SessionRow, total)
      BY <2>2 DEF AdminSet, SessionRow, StreamTypeOK, TypeOK, Account
    <3>3. SessionRow'.used = SessionRow.used /\ SessionRow'.reserved = SessionRow.reserved
      BY <3>1, <3>2 DEF AdminBudgeted, Row
    <3>4. UNCHANGED <<granted, settled, est, cost, held, twice, spent>>
      BY <2>2 DEF AdminSet, streams, request, ghosts
    <3>5. Booked' = Booked /\ Paid' = Paid
      BY <3>4, SameBookings
    <3>6. /\ SessionRow.used = Cost + Spent
          /\ SessionRow.reserved = Estimated - Cost + HeldByStreams - SettledTwice
      BY BooksAreSums
    <3> QED BY <3>3, <3>4, <3>5, <3>6
            DEF SharedBooks, Booked, Paid, Estimated, Cost, Spent, HeldByStreams, SettledTwice
  <2>3. ASSUME Crash, held' = Nothing /\ twice' = Nothing /\ spent' = Nothing
        PROVE  SharedBooks'
    <3>1. /\ rows' = FreshRows /\ \A r \in Request : ~granted'[r]
          /\ held' = Nothing /\ twice' = Nothing /\ spent' = Nothing
      BY <2>3 DEF Crash
    <3>2. Booked' = {} /\ Paid' = {}
      BY <3>1 DEF Booked, Paid
    <3>3. SessionRow'.used = 0 /\ SessionRow'.reserved = 0
      BY <3>1, NothingBooked DEF SessionRow
    <3>4. /\ Estimated' = 0 /\ Cost' = 0 /\ Spent' = 0
          /\ HeldByStreams' = 0 /\ SettledTwice' = 0
      BY <3>1, <3>2, NothingBooked DEF Estimated, Cost, Spent, HeldByStreams, SettledTwice
    <3> QED BY <3>3, <3>4
            DEF SharedBooks, Booked, Paid, Estimated, Cost, Spent, HeldByStreams, SettledTwice
  <2>4. CASE UNCHANGED svars
    BY <2>4 DEF svars, vars, streams, SharedBooks, SessionRow
  <2>5. CASE \E s \in Stream : StreamStep(s)
    BY <2>5, SharedByStreams
  <2> QED BY <2>1, <2>2, <2>3, <2>4, <2>5 DEF StreamNext, ChatStep
<1> QED BY <1>1, <1>2, <1>3, StreamTypeCorrect, PTL DEF StreamSpec

-----------------------------------------------------------------------------
\* The steps of a stream that keep the last part of RedisBooks: one that has heard
\* every reply takes from what is held for it only what it takes from its sum.
Covered(s) ==
  lost[s] = 0 /\ streamAt[s] \in {"open", "stopping"} => held[s] >= reservedAmount[s]

LEMMA CoveredStep ==
  ASSUME Backend = "redis", StreamTypeOK, NEW s \in Stream, StreamStep(s), Covered(s)
  PROVE  Covered(s)'
<1> SUFFICES ASSUME lost'[s] = 0, streamAt'[s] \in {"open", "stopping"}
             PROVE  held'[s] >= reservedAmount'[s]
  BY DEF Covered
<1>0. /\ held[s] \in Nat /\ reservedAmount[s] \in Nat /\ lost[s] \in Nat
      /\ held \in [Stream -> Nat] /\ reservedAmount \in [Stream -> Nat]
      /\ s \in DOMAIN streamAt /\ s \in DOMAIN lost
  BY StreamAssumption DEF StreamTypeOK
<1>1. ~ReplyLost(s) /\ ~GivesUp(s) /\ \A op, amount : ~SentOnceMore(s, op, amount)
  <2>1. ASSUME ReplyLost(s) PROVE FALSE
    <3>1. lost'[s] = lost[s] + 1
      BY <1>0, <2>1 DEF ReplyLost
    <3> QED BY <1>0, <3>1
  <2> QED BY <2>1 DEF GivesUp, SentOnceMore
<1>2. CASE Intercept(s)
  <2>1. PICK tokens \in Chunks :
          /\ streamAt[s] = "open"
          /\ \/ ChunkReserved(s, EstimateCost(s, tokens))
             \/ ChunkErrs(s, EstimateCost(s, tokens))
             \/ ChunkRefused(s, EstimateCost(s, tokens))
    BY <1>1, <1>2 DEF Intercept, ChunkSentAgain
  <2> DEFINE amount == EstimateCost(s, tokens)
  <2>2. amount \in Nat
    BY CostType
  <2> HIDE DEF amount
  <2>3. CASE ChunkReserved(s, amount)
    <3>1. /\ held'[s] = held[s] + amount /\ reservedAmount'[s] = reservedAmount[s] + amount
          /\ lost' = lost
      BY <1>0, <2>3 DEF ChunkReserved, ReserveOf, Hears
    <3>2. held[s] >= reservedAmount[s]
      BY <2>1, <3>1 DEF Covered
    <3> QED BY <1>0, <2>2, <3>1, <3>2
  <2>4. CASE ChunkErrs(s, amount)
    BY <1>0, <2>4 DEF ChunkErrs
  <2>5. CASE ChunkRefused(s, amount)
    BY <2>1, <2>5 DEF ChunkRefused, StoreUnchanged, Hears, Covered
  <2> QED BY <2>1, <2>3, <2>4, <2>5 DEF amount
<1>3. CASE StopRollback(s)
  BY <1>0, <1>1, <1>3 DEF StopRollback
<1>4. CASE CommitStream(s)
  <2>1. \/ reservedAmount' = [reservedAmount EXCEPT ![s] = 0] /\ held' = held
        \/ UNCHANGED <<held, reservedAmount, lost, streamAt>>
    BY <1>1, <1>4 DEF CommitStream, CommitOf, StoreUnchanged, Hears
  <2> QED BY <1>0, <2>1 DEF Covered
<1>5. CASE RollbackStream(s)
  <2>1. \/ /\ reservedAmount' = [reservedAmount EXCEPT ![s] = 0]
           /\ Settle(s, reservedAmount[s])
        \/ UNCHANGED <<held, reservedAmount, lost, streamAt>>
    BY <1>1, <1>5 DEF RollbackStream, RollbackOf, StoreUnchanged, Hears
  <2>2. CASE Settle(s, reservedAmount[s])
    <3>1. held'[s] \in Nat
      BY <1>0, <2>2, SettleType
    <3> QED BY <1>0, <2>1, <3>1 DEF Covered
  <2> QED BY <2>1, <2>2 DEF Covered
<1> QED BY <1>2, <1>3, <1>4, <1>5 DEF StreamStep

\* The sums of RedisBooks, and that what the streams hold is no less than 0.
LEMMA RedisBooksAre ==
  ASSUME Backend = "redis"
  PROVE  RedisBooks <=>
           /\ SessionRow.used = Spent
           /\ SessionRow.reserved <= HeldByStreams
           /\ SessionRow.reserved >= HeldByStreams - SettledTwice
           /\ \A s \in Stream : Covered(s)
BY DEF RedisBooks, Spent, HeldByStreams, SettledTwice, Covered

\* A call of a stream, sent once or again, keeps the sums of the row it shares.
LEMMA RedisSums ==
  ASSUME Backend = "redis", StreamTypeOK, NEW s \in Stream, NEW amount \in Nat,
         ReserveOf(s, amount) \/ CommitOf(s, amount) \/ RollbackOf(s, amount) \/ StoreUnchanged,
         SessionRow.used = Spent, SessionRow.reserved <= HeldByStreams,
         SessionRow.reserved >= HeldByStreams - SettledTwice
  PROVE  /\ SessionRow'.used = Spent' /\ SessionRow'.reserved <= HeldByStreams'
         /\ SessionRow'.reserved >= HeldByStreams' - SettledTwice'
<1>0. /\ Spent \in Int /\ HeldByStreams \in Int /\ SettledTwice \in Int
      /\ SessionRow \in Row
  BY BooksTypes
<1>1. \A row : WriteSession(row) => SessionRow' = row
  BY DEF SessionRow, WriteSession, StreamTypeOK, TypeOK, Account
<1>2. held \in [Stream -> Int] /\ spent \in [Stream -> Int] /\ IsFiniteSet(Stream)
  BY StreamAssumption DEF StreamTypeOK
<1>3. held[s] \in Int /\ spent[s] \in Int /\ held[s] + amount \in Int /\ spent[s] + amount \in Int
  BY <1>2
<1>4. CASE StoreUnchanged
  BY <1>4 DEF StoreUnchanged, SessionRow, Spent, HeldByStreams, SettledTwice
<1>5. CASE ReserveOf(s, amount)
  <2>1. SessionRow' = Held(SessionRow, amount)
    BY <1>1, <1>5 DEF ReserveOf
  <2>2. /\ SessionRow'.used = SessionRow.used
        /\ SessionRow'.reserved = SessionRow.reserved + amount
    BY <1>0, <2>1 DEF Held, Row
  <2>3. HeldByStreams' = HeldByStreams + ((held[s] + amount) - held[s])
    BY <1>2, <1>3, <1>5, SumChanged DEF HeldByStreams, ReserveOf
  <2>4. SettledTwice' = SettledTwice /\ Spent' = Spent
    BY <1>5 DEF SettledTwice, Spent, ReserveOf
  <2>5. HeldByStreams' = HeldByStreams + amount /\ SessionRow.reserved \in Int
    BY <1>0, <1>3, <2>3 DEF Row
  <2> QED BY <1>0, <2>2, <2>4, <2>5
<1>6. CASE CommitOf(s, amount)
  <2>1. SessionRow' = Committed(SessionRow, amount)
    BY <1>1, <1>6 DEF CommitOf
  <2>2. /\ SessionRow'.used = SessionRow.used + amount
        /\ SessionRow'.reserved = SessionRow.reserved
    BY <1>0, <2>1 DEF Committed, Row
  <2>3. Spent' = Spent + ((spent[s] + amount) - spent[s])
    BY <1>2, <1>3, <1>6, SumChanged DEF Spent, CommitOf
  <2>4. HeldByStreams' = HeldByStreams /\ SettledTwice' = SettledTwice
    BY <1>6 DEF HeldByStreams, SettledTwice, CommitOf
  <2>5. Spent' = Spent + amount
    BY <1>0, <1>3, <2>3
  <2> QED BY <2>2, <2>4, <2>5
<1>7. CASE RollbackOf(s, amount)
  <2>1. SessionRow' = RolledBack(SessionRow, amount) /\ Settle(s, amount) /\ UNCHANGED spent
    BY <1>1, <1>7 DEF RollbackOf
  <2>2. /\ SessionRow'.used = SessionRow.used
        /\ SessionRow'.reserved =
             IF SessionRow.reserved < amount THEN 0 ELSE SessionRow.reserved - amount
        /\ SessionRow.reserved \in Int
    BY <1>0, <2>1 DEF RolledBack, Row
  <2>3. Spent' = Spent
    BY <2>1 DEF Spent
  <2>4. /\ HeldByStreams' \in Int /\ SettledTwice' \in Int
        /\ HeldByStreams' - SettledTwice' = HeldByStreams - SettledTwice - amount
    BY <2>1, SettleSums
  <2>5. HeldByStreams' \in Nat
    <3>1. \A q \in Stream : held'[q] \in Nat
      BY <2>1, SettleType
    <3> QED BY <1>2, <3>1, SumNat DEF HeldByStreams
  <2>6. HeldByStreams' >= HeldByStreams - amount
    <3>1. PICK own \in Nat :
            /\ own = IF held[s] <= amount THEN held[s] ELSE amount
            /\ held' = [held EXCEPT ![s] = held[s] - own]
      BY <2>1, SettledAmounts
    <3>2. held[s] - own \in Int /\ own <= amount
      BY <1>3, <3>1
    <3>3. HeldByStreams' = HeldByStreams + ((held[s] - own) - held[s])
      BY <1>2, <3>1, <3>2, SumChanged DEF HeldByStreams
    <3> QED BY <1>0, <1>3, <3>2, <3>3
  <2>7. SessionRow'.reserved <= HeldByStreams'
    BY <1>0, <2>2, <2>5, <2>6
  <2>8. SessionRow'.reserved >= HeldByStreams' - SettledTwice'
    <3>1. SessionRow'.reserved >= SessionRow.reserved - amount
      BY <2>2
    <3>2. HeldByStreams' - SettledTwice' <= SessionRow.reserved - amount
      <4>1. \A h, w, res \in Int : res >= h - w => h - w - amount <= res - amount
        OBVIOUS
      <4>2. HeldByStreams - SettledTwice - amount <= SessionRow.reserved - amount
        BY <1>0, <2>2, <4>1
      <4> QED BY <2>4, <4>2
    <3>3. SessionRow'.reserved \in Int
      BY <2>2
    <3> QED BY <2>2, <2>4, <3>1, <3>2, <3>3
  <2> QED BY <2>2, <2>3, <2>7, <2>8
<1> QED BY <1>4, <1>5, <1>6, <1>7

\* The books of the session that streams share in Redis are right whatever is lost
\* and sent again: each commit that ran is used, and what is held lies between what
\* was reserved and that less what was rolled back twice.
THEOREM RedisBooksHold == StreamSpec => []RedisBooks
<1>1. StreamInit => RedisBooks
  <2> SUFFICES ASSUME StreamInit, Backend = "redis" PROVE RedisBooks
    BY DEF RedisBooks
  <2>1. SessionRow.used = 0 /\ SessionRow.reserved = 0
    BY DEF StreamInit, Init, SessionRow, FreshRows, NoRow, Account
  <2>2. \A s \in Stream : Nothing[s] = 0
    BY DEF Nothing
  <2>3. Spent = 0 /\ HeldByStreams = 0 /\ SettledTwice = 0
    BY <2>2, StreamAssumption, SumZero DEF StreamInit, Spent, HeldByStreams, SettledTwice
  <2>4. \A s \in Stream : Covered(s)
    BY <2>2 DEF StreamInit, Covered
  <2> QED BY <2>1, <2>3, <2>4, RedisBooksAre
<1>2. StreamTypeOK /\ RedisBooks /\ [StreamNext]_svars => RedisBooks'
  <2> SUFFICES ASSUME Backend = "redis", StreamTypeOK, RedisBooks, [StreamNext]_svars
               PROVE  RedisBooks'
    BY DEF RedisBooks
  <2>1. ASSUME SessionRow'.used = SessionRow.used, SessionRow'.reserved = SessionRow.reserved,
               UNCHANGED <<held, twice, spent, reservedAmount, lost>>,
               \A s \in Stream : streamAt'[s] = streamAt[s] \/ streamAt'[s] = "lost"
        PROVE  RedisBooks'
    BY <2>1 DEF RedisBooks
  <2>2. SessionRow \in Row
    BY BooksTypes
  <2>3. CASE AdminSet /\ UNCHANGED streams
    <3>1. PICK total \in AdminTotals : SessionRow' = AdminBudgeted(SessionRow, total)
      BY <2>3 DEF AdminSet, SessionRow, StreamTypeOK, TypeOK, Account
    <3>2. SessionRow'.used = SessionRow.used /\ SessionRow'.reserved = SessionRow.reserved
      BY <2>2, <3>1 DEF AdminBudgeted, Row
    <3> QED BY <2>1, <2>3, <3>2 DEF streams
  <2>4. ASSUME NEW r \in Request, Arrive(r) \/ Handle(r) \/ Interfere(r), UNCHANGED streams
        PROVE  RedisBooks'
    <3>1. rows'[Global] = rows[Global]
      <4>1. r # Global
        BY RequestAssumption
      <4>2. rows' = rows \/ \E row : Write(r, row)
        BY <2>4, WritesAre DEF Counts, SetCounts, ReserveCounts, CommitCounts, RollbackCounts
      <4> QED BY <4>1, <4>2 DEF Write, AccountOf, StreamTypeOK, TypeOK, Account
    <3> QED BY <2>1, <2>4, <3>1 DEF streams, SessionRow
  <2>5. CASE ChatStep /\ Crash
    <3>1. rows' = rows
      BY <2>5 DEF Crash
    <3>2. CASE UNCHANGED streams
      BY <2>1, <3>1, <3>2 DEF streams, SessionRow
    <3>3. CASE ~UNCHANGED streams
      <4>1. /\ streamAt' = [s \in Stream |-> "lost"]
            /\ UNCHANGED <<held, twice, spent, reservedAmount, lost>>
        BY <2>5, <3>3 DEF ChatStep
      <4> QED BY <2>1, <3>1, <4>1 DEF SessionRow
    <3> QED BY <3>2, <3>3
  <2>6. ASSUME NEW s \in Stream, StreamStep(s) PROVE RedisBooks'
    <3>1. /\ SessionRow.used = Spent /\ SessionRow.reserved <= HeldByStreams
          /\ SessionRow.reserved >= HeldByStreams - SettledTwice
          /\ \A q \in Stream : Covered(q)
      BY RedisBooksAre
    <3>2. PICK amount \in Nat :
            ReserveOf(s, amount) \/ CommitOf(s, amount) \/ RollbackOf(s, amount) \/ StoreUnchanged
      BY <2>6, StreamStepIs
    <3>3. /\ SessionRow'.used = Spent' /\ SessionRow'.reserved <= HeldByStreams'
          /\ SessionRow'.reserved >= HeldByStreams' - SettledTwice'
      BY <3>1, <3>2, RedisSums
    <3>4. ASSUME NEW q \in Stream PROVE Covered(q)'
      <4>1. CASE q = s
        BY <2>6, <3>1, <4>1, CoveredStep
      <4>2. CASE q # s
        <5>1. /\ streamAt'[q] = streamAt[q] /\ lost'[q] = lost[q]
              /\ reservedAmount'[q] = reservedAmount[q] /\ held'[q] = held[q]
          BY <2>6, <4>2, OtherStreams
        <5> QED BY <3>1, <5>1 DEF Covered
      <4> QED BY <4>1, <4>2
    <3> QED BY <3>3, <3>4 DEF RedisBooks, Spent, HeldByStreams, SettledTwice, Covered
  <2>7. CASE UNCHANGED svars
    BY <2>1, <2>7 DEF svars, vars, streams, SessionRow
  <2> QED BY <2>3, <2>4, <2>5, <2>6, <2>7 DEF StreamNext, ChatStep
<1> QED BY <1>1, <1>2, StreamTypeCorrect, PTL DEF StreamSpec

-----------------------------------------------------------------------------
\* Where sessions have rows of their own a stream writes only to its session's.
LEMMA StreamsApart ==
  ASSUME StreamTypeOK, NEW s \in Stream, StreamStep(s)
  PROVE  UNCHANGED Chats /\ \A r \in Request : rows'[r] = rows[r]
<1>1. PICK amount \in Nat :
        /\ \/ ReserveOf(s, amount) \/ CommitOf(s, amount) \/ RollbackOf(s, amount)
           \/ StoreUnchanged
        /\ UNCHANGED Chats
  BY StreamStepIs
<1>2. ASSUME NEW row, WriteSession(row) PROVE \A r \in Request : rows'[r] = rows[r]
  BY <1>2, RequestAssumption DEF WriteSession, StreamTypeOK, TypeOK, Account
<1>3. rows' = rows \/ \E row : WriteSession(row)
  BY <1>1 DEF ReserveOf, CommitOf, RollbackOf, StoreUnchanged
<1> QED BY <1>1, <1>2, <1>3

\* The books of every chat request stay right beside the streams of another session.
LEMMA BooksKeptBesideStreams ==
  ASSUME Backend # "memory"
  PROVE  StreamSpec => []AccountBooks
<1>1. StreamInit => AccountBooks
  BY DEF StreamInit, Init, AccountBooks, BooksOf, FreshRows, NoRow, Account, Outstanding
<1>2. StreamTypeOK /\ AccountBooks /\ [StreamNext]_svars => AccountBooks'
  <2> SUFFICES ASSUME StreamTypeOK, AccountBooks, [StreamNext]_svars PROVE AccountBooks'
    OBVIOUS
  <2>1. CASE [Next]_vars
    BY <2>1, BooksStep DEF StreamTypeOK
  <2>2. ASSUME NEW s \in Stream, StreamStep(s) PROVE AccountBooks'
    <3>1. UNCHANGED Chats /\ \A r \in Request : rows'[r] = rows[r]
      BY <2>2, StreamsApart
    <3> QED BY <3>1 DEF Chats, request, ghosts, AccountBooks, BooksOf, Outstanding
  <2> QED BY <2>1, <2>2, ChatStepIs DEF StreamNext, svars
<1> QED BY <1>1, <1>2, StreamTypeCorrect, PTL DEF StreamSpec

\* The streams of one session take nothing from the budget of a chat request: with
\* them beside it the store still implements SpendCap.
THEOREM PromiseKeptBesideStreams ==
  ASSUME Backend # "memory"
  PROVE  StreamSpec => KeepsPromise
<1>1. StreamInit => Promise!NothingOpen
  BY DEF StreamInit, Init, FreshRows, NoRow, Account, Promise!NothingOpen, Caps, Takens, TakenOf
<1>2. StreamTypeOK /\ AccountBooks /\ [StreamNext]_svars => [Promise!CapStep]_<<Caps, Takens>>
  <2> SUFFICES ASSUME StreamTypeOK, AccountBooks, [StreamNext]_svars
               PROVE  [Promise!CapStep]_<<Caps, Takens>>
    OBVIOUS
  <2>1. CASE [Next]_vars
    BY <2>1, PromiseStep DEF StreamTypeOK
  <2>2. ASSUME NEW s \in Stream, StreamStep(s) PROVE UNCHANGED <<Caps, Takens>>
    <3>1. \A r \in Request : rows'[r] = rows[r]
      BY <2>2, StreamsApart
    <3> QED BY <3>1 DEF Caps, Takens, TakenOf
  <2> QED BY <2>1, <2>2, ChatStepIs DEF StreamNext, svars
<1> QED
  BY <1>1, <1>2, StreamTypeCorrect, BooksKeptBesideStreams, PTL
     DEF StreamSpec, KeepsPromise, Promise!CapSpec
=============================================================================

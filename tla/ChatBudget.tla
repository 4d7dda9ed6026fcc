------------------------------ MODULE ChatBudget ------------------------------
(***************************************************************************)
(* The budget protocol of POST /v1/chat/completions (handler.go), run by   *)
(* any number of concurrent requests against one budget store:             *)
(*                                                                         *)
(*   set the session's budget, reserve an estimate, call the provider,     *)
(*   then commit the cost or roll the estimate back, and quote what is     *)
(*   left in the response headers.                                         *)
(*                                                                         *)
(* Every request makes up a session of its own (NewSessionID), so in the   *)
(* SQLite and Redis stores a request is alone on its row; the memory store *)
(* ignores the session and all requests share one row.  Store errors are   *)
(* logged and the request goes on.                                         *)
(***************************************************************************)
EXTENDS BudgetRow, FiniteSets

CONSTANTS
  Request,        \* the requests that may arrive
  Global,         \* the account POST /admin/budget writes
  NoQuote,        \* no remaining budget quoted yet
  Limits,         \* values of the budget header, 0 when it is absent
  Estimates,      \* what 1000 input and 4000 output tokens may cost
  Costs,          \* what the provider's usage may cost
  AdminTotals,    \* what an administrator may post
  InitialBudget,  \* the budget NewMemoryBudgetStore starts with
  Faults,         \* what the environment may do to the proxy
  MaxRetries,     \* how often go-redis sends a script again (its default is 3)
  MaxCrashes      \* bound: restarts of the process

ASSUME RequestAssumption == IsFiniteSet(Request) /\ Global \notin Request
ASSUME MoneyAssumption ==
  /\ Limits \subseteq Nat
  /\ Estimates \subseteq Nat \ {0}
  /\ Costs \subseteq Nat
  /\ AdminTotals \subseteq Int
  /\ InitialBudget \in Nat
  /\ NoQuote \notin Int
ASSUME FaultAssumption ==
  /\ Faults \subseteq {"store", "reply", "disconnect", "crash"}
  /\ MaxRetries \in Nat
  /\ MaxCrashes \in Nat

Account == Request \union {Global}

Live == {"set", "reserve", "chat", "commit", "rollback", "tell"}
Final == {"answered", "failed", "refused", "lost"}

VARIABLES
  rows,        \* the budget store: account -> row
  pc,          \* where each request is in the handler
  limit,       \* its budget header
  est,         \* reservedAmount
  didReserve,  \* the handler's variable of that name
  granted,     \* whether the store counted the reservation (the code cannot tell)
  cost,        \* resp.CostUSD
  settled,     \* what became of the reservation
  sent,        \* how often the script of the present call was sent again
  quoted,      \* the remaining budget of the response headers
  gone,        \* the client hung up: the request's context is cancelled
  crashes

request == <<limit, est>>
ghosts == <<granted, settled>>
vars == <<rows, pc, limit, est, didReserve, granted, cost, settled, sent,
          quoted, gone, crashes>>

TypeOK ==
  /\ rows \in [Account -> Row]
  /\ pc \in [Request -> {"idle"} \union Live \union Final]
  /\ limit \in [Request -> Nat]
  /\ est \in [Request -> Nat]
  /\ didReserve \in [Request -> BOOLEAN]
  /\ granted \in [Request -> BOOLEAN]
  /\ cost \in [Request -> Nat]
  /\ settled \in [Request -> {"none", "committed", "returned", "kept"}]
  /\ sent \in [Request -> 0 .. MaxRetries]
  /\ quoted \in [Request -> Int \union {NoQuote}]
  /\ gone \in [Request -> BOOLEAN]
  /\ crashes \in 0 .. MaxCrashes

FreshRows ==
  [a \in Account |->
     IF Backend = "memory" /\ a = Global THEN MemoryRow(InitialBudget) ELSE NoRow]

Init ==
  /\ rows = FreshRows
  /\ pc = [r \in Request |-> "idle"]
  /\ limit = [r \in Request |-> 0]
  /\ est = [r \in Request |-> 0]
  /\ didReserve = [r \in Request |-> FALSE]
  /\ granted = [r \in Request |-> FALSE]
  /\ cost = [r \in Request |-> 0]
  /\ settled = [r \in Request |-> "none"]
  /\ sent = [r \in Request |-> 0]
  /\ quoted = [r \in Request |-> NoQuote]
  /\ gone = [r \in Request |-> FALSE]
  /\ crashes = 0

-----------------------------------------------------------------------------
(***************************************************************************)
(* How a store call can end.  It is carried out and says so; it fails and  *)
(* changes nothing; or, in Redis, it is carried out and the reply is lost, *)
(* which go-redis answers by sending the script again, until it has sent   *)
(* it MaxRetries times more and reports an error.  SQLite and Redis use    *)
(* the request's context, and fail once the client has hung up; the memory *)
(* store does not look at it.                                              *)
(***************************************************************************)
\* Fault: sessions are not told apart.
AccountOfAll(r) == Global

AccountOf(r) == IF Backend = "memory" THEN Global ELSE r
Balance(r) == rows[AccountOf(r)]

Served(r) == Backend = "memory" \/ ~gone[r]
Unserved(r) == Backend # "memory" /\ (gone[r] \/ "store" \in Faults)
Unheard(r) == Backend = "redis" /\ (gone[r] \/ "reply" \in Faults)

Write(r, row) == rows' = [rows EXCEPT ![AccountOf(r)] = row]
Goto(r, where) ==
  /\ pc' = [pc EXCEPT ![r] = where]
  /\ sent' = [sent EXCEPT ![r] = 0]

\* What each call does to the store when it is carried out.
SetCounts(r) ==
  /\ pc[r] = "set"
  /\ Write(r, Budgeted(Balance(r), limit[r]))
  /\ UNCHANGED ghosts

ReserveCounts(r) ==
  /\ pc[r] = "reserve"
  /\ ~ReserveFails(Balance(r))
  /\ Admits(Balance(r), est[r])
  /\ Write(r, Held(Balance(r), est[r]))
  /\ granted' = [granted EXCEPT ![r] = TRUE]
  /\ UNCHANGED settled

CommitCounts(r) ==
  /\ pc[r] = "commit"
  /\ ~CommitFails(Balance(r), cost[r])
  /\ Write(r, Committed(Balance(r), cost[r]))
  /\ settled' = [settled EXCEPT ![r] = "committed"]
  /\ UNCHANGED granted

RollbackCounts(r) ==
  /\ pc[r] = "rollback"
  /\ ~RollbackFails(Balance(r), est[r])
  /\ Write(r, RolledBack(Balance(r), est[r]))
  /\ settled' = [settled EXCEPT ![r] = "returned"]
  /\ UNCHANGED granted

Counts(r) == SetCounts(r) \/ ReserveCounts(r) \/ CommitCounts(r) \/ RollbackCounts(r)

\* A settlement that fails leaves what is reserved to itself, unless an earlier
\* sending of it was counted.
SettlesNothing(r) ==
  /\ settled' = [settled EXCEPT ![r] = IF @ = "none" THEN "kept" ELSE @]
  /\ UNCHANGED <<rows, granted>>

\* The script ran and its reply is lost, and go-redis sends it again.
SentAgain(r) ==
  /\ Backend = "redis" /\ "reply" \in Faults
  /\ sent[r] < MaxRetries
  /\ sent' = [sent EXCEPT ![r] = @ + 1]
  /\ Counts(r)
  /\ UNCHANGED <<pc, request, didReserve, cost, quoted, gone, crashes>>

-----------------------------------------------------------------------------
\* The request passes the earlier steps of the handler and has a provider.
\* Without a budget header no budget call is made at all.
Arrive(r) ==
  /\ pc[r] = "idle"
  /\ \E l \in Limits, e \in Estimates :
       /\ limit' = [limit EXCEPT ![r] = l]
       /\ est' = [est EXCEPT ![r] = e]
       /\ Goto(r, IF l > 0 THEN "set" ELSE "chat")
  /\ UNCHANGED <<rows, didReserve, ghosts, cost, quoted, gone, crashes>>

SetBudget(r) ==
  /\ pc[r] = "set"
  /\ Goto(r, "reserve")
  /\ \/ (Served(r) \/ Unheard(r)) /\ SetCounts(r)
     \/ Unserved(r) /\ UNCHANGED <<rows, ghosts>>
  /\ UNCHANGED <<request, didReserve, cost, quoted, gone, crashes>>

ReserveGranted(r) ==
  /\ Served(r)
  /\ ReserveCounts(r)
  /\ didReserve' = [didReserve EXCEPT ![r] = TRUE]
  /\ Goto(r, "chat")
  /\ UNCHANGED <<request, cost, quoted, gone, crashes>>

\* SQLite also reports a transaction that does not commit as a refusal.  In
\* Redis an earlier sending may have been counted.
ReserveRefused(r) ==
  /\ pc[r] = "reserve"
  /\ Served(r)
  /\ ~ReserveFails(Balance(r))
  /\ \/ ~Admits(Balance(r), est[r])
     \/ Backend = "sqlite" /\ "store" \in Faults
  /\ Goto(r, "refused")
  /\ UNCHANGED <<rows, request, didReserve, ghosts, cost, quoted, gone, crashes>>

\* The error is logged, and the handler believes it has reserved.
ReserveErrored(r) ==
  /\ pc[r] = "reserve"
  /\ \/ /\ Unserved(r) \/ (Served(r) /\ ReserveFails(Balance(r)))
        /\ UNCHANGED <<rows, ghosts>>
     \/ Unheard(r) /\ ReserveCounts(r)
  /\ didReserve' = [didReserve EXCEPT ![r] = TRUE]
  /\ Goto(r, "chat")
  /\ UNCHANGED <<request, cost, quoted, gone, crashes>>

\* A stream that breaks off, be it because the client has hung up, counts as
\* answered: parseStreamResponse takes what has come for the whole.
UpstreamReplies(r) ==
  /\ pc[r] = "chat"
  /\ \E c \in Costs : cost' = [cost EXCEPT ![r] = c]
  /\ Goto(r, IF didReserve[r] THEN "commit" ELSE "answered")
  /\ UNCHANGED <<rows, request, didReserve, ghosts, quoted, gone, crashes>>

\* A refused connection, a timeout, a cancelled context, a bad body.
UpstreamFails(r) ==
  /\ pc[r] = "chat"
  /\ Goto(r, IF didReserve[r] THEN "rollback" ELSE "failed")
  /\ UNCHANGED <<rows, request, didReserve, ghosts, cost, quoted, gone, crashes>>

\* Fault: a commit that fails is tried again until it succeeds.
CommitUntilDone(r) ==
  /\ Served(r) \/ Unheard(r)
  /\ CommitCounts(r)
  /\ Goto(r, "tell")
  /\ UNCHANGED <<request, didReserve, cost, quoted, gone, crashes>>

CommitBudget(r) ==
  /\ pc[r] = "commit"
  /\ \/ (Served(r) \/ Unheard(r)) /\ CommitCounts(r)
     \/ (Unserved(r) \/ CommitFails(Balance(r), cost[r])) /\ SettlesNothing(r)
  /\ Goto(r, "tell")
  /\ UNCHANGED <<request, didReserve, cost, quoted, gone, crashes>>

RollbackBudget(r) ==
  /\ pc[r] = "rollback"
  /\ \/ (Served(r) \/ Unheard(r)) /\ RollbackCounts(r)
     \/ (Unserved(r) \/ RollbackFails(Balance(r), est[r])) /\ SettlesNothing(r)
  /\ Goto(r, "failed")
  /\ UNCHANGED <<request, didReserve, cost, quoted, gone, crashes>>

\* When the store cannot say what is left, the handler works it out.
TellRemaining(r) ==
  /\ pc[r] = "tell"
  /\ \/ /\ Served(r)
        /\ ~RemainingFails(Balance(r))
        /\ quoted' = [quoted EXCEPT ![r] = Remaining(Balance(r))]
     \/ /\ Unserved(r) \/ RemainingFails(Balance(r))
        /\ quoted' = [quoted EXCEPT ![r] = limit[r] - cost[r]]
  /\ Goto(r, "answered")
  /\ UNCHANGED <<rows, request, didReserve, ghosts, cost, gone, crashes>>

-----------------------------------------------------------------------------
\* POST /admin/budget.
AdminSet ==
  /\ \E total \in AdminTotals :
       rows' = [rows EXCEPT ![Global] = AdminBudgeted(@, total)]
  /\ UNCHANGED <<pc, request, didReserve, ghosts, sent, cost, quoted, gone, crashes>>

Disconnect(r) ==
  /\ "disconnect" \in Faults
  /\ gone' = [gone EXCEPT ![r] = TRUE]
  /\ UNCHANGED <<rows, pc, request, didReserve, ghosts, sent, cost, quoted, crashes>>

\* What may happen to the connections of a request under way: its client's and the
\* one to Redis.
Interfere(r) ==
  /\ pc[r] \in Live /\ ~gone[r]
  /\ Disconnect(r) \/ SentAgain(r)

\* The process restarts: requests in flight are lost, and with them what the
\* memory store holds.  What it had granted is forgotten too.
Crash ==
  /\ "crash" \in Faults
  /\ crashes < MaxCrashes
  /\ crashes' = crashes + 1
  /\ pc' = [r \in Request |-> IF pc[r] \in Live THEN "lost" ELSE pc[r]]
  /\ IF Backend = "memory"
     THEN /\ rows' = FreshRows
          /\ granted' = [r \in Request |-> FALSE]
     ELSE UNCHANGED <<rows, granted>>
  /\ UNCHANGED <<request, didReserve, cost, settled, sent, quoted, gone>>

-----------------------------------------------------------------------------
Handle(r) ==
  \/ SetBudget(r)
  \/ ReserveGranted(r) \/ ReserveRefused(r) \/ ReserveErrored(r)
  \/ UpstreamReplies(r) \/ UpstreamFails(r)
  \/ CommitBudget(r) \/ RollbackBudget(r)
  \/ TellRemaining(r)

Next ==
  \/ \E r \in Request : Arrive(r) \/ Handle(r) \/ Interfere(r)
  \/ AdminSet
  \/ Crash

Spec == Init /\ [][Next]_vars

\* The goroutine that serves a request runs on, and the HTTP client gives the
\* provider a minute: every step of an accepted request is eventually taken.
FairSpec == Spec /\ \A r \in Request : WF_vars(Handle(r))

-----------------------------------------------------------------------------
\* A reservation that the store counted, and that pays for a call not settled.
Outstanding(r) ==
  granted[r] /\ settled[r] = "none" /\ pc[r] \in {"chat", "commit", "rollback"}

\* Hard stop ("a request over budget is blocked"): a request the store let
\* through has an estimate within the limit of its own header, although the
\* limit and the reservation are two separate calls.
HardStop == \A r \in Request : granted[r] => est[r] <= limit[r]

\* From the reservation to its settlement the store keeps holding at least the
\* estimate, whatever other requests and the administrator do: a commit of no
\* more than the estimate, or its rollback, cannot find too little.
HeldUntilSettled ==
  \A r \in Request : Outstanding(r) => Balance(r).reserved >= est[r]

\* No account of a request owes more than its budget (budget >= reserved +
\* used), in any order of calls and with any of them failing.
NoOverdraft ==
  \A r \in Request : Balance(r).used + Balance(r).reserved <= Balance(r).total

\* The budget quoted to a client whose cost stayed within the estimate is never
\* more than its limit less that cost, also when the commit or the read failed.
QuoteNeverOverstates ==
  \A r \in Request :
    granted[r] /\ cost[r] <= est[r] /\ quoted[r] # NoQuote
      => quoted[r] <= limit[r] - cost[r]

\* Why the properties hold where each request is alone on its row: the state of
\* the row that belongs to each point of the handler.
BooksOf(r) ==
  LET row == rows[r]
  IN  /\ pc[r] # "idle" => est[r] > 0
      /\ row.total >= 0 /\ row.used >= 0 /\ row.reserved >= 0
      /\ pc[r] \in {"idle", "set", "reserve"} =>
           /\ granted[r] => Backend = "redis" /\ pc[r] = "reserve"
           /\ row.used = 0
           /\ row.total \in IF pc[r] = "idle" THEN {0} ELSE {0, limit[r]}
      /\ ~granted[r] => row.reserved = 0
      /\ granted[r] => row.total = limit[r] /\ est[r] <= limit[r]
      /\ row.reserved <= row.total
      /\ granted[r] /\ pc[r] = "reserve" => row.reserved >= est[r]
      /\ Outstanding(r) => row.reserved >= est[r] /\ row.used = 0
      /\ pc[r] \in {"idle", "set", "reserve", "chat"} => settled[r] = "none"
      /\ Backend = "sqlite" =>
           /\ row.used + row.reserved <= row.total
           /\ pc[r] \in {"commit", "rollback"} => settled[r] = "none"
           /\ Outstanding(r) => row.reserved = est[r]
           /\ granted[r] /\ pc[r] = "tell" => row.used + row.reserved = est[r]
      /\ pc[r] \in {"idle"} \union Live => quoted[r] = NoQuote
      /\ pc[r] \in {"set", "reserve"} => limit[r] > 0

AccountBooks == \A r \in Request : BooksOf(r)

\* Every accepted request is answered, refused or failed, whatever fails.
EveryRequestEnds == \A r \in Request : pc[r] \in Live ~> pc[r] \in Final

\* What is taken from a session's budget: all that SQLite has on its row, but
\* only the reservations in Redis, which does not count what is used.
TakenOf(row) ==
  IF Backend = "redis" THEN row.reserved ELSE row.used + row.reserved

Caps == [r \in Request |-> rows[r].total]
Takens == [r \in Request |-> TakenOf(rows[r])]

Promise == INSTANCE SpendCap WITH Account <- Request, cap <- Caps, taken <- Takens

\* The store, as the handler drives it through any fault, implements SpendCap:
\* what is taken from a request's budget never exceeds what is left of it.
KeepsPromise == Promise!CapSpec
=============================================================================

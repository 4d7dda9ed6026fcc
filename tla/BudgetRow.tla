------------------------------ MODULE BudgetRow ------------------------------
(***************************************************************************)
(* One row of the budget store, and what each store operation does to it.  *)
(*                                                                         *)
(* The proxy has three implementations of storage.BudgetStore.  Each call  *)
(* is atomic (a mutex, a SQLite transaction on a pool of one connection, a *)
(* Lua script), so a call is a function of the row it finds.  Money is a   *)
(* number of the smallest unit that matters.                               *)
(***************************************************************************)
EXTENDS Integers

CONSTANT Backend

ASSUME BackendAssumption == Backend \in {"memory", "sqlite", "redis"}

Row == [exists : BOOLEAN, total : Int, used : Nat, reserved : Int]

\* Missing keys read as 0 in Redis; a missing SQLite row is an error.
NoRow == [exists |-> FALSE, total |-> 0, used |-> 0, reserved |-> 0]

\* The only row of NewMemoryBudgetStore.
MemoryRow(budget) ==
  [exists |-> TRUE, total |-> budget, used |-> 0, reserved |-> 0]

-----------------------------------------------------------------------------
\* Reserve fails, as opposed to refusing, only when SQLite finds no row.
ReserveFails(row) == Backend = "sqlite" /\ ~row.exists

\* Fault: what is asked for is not counted.
AdmitsWithoutAmount(row, amount) == row.total - row.reserved - row.used >= 0

\* The Redis script compares with budget - reserved and ignores what is used.
Admits(row, amount) ==
  IF Backend = "redis" THEN row.total - row.reserved >= amount
                       ELSE row.total - row.reserved - row.used >= amount

Held(row, amount) == [row EXCEPT !.reserved = @ + amount]

-----------------------------------------------------------------------------
\* SQLite refuses to settle more than it holds.  The Redis script, when it
\* holds more than the cost, calls DECRBYFLOAT, which Redis does not have:
\* the script stops there, before it counts the cost as used.
CommitFails(row, amount) ==
  \/ Backend = "sqlite" /\ (~row.exists \/ row.reserved < amount)
  \/ Backend = "redis" /\ row.reserved - amount > 0

\* Fault: the cost stays reserved as well.
CommittedOnTop(row, amount) == [row EXCEPT !.used = @ + amount]

Committed(row, amount) ==
  IF Backend = "redis"
  THEN [row EXCEPT !.used = @ + amount]
  ELSE [row EXCEPT !.used = @ + amount, !.reserved = @ - amount]

RollbackFails(row, amount) ==
  Backend = "sqlite" /\ (~row.exists \/ row.reserved < amount)

\* Fault: no floor at zero.
RolledBackBelowZero(row, amount) == [row EXCEPT !.reserved = @ - amount]

RolledBack(row, amount) ==
  [row EXCEPT !.reserved =
     IF Backend = "redis" /\ @ < amount THEN 0 ELSE @ - amount]

-----------------------------------------------------------------------------
\* SetBudget: the memory store only replaces the total; the others start the
\* session's account again.
Budgeted(row, amount) ==
  IF Backend = "memory"
  THEN [row EXCEPT !.total = amount]
  ELSE [exists |-> TRUE, total |-> amount, used |-> 0, reserved |-> 0]

\* Set, called by POST /admin/budget.  Redis writes the total alone.
AdminBudgeted(row, amount) ==
  IF Backend = "sqlite"
  THEN [exists |-> TRUE, total |-> amount, used |-> 0, reserved |-> 0]
  ELSE [exists |-> TRUE, total |-> amount, used |-> row.used,
        reserved |-> row.reserved]

RemainingFails(row) == Backend = "sqlite" /\ ~row.exists

\* Fault: what is reserved is quoted as available.
RemainingUnspent(row) == row.total - row.used

\* Lua turns the number it returns into an integer reply, which the Go code
\* does not recognise: GetRemaining answers 0 for every session.
Remaining(row) ==
  IF Backend = "redis" THEN 0 ELSE row.total - row.used - row.reserved
=============================================================================

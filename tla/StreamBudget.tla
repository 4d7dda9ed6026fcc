----------------------------- MODULE StreamBudget -----------------------------
(***************************************************************************)
(* Stream budget interceptors (stream_budget_interceptor.go) beside the    *)
(* chat requests.  An interceptor reserves the cost of a stream chunk by   *)
(* chunk and settles the sum; all interceptors here work for one session,  *)
(* the global account, which in the memory store is also the row of every  *)
(* chat request.                                                           *)
(*                                                                         *)
(* Nothing in the proxy makes an interceptor yet; its callers are its      *)
(* tests.  The caller modelled here stops sending after an error, and may  *)
(* commit or roll back at any time, also after an error.                   *)
(***************************************************************************)
EXTENDS ChatBudget, FiniteSetsExt

CONSTANTS
  Stream,        \* the interceptors, one for each stream
  Chunks,        \* the tokens a chunk may be estimated at
  PriceOf,       \* the price of a token of each model, 0 when there is none
  DefaultPrice,  \* the price of a token when there is none
  DegradeTo,     \* the model each model degrades to, itself if there is none
  AskedModel,    \* the model the streams begin with
  MaxChunks,     \* bound: chunks of a stream
  MaxLost        \* bound: replies to a stream that are lost

ASSUME StreamAssumption ==
  /\ IsFiniteSet(Stream) /\ Chunks \subseteq Nat
  /\ PriceOf \in [DOMAIN PriceOf -> Nat] /\ DefaultPrice \in Nat
  /\ DegradeTo \in [DOMAIN PriceOf -> DOMAIN PriceOf]
  /\ AskedModel \in DOMAIN PriceOf
  /\ MaxChunks \in Nat /\ MaxLost \in Nat

StreamStrategies == {"hard_stop", "degrade", "soft_alert"}

VARIABLES
  strategy,        \* what each does when the budget is exceeded
  model,           \* the model it prices by
  reservedAmount,  \* what it has reserved, as it knows, and will settle
  streamAt,        \* "open", "stopping", "stopped" or "lost"
  chunks,          \* chunks it was given
  call,            \* the script that is being sent again for it
  held,            \* history: what the store holds for it
  twice,           \* history: what it took from the store beyond that
  spent,           \* history: what it committed
  lost             \* history: the replies to it that were lost

streams ==
  <<strategy, model, reservedAmount, streamAt, chunks, call, held, twice, spent, lost>>
svars == <<vars, streams>>

\* A call waits for its reply: what it asks, and how often it was sent again.
Call == [op : {"none", "reserve", "commit", "rollback"}, amount : Nat, again : 0 .. MaxRetries]
NoCall == [op |-> "none", amount |-> 0, again |-> 0]

StreamTypeOK ==
  /\ TypeOK
  /\ strategy \in [Stream -> StreamStrategies]
  /\ model \in [Stream -> DOMAIN PriceOf]
  /\ streamAt \in [Stream -> {"open", "stopping", "stopped", "lost"}]
  /\ chunks \in [Stream -> 0 .. MaxChunks]
  /\ call \in [Stream -> Call]
  /\ lost \in [Stream -> 0 .. MaxLost]
  /\ \A ledger \in {reservedAmount, held, twice, spent} : ledger \in [Stream -> Nat]

Nothing == [s \in Stream |-> 0]

StreamInit ==
  /\ Init
  /\ strategy \in [Stream -> StreamStrategies]
  /\ model = [s \in Stream |-> AskedModel]
  /\ reservedAmount = Nothing
  /\ streamAt = [s \in Stream |-> "open"]
  /\ chunks = Nothing /\ held = Nothing /\ twice = Nothing /\ spent = Nothing
  /\ call = [s \in Stream |-> NoCall]
  /\ lost = Nothing

-----------------------------------------------------------------------------
SessionRow == rows[Global]
WriteSession(row) == rows' = [rows EXCEPT ![Global] = row]
Chats == <<pc, request, didReserve, ghosts, sent, cost, quoted, gone, crashes>>

\* The store calls of a stream end as in ChatBudget.
StoreErrs == Backend # "memory" /\ "store" \in Faults

\* A stream that waits for no reply begins a call, or the call it waits for is
\* sent again.
Calls(s, op, amount) ==
  call[s].op # "none" => call[s].op = op /\ call[s].amount = amount

Hears(s) ==
  /\ call' = [call EXCEPT ![s] = NoCall]
  /\ UNCHANGED lost

ReplyLost(s) ==
  /\ Backend = "redis" /\ "reply" \in Faults
  /\ lost[s] < MaxLost
  /\ lost' = [lost EXCEPT ![s] = @ + 1]

\* go-redis gives up, and the call ends with an error.
GivesUp(s) ==
  /\ ReplyLost(s)
  /\ call' = [call EXCEPT ![s] = NoCall]

SentOnceMore(s, op, amount) ==
  /\ ReplyLost(s)
  /\ call[s].again < MaxRetries
  /\ call' = [call EXCEPT ![s] = [op |-> op, amount |-> amount, again |-> @.again + 1]]

\* estimateCost: a model without a price has that of the default.
EstimateCost(s, tokens) ==
  tokens * (IF PriceOf[model[s]] = 0 THEN DefaultPrice ELSE PriceOf[model[s]])

\* A settled amount is taken from what the store holds for the stream, and what
\* goes beyond that from others.
Settle(s, amount) ==
  LET own == Min({held[s], amount})
  IN  /\ held' = [held EXCEPT ![s] = @ - own]
      /\ twice' = [twice EXCEPT ![s] = @ + amount - own]

\* What each call does when it is carried out.  A commit in Redis goes on
\* holding what was reserved.
ReserveOf(s, amount) ==
  /\ ~ReserveFails(SessionRow) /\ Admits(SessionRow, amount)
  /\ WriteSession(Held(SessionRow, amount))
  /\ held' = [held EXCEPT ![s] = @ + amount]
  /\ UNCHANGED <<twice, spent>>

CommitOf(s, amount) ==
  /\ ~CommitFails(SessionRow, amount)
  /\ WriteSession(Committed(SessionRow, amount))
  /\ spent' = [spent EXCEPT ![s] = @ + amount]
  /\ IF Backend = "redis" THEN UNCHANGED <<held, twice>> ELSE Settle(s, amount)

\* Fault: what is rolled back is committed.
RollbackAsCommit(s, amount) ==
  /\ ~CommitFails(SessionRow, amount)
  /\ WriteSession(Committed(SessionRow, amount))
  /\ Settle(s, amount)
  /\ UNCHANGED spent

RollbackOf(s, amount) ==
  /\ ~RollbackFails(SessionRow, amount)
  /\ WriteSession(RolledBack(SessionRow, amount))
  /\ Settle(s, amount)
  /\ UNCHANGED spent

StoreUnchanged == UNCHANGED <<rows, held, twice, spent>>

-----------------------------------------------------------------------------
ChunkReserved(s, amount) ==
  /\ ReserveOf(s, amount) /\ Hears(s)
  /\ reservedAmount' = [reservedAmount EXCEPT ![s] = @ + amount]
  /\ UNCHANGED <<model, streamAt>>

\* An error of Reserve ends the stream; in Redis the amount may be held.
ChunkErrs(s, amount) ==
  /\ \/ (StoreErrs \/ ReserveFails(SessionRow)) /\ StoreUnchanged /\ Hears(s)
     \/ ReserveOf(s, amount) /\ GivesUp(s)
  /\ streamAt' = [streamAt EXCEPT ![s] = "stopped"]
  /\ UNCHANGED <<model, reservedAmount>>

ChunkSentAgain(s, amount) ==
  /\ ReserveOf(s, amount) /\ SentOnceMore(s, "reserve", amount)
  /\ UNCHANGED <<model, reservedAmount, streamAt>>

\* SQLite also reports a transaction that does not commit as a refusal.
IsRefused(amount) ==
  /\ ~ReserveFails(SessionRow)
  /\ ~Admits(SessionRow, amount) \/ (Backend = "sqlite" /\ StoreErrs)

\* Mutant of ChunkRefused: a chunk that passes unreserved is counted all the same.
ChunkRefusedCounted(s, amount) ==
  /\ IsRefused(amount) /\ StoreUnchanged /\ Hears(s)
  /\ reservedAmount' = [reservedAmount EXCEPT ![s] = @ + amount]
  /\ UNCHANGED <<model, streamAt>>

\* handleBudgetExceeded: a hard stop goes on to roll back what is reserved;
\* the other strategies let the chunk pass, and nothing is reserved for it.
ChunkRefused(s, amount) ==
  /\ IsRefused(amount) /\ StoreUnchanged /\ Hears(s)
  /\ \/ /\ strategy[s] = "hard_stop"
        /\ streamAt' = [streamAt EXCEPT ![s] =
                          IF reservedAmount[s] > 0 THEN "stopping" ELSE "stopped"]
        /\ UNCHANGED model
     \/ /\ strategy[s] = "degrade"
        /\ model' = [model EXCEPT ![s] = DegradeTo[@]]
        /\ UNCHANGED streamAt
     \/ /\ strategy[s] = "soft_alert"
        /\ UNCHANGED <<model, streamAt>>
  /\ UNCHANGED reservedAmount

\* An interceptor without a limit lets every chunk pass and calls no store; it
\* is left out.
Intercept(s) ==
  \E tokens \in Chunks :
    LET amount == EstimateCost(s, tokens)
    IN  /\ streamAt[s] = "open" /\ Calls(s, "reserve", amount)
        /\ IF call[s].op # "none" THEN UNCHANGED chunks
           ELSE chunks[s] < MaxChunks /\ chunks' = [chunks EXCEPT ![s] = @ + 1]
        /\ \/ ChunkReserved(s, amount) \/ ChunkErrs(s, amount)
           \/ ChunkRefused(s, amount) \/ ChunkSentAgain(s, amount)
        /\ UNCHANGED <<Chats, strategy>>

-----------------------------------------------------------------------------
\* The rollback of a hard stop: its error is ignored, and the sum that was
\* rolled back stays in reservedAmount.
StopRollback(s) ==
  LET amount == reservedAmount[s]
  IN  /\ streamAt[s] = "stopping" /\ Calls(s, "rollback", amount)
      /\ \/ /\ \/ RollbackOf(s, amount) /\ (Hears(s) \/ GivesUp(s))
               \/ (StoreErrs \/ RollbackFails(SessionRow, amount)) /\ StoreUnchanged /\ Hears(s)
            /\ streamAt' = [streamAt EXCEPT ![s] = "stopped"]
         \/ /\ RollbackOf(s, amount) /\ SentOnceMore(s, "rollback", amount)
            /\ UNCHANGED streamAt
      /\ UNCHANGED <<Chats, strategy, model, reservedAmount, chunks>>

\* Commit and Rollback of the interceptor.  An error leaves the sum to be
\* settled again; so does, in Redis, a reply that is lost for good.
CommitStream(s) ==
  LET amount == reservedAmount[s]
  IN  /\ streamAt[s] \in {"open", "stopped"} /\ amount > 0 /\ Calls(s, "commit", amount)
      /\ \/ /\ CommitOf(s, amount) /\ Hears(s)
            /\ reservedAmount' = [reservedAmount EXCEPT ![s] = 0]
         \/ /\ StoreErrs \/ CommitFails(SessionRow, amount)
            /\ StoreUnchanged /\ Hears(s) /\ UNCHANGED reservedAmount
         \/ /\ CommitOf(s, amount) /\ (GivesUp(s) \/ SentOnceMore(s, "commit", amount))
            /\ UNCHANGED reservedAmount
      /\ UNCHANGED <<Chats, strategy, model, streamAt, chunks>>

RollbackStream(s) ==
  LET amount == reservedAmount[s]
  IN  /\ streamAt[s] \in {"open", "stopped"} /\ amount > 0 /\ Calls(s, "rollback", amount)
      /\ \/ /\ RollbackOf(s, amount) /\ Hears(s)
            /\ reservedAmount' = [reservedAmount EXCEPT ![s] = 0]
         \/ /\ StoreErrs \/ RollbackFails(SessionRow, amount)
            /\ StoreUnchanged /\ Hears(s) /\ UNCHANGED reservedAmount
         \/ /\ RollbackOf(s, amount) /\ (GivesUp(s) \/ SentOnceMore(s, "rollback", amount))
            /\ UNCHANGED reservedAmount
      /\ UNCHANGED <<Chats, strategy, model, streamAt, chunks>>

-----------------------------------------------------------------------------
\* The chats, and the end of the process, which takes the streams with it.
ChatStep ==
  \/ /\ \/ \E r \in Request : Arrive(r) \/ Handle(r) \/ Interfere(r)
        \/ AdminSet
     /\ UNCHANGED streams
  \/ /\ Crash
     /\ streamAt' = [s \in Stream |-> "lost"]
     /\ call' = [s \in Stream |-> NoCall]
     /\ IF Backend = "memory"
        THEN held' = Nothing /\ twice' = Nothing /\ spent' = Nothing
        ELSE UNCHANGED <<held, twice, spent>>
     /\ UNCHANGED <<strategy, model, reservedAmount, chunks, lost>>

StreamStep(s) ==
  Intercept(s) \/ StopRollback(s) \/ CommitStream(s) \/ RollbackStream(s)

StreamNext == ChatStep \/ \E s \in Stream : StreamStep(s)

StreamSpec == StreamInit /\ [][StreamNext]_svars

-----------------------------------------------------------------------------
\* The books of the shared memory row, whoever took from it in whatever order:
\* it has used what chats and streams committed, and it holds every estimate
\* that was neither spent nor rolled back, with what the streams hold, short of
\* what streams that were stopped have settled a second time.
SharedBooks ==
  LET Booked == {r \in Request : granted[r] /\ settled[r] # "returned"}
      Spent == {r \in Booked : settled[r] = "committed"}
  IN  /\ SessionRow.used =
           SumFunctionOnSet(cost, Spent) + SumFunctionOnSet(spent, Stream)
      /\ SessionRow.reserved =
           SumFunctionOnSet(est, Booked) - SumFunctionOnSet(cost, Spent)
             + SumFunctionOnSet(held, Stream) - SumFunctionOnSet(twice, Stream)

\* In the memory store a stream settles its own reservations, all of them and no
\* one else's: what GetCurrentCost reports is what the store holds for it (as
\* SharedBooks counts it), until a hard stop has rolled it back without
\* forgetting it.  That sum can then be settled a second time, out of what others
\* have reserved, but once at most.
SettlesItsOwn ==
  Backend = "memory" =>
    \A s \in Stream : streamAt[s] # "lost" =>
      /\ streamAt[s] # "stopped" => held[s] = reservedAmount[s]
      /\ held[s] \in {0, reservedAmount[s]}
      /\ twice[s] > 0 =>
           streamAt[s] = "stopped" /\ strategy[s] = "hard_stop" /\ reservedAmount[s] = 0

\* The books of a session that streams share in Redis, with scripts sent again
\* after a lost reply: every commit that ran is used, those that ran twice with
\* it; the session holds no more than what was reserved and not rolled back, and
\* no less than that short of what was rolled back a second time; and a stream
\* that has heard every reply and settled nothing twice has its sum held.
RedisBooks ==
  Backend = "redis" =>
    LET Holding == SumFunctionOnSet(held, Stream)
    IN  /\ SessionRow.used = SumFunctionOnSet(spent, Stream)
        /\ SessionRow.reserved <= Holding
        /\ SessionRow.reserved >= Holding - SumFunctionOnSet(twice, Stream)
        /\ \A s \in Stream :
             lost[s] = 0 /\ streamAt[s] \in {"open", "stopping"} => held[s] >= reservedAmount[s]
=============================================================================

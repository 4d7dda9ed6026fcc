# Verification of sentoris-proxy

This directory holds TLA+ models of sentoris-proxy, a Go gateway in front of
LLM providers: what it does with a client's budget, with the trace of each
request, with its providers, hooks and signatures. TLC checks the models
on small instances; TLAPS proves the most important properties for every value
of the constants. Paths below are relative to the repository's root.

## The system

`cmd/sentoris-proxy/main.go` wires one process: an `http.Server` runs a
goroutine for each request through `Handler.ServeHTTP`
(`internal/transport/http/handler.go`), and all of them share the stores, the
router, the hook chain and the key manager. A store is PostgreSQL, Redis,
SQLite or memory; a back end that cannot be reached at start is replaced by the
memory store, each store on its own.

| component | state | operations | hard behaviour | what makes it correct |
|---|---|---|---|---|
| chat budget protocol (`handler.go` 431-559, `storage.go`, `sqlite.go`, `redis_budget.go`) | a row of total, used and reserved for each session; `didReserve`, `reservedAmount` of each request | SetBudget, Reserve, Commit, Rollback, GetRemaining, `POST /v1/admin/budget` | two requests between each other's calls, errors that are only logged, lost replies, hang-ups, restarts | no budget is overdrawn; a reservation is held until it is settled; every request ends |
| chat trace (`handler.go` 300-608, `state_transitions.go`, `trace.go`, trace stores) | the handler's trace, the recorder, the stored trace | Save, Update, one transition for each stage | the memory store shares the pointer; writes fail unnoticed; early returns | the state machine is followed; a final trace is complete; the answer and the stored trace agree |
| providers (`model_router.go`, provider stores, `handler.go` 1113-1358) | the providers by name, the default's name, the stored providers with a default flag | add, change, remove, set the default, route | no lock anywhere; four store calls per change of the default; changed in place while in use | a request is priced and sent by one provider; one default is flagged, the one in use |
| hooks (`hooks.go`) | the PII detector's `detectedTypes`, the limiter's counters | PreExecute, PostStream, OnFailure, in the order of the configuration | one detector is shared by all requests, without a lock; a fixed window | what a trace says was found was found in it; a session is let through at most its limit per window |
| replay (`handler.go` 929-1111, `differ.go`) | baseline and candidate trace, risk report | POST /v1/replay-eval | the baseline is read in any state, the candidate saved before the report | the report compares what it names |
| signatures (`signer.go`, `ed25519_signer.go`, `merkle.go`, `canonical.go`, `handler.go` 610-678) | key pairs, the signature in the trace | Sign, Verify | a round trip through a store changes what is hashed | an untouched trace verifies, a changed one does not |
| constraint evaluation (`evaluator.go`, `budget_service.go`) | none | Evaluate | combinations of limits and strategies | decisions follow the strategy |
| stream budget interceptor (`stream_budget_interceptor.go`) | the amount reserved so far | Intercept, Commit, Rollback | a reservation per chunk, a rollback in the middle | a stream settles what it reserved, and nothing of others |
| fault-tolerant upstream client (`fault_tolerant_client.go`, `circuit_breaker.go`) | breaker state, failure count, time of the last failure | Execute, retries | unsynchronised, shared by all requests of a provider | the breaker opens for enough failures, opens when the provider is down, lets calls through once it is up |
| event streams (`sse_reader.go`, `real_client.go` 117-235, `fault_tolerant_client.go` 62-102) | the partial event, two channels, two goroutines | Read, ParseEvent, send, forward, cancel | reads cut anywhere, breaks, a consumer that goes away | events arrive in order, a break is told from an end, no goroutine is left |
| API keys (`postgres_api_key.go`, `key_manager.go`, `auth.go`, `main.go` 219-229) | stored keys, keys of the configuration, usage of pool keys | seed, create, delete, verify, next | seeding at every start | a revoked key is refused |
| retention (`ttl_cleaner.go`, CleanupExpired of the stores) | the ticker | tick, stop | Stop races the ticker | nothing live is deleted |
| extensions (`registry.go`) | entries by namespace | Register, Remove, LoadFromConfig, Marshal and UnmarshalJSON | only a newcomer is checked; replacements; loads that stop half-way | what an extension depends on stays; conflicts depend on the order alone |
| configuration (`config.go`) | the configuration, the time of the file it came from | load, watch | the file is written between the read and the question for its time, half-written, put back with an older time | the last version is served |
| monitor (`handler.go` 710-927) | the statistics being added up | metrics, list, single trace | counts and lists in separate calls, pointers to live traces | the numbers of one answer fit together, and what a client was told is in them |
| risk reports, headers, console, deprecation notices, infrastructure | | queries and formatting | | |

Chat requests interact through the stores (budget rows, traces), the router's
maps and the hooks' fields and nothing else: there are no queues and no messages
between goroutines of the chat path. The upstream package has both, a breaker
that callers share and a pipeline of goroutines for a stream, but the handler
calls the provider with a client of its own (`handler.go` 58-187).

## The modules

One module per component; a component's theorems are in `<component>_proofs`,
its TLC constants in `MC<component>` (those of the parts that share nothing in
`MCStandalone`).

```
BudgetRow <-- ChatBudget <-- StreamBudget <-- Budget_proofs     SpendCap (abstract) <- ChatBudget
TraceState <-- ChatTrace <-- Monitor <-- ChatTrace_proofs       TraceLifecycle (abstract) <- ChatTrace
DataInduction <-- Budget_proofs, ChatTrace_proofs, Standalone_proofs
Hooks <-- MCStandalone, Hooks_proofs
Providers <-- Providers_proofs
RiskComparison <-- Differ <-- MCStandalone, Standalone_proofs
Registry, ConfigReload <-- MCStandalone, Standalone_proofs
RiskComparison <-- Replay <-- Replay_proofs
Breaker, Stream <-- MCStandalone, Upstream_proofs
```

### ChatBudget, BudgetRow, SpendCap

`BudgetRow` gives what each call of `storage.BudgetStore` does to one row in the
three implementations: each call is atomic in the code (a mutex, a transaction
on a pool of one connection, a Lua script), so it is a function of the row.
`ChatBudget` is `handleChatCompletions` around them. `pc` is the place of a
request between two of its calls; `est` is `reservedAmount`, `limit` the budget
header, `rows` the store, `gone` the cancelled context. `granted` and `settled`
are ghosts: what the store did, which the handler cannot know.
An action is one store call with all its outcomes: carried out, failed
(`Unserved`), or carried out with its reply lost (Redis). go-redis is made with
its defaults and answers a lost reply by sending the script again (`SentAgain`,
counted in `sent`), so a reservation or a commit may run up to `MaxRetries` times
more, and may be counted first and refused then; after the last it reports an
error (`Unheard`). `AdminSet`
is `POST /v1/admin/budget`; it writes the account `"__global__"`, which is a
request's account only in the memory store, the store that ignores the session.

`SpendCap` is the abstract store: open an account with a cap, take within it,
give back no more than was taken. `KeepsPromise` is the refinement, with the
caps and the amounts taken read off the rows.

Abstracted: money is a small integer; the estimate and the cost are chosen
freely, as pricing a prompt is not part of the protocol.

### StreamBudget

`StreamBudget` extends `ChatBudget` with interceptors that reserve the cost of a
stream chunk by chunk. All of them work on the row `Global`, which in the memory
store is the row of the chats too, so their calls come between those of chats
and of the administrator. `reservedAmount` and `model` are the interceptor's
fields; `held`, `twice` and `spent` are ghosts: what the store holds for a stream,
what it settled a second time, and what it committed. A commit in Redis adds to
`used` and leaves `reserved`, so it leaves `held` too. `StopRollback` is the
rollback inside a hard stop, whose error is dropped and which leaves
`reservedAmount` as it was. `call` is the script that is being sent again for a
stream; `lost` counts the replies lost to it, `MaxLost` at most (a bound: it could
commit the same sum again for ever).

Nothing but tests calls an interceptor. The caller modelled stops sending after
an error and commits or rolls back at any time, also after an error. Tokens and
prices are small integers; an interceptor without a limit, which calls no store,
is left out.

### ChatTrace, TraceState, TraceLifecycle

`live` is the handler's `trace`, `recorder` its `stateTransitionRecorder`,
`stored` the trace store. The memory store keeps a pointer (`Shared`), so a
reader sees every assignment; SQLite and PostgreSQL keep the copy of the last
write that succeeded. `Update` of an absent trace is an error, except in SQLite.
Actions are the handler's stages; the four assignments that finish a trace
(`Validate` to `Observe`) are actions of their own. Only `Fail` does several
assignments at once, which on the memory store a reader could tell apart for a
moment. `TraceLifecycle` is `CanTransitionTo` as a specification, and
`FollowsLifecycle` the refinement: the handler never calls `CanTransitionTo`.

`Evaluate` is what `ConstraintEvaluator.Evaluate` decides from the cost spent
and the strategy. `Signable` is what the canonicalizer accepts.

### Monitor

`Monitor` extends `ChatTrace`: `handleMonitorMetrics` and `handleTracesList` run
beside the chats, one store call or one look at a listed trace to an action
(`AskMetrics`, `AskList`, `List`, `Tally`, `AddCost`, `Answer`). What the memory
store lists are pointers, so `Deref` reads the handler's trace at the time of the
look. The loop looks twice: `Tally` reads the state, `AddCost` the cost, and a chat
may go on in between.
`created` is the order of `CreatedAt`; `Recent` goes through it from the end, as
the stores sort by it, and `ListRecent` cuts it off at the limit. `settled` is a history variable: the
answers that had been sent when the monitor was asked.

### Hooks

The chain of `PreExecute` hooks. The detector's field `detectedTypes` is emptied,
searched and appended to without a lock, so `Look` and `AppendType` are two
actions with the field read in between (`seen`). The limiter holds a mutex and
is one action. A slice is modelled as the set of its types; two appends to one
backing array are not.

### Providers

The router's maps, the configurations they point to (`heap`), the rows of a
provider store, the administrators' five requests and the lookup of a chat
request. Nothing in the code takes a lock. A PUT writes the configuration in use
field by field (`PutURL`, `PutModels`, `PutPrice`), and a string in two words:
`Torn` is what a read in between gives. A range over a Go map visits keys in any
order and may or may not visit one added meanwhile (`Visit`). The Go runtime may
also end the process when a map is read and written at once; `Restart` stands for that
too. `main` builds the router without a store (backend `"none"`): the stores'
part is the code as it is written, which no shipped binary runs.

A price column of PostgreSQL is a DECIMAL(10,6): `Column` says what it makes of a
price, which it rounds, or refuses from 10000 on (`Fits`); `Kept` is what a row
keeps of a configuration and `Put` the write of a whole row. What is rounded stays
as it is when it is written again. SQLite's columns are REAL and keep what they get.

### RiskComparison, Differ, Replay

`RiskComparison` is `differ.go` in full: the edit distance, the risk of every
field, the score, the recommendation. `Differ` calls it once on a pair of
traces. `Replay` is `handleReplayEval` from reading the baseline to saving the
report, on the two SQL stores, beside the chats it replays; a chat is reduced to
its two writes (`ChatTrace` has them all). Between two database calls anything
may happen. `AsRead` is what a round trip through a store does to a trace, and
a signature is modelled by what it is the hash of, so that `Verify` compares
contents. A candidate may be the baseline of another replay.

Abstracted: similarities and scores are exact fractions (the code's floats are
rounded to two places, and the thresholds 0.2, 0.3, 0.7 are met exactly);
`Wishes` lists which model and parameters are asked for together; the SQL
`null` of parameters counts as missing; hang-ups are the failing calls they
cause. The memory store, whose baseline is the live trace, is left out.

`VerifyTrace` is the answer of `/v1/verify` for a stored trace, `GetReport` the
read of a report by its key.

### Registry

`entries` are the registered extensions, `loading` what `LoadFromConfig` has still
to register, `saved` what `MarshalJSON` wrote. The registry takes no lock and has
one caller at a time, so a call is a step, and a load a step for each entry.
`before` is a history variable, the order of the last registrations. `valid` is
the answer of `Validate`; of the rest of an entry nothing asks. JSON from elsewhere,
which `UnmarshalJSON` would take as it is, is left out.

### ConfigReload

`ConfigManager` and the file it watches. `ReadFile` and `Install` are the two halves
of a load: the file is read in one and asked for its time in the other, and
editors write at any point: in place, where a file is empty until it is filled,
by renaming a file with a time of its own, or with something that is no YAML.
`now` is the clock of the file system in its granules; two writes in one granule
have one time. `raced` and `loadedAt` are history variables: whether the last
write has fallen into a load or brought no later time. The values of a
configuration are left out; an empty file is one of defaults, as YAML has it.
`main` uses `LoadConfig`, which reads once; no shipped binary makes a
`ConfigManager`.

### Breaker

`fault_tolerant_client.go`: `Execute` reads and writes `state`, `failureCount`
and `lastFailure` without a lock, so every access is an action, a string is two
words (`Assign` writes them in either order, `ReadState` and `Settle` read one
after the other), and an increment is a read and a write (`ReadCount`,
`WriteCount`). The time since the last failure is the flag `expired`. `fails`
is a history variable: the failures since the last success that no other
caller's write crossed (`Disturbed`). `Streaming` callers use `StreamChat`, which
makes one attempt; the others `Chat`, which retries. The provider answers, fails
or does either, and changes at any time.

Abstracted: counts stop at the threshold, the only number they are compared
with. `expired` may become true at any moment after a failure.

### Stream

One `StreamChat`, from the provider's pieces to the consumer. The body is a
sequence of pieces, three to an event, and a read returns any number of those
that have arrived (`Read`), so the body is cut anywhere. `Completed` is what
`ParseEvent` finds complete, `ParseEvent` returns one of these at most. The reader
goroutine sends into a buffered channel, the forwarder of the fault-tolerant
client takes from it and gives to the consumer over an unbuffered one; each
`select` is a choice between actions. The consumer may `Leave`, and its context may
be cancelled (`Cancel`) at any time, also while it goes on receiving: both
goroutines then end and close their channels without an error. `told` is whether
the consumer has seen an error; `burst` records whether a read ended two events or
came with the end.

## The runs

| run | instance | question |
|---|---|---|
| `budget_sqlite` | 2 requests, limits 0, 2, 4, estimates 2, 3, costs 1, 4; failing calls, hang-ups, 1 restart, an administrator; fair | no overdraft, reservations held, no quote above what is left, every request ends |
| `budget_redis` | 2 requests: failing calls, lost replies and scripts sent again up to twice, hang-ups, 1 restart; or 2 streams of 2 chunks of one session: the same with 2 lost replies each, and an administrator | the store implements SpendCap; the session's books, with what ran twice |
| `budget_redis_overdraft` | 1 request on Redis, nothing fails; **violated** | used + reserved stays within the budget |
| `budget_memory` | 2 requests and 2 streams of 2 chunks on the shared row, an administrator, 1 restart | the row's books balance; a stream settles its own |
| `trace_postgres` | 2 traces, both strategies, failing writes, hang-ups, restarts; fair | lifecycle, completeness, agreement with the answer, every trace settles |
| `monitor` | 2 traces on the memory store, metrics of all and lists of 0 and 1, hang-ups, restarts | no reader sees a trace move back; the metrics add up and know what clients were told |
| `providers` | 2 providers, 1 administrator with 2 requests, 1 chat, prices that a column keeps, rounds and refuses, failing calls, 1 restart, PostgreSQL | prices, routes, rows and flags |
| `providers_main` | the same router without a store, as `main` makes it, 1 request, 1 restart; **violated** | what an administrator has changed survives a restart |
| `standalone`: comparison | all pairs of responses of up to 3 runes (one of 3 bytes), 10-rune responses with 2 to 10 runes in common beside changes of every other field | what a recommendation can be relied on for |
| `standalone`: registry | 3 extensions, 2 of which depend on and conflict with any one, 2 lists | dependencies and conflicts |
| `standalone`: configuration | 4 writes of the file, 4 ticks; fair | what is overlooked, and that the rest is served |
| `standalone`: hooks | 3 requests of 1 session, 2 of them with personal data, both strategies, a chain with the limiter before the detector; a window of 2 ticks, 3 ticks | the detector's reports, the limiter's bounds |
| `standalone`: breaker | 2 callers, one with streams; threshold 3, 2 attempts; fair | opens for cause, opens when the provider is down, closes when it is up |
| `standalone`: stream | 3 events of 3 pieces, a channel of 2, breaks, a consumer that leaves, cancellation; fair | order, losses, breaks, goroutines |
| `differ_output` | the comparison on the same pairs; **violated** | a response that is mostly different blocks the release |
| `replay` | 1 chat, 2 replays, 2 answers, 3 wishes, failing saves, failing provider, restart, SQLite; fair | reports, candidates and answers |
| `replay_signatures` | 1 chat, 1 replay on PostgreSQL, no fault; **violated** | an untouched candidate verifies |

The type invariants are proved for every instance instead of being run on one;
`Differ` has none of its own.
`standalone` is six parts in one run: they share nothing, and `MCStandalone` lets
a behaviour be one of one of them, so that their states add up. `GoroutinesOfStreamEnd`
is `GoroutinesEnd` said of the stream's behaviours; in the others it stands still.
In the same way a behaviour of `budget_redis` (`MCRedisBudget`) is one of chats or one
of streams, as on Redis they have no account in common.

Why these bounds are enough:

- *Budget.* On SQLite and Redis a request is alone on its row, so two requests
  show all there is to interfere, and the theorems below hold for any number. One
  repetition of a script doubles what it takes and a second one goes beyond every
  limit in the run; go-redis tries three times, and the theorems hold for any number.
  Limits lie below, between and above the estimates, costs below and above
  them. On the memory row two requests and two streams
  interleave all of their calls; a second chunk is needed for a hard stop that has
  something to roll back, and a second stream for someone to take it from.
- *Trace.* Handlers share nothing but the restart; the second trace is there for
  the frame.
- *Hooks.* A lost append needs two requests in the detector, and a third shows
  what is left behind. With the limiter first the two strategies differ in who gets
  to the detector. The window is longer than a tick and ends within the
  run; twice the limit needs two windows.
- *Providers.* The flag of a default moves between two names; one request under way
  and one before it give every state of the rows a third could meet, and chats
  only read, so one is enough. Three prices are one that its column keeps, one that it
  rounds to the first and one that it refuses. `a2` and `TwoAdmins` are for experiments: with two
  administrators at once `StoreFollows` fails (a recorded hazard). It is proved for
  any number of them as long as their requests do not overlap.
- *Differ.* Three runes give every kind of edit and all ways to align two texts
  (`MaxAligned`, the bound of the enumeration that defines the least distance);
  ten runes give similarities in steps of a tenth, among them the band of 30 to
  39 percent that two of the thresholds meet in.
- *Replay.* Two replays race for one baseline, replay each other's candidates
  and replace each other's reports. The two answers differ in everything that is
  compared, and one is empty with no finish reason.

- *Registry.* A circle needs two extensions and a replacement, a half-done load
  two entries; the third conflicts with one and needs the other.
- *Config.* A file is loaded, broken, repaired in the granule of the break and
  written again; the proof holds for any number of writes.
- *Monitor.* One trace ends while the other begins between any two steps of the
  metrics; a list of one of two traces is cut off, one of none is full from the start.
- *Breaker.* Two callers are enough to lose an increment, to write back a stale
  count and to tear a state; three failures so that a lost one matters; more
  callers only delay each other further. The theorem holds for any number.
- *Stream.* Three events over a channel of two keep one at each place (reader,
  channel, forwarder) or fill the channel; more would wait behind them.

Deadlock is checked in the budget runs, where an administrator can always act. In
the others the system stops when all requests are done.

### Fairness

`FairSpec` of ChatBudget, ChatTrace and Replay is weak fairness of a request's own
handler. `net/http` runs every request on a goroutine of its own, the Go scheduler
runs every runnable goroutine, database calls end with the context or an error,
and the call to the provider ends by the client's 60 s timeout. No fairness is
assumed of clients, administrators, clocks, restarts or of any one outcome of a
call. Arriving, hanging up and crashing are never fair.

The watch of ConfigReload is fair: its goroutine and its ticker never end. The
editors are not.

`BreakerFairSpec` lets every caller go on and the timeout pass: a goroutine
runs until its call ends, time passes, and it is the property's premise that more
calls come. `StreamSpec` adds that the body ends or its 60 seconds
run out, that the two goroutines run, that the consumer goes on reading or leaves,
and that one who has left cancels its context, as `net/http` does when a handler
returns. A cancellation of another kind is never fair. A consumer that neither
reads nor cancels would keep both goroutines for ever; nothing in `StreamChat`
guards against it.

### Disagreements with the documents

Four runs end in a violation, and `findings` quotes the lines:

- `replay_signatures`: PostgreSQL returns neither the session nor the nanoseconds
  that were signed (`postgres_trace.go:344`), so a candidate nobody has touched
  does not verify.
- `budget_redis_overdraft`: a commit of at least the estimate adds the cost to `used`
  and leaves `reserved` as it is (`redis_budget.go:108`), so that used + reserved
  exceeds the budget (E2E:835). `NoOverdraft` is a property of SQLite.
- `providers_main`: the document lists persistent providers (ARCHITECTURE.md:370), but
  `main.go:94` gives the router no store and nothing calls `LoadFromStore`. On
  SQLite a router that did would start empty, as its lists close the rows before
  reading them (`sqlite.go:654`).
- `differ_output`: a response less than 0.3 alike is one HIGH field and is
  reviewed (`differ.go:295`); the scenario of completely different content expects
  block_release (E2E:689-691). `BlockedInBand` is what holds of the responses
  that do block.

Others are in the models as the code has them, without a run of their own:

- A stream returns before the last update (`handler.go:561`): the database keeps
  its trace as EXECUTING, without output or signature (E2E:93). `TraceSettles`
  excludes streams.
- With two requests in the detector a trace reports the types of another or
  none (`hooks.go:213`; E2E_TEST_SCENARIOS.md:445 expects its own).
  `ReportsItsOwn` says what remains true.
- No chat is ever signed: the canonicalizer does not know the prompt's type
  (`canonical.go:45`, error dropped at `handler.go:594`; E2E:842).
- The fields analysed are discarded with the first assessment, so no report lists
  any (`SetRiskWithReasons`; E2E:742).
- A refusing budget store answers 429 whatever the strategy (`handler.go:459`;
  ARCHITECTURE.md:324 lets soft_alert go on). An error of Reserve counts as
  granted (`handler.go:456`), an error of the limiter is ignored
  (`handler.go:335`; E2E:463), and the priority of a hook is not looked at.
- Redis: DECRBYFLOAT does not exist, so a commit below the estimate fails and
  counts nothing as used (`redis_budget.go:109`); GetRemaining answers 0, as the
  integer a script returns is not one of the types it looks for
  (`redis_budget.go:176`).
- Replays on SQL stores send the printed form of the prompt (`handler.go:1012`);
  a request that brings `{}` as parameters makes a candidate that does not
  verify; two missing responses are approved whatever the models are.
- A lookup racing with a change of the default is answered 404 although there
  always was one (`handler.go:411`).
- The chat handler's client does not look at the status of an answer, and takes
  a stream that broke off or was cancelled for a complete one with
  finish_reason "stop" (`handler.go` 58-187).
- Half-open admits every caller, not one probe (`fault_tolerant_client.go:153`);
  a late success of a call made before the breaker opened resets its count; two
  unsynchronised assignments may leave a state that is none of the three, which
  lets every call through; a client's own cancellation counts as a failure of
  the provider and is retried.
- A single newline at the end of a read completes an event, one event at most is
  taken from each read, whatever is left at the end of the body or comes with it
  is lost, and "[DONE]" is delivered as content (`sse_reader.go`,
  `real_client.go:188`). `LostOnlyInBursts` says when nothing is lost.
- SQLite's list of recent traces is always empty, as the rows are closed before
  they are read; PostgreSQL keeps a risk report under its own id, and reading it
  by the trace's finds nothing. On the memory store total_cost may miss a trace that
  is tallied as FINALIZED before its observations are assigned, and may hold the
  cost of one that was tallied as EXECUTING a moment earlier (`handler.go:752`, 760).
- A lost reply of Redis makes go-redis send a script again (`redis_budget.go` 26-44
  leaves its default): a reservation or a commit may be counted more than once.
- A price is rounded in PostgreSQL and not in the router (`postgres_provider.go:42`);
  one of 10000 or more is never stored, and the error is dropped.
- A stream whose context is cancelled closes in silence: a consumer that reads to the
  end cannot tell it from a complete one (`real_client.go:194`).
- The registry looks for the conflicts a newcomer declares and for no others
  (`registry.go:115`), and accepts a replacement that depends on itself or on its
  dependents. `ConflictsByOrder` and `DependenciesPresent` are what holds.
- A write between the read and the end of a load is never loaded
  (`config.go:134`).
- A hard stop leaves `reservedAmount` as it was (`stream_budget_interceptor.go:118`):
  a rollback after it is carried out twice, on a shared row at others' cost.
- Two administrators who set the default at once may leave two rows flagged
  (`model_router.go:126`); so does one whose call fails.
- `TTLExpireAt` is never set, so the cleaner deletes nothing.

## The proofs

`tlapm` checks these for any constants that satisfy the modules' assumptions
(finite requests, natural amounts, marks that differ from what they stand beside).

| module | theorems | inductive invariant and argument |
|---|---|---|
| Budget_proofs, ChatBudget | `TypeCorrect`, `BooksKept`, `HardStopHolds`, `HeldUntilSettledHolds`, `NoOverdraftHolds` (SQLite), `QuoteHolds`, `PromiseKept` | `TypeOK` and `AccountBooks`. A property such as HardStop speaks of a grant made from a limit set one call earlier; `BooksOf(r)` says, for each place of the handler, what the row looks like there: fresh before the reservation, holding at least the estimate after it, and never more than the limit, however often a script is sent. On SQLite, where no call is repeated, it holds exactly the estimate. It needs the request to be alone on its row, hence `Backend # "memory"` |
| Budget_proofs, StreamBudget | `StreamTypeCorrect`, `SettlesItsOwnHolds`, `SharedBooksHold` (memory), `RedisBooksHold` (Redis), `PromiseKeptBesideStreams` | `AllKnowTheirOwn` (memory): at each place of a stream what the store holds for it is what the interceptor believes, or nothing, and what was settled twice is at most once and after a hard stop. What `held` is worth is said by the books: it is the streams' part of the row's `reserved`, exactly on the memory store and within what was rolled back twice on Redis, where it stays when a commit runs. `MemoryChats`: where a chat stands its grant, estimate and cost, without a word about the row, which others write. `SharedBooks` is then inductive beside them: each call changes one term of one sum (`SumChanged`), and so is `RedisBooks`. On the other stores no stream touches a chat's row, so `AccountBooks` and the refinement survive the larger specification |
| DataInduction | (lemmas) | The library's induction theorems take an operator, which no prover here instantiates. `NumberInduction` and `SetInduction` take a *set* of the numbers, or of the subsets, that have the property, which first-order provers handle; from them a function defined by recursion on numbers is shown to exist (`RecursionExists`) and the sum of a function over a finite set (`SumFunctionOnSet`, a fold) is shown to change with one of its terms |
| ChatTrace_proofs | `TraceTypeCorrect`, `LifecycleFollowed`, `FinalTraceIsCompleteHolds`, `AnswerMatchesTraceHolds`, `StoreNeverGoesBackHolds` | `TypeOK` and `Path`: at each place of the handler the transitions recorded so far are one of the few paths that lead there, and end in the state of the live trace. The refinement then has one step per action. What the store shows needs `Story` besides: until the handler is done no copy is final, from `Finalize` on the recorder tells the whole path, and at the end the live trace is complete, fits the answer, and a final copy is of it. For the steps of a reader, `Behind`: the copy has no later state than the live trace. All for every store, every fault and any number of chats |
| ChatTrace_proofs, Monitor | `MonitorTypeCorrect`, `MetricsAddUpHolds` (stores that list: memory, PostgreSQL), `AnsweredIsTalliedHolds` (memory) | `ListFacts`: `Recent` picks each trace found once, the latest first, which is shown by induction over the order of creation (`LatestPicks`), and the list is its beginning. `MonitorInv`: no trace is lost between the count and the list except with the monitor itself (`Counted`), tallied and listed traces are apart and together enough (`Looking`), and a record that has a cost is of a FINALIZED trace, as the transitions are filled in last or with an error (`Priced`). State and cost are two looks: `MemoryInv` says that a trace with a cost was not seen FAILED and that no client had its answer before the monitor asked, `CopiesInv` that on PostgreSQL both are of one copy, and that a FINALIZED copy has its cost. For those that were answered `Pointers` and `Remembered`: an answer stands and so does the pointer, and a trace that a list leaves out is older than all that are in it. SQLite lists nothing (a recorded hazard); its metrics are all zero but the total |
| Providers_proofs | `TypeCorrect`, `PricedAsSentHolds`, `RoutedRightHolds`, `StoreFollowsHolds` | `TypeOK`, `Places` (what an administrator's request has in hand), `Fresh` (the configuration a POST makes is nobody's yet) and `Keeps` (an unedited configuration in use is the one that was chosen). Without `Fresh` a POST could write to a configuration in use. `Lookups`: an undisturbed lookup still faces the router it began with, has passed no provider listing the model, and comes to the default only when there is none. `Follows`, for administrators whose requests do not overlap (`InTurn`, a hypothesis on the behaviour): at each place of a request it says by how much the rows lag behind the router (`Stage`), and that no two rows are flagged even there (`OneFlag`), as a process that ends half-way leaves the next one what the rows say. `Columns`: a row holds a price as its column keeps it, so that a row read and written back stays as it is |
| Replay_proofs | `ReplayTypeCorrect`, `ReportHasTracesHolds`, `UnfinishedNeverApprovedHolds`, `CandidatesVerifyHolds` (SQLite), `ReportDescribesTracesHolds` (both stores) | `TypeOK`, `Stored`, `Held` (what a request has read or made, with a final state or no response), `Reported`; for the signatures `Faithful`: a stored candidate is what its request has signed, and what was read back has no empty parameters. The judgement enters by `MissingIsReviewed`: a response beside none is HIGH, and no HIGH is approved, for every distance. For the reports `DInv`: a baseline that was final when it was read is still what the store holds, as a chat writes once more only before it is done (`ChatOver`) and a candidate once; a candidate that was made is the one stored (`Made`); a report whose candidate was saved is the comparison of the two (`Recorded`). What is compared survives the way through either store (`CompareReadBack`) |
| Hooks_proofs | `HooksTypeCorrect`, `ReportsItsOwnHolds`, `TwoWindowsAtMostHolds`, `RefusedForCauseHolds` (`LimiterOnce`) | `TypeOK` and `Undisturbed`: as long as a request has the detector to itself, the shared field is the set of kinds among the matches it has looked at, whatever was there before it came. The second scan adds nothing (`MatchesFact`). `ChainAssumption` lets a chain name the detector once; the configuration could name it twice, which the model leaves out. For the limiter `Windows`: a session's counter holds no fewer than were let through in the window that is open, so a period of a minute, which reaches into two windows, sees two windows' worth. `Refusals`: a full counter is backed by requests let through. That needs a chain to name the limiter once, as a request counts each time the chain does |
| Upstream_proofs, Breaker | `BreakerTypeCorrect`, `OpensForCauseHolds` | `BreakerTypeOK` and `CountsHappened`: neither the breaker's count nor one that a caller has read and is about to write back exceeds the failures there were, and a caller about to open has seen as many as the threshold. Lost updates only make counts smaller, and a success counts as undisturbed only if nobody is about to write back what it resets |
| Standalone_proofs | `RegistryCorrect`, `DependenciesPresentHolds`, `ConflictsByOrderHolds`, `OverlookedForCauseHolds` | `RegistryInv` says of the saved entries what it says of the registered ones, as they come back unasked. `ConfigInv`: unless the last write raced, what is about to be installed is what the file holds, and a manager that waits has it or sees a later time |
| Standalone_proofs, Differ | `DistanceIsLeastHolds`, `BlockedInBandHolds`, `ApprovedIsCloseHolds`, `ScoreInRange` | `DifferInv`: the report is the comparison of the two traces. The work is in the table of `LevenshteinDistance`, by induction on the place of a cell (`NumberInduction`): there is one (`TableExists`), cells beside each other differ by one at most (`TableIsSmooth`), no way to align the texts costs less than its cell (`TableIsLowerBound`: an alignment keeps the last rune of both with each other or leaves one of them alone, `LastOfBoth`) and some way costs just that (`TableIsAttained`). What a recommendation is good for is then arithmetic: no response reaches a score of 70 without being HIGH except in the band, and equal ones are at no distance (`DiagonalIsZero`). The model leaves out the cuts of the score to 0 .. 1, which never act (`ScoreInRange`): a cell is at most the longer text, and a text has no fewer bytes than runes |
| Upstream_proofs, Stream | `StreamTypeCorrect`, `InOrderHolds`, `BreakIsToldHolds`, `LostOnlyInBurstsHolds` | `TypeOK`, `Places`, `Consecutive` (the events in the forwarder's hand, in the channel and in the reader's follow each other, from the one the consumer has to the one last parsed) and `Announced` (the news of a break is under way or has arrived, and is last). For the losses `KeptUp`: without a burst the buffer holds at most the event in work, so that none is skipped. What they say is said of a context that is good; after a cancellation they only say that the events that do arrive are in order |

Only model-checked: liveness (`EveryRequestEnds`, `TraceSettles`,
`EveryReplayEnds`, `OpensWhenDown`, `ClosesWhenUp`, `GoroutinesEnd`,
`EventuallyServed`), which the
provers do not do under fairness. Every invariant and action property of a passing
run is proved, some for the stores or callers that the table names.
`UnfinishedNeverApproved` is proved and has no run of its own, and `MetricsAddUp` is
proved for PostgreSQL too, but run on the memory store, where it is harder.

## Not modelled

- *Formats and I/O*: headers, console, deprecation notices, logging, metrics,
  tracing, migrations, encryption at rest, the load generator; the parsing of
  requests and the pricing of prompts.
- *No production caller*: `circuit_breaker.go`, `sse_decoder.go`, the Ed25519 signer
  and the Merkle tree. (The fault-tolerant client, the stream interceptors and
  `ConfigManager` have none either, but keep state that others share and are
  modelled.)
- *Read only*: the lists of risk reports, traces of a session, statistics per day.
- API keys and authentication: a check of each request against a table, beside
  everything above and without influence on it.
- Of extensions, `Close` and the calls of handlers, none of which keep anything, and
  the lists by capability and version.
- The provider's answer is any of a few; its HTTP status is not looked at by the
  code either (an error body is an answer with an empty text).

## Plan

1. *Done*: budget, streams' budget, trace, monitor, hooks, providers, replay, breaker,
   event streams, registry and configuration, as above, since money, the record of a
   request, shared state of requests, and the chain from trace to report are what the
   gateway is for.
2. *Retention*: the cleaner against chats that write and the monitor that reads,
   once something sets the time it looks for.
3. *Constraints*, *Merkle*: pure algorithms checked against definitions: the
   combination of limits and strategies, proofs of membership.
4. Theorems next: how far the properties go that are proved for some stores or
   callers only (`StoreFollows` for administrators whose requests overlap,
   `NoOverdraft` on Redis, `CandidatesVerify` on PostgreSQL). As they stand they fail
   there, for the reasons under "Disagreements with the documents".

## Running

```
tlc -workers 2 -config ChatBudget_sqlite.cfg MCChatBudget
tlapm Budget_proofs.tla
```

`PROJECT.json` lists components, runs, the mutants that show each property can
fail, the source lines of every definition, findings, hazards and theorems.

------------------------------ MODULE ChatTrace ------------------------------
(***************************************************************************)
(* The trace that POST /v1/chat/completions keeps of a request, and what   *)
(* the trace store shows of it.                                            *)
(*                                                                         *)
(* The handler changes its own copy, the live trace, and writes it to the  *)
(* store at some of its steps, ignoring the result.  The memory store      *)
(* keeps a pointer to the live trace, so it shows every assignment; SQLite *)
(* and PostgreSQL keep the copy of the last write that succeeded.          *)
(***************************************************************************)
EXTENDS TraceState, Naturals, Sequences

CONSTANTS
  Trace,         \* the traces, one for each chat request
  TraceBackend,  \* which trace store is configured
  Strategies,    \* values of the budget strategy header
  NoTrace,       \* the store has no such trace
  Shared,        \* the store has a pointer to the live trace
  TraceFaults    \* what the environment may do

ASSUME TraceBackendAssumption == TraceBackend \in {"memory", "sqlite", "postgres"}
ASSUME StrategyAssumption ==
  Strategies \subseteq {"hard_stop", "degrade_model", "soft_alert"}
ASSUME TraceFaultAssumption == TraceFaults \subseteq {"store", "disconnect", "crash"}

Error == {"none", "PROVIDER_NOT_FOUND", "BUDGET_EXCEEDED", "UPSTREAM_ERROR"}

\* What a trace says, as far as the properties tell traces apart.  transitions
\* is Observations.StateTransitions, a sequence of <<from, to>>.
Transition == (State \union {NotStarted}) \X State

Record ==
  [state : State \union {NotStarted}, transitions : Seq(Transition),
   error : Error, output : BOOLEAN, signed : BOOLEAN]

\* Neither of the two marks of the store can be taken for a trace.
ASSUME MarksAssumption ==
  NoTrace \notin Record /\ Shared \notin Record /\ NoTrace # Shared

NewRecord ==
  [state |-> NotStarted, transitions |-> <<>>, error |-> "none",
   output |-> FALSE, signed |-> FALSE]

VARIABLES
  at,        \* where the handler of each trace is
  live,      \* the handler's copy
  recorder,  \* the transitions recorded so far
  stored,    \* the trace store
  stream,    \* whether the client asked for a stream
  strategy,  \* its budget strategy
  answer,    \* the answer sent to the client
  lastWrite, \* how the last call of the trace store ended
  hungUp     \* the request's context is cancelled

headers == <<stream, strategy>>
tvars == <<at, live, recorder, stored, stream, strategy, answer,
           lastWrite, hungUp>>

InHandler ==
  {"hooks", "decide", "route", "reserve", "call", "validate", "finalize",
   "output", "observe", "reply", "sign"}

TypeOK ==
  /\ at \in [Trace -> {"idle", "done", "lost"} \union InHandler]
  /\ live \in [Trace -> Record]
  /\ recorder \in [Trace -> Seq(Transition)]
  /\ stored \in [Trace -> Record \union {NoTrace, Shared}]
  /\ stream \in [Trace -> BOOLEAN]
  /\ strategy \in [Trace -> Strategies]
  /\ answer \in [Trace -> {"none", "200", "404", "429", "502"}]
  /\ lastWrite \in [Trace -> {"none", "ok", "err"}]
  /\ hungUp \in [Trace -> BOOLEAN]
  /\ \A t \in Trace : Len(recorder[t]) <= 5

Init ==
  /\ at = [t \in Trace |-> "idle"]
  /\ live = [t \in Trace |-> NewRecord]
  /\ recorder = [t \in Trace |-> <<>>]
  /\ stored = [t \in Trace |-> NoTrace]
  /\ stream \in [Trace -> BOOLEAN]
  /\ strategy \in [Trace -> Strategies]
  /\ answer = [t \in Trace |-> "none"]
  /\ lastWrite = [t \in Trace |-> "none"]
  /\ hungUp = [t \in Trace |-> FALSE]

-----------------------------------------------------------------------------
(***************************************************************************)
(* The trace store.                                                        *)
(***************************************************************************)
\* What a reader of the store gets.
View(t) == IF stored[t] = Shared THEN live[t] ELSE stored[t]

\* Save inserts; an update of a trace that is not there is an error, except in
\* SQLite, where Update is Save.
Accepts(t, call) ==
  call = "Save" \/ TraceBackend = "sqlite" \/ stored[t] # NoTrace

MayFail(t) == TraceBackend # "memory" /\ (hungUp[t] \/ "store" \in TraceFaults)

Write(t, call, record) ==
  \/ /\ TraceBackend = "memory" \/ ~hungUp[t]
     /\ Accepts(t, call)
     /\ stored' = [stored EXCEPT ![t] =
                     IF TraceBackend = "memory" THEN Shared ELSE record]
     /\ lastWrite' = [lastWrite EXCEPT ![t] = "ok"]
  \/ /\ MayFail(t) \/ ~Accepts(t, call)
     /\ lastWrite' = [lastWrite EXCEPT ![t] = "err"]
     /\ UNCHANGED stored

NoWrite == UNCHANGED <<stored, lastWrite>>

\* Signing canonicalizes the trace.  The canonicalizer knows these kinds of
\* value; the prompt of a chat is a list of typed messages, which is none of
\* them, and one unknown value anywhere in a trace is an error.
Canonical == {"null", "boolean", "number", "string", "list", "object"}
Signable(kind) == kind \in Canonical

-----------------------------------------------------------------------------
(***************************************************************************)
(* The handler.                                                            *)
(***************************************************************************)
Goto(t, where) == at' = [at EXCEPT ![t] = where]

RecordTransition(t, from, to) ==
  recorder' = [recorder EXCEPT ![t] = Append(@, <<from, to>>)]

\* Record the transition, move the live trace and write it.
Advance(t, call, to) ==
  LET record == [live[t] EXCEPT !.state = to]
  IN  /\ RecordTransition(t, live[t].state, to)
      /\ live' = [live EXCEPT ![t] = record]
      /\ Write(t, call, record)

\* Mutant of Fail: the failed trace is answered and never written.
FailUnwritten(t, error, status) ==
  /\ RecordTransition(t, live[t].state, "FAILED")
  /\ live' = [live EXCEPT ![t].state = "FAILED", ![t].error = error]
  /\ answer' = [answer EXCEPT ![t] = status]
  /\ Goto(t, "done")
  /\ NoWrite

\* The ways out with an error: the trace fails, is written and answered, here
\* in one step; a reader of the memory store may find it FAILED a moment before
\* it finds the error.
Fail(t, error, status) ==
  LET history == Append(recorder[t], <<live[t].state, "FAILED">>)
      record == [live[t] EXCEPT !.state = "FAILED", !.error = error,
                                !.transitions = history]
  IN  /\ recorder' = [recorder EXCEPT ![t] = history]
      /\ live' = [live EXCEPT ![t] = record]
      /\ Write(t, "Update", record)
      /\ answer' = [answer EXCEPT ![t] = status]
      /\ Goto(t, "done")

Receive(t) ==
  /\ at[t] = "idle"
  /\ Advance(t, "Save", "INIT")
  /\ Goto(t, "hooks")
  /\ UNCHANGED <<headers, answer, hungUp>>

\* Whatever the PreExecute hooks return, the request goes on.
PreExecute(t) ==
  /\ at[t] = "hooks"
  /\ Advance(t, "Update", "CONSTRAINT_EVAL")
  /\ Goto(t, "decide")
  /\ UNCHANGED <<headers, answer, hungUp>>

\* CheckBudget: a limit is exceeded from a thousandth above it.
OverBudget(limitUSD, costUSD) == limitUSD > 0 /\ 1000 * costUSD >= 1001 * limitUSD

\* The evaluator is told that the request has cost nothing so far, so that it
\* blocks no request whatever its limit.
CurrentCost == 0

\* The decision of the evaluator; privacy and reproducibility are noted only.
Evaluate(budgetStrategy) ==
  IF ~OverBudget(1, CurrentCost) \/ budgetStrategy = "soft_alert" THEN "allow"
  ELSE IF budgetStrategy = "degrade_model" THEN "degrade" ELSE "block"

\* A decision to degrade is noted in the trace as well, and the model is kept.
Decide(t) ==
  /\ at[t] = "decide"
  /\ IF Evaluate(strategy[t]) = "block"
     THEN Fail(t, "BUDGET_EXCEEDED", "429")
     ELSE /\ Advance(t, "Update", "EXECUTING")
          /\ Goto(t, "route")
          /\ UNCHANGED answer
  /\ UNCHANGED <<headers, hungUp>>

Route(t) ==
  /\ at[t] = "route"
  /\ Goto(t, "reserve")
  /\ UNCHANGED <<live, recorder, headers, answer, hungUp>>
  /\ NoWrite

NoProvider(t) ==
  /\ at[t] = "route"
  /\ Fail(t, "PROVIDER_NOT_FOUND", "404")
  /\ UNCHANGED <<headers, hungUp>>

Reserve(t) ==
  /\ at[t] = "reserve"
  /\ Goto(t, "call")
  /\ UNCHANGED <<live, recorder, headers, answer, hungUp>>
  /\ NoWrite

\* The budget store refuses; the strategy of the request is not looked at.
NoBudget(t) ==
  /\ at[t] = "reserve"
  /\ Fail(t, "BUDGET_EXCEEDED", "429")
  /\ UNCHANGED <<headers, hungUp>>

\* Once a stream has begun its end is an answer, even if it ends because the
\* client has hung up: parseStreamResponse does not ask why.
UpstreamReplies(t) ==
  /\ at[t] = "call"
  /\ hungUp[t] => stream[t]
  /\ Goto(t, "validate")
  /\ UNCHANGED <<live, recorder, headers, answer, hungUp>>
  /\ NoWrite

\* Mutant of UpstreamFails: it answers and leaves the trace as it is.
UpstreamFailsQuietly(t) ==
  /\ at[t] = "call"
  /\ answer' = [answer EXCEPT ![t] = "502"]
  /\ Goto(t, "done")
  /\ UNCHANGED <<live, recorder, headers, hungUp>>
  /\ NoWrite

UpstreamFails(t) ==
  /\ at[t] = "call"
  /\ Fail(t, "UPSTREAM_ERROR", "502")
  /\ UNCHANGED <<headers, hungUp>>

\* Mutant of Validate: the state is passed through without being recorded.
ValidateUnrecorded(t) ==
  /\ at[t] = "validate"
  /\ Goto(t, "finalize")
  /\ UNCHANGED <<live, recorder, headers, answer, hungUp>>
  /\ NoWrite

\* The four assignments that finish a trace; only the memory store shows them
\* one by one.
Validate(t) ==
  /\ at[t] = "validate"
  /\ RecordTransition(t, live[t].state, "VALIDATION")
  /\ Goto(t, "finalize")
  /\ UNCHANGED <<live, headers, answer, hungUp>>
  /\ NoWrite

Finalize(t) ==
  /\ at[t] = "finalize"
  /\ RecordTransition(t, "VALIDATION", "FINALIZED")
  /\ live' = [live EXCEPT ![t].state = "FINALIZED"]
  /\ Goto(t, "output")
  /\ UNCHANGED <<headers, answer, hungUp>>
  /\ NoWrite

SetOutput(t) ==
  /\ at[t] = "output"
  /\ live' = [live EXCEPT ![t].output = TRUE]
  /\ Goto(t, "observe")
  /\ UNCHANGED <<recorder, headers, answer, hungUp>>
  /\ NoWrite

\* Mutant of Observe: the transitions are applied, then replaced.
ObserveLast(t) ==
  /\ at[t] = "observe"
  /\ live' = [live EXCEPT ![t] = [@ EXCEPT !.error = "none", !.transitions = <<>>]]
  /\ Goto(t, "reply")
  /\ UNCHANGED <<recorder, headers, answer, hungUp>>
  /\ NoWrite

\* trace.Observations is replaced as a whole.
Observe(t) ==
  /\ at[t] = "observe"
  /\ live' = [live EXCEPT ![t] =
                [@ EXCEPT !.error = "none", !.transitions = recorder[t]]]
  /\ Goto(t, "reply")
  /\ UNCHANGED <<recorder, headers, answer, hungUp>>
  /\ NoWrite

Reply(t) ==
  /\ at[t] = "reply" /\ ~stream[t]
  /\ answer' = [answer EXCEPT ![t] = "200"]
  /\ Goto(t, "sign")
  /\ UNCHANGED <<live, recorder, headers, hungUp>>
  /\ NoWrite

\* The provider's answer is complete by now; handleStreamingResponse sends it
\* in one chunk, and the handler returns without signing or storing the trace.
ReplyStream(t) ==
  /\ at[t] = "reply" /\ stream[t]
  /\ answer' = [answer EXCEPT ![t] = "200"]
  /\ Goto(t, "done")
  /\ UNCHANGED <<live, recorder, headers, hungUp>>
  /\ NoWrite

\* Mutant of SignAndStore: a trace that cannot be signed fails.
SignOrFail(t) ==
  LET record == [live[t] EXCEPT !.state = IF Signable("messages") THEN @ ELSE "FAILED"]
  IN  /\ at[t] = "sign"
      /\ live' = [live EXCEPT ![t] = record]
      /\ Write(t, "Update", record)
      /\ Goto(t, "done")
      /\ UNCHANGED <<recorder, headers, answer, hungUp>>

SignAndStore(t) ==
  LET record == [live[t] EXCEPT !.signed = Signable("messages")]
  IN  /\ at[t] = "sign"
      /\ live' = [live EXCEPT ![t] = record]
      /\ Write(t, "Update", record)
      /\ Goto(t, "done")
      /\ UNCHANGED <<recorder, headers, answer, hungUp>>

-----------------------------------------------------------------------------
HangUp(t) ==
  /\ "disconnect" \in TraceFaults
  /\ at[t] \in InHandler
  /\ ~hungUp[t]
  /\ hungUp' = [hungUp EXCEPT ![t] = TRUE]
  /\ UNCHANGED <<at, live, recorder, stored, headers, answer, lastWrite>>

\* The process ends; SQLite and PostgreSQL keep what they have.
Crash ==
  /\ "crash" \in TraceFaults
  /\ \E t \in Trace : at[t] \in InHandler
  /\ at' = [t \in Trace |-> IF at[t] \in InHandler THEN "lost" ELSE at[t]]
  /\ stored' = [t \in Trace |-> IF stored[t] = Shared THEN NoTrace ELSE stored[t]]
  /\ UNCHANGED <<live, recorder, headers, answer, lastWrite, hungUp>>

Handle(t) ==
  \/ PreExecute(t) \/ Decide(t)
  \/ Route(t) \/ NoProvider(t)
  \/ Reserve(t) \/ NoBudget(t)
  \/ UpstreamReplies(t) \/ UpstreamFails(t)
  \/ Validate(t) \/ Finalize(t) \/ SetOutput(t) \/ Observe(t)
  \/ Reply(t) \/ ReplyStream(t) \/ SignAndStore(t)

Next ==
  \/ \E t \in Trace : Receive(t) \/ Handle(t) \/ HangUp(t)
  \/ Crash

Spec == Init /\ [][Next]_tvars

\* The goroutine of a request runs on; the provider has a minute to answer.
FairSpec == Spec /\ \A t \in Trace : WF_tvars(Handle(t))

-----------------------------------------------------------------------------
(***************************************************************************)
(* Properties.                                                             *)
(***************************************************************************)
\* The state a trace has gone through last, as its transitions tell it.
RecordedState ==
  [t \in Trace |-> IF Len(recorder[t]) = 0 THEN NotStarted
                   ELSE recorder[t][Len(recorder[t])][2]]

Lifecycle == INSTANCE TraceLifecycle WITH state <- RecordedState

\* The handler never asks CanTransitionTo, yet the transitions it records
\* (RecordTransition, some from a state it names and some from the state of the
\* trace) are the moves the domain allows, one at a time and from INIT on.
FollowsLifecycle == Lifecycle!LifecycleSpec

\* The transitions of a record start at INIT, join up, and end in its state.
ToldInFull(record) ==
  LET path == record.transitions
  IN  /\ path # <<>>
      /\ path[1] = <<NotStarted, "INIT">>
      /\ \A i \in 1 .. Len(path) - 1 : path[i][2] = path[i + 1][1]
      /\ path[Len(path)][2] = record.state

\* A reader that finds a trace FINALIZED or FAILED finds with it the whole path
\* that led there and the output or the error, although handleChatCompletions
\* fills them in by separate assignments.  (The memory store shows the
\* assignments, so there the handler must have come to the end.)
FinalTraceIsComplete ==
  \A t \in Trace :
    LET found == View(t)
    IN  (/\ found # NoTrace
         /\ found.state \in FinalState
         /\ stored[t] = Shared => at[t] = "done")
        => /\ ToldInFull(found)
           /\ found.state = "FINALIZED" => found.output /\ found.error = "none"
           /\ found.state = "FAILED" => found.error # "none" /\ ~found.output

\* What the client was told and what the store shows do not contradict each
\* other: an error is never answered for a FINALIZED trace, nor 200 for a FAILED
\* one; and if the last write of the handler succeeded they agree, except for
\* a stream, which is not written again once it has its answer.
AnswerMatchesTrace ==
  \A t \in Trace :
    LET found == View(t)
        refused == answer[t] \in {"404", "429", "502"}
    IN  found # NoTrace =>
          /\ refused => found.state # "FINALIZED"
          /\ answer[t] = "200" => found.state # "FAILED"
          /\ (at[t] = "done" /\ lastWrite[t] = "ok") =>
               /\ refused => found.state = "FAILED"
               /\ answer[t] = "200" /\ ~stream[t] => found.state = "FINALIZED"

Rank(s) ==
  CASE s = NotStarted -> 0
    [] s = "INIT" -> 1
    [] s = "CONSTRAINT_EVAL" -> 2
    [] s = "EXECUTING" -> 3
    [] s = "VALIDATION" -> 4
    [] OTHER -> 5

\* Whoever polls a trace never sees its state move back, nor one final state
\* turn into the other, whichever of the handler's assignments it reads
\* between.  A restart may lose a trace of the memory store, nothing else.
StoreNeverGoesBack ==
  [][\A t \in Trace :
       LET before == View(t)
           after == View(t)'
       IN  before # NoTrace =>
             \/ /\ after = NoTrace
                /\ TraceBackend = "memory"
                /\ \E u \in Trace : at[u] # "lost" /\ at'[u] = "lost"
             \/ /\ after # NoTrace
                /\ Rank(before.state) <= Rank(after.state)
                /\ before.state \in FinalState => after.state = before.state]_tvars

\* Every trace that was opened ends in a final state of the store, whatever
\* fails, unless the process ended, the last write failed, or its client asked
\* for a stream and the store keeps copies.
TraceSettles ==
  \A t \in Trace :
    (at[t] = "hooks") ~>
      \/ at[t] = "lost"
      \/ /\ at[t] = "done"
         /\ \/ lastWrite[t] = "err"
            \/ stream[t] /\ TraceBackend # "memory"
            \/ View(t) # NoTrace /\ View(t).state \in FinalState
=============================================================================

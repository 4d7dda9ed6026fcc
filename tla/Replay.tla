------------------------------- MODULE Replay -------------------------------
(***************************************************************************)
(* POST /v1/replay-eval beside the chats whose traces it replays, on trace  *)
(* and report stores that keep copies: SQLite or PostgreSQL.                *)
(*                                                                         *)
(* The handler reads the baseline, asks a provider again, signs and saves   *)
(* the answer as a candidate trace, compares the two and saves the report.  *)
(* Errors of both saves are logged, and 200 is answered all the same.  A    *)
(* candidate may be replayed in its turn.                                   *)
(***************************************************************************)
EXTENDS RiskComparison

CONSTANTS
  Chat,          \* chat requests
  Eval,          \* requests to replay
  Model,         \* the models they may name
  Routable,      \* the models some provider can be found for
  Answers,       \* what a provider may answer
  Overrides,     \* the parameters a request may bring
  Wishes,        \* the models and parameters that are asked for together
  ReplayBackend, \* the stores of traces and of reports
  ReplayFaults,  \* what the environment may do
  None           \* no trace, parent, session, model or signature

ASSUME ReplayBackendAssumption == ReplayBackend \in {"sqlite", "postgres"}
ASSUME ReplayFaultAssumption == ReplayFaults \subseteq {"store", "upstream", "crash"}
ASSUME ReplayNamesAssumption ==
  /\ Chat \intersect Eval = {} /\ None \notin Chat \union Eval \union Model
  /\ Routable \subseteq Model
  /\ Wishes \subseteq [model : Model \union {None}, params : Overrides \union {NoParams}]
ASSUME AnswerAssumption == \A answer \in Answers : answer.response # NoResponse

\* The trace of a chat and the candidate of a replay are named by the request.
Id == Chat \union Eval

Params == Overrides \union {NoParams}

\* The content of a trace: what its signature is the hash of.  The state of a
\* chat before its end is "EXECUTING" here (ChatTrace has them all), and a
\* time is known to the nanosecond or to the microsecond.
Content ==
  [id : Id, parent : Id \union {None}, session : Id \union {None},
   state : {"EXECUTING", "FINALIZED", "FAILED"}, model : Model, params : Params,
   response : {answer.response : answer \in Answers} \union {NoResponse},
   tokens : {answer.tokens : answer \in Answers} \union {0},
   cost : {answer.tokens : answer \in Answers} \union {0},
   finish : {answer.finish : answer \in Answers} \union {"", "stop"},
   created : {"ns", "us"}]

Trace == [content : Content, signature : Content \union {None}]

Request ==
  {[baseline |-> id, model |-> wish.model, params |-> wish.params] : id \in Id, wish \in Wishes}

\* A trace, a signature or a request is there, or is not.
ASSUME NoneAssumption == None \notin Trace \union Request \union Content

VARIABLES
  traces,     \* the trace store
  reports,    \* the risk report store
  chatAt,     \* where each chat is
  evalAt,     \* where each request to replay is
  asked,      \* what it asks for
  baseline,   \* the trace it has read
  candidate,  \* the trace it has made
  failed,     \* which of its two saves have failed
  status      \* the answer it was given

eval == <<evalAt, asked, baseline, candidate, failed, status>>
rvars == <<traces, reports, chatAt, eval>>

InEval == {"call", "save", "compare"}

TypeOK ==
  /\ traces \in [Id -> Trace \union {None}]
  /\ \A report \in reports : report.baseline \in Id /\ report.candidate \in Eval
  /\ chatAt \in [Chat -> {"idle", "running", "done"}]
  /\ evalAt \in [Eval -> {"idle", "done", "lost"} \union InEval]
  /\ asked \in [Eval -> Request \union {None}]
  /\ baseline \in [Eval -> Trace \union {None}]
  /\ candidate \in [Eval -> Trace \union {None}]
  /\ failed \in [Eval -> SUBSET {"candidate", "report"}]
  /\ status \in [Eval -> {"none", "200", "404", "500"}]
  /\ \A r \in Eval :
       /\ evalAt[r] \in InEval => baseline[r] # None
       /\ evalAt[r] \in {"save", "compare"} => candidate[r] # None

Init ==
  /\ traces = [id \in Id |-> None]
  /\ reports = {}
  /\ chatAt = [c \in Chat |-> "idle"]
  /\ evalAt = [r \in Eval |-> "idle"]
  /\ asked = [r \in Eval |-> None]
  /\ baseline = [r \in Eval |-> None]
  /\ candidate = [r \in Eval |-> None]
  /\ failed = [r \in Eval |-> {}]
  /\ status = [r \in Eval |-> "none"]

-----------------------------------------------------------------------------
(***************************************************************************)
(* The stores.                                                             *)
(***************************************************************************)
\* Parameters {} are left out of the JSON, PostgreSQL's Get scans the session
\* into a variable it drops, and its TIMESTAMP holds microseconds.
AsRead(content) ==
  [content EXCEPT
     !.params = IF @ # NoParams /\ DOMAIN @ = {} THEN NoParams ELSE @,
     !.session = IF ReplayBackend = "postgres" THEN None ELSE @,
     !.created = IF ReplayBackend = "postgres" THEN "us" ELSE @]

Get(id) == [traces[id] EXCEPT !.content = AsRead(@)]

Sign(content) == content

Verify(trace) == Sign(trace.content) = trace.signature

\* A write to the trace store; an update of a trace that is not there is an
\* error on PostgreSQL and an insert on SQLite.
Write(id, content, signature, call) ==
  /\ call = "Save" \/ ReplayBackend = "sqlite" \/ traces[id] # None
  /\ traces' = [traces EXCEPT ![id] = [content |-> content, signature |-> signature]]

WriteFails(id, call) ==
  /\ \/ "store" \in ReplayFaults
     \/ call = "Update" /\ ReplayBackend = "postgres" /\ traces[id] = None
  /\ UNCHANGED traces

\* SQLite keeps one report for each baseline, PostgreSQL one for each pair.
ReportKey(report) ==
  IF ReplayBackend = "sqlite" THEN <<report.baseline>>
  ELSE <<report.baseline, report.candidate>>

(***************************************************************************)
(* What the stores are asked for, as long as they answer.                  *)
(***************************************************************************)
\* /v1/verify?trace_id=... and /v1/traces/{id}/verify: the answer.
VerifyTrace(id) ==
  IF traces[id] = None THEN "404"
  ELSE IF Get(id).signature = None THEN "400"
  ELSE IF Verify(Get(id)) THEN "valid" ELSE "invalid"

\* The report the store has under a key.  The monitor always asks for a
\* trace_id, which on PostgreSQL is the key of no report.
GetReport(key) ==
  IF \E report \in reports : ReportKey(report) = key
  THEN CHOOSE report \in reports : ReportKey(report) = key
  ELSE None

-----------------------------------------------------------------------------
(***************************************************************************)
(* The chat, as far as a replay sees it: no chat is signed (ChatTrace).     *)
(***************************************************************************)
ChatContent(c, state, model, params, response, tokens, finish) ==
  [id |-> c, parent |-> None, session |-> c, state |-> state, model |-> model,
   params |-> params, response |-> response, tokens |-> tokens,
   cost |-> tokens, finish |-> finish, created |-> "ns"]

ChatSaves(c) ==
  /\ chatAt[c] = "idle"
  /\ chatAt' = [chatAt EXCEPT ![c] = "running"]
  /\ \E model \in Model, params \in Params :
       \/ Write(c, ChatContent(c, "EXECUTING", model, params, NoResponse, 0, ""), None, "Save")
       \/ WriteFails(c, "Save")
  /\ UNCHANGED <<reports, eval>>

\* A chat whose Save failed comes back with any model and parameters.
ChatEnds(c) ==
  /\ chatAt[c] = "running"
  /\ chatAt' = [chatAt EXCEPT ![c] = "done"]
  /\ \/ \E model \in Model, params \in Params :
          /\ traces[c] # None => /\ model = traces[c].content.model
                                 /\ params = traces[c].content.params
          /\ \/ \E answer \in Answers :
                  Write(c, ChatContent(c, "FINALIZED", model, params, answer.response,
                                       answer.tokens, answer.finish), None, "Update")
             \/ Write(c, ChatContent(c, "FAILED", model, params, NoResponse, 0, ""), None, "Update")
     \/ WriteFails(c, "Update")
  /\ UNCHANGED <<reports, eval>>

-----------------------------------------------------------------------------
(***************************************************************************)
(* The request to replay.                                                  *)
(***************************************************************************)
Goto(r, where) == evalAt' = [evalAt EXCEPT ![r] = where]

Respond(r, code) == Goto(r, "done") /\ status' = [status EXCEPT ![r] = code]

ModelToUse(request, trace) ==
  IF request.model = None THEN trace.content.model ELSE request.model

\* The baseline is taken in whatever state it is read.
Receive(r, request) ==
  /\ evalAt[r] = "idle"
  /\ asked' = [asked EXCEPT ![r] = request]
  /\ \/ /\ traces[request.baseline] = None \/ "store" \in ReplayFaults
        /\ Respond(r, "404")
        /\ UNCHANGED baseline
     \/ /\ traces[request.baseline] # None
        /\ baseline' = [baseline EXCEPT ![r] = Get(request.baseline)]
        /\ IF ModelToUse(request, Get(request.baseline)) \in Routable
           THEN Goto(r, "call") /\ UNCHANGED status
           ELSE Respond(r, "500")
  /\ UNCHANGED <<traces, reports, chatAt, candidate, failed>>

UpstreamFails(r) ==
  /\ evalAt[r] = "call"
  /\ "upstream" \in ReplayFaults
  /\ Respond(r, "500")
  /\ UNCHANGED <<traces, reports, chatAt, asked, baseline, candidate, failed>>

\* The trace handleReplayEval makes of the answer, before FillDefaults.
Candidate(r, answer) ==
  [id |-> r, parent |-> baseline[r].content.id, session |-> r, state |-> "FINALIZED",
   model |-> ModelToUse(asked[r], baseline[r]),
   params |-> IF asked[r].params # NoParams THEN asked[r].params
              ELSE baseline[r].content.params,
   response |-> answer.response, tokens |-> answer.tokens, cost |-> answer.tokens,
   finish |-> answer.finish, created |-> "ns"]

FillDefaults(content) ==
  [content EXCEPT !.finish = IF @ = "" THEN "stop" ELSE @]

\* Mutant of SignedTrace: the defaults are filled in after signing.
SignedTooEarly(content) ==
  [content |-> FillDefaults(content), signature |-> Sign(content)]

\* The prompt comes from the store, where it is a list of maps, which can be
\* signed, and no longer the typed messages of the chat, which cannot.
SignedTrace(content) ==
  [content |-> FillDefaults(content), signature |-> Sign(FillDefaults(content))]

\* Mutant of UpstreamAnswers: the candidate is compared and never saved.
UpstreamAnswersUnsaved(r) ==
  /\ evalAt[r] = "call"
  /\ \E answer \in Answers :
       candidate' = [candidate EXCEPT ![r] = SignedTrace(Candidate(r, answer))]
  /\ Goto(r, "compare")
  /\ UNCHANGED <<traces, reports, chatAt, asked, baseline, failed, status>>

UpstreamAnswers(r) ==
  /\ evalAt[r] = "call"
  /\ \E answer \in Answers :
       candidate' = [candidate EXCEPT ![r] = SignedTrace(Candidate(r, answer))]
  /\ Goto(r, "save")
  /\ UNCHANGED <<traces, reports, chatAt, asked, baseline, failed, status>>

\* Mutant of SaveCandidate: a candidate that cannot be saved ends the request.
SaveCandidateOrReturn(r) ==
  /\ evalAt[r] = "save"
  /\ \/ /\ Write(r, candidate[r].content, candidate[r].signature, "Save")
        /\ Goto(r, "compare")
        /\ UNCHANGED failed
     \/ /\ WriteFails(r, "Save")
        /\ failed' = [failed EXCEPT ![r] = @ \union {"candidate"}]
        /\ Goto(r, "done")
  /\ UNCHANGED <<reports, chatAt, asked, baseline, candidate, status>>

SaveCandidate(r) ==
  /\ evalAt[r] = "save"
  /\ \/ /\ Write(r, candidate[r].content, candidate[r].signature, "Save")
        /\ UNCHANGED failed
     \/ /\ WriteFails(r, "Save")
        /\ failed' = [failed EXCEPT ![r] = @ \union {"candidate"}]
  /\ Goto(r, "compare")
  /\ UNCHANGED <<reports, chatAt, asked, baseline, candidate, status>>

\* Mutant of Report: the arguments of Compare are swapped.
ReportSwapped(r) ==
  [Compare(candidate[r].content, baseline[r].content) EXCEPT
     !.baseline = baseline[r].content.id, !.candidate = r]

Report(r) == Compare(baseline[r].content, candidate[r].content)

SaveReport(r) ==
  /\ evalAt[r] = "compare"
  /\ \/ /\ reports' = {report \in reports : ReportKey(report) # ReportKey(Report(r))}
                        \union {Report(r)}
        /\ UNCHANGED failed
     \/ /\ "store" \in ReplayFaults
        /\ failed' = [failed EXCEPT ![r] = @ \union {"report"}]
        /\ UNCHANGED reports
  /\ Respond(r, "200")
  /\ UNCHANGED <<traces, chatAt, asked, baseline, candidate>>

\* The process ends; the stores keep what they have.
Crash ==
  /\ "crash" \in ReplayFaults
  /\ \E r \in Eval : evalAt[r] \in InEval
  /\ evalAt' = [r \in Eval |-> IF evalAt[r] \in InEval THEN "lost" ELSE evalAt[r]]
  /\ chatAt' = [c \in Chat |-> IF chatAt[c] = "running" THEN "done" ELSE chatAt[c]]
  /\ UNCHANGED <<traces, reports, asked, baseline, candidate, failed, status>>

Evaluate(r) ==
  UpstreamAnswers(r) \/ UpstreamFails(r) \/ SaveCandidate(r) \/ SaveReport(r)

Next ==
  \/ \E c \in Chat : ChatSaves(c) \/ ChatEnds(c)
  \/ \E r \in Eval : Evaluate(r) \/ \E request \in Request : Receive(r, request)
  \/ Crash

Spec == Init /\ [][Next]_rvars

\* The goroutine of a request runs on; the provider has a minute to answer.
FairSpec == Spec /\ \A r \in Eval : WF_rvars(Evaluate(r))

-----------------------------------------------------------------------------
(***************************************************************************)
(* Properties.                                                             *)
(***************************************************************************)
\* The handler compares the trace it has read with the trace it has made, not
\* with what the store keeps of them.  Still, the report that is found for the
\* key of a stored one says of the two stored traces what a new comparison
\* would say, if the baseline had come to its end when it was read: no later
\* write, failed save or restart, no other replay of the same baseline and no
\* round trip through the store makes it untrue.
ReportDescribesTraces ==
  \A key \in {ReportKey(report) : report \in reports} :
    LET report == GetReport(key)
    IN  (/\ baseline[report.candidate].content.state # "EXECUTING"
         /\ traces[report.candidate] # None)
        => report = Compare(Get(report.baseline).content, Get(report.candidate).content)

\* A report names two traces that are stored, whenever the process ends, unless
\* saving the candidate failed, which only the log tells.
ReportHasTraces ==
  \A report \in reports :
    /\ traces[report.baseline] # None
    /\ traces[report.candidate] # None \/ "candidate" \in failed[report.candidate]

\* Nobody asks whether the chat has come to its end, or well: a replay of a
\* trace without a response, running or failed, is answered 200.  Its report
\* never approves the release, though the response it has is compared with "".
UnfinishedNeverApproved ==
  \A report \in reports :
    baseline[report.candidate].content.state # "FINALIZED"
      => report.recommendation # "APPROVE"

\* Once a candidate is stored /v1/verify calls it valid (E2E-802), whatever its
\* baseline was, unless the request brought empty parameters, which are signed
\* and not stored.
CandidatesVerify ==
  \A r \in Eval :
    traces[r] # None =>
      \/ VerifyTrace(r) = "valid"
      \/ asked[r].params # NoParams /\ DOMAIN asked[r].params = {}

\* Every replay is answered, whatever fails, unless the process ends.
EveryReplayEnds ==
  \A r \in Eval :
    (evalAt[r] = "call") ~> (status[r] # "none" \/ evalAt[r] = "lost")
=============================================================================

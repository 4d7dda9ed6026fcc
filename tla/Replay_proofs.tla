---------------------------- MODULE Replay_proofs ----------------------------
(***************************************************************************)
(* Proofs about Replay for any chats, replays, answers and faults.          *)
(*                                                                         *)
(* ReportHasTraces, UnfinishedNeverApproved and CandidatesVerify are not    *)
(* inductive: they speak of what was saved or judged, and follow from what  *)
(* each request holds on its way there.  Held, Named, Honest and Faithful   *)
(* say that for the names, the responses and the signatures of the traces   *)
(* in the stores and in the requests.                                      *)
(***************************************************************************)
EXTENDS Replay, TLAPS, FiniteSetTheorems

\* A comparison names the traces it is given.
LEMMA CompareNames ==
  ASSUME NEW b, NEW c
  PROVE  Compare(b, c).baseline = b.id /\ Compare(b, c).candidate = c.id
  BY DEF Compare, NewRiskReport

LEMMA FieldsFinite == IsFiniteSet(Fields)
<1>1. IsFiniteSet({"model", "output.response", "observations.tokens_count",
                   "observations.cost_estimated_usd", "output.finish_reason"})
  <2> DEFINE few == {"model", "output.response", "observations.tokens_count",
                     "observations.cost_estimated_usd"}
  <2>1. IsFiniteSet({"model"}) BY FS_Singleton
  <2>2. IsFiniteSet({"model"} \union {"output.response"}) BY <2>1, FS_AddElement
  <2>3. IsFiniteSet({"model"} \union {"output.response"}
                      \union {"observations.tokens_count"}) BY <2>2, FS_AddElement
  <2>4. IsFiniteSet({"model"} \union {"output.response"} \union {"observations.tokens_count"}
                      \union {"observations.cost_estimated_usd"}) BY <2>3, FS_AddElement
  <2>5. IsFiniteSet({"model"} \union {"output.response"} \union {"observations.tokens_count"}
                      \union {"observations.cost_estimated_usd"} \union {"output.finish_reason"})
    BY <2>4, FS_AddElement
  <2>6. {"model"} \union {"output.response"} \union {"observations.tokens_count"}
          \union {"observations.cost_estimated_usd"} \union {"output.finish_reason"}
        = {"model", "output.response", "observations.tokens_count",
           "observations.cost_estimated_usd", "output.finish_reason"}
    OBVIOUS
  <2> QED BY <2>5, <2>6
<1> QED BY <1>1, ParamAssumption, FS_Union DEF Fields

\* A response beside none is of HIGH risk, whatever else differs, and no
\* HIGH risk is approved.
LEMMA MissingIsReviewed ==
  ASSUME NEW b, NEW c, b.response = NoResponse, c.response # NoResponse
  PROVE  Compare(b, c).recommendation # "APPROVE"
<1> DEFINE distance == LevenshteinDistance(Text(b), Text(c))
           longest == MaxLen(Text(b), Text(c))
           modelChanged == b.model # c.model
           risks == FieldRisks(b, c, distance, longest)
           score == CalculateRiskScore(distance, longest, modelChanged)
           highRisks == Cardinality(FieldsAt(risks, "HIGH"))
           mediumRisks == Cardinality(FieldsAt(risks, "MEDIUM"))
<1>1. Compare(b, c).recommendation
      = DetermineRecommendation(score, modelChanged, highRisks, mediumRisks)
  BY DEF Compare, NewRiskReport
<1>2. ResponseRisk(b, c, distance, longest) = "HIGH"
  BY DEF ResponseRisk, Text
<1>3. "output.response" \in FieldsAt(risks, "HIGH")
  BY <1>2 DEF FieldsAt, FieldRisks, Fields
<1>4. highRisks \in Nat \ {0}
  <2>1. IsFiniteSet(FieldsAt(risks, "HIGH"))
    BY FieldsFinite, FS_Subset DEF FieldsAt
  <2> QED BY <2>1, <1>3, FS_CardinalityType, FS_EmptySet
<1> HIDE DEF score, modelChanged, highRisks, mediumRisks
<1> QED BY <1>1, <1>4 DEF DetermineRecommendation

-----------------------------------------------------------------------------
(***************************************************************************)
(* What a round trip through the store keeps.                              *)
(***************************************************************************)
Kept(params) == params = NoParams \/ DOMAIN params # {}

LEMMA ReadBack ==
  ASSUME NEW content \in Content
  PROVE  /\ AsRead(content) \in Content
         /\ AsRead(content).id = content.id
         /\ AsRead(content).state = content.state
         /\ AsRead(content).model = content.model
         /\ AsRead(content).response = content.response
<1> DEFINE params == IF content.params # NoParams /\ DOMAIN content.params = {}
                     THEN NoParams ELSE content.params
           session == IF ReplayBackend = "postgres" THEN None ELSE content.session
           created == IF ReplayBackend = "postgres" THEN "us" ELSE content.created
<1>1. AsRead(content) = [content EXCEPT !.params = params, !.session = session,
                                        !.created = created]
  BY DEF AsRead
<1>2. /\ params \in Params
      /\ session \in Id \union {None}
      /\ created \in {"ns", "us"}
  BY DEF Content, Params
<1> HIDE DEF params, session, created
<1> QED BY <1>1, <1>2 DEF Content

LEMMA ReadBackSQLite ==
  ASSUME NEW content \in Content, ReplayBackend = "sqlite"
  PROVE  /\ Kept(AsRead(content).params)
         /\ Kept(content.params) => AsRead(content) = content
<1>1. Kept(AsRead(content).params)
  BY DEF AsRead, Content, Kept
<1>2. ASSUME Kept(content.params) PROVE AsRead(content) = content
  BY <1>2 DEF AsRead, Content, Kept
<1> QED BY <1>1, <1>2

LEMMA GetType ==
  ASSUME TypeOK, NEW id \in Id, traces[id] # None
  PROVE  /\ traces[id] \in Trace /\ Get(id) \in Trace
         /\ Get(id).content = AsRead(traces[id].content)
         /\ Get(id).signature = traces[id].signature
<1>1. traces[id] \in Trace BY DEF TypeOK
<1>2. AsRead(traces[id].content) \in Content BY <1>1, ReadBack DEF Trace
<1> QED BY <1>1, <1>2 DEF Get, Trace

LEMMA CandidateType ==
  ASSUME TypeOK, NEW r \in Eval, NEW answer \in Answers,
         baseline[r] # None, asked[r] # None,
         ModelToUse(asked[r], baseline[r]) \in Model
  PROVE  /\ FillDefaults(Candidate(r, answer)) \in Content
         /\ FillDefaults(Candidate(r, answer)).id = r
         /\ FillDefaults(Candidate(r, answer)).state = "FINALIZED"
         /\ FillDefaults(Candidate(r, answer)).response # NoResponse
         /\ FillDefaults(Candidate(r, answer)).params
              = IF asked[r].params # NoParams THEN asked[r].params
                ELSE baseline[r].content.params
<1>1. baseline[r] \in Trace /\ asked[r] \in Request BY DEF TypeOK
<1>2. /\ baseline[r].content.id \in Id
      /\ baseline[r].content.params \in Params
      /\ asked[r].params \in Params
  <2>1. baseline[r].content \in Content BY <1>1 DEF Trace
  <2>2. asked[r].params \in Params
    BY <1>1, ReplayNamesAssumption DEF Request, Params
  <2> QED BY <2>1, <2>2 DEF Content
<1>3. answer.response # NoResponse BY AnswerAssumption
<1> DEFINE content == Candidate(r, answer)
<1>4. content \in Content
  BY <1>2 DEF Candidate, Content, Id
<1>5. FillDefaults(content) \in Content
  <2> HIDE DEF content
  <2>1. content.finish \in {a.finish : a \in Answers} \union {"", "stop"}
    BY <1>4 DEF Content
  <2>2. \E finish \in {a.finish : a \in Answers} \union {"", "stop"} :
          FillDefaults(content) = [content EXCEPT !.finish = finish]
    BY <2>1 DEF FillDefaults
  <2> QED BY <1>4, <2>2 DEF Content
<1>6. /\ FillDefaults(content).id = content.id
      /\ FillDefaults(content).state = content.state
      /\ FillDefaults(content).response = content.response
      /\ FillDefaults(content).params = content.params
  BY <1>4 DEF FillDefaults, Content
<1> QED BY <1>3, <1>5, <1>6 DEF Candidate

-----------------------------------------------------------------------------
(***************************************************************************)
(* The inductive invariant.                                                *)
(***************************************************************************)
\* A trace that is not final has no response.
Honest(content) == content.state # "FINALIZED" => content.response = NoResponse

Stored ==
  \A id \in Id :
    traces[id] # None => traces[id].content.id = id /\ Honest(traces[id].content)

\* What a request has in its hands on its way to the report.
Held(r) ==
  /\ evalAt[r] \in InEval => asked[r] # None
  /\ evalAt[r] = "call" => ModelToUse(asked[r], baseline[r]) \in Routable
  /\ baseline[r] # None => /\ traces[baseline[r].content.id] # None
                           /\ Honest(baseline[r].content)
  /\ candidate[r] # None => /\ candidate[r].content.id = r
                            /\ candidate[r].content.state = "FINALIZED"
                            /\ candidate[r].content.response # NoResponse
  /\ evalAt[r] = "compare" => traces[r] # None \/ "candidate" \in failed[r]

\* A report is written once, at the end, and judged right.
Reported ==
  /\ \A report \in reports : evalAt[report.candidate] = "done"
  /\ ReportHasTraces
  /\ UnfinishedNeverApproved

IInv == TypeOK /\ Stored /\ (\A r \in Eval : Held(r)) /\ Reported

LEMMA BaselineType ==
  ASSUME TypeOK, NEW r \in Eval, baseline[r] # None
  PROVE  baseline[r] \in Trace /\ baseline[r].content.id \in Id
<1>1. baseline[r] \in Trace BY DEF TypeOK
<1>2. baseline[r].content \in Content BY <1>1 DEF Trace
<1> QED BY <1>1, <1>2 DEF Content

LEMMA InitIInv == Init => IInv
  BY DEF Init, IInv, TypeOK, Stored, Held, Reported, ReportHasTraces,
         UnfinishedNeverApproved, InEval, Id

\* A write puts a trace where it is told to, and takes none away.
LEMMA WriteKeeps ==
  ASSUME TypeOK, Stored, NEW id \in Id, NEW content \in Content, content.id = id,
         Honest(content), NEW signature \in Content \union {None}, NEW call,
         Write(id, content, signature, call)
  PROVE  /\ traces' \in [Id -> Trace \union {None}]
         /\ Stored'
         /\ \A i \in Id : traces[i] # None => traces'[i] # None
         /\ traces'[id] # None
<1> DEFINE new == [content |-> content, signature |-> signature]
<1>1. traces' = [traces EXCEPT ![id] = new] BY DEF Write
<1>2. new \in Trace /\ new # None /\ new.content = content
  BY NoneAssumption DEF Trace
<1> HIDE DEF new
<1>3. traces \in [Id -> Trace \union {None}] BY DEF TypeOK
<1>4. Stored'
  BY <1>1, <1>2, <1>3 DEF Stored, Honest
<1> QED BY <1>1, <1>2, <1>3, <1>4

\* A step of the store alone leaves every request and report as it is.
LEMMA StoreStep ==
  ASSUME IInv, UNCHANGED <<reports, eval>>,
         chatAt' \in [Chat -> {"idle", "running", "done"}],
         traces' \in [Id -> Trace \union {None}], Stored',
         \A id \in Id : traces[id] # None => traces'[id] # None
  PROVE  IInv'
<1>1. TypeOK' BY DEF IInv, TypeOK, eval
<1>2. ASSUME NEW r \in Eval PROVE Held(r)'
  <2>1. baseline[r] # None => baseline[r].content.id \in Id
    BY BaselineType DEF IInv
  <2>2. r \in Id BY DEF Id
  <2> QED BY <2>1, <2>2 DEF IInv, Held, eval, ModelToUse
<1>3. Reported'
  <2>1. \A report \in reports : report.baseline \in Id /\ report.candidate \in Id
    BY DEF IInv, TypeOK, Id
  <2> QED BY <2>1 DEF IInv, Reported, ReportHasTraces, UnfinishedNeverApproved, eval
<1> QED BY <1>1, <1>2, <1>3 DEF IInv

LEMMA ChatContentType ==
  ASSUME NEW c \in Chat, NEW state \in {"EXECUTING", "FAILED"}, NEW model \in Model,
         NEW params \in Params
  PROVE  /\ ChatContent(c, state, model, params, NoResponse, 0, "") \in Content
         /\ ChatContent(c, state, model, params, NoResponse, 0, "").id = c
         /\ Honest(ChatContent(c, state, model, params, NoResponse, 0, ""))
  BY DEF ChatContent, Content, Honest, Id

LEMMA FinalContentType ==
  ASSUME NEW c \in Chat, NEW model \in Model, NEW params \in Params, NEW answer \in Answers
  PROVE  LET content == ChatContent(c, "FINALIZED", model, params, answer.response,
                                    answer.tokens, answer.finish)
         IN  content \in Content /\ content.id = c /\ Honest(content)
  BY DEF ChatContent, Content, Honest, Id

LEMMA ChatSavesKeeps == ASSUME IInv, NEW c \in Chat, ChatSaves(c) PROVE IInv'
<1>1. chatAt' \in [Chat -> {"idle", "running", "done"}]
  BY DEF IInv, TypeOK, ChatSaves
<1>2. CASE \E model \in Model, params \in Params :
             Write(c, ChatContent(c, "EXECUTING", model, params, NoResponse, 0, ""), None, "Save")
  <2>1. PICK model \in Model, params \in Params :
          Write(c, ChatContent(c, "EXECUTING", model, params, NoResponse, 0, ""), None, "Save")
    BY <1>2
  <2>2. TypeOK /\ Stored /\ c \in Id BY DEF IInv, Id
  <2> DEFINE content == ChatContent(c, "EXECUTING", model, params, NoResponse, 0, "")
  <2>3. content \in Content /\ content.id = c /\ Honest(content)
    BY ChatContentType
  <2> HIDE DEF content
  <2>4. /\ traces' \in [Id -> Trace \union {None}]
        /\ Stored'
        /\ \A i \in Id : traces[i] # None => traces'[i] # None
    BY <2>1, <2>2, <2>3, WriteKeeps DEF content
  <2> QED BY <1>1, <2>4, StoreStep DEF ChatSaves
<1>3. CASE UNCHANGED traces
  BY <1>1, <1>3, StoreStep DEF IInv, TypeOK, Stored, ChatSaves
<1> QED BY <1>2, <1>3 DEF ChatSaves, WriteFails

LEMMA ChatEndsKeeps == ASSUME IInv, NEW c \in Chat, ChatEnds(c) PROVE IInv'
<1>1. chatAt' \in [Chat -> {"idle", "running", "done"}]
  BY DEF IInv, TypeOK, ChatEnds
<1>2. TypeOK /\ Stored /\ c \in Id BY DEF IInv, Id
<1>3. ASSUME NEW content \in Content, content.id = c, Honest(content),
             Write(c, content, None, "Update")
      PROVE  IInv'
  <2>1. /\ traces' \in [Id -> Trace \union {None}]
        /\ Stored'
        /\ \A i \in Id : traces[i] # None => traces'[i] # None
    BY <1>2, <1>3, WriteKeeps
  <2> QED BY <1>1, <2>1, StoreStep DEF ChatEnds
<1>4. CASE \E model \in Model, params \in Params, answer \in Answers :
             Write(c, ChatContent(c, "FINALIZED", model, params, answer.response,
                                  answer.tokens, answer.finish), None, "Update")
  BY <1>3, <1>4, FinalContentType
<1>5. CASE \E model \in Model, params \in Params :
             Write(c, ChatContent(c, "FAILED", model, params, NoResponse, 0, ""), None, "Update")
  BY <1>3, <1>5, ChatContentType
<1>6. CASE UNCHANGED traces
  BY <1>1, <1>6, StoreStep DEF IInv, TypeOK, Stored, ChatEnds
<1> QED BY <1>4, <1>5, <1>6 DEF ChatEnds, WriteFails

-----------------------------------------------------------------------------
(***************************************************************************)
(* One step of a request to replay touches that request alone.             *)
(***************************************************************************)
LEMMA RequestStep ==
  ASSUME IInv, NEW r \in Eval, evalAt[r] # "done", TypeOK', Stored', Held(r)',
         \A s \in Eval \ {r} :
           /\ evalAt'[s] = evalAt[s] /\ asked'[s] = asked[s] /\ baseline'[s] = baseline[s]
           /\ candidate'[s] = candidate[s] /\ failed'[s] = failed[s],
         \A id \in Id : traces[id] # None => traces'[id] # None,
         \A report \in reports' \ reports :
           /\ report.candidate = r /\ evalAt'[r] = "done"
           /\ traces'[report.baseline] # None
           /\ traces'[r] # None \/ "candidate" \in failed'[r]
           /\ baseline'[r].content.state # "FINALIZED" => report.recommendation # "APPROVE"
  PROVE  IInv'
<1>1. ASSUME NEW s \in Eval \ {r} PROVE Held(s)'
  <2>1. baseline[s] # None => baseline[s].content.id \in Id
    BY BaselineType DEF IInv
  <2>2. s \in Id BY DEF Id
  <2> QED BY <2>1, <2>2 DEF IInv, Held, ModelToUse
<1>2. ASSUME NEW report \in reports'
      PROVE  /\ evalAt'[report.candidate] = "done"
             /\ traces'[report.baseline] # None
             /\ traces'[report.candidate] # None
                \/ "candidate" \in failed'[report.candidate]
             /\ baseline'[report.candidate].content.state # "FINALIZED"
                  => report.recommendation # "APPROVE"
  <2>1. CASE report \in reports
    <3>1. /\ report.baseline \in Id /\ report.candidate \in Eval
          /\ evalAt[report.candidate] = "done"
      BY <2>1 DEF IInv, TypeOK, Reported
    <3>2. /\ report.candidate \in Eval \ {r} /\ report.candidate \in Id
      BY <3>1 DEF Id
    <3> QED BY <2>1, <3>1, <3>2
            DEF IInv, Reported, ReportHasTraces, UnfinishedNeverApproved
  <2>2. CASE report \notin reports
    BY <2>2
  <2> QED BY <2>1, <2>2
<1>3. Reported'
  BY <1>2 DEF Reported, ReportHasTraces, UnfinishedNeverApproved
<1> QED BY <1>1, <1>3 DEF IInv

LEMMA ReceiveKeeps ==
  ASSUME IInv, NEW r \in Eval, NEW request \in Request, Receive(r, request)
  PROVE  IInv'
<1> DEFINE id == request.baseline
<1>1. TypeOK /\ id \in Id /\ request # None
  BY NoneAssumption DEF IInv, Request
<1>2. /\ evalAt[r] = "idle" /\ asked' = [asked EXCEPT ![r] = request]
      /\ UNCHANGED <<traces, reports, chatAt, candidate, failed>>
  BY DEF Receive
<1>3. /\ candidate[r] # None => /\ candidate[r].content.id = r
                                /\ candidate[r].content.state = "FINALIZED"
                                /\ candidate[r].content.response # NoResponse
      /\ Stored' /\ Held(r)
  BY <1>2 DEF IInv, Held, Stored
<1>4. ASSUME traces[id] # None
      PROVE  /\ Get(id) \in Trace /\ Get(id) # None
             /\ Get(id).content.id = id /\ Honest(Get(id).content)
  <2>1. /\ traces[id].content \in Content
        /\ Get(id) \in Trace
        /\ Get(id).content = AsRead(traces[id].content)
    BY <1>1, <1>4, GetType DEF Trace
  <2>2. traces[id].content.id = id /\ Honest(traces[id].content)
    BY <1>1, <1>4 DEF IInv, Stored
  <2> QED BY <2>1, <2>2, ReadBack, NoneAssumption DEF Honest
<1>5. ASSUME NEW code \in {"404", "500"}, Respond(r, code),
             baseline' = baseline \/ (/\ traces[id] # None
                                      /\ baseline' = [baseline EXCEPT ![r] = Get(id)])
      PROVE  IInv'
  <2>1. evalAt' = [evalAt EXCEPT ![r] = "done"] /\ status' = [status EXCEPT ![r] = code]
    BY <1>5 DEF Respond, Goto
  <2>2. TypeOK'
    BY <1>1, <1>2, <1>4, <1>5, <2>1 DEF TypeOK, InEval
  <2>3. Held(r)'
    BY <1>1, <1>2, <1>3, <1>4, <1>5, <2>1 DEF TypeOK, Held, InEval
  <2> QED BY <1>1, <1>2, <1>3, <1>5, <2>1, <2>2, <2>3, RequestStep DEF TypeOK
<1>6. ASSUME traces[id] # None, baseline' = [baseline EXCEPT ![r] = Get(id)],
             ModelToUse(request, Get(id)) \in Routable,
             Goto(r, "call"), UNCHANGED status
      PROVE  IInv'
  <2>1. evalAt' = [evalAt EXCEPT ![r] = "call"]
    BY <1>6 DEF Goto
  <2>2. TypeOK'
    BY <1>1, <1>2, <1>4, <1>6, <2>1 DEF TypeOK, InEval
  <2>3. asked'[r] = request /\ baseline'[r] = Get(id) /\ evalAt'[r] = "call"
    BY <1>1, <1>2, <1>6, <2>1 DEF TypeOK
  <2>4. ModelToUse(asked[r], baseline[r])' \in Routable
    BY <1>6, <2>3 DEF ModelToUse
  <2>5. Held(r)'
    BY <1>1, <1>2, <1>3, <1>4, <1>6, <2>3, <2>4 DEF Held, InEval
  <2> QED BY <1>1, <1>2, <1>3, <1>6, <2>1, <2>2, <2>5, RequestStep DEF TypeOK
<1>7. \/ \E code \in {"404", "500"} :
           /\ Respond(r, code)
           /\ baseline' = baseline \/ (/\ traces[id] # None
                                       /\ baseline' = [baseline EXCEPT ![r] = Get(id)])
      \/ /\ traces[id] # None /\ baseline' = [baseline EXCEPT ![r] = Get(id)]
         /\ ModelToUse(request, Get(id)) \in Routable
         /\ Goto(r, "call") /\ UNCHANGED status
  BY Zenon DEF Receive
<1> QED BY <1>5, <1>6, <1>7

LEMMA UpstreamFailsKeeps == ASSUME IInv, NEW r \in Eval, UpstreamFails(r) PROVE IInv'
<1>1. /\ evalAt[r] = "call"
      /\ evalAt' = [evalAt EXCEPT ![r] = "done"]
      /\ status' = [status EXCEPT ![r] = "500"]
      /\ UNCHANGED <<traces, reports, chatAt, asked, baseline, candidate, failed>>
  BY DEF UpstreamFails, Respond, Goto
<1>2. TypeOK /\ Held(r) BY DEF IInv
<1>3. TypeOK' BY <1>1, <1>2 DEF TypeOK, InEval
<1>4. Held(r)' /\ Stored'
  BY <1>1, <1>2 DEF Held, InEval, TypeOK, IInv, Stored
<1> QED BY <1>1, <1>2, <1>3, <1>4, RequestStep DEF TypeOK

LEMMA UpstreamAnswersKeeps ==
  ASSUME IInv, NEW r \in Eval, UpstreamAnswers(r) PROVE IInv'
<1>1. /\ evalAt[r] = "call"
      /\ evalAt' = [evalAt EXCEPT ![r] = "save"]
      /\ UNCHANGED <<traces, reports, chatAt, asked, baseline, failed, status>>
  BY DEF UpstreamAnswers, Goto
<1>2. PICK answer \in Answers :
        candidate' = [candidate EXCEPT ![r] = SignedTrace(Candidate(r, answer))]
  BY DEF UpstreamAnswers
<1>3. /\ TypeOK /\ Held(r) /\ baseline[r] # None /\ asked[r] # None
      /\ ModelToUse(asked[r], baseline[r]) \in Model
  BY <1>1, ReplayNamesAssumption DEF IInv, TypeOK, Held, InEval
<1> DEFINE content == FillDefaults(Candidate(r, answer))
<1>4. /\ content \in Content /\ content.id = r
      /\ content.state = "FINALIZED" /\ content.response # NoResponse
  BY <1>3, CandidateType
<1> HIDE DEF content
<1>5. candidate' = [candidate EXCEPT ![r] = [content |-> content, signature |-> content]]
  BY <1>2 DEF content, SignedTrace, Sign
<1>6. [content |-> content, signature |-> content] \in Trace
  BY <1>4 DEF Trace
<1>7. TypeOK' BY <1>1, <1>3, <1>5, <1>6, NoneAssumption DEF TypeOK, InEval
<1>8. candidate'[r] = [content |-> content, signature |-> content]
  BY <1>3, <1>5 DEF TypeOK
<1>9. evalAt'[r] = "save" BY <1>1, <1>3 DEF TypeOK
<1>10. Held(r)' /\ Stored'
  BY <1>1, <1>3, <1>4, <1>8, <1>9 DEF Held, InEval, IInv, Stored
<1> QED BY <1>1, <1>3, <1>5, <1>7, <1>10, RequestStep DEF TypeOK

LEMMA SaveCandidateKeeps ==
  ASSUME IInv, NEW r \in Eval, SaveCandidate(r) PROVE IInv'
<1>1. /\ evalAt[r] = "save"
      /\ evalAt' = [evalAt EXCEPT ![r] = "compare"]
      /\ UNCHANGED <<reports, chatAt, asked, baseline, candidate, status>>
  BY DEF SaveCandidate, Goto
<1>2. TypeOK /\ Stored /\ Held(r) /\ r \in Id /\ candidate[r] \in Trace /\ candidate[r] # None
  BY <1>1 DEF IInv, TypeOK, Id
<1>3. baseline[r] # None => baseline[r].content.id \in Id
  BY <1>2, BaselineType
<1>4. evalAt'[r] = "compare" BY <1>1, <1>2 DEF TypeOK
<1>5. CASE Write(r, candidate[r].content, candidate[r].signature, "Save") /\ UNCHANGED failed
  <2> DEFINE content == candidate[r].content
             signature == candidate[r].signature
  <2>1. /\ content \in Content /\ signature \in Content \union {None}
        /\ content.id = r
    BY <1>2 DEF Trace, Held
  <2>2. Honest(content) BY <1>2 DEF Held, Honest
  <2>3. /\ traces' \in [Id -> Trace \union {None}] /\ Stored' /\ traces'[r] # None
        /\ \A i \in Id : traces[i] # None => traces'[i] # None
    BY <1>2, <1>5, <2>1, <2>2, WriteKeeps
  <2> HIDE DEF content, signature
  <2>4. TypeOK' BY <1>1, <1>2, <1>5, <2>3 DEF TypeOK, InEval
  <2>5. Held(r)' BY <1>1, <1>2, <1>3, <1>4, <1>5, <2>3 DEF Held, InEval, TypeOK
  <2> QED BY <1>1, <1>2, <1>5, <2>3, <2>4, <2>5, RequestStep DEF TypeOK
<1>6. CASE /\ UNCHANGED traces
           /\ failed' = [failed EXCEPT ![r] = @ \union {"candidate"}]
  <2>1. TypeOK' BY <1>1, <1>2, <1>6 DEF TypeOK, InEval
  <2>2. "candidate" \in failed'[r] BY <1>2, <1>6 DEF TypeOK
  <2>3. Held(r)' /\ Stored'
    BY <1>1, <1>2, <1>3, <1>4, <1>6, <2>2 DEF Held, InEval, TypeOK, Stored
  <2> QED BY <1>1, <1>2, <1>6, <2>1, <2>3, RequestStep DEF TypeOK
<1> QED BY <1>5, <1>6 DEF SaveCandidate, WriteFails

LEMMA SaveReportKeeps == ASSUME IInv, NEW r \in Eval, SaveReport(r) PROVE IInv'
<1>1. /\ evalAt[r] = "compare"
      /\ evalAt' = [evalAt EXCEPT ![r] = "done"]
      /\ status' = [status EXCEPT ![r] = "200"]
      /\ UNCHANGED <<traces, chatAt, asked, baseline, candidate>>
  BY DEF SaveReport, Respond, Goto
<1>2. TypeOK /\ Stored /\ Held(r) /\ evalAt'[r] = "done"
  BY <1>1 DEF IInv, TypeOK
<1>3. /\ baseline[r] # None /\ candidate[r] # None
      /\ baseline[r].content.id \in Id /\ traces[baseline[r].content.id] # None
      /\ Honest(baseline[r].content)
      /\ candidate[r].content.id = r /\ candidate[r].content.response # NoResponse
      /\ traces[r] # None \/ "candidate" \in failed[r]
  BY <1>1, <1>2, BaselineType DEF TypeOK, Held, InEval
<1> DEFINE report == Report(r)
<1>4. report.baseline = baseline[r].content.id /\ report.candidate = r
  BY <1>3, CompareNames DEF Report
<1>5. baseline[r].content.state # "FINALIZED" => report.recommendation # "APPROVE"
  BY <1>3, MissingIsReviewed DEF Report, Honest
<1> HIDE DEF report
<1>6. Stored' BY <1>1, <1>2 DEF Stored
<1>7. CASE /\ reports' = {old \in reports : ReportKey(old) # ReportKey(report)}
                          \union {report}
           /\ UNCHANGED failed
  <2>1. TypeOK' BY <1>1, <1>2, <1>3, <1>4, <1>7 DEF TypeOK, InEval
  <2>2. Held(r)' BY <1>1, <1>2, <1>3, <1>7 DEF Held, InEval, TypeOK
  <2>3. \A new \in reports' \ reports : new = report BY <1>7
  <2> QED BY <1>1, <1>2, <1>3, <1>4, <1>5, <1>6, <1>7, <2>1, <2>2, <2>3, RequestStep DEF TypeOK
<1>8. CASE /\ failed' = [failed EXCEPT ![r] = @ \union {"report"}]
           /\ UNCHANGED reports
  <2>1. TypeOK' BY <1>1, <1>2, <1>8 DEF TypeOK, InEval
  <2>2. Held(r)' BY <1>1, <1>2, <1>3, <1>8 DEF Held, InEval, TypeOK
  <2> QED BY <1>1, <1>2, <1>6, <1>8, <2>1, <2>2, RequestStep DEF TypeOK
<1> QED BY <1>7, <1>8 DEF SaveReport, report

LEMMA CrashKeeps == ASSUME IInv, Crash PROVE IInv'
<1>1. /\ evalAt' = [r \in Eval |-> IF evalAt[r] \in InEval THEN "lost" ELSE evalAt[r]]
      /\ chatAt' = [c \in Chat |-> IF chatAt[c] = "running" THEN "done" ELSE chatAt[c]]
      /\ UNCHANGED <<traces, reports, asked, baseline, candidate, failed, status>>
  BY DEF Crash
<1>2. TypeOK' BY <1>1 DEF IInv, TypeOK, InEval
<1>3. ASSUME NEW r \in Eval PROVE Held(r)'
  <2>1. Held(r) BY DEF IInv
  <2> QED BY <1>1, <2>1 DEF Held, InEval, ModelToUse
<1>4. Reported'
  <2>1. \A report \in reports : report.candidate \in Eval /\ evalAt[report.candidate] = "done"
    BY DEF IInv, TypeOK, Reported
  <2>2. \A report \in reports : evalAt'[report.candidate] = "done"
    BY <1>1, <2>1 DEF InEval
  <2> QED BY <1>1, <2>2 DEF IInv, Reported, ReportHasTraces, UnfinishedNeverApproved
<1> QED BY <1>1, <1>2, <1>3, <1>4 DEF IInv, Stored

LEMMA StutterKeeps == ASSUME IInv, UNCHANGED rvars PROVE IInv'
  BY StoreStep DEF IInv, TypeOK, Stored, rvars, eval

LEMMA NextKeeps == ASSUME IInv, [Next]_rvars PROVE IInv'
<1>1. CASE \E c \in Chat : ChatSaves(c) \/ ChatEnds(c)
  BY <1>1, ChatSavesKeeps, ChatEndsKeeps
<1>2. CASE \E r \in Eval : Evaluate(r)
  BY <1>2, UpstreamAnswersKeeps, UpstreamFailsKeeps, SaveCandidateKeeps, SaveReportKeeps
     DEF Evaluate
<1>3. CASE \E r \in Eval, request \in Request : Receive(r, request)
  BY <1>3, ReceiveKeeps
<1> QED BY <1>1, <1>2, <1>3, CrashKeeps, StutterKeeps DEF Next

LEMMA Invariance == Spec => []IInv
<1>1. IInv /\ [Next]_rvars => IInv' BY NextKeeps
<1> QED BY InitIInv, <1>1, PTL DEF Spec

\* Whatever fails and whoever replays whom, the two stores, the requests and
\* their answers stay of the types handleReplayEval and its stores give them.
THEOREM ReplayTypeCorrect == Spec => []TypeOK
<1>1. IInv => TypeOK BY DEF IInv
<1> QED BY <1>1, Invariance, PTL

\* A report handleReplayEval has saved names two stored traces, unless saving
\* the candidate failed.
THEOREM ReportHasTracesHolds == Spec => []ReportHasTraces
<1>1. IInv => ReportHasTraces BY DEF IInv, Reported
<1> QED BY <1>1, Invariance, PTL

\* No replay of a trace that is not final is approved by Compare.
THEOREM UnfinishedNeverApprovedHolds == Spec => []UnfinishedNeverApproved
<1>1. IInv => UnfinishedNeverApproved BY DEF IInv, Reported
<1> QED BY <1>1, Invariance, PTL

-----------------------------------------------------------------------------
(***************************************************************************)
(* Signatures on SQLite: a baseline was read from the store, which keeps no *)
(* empty parameters, and a stored candidate is what its request signed.     *)
(***************************************************************************)
EmptyAsked(r) == asked[r].params # NoParams /\ DOMAIN asked[r].params = {}

Faithful(r) ==
  /\ evalAt[r] \in {"idle", "call"} => candidate[r] = None
  /\ evalAt[r] = "idle" => baseline[r] = None
  /\ baseline[r] # None => Kept(baseline[r].content.params)
  /\ candidate[r] # None => /\ candidate[r].signature = candidate[r].content
                            /\ Kept(candidate[r].content.params) \/ EmptyAsked(r)
  /\ traces[r] # None => candidate[r] # None /\ traces[r] = candidate[r]

SInv == IInv /\ \A r \in Eval : Faithful(r)

LEMMA InitFaithful == Init => \A r \in Eval : Faithful(r)
  BY DEF Init, Faithful, Id

\* A write to the trace of another request is nothing to r.
LEMMA OtherWrite ==
  ASSUME TypeOK, NEW id, NEW content, NEW signature, NEW call, NEW r \in Eval, r # id,
         Write(id, content, signature, call)
  PROVE  traces'[r] = traces[r]
<1>1. r \in Id BY DEF Id
<1> QED BY <1>1 DEF Write, TypeOK

LEMMA OtherFaithful ==
  ASSUME NEW r \in Eval, Faithful(r), traces'[r] = traces[r],
         evalAt'[r] = evalAt[r], asked'[r] = asked[r], baseline'[r] = baseline[r],
         candidate'[r] = candidate[r]
  PROVE  Faithful(r)'
  BY DEF Faithful, EmptyAsked

LEMMA FaithfulStep ==
  ASSUME ReplayBackend = "sqlite", SInv, NEW r \in Eval, Next
  PROVE  Faithful(r)'
<1>1. TypeOK /\ Faithful(r) /\ r \in Id BY DEF SInv, IInv, Id
<1>2. CASE \E c \in Chat : ChatSaves(c) \/ ChatEnds(c)
  <2>1. PICK c \in Chat : ChatSaves(c) \/ ChatEnds(c) BY <1>2
  <2>2. r # c BY ReplayNamesAssumption
  <2>3. UNCHANGED eval BY <2>1 DEF ChatSaves, ChatEnds
  <2>4. UNCHANGED traces \/ \E content, signature, call : Write(c, content, signature, call)
    BY <2>1 DEF ChatSaves, ChatEnds, WriteFails
  <2>5. traces'[r] = traces[r] BY <1>1, <2>2, <2>4, OtherWrite
  <2> QED BY <1>1, <2>3, <2>5, OtherFaithful DEF eval
<1>3. ASSUME NEW q \in Eval, NEW request \in Request, Receive(q, request)
      PROVE  Faithful(r)'
  <2> DEFINE id == request.baseline
  <2>1. /\ evalAt[q] = "idle" /\ asked' = [asked EXCEPT ![q] = request]
        /\ UNCHANGED <<traces, candidate>>
        /\ \E where : evalAt' = [evalAt EXCEPT ![q] = where]
        /\ baseline' = baseline \/ (/\ traces[id] # None
                                    /\ baseline' = [baseline EXCEPT ![q] = Get(id)])
    <3>1. /\ evalAt[q] = "idle" /\ asked' = [asked EXCEPT ![q] = request]
          /\ UNCHANGED <<traces, candidate>>
      BY <1>3 DEF Receive
    <3>2. \E where : Goto(q, where) BY <1>3 DEF Receive, Respond
    <3>3. baseline' = baseline \/ (/\ traces[id] # None
                                   /\ baseline' = [baseline EXCEPT ![q] = Get(id)])
      BY <1>3, Zenon DEF Receive
    <3> QED BY <3>1, <3>2, <3>3 DEF Goto
  <2>2. CASE r # q
    BY <1>1, <2>1, <2>2, OtherFaithful DEF TypeOK
  <2>3. CASE r = q
    <3>1. candidate'[r] = None /\ traces'[r] = None
      BY <1>1, <2>1, <2>3 DEF Faithful
    <3>2. baseline'[r] # None => Kept(baseline'[r].content.params)
      <4>1. CASE baseline' = baseline BY <1>1, <4>1 DEF Faithful
      <4>2. CASE traces[id] # None /\ baseline' = [baseline EXCEPT ![q] = Get(id)]
        <5>1. id \in Id BY DEF Request
        <5>2. traces[id].content \in Content /\ Get(id).content = AsRead(traces[id].content)
          BY <1>1, <4>2, <5>1, GetType DEF Trace
        <5>3. baseline'[r] = Get(id) BY <1>1, <2>3, <4>2 DEF TypeOK
        <5> QED BY <5>2, <5>3, ReadBackSQLite
      <4> QED BY <2>1, <4>1, <4>2
    <3>3. evalAt'[r] # "idle"
      BY <1>1, <1>3, <2>3 DEF Receive, Respond, Goto, TypeOK
    <3> QED BY <3>1, <3>2, <3>3 DEF Faithful
  <2> QED BY <2>2, <2>3
<1>4. ASSUME NEW q \in Eval, UpstreamFails(q) \/ SaveReport(q)
      PROVE  Faithful(r)'
  <2>1. /\ UNCHANGED <<traces, asked, baseline, candidate>>
        /\ evalAt[q] \in {"call", "compare"}
        /\ evalAt' = [evalAt EXCEPT ![q] = "done"]
    BY <1>4 DEF UpstreamFails, SaveReport, Respond, Goto
  <2> QED BY <1>1, <2>1 DEF Faithful, EmptyAsked, TypeOK
<1>5. ASSUME NEW q \in Eval, UpstreamAnswers(q)
      PROVE  Faithful(r)'
  <2>1. PICK answer \in Answers :
          candidate' = [candidate EXCEPT ![q] = SignedTrace(Candidate(q, answer))]
    BY <1>5 DEF UpstreamAnswers
  <2>2. /\ evalAt[q] = "call" /\ evalAt' = [evalAt EXCEPT ![q] = "save"]
        /\ UNCHANGED <<traces, asked, baseline>>
    BY <1>5 DEF UpstreamAnswers, Goto
  <2>3. CASE r # q
    BY <1>1, <2>1, <2>2, <2>3, OtherFaithful DEF TypeOK
  <2>4. CASE r = q
    <3> DEFINE content == FillDefaults(Candidate(r, answer))
    <3>1. /\ baseline[r] # None /\ asked[r] # None
          /\ ModelToUse(asked[r], baseline[r]) \in Model
      BY <2>2, <2>4, ReplayNamesAssumption DEF SInv, IInv, TypeOK, Held, InEval
    <3>2. content.params = IF asked[r].params # NoParams THEN asked[r].params
                           ELSE baseline[r].content.params
      BY <1>1, <3>1, CandidateType
    <3>3. Kept(content.params) \/ EmptyAsked(r)
      BY <1>1, <3>1, <3>2 DEF Faithful, EmptyAsked, Kept
    <3> HIDE DEF content
    <3>4. candidate'[r] = [content |-> content, signature |-> content]
      BY <1>1, <2>1, <2>4 DEF TypeOK, SignedTrace, Sign, content
    <3>5. traces'[r] = None /\ evalAt'[r] = "save" /\ asked'[r] = asked[r]
      BY <1>1, <2>2, <2>4 DEF Faithful, TypeOK
    <3> QED BY <1>1, <2>2, <3>3, <3>4, <3>5 DEF Faithful, EmptyAsked
  <2> QED BY <2>3, <2>4
<1>6. ASSUME NEW q \in Eval, SaveCandidate(q)
      PROVE  Faithful(r)'
  <2>1. /\ evalAt[q] = "save" /\ evalAt' = [evalAt EXCEPT ![q] = "compare"]
        /\ UNCHANGED <<asked, baseline, candidate>>
        /\ \/ Write(q, candidate[q].content, candidate[q].signature, "Save")
           \/ UNCHANGED traces
    BY <1>6 DEF SaveCandidate, WriteFails, Goto
  <2>2. CASE r # q
    <3>1. traces'[r] = traces[r] BY <1>1, <2>1, <2>2, OtherWrite
    <3> QED BY <1>1, <2>1, <2>2, <3>1, OtherFaithful DEF TypeOK
  <2>3. CASE r = q
    <3>1. candidate[r] \in Trace /\ candidate[r] # None /\ evalAt'[r] = "compare"
      BY <1>1, <2>1, <2>3 DEF TypeOK
    <3>2. candidate[r] = [content |-> candidate[r].content,
                          signature |-> candidate[r].signature]
      BY <3>1 DEF Trace
    <3>3. traces'[r] \in {candidate[r], traces[r]}
      BY <1>1, <2>1, <2>3, <3>2 DEF Write, TypeOK
    <3> QED BY <1>1, <2>1, <3>1, <3>3 DEF Faithful, EmptyAsked
  <2> QED BY <2>2, <2>3
<1>7. CASE Crash
  <2>1. /\ UNCHANGED <<traces, asked, baseline, candidate>>
        /\ evalAt'[r] # evalAt[r] => evalAt'[r] = "lost"
    BY <1>7 DEF Crash
  <2> QED BY <1>1, <2>1 DEF Faithful, EmptyAsked
<1> QED BY <1>2, <1>3, <1>4, <1>5, <1>6, <1>7 DEF Next, Evaluate

LEMMA FaithfulVerifies ==
  ASSUME ReplayBackend = "sqlite", SInv PROVE CandidatesVerify
<1> SUFFICES ASSUME NEW r \in Eval, traces[r] # None, ~EmptyAsked(r)
             PROVE  VerifyTrace(r) = "valid"
  BY DEF CandidatesVerify, EmptyAsked
<1>1. TypeOK /\ Faithful(r) /\ r \in Id BY DEF SInv, IInv, Id
<1>2. /\ traces[r].content \in Content
      /\ Get(r).content = AsRead(traces[r].content)
      /\ Get(r).signature = traces[r].signature
  BY <1>1, GetType DEF Trace
<1>3. Kept(traces[r].content.params) /\ traces[r].signature = traces[r].content
  BY <1>1 DEF Faithful
<1>4. Get(r).signature # None BY <1>2, <1>3, NoneAssumption
<1> QED BY <1>2, <1>3, <1>4, ReadBackSQLite DEF VerifyTrace, Verify, Sign

\* On SQLite the signature of every stored candidate is that of the trace the
\* store gives back, unless its request brought empty parameters.
THEOREM CandidatesVerifyHolds ==
  ASSUME ReplayBackend = "sqlite" PROVE Spec => []CandidatesVerify
<1>1. Init => SInv BY InitIInv, InitFaithful DEF SInv
<1>2. SInv /\ [Next]_rvars => SInv'
  <2>1. SInv /\ Next => SInv' BY FaithfulStep, NextKeeps DEF SInv
  <2>2. SInv /\ UNCHANGED rvars => SInv'
    BY OtherFaithful, StutterKeeps DEF SInv, rvars, eval
  <2> QED BY <2>1, <2>2
<1>3. SInv => CandidatesVerify BY FaithfulVerifies
<1> QED BY <1>1, <1>2, <1>3, PTL DEF Spec

-----------------------------------------------------------------------------
(***************************************************************************)
(* What a report says.  A trace that has come to its end is not written     *)
(* again, so the baseline a request has read stays the one in the store,    *)
(* and a round trip through the store changes nothing a comparison sees.    *)
(***************************************************************************)
LEMMA CompareReadBack ==
  ASSUME NEW b, NEW c \in Content
  PROVE  Compare(b, AsRead(c)) = Compare(b, c)
<1> DEFINE d == AsRead(c)
<1>1. /\ d.id = c.id /\ d.model = c.model /\ d.response = c.response
      /\ d.tokens = c.tokens /\ d.cost = c.cost /\ d.finish = c.finish
      /\ d.params = IF c.params # NoParams /\ DOMAIN c.params = {} THEN NoParams ELSE c.params
  BY DEF AsRead, Content
<1> HIDE DEF d
<1>2. \A key : Value(d.params, key) = Value(c.params, key)
  BY <1>1 DEF Value
<1>3. Text(d) = Text(c)
  BY <1>1 DEF Text
<1>4. ASSUME NEW distance, NEW longest, NEW field \in Fields
      PROVE  FieldRisks(b, d, distance, longest)[field] = FieldRisks(b, c, distance, longest)[field]
  <2>1. /\ ModelRisk(b, d) = ModelRisk(b, c) /\ TokensRisk(b, d) = TokensRisk(b, c)
        /\ CostRisk(b, d) = CostRisk(b, c) /\ FinishRisk(b, d) = FinishRisk(b, c)
    BY <1>1 DEF ModelRisk, TokensRisk, CostRisk, FinishRisk
  <2>2. ResponseRisk(b, d, distance, longest) = ResponseRisk(b, c, distance, longest)
    BY <1>1, <1>3 DEF ResponseRisk
  <2>3. ParamRisk(b, d, field) = ParamRisk(b, c, field)
    BY <1>2 DEF ParamRisk
  <2> QED BY <2>1, <2>2, <2>3 DEF FieldRisks
<1>5. ASSUME NEW distance, NEW longest
      PROVE  FieldRisks(b, d, distance, longest) = FieldRisks(b, c, distance, longest)
  BY <1>4 DEF FieldRisks
<1>6. NewRiskReport(b, d) = NewRiskReport(b, c)
  BY <1>1 DEF NewRiskReport
<1>7. Compare(b, d) = Compare(b, c)
  BY <1>1, <1>3, <1>5, <1>6, Zenon DEF Compare
<1> QED BY <1>7 DEF d

Final(content) == content.state # "EXECUTING"

ChatOver(c) == traces[c] # None /\ Final(traces[c].content) => chatAt[c] = "done"

\* What a request has made is in the store as it made it, and what it has read is
\* still what the store gives.
Made(r) ==
  /\ traces[r] # None => /\ evalAt[r] \in {"compare", "done", "lost"}
                         /\ candidate[r] # None
                         /\ traces[r].content = candidate[r].content
  /\ baseline[r] # None /\ Final(baseline[r].content) =>
       AsRead(traces[baseline[r].content.id].content) = baseline[r].content

\* A report is what its request made of the two, and the only one under its key.
Recorded ==
  /\ \A report \in reports :
       /\ baseline[report.candidate] # None /\ candidate[report.candidate] # None
       /\ report = Report(report.candidate)
  /\ \A p, q \in reports : ReportKey(p) = ReportKey(q) => p = q

DInv == IInv /\ (\A c \in Chat : ChatOver(c)) /\ (\A r \in Eval : Made(r)) /\ Recorded

LEMMA InitDInv == Init => DInv
  BY InitIInv DEF Init, DInv, ChatOver, Made, Recorded, Id

\* The only writes are those of a chat that has not ended and of a request that
\* has not yet saved its candidate.
LEMMA Writers ==
  ASSUME Next
  PROVE  \/ UNCHANGED traces
         \/ \E c \in Chat : \E content, signature, call :
              /\ chatAt[c] \in {"idle", "running"} /\ UNCHANGED eval
              /\ Write(c, content, signature, call)
              /\ chatAt' = [chatAt EXCEPT ![c] = IF @ = "idle" THEN "running" ELSE "done"]
              /\ chatAt[c] = "idle" => content.state = "EXECUTING"
         \/ \E r \in Eval : \E call :
              /\ evalAt[r] = "save" /\ UNCHANGED <<chatAt, baseline, candidate>>
              /\ evalAt' = [evalAt EXCEPT ![r] = "compare"]
              /\ Write(r, candidate[r].content, candidate[r].signature, call)
<1>1. ASSUME NEW c \in Chat, ChatSaves(c) PROVE
         \/ UNCHANGED traces
         \/ \E content, signature, call :
              /\ chatAt[c] \in {"idle", "running"} /\ UNCHANGED eval
              /\ Write(c, content, signature, call)
              /\ chatAt' = [chatAt EXCEPT ![c] = IF @ = "idle" THEN "running" ELSE "done"]
              /\ chatAt[c] = "idle" => content.state = "EXECUTING"
  <2>1. CASE UNCHANGED traces
    BY <2>1
  <2>2. ASSUME NEW model \in Model, NEW params \in Params,
               Write(c, ChatContent(c, "EXECUTING", model, params, NoResponse, 0, ""), None, "Save")
        PROVE  \E content, signature, call :
                 Write(c, content, signature, call) /\ content.state = "EXECUTING"
    <3>1. ChatContent(c, "EXECUTING", model, params, NoResponse, 0, "").state = "EXECUTING"
      BY DEF ChatContent
    <3> QED BY <2>2, <3>1
  <2>3. /\ chatAt[c] = "idle" /\ UNCHANGED eval
        /\ chatAt' = [chatAt EXCEPT ![c] = IF @ = "idle" THEN "running" ELSE "done"]
    BY <1>1 DEF ChatSaves
  <2> QED BY <1>1, <2>1, <2>2, <2>3 DEF ChatSaves, WriteFails
<1>2. ASSUME NEW c \in Chat, ChatEnds(c) PROVE
         \/ UNCHANGED traces
         \/ \E content, signature, call :
              /\ chatAt[c] \in {"idle", "running"} /\ UNCHANGED eval
              /\ Write(c, content, signature, call)
              /\ chatAt' = [chatAt EXCEPT ![c] = IF @ = "idle" THEN "running" ELSE "done"]
              /\ chatAt[c] = "idle" => content.state = "EXECUTING"
  <2>1. /\ chatAt[c] = "running" /\ UNCHANGED eval
        /\ chatAt' = [chatAt EXCEPT ![c] = IF @ = "idle" THEN "running" ELSE "done"]
    BY <1>2 DEF ChatEnds
  <2>2. UNCHANGED traces \/ \E content, signature, call : Write(c, content, signature, call)
    BY <1>2 DEF ChatEnds, WriteFails
  <2> QED BY <2>1, <2>2
<1>3. ASSUME NEW r \in Eval, SaveCandidate(r) PROVE
         \/ UNCHANGED traces
         \/ \E call :
              /\ evalAt[r] = "save" /\ UNCHANGED <<chatAt, baseline, candidate>>
              /\ evalAt' = [evalAt EXCEPT ![r] = "compare"]
              /\ Write(r, candidate[r].content, candidate[r].signature, call)
  BY <1>3 DEF SaveCandidate, WriteFails, Goto
<1>4. ASSUME NEW r \in Eval,
             \/ UpstreamAnswers(r) \/ UpstreamFails(r) \/ SaveReport(r)
             \/ \E request \in Request : Receive(r, request)
      PROVE  UNCHANGED traces
  BY <1>4 DEF UpstreamAnswers, UpstreamFails, SaveReport, Receive
<1>5. ASSUME Crash PROVE UNCHANGED traces
  BY <1>5 DEF Crash
<1> QED BY <1>1, <1>2, <1>3, <1>4, <1>5 DEF Next, Evaluate

\* A trace that has come to its end stays as it is.
LEMMA FinalStays ==
  ASSUME DInv, Next, NEW id \in Id, traces[id] # None, Final(traces[id].content)
  PROVE  traces'[id] = traces[id]
<1>1. ASSUME NEW w, NEW content, NEW signature, NEW call, Write(w, content, signature, call),
             w # id
      PROVE  traces'[id] = traces[id]
  BY <1>1 DEF Write, DInv, IInv, TypeOK
<1>2. ASSUME NEW c \in Chat, chatAt[c] \in {"idle", "running"} PROVE c # id
  BY <1>2 DEF DInv, ChatOver
<1>3. ASSUME NEW r \in Eval, evalAt[r] = "save" PROVE r # id
  BY <1>3 DEF DInv, Made
<1> QED BY <1>1, <1>2, <1>3, Writers

LEMMA ChatOverStep ==
  ASSUME DInv, Next, NEW c \in Chat PROVE ChatOver(c)'
<1>0. ChatOver(c) /\ c \in Id /\ TypeOK
  BY DEF DInv, IInv, Id
<1>1. CASE UNCHANGED traces
  <2>1. chatAt[c] = "done" => chatAt'[c] = "done"
    BY <1>0 DEF Next, ChatSaves, ChatEnds, Evaluate, UpstreamAnswers, UpstreamFails,
       SaveCandidate, SaveReport, Receive, Crash, TypeOK
  <2> QED BY <1>0, <1>1, <2>1 DEF ChatOver
<1>2. ASSUME NEW w \in Chat, NEW content, NEW signature, NEW call,
             chatAt[w] \in {"idle", "running"}, Write(w, content, signature, call),
             chatAt' = [chatAt EXCEPT ![w] = IF @ = "idle" THEN "running" ELSE "done"],
             chatAt[w] = "idle" => content.state = "EXECUTING"
      PROVE  ChatOver(c)'
  <2>1. CASE w = c
    <3>1. traces'[c].content = content
      BY <1>0, <1>2, <2>1 DEF Write, TypeOK
    <3>2. chatAt[c] # "idle" => chatAt'[c] = "done"
      BY <1>0, <1>2, <2>1 DEF TypeOK
    <3> QED BY <1>2, <2>1, <3>1, <3>2 DEF ChatOver, Final
  <2>2. CASE w # c
    BY <1>0, <1>2, <2>2 DEF Write, TypeOK, ChatOver
  <2> QED BY <2>1, <2>2
<1>3. ASSUME NEW r \in Eval, NEW content, NEW signature, NEW call, UNCHANGED chatAt,
             Write(r, content, signature, call)
      PROVE  ChatOver(c)'
  <2>1. r # c
    BY ReplayNamesAssumption
  <2> QED BY <1>0, <1>3, <2>1 DEF Write, TypeOK, ChatOver
<1> QED BY <1>1, <1>2, <1>3, Writers

\* What a request of another name does leaves r's as it was, but for the trace
\* it writes, which is not r's.
LEMMA MadeStep ==
  ASSUME DInv, Next, NEW r \in Eval PROVE Made(r)'
<1>0. Made(r) /\ Held(r) /\ r \in Id /\ TypeOK /\ Stored
  BY DEF DInv, IInv, Id
<1>1. ASSUME baseline'[r] = baseline[r]
      PROVE  baseline'[r] # None /\ Final(baseline'[r].content) =>
               AsRead(traces'[baseline'[r].content.id].content) = baseline'[r].content
  <2> SUFFICES ASSUME baseline[r] # None, Final(baseline[r].content)
               PROVE  AsRead(traces'[baseline[r].content.id].content) = baseline[r].content
    BY <1>1
  <2> DEFINE id == baseline[r].content.id
  <2>1. id \in Id
    BY <1>0, BaselineType
  <2>2. traces[id] # None /\ AsRead(traces[id].content) = baseline[r].content
    BY <1>0 DEF Made, Held
  <2>3. Final(traces[id].content)
    <3>1. traces[id].content \in Content
      BY <1>0, <2>1, <2>2 DEF TypeOK, Trace
    <3> QED BY <2>2, <3>1, ReadBack DEF Final
  <2> HIDE DEF id
  <2>4. traces'[id] = traces[id]
    BY <2>1, <2>2, <2>3, FinalStays
  <2> QED BY <2>2, <2>4 DEF id
<1>2. ASSUME traces'[r] = traces[r], evalAt'[r] = evalAt[r] \/ evalAt'[r] \in {"done", "lost"},
             candidate'[r] = candidate[r]
      PROVE  traces'[r] # None => /\ evalAt'[r] \in {"compare", "done", "lost"}
                                  /\ candidate'[r] # None
                                  /\ traces'[r].content = candidate'[r].content
  BY <1>0, <1>2 DEF Made
<1>3. ASSUME NEW c \in Chat, ChatSaves(c) \/ ChatEnds(c) PROVE Made(r)'
  <2>1. UNCHANGED eval /\ r # c
    BY <1>3, ReplayNamesAssumption DEF ChatSaves, ChatEnds
  <2>2. UNCHANGED traces \/ \E content, signature, call : Write(c, content, signature, call)
    BY <1>3 DEF ChatSaves, ChatEnds, WriteFails
  <2>3. traces'[r] = traces[r]
    BY <1>0, <2>1, <2>2, OtherWrite
  <2> QED BY <1>1, <1>2, <2>1, <2>3 DEF eval, Made
<1>4. ASSUME NEW q \in Eval, NEW request \in Request, Receive(q, request)
      PROVE  Made(r)'
  <2> DEFINE id == request.baseline
  <2>1. /\ UNCHANGED <<traces, candidate>> /\ evalAt[q] = "idle"
        /\ \E where : evalAt' = [evalAt EXCEPT ![q] = where]
        /\ baseline' = baseline \/ (/\ traces[id] # None
                                    /\ baseline' = [baseline EXCEPT ![q] = Get(id)])
    <3>1. UNCHANGED <<traces, candidate>> /\ evalAt[q] = "idle"
      BY <1>4 DEF Receive
    <3>2. \E where : Goto(q, where) BY <1>4 DEF Receive, Respond
    <3>3. baseline' = baseline \/ (/\ traces[id] # None
                                   /\ baseline' = [baseline EXCEPT ![q] = Get(id)])
      BY <1>4, Zenon DEF Receive
    <3> QED BY <3>1, <3>2, <3>3 DEF Goto
  <2>2. CASE r # q
    BY <1>0, <1>1, <1>2, <2>1, <2>2 DEF TypeOK, Made
  <2>3. CASE r = q
    <3>1. traces'[r] = None
      BY <1>0, <2>1, <2>3 DEF Made
    <3>2. CASE baseline' = baseline
      BY <1>1, <3>1, <3>2 DEF Made
    <3>3. CASE traces[id] # None /\ baseline' = [baseline EXCEPT ![q] = Get(id)]
      <4>1. id \in Id BY DEF Request
      <4>2. /\ traces[id].content \in Content /\ traces[id].content.id = id
            /\ Get(id).content = AsRead(traces[id].content)
        BY <1>0, <3>3, <4>1, GetType DEF Trace, Stored
      <4>3. baseline'[r] = Get(id) BY <1>0, <2>3, <3>3 DEF TypeOK
      <4>4. baseline'[r].content.id = id
        BY <4>2, <4>3, ReadBack
      <4>5. AsRead(traces'[baseline'[r].content.id].content) = baseline'[r].content
        BY <2>1, <4>2, <4>3, <4>4
      <4> QED BY <3>1, <4>5 DEF Made
    <3> QED BY <2>1, <3>2, <3>3
  <2> QED BY <2>2, <2>3
<1>5. ASSUME NEW q \in Eval, UpstreamFails(q) \/ SaveReport(q) PROVE Made(r)'
  <2>1. /\ UNCHANGED <<traces, baseline, candidate>>
        /\ evalAt' = [evalAt EXCEPT ![q] = "done"]
    BY <1>5 DEF UpstreamFails, SaveReport, Respond, Goto
  <2>2. evalAt'[r] = evalAt[r] \/ evalAt'[r] \in {"done", "lost"}
    BY <1>0, <2>1 DEF TypeOK
  <2> QED BY <1>1, <1>2, <2>1, <2>2 DEF Made
<1>6. ASSUME NEW q \in Eval, UpstreamAnswers(q) PROVE Made(r)'
  <2>1. /\ UNCHANGED <<traces, baseline>> /\ evalAt[q] = "call"
        /\ evalAt' = [evalAt EXCEPT ![q] = "save"]
        /\ \A s \in Eval \ {q} : candidate'[s] = candidate[s]
    BY <1>0, <1>6 DEF UpstreamAnswers, Goto, TypeOK
  <2>2. CASE r = q
    <3>1. traces'[r] = None
      BY <1>0, <2>1, <2>2 DEF Made
    <3> QED BY <1>1, <2>1, <3>1 DEF Made
  <2>3. CASE r # q
    BY <1>0, <1>1, <1>2, <2>1, <2>3 DEF TypeOK, Made
  <2> QED BY <2>2, <2>3
<1>7. ASSUME NEW q \in Eval, SaveCandidate(q) PROVE Made(r)'
  <2>1. /\ UNCHANGED <<baseline, candidate>> /\ evalAt[q] = "save"
        /\ evalAt' = [evalAt EXCEPT ![q] = "compare"]
        /\ \/ Write(q, candidate[q].content, candidate[q].signature, "Save")
           \/ UNCHANGED traces
    BY <1>7 DEF SaveCandidate, WriteFails, Goto
  <2>2. CASE r # q
    <3>1. traces'[r] = traces[r]
      BY <1>0, <2>1, <2>2, OtherWrite
    <3>2. evalAt'[r] = evalAt[r]
      BY <1>0, <2>1, <2>2 DEF TypeOK
    <3> QED BY <1>1, <1>2, <2>1, <3>1, <3>2 DEF Made
  <2>3. CASE r = q
    <3>1. candidate[r] # None /\ evalAt'[r] = "compare"
      BY <1>0, <2>1, <2>3 DEF TypeOK
    <3>2. traces[r] = None
      BY <1>0, <2>1, <2>3 DEF Made
    <3>3. traces'[r] = None \/ traces'[r].content = candidate[r].content
      BY <1>0, <2>1, <2>3, <3>2 DEF Write, TypeOK
    <3> QED BY <1>1, <2>1, <3>1, <3>3 DEF Made
  <2> QED BY <2>2, <2>3
<1>8. CASE Crash
  <2>1. /\ UNCHANGED <<traces, baseline, candidate>>
        /\ evalAt'[r] = evalAt[r] \/ evalAt'[r] \in {"done", "lost"}
    BY <1>8 DEF Crash
  <2> QED BY <1>1, <1>2, <2>1 DEF Made
<1> QED BY <1>3, <1>4, <1>5, <1>6, <1>7, <1>8 DEF Next, Evaluate

\* A report already stored, or the one stored now, is that of its request.
LEMMA ReportsStep ==
  ASSUME DInv, Next PROVE Recorded'
<1>0. TypeOK /\ Recorded /\ \A report \in reports : evalAt[report.candidate] = "done"
  BY DEF DInv, IInv, Reported
<1>1. ASSUME NEW report \in reports
      PROVE  /\ baseline'[report.candidate] = baseline[report.candidate]
             /\ candidate'[report.candidate] = candidate[report.candidate]
  <2>1. report.candidate \in Eval /\ evalAt[report.candidate] = "done"
    BY <1>0 DEF TypeOK
  <2>2. baseline'[report.candidate] = baseline[report.candidate]
    BY <1>0, <2>1 DEF Next, ChatSaves, ChatEnds, Evaluate, UpstreamAnswers, UpstreamFails,
       SaveCandidate, SaveReport, Receive, Crash, TypeOK, eval
  <2>3. candidate'[report.candidate] = candidate[report.candidate]
    BY <1>0, <2>1 DEF Next, ChatSaves, ChatEnds, Evaluate, UpstreamAnswers, UpstreamFails,
       SaveCandidate, SaveReport, Receive, Crash, TypeOK, eval
  <2> QED BY <2>2, <2>3
<1>2. ASSUME NEW report \in reports
      PROVE  /\ baseline'[report.candidate] # None /\ candidate'[report.candidate] # None
             /\ report = Report(report.candidate)'
  <2>1. /\ baseline[report.candidate] # None /\ candidate[report.candidate] # None
        /\ report = Report(report.candidate)
    BY <1>0 DEF Recorded
  <2> QED BY <1>1, <2>1 DEF Report
<1>3. CASE UNCHANGED reports
  BY <1>0, <1>2, <1>3 DEF Recorded
<1>4. ASSUME NEW r \in Eval, SaveReport(r),
             reports' = {report \in reports : ReportKey(report) # ReportKey(Report(r))}
                          \union {Report(r)}
      PROVE  Recorded'
  <2>1. UNCHANGED <<baseline, candidate>> /\ evalAt[r] = "compare"
    BY <1>4 DEF SaveReport
  <2>2. baseline[r] # None /\ candidate[r] # None /\ candidate[r].content.id = r
    BY <2>1 DEF DInv, IInv, TypeOK, Held, InEval
  <2>3. Report(r).candidate = r /\ Report(r)' = Report(r)
    BY <2>1, <2>2, CompareNames DEF Report
  <2> DEFINE new == Report(r)
  <2>4. /\ new.candidate = r /\ baseline'[r] # None /\ candidate'[r] # None
        /\ new = Compare(baseline'[r].content, candidate'[r].content)
    BY <2>1, <2>2, <2>3 DEF Report
  <2> HIDE DEF new
  <2>5. ASSUME NEW report \in reports'
        PROVE  /\ baseline'[report.candidate] # None /\ candidate'[report.candidate] # None
               /\ report = Report(report.candidate)'
    <3>1. report \in reports \/ report = new
      BY <1>4 DEF new
    <3>2. CASE report \in reports
      BY <1>2, <3>2
    <3>3. CASE report = new
      BY <2>4, <3>3 DEF Report
    <3> QED BY <3>1, <3>2, <3>3
  <2>6. \A p, q \in reports' : ReportKey(p) = ReportKey(q) => p = q
    BY <1>0, <1>4 DEF Recorded
  <2> QED BY <2>5, <2>6 DEF Recorded, ReportKey
<1>5. UNCHANGED reports
      \/ \E r \in Eval :
           /\ SaveReport(r)
           /\ reports' = {report \in reports : ReportKey(report) # ReportKey(Report(r))}
                           \union {Report(r)}
  BY DEF Next, ChatSaves, ChatEnds, Evaluate, UpstreamAnswers, UpstreamFails,
     SaveCandidate, SaveReport, Receive, Crash
<1> QED BY <1>3, <1>4, <1>5

LEMMA Describes == DInv => ReportDescribesTraces
<1> SUFFICES ASSUME DInv, NEW stored \in reports,
                    LET report == GetReport(ReportKey(stored))
                    IN  /\ baseline[report.candidate].content.state # "EXECUTING"
                        /\ traces[report.candidate] # None
             PROVE  LET report == GetReport(ReportKey(stored))
                    IN  report = Compare(Get(report.baseline).content,
                                         Get(report.candidate).content)
  BY DEF ReportDescribesTraces
<1> DEFINE report == GetReport(ReportKey(stored))
           r == report.candidate
<1>1. report = stored
  BY DEF DInv, Recorded, GetReport
<1> HIDE DEF report
<1>2. r \in Eval /\ r \in Id /\ TypeOK /\ Held(r) /\ Made(r)
  BY <1>1 DEF DInv, IInv, TypeOK, Id
<1>3. baseline[r] # None /\ candidate[r] # None /\ report = Report(r)
  BY <1>1 DEF DInv, Recorded
<1>4. report.baseline = baseline[r].content.id
  BY <1>3, CompareNames DEF Report
<1>5. baseline[r].content.state # "EXECUTING" /\ traces[r] # None
  BY DEF report
<1>6. Get(report.baseline).content = baseline[r].content
  <2>1. baseline[r].content.id \in Id
    BY <1>2, <1>3, BaselineType
  <2>2. traces[baseline[r].content.id] # None
    BY <1>2, <1>3 DEF Held
  <2>3. Get(baseline[r].content.id).content = AsRead(traces[baseline[r].content.id].content)
    BY <1>2, <2>1, <2>2, GetType
  <2>4. AsRead(traces[baseline[r].content.id].content) = baseline[r].content
    BY <1>2, <1>3, <1>5 DEF Made, Final
  <2> QED BY <1>4, <2>3, <2>4
<1>7. Get(r).content = AsRead(candidate[r].content) /\ candidate[r].content \in Content
  <2>1. Get(r).content = AsRead(traces[r].content)
    BY <1>2, <1>5, GetType
  <2>2. traces[r].content = candidate[r].content
    BY <1>2, <1>5 DEF Made
  <2>3. candidate[r] \in Trace
    BY <1>2, <1>3 DEF TypeOK
  <2> QED BY <2>1, <2>2, <2>3 DEF Trace
<1>8. report = Compare(Get(report.baseline).content, Get(r).content)
  BY <1>3, <1>6, <1>7, CompareReadBack DEF Report
<1> QED BY <1>8 DEF report

\* On either store the report found for a baseline says of the two traces in the
\* store what a new comparison would say, although the handler compared what it had
\* read and made: no later write, failed save, replay of the same baseline, restart
\* or round trip makes it untrue, once the baseline had ended when it was read.
THEOREM ReportDescribesTracesHolds == Spec => []ReportDescribesTraces
<1>1. DInv /\ [Next]_rvars => DInv'
  <2>1. DInv /\ Next => DInv'
    BY NextKeeps, ChatOverStep, MadeStep, ReportsStep DEF DInv
  <2>2. DInv /\ UNCHANGED rvars => DInv'
    <3> SUFFICES ASSUME DInv, UNCHANGED rvars PROVE DInv'
      OBVIOUS
    <3>1. IInv' BY StutterKeeps DEF DInv
    <3>2. UNCHANGED <<traces, reports, chatAt, evalAt, baseline, candidate>>
      BY DEF rvars, eval
    <3> QED BY <3>1, <3>2 DEF DInv, ChatOver, Made, Recorded, Report
  <2> QED BY <2>1, <2>2
<1> QED BY <1>1, InitDInv, Describes, PTL DEF Spec
=============================================================================

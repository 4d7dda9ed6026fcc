--------------------------- MODULE RiskComparison ---------------------------
(***************************************************************************)
(* How a replay judges two traces (differ.go, risk_report.go): the edit     *)
(* distance of their responses, the risk of each field that differs, a      *)
(* score, a recommendation, and the report that is kept.                    *)
(*                                                                         *)
(* A text is a sequence of runes of one to four bytes.  Similarities and    *)
(* scores are exact fractions here, floating point in the code: a score is  *)
(* given in hundredths.                                                     *)
(***************************************************************************)
EXTENDS Integers, Sequences, FiniteSets, FiniteSetsExt

CONSTANTS
  Rune,       \* the characters of responses
  Width,      \* the bytes of each
  Param,      \* the names of parameters
  Critical,   \* those among temperature, top_p, max_tokens, stop, system_prompt
  NoResponse, \* the response is nil
  NoParams,   \* the parameters are nil
  Same        \* a field does not differ

ASSUME WidthAssumption == Width \in [Rune -> 1 .. 4]
ASSUME ParamAssumption == IsFiniteSet(Param) /\ Critical \subseteq Param
ASSUME NilAssumption ==
  NoResponse \notin Seq(Rune) /\ Same \notin {"LOW", "MEDIUM", "HIGH"}

-----------------------------------------------------------------------------
(***************************************************************************)
(* The responses.                                                          *)
(***************************************************************************)
Bytes(text) == SumFunctionOnSet([i \in DOMAIN text |-> Width[text[i]]], DOMAIN text)

\* Mutant of EditDistance: a replaced rune counts as one removed and one added.
EditDistanceTwoForOne(s1, s2) ==
  LET dp[cell \in (0 .. Len(s1)) \X (0 .. Len(s2))] ==
        LET i == cell[1]
            j == cell[2]
        IN  IF i = 0 THEN j
            ELSE IF j = 0 THEN i
            ELSE IF s1[i] = s2[j] THEN dp[<<i - 1, j - 1>>]
            ELSE 1 + Min({dp[<<i - 1, j>>], dp[<<i, j - 1>>]})
  IN  dp[<<Len(s1), Len(s2)>>]

\* The table of LevenshteinDistance; it compares runes.
EditDistance(s1, s2) ==
  LET dp[cell \in (0 .. Len(s1)) \X (0 .. Len(s2))] ==
        LET i == cell[1]
            j == cell[2]
        IN  IF i = 0 THEN j
            ELSE IF j = 0 THEN i
            ELSE IF s1[i] = s2[j] THEN dp[<<i - 1, j - 1>>]
            ELSE 1 + Min({dp[<<i - 1, j>>], dp[<<i, j - 1>>], dp[<<i - 1, j - 1>>]})
  IN  dp[<<Len(s1), Len(s2)>>]

\* Beside an empty text it counts bytes.
LevenshteinDistance(s1, s2) ==
  IF s1 = <<>> THEN Bytes(s2)
  ELSE IF s2 = <<>> THEN Bytes(s1)
  ELSE EditDistance(s1, s2)

\* len() counts bytes.
MaxLen(s1, s2) == IF Bytes(s1) < Bytes(s2) THEN Bytes(s2) ELSE Bytes(s1)

Text(trace) == IF trace.response = NoResponse THEN <<>> ELSE trace.response

\* similarity < percent / 100, where similarity is 1 - distance / longest.
LessSimilar(distance, longest, percent) ==
  longest > 0 /\ 100 * (longest - distance) < percent * longest

-----------------------------------------------------------------------------
(***************************************************************************)
(* The fields.                                                             *)
(***************************************************************************)
\* A missing parameter reads as nil.
Value(params, key) ==
  IF params = NoParams THEN NoParams
  ELSE IF key \in DOMAIN params THEN params[key] ELSE NoParams

ModelRisk(b, c) == IF b.model = c.model THEN Same ELSE "MEDIUM"

ParamRisk(b, c, key) ==
  IF Value(b.params, key) = Value(c.params, key) THEN Same
  ELSE IF key \in Critical THEN "MEDIUM" ELSE "LOW"

ResponseRisk(b, c, distance, longest) ==
  IF b.response = c.response THEN Same
  ELSE IF Text(b) # <<>> /\ Text(c) # <<>>
  THEN IF LessSimilar(distance, longest, 30) THEN "HIGH"
       ELSE IF LessSimilar(distance, longest, 70) THEN "MEDIUM" ELSE "LOW"
  ELSE IF NoResponse \in {b.response, c.response} THEN "HIGH" ELSE "LOW"

TokensRisk(b, c) ==
  LET diff == IF c.tokens < b.tokens THEN b.tokens - c.tokens ELSE c.tokens - b.tokens
  IN  IF diff = 0 THEN Same ELSE IF 2 * diff > b.tokens THEN "MEDIUM" ELSE "LOW"

CostRisk(b, c) ==
  IF b.cost = c.cost THEN Same
  ELSE IF b.cost > 0 /\ c.cost > 2 * b.cost THEN "HIGH"
  ELSE IF b.cost > 0 /\ 2 * c.cost > 3 * b.cost THEN "MEDIUM" ELSE "LOW"

\* Mutant of FinishRisk: a response cut at its length is no risk.
FinishRiskOfError(b, c) ==
  IF b.finish = c.finish THEN Same
  ELSE IF c.finish = "error" THEN "HIGH" ELSE "LOW"

FinishRisk(b, c) ==
  IF b.finish = c.finish THEN Same
  ELSE IF c.finish = "error" \/ (b.finish = "stop" /\ c.finish = "length")
  THEN "HIGH" ELSE "LOW"

Fields ==
  {"model", "output.response", "observations.tokens_count",
   "observations.cost_estimated_usd", "output.finish_reason"} \union Param

NothingAnalysed == [field \in Fields |-> Same]

\* analyzeFieldDifferences
FieldRisks(b, c, distance, longest) ==
  [field \in Fields |->
     IF field = "model" THEN ModelRisk(b, c)
     ELSE IF field = "output.response" THEN ResponseRisk(b, c, distance, longest)
     ELSE IF field = "observations.tokens_count" THEN TokensRisk(b, c)
     ELSE IF field = "observations.cost_estimated_usd" THEN CostRisk(b, c)
     ELSE IF field = "output.finish_reason" THEN FinishRisk(b, c)
     ELSE ParamRisk(b, c, field)]

FieldsAt(risks, level) == {field \in Fields : risks[field] = level}

-----------------------------------------------------------------------------
(***************************************************************************)
(* The judgement.                                                          *)
(***************************************************************************)
\* math.Round(100 * (1 - similarity)), and with another model of
\* 0.8 * (1 - similarity) + 0.2.  It is in 0 .. 100 as it is
\* (ScoreInRange in Standalone_proofs).
CalculateRiskScore(distance, longest, modelChanged) ==
  LET parts == IF longest = 0 THEN 1 ELSE longest
  IN  IF modelChanged
      THEN 20 + ((160 * distance + parts) \div (2 * parts))
      ELSE (200 * distance + parts) \div (2 * parts)

\* Mutant of DetermineRecommendation: the score is looked at before the fields.
RecommendByScore(score, modelChanged, highRisks, mediumRisks) ==
  IF highRisks >= 2 \/ score >= 70 THEN "BLOCK_RELEASE"
  ELSE IF highRisks >= 1 \/ score >= 30 THEN "REVIEW_REQUIRED"
  ELSE IF mediumRisks >= 2 THEN "REVIEW_REQUIRED"
  ELSE IF modelChanged /\ score >= 20 THEN "REVIEW_REQUIRED"
  ELSE "APPROVE"

DetermineRecommendation(score, modelChanged, highRisks, mediumRisks) ==
  IF highRisks >= 2 THEN "BLOCK_RELEASE"
  ELSE IF highRisks >= 1 THEN "REVIEW_REQUIRED"
  ELSE IF score >= 70 THEN "BLOCK_RELEASE"
  ELSE IF score >= 30 \/ mediumRisks >= 2 THEN "REVIEW_REQUIRED"
  ELSE IF modelChanged /\ score >= 20 THEN "REVIEW_REQUIRED"
  ELSE "APPROVE"

NewRiskReport(b, c) ==
  [baseline |-> b.id, candidate |-> c.id, modelChanged |-> b.model # c.model,
   distance |-> 0, score |-> 0, recommendation |-> "APPROVE",
   fields |-> NothingAnalysed]

\* SetRiskWithReasons puts a new assessment in the place of the one that the
\* fields were added to: what was analysed decides, and is not reported.
Compare(b, c) ==
  LET distance == LevenshteinDistance(Text(b), Text(c))
      longest == MaxLen(Text(b), Text(c))
      modelChanged == b.model # c.model
      risks == FieldRisks(b, c, distance, longest)
      score == CalculateRiskScore(distance, longest, modelChanged)
  IN  IF b.response = NoResponse /\ c.response = NoResponse
      THEN NewRiskReport(b, c)
      ELSE [NewRiskReport(b, c) EXCEPT
              !.distance = distance,
              !.score = score,
              !.recommendation =
                DetermineRecommendation(score, modelChanged,
                                        Cardinality(FieldsAt(risks, "HIGH")),
                                        Cardinality(FieldsAt(risks, "MEDIUM")))]
=============================================================================

------------------------------- MODULE Differ -------------------------------
(***************************************************************************)
(* The comparison of two traces on its own: Differ.Compare called once for  *)
(* a pair of traces, and what its recommendation can be relied on for.      *)
(***************************************************************************)
EXTENDS RiskComparison

CONSTANTS
  Pairs,      \* the pairs of traces that may be compared
  MaxAligned, \* bound: the longest texts whose alignments are enumerated
  NoReport    \* nothing has been compared yet

ASSUME AlignedAssumption == MaxAligned \in Nat

\* The response of a trace is a text or nil, and its cost a number.
Comparable(trace) ==
  trace.response \in Seq(Rune) \union {NoResponse} /\ trace.cost \in Int

ASSUME PairsAssumption ==
  \A pair \in Pairs : Comparable(pair[1]) /\ Comparable(pair[2])

VARIABLES
  baseline,   \* the trace of the chat
  candidate,  \* the trace of its replay
  report      \* the report

dvars == <<baseline, candidate, report>>

Init ==
  /\ \E pair \in Pairs : baseline = pair[1] /\ candidate = pair[2]
  /\ report = NoReport

CompareTraces ==
  /\ report = NoReport
  /\ report' = Compare(baseline, candidate)
  /\ UNCHANGED <<baseline, candidate>>

Spec == Init /\ [][CompareTraces]_dvars

-----------------------------------------------------------------------------
(***************************************************************************)
(* Properties.                                                             *)
(***************************************************************************)
\* The ways to keep some runes of one text in the order of another: pairs of
\* places, growing in both.
AlignmentsOf[size \in (0 .. MaxAligned) \X (0 .. MaxAligned)] ==
  {kept \in SUBSET ((1 .. size[1]) \X (1 .. size[2])) :
     \A p, q \in kept : p # q =>
       (p[1] < q[1] /\ p[2] < q[2]) \/ (q[1] < p[1] /\ q[2] < p[2])}

\* What is not kept is removed or inserted, what is kept but differs replaced.
Edits(s1, s2, kept) ==
  Len(s1) + Len(s2) - 2 * Cardinality(kept)
    + Cardinality({p \in kept : s1[p[1]] # s2[p[2]]})

LeastEdits(s1, s2) ==
  Min({Edits(s1, s2, kept) : kept \in AlignmentsOf[<<Len(s1), Len(s2)>>]})

\* The distance in a report is the least number of runes that have to be
\* inserted, removed or replaced to turn one response into the other, as long as
\* neither is empty: the table of LevenshteinDistance finds the best of all ways.
DistanceIsLeast ==
  LET s1 == Text(baseline)
      s2 == Text(candidate)
  IN  (/\ report # NoReport
       /\ Len(s1) \in 1 .. MaxAligned
       /\ Len(s2) \in 1 .. MaxAligned)
      => report.distance = LeastEdits(s1, s2)

Risks ==
  LET s1 == Text(baseline)
      s2 == Text(candidate)
  IN  FieldRisks(baseline, candidate, LevenshteinDistance(s1, s2), MaxLen(s1, s2))

Analysed(level) == Cardinality(FieldsAt(Risks, level))

\* A release is blocked for two HIGH fields, for a response that is "" on one
\* side only, and otherwise only for responses that are 30 to 39 percent alike
\* (31 with the same model): responses that are less alike are HIGH by
\* themselves, which determineRecommendation answers with a review before it
\* comes to the score.
BlockedInBand ==
  LET s1 == Text(baseline)
      s2 == Text(candidate)
      longest == MaxLen(s1, s2)
  IN  (/\ report # NoReport
       /\ report.recommendation = "BLOCK_RELEASE"
       /\ Analysed("HIGH") < 2
       /\ s1 # <<>> /\ s2 # <<>>)
      => /\ ~LessSimilar(report.distance, longest, 30)
         /\ LessSimilar(report.distance, longest, IF report.modelChanged THEN 39 ELSE 31)

\* A response less than 30 percent like that of the chat blocks the release, as
\* docs/testing/E2E_TEST_SCENARIOS.md says (E2E-602).  It is one HIGH field, and
\* determineRecommendation asks for a review of one before it looks at the score.
OtherOutputBlocks ==
  LET s1 == Text(baseline)
      s2 == Text(candidate)
  IN  (/\ report # NoReport
       /\ s1 # <<>> /\ s2 # <<>>
       /\ LessSimilar(report.distance, MaxLen(s1, s2), 30))
      => report.recommendation = "BLOCK_RELEASE"

\* An approved replay differs little in everything that was analysed: its
\* response is more than 70 percent alike, it did not run into its length, its
\* cost at most doubled, and at most one field is of MEDIUM risk.
ApprovedIsClose ==
  (/\ report # NoReport
   /\ report.recommendation = "APPROVE"
   /\ {baseline.response, candidate.response} # {NoResponse})
  => /\ ~LessSimilar(report.distance, MaxLen(Text(baseline), Text(candidate)), 70)
     /\ ~(baseline.finish = "stop" /\ candidate.finish = "length")
     /\ ~(baseline.cost > 0 /\ candidate.cost > 2 * baseline.cost)
     /\ Analysed("MEDIUM") < 2
=============================================================================

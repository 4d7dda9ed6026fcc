----------------------------- MODULE Hooks_proofs -----------------------------
(***************************************************************************)
(* Proofs about Hooks, for any requests, prompts, chains and windows.       *)
(*                                                                         *)
(* ReportsItsOwn speaks of requests that have left the detector; what is    *)
(* true of one that is in it without company is said by Undisturbed: the    *)
(* shared field is what the request itself has found so far.               *)
(***************************************************************************)
EXTENDS Hooks, FiniteSetTheorems, TLAPS

\* The kinds among the first n matches.
FoundIn(r, n) == {Matches(r)[i] : i \in 1 .. n}

Undisturbed(r) ==
  /\ step[r] = "out" => scan[r] = 1
  /\ step[r] \in InDetector => At(r, "pii-detector")
  /\ step[r] \in {"look", "append"} => scan[r] <= Len(Matches(r))
  /\ step[r] = "record" => scan[r] = Len(Matches(r)) + 1
  /\ step[r] \in InDetector /\ ~overlapped[r] =>
       /\ \A s \in Request \ {r} : step[s] \notin InDetector
       /\ detectedTypes = FoundIn(r, scan[r] - 1)
       /\ step[r] = "append" => seen[r] = detectedTypes
  /\ step[r] = "recorded" /\ ~overlapped[r] => piiTypes[r] = TypesOf(r)

IInv == HooksTypeOK /\ \A r \in Request : Undisturbed(r)

\* The prompt is scanned twice, and the second time nothing is new.
LEMMA MatchesFact ==
  ASSUME NEW r \in Request
  PROVE  /\ Matches(r) \in Seq(PII) /\ Len(Matches(r)) \in Nat
         /\ \A i \in 1 .. Len(Matches(r)) : Matches(r)[i] \in PII
         /\ FoundIn(r, Len(Matches(r))) = TypesOf(r)
<1> DEFINE prompt == PromptOf[r]
<1>1. prompt \in Seq(PII) /\ Len(prompt) \in Nat BY TraceInputAssumption
<1> HIDE DEF prompt
<1>2. /\ prompt \o prompt \in Seq(PII)
      /\ Len(prompt \o prompt) = Len(prompt) + Len(prompt)
      /\ \A i \in 1 .. Len(prompt) : (prompt \o prompt)[i] = prompt[i]
      /\ \A i \in Len(prompt) + 1 .. Len(prompt) + Len(prompt) :
           (prompt \o prompt)[i] = prompt[i - Len(prompt)]
  BY <1>1
<1>3. \A i \in 1 .. Len(prompt) : i \in 1 .. Len(prompt) + Len(prompt) BY <1>1
<1>4. \A i \in Len(prompt) + 1 .. Len(prompt) + Len(prompt) : i - Len(prompt) \in 1 .. Len(prompt)
  BY <1>1
<1>5. {(prompt \o prompt)[i] : i \in 1 .. Len(prompt) + Len(prompt)}
      = {prompt[i] : i \in 1 .. Len(prompt)}
  <2>1. \A i \in 1 .. Len(prompt) + Len(prompt) :
          \E j \in 1 .. Len(prompt) : (prompt \o prompt)[i] = prompt[j]
    BY <1>1, <1>2, <1>4
  <2>2. \A j \in 1 .. Len(prompt) :
          \E i \in 1 .. Len(prompt) + Len(prompt) : (prompt \o prompt)[i] = prompt[j]
    BY <1>2, <1>3
  <2> SUFFICES ASSUME NEW kind
               PROVE  (\E i \in 1 .. Len(prompt) + Len(prompt) : kind = (prompt \o prompt)[i])
                        <=> (\E j \in 1 .. Len(prompt) : kind = prompt[j])
    BY Zenon
  <2> QED BY <2>1, <2>2, Zenon
<1>6. \A i \in 1 .. Len(prompt \o prompt) : (prompt \o prompt)[i] \in PII
  BY <1>2, <1>1
<1> QED BY <1>1, <1>2, <1>5, <1>6 DEF Matches, FoundIn, TypesOf, prompt

LEMMA OnwardFact ==
  ASSUME NEW r \in Request, NEW i \in Nat
  PROVE  /\ i <= Len(Matches(r)) => Onward(r, i) = "look"
         /\ i > Len(Matches(r)) => Onward(r, i) = "record"
         /\ Onward(r, i) \in InDetector
  BY MatchesFact DEF Onward, InDetector

\* A request stays within its chain.
LEMMA PlaceFact ==
  ASSUME HooksTypeOK, NEW r \in Request, place[r] <= Len(chain), NextHook(r) \/ AfterError(r)
  PROVE  /\ place' \in [Request -> Nat]
         /\ \A s \in Request : place'[s] <= Len(chain) + 1
<1>1. Len(chain) \in Nat BY ChainAssumption DEF HooksTypeOK
<1>2. \/ place' = [place EXCEPT ![r] = place[r] + 1]
      \/ place' = [place EXCEPT ![r] = Len(chain) + 1]
  BY DEF NextHook, AfterError
<1>3. \E n \in Nat : n <= Len(chain) + 1 /\ place' = [place EXCEPT ![r] = n]
  <2>1. place[r] + 1 \in Nat /\ place[r] + 1 <= Len(chain) + 1 BY <1>1 DEF HooksTypeOK
  <2>2. Len(chain) + 1 \in Nat /\ Len(chain) + 1 <= Len(chain) + 1 BY <1>1
  <2> QED BY <1>2, <2>1, <2>2
<1> QED BY <1>3 DEF HooksTypeOK

LEMMA InitIInv == HooksInit => IInv
<1> SUFFICES ASSUME HooksInit PROVE IInv
  OBVIOUS
<1>1. Len(chain) \in Nat BY ChainAssumption DEF HooksInit
<1>2. HooksTypeOK BY <1>1, WindowAssumption DEF HooksInit, HooksTypeOK, InDetector
<1>3. \A r \in Request : Undisturbed(r) BY DEF HooksInit, Undisturbed, InDetector
<1> QED BY <1>2, <1>3 DEF IInv

LEMMA TypeStep == IInv /\ [HooksNext]_hvars => HooksTypeOK'
<1> SUFFICES ASSUME HooksTypeOK, \A r \in Request : Undisturbed(r), [HooksNext]_hvars PROVE HooksTypeOK'
  BY DEF IInv
<1> USE WindowAssumption DEF chaining, detector, limiter
<1>1. CASE UNCHANGED hvars BY <1>1 DEF hvars, HooksTypeOK
<1>2. CASE Elapse BY <1>2 DEF Elapse, HooksTypeOK
<1>3. ASSUME NEW r \in Request, PreExecute(r) \/ Noop(r) PROVE HooksTypeOK'
  <2>1. Len(chain) \in Nat BY ChainAssumption DEF HooksTypeOK
  <2>2. place[r] <= Len(chain) BY <1>3, <2>1 DEF PreExecute, Noop, At
  <2> QED BY <1>3, <2>2, PlaceFact DEF PreExecute, Noop, HooksTypeOK
<1>4. ASSUME NEW r \in Request, Detect(r) PROVE HooksTypeOK'
  <2>1. step' \in [Request -> {"out", "recorded"} \union InDetector]
    BY <1>4, OnwardFact DEF Detect, HooksTypeOK
  <2>2. overlapped' \in [Request -> BOOLEAN] BY <1>4, Zenon DEF Detect
  <2> QED BY <1>4, <2>1, <2>2 DEF Detect, HooksTypeOK
<1>5. ASSUME NEW r \in Request, Look(r) PROVE HooksTypeOK'
  <2>1. scan[r] + 1 \in Nat \ {0} BY DEF HooksTypeOK
  <2>2. Onward(r, scan[r] + 1) \in InDetector BY <2>1, OnwardFact
  <2>3. UNCHANGED <<chain, chainStrategy, clock, place, detectedTypes, piiTypes, overlapped,
                    requests, verdict, decidedAt>>
    BY <1>5 DEF Look
  <2>4. scan' \in [Request -> Nat \ {0}]
    <3>1. scan' = scan \/ scan' = [scan EXCEPT ![r] = scan[r] + 1]
      BY <1>5, Zenon DEF Look
    <3> QED BY <2>1, <3>1 DEF HooksTypeOK
  <2>5. step' \in [Request -> {"out", "recorded"} \union InDetector]
    <3>1. \E place_ \in InDetector : step' = [step EXCEPT ![r] = place_]
      <4>1. \/ step' = [step EXCEPT ![r] = Onward(r, scan[r] + 1)]
            \/ step' = [step EXCEPT ![r] = "append"]
        BY <1>5, Zenon DEF Look
      <4>2. "append" \in InDetector BY DEF InDetector
      <4> QED BY <2>2, <4>1, <4>2, Zenon
    <3> QED BY <3>1, Zenon DEF HooksTypeOK
  <2>6. seen' \in [Request -> SUBSET PII]
    <3>1. seen' = seen \/ seen' = [seen EXCEPT ![r] = detectedTypes]
      BY <1>5, Zenon DEF Look
    <3> QED BY <3>1 DEF HooksTypeOK
  <2> QED BY <2>3, <2>4, <2>5, <2>6 DEF HooksTypeOK
<1>6. ASSUME NEW r \in Request, AppendType(r) PROVE HooksTypeOK'
  <2>1. scan[r] + 1 \in Nat \ {0} BY DEF HooksTypeOK
  <2>2. Onward(r, scan[r] + 1) \in InDetector BY <2>1, OnwardFact
  <2>3. scan[r] \in 1 .. Len(Matches(r)) BY <1>6, MatchesFact DEF AppendType, Undisturbed, HooksTypeOK
  <2>4. detectedTypes' \subseteq PII BY <1>6, <2>3, MatchesFact DEF AppendType, HooksTypeOK
  <2> QED BY <1>6, <2>1, <2>2, <2>4 DEF AppendType, HooksTypeOK
<1>7. ASSUME NEW r \in Request, RecordTypes(r) PROVE HooksTypeOK'
  <2>1. Len(chain) \in Nat BY ChainAssumption DEF HooksTypeOK
  <2>2. place[r] <= Len(chain) BY <1>7, <2>1 DEF RecordTypes, Undisturbed, InDetector, At
  <2> QED BY <1>7, <2>2, PlaceFact DEF RecordTypes, HooksTypeOK
<1>8. ASSUME NEW r \in Request, Limit(r) PROVE HooksTypeOK'
  <2> DEFINE s == SessionOf[r]
  <2>1. s \in Session BY TraceInputAssumption
  <2>2. Len(chain) \in Nat BY ChainAssumption DEF HooksTypeOK
  <2>3. place[r] <= Len(chain) BY <1>8, <2>2 DEF Limit, At
  <2>4. /\ NextHook(r) \/ AfterError(r)
        /\ \E answer \in {"admitted", "refused"} : Decided(r, answer)
        /\ \/ requests' = [requests EXCEPT ![s] = NewWindow(clock)]
           \/ requests' = [requests EXCEPT ![s].count = @ + 1]
        /\ UNCHANGED <<chaining, clock, detector>>
    BY <1>8, Zenon DEF Limit
  <2>5. requests' \in [Session -> [count : Nat, startTime : 0 .. MaxClock]]
    <3>1. NewWindow(clock) \in [count : Nat, startTime : 0 .. MaxClock]
      BY DEF HooksTypeOK, NewWindow
    <3>2. [requests[s] EXCEPT !.count = @ + 1] \in [count : Nat, startTime : 0 .. MaxClock]
      <4>1. requests[s] \in [count : Nat, startTime : 0 .. MaxClock] BY <2>1 DEF HooksTypeOK
      <4>2. requests[s].count + 1 \in Nat BY <4>1
      <4> QED BY <4>1, <4>2
    <3>3. \E counter \in [count : Nat, startTime : 0 .. MaxClock] :
            requests' = [requests EXCEPT ![s] = counter]
      BY <2>4, <3>1, <3>2
    <3> QED BY <2>1, <3>3 DEF HooksTypeOK
  <2>6. /\ place' \in [Request -> Nat]
        /\ \A q \in Request : place'[q] <= Len(chain) + 1
    BY <2>3, <2>4, PlaceFact
  <2>7. /\ verdict' \in [Request -> {"none", "admitted", "refused"}]
        /\ decidedAt' \in [Request -> 0 .. MaxClock]
    BY <2>4 DEF HooksTypeOK, Decided
  <2> QED BY <2>4, <2>5, <2>6, <2>7 DEF HooksTypeOK
<1> QED BY <1>1, <1>2, <1>3, <1>4, <1>5, <1>6, <1>7, <1>8 DEF HooksNext, Run

\* Where a request goes that is not in the detector.
Elsewhere(r) ==
  /\ step[r] \notin InDetector
  /\ place' = [place EXCEPT ![r] = place'[r]]

LEMMA ElsewhereKeeps ==
  ASSUME IInv, NEW r \in Request, Elsewhere(r), UNCHANGED <<chain, detector>>
  PROVE  \A q \in Request : Undisturbed(q)'
<1> SUFFICES ASSUME NEW q \in Request PROVE Undisturbed(q)'
  OBVIOUS
<1>1. UNCHANGED <<chain, detectedTypes, step, scan, seen, piiTypes, overlapped>>
  BY DEF detector
<1>2. step[q] \in InDetector => At(q, "pii-detector")'
  <2>1. q # r /\ place \in [Request -> Nat] => place'[q] = place[q] BY DEF Elsewhere
  <2> QED BY <1>1, <2>1 DEF IInv, HooksTypeOK, Undisturbed, At, Elsewhere
<1> QED BY <1>1, <1>2 DEF IInv, Undisturbed, FoundIn, Matches, TypesOf

\* No other request at the detector's place is lost in it.
LEMMA OneDetector ==
  ASSUME HooksTypeOK, NEW r \in Request, At(r, "rate-limiter") \/ At(r, "noop") \/ place[r] = 0
  PROVE  ~At(r, "pii-detector")
  BY DEF At

LEMMA FoundMore ==
  ASSUME NEW r \in Request, NEW n \in 1 .. Len(Matches(r))
  PROVE  FoundIn(r, n) = FoundIn(r, n - 1) \union {Matches(r)[n]}
<1>1. \A i : i \in 1 .. n <=> i \in 1 .. n - 1 \/ i = n BY MatchesFact
<1> SUFFICES ASSUME NEW kind
             PROVE  (\E i \in 1 .. n : kind = Matches(r)[i])
                      <=> (\E i \in 1 .. n - 1 : kind = Matches(r)[i]) \/ kind = Matches(r)[n]
  BY Zenon DEF FoundIn
<1> QED BY <1>1, Zenon

\* A step of a request in the detector: whoever else is there has company.
LEMMA OthersKeep ==
  ASSUME IInv, NEW r \in Request, step[r] \in InDetector,
         NEW q \in Request \ {r}, UNCHANGED <<chain, overlapped>>,
         place'[q] = place[q], step'[q] = step[q], scan'[q] = scan[q],
         piiTypes'[q] = piiTypes[q]
  PROVE  Undisturbed(q)'
<1>1. Undisturbed(q) BY DEF IInv
<1>2. step[q] \in InDetector => overlapped[q] BY <1>1 DEF Undisturbed
<1> QED BY <1>1, <1>2 DEF Undisturbed, At, Matches, TypesOf

\* After a match has been dealt with: the field holds it, and so does what
\* the request has found.
LEMMA MatchDone ==
  ASSUME IInv, NEW r \in Request, step[r] \in {"look", "append"},
         UNCHANGED <<chain, overlapped, place>>,
         scan'[r] = scan[r] + 1, step'[r] = Onward(r, scan[r] + 1),
         \A s \in Request \ {r} : step'[s] = step[s],
         ~overlapped[r] => detectedTypes' = detectedTypes \union {Matches(r)[scan[r]]}
  PROVE  Undisturbed(r)'
<1>1. /\ Undisturbed(r) /\ scan[r] \in 1 .. Len(Matches(r)) /\ Len(Matches(r)) \in Nat
      /\ step[r] \in InDetector
  BY MatchesFact DEF IInv, HooksTypeOK, Undisturbed, InDetector
<1>2. /\ Onward(r, scan[r] + 1) = "look" => scan[r] + 1 <= Len(Matches(r))
      /\ Onward(r, scan[r] + 1) = "record" => scan[r] + 1 = Len(Matches(r)) + 1
      /\ Onward(r, scan[r] + 1) \in {"look", "record"}
  BY <1>1 DEF Onward
<1>3. ~overlapped[r] =>
        /\ \A s \in Request \ {r} : step'[s] \notin InDetector
        /\ detectedTypes' = FoundIn(r, scan[r])
  <2>1. FoundIn(r, scan[r]) = FoundIn(r, scan[r] - 1) \union {Matches(r)[scan[r]]}
    BY <1>1, FoundMore
  <2> QED BY <1>1, <2>1 DEF Undisturbed
<1>4. (scan[r] + 1) - 1 = scan[r] BY <1>1
<1>5. At(r, "pii-detector")' BY <1>1 DEF Undisturbed, At
<1> QED BY <1>2, <1>3, <1>4, <1>5 DEF Undisturbed, InDetector, Matches, FoundIn

LEMMA UndisturbedStep == IInv /\ [HooksNext]_hvars => \A q \in Request : Undisturbed(q)'
<1> SUFFICES ASSUME IInv, [HooksNext]_hvars PROVE \A q \in Request : Undisturbed(q)'
  OBVIOUS
<1>0. HooksTypeOK /\ \A q \in Request : Undisturbed(q) BY DEF IInv
<1>1. CASE UNCHANGED hvars \/ Elapse
  BY <1>0, <1>1 DEF hvars, chaining, detector, Elapse, Undisturbed, At, FoundIn, Matches, TypesOf
<1>2. ASSUME NEW r \in Request, PreExecute(r) \/ Noop(r) \/ Limit(r)
      PROVE  \A q \in Request : Undisturbed(q)'
  <2>1. step[r] \notin InDetector
    BY <1>0, <1>2, OneDetector DEF PreExecute, Noop, Limit, Undisturbed
  <2>2. NextHook(r) \/ AfterError(r)
    BY <1>2, Zenon DEF PreExecute, Noop, Limit
  <2>3. Elsewhere(r) BY <1>0, <2>1, <2>2 DEF Elsewhere, NextHook, AfterError, HooksTypeOK
  <2>4. UNCHANGED <<chain, detector>> BY <1>2, Zenon DEF PreExecute, Noop, Limit, chaining
  <2> QED BY <2>3, <2>4, ElsewhereKeeps
<1>3. ASSUME NEW r \in Request, Detect(r)
      PROVE  \A q \in Request : Undisturbed(q)'
  <2>1. /\ step[r] = "out" /\ At(r, "pii-detector")
        /\ UNCHANGED <<chain, place, scan, seen, piiTypes>>
        /\ detectedTypes' = {}
        /\ step' = [step EXCEPT ![r] = Onward(r, 1)]
    BY <1>3, Zenon DEF Detect, chaining
  <2>0. \A s \in Request : overlapped'[s] <=> overlapped[s] \/ s \in InCompany(r)
    BY <1>3, Zenon DEF Detect
  <2>2. /\ step'[r] = Onward(r, 1) /\ \A s \in Request \ {r} : step'[s] = step[s]
        /\ scan'[r] = 1
    BY <1>0, <2>1 DEF HooksTypeOK, Undisturbed
  <2>3. Undisturbed(r)'
    <3>1. /\ Onward(r, 1) = "look" => 1 <= Len(Matches(r))
          /\ Onward(r, 1) = "record" => Len(Matches(r)) = 0
          /\ Onward(r, 1) \in {"look", "record"}
      BY MatchesFact DEF Onward
    <3>2. FoundIn(r, 0) = {} BY DEF FoundIn
    <3>3. ~overlapped'[r] => \A s \in Request \ {r} : step[s] \notin InDetector
      BY <2>0 DEF InCompany, Others
    <3> QED BY <2>1, <2>2, <3>1, <3>2, <3>3 DEF Undisturbed, InDetector, At, FoundIn, Matches
  <2>4. ASSUME NEW q \in Request \ {r} PROVE Undisturbed(q)'
    <3>1. step[q] \in InDetector => overlapped'[q] BY <2>0, <2>4 DEF InCompany, Others
    <3>2. overlapped[q] => overlapped'[q] BY <2>0, Zenon
    <3> QED BY <1>0, <2>1, <2>2, <3>1, <3>2 DEF Undisturbed, At, Matches, TypesOf, InDetector
  <2> QED BY <2>3, <2>4
<1>4. ASSUME NEW r \in Request, Look(r)
      PROVE  \A q \in Request : Undisturbed(q)'
  <2> DEFINE match == Matches(r)[scan[r]]
  <2>1. /\ step[r] = "look" /\ step[r] \in InDetector
        /\ UNCHANGED <<chain, place, detectedTypes, piiTypes, overlapped>>
    BY <1>4, Zenon DEF Look, chaining, InDetector
  <2>2. CASE match \in detectedTypes
    <3>1. /\ scan' = [scan EXCEPT ![r] = scan[r] + 1] /\ UNCHANGED seen
          /\ step' = [step EXCEPT ![r] = Onward(r, scan[r] + 1)]
      BY <1>4, <2>2 DEF Look
    <3>2. Undisturbed(r)' BY <1>0, <2>1, <2>2, <3>1, MatchDone DEF HooksTypeOK
    <3>3. \A q \in Request \ {r} : step'[q] = step[q] /\ scan'[q] = scan[q]
      BY <1>0, <3>1 DEF HooksTypeOK
    <3> QED BY <2>1, <3>2, <3>3, OthersKeep
  <2>3. CASE match \notin detectedTypes
    <3>1. /\ seen' = [seen EXCEPT ![r] = detectedTypes] /\ UNCHANGED scan
          /\ step' = [step EXCEPT ![r] = "append"]
      BY <1>4, <2>3 DEF Look
    <3>2. /\ step'[r] = "append" /\ seen'[r] = detectedTypes
          /\ \A q \in Request \ {r} : step'[q] = step[q]
      BY <1>0, <3>1 DEF HooksTypeOK
    <3>3. Undisturbed(r)'
      BY <1>0, <2>1, <3>1, <3>2 DEF Undisturbed, InDetector, At, FoundIn, Matches
    <3> QED BY <2>1, <3>1, <3>2, <3>3, OthersKeep
  <2> QED BY <2>2, <2>3
<1>5. ASSUME NEW r \in Request, AppendType(r)
      PROVE  \A q \in Request : Undisturbed(q)'
  <2>1. /\ step[r] = "append" /\ step[r] \in InDetector
        /\ UNCHANGED <<chain, place, piiTypes, overlapped>>
        /\ detectedTypes' = seen[r] \union {Matches(r)[scan[r]]}
        /\ scan' = [scan EXCEPT ![r] = scan[r] + 1]
        /\ step' = [step EXCEPT ![r] = Onward(r, scan[r] + 1)]
    BY <1>5 DEF AppendType, chaining, InDetector
  <2>2. ~overlapped[r] => seen[r] = detectedTypes BY <1>0, <2>1 DEF Undisturbed
  <2>3. /\ scan'[r] = scan[r] + 1 /\ step'[r] = Onward(r, scan[r] + 1)
        /\ \A q \in Request \ {r} : step'[q] = step[q] /\ scan'[q] = scan[q]
    BY <1>0, <2>1 DEF HooksTypeOK
  <2>4. Undisturbed(r)' BY <2>1, <2>2, <2>3, MatchDone
  <2> QED BY <2>1, <2>3, <2>4, OthersKeep
<1>6. ASSUME NEW r \in Request, RecordTypes(r)
      PROVE  \A q \in Request : Undisturbed(q)'
  <2>1. /\ step[r] = "record" /\ step[r] \in InDetector
        /\ UNCHANGED <<chain, scan, overlapped>>
        /\ piiTypes' = [piiTypes EXCEPT ![r] = detectedTypes]
        /\ step' = [step EXCEPT ![r] = "recorded"]
        /\ place' = [place EXCEPT ![r] = @ + 1]
    BY <1>6 DEF RecordTypes, NextHook, chaining, InDetector
  <2>2. /\ step'[r] = "recorded" /\ piiTypes'[r] = detectedTypes
        /\ \A q \in Request \ {r} :
             step'[q] = step[q] /\ piiTypes'[q] = piiTypes[q] /\ place'[q] = place[q]
    BY <1>0, <2>1 DEF HooksTypeOK
  <2>3. ~overlapped[r] => detectedTypes = TypesOf(r)
    <3>1. scan[r] - 1 = Len(Matches(r)) BY <1>0, <2>1, MatchesFact DEF Undisturbed
    <3> QED BY <1>0, <2>1, <3>1, MatchesFact DEF Undisturbed
  <2>4. Undisturbed(r)' BY <2>1, <2>2, <2>3 DEF Undisturbed, InDetector, TypesOf
  <2> QED BY <2>1, <2>2, <2>4, OthersKeep
<1> QED BY <1>1, <1>2, <1>3, <1>4, <1>5, <1>6 DEF HooksNext, Run

LEMMA IInvHolds == HooksSpec => []IInv
<1>1. IInv /\ [HooksNext]_hvars => IInv' BY TypeStep, UndisturbedStep DEF IInv
<1> QED BY InitIInv, <1>1, PTL DEF HooksSpec

\* The hooks' state has its types, and no request leaves its chain.
THEOREM HooksTypeCorrect == HooksSpec => []HooksTypeOK
<1>1. IInv => HooksTypeOK BY DEF IInv
<1> QED BY <1>1, IInvHolds, PTL

\* The detector's field is shared by all requests and has no lock
\* (PIIDetectorHook.detectedTypes): a trace that was alone in the detector
\* nevertheless reports exactly what its prompt contains, however many
\* requests there are and in whatever order they come.
THEOREM ReportsItsOwnHolds == HooksSpec => []ReportsItsOwn
<1>1. IInv => ReportsItsOwn BY DEF IInv, Undisturbed, ReportsItsOwn
<1> QED BY <1>1, IInvHolds, PTL

-----------------------------------------------------------------------------
(***************************************************************************)
(* The rate limiter.  A window is fixed, and a period of a minute reaches  *)
(* into two of them at most.                                               *)
(***************************************************************************)
AdmittedOf(s) == {r \in Request : verdict[r] = "admitted" /\ SessionOf[r] = s}

\* Those admitted in the window of the session, and those admitted within a
\* minute before it was opened.
InWindow(s) == {r \in AdmittedOf(s) : decidedAt[r] >= requests[s].startTime}
Before(s) ==
  {r \in AdmittedOf(s) : /\ decidedAt[r] < requests[s].startTime
                         /\ decidedAt[r] + Minute >= requests[s].startTime}

\* When a session's requests have been admitted, and how many of them.
Timely(s) ==
  /\ requests[s].startTime <= clock
  /\ requests[s].count = 0 => AdmittedOf(s) = {}
  /\ \A r \in AdmittedOf(s) :
       decidedAt[r] <= requests[s].startTime + Minute /\ decidedAt[r] <= clock
Counted(s) ==
  /\ Cardinality(InWindow(s)) <= requests[s].count
  /\ Cardinality(InWindow(s)) <= MaxRequestsPerMinute
  /\ Cardinality(Before(s)) <= MaxRequestsPerMinute
AnyMinute(s) ==
  \A t \in 0 .. MaxClock :
    Cardinality(Admitted(s, t, t + Minute)) <= 2 * MaxRequestsPerMinute

Windows == \A s \in Session : Timely(s) /\ Counted(s) /\ AnyMinute(s)

\* A set of requests within another has no more of them.
LEMMA Fewer ==
  ASSUME NEW T \in SUBSET Request, NEW S \in SUBSET T
  PROVE  /\ IsFiniteSet(S) /\ IsFiniteSet(T)
         /\ Cardinality(S) \in Nat /\ Cardinality(T) \in Nat
         /\ Cardinality(S) <= Cardinality(T)
<1>1. IsFiniteSet(T)
  BY RequestFiniteAssumption, FS_Subset
<1>2. IsFiniteSet(S) /\ Cardinality(S) <= Cardinality(T)
  BY <1>1, FS_Subset
<1> QED
  BY <1>1, <1>2, FS_CardinalityType

\* One more request is at most one more.
LEMMA OneMoreRequest ==
  ASSUME NEW T \in SUBSET Request, NEW r \in Request,
         NEW S \in SUBSET (T \union {r})
  PROVE  Cardinality(S) <= Cardinality(T) + 1
<1>1. IsFiniteSet(T) /\ Cardinality(T) \in Nat
  BY Fewer
<1>2. /\ Cardinality(T \union {r}) <= Cardinality(T) + 1
      /\ Cardinality(T \union {r}) \in Nat
  <2>1. Cardinality(T \union {r}) =
          IF r \in T THEN Cardinality(T) ELSE Cardinality(T) + 1
    BY <1>1, FS_AddElement
  <2> QED
    BY <1>1, <2>1
<1>3. Cardinality(S) <= Cardinality(T \union {r}) /\ Cardinality(S) \in Nat
  <2>1. T \union {r} \in SUBSET Request
    OBVIOUS
  <2> QED
    BY <2>1, Fewer
<1> QED
  BY <1>1, <1>2, <1>3

\* What lies within two sets is no more than both have.
LEMMA WithinTwo ==
  ASSUME NEW T \in SUBSET Request, NEW U \in SUBSET Request,
         NEW S \in SUBSET (T \union U), NEW n \in Nat,
         Cardinality(T) <= n, Cardinality(U) <= n
  PROVE  Cardinality(S) <= 2 * n
<1>1. /\ IsFiniteSet(T) /\ IsFiniteSet(U)
      /\ Cardinality(T) \in Nat /\ Cardinality(U) \in Nat
  BY Fewer
<1>2. T \cap U \in SUBSET Request
  OBVIOUS
<1>3. Cardinality(T \cap U) \in Nat
  BY <1>2, Fewer
<1>4. Cardinality(T \union U) = Cardinality(T) + Cardinality(U) - Cardinality(T \cap U)
  BY <1>1, FS_Union
<1>5. T \union U \in SUBSET Request
  OBVIOUS
<1>6. /\ Cardinality(S) <= Cardinality(T \union U)
      /\ Cardinality(S) \in Nat /\ Cardinality(T \union U) \in Nat
  BY <1>5, Fewer
<1> QED
  BY <1>1, <1>3, <1>4, <1>6

\* In terms of the state, so that the lemmas above apply.
LEMMA AdmittedAre ==
  \A s \in Session : \A from, to :
    /\ AdmittedOf(s) \in SUBSET Request
    /\ InWindow(s) \in SUBSET Request /\ Before(s) \in SUBSET Request
    /\ Admitted(s, from, to) = {r \in AdmittedOf(s) : decidedAt[r] \in from .. to}
BY DEF AdmittedOf, InWindow, Before, Admitted

LEMMA InitWindows == HooksInit => Windows
<1> SUFFICES ASSUME HooksInit, NEW s \in Session PROVE Timely(s) /\ Counted(s) /\ AnyMinute(s)
  BY DEF Windows
<1>1. AdmittedOf(s) = {} /\ requests[s] = [count |-> 0, startTime |-> 0] /\ clock = 0
  BY DEF HooksInit, AdmittedOf
<1>2. InWindow(s) = {} /\ Before(s) = {} /\ \A t \in 0 .. MaxClock : Admitted(s, t, t + Minute) = {}
  BY <1>1, AdmittedAre DEF InWindow, Before
<1>3. Cardinality({}) = 0
  BY FS_EmptySet
<1>4. Timely(s)
  BY <1>1, WindowAssumption DEF Timely
<1>5. Counted(s)
  <2>1. /\ Cardinality(InWindow(s)) = 0 /\ Cardinality(Before(s)) = 0
        /\ requests[s].count = 0
    BY <1>1, <1>2, <1>3
  <2> QED
    BY <2>1, WindowAssumption DEF Counted
<1>6. AnyMinute(s)
  <2>1. \A t \in 0 .. MaxClock : Cardinality(Admitted(s, t, t + Minute)) = 0
    BY <1>2, <1>3
  <2>2. 0 <= 2 * MaxRequestsPerMinute
    BY WindowAssumption
  <2> QED
    BY <2>1, <2>2 DEF AnyMinute
<1> QED
  BY <1>4, <1>5, <1>6

\* A session is as it was when neither its counter nor its requests change.
LEMMA SessionKept ==
  ASSUME HooksTypeOK, NEW s \in Session, Timely(s), Counted(s), AnyMinute(s),
         requests'[s] = requests[s], clock' \in Nat, clock <= clock',
         \A q \in Request : SessionOf[q] = s =>
           verdict'[q] = verdict[q] /\ decidedAt'[q] = decidedAt[q]
  PROVE  (Timely(s) /\ Counted(s) /\ AnyMinute(s))'
<1>1. /\ AdmittedOf(s)' = AdmittedOf(s)
      /\ \A q \in AdmittedOf(s) : decidedAt'[q] = decidedAt[q]
  BY DEF AdmittedOf
<1>2. InWindow(s)' = InWindow(s) /\ Before(s)' = Before(s)
  BY <1>1 DEF InWindow, Before
<1>3. \A t \in 0 .. MaxClock : Admitted(s, t, t + Minute)' = Admitted(s, t, t + Minute)
  BY DEF Admitted
<1>4. clock \in Nat /\ requests[s].startTime \in Nat /\ \A q \in Request : decidedAt[q] \in Nat
  BY DEF HooksTypeOK
<1>5. Timely(s)'
  BY <1>1, <1>4 DEF Timely, AdmittedOf
<1> QED
  BY <1>2, <1>3, <1>5 DEF Counted, AnyMinute

\* What a decision changes in the session it is about: r has the verdict and
\* the time, and all others have what they had.
DecidedAlone(r, answer) ==
  /\ verdict'[r] = answer /\ decidedAt'[r] = clock
  /\ \A q \in Request : q # r => verdict'[q] = verdict[q] /\ decidedAt'[q] = decidedAt[q]

LEMMA DecidedFact ==
  ASSUME HooksTypeOK, NEW r \in Request, NEW answer, Decided(r, answer)
  PROVE  DecidedAlone(r, answer)
BY DEF HooksTypeOK, Decided, DecidedAlone

\* Every period of a minute that a new admission falls into lies within the
\* window and the minute before it.
LEMMA MinuteOf ==
  ASSUME HooksTypeOK, HooksTypeOK', NEW s \in Session, AnyMinute(s), Timely(s)', Counted(s)',
         NEW r \in Request, UNCHANGED clock,
         \/ DecidedAlone(r, "admitted")
         \/ DecidedAlone(r, "refused")
  PROVE  AnyMinute(s)'
<1> SUFFICES ASSUME NEW t \in 0 .. MaxClock
             PROVE  Cardinality(Admitted(s, t, t + Minute)') <= 2 * MaxRequestsPerMinute
  BY DEF AnyMinute
<1>0. /\ Minute \in Nat /\ MaxRequestsPerMinute \in Nat /\ clock \in Nat /\ t \in Nat
      /\ requests'[s].startTime \in Nat
      /\ \A q \in Request : decidedAt[q] \in Nat /\ decidedAt'[q] \in Nat
  BY WindowAssumption DEF HooksTypeOK
<1>1. /\ Admitted(s, t, t + Minute) \in SUBSET Request
      /\ InWindow(s)' \in SUBSET Request /\ Before(s)' \in SUBSET Request
      /\ Admitted(s, t, t + Minute)' \in SUBSET Request
  BY DEF Admitted, InWindow, Before, AdmittedOf
<1>2. CASE clock \in t .. t + Minute
  <2>1. Admitted(s, t, t + Minute)' \subseteq InWindow(s)' \union Before(s)'
    <3> SUFFICES ASSUME NEW q \in Request, q \in Admitted(s, t, t + Minute)',
                        q \notin InWindow(s)'
                 PROVE  q \in Before(s)'
      BY <1>1
    <3>1. q \in AdmittedOf(s)' /\ decidedAt'[q] >= t
      BY <1>0 DEF Admitted, AdmittedOf
    <3>2. decidedAt'[q] < requests'[s].startTime
      BY <1>0, <3>1 DEF InWindow
    <3>3. requests'[s].startTime <= clock
      BY DEF Timely
    <3>4. decidedAt'[q] + Minute >= requests'[s].startTime
      BY <1>0, <1>2, <3>1, <3>3
    <3> QED
      BY <3>1, <3>2, <3>4 DEF Before
  <2> QED
    BY <1>0, <1>1, <2>1, WithinTwo DEF Counted
<1>3. CASE clock \notin t .. t + Minute
  <2>1. Admitted(s, t, t + Minute)' \subseteq Admitted(s, t, t + Minute)
    BY <1>3 DEF Admitted, DecidedAlone
  <2>2. /\ Cardinality(Admitted(s, t, t + Minute)') <= Cardinality(Admitted(s, t, t + Minute))
        /\ Cardinality(Admitted(s, t, t + Minute)') \in Nat
        /\ Cardinality(Admitted(s, t, t + Minute)) \in Nat
    BY <1>1, <2>1, Fewer
  <2>3. Cardinality(Admitted(s, t, t + Minute)) <= 2 * MaxRequestsPerMinute
    BY DEF AnyMinute
  <2> QED
    BY <1>0, <2>2, <2>3
<1> QED
  BY <1>2, <1>3

\* The limiter keeps count of the session whose request it decides.
LEMMA LimitCounts ==
  ASSUME HooksTypeOK, HooksTypeOK', Windows, NEW r \in Request, Limit(r)
  PROVE  LET s == SessionOf[r] IN (Timely(s) /\ Counted(s) /\ AnyMinute(s))'
<1> DEFINE s == SessionOf[r]
           start == requests[s].startTime
<1>0. /\ s \in Session /\ Timely(s) /\ Counted(s) /\ AnyMinute(s)
      /\ Minute \in Nat /\ MaxRequestsPerMinute \in Nat /\ MaxRequestsPerMinute >= 1
      /\ clock \in Nat /\ UNCHANGED clock
      /\ requests[s] \in [count : Nat, startTime : 0 .. MaxClock]
      /\ start \in Nat /\ requests[s].count \in Nat
      /\ \A q \in Request : decidedAt[q] \in Nat
  <2>1. s \in Session /\ UNCHANGED clock
    <3>1. UNCHANGED clock
      BY Zenon DEF Limit
    <3> QED
      BY <3>1, TraceInputAssumption
  <2>2. Timely(s) /\ Counted(s) /\ AnyMinute(s)
    BY <2>1 DEF Windows
  <2>3. /\ requests[s] \in [count : Nat, startTime : 0 .. MaxClock]
        /\ clock \in 0 .. MaxClock /\ \A q \in Request : decidedAt[q] \in 0 .. MaxClock
    BY <2>1 DEF HooksTypeOK
  <2> QED
    BY <2>1, <2>2, <2>3, WindowAssumption
<1>1. /\ InWindow(s) \in SUBSET Request /\ Before(s) \in SUBSET Request
      /\ InWindow(s)' \in SUBSET Request /\ Before(s)' \in SUBSET Request
  BY DEF AdmittedOf, InWindow, Before
<1>2. /\ Cardinality(InWindow(s)) \in Nat /\ Cardinality(Before(s)) \in Nat
      /\ Cardinality(InWindow(s)') \in Nat /\ Cardinality(Before(s)') \in Nat
  BY <1>1, Fewer
<1>3. CASE /\ Expired(requests[s]) /\ Decided(r, "admitted")
           /\ requests' = [requests EXCEPT ![s] = NewWindow(clock)]
  <2>1. /\ requests'[s].startTime = clock /\ requests'[s].count = 1
        /\ DecidedAlone(r, "admitted")
    BY <1>0, <1>3, DecidedFact DEF HooksTypeOK, NewWindow
  <2>2. \A q \in AdmittedOf(s) :
          decidedAt[q] <= start + Minute /\ start + Minute < clock
    BY <1>0, <1>3 DEF Timely, Expired
  <2>3. AdmittedOf(s)' \subseteq AdmittedOf(s) \union {r}
    BY <2>1 DEF AdmittedOf, DecidedAlone
  <2>4. InWindow(s)' \subseteq {r}
    <3> SUFFICES ASSUME NEW q \in AdmittedOf(s)', decidedAt'[q] >= clock, q # r PROVE FALSE
      BY <2>1 DEF InWindow
    <3>1. q \in AdmittedOf(s) /\ decidedAt'[q] = decidedAt[q]
      BY <2>1, <2>3 DEF DecidedAlone, AdmittedOf
    <3> QED
      BY <1>0, <2>2, <3>1 DEF AdmittedOf
  <2>5. Before(s)' \subseteq InWindow(s)
    <3> SUFFICES ASSUME NEW q \in AdmittedOf(s)', decidedAt'[q] < clock,
                        decidedAt'[q] + Minute >= clock
                 PROVE  q \in InWindow(s)
      BY <2>1 DEF Before
    <3>1. q # r
      BY <1>0, <2>1 DEF DecidedAlone
    <3>2. q \in AdmittedOf(s) /\ decidedAt'[q] = decidedAt[q] /\ q \in Request
      BY <2>1, <2>3, <3>1 DEF DecidedAlone, AdmittedOf
    <3>3. decidedAt[q] >= start
      BY <1>0, <2>2, <3>2
    <3> QED
      BY <3>2, <3>3 DEF InWindow
  <2>6. Timely(s)'
    <3> SUFFICES ASSUME NEW q \in AdmittedOf(s)'
                 PROVE  decidedAt'[q] <= clock + Minute /\ decidedAt'[q] <= clock
      BY <1>0, <2>1 DEF Timely
    <3>1. CASE q = r
      BY <1>0, <2>1, <3>1 DEF DecidedAlone
    <3>2. CASE q # r
      <4>1. q \in AdmittedOf(s) /\ decidedAt'[q] = decidedAt[q] /\ q \in Request
        BY <2>1, <2>3, <3>2 DEF DecidedAlone, AdmittedOf
      <4> QED
        BY <1>0, <2>2, <4>1 DEF Timely
    <3> QED
      BY <3>1, <3>2
  <2>7. Counted(s)'
    <3>1. Cardinality({r}) = 1 /\ {r} \in SUBSET Request
      BY FS_Singleton
    <3>2. Cardinality(InWindow(s)') <= 1
      BY <2>4, <3>1, Fewer
    <3>3. Cardinality(Before(s)') <= Cardinality(InWindow(s))
      BY <1>1, <2>5, Fewer
    <3> QED
      BY <1>0, <1>2, <2>1, <3>2, <3>3 DEF Counted
  <2> QED
    BY <1>0, <2>1, <2>6, <2>7, MinuteOf
<1>4. CASE /\ ~Expired(requests[s])
           /\ requests' = [requests EXCEPT ![s].count = @ + 1]
  <2>1. /\ requests'[s].startTime = start
        /\ requests'[s].count = requests[s].count + 1
        /\ start <= clock /\ clock <= start + Minute
    <3>1. start <= clock
      BY <1>0 DEF Timely
    <3>2. clock <= start + Minute
      BY <1>0, <1>4, <3>1 DEF Expired
    <3>3. requests'[s].startTime = start /\ requests'[s].count = requests[s].count + 1
      BY <1>0, <1>4 DEF HooksTypeOK
    <3> QED
      BY <3>1, <3>2, <3>3
  <2>2. CASE requests[s].count + 1 <= MaxRequestsPerMinute /\ Decided(r, "admitted")
    <3>1. DecidedAlone(r, "admitted")
      BY <2>2, DecidedFact
    <3>2. /\ AdmittedOf(s)' \subseteq AdmittedOf(s) \union {r}
          /\ \A q \in AdmittedOf(s)' : q # r => decidedAt'[q] = decidedAt[q]
          /\ decidedAt'[r] = clock
      BY <3>1 DEF AdmittedOf, DecidedAlone
    <3>3. InWindow(s)' \subseteq InWindow(s) \union {r}
      BY <2>1, <3>2 DEF InWindow
    <3>4. Before(s)' \subseteq Before(s)
      BY <1>0, <2>1, <3>2 DEF Before
    <3>5. Timely(s)'
      BY <1>0, <2>1, <3>2 DEF Timely
    <3>6. Counted(s)'
      <4>1. Cardinality(InWindow(s)') <= Cardinality(InWindow(s)) + 1
        BY <1>1, <3>3, OneMoreRequest
      <4>2. Cardinality(Before(s)') <= Cardinality(Before(s))
        BY <1>1, <3>4, Fewer
      <4> QED
        BY <1>0, <1>2, <2>1, <2>2, <4>1, <4>2 DEF Counted
    <3> QED
      BY <1>0, <3>1, <3>5, <3>6, MinuteOf
  <2>3. CASE Decided(r, "refused")
    <3>1. DecidedAlone(r, "refused")
      BY <2>3, DecidedFact
    <3>2. /\ AdmittedOf(s)' \subseteq AdmittedOf(s)
          /\ \A q \in AdmittedOf(s)' : decidedAt'[q] = decidedAt[q]
      BY <3>1 DEF AdmittedOf, DecidedAlone
    <3>3. InWindow(s)' \subseteq InWindow(s) /\ Before(s)' \subseteq Before(s)
      BY <2>1, <3>2 DEF InWindow, Before
    <3>4. Timely(s)'
      BY <1>0, <2>1, <3>2 DEF Timely
    <3>5. Counted(s)'
      <4>1. /\ Cardinality(InWindow(s)') <= Cardinality(InWindow(s))
            /\ Cardinality(Before(s)') <= Cardinality(Before(s))
        BY <1>1, <3>3, Fewer
      <4> QED
        BY <1>0, <1>2, <2>1, <4>1 DEF Counted
    <3> QED
      BY <1>0, <3>1, <3>4, <3>5, MinuteOf
  <2> QED
    BY <1>0, <1>4, <2>2, <2>3 DEF Limit
<1> QED
  BY <1>3, <1>4 DEF Limit

\* Every step keeps the windows.
LEMMA StepWindows == IInv /\ Windows /\ [HooksNext]_hvars => Windows'
<1> SUFFICES ASSUME IInv, Windows, [HooksNext]_hvars PROVE Windows'
  OBVIOUS
<1>0. HooksTypeOK /\ HooksTypeOK' /\ \A s \in Session : Timely(s) /\ Counted(s) /\ AnyMinute(s)
  BY TypeStep DEF IInv, Windows
<1>1. CASE UNCHANGED limiter /\ clock' \in Nat /\ clock <= clock'
  BY <1>0, <1>1, SessionKept DEF limiter, Windows
<1>2. ASSUME NEW r \in Request, Limit(r) PROVE Windows'
  <2> DEFINE s == SessionOf[r]
  <2>1. (Timely(s) /\ Counted(s) /\ AnyMinute(s))'
    BY <1>0, <1>2, LimitCounts
  <2>2. ASSUME NEW u \in Session, u # s PROVE (Timely(u) /\ Counted(u) /\ AnyMinute(u))'
    <3>1. /\ \E c : requests' = [requests EXCEPT ![s] = c]
          /\ \E answer : Decided(r, answer)
          /\ UNCHANGED clock
      BY <1>2, Zenon DEF Limit
    <3>2. requests'[u] = requests[u]
      BY <1>0, <2>2, <3>1 DEF HooksTypeOK
    <3>3. \A q \in Request : q # r => verdict'[q] = verdict[q] /\ decidedAt'[q] = decidedAt[q]
      BY <1>0, <3>1, DecidedFact DEF DecidedAlone
    <3>4. clock' \in Nat /\ clock <= clock'
      BY <1>0, <3>1 DEF HooksTypeOK
    <3> QED
      BY <1>0, <2>2, <3>2, <3>3, <3>4, SessionKept
  <2> QED
    BY <2>1, <2>2 DEF Windows
<1>3. clock \in Nat /\ clock + 1 \in Nat /\ clock <= clock + 1
  BY <1>0 DEF HooksTypeOK
<1>4. CASE Elapse
  BY <1>1, <1>3, <1>4 DEF Elapse
<1>5. ASSUME NEW r \in Request, PreExecute(r) \/ Noop(r) \/ Detect(r) \/ Look(r)
                                \/ AppendType(r) \/ RecordTypes(r)
      PROVE  Windows'
  <2>1. UNCHANGED limiter /\ UNCHANGED clock
    BY <1>5, Zenon DEF PreExecute, Noop, Detect, Look, AppendType, RecordTypes
  <2> QED
    BY <1>1, <1>3, <2>1
<1>6. CASE UNCHANGED hvars
  BY <1>1, <1>3, <1>6 DEF hvars
<1> QED
  BY <1>2, <1>4, <1>5, <1>6 DEF HooksNext, Run

\* However many requests there are and whenever they come, and however often
\* RateLimitHook is in the chain, no minute sees more than two windows' worth of
\* admitted requests of one session.
THEOREM TwoWindowsAtMostHolds == HooksSpec => []TwoWindowsAtMost
<1>1. HooksInit => IInv /\ Windows
  BY InitIInv, InitWindows
<1>2. IInv /\ Windows /\ [HooksNext]_hvars => IInv' /\ Windows'
  BY TypeStep, UndisturbedStep, StepWindows DEF IInv
<1>3. Windows => TwoWindowsAtMost
  BY DEF Windows, AnyMinute, TwoWindowsAtMost
<1> QED
  BY <1>1, <1>2, <1>3, PTL DEF HooksSpec

-----------------------------------------------------------------------------
(***************************************************************************)
(* The limiter's refusals, for chains that name it once: one that names it *)
(* twice counts a request twice.                                           *)
(***************************************************************************)
LimiterOnce ==
  \A names \in Chains : \A i, j \in DOMAIN names :
    names[i] = "rate-limiter" /\ names[j] = "rate-limiter" => i = j

\* Who has an answer of the limiter has passed it.
Passed(r) ==
  verdict[r] # "none" =>
    \A i \in 1 .. Len(chain) : chain[i] = "rate-limiter" => place[r] > i

\* The counter stands for admissions until the window is full.
Backed(s) ==
  \/ Cardinality(InWindow(s)) >= requests[s].count
  \/ Cardinality(InWindow(s)) >= MaxRequestsPerMinute

Since(t) == IF t < Minute THEN 0 ELSE t - Minute

\* RefusedForCause, for one request and the time of its refusal.
FullAt(s, t) == Cardinality(Admitted(s, Since(t), t)) >= MaxRequestsPerMinute
HasCause(r) ==
  \A t \in 0 .. MaxClock :
    verdict[r] = "refused" /\ decidedAt[r] = t => FullAt(SessionOf[r], t)

Refusals ==
  /\ \A r \in Request : Passed(r) /\ HasCause(r)
  /\ \A s \in Session : Backed(s)

LEMMA InitRefusals == HooksInit => Refusals
<1> SUFFICES ASSUME HooksInit PROVE Refusals
  OBVIOUS
<1>1. \A r \in Request : verdict[r] = "none"
  BY DEF HooksInit
<1>2. ASSUME NEW s \in Session PROVE Backed(s)
  <2>1. InWindow(s) = {} /\ requests[s].count = 0
    BY <1>1 DEF HooksInit, InWindow, AdmittedOf
  <2>2. Cardinality({}) = 0
    BY FS_EmptySet
  <2> QED
    BY <2>1, <2>2 DEF Backed
<1> QED
  BY <1>1, <1>2 DEF Refusals, Passed, HasCause

\* Nobody goes back in the chain.
LEMMA PassedKept ==
  ASSUME HooksTypeOK, Refusals, NEW r \in Request, NextHook(r) \/ AfterError(r) \/ UNCHANGED place,
         place[r] <= Len(chain), UNCHANGED <<chain, verdict>>
  PROVE  \A q \in Request : Passed(q)'
<1>1. Len(chain) \in Nat /\ \A q \in Request : place[q] \in Nat
  BY ChainAssumption DEF HooksTypeOK
<1>2. \A q \in Request : place'[q] >= place[q] /\ place'[q] \in Nat
  <2>1. \/ place' = [place EXCEPT ![r] = place[r] + 1]
        \/ place' = [place EXCEPT ![r] = Len(chain) + 1]
        \/ place' = place
    BY DEF NextHook, AfterError
  <2>2. /\ place[r] + 1 \in Nat /\ place[r] + 1 >= place[r]
        /\ Len(chain) + 1 \in Nat /\ Len(chain) + 1 >= place[r]
    BY <1>1
  <2>3. \A q \in Request : place[q] >= place[q]
    BY <1>1
  <2> QED
    BY <1>1, <2>1, <2>2, <2>3 DEF HooksTypeOK
<1> QED
  BY <1>1, <1>2 DEF Refusals, Passed

\* The causes and the counts stay when the limiter has not been asked.
LEMMA RefusalsKept ==
  ASSUME HooksTypeOK, Refusals, UNCHANGED limiter, \A r \in Request : Passed(r)'
  PROVE  Refusals'
<1>1. \A r \in Request : HasCause(r)'
  BY DEF Refusals, HasCause, FullAt, Admitted, limiter
<1>2. \A s \in Session : Backed(s)'
  BY DEF Refusals, Backed, InWindow, AdmittedOf, limiter
<1> QED
  BY <1>1, <1>2 DEF Refusals

\* What the first answer that r gets adds to: its session's admissions.
LEMMA FirstAnswer ==
  ASSUME HooksTypeOK, NEW r \in Request, verdict[r] = "none", NEW answer,
         DecidedAlone(r, answer), NEW s \in Session
  PROVE  /\ AdmittedOf(s) \subseteq AdmittedOf(s)'
         /\ r \notin AdmittedOf(s)
         /\ \A q \in AdmittedOf(s) : q # r /\ decidedAt'[q] = decidedAt[q]
         /\ \A from, to : Admitted(s, from, to) \subseteq Admitted(s, from, to)'
BY DEF AdmittedOf, Admitted, DecidedAlone

\* Refusals of earlier requests keep their cause.
LEMMA CausesKept ==
  ASSUME HooksTypeOK, Refusals, NEW r \in Request, verdict[r] = "none", NEW answer,
         DecidedAlone(r, answer), NEW q \in Request, q # r
  PROVE  HasCause(q)'
<1> SUFFICES ASSUME NEW t \in 0 .. MaxClock, verdict'[q] = "refused", decidedAt'[q] = t
             PROVE  FullAt(SessionOf[q], t)'
  BY DEF HasCause
<1> DEFINE s == SessionOf[q]
<1>1. verdict[q] = "refused" /\ decidedAt[q] = t /\ s \in Session
  BY TraceInputAssumption DEF DecidedAlone
<1>2. Cardinality(Admitted(s, Since(t), t)) >= MaxRequestsPerMinute
  BY <1>1 DEF Refusals, HasCause, FullAt
<1>3. Admitted(s, Since(t), t) \subseteq Admitted(s, Since(t), t)'
  BY <1>1, FirstAnswer DEF Admitted, Since
<1>4. Admitted(s, Since(t), t)' \in SUBSET Request
  BY DEF Admitted
<1>5. /\ Cardinality(Admitted(s, Since(t), t)) <= Cardinality(Admitted(s, Since(t), t)')
      /\ Cardinality(Admitted(s, Since(t), t)) \in Nat
      /\ Cardinality(Admitted(s, Since(t), t)') \in Nat
  BY <1>3, <1>4, Fewer
<1>6. MaxRequestsPerMinute \in Nat
  BY WindowAssumption
<1> QED
  BY <1>2, <1>5, <1>6 DEF FullAt

\* The limiter refuses for cause, and keeps its count backed.
LEMMA LimitForCause ==
  ASSUME LimiterOnce, HooksTypeOK, HooksTypeOK', Windows, Windows', Refusals,
         NEW r \in Request, Limit(r)
  PROVE  Refusals'
<1> DEFINE s == SessionOf[r]
           start == requests[s].startTime
<1>0. /\ s \in Session /\ Timely(s) /\ Counted(s) /\ Backed(s)
      /\ Minute \in Nat /\ MaxRequestsPerMinute \in Nat
      /\ clock \in Nat /\ start \in Nat /\ requests[s].count \in Nat
      /\ requests[s] \in [count : Nat, startTime : 0 .. MaxClock]
      /\ \A q \in Request : decidedAt[q] \in Nat
      /\ InWindow(s) \in SUBSET Request /\ InWindow(s)' \in SUBSET Request
      /\ Len(chain) \in Nat /\ DOMAIN chain = 1 .. Len(chain)
  BY TraceInputAssumption, WindowAssumption, ChainAssumption
  DEF Windows, Refusals, HooksTypeOK, InWindow, AdmittedOf
<1>1. /\ place[r] \in 1 .. Len(chain) /\ chain[place[r]] = "rate-limiter"
      /\ NextHook(r) \/ AfterError(r)
      /\ UNCHANGED <<chain, clock>>
  BY <1>0, Zenon DEF Limit, At, chaining
<1>2. verdict[r] = "none"
  BY <1>0, <1>1 DEF Refusals, Passed, HooksTypeOK
<1>3. PICK answer \in {"admitted", "refused"} : Decided(r, answer)
  BY Zenon DEF Limit
<1>4. DecidedAlone(r, answer)
  BY <1>3, DecidedFact
<1>5. \A q \in Request : Passed(q)'
  <2>1. /\ place'[r] > place[r] /\ place' \in [Request -> Nat]
        /\ \A q \in Request : q # r => place'[q] = place[q]
    BY <1>0, <1>1 DEF HooksTypeOK, NextHook, AfterError
  <2>2. \A i \in 1 .. Len(chain) : chain[i] = "rate-limiter" => i = place[r]
    BY <1>0, <1>1 DEF LimiterOnce, HooksTypeOK
  <2>3. Passed(r)'
    BY <1>1, <2>1, <2>2 DEF Passed
  <2>4. \A q \in Request : q # r => Passed(q)'
    BY <1>1, <1>4, <2>1 DEF Refusals, Passed, DecidedAlone
  <2> QED
    BY <2>3, <2>4
<1>6. \A q \in Request : q # r => HasCause(q)'
  BY <1>2, <1>4, CausesKept
<1>7. \A u \in Session : u # s => Backed(u)'
  <2> SUFFICES ASSUME NEW u \in Session, u # s PROVE Backed(u)'
    OBVIOUS
  <2>1. \E c : requests' = [requests EXCEPT ![s] = c]
    BY Zenon DEF Limit
  <2>2. requests'[u] = requests[u]
    BY <2>1 DEF HooksTypeOK
  <2>3. InWindow(u)' = InWindow(u)
    BY <1>4, <2>2 DEF InWindow, AdmittedOf, DecidedAlone
  <2> QED
    BY <2>2, <2>3 DEF Refusals, Backed
<1>8. /\ Cardinality(InWindow(s)) \in Nat /\ Cardinality(InWindow(s)') \in Nat
  BY <1>0, Fewer
<1>9. CASE /\ Expired(requests[s]) /\ Decided(r, "admitted")
           /\ requests' = [requests EXCEPT ![s] = NewWindow(clock)]
  <2>1. /\ requests'[s].startTime = clock /\ requests'[s].count = 1
        /\ DecidedAlone(r, "admitted")
    BY <1>0, <1>9, DecidedFact DEF HooksTypeOK, NewWindow
  <2>2. {r} \subseteq InWindow(s)'
    BY <1>0, <2>1 DEF InWindow, AdmittedOf, DecidedAlone
  <2>3. Cardinality({r}) = 1
    BY FS_Singleton
  <2>4. Cardinality(InWindow(s)') >= 1
    BY <1>0, <1>8, <2>2, <2>3, Fewer
  <2>5. Backed(s)'
    BY <2>1, <2>4 DEF Backed
  <2>6. HasCause(r)'
    BY <2>1 DEF HasCause, DecidedAlone
  <2> QED
    BY <1>5, <1>6, <1>7, <2>5, <2>6 DEF Refusals
<1>10. CASE /\ ~Expired(requests[s])
            /\ requests' = [requests EXCEPT ![s].count = @ + 1]
            /\ requests[s].count + 1 <= MaxRequestsPerMinute /\ Decided(r, "admitted")
  <2>1. /\ requests'[s].startTime = start /\ requests'[s].count = requests[s].count + 1
        /\ DecidedAlone(r, "admitted") /\ start <= clock
    BY <1>0, <1>10, DecidedFact DEF HooksTypeOK, Timely
  <2>2. InWindow(s) \union {r} \subseteq InWindow(s)' /\ r \notin InWindow(s)
    <3>1. \A q \in AdmittedOf(s) : q \in AdmittedOf(s)' /\ q # r /\ decidedAt'[q] = decidedAt[q]
      BY <1>0, <1>2, <2>1, FirstAnswer
    <3>2. r \in AdmittedOf(s)' /\ decidedAt'[r] = clock
      BY <2>1 DEF AdmittedOf, DecidedAlone
    <3> QED
      BY <2>1, <3>1, <3>2 DEF InWindow
  <2>3. IsFiniteSet(InWindow(s)) /\ Cardinality(InWindow(s) \union {r}) = Cardinality(InWindow(s)) + 1
    <3>1. IsFiniteSet(InWindow(s))
      BY <1>0, Fewer
    <3> QED
      BY <2>2, <3>1, FS_AddElement
  <2>4. Cardinality(InWindow(s) \union {r}) <= Cardinality(InWindow(s)')
    BY <1>0, <2>2, Fewer
  <2>5. Backed(s)'
    BY <1>0, <1>8, <1>10, <2>1, <2>3, <2>4 DEF Backed
  <2>6. HasCause(r)'
    BY <2>1 DEF HasCause, DecidedAlone
  <2> QED
    BY <1>5, <1>6, <1>7, <2>5, <2>6 DEF Refusals
<1>11. CASE /\ ~Expired(requests[s])
            /\ requests' = [requests EXCEPT ![s].count = @ + 1]
            /\ requests[s].count + 1 > MaxRequestsPerMinute /\ Decided(r, "refused")
  <2>1. /\ requests'[s].startTime = start /\ requests'[s].count = requests[s].count + 1
        /\ DecidedAlone(r, "refused")
        /\ start <= clock /\ clock <= start + Minute
    <3>1. start <= clock
      BY <1>0 DEF Timely
    <3>2. clock <= start + Minute
      BY <1>0, <1>11, <3>1 DEF Expired
    <3>3. requests'[s].startTime = start /\ requests'[s].count = requests[s].count + 1
      BY <1>0, <1>11 DEF HooksTypeOK
    <3> QED
      BY <1>11, <3>1, <3>2, <3>3, DecidedFact
  <2>2. Cardinality(InWindow(s)) >= MaxRequestsPerMinute
    BY <1>0, <1>8, <1>11 DEF Backed
  <2>3. \A q \in AdmittedOf(s) : q \in AdmittedOf(s)' /\ decidedAt'[q] = decidedAt[q]
    BY <1>0, <1>2, <2>1, FirstAnswer
  <2>4. InWindow(s) \subseteq InWindow(s)'
    BY <2>1, <2>3 DEF InWindow
  <2>5. Cardinality(InWindow(s)') >= MaxRequestsPerMinute
    BY <1>0, <1>8, <2>2, <2>4, Fewer
  <2>6. ASSUME NEW t \in 0 .. MaxClock, t = clock PROVE FullAt(s, t)'
    <3>1. InWindow(s) \subseteq Admitted(s, Since(t), t)'
      <4> SUFFICES ASSUME NEW q \in InWindow(s) PROVE q \in Admitted(s, Since(t), t)'
        OBVIOUS
      <4>1. /\ q \in Request /\ q \in AdmittedOf(s)' /\ decidedAt'[q] = decidedAt[q]
            /\ start <= decidedAt[q] /\ decidedAt[q] <= t /\ decidedAt[q] \in Nat
        BY <1>0, <2>3, <2>6 DEF InWindow, Timely, AdmittedOf
      <4>2. Since(t) \in Nat /\ Since(t) <= start
        BY <1>0, <2>1, <2>6 DEF Since
      <4>3. decidedAt'[q] \in Since(t) .. t
        BY <1>0, <2>6, <4>1, <4>2
      <4> QED
        BY <4>1, <4>3 DEF Admitted, AdmittedOf, Since
    <3>2. Admitted(s, Since(t), t)' \in SUBSET Request
      BY DEF Admitted
    <3>3. /\ Cardinality(InWindow(s)) <= Cardinality(Admitted(s, Since(t), t)')
          /\ Cardinality(Admitted(s, Since(t), t)') \in Nat
      BY <3>1, <3>2, Fewer
    <3> QED
      BY <1>0, <1>8, <2>2, <3>3 DEF FullAt
  <2>8. HasCause(r)'
    BY <2>1, <2>6 DEF HasCause, DecidedAlone
  <2>9. Backed(s)'
    BY <2>5 DEF Backed
  <2> QED
    BY <1>5, <1>6, <1>7, <2>8, <2>9 DEF Refusals
<1> QED
  BY <1>0, <1>9, <1>10, <1>11 DEF Limit

LEMMA StepRefusals ==
  ASSUME LimiterOnce, IInv, Windows, Refusals, [HooksNext]_hvars
  PROVE  Refusals'
<1>0. HooksTypeOK /\ HooksTypeOK' /\ Windows' /\ \A r \in Request : Undisturbed(r)
  BY TypeStep, StepWindows DEF IInv
<1>1. ASSUME NEW r \in Request, Limit(r) PROVE Refusals'
  BY <1>0, <1>1, LimitForCause
<1>2. ASSUME NEW r \in Request, PreExecute(r) \/ Noop(r) \/ RecordTypes(r) PROVE Refusals'
  <2>1. NextHook(r) /\ UNCHANGED <<chain, verdict>> /\ UNCHANGED limiter
    BY <1>2, Zenon DEF PreExecute, Noop, RecordTypes, chaining, limiter
  <2>2. Len(chain) \in Nat
    BY <1>0, ChainAssumption DEF HooksTypeOK
  <2>3. place[r] <= Len(chain)
    BY <1>0, <1>2, <2>2 DEF PreExecute, Noop, RecordTypes, Undisturbed, InDetector, At
  <2> QED
    BY <1>0, <2>1, <2>3, PassedKept, RefusalsKept
<1>3. CASE UNCHANGED <<place, chain, verdict>> /\ UNCHANGED limiter
  <2>1. \A r \in Request : Passed(r)'
    BY <1>3 DEF Refusals, Passed
  <2> QED
    BY <1>0, <1>3, <2>1, RefusalsKept
<1>4. ASSUME NEW r \in Request, Detect(r) \/ Look(r) \/ AppendType(r)
      PROVE  UNCHANGED <<place, chain, verdict>> /\ UNCHANGED limiter
  BY <1>4, Zenon DEF Detect, Look, AppendType, chaining, limiter
<1>5. UNCHANGED hvars \/ Elapse => UNCHANGED <<place, chain, verdict>> /\ UNCHANGED limiter
  BY Zenon DEF hvars, Elapse, chaining, limiter
<1> QED
  BY <1>1, <1>2, <1>3, <1>4, <1>5 DEF HooksNext, Run

\* A request that RateLimitHook refuses, in a chain that names the hook once,
\* follows a full number of admitted requests of its session within the last
\* minute: refused requests, which the counter counts too, do not take their
\* place.
THEOREM RefusedForCauseHolds == LimiterOnce => (HooksSpec => []RefusedForCause)
<1> SUFFICES ASSUME LimiterOnce PROVE HooksSpec => []RefusedForCause
  OBVIOUS
<1>1. HooksInit => IInv /\ Windows /\ Refusals
  BY InitIInv, InitWindows, InitRefusals
<1>2. IInv /\ Windows /\ Refusals /\ [HooksNext]_hvars => IInv' /\ Windows' /\ Refusals'
  BY TypeStep, UndisturbedStep, StepWindows, StepRefusals DEF IInv
<1>3. IInv /\ Refusals => RefusedForCause
  <2> SUFFICES ASSUME IInv, Refusals, NEW r \in Request, verdict[r] = "refused"
               PROVE  Cardinality(Admitted(SessionOf[r], Since(decidedAt[r]), decidedAt[r]))
                        >= MaxRequestsPerMinute
    BY DEF RefusedForCause, Since
  <2>1. decidedAt[r] \in 0 .. MaxClock
    BY DEF IInv, HooksTypeOK
  <2> QED
    BY <2>1 DEF Refusals, HasCause, FullAt
<1> QED
  BY <1>1, <1>2, <1>3, PTL DEF HooksSpec
=============================================================================

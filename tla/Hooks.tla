-------------------------------- MODULE Hooks --------------------------------
(***************************************************************************)
(* The PreExecute hooks of a chat request (hooks.go): a chain of hooks that *)
(* all requests share.  The PII detector keeps what it finds in a field of  *)
(* the hook, without a lock, and copies it to the trace at the end; the     *)
(* rate limiter counts the requests of a session in a fixed window, under a *)
(* mutex.  The other phases of these hooks change nothing: PostStream of    *)
(* the detector formats a pointer, which none of its patterns matches.      *)
(***************************************************************************)
EXTENDS Naturals, Sequences, FiniteSets

CONSTANTS
  Request,    \* traces given to the chain
  Session,    \* their sessions
  SessionOf,  \* the session of each
  PII,        \* the kinds of personal data the detector knows
  PromptOf,   \* the kinds each prompt contains, in the detector's order
  Chains,     \* chains the configuration may ask for
  MaxRequestsPerMinute,
  Minute,     \* length of a window in ticks of the clock
  MaxClock    \* bound: the clock stops there

HookName == {"noop", "pii-detector", "rate-limiter"}

ASSUME RequestFiniteAssumption == IsFiniteSet(Request)
ASSUME TraceInputAssumption ==
  /\ SessionOf \in [Request -> Session]
  /\ PromptOf \in [Request -> Seq(PII)]
\* The configuration may name a hook twice; a second detector is left out.
ASSUME ChainAssumption ==
  /\ Chains \subseteq Seq(HookName)
  /\ \A names \in Chains : \A i, j \in DOMAIN names :
       names[i] = "pii-detector" /\ names[j] = "pii-detector" => i = j
ASSUME WindowAssumption ==
  MaxRequestsPerMinute \in Nat \ {0} /\ Minute \in Nat /\ MaxClock \in Nat

VARIABLES
  chain,          \* the hooks in the order of the configuration
  chainStrategy,  \* what becomes of the rest of the chain after an error
  clock,
  detectedTypes,  \* the detector's field
  requests,       \* the limiter's counter of each session
  place,          \* each request's place in the chain: 0 before, Len + 1 after
  step,           \* where it is in the detector
  scan,           \* the next match it looks at there
  seen,           \* the field as its append has read it
  piiTypes,       \* the types its trace reports
  overlapped,     \* whether another request was in the detector meanwhile
  verdict,        \* the limiter's answer
  decidedAt       \* and its time

chaining == <<chain, chainStrategy>>
detector == <<detectedTypes, step, scan, seen, piiTypes, overlapped>>
limiter == <<requests, verdict, decidedAt>>
hvars == <<chaining, clock, detector, limiter, place>>

InDetector == {"look", "append", "record"}

HooksTypeOK ==
  /\ chain \in Chains
  /\ chainStrategy \in {"short-circuit", "all-execute"}
  /\ clock \in 0 .. MaxClock
  /\ detectedTypes \subseteq PII
  /\ requests \in [Session -> [count : Nat, startTime : 0 .. MaxClock]]
  /\ place \in [Request -> Nat]
  /\ step \in [Request -> {"out", "recorded"} \union InDetector]
  /\ scan \in [Request -> Nat \ {0}]
  /\ seen \in [Request -> SUBSET PII]
  /\ piiTypes \in [Request -> SUBSET PII]
  /\ overlapped \in [Request -> BOOLEAN]
  /\ verdict \in [Request -> {"none", "admitted", "refused"}]
  /\ decidedAt \in [Request -> 0 .. MaxClock]
  /\ \A r \in Request : place[r] <= Len(chain) + 1

\* A count of 0 stands for a session without a counter.
HooksInit ==
  /\ chain \in Chains
  /\ chainStrategy \in {"short-circuit", "all-execute"}
  /\ clock = 0
  /\ detectedTypes = {}
  /\ requests = [s \in Session |-> [count |-> 0, startTime |-> 0]]
  /\ place = [r \in Request |-> 0]
  /\ step = [r \in Request |-> "out"]
  /\ scan = [r \in Request |-> 1]
  /\ seen = [r \in Request |-> {}]
  /\ piiTypes = [r \in Request |-> {}]
  /\ overlapped = [r \in Request |-> FALSE]
  /\ verdict = [r \in Request |-> "none"]
  /\ decidedAt = [r \in Request |-> 0]

-----------------------------------------------------------------------------
At(r, name) == place[r] \in 1 .. Len(chain) /\ chain[place[r]] = name

\* executeHooks: on to the next hook, or out of the chain.
NextHook(r) == place' = [place EXCEPT ![r] = @ + 1]

AfterError(r) ==
  IF chainStrategy = "short-circuit"
  THEN place' = [place EXCEPT ![r] = Len(chain) + 1]
  ELSE NextHook(r)

PreExecute(r) ==
  /\ place[r] = 0
  /\ NextHook(r)
  /\ UNCHANGED <<chaining, clock, detector, limiter>>

Noop(r) ==
  /\ At(r, "noop")
  /\ NextHook(r)
  /\ UNCHANGED <<chaining, clock, detector, limiter>>

-----------------------------------------------------------------------------
(***************************************************************************)
(* The PII detector.  It scans the prompt twice, as text and as JSON.      *)
(***************************************************************************)
Matches(r) == PromptOf[r] \o PromptOf[r]

\* Looking at the next match, or recording when there is none left.
Onward(r, i) == IF i > Len(Matches(r)) THEN "record" ELSE "look"

\* Mutant of Detect: what earlier requests left in the field stays there.
DetectOnTop(r) ==
  /\ At(r, "pii-detector") /\ step[r] = "out"
  /\ step' = [step EXCEPT ![r] = Onward(r, 1)]
  /\ UNCHANGED <<chaining, clock, place, detectedTypes, scan, seen, piiTypes,
                 overlapped, limiter>>

\* The field is emptied; whoever is in the detector already works on it too.
Others(r) == {s \in Request \ {r} : step[s] \in InDetector}
InCompany(r) == IF Others(r) = {} THEN {} ELSE Others(r) \union {r}

Detect(r) ==
  /\ At(r, "pii-detector") /\ step[r] = "out"
  /\ detectedTypes' = {}
  /\ step' = [step EXCEPT ![r] = Onward(r, 1)]
  /\ overlapped' = [s \in Request |-> overlapped[s] \/ s \in InCompany(r)]
  /\ UNCHANGED <<chaining, clock, place, scan, seen, piiTypes, limiter>>

\* contains: a type that is in the field is not appended again; otherwise
\* append starts from the field as it is now.
Look(r) ==
  /\ step[r] = "look"
  /\ IF Matches(r)[scan[r]] \in detectedTypes
     THEN /\ scan' = [scan EXCEPT ![r] = @ + 1]
          /\ step' = [step EXCEPT ![r] = Onward(r, scan[r] + 1)]
          /\ UNCHANGED seen
     ELSE /\ seen' = [seen EXCEPT ![r] = detectedTypes]
          /\ step' = [step EXCEPT ![r] = "append"]
          /\ UNCHANGED scan
  /\ UNCHANGED <<chaining, clock, place, detectedTypes, piiTypes, overlapped, limiter>>

\* The field becomes what append read with the match added, whatever another
\* request has put there in between.
AppendType(r) ==
  /\ step[r] = "append"
  /\ detectedTypes' = seen[r] \union {Matches(r)[scan[r]]}
  /\ scan' = [scan EXCEPT ![r] = @ + 1]
  /\ step' = [step EXCEPT ![r] = Onward(r, scan[r] + 1)]
  /\ UNCHANGED <<chaining, clock, place, seen, piiTypes, overlapped, limiter>>

RecordTypes(r) ==
  /\ step[r] = "record"
  /\ piiTypes' = [piiTypes EXCEPT ![r] = detectedTypes]
  /\ step' = [step EXCEPT ![r] = "recorded"]
  /\ NextHook(r)
  /\ UNCHANGED <<chaining, clock, detectedTypes, scan, seen, overlapped, limiter>>

-----------------------------------------------------------------------------
(***************************************************************************)
(* The rate limiter.                                                       *)
(***************************************************************************)
NewWindow(now) == [count |-> 1, startTime |-> now]

\* Mutant of Expired: the window is as short as the clock can tell.
ExpiredNextTick(counter) == counter.count = 0 \/ clock > counter.startTime

\* Mutant of Expired: a window, once open, stays.
ExpiredNever(counter) == counter.count = 0

Expired(counter) == counter.count = 0 \/ clock - counter.startTime > Minute

Decided(r, answer) ==
  /\ verdict' = [verdict EXCEPT ![r] = answer]
  /\ decidedAt' = [decidedAt EXCEPT ![r] = clock]

Limit(r) ==
  LET s == SessionOf[r]
      counter == requests[s]
  IN  /\ At(r, "rate-limiter")
      /\ \/ /\ Expired(counter)
            /\ requests' = [requests EXCEPT ![s] = NewWindow(clock)]
            /\ Decided(r, "admitted")
            /\ NextHook(r)
         \/ /\ ~Expired(counter)
            /\ requests' = [requests EXCEPT ![s].count = @ + 1]
            /\ IF counter.count + 1 > MaxRequestsPerMinute
               THEN Decided(r, "refused") /\ AfterError(r)
               ELSE Decided(r, "admitted") /\ NextHook(r)
      /\ UNCHANGED <<chaining, clock, detector>>

Elapse ==
  /\ clock < MaxClock
  /\ clock' = clock + 1
  /\ UNCHANGED <<chaining, detector, limiter, place>>

Run(r) ==
  \/ Noop(r)
  \/ Detect(r) \/ Look(r) \/ AppendType(r) \/ RecordTypes(r)
  \/ Limit(r)

HooksNext == (\E r \in Request : PreExecute(r) \/ Run(r)) \/ Elapse

HooksSpec == HooksInit /\ [][HooksNext]_hvars

-----------------------------------------------------------------------------
(***************************************************************************)
(* Properties.                                                             *)
(***************************************************************************)
TypesOf(r) == {PromptOf[r][i] : i \in 1 .. Len(PromptOf[r])}

\* A trace that had the detector to itself reports exactly what its prompt
\* contains, whatever the requests before it and the ones waiting have left or
\* will leave in the shared field.
ReportsItsOwn ==
  \A r \in Request :
    step[r] = "recorded" /\ ~overlapped[r] => piiTypes[r] = TypesOf(r)

Admitted(s, from, to) ==
  {r \in Request :
     verdict[r] = "admitted" /\ SessionOf[r] = s /\ decidedAt[r] \in from .. to}

\* In no period of a minute, wherever it starts, are more than twice the
\* requests of a minute admitted for one session: the windows are fixed, so
\* that one may be used up at its end and the next at its start.
TwoWindowsAtMost ==
  \A s \in Session, t \in 0 .. MaxClock :
    Cardinality(Admitted(s, t, t + Minute)) <= 2 * MaxRequestsPerMinute

\* A request is refused only when its session has had its full number of
\* requests within the last minute.
RefusedForCause ==
  \A r \in Request :
    verdict[r] = "refused" =>
      LET since == IF decidedAt[r] < Minute THEN 0 ELSE decidedAt[r] - Minute
      IN  Cardinality(Admitted(SessionOf[r], since, decidedAt[r]))
            >= MaxRequestsPerMinute

=============================================================================

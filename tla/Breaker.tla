------------------------------- MODULE Breaker -------------------------------
(***************************************************************************)
(* The breaker of FaultTolerantUpstreamClient.  All requests to a provider *)
(* share one CircuitBreaker, whose fields Execute reads and writes without *)
(* a lock: every access to a field is a step of its own.  The state is a   *)
(* string, two words that are written one by one and read one by one, so   *)
(* that two writers may leave a state that is none of the three.           *)
(***************************************************************************)
EXTENDS Naturals

CONSTANTS
  Caller,     \* the goroutines that use the client, one call at a time
  Streaming,  \* those of them that call StreamChat
  Threshold,  \* failureThreshold
  MaxRetries  \* attempts of Chat

ASSUME CallerAssumption == Streaming \subseteq Caller
ASSUME ThresholdAssumption == Threshold \in Nat \ {0}
ASSUME RetriesAssumption == MaxRetries \in Nat \ {0}

VARIABLES
  state,         \* the fields of CircuitBreaker: the two words of state,
  failureCount,  \* failureCount, counted up to Threshold,
  expired,       \* and whether lastFailure is longer ago than the timeout
  pc,            \* where each caller is in Execute
  attempt,       \* the number of the attempt it makes, or 1
  held,          \* the count it has read and is about to write back, or 0
  unwritten,     \* the words of state it has yet to write, if it writes it
  provider,      \* "up" answers, "down" fails, "shaky" does either
  fails          \* history: failures since the last undisturbed success

shared == <<state, failureCount, expired>>
locals == <<attempt, held, unwritten>>
bvars == <<state, failureCount, expired, pc, locals, provider, fails>>

Word == {"length", "text"}
CircuitState == {"closed", "open", "half_open"}
Is(s) == state = [w \in Word |-> s]

BreakerTypeOK ==
  /\ state \in [Word -> CircuitState]
  /\ failureCount \in 0 .. Threshold
  /\ expired \in BOOLEAN
  /\ pc \in [Caller -> {"idle", "text", "age", "probe", "attempt", "count", "store",
                        "stamp", "compare", "open", "settle", "settle_text",
                        "close", "reset"}]
  /\ attempt \in [Caller -> 1 .. MaxRetries]
  /\ held \in [Caller -> 0 .. Threshold]
  /\ unwritten \in [Caller -> (SUBSET Word) \ {{}}]
  /\ provider \in {"up", "down", "shaky"}
  /\ fails \in 0 .. Threshold

BreakerInit ==
  /\ Is("closed")
  /\ failureCount = 0
  /\ expired = TRUE
  /\ pc = [c \in Caller |-> "idle"]
  /\ attempt = [c \in Caller |-> 1]
  /\ held = [c \in Caller |-> 0]
  /\ unwritten = [c \in Caller |-> Word]
  /\ provider = "up"
  /\ fails = 0

Goto(c, where) == pc' = [pc EXCEPT ![c] = where]

\* The assignment of s to state, a word at a time, in either order.
Assign(c, s, next) ==
  \E w \in unwritten[c] :
    /\ state' = [state EXCEPT ![w] = s]
    /\ IF unwritten[c] = {w}
       THEN unwritten' = [unwritten EXCEPT ![c] = Word] /\ Goto(c, next)
       ELSE unwritten' = [unwritten EXCEPT ![c] = @ \ {w}] /\ UNCHANGED pc

\* Counts are compared with Threshold and set to 0, so that those beyond
\* Threshold need no telling apart.
Increment(n) == IF n < Threshold THEN n + 1 ELSE n

-----------------------------------------------------------------------------
(***************************************************************************)
(* Execute, up to the call of fn.                                          *)
(***************************************************************************)
ReadState(c) ==
  /\ \/ /\ pc[c] = "idle"
        /\ Goto(c, IF state["length"] = "open" THEN "text" ELSE "attempt")
     \/ /\ pc[c] = "text"
        /\ Goto(c, IF state["text"] = "open" THEN "age" ELSE "attempt")
  /\ UNCHANGED <<shared, locals, provider, fails>>

ReadAge(c) ==
  /\ pc[c] = "age"
  /\ Goto(c, IF expired THEN "probe" ELSE "idle")
  /\ UNCHANGED <<shared, locals, provider, fails>>

Probe(c) ==
  /\ pc[c] = "probe"
  /\ Assign(c, "half_open", "attempt")
  /\ UNCHANGED <<failureCount, expired, attempt, held, provider, fails>>

(***************************************************************************)
(* fn: Chat tries again after an error that isRetryable, a cancelled       *)
(* context among them; StreamChat opens its stream once.                   *)
(***************************************************************************)
\* RealUpstreamClient: a call that cannot be made or read, any status but 200
\* and an answer without choices are failures, whoever is to blame.
MaySucceed == provider # "down"
MayFail == provider # "up"

Attempts(c) == IF c \in Streaming THEN 1 ELSE MaxRetries

Succeed(c) ==
  /\ pc[c] = "attempt"
  /\ MaySucceed
  /\ Goto(c, "settle")
  /\ attempt' = [attempt EXCEPT ![c] = 1]
  /\ UNCHANGED <<shared, held, unwritten, provider, fails>>

Retry(c) ==
  /\ pc[c] = "attempt"
  /\ MayFail
  /\ attempt[c] < Attempts(c)
  /\ attempt' = [attempt EXCEPT ![c] = @ + 1]
  /\ UNCHANGED <<shared, pc, held, unwritten, provider, fails>>

\* Any other error, or the last attempt.
GiveUp(c) ==
  /\ pc[c] = "attempt"
  /\ MayFail
  /\ Goto(c, "count")
  /\ attempt' = [attempt EXCEPT ![c] = 1]
  /\ UNCHANGED <<shared, held, unwritten, provider, fails>>

-----------------------------------------------------------------------------
(***************************************************************************)
(* Execute, after a failure.                                               *)
(***************************************************************************)
\* Mutant of ReadCount: the failure of a probe is not counted.
ReadCountClosed(c) ==
  /\ pc[c] = "count"
  /\ Goto(c, IF Is("half_open") THEN "stamp" ELSE "store")
  /\ held' = [held EXCEPT ![c] = failureCount]
  /\ fails' = Increment(fails)
  /\ UNCHANGED <<shared, attempt, unwritten, provider>>

ReadCount(c) ==
  /\ pc[c] = "count"
  /\ Goto(c, "store")
  /\ held' = [held EXCEPT ![c] = failureCount]
  /\ fails' = Increment(fails)
  /\ UNCHANGED <<shared, attempt, unwritten, provider>>

WriteCount(c) ==
  /\ pc[c] = "store"
  /\ failureCount' = Increment(held[c])
  /\ held' = [held EXCEPT ![c] = 0]
  /\ Goto(c, "stamp")
  /\ UNCHANGED <<state, expired, attempt, unwritten, provider, fails>>

Stamp(c) ==
  /\ pc[c] = "stamp"
  /\ expired' = FALSE
  /\ Goto(c, "compare")
  /\ UNCHANGED <<state, failureCount, locals, provider, fails>>

\* Mutant of CompareCount: one failure short.
CompareEarly(c) ==
  /\ pc[c] = "compare"
  /\ Goto(c, IF failureCount + 1 >= Threshold THEN "open" ELSE "idle")
  /\ UNCHANGED <<shared, locals, provider, fails>>

CompareCount(c) ==
  /\ pc[c] = "compare"
  /\ Goto(c, IF failureCount >= Threshold THEN "open" ELSE "idle")
  /\ UNCHANGED <<shared, locals, provider, fails>>

Open(c) ==
  /\ pc[c] = "open"
  /\ Assign(c, "open", "idle")
  /\ UNCHANGED <<failureCount, expired, attempt, held, provider, fails>>

(***************************************************************************)
(* Execute, after a success.                                               *)
(***************************************************************************)
\* Mutant of Settle: only a caller that finds the breaker open closes it.
SettleOpen(c) ==
  /\ \/ /\ pc[c] = "settle"
        /\ Goto(c, IF state["length"] = "open" THEN "settle_text" ELSE "reset")
     \/ /\ pc[c] = "settle_text"
        /\ Goto(c, IF state["text"] = "open" THEN "close" ELSE "reset")
  /\ UNCHANGED <<shared, locals, provider, fails>>

Settle(c) ==
  /\ \/ /\ pc[c] = "settle"
        /\ Goto(c, IF state["length"] = "half_open" THEN "settle_text" ELSE "reset")
     \/ /\ pc[c] = "settle_text"
        /\ Goto(c, IF state["text"] = "half_open" THEN "close" ELSE "reset")
  /\ UNCHANGED <<shared, locals, provider, fails>>

Close(c) ==
  /\ pc[c] = "close"
  /\ Assign(c, "closed", "reset")
  /\ UNCHANGED <<failureCount, expired, attempt, held, provider, fails>>

\* A caller that is about to write back the count it has read undoes the
\* reset; one that is about to open has compared already.
Disturbed(c) == \E d \in Caller \ {c} : pc[d] \in {"store", "open"}

Reset(c) ==
  /\ pc[c] = "reset"
  /\ failureCount' = 0
  /\ fails' = IF Disturbed(c) THEN fails ELSE 0
  /\ Goto(c, "idle")
  /\ UNCHANGED <<state, expired, locals, provider>>

-----------------------------------------------------------------------------
\* The timeout passes after the last failure.
Expire ==
  /\ ~expired
  /\ expired' = TRUE
  /\ UNCHANGED <<state, failureCount, pc, locals, provider, fails>>

\* The provider's condition changes, or clients hang up or stop doing so.
Change ==
  /\ provider' \in {"up", "down", "shaky"} \ {provider}
  /\ UNCHANGED <<shared, pc, locals, fails>>

Execute(c) ==
  \/ ReadState(c) \/ ReadAge(c) \/ Probe(c)
  \/ Succeed(c) \/ Retry(c) \/ GiveUp(c)
  \/ ReadCount(c) \/ WriteCount(c) \/ Stamp(c) \/ CompareCount(c) \/ Open(c)
  \/ Settle(c) \/ Close(c) \/ Reset(c)

BreakerNext == (\E c \in Caller : Execute(c)) \/ Expire \/ Change

BreakerSpec == BreakerInit /\ [][BreakerNext]_bvars

\* Time passes, the calls end, and more come.
BreakerFairSpec == BreakerSpec /\ WF_bvars(Expire) /\ \A c \in Caller : WF_bvars(Execute(c))

-----------------------------------------------------------------------------
(***************************************************************************)
(* Properties.                                                             *)
(***************************************************************************)
\* Lost and resurrected increments of failureCount never open the breaker
\* early: when CircuitBreaker.Execute writes a word of "open", there have been
\* Threshold failures since the last success that nobody's write crossed.
OpensForCause ==
  [][\A w \in Word : state[w] # "open" /\ state'[w] = "open" => fails = Threshold]_bvars

\* Nor do they keep it closed: while the provider stays down, calls that
\* overwrite each other's count or state delay the opening but cannot avoid it,
\* and each time probes are let through Execute finds the breaker open again.
FoundOpen == \E c \in Caller : pc[c] = "age"
OpensWhenDown == <>[](provider = "down") => []<>FoundOpen

\* Once the provider stays up the breaker turns no call away any more and is
\* not on probation either, whatever late writes of earlier calls are still to
\* come.  (Two of them may leave a state that is none of the three, which lets
\* every call through.)
ClosesWhenUp == <>[](provider = "up") => <>[](~FoundOpen /\ ~Is("half_open"))
=============================================================================

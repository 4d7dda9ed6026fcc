--------------------------- MODULE Upstream_proofs ---------------------------
(***************************************************************************)
(* Proofs about the two parts of the fault-tolerant client: its breaker    *)
(* (Breaker) and its streams (Stream), for any number of callers, any       *)
(* threshold, answers of any length and a channel of any capacity.         *)
(***************************************************************************)
EXTENDS Breaker, Stream, TLAPS

(***************************************************************************)
(* The breaker.                                                            *)
(*                                                                         *)
(* No count that is kept anywhere exceeds the failures there were: not the *)
(* breaker's own, not one that a caller is about to write, and a caller    *)
(* that is about to open the breaker has seen enough of them.              *)
(***************************************************************************)
CountsHappened ==
  /\ failureCount <= fails
  /\ \A c \in Caller :
       /\ pc[c] = "store" => Increment(held[c]) <= fails
       /\ pc[c] = "open" => fails = Threshold

BreakerInv == BreakerTypeOK /\ CountsHappened

\* Counting stays within the types and keeps the order of counts.
LEMMA IncrementFact ==
  ASSUME NEW m \in 0 .. Threshold, NEW n \in 0 .. Threshold, m <= n
  PROVE  /\ Increment(m) \in 0 .. Threshold
         /\ Increment(m) <= Increment(n)
         /\ m <= Increment(m)
         /\ n = Threshold => Increment(n) = Threshold
  BY ThresholdAssumption DEF Increment

LEMMA InitBreakerInv == BreakerInit => BreakerInv
<1> SUFFICES ASSUME BreakerInit PROVE BreakerInv
  OBVIOUS
<1>1. BreakerTypeOK
  BY ThresholdAssumption, RetriesAssumption DEF BreakerInit, BreakerTypeOK, Is, Word, CircuitState
<1>2. CountsHappened
  BY DEF BreakerInit, CountsHappened
<1> QED
  BY <1>1, <1>2 DEF BreakerInv

\* What Goto and Assign do to the places of the callers and to the state.
LEMMA GotoFact ==
  ASSUME BreakerTypeOK, NEW c \in Caller, NEW where, Goto(c, where)
  PROVE  /\ pc'[c] = where
         /\ \A d \in Caller \ {c} : pc'[d] = pc[d]
  BY DEF BreakerTypeOK, Goto

LEMMA AssignFact ==
  ASSUME BreakerTypeOK, NEW c \in Caller, NEW s \in CircuitState, NEW next, Assign(c, s, next)
  PROVE  /\ state' \in [Word -> CircuitState]
         /\ unwritten' \in [Caller -> (SUBSET Word) \ {{}}]
         /\ \A w \in Word : state'[w] \in {state[w], s}
         /\ Goto(c, next) \/ pc' = pc
<1>1. PICK w \in unwritten[c] :
        /\ state' = [state EXCEPT ![w] = s]
        /\ IF unwritten[c] = {w}
           THEN unwritten' = [unwritten EXCEPT ![c] = Word] /\ Goto(c, next)
           ELSE unwritten' = [unwritten EXCEPT ![c] = @ \ {w}] /\ UNCHANGED pc
  BY DEF Assign
<1>2. w \in Word /\ unwritten[c] \in (SUBSET Word) \ {{}}
  BY DEF BreakerTypeOK
<1>3. state' \in [Word -> CircuitState] /\ \A v \in Word : state'[v] \in {state[v], s}
  BY <1>1, <1>2 DEF BreakerTypeOK
<1>4. unwritten' \in [Caller -> (SUBSET Word) \ {{}}]
  BY <1>1, <1>2 DEF BreakerTypeOK, Word
<1> QED
  BY <1>1, <1>3, <1>4

Place == {"idle", "text", "age", "probe", "attempt", "count", "store",
          "stamp", "compare", "open", "settle", "settle_text", "close", "reset"}

LEMMA GotoType ==
  ASSUME BreakerTypeOK, NEW c \in Caller, NEW where \in Place, Goto(c, where)
  PROVE  pc' \in [Caller -> Place]
  BY DEF BreakerTypeOK, Goto, Place

LEMMA BreakerTypeStep == BreakerTypeOK /\ [BreakerNext]_bvars => BreakerTypeOK'
<1> SUFFICES ASSUME BreakerTypeOK, [BreakerNext]_bvars PROVE BreakerTypeOK'
  OBVIOUS
<1> USE ThresholdAssumption, RetriesAssumption, CallerAssumption
<1>0. CASE UNCHANGED bvars
  BY <1>0 DEF BreakerTypeOK, bvars, locals
<1>1. CASE Expire
  BY <1>1 DEF Expire, BreakerTypeOK, locals
<1>2. CASE Change
  BY <1>2 DEF Change, BreakerTypeOK, shared, locals
<1>3. ASSUME NEW c \in Caller, Execute(c) PROVE BreakerTypeOK'
  <2> USE DEF BreakerTypeOK, shared, locals, Place
  <2>1. CASE ReadState(c) \/ ReadAge(c) \/ CompareCount(c) \/ Settle(c)
    <3>1. pc' \in [Caller -> Place] /\ UNCHANGED <<shared, locals, provider, fails>>
      BY <2>1, GotoType DEF ReadState, ReadAge, CompareCount, Settle
    <3> QED
      BY <3>1
  <2>2. CASE Probe(c)
    <3>1. state' \in [Word -> CircuitState] /\ unwritten' \in [Caller -> (SUBSET Word) \ {{}}]
      BY <2>2, AssignFact DEF Probe, CircuitState
    <3>2. pc' \in [Caller -> Place]
      BY <2>2, AssignFact, GotoType DEF Probe, CircuitState
    <3> QED
      BY <2>2, <3>1, <3>2 DEF Probe
  <2>3. CASE Open(c)
    <3>1. state' \in [Word -> CircuitState] /\ unwritten' \in [Caller -> (SUBSET Word) \ {{}}]
      BY <2>3, AssignFact DEF Open, CircuitState
    <3>2. pc' \in [Caller -> Place]
      BY <2>3, AssignFact, GotoType DEF Open, CircuitState
    <3> QED
      BY <2>3, <3>1, <3>2 DEF Open
  <2>4. CASE Close(c)
    <3>1. state' \in [Word -> CircuitState] /\ unwritten' \in [Caller -> (SUBSET Word) \ {{}}]
      BY <2>4, AssignFact DEF Close, CircuitState
    <3>2. pc' \in [Caller -> Place]
      BY <2>4, AssignFact, GotoType DEF Close, CircuitState
    <3> QED
      BY <2>4, <3>1, <3>2 DEF Close
  <2>5. CASE Succeed(c)
    BY <2>5, GotoType DEF Succeed
  <2>6. CASE GiveUp(c)
    BY <2>6, GotoType DEF GiveUp
  <2>7. CASE Retry(c)
    BY <2>7 DEF Retry, Attempts
  <2>8. CASE ReadCount(c)
    <3>1. fails' \in 0 .. Threshold
      BY <2>8, IncrementFact DEF ReadCount
    <3> QED
      BY <2>8, <3>1, GotoType DEF ReadCount
  <2>9. CASE WriteCount(c)
    <3>1. failureCount' \in 0 .. Threshold
      BY <2>9, IncrementFact DEF WriteCount
    <3> QED
      BY <2>9, <3>1, GotoType DEF WriteCount
  <2>10. CASE Stamp(c)
    BY <2>10, GotoType DEF Stamp
  <2>11. CASE Reset(c)
    BY <2>11, GotoType DEF Reset
  <2> QED
    BY <1>3, <2>1, <2>2, <2>3, <2>4, <2>5, <2>6, <2>7, <2>8, <2>9, <2>10, <2>11 DEF Execute
<1> QED
  BY <1>0, <1>1, <1>2, <1>3 DEF BreakerNext

LEMMA CountsStep == BreakerInv /\ [BreakerNext]_bvars => CountsHappened'
<1> SUFFICES ASSUME BreakerTypeOK, CountsHappened, [BreakerNext]_bvars PROVE CountsHappened'
  BY DEF BreakerInv
<1> USE ThresholdAssumption
<1>0. CASE UNCHANGED bvars
  BY <1>0 DEF CountsHappened, bvars, locals
<1>1. CASE Expire
  BY <1>1 DEF Expire, CountsHappened, locals
<1>2. CASE Change
  BY <1>2 DEF Change, CountsHappened, shared, locals
<1>3. ASSUME NEW c \in Caller, Execute(c) PROVE CountsHappened'
  <2> DEFINE Sheltered(p) == p \notin {"store", "open"}
  \* Steps that leave the counts alone and go to no place CountsHappened names.
  <2>0. ASSUME UNCHANGED <<failureCount, held, fails>>,
               \A d \in Caller : pc'[d] = pc[d] \/ Sheltered(pc'[d])
        PROVE  CountsHappened'
    BY <2>0 DEF CountsHappened
  <2>1. CASE ReadState(c) \/ ReadAge(c) \/ Settle(c) \/ Succeed(c) \/ GiveUp(c) \/ Stamp(c)
    <3>1. /\ UNCHANGED <<failureCount, held, fails>>
          /\ \E p : Sheltered(p) /\ Goto(c, p)
      BY <2>1 DEF ReadState, ReadAge, Settle, Succeed, GiveUp, Stamp, shared, locals
    <3> QED
      BY <2>0, <3>1, GotoFact
  <2>2. CASE Probe(c) \/ Open(c) \/ Close(c)
    <3>1. /\ UNCHANGED <<failureCount, held, fails>>
          /\ \E p : Sheltered(p) /\ (Goto(c, p) \/ pc' = pc)
      BY <2>2, AssignFact DEF Probe, Open, Close, CircuitState
    <3> QED
      BY <2>0, <3>1, GotoFact
  <2>3. CASE Retry(c)
    BY <2>0, <2>3 DEF Retry, shared
  <2>4. CASE ReadCount(c)
    <3>1. /\ held' = [held EXCEPT ![c] = failureCount]
          /\ fails' = Increment(fails)
          /\ failureCount' = failureCount
          /\ Goto(c, "store")
      BY <2>4 DEF ReadCount, shared
    <3>2. /\ failureCount <= fails /\ failureCount \in 0 .. Threshold /\ fails \in 0 .. Threshold
          /\ held \in [Caller -> 0 .. Threshold]
      BY DEF BreakerTypeOK, CountsHappened
    <3>3. /\ Increment(failureCount) <= fails'
          /\ fails <= fails'
          /\ fails = Threshold => fails' = Threshold
          /\ fails' \in 0 .. Threshold
      BY <3>1, <3>2, IncrementFact
    <3>4. ASSUME NEW d \in Caller, pc'[d] = "store" PROVE Increment(held'[d]) <= fails'
      <4>1. CASE d = c
        BY <3>1, <3>2, <3>3, <4>1
      <4>2. CASE d # c
        <5>1. pc[d] = "store" /\ held'[d] = held[d]
          BY <3>1, <3>2, <3>4, <4>2, GotoFact
        <5>2. Increment(held[d]) <= fails /\ Increment(held[d]) \in 0 .. Threshold
          BY <3>2, <5>1, IncrementFact DEF CountsHappened
        <5> QED
          BY <3>2, <3>3, <5>1, <5>2
      <4> QED
        BY <4>1, <4>2
    <3>5. ASSUME NEW d \in Caller, pc'[d] = "open" PROVE fails' = Threshold
      <4>1. pc[d] = "open"
        BY <3>1, <3>5, GotoFact
      <4> QED
        BY <3>3, <4>1 DEF CountsHappened
    <3>6. failureCount' <= fails'
      BY <3>1, <3>2, <3>3
    <3> QED
      BY <3>4, <3>5, <3>6 DEF CountsHappened, Increment
  <2>5. CASE WriteCount(c)
    <3>1. /\ failureCount' = Increment(held[c])
          /\ held' = [held EXCEPT ![c] = 0]
          /\ fails' = fails
          /\ Goto(c, "stamp")
          /\ pc[c] = "store"
      BY <2>5 DEF WriteCount
    <3>2. \A d \in Caller : pc'[d] \in {"store", "open"} => pc'[d] = pc[d] /\ held'[d] = held[d]
      BY <3>1, GotoFact DEF BreakerTypeOK
    <3> QED
      BY <3>1, <3>2 DEF CountsHappened, Increment
  <2>6. CASE CompareCount(c)
    <3>1. /\ Goto(c, IF failureCount >= Threshold THEN "open" ELSE "idle")
          /\ UNCHANGED <<failureCount, held, fails>>
      BY <2>6 DEF CompareCount, shared, locals
    <3>2. failureCount >= Threshold => fails = Threshold
      BY DEF CountsHappened, BreakerTypeOK
    <3>3. CASE failureCount >= Threshold
      <4>1. \A d \in Caller : pc'[d] = "store" => pc[d] = "store"
        BY <3>1, <3>3, GotoFact
      <4> QED
        BY <3>1, <3>2, <3>3, <4>1 DEF CountsHappened, Increment
    <3>4. CASE ~(failureCount >= Threshold)
      <4>1. Goto(c, "idle")
        BY <3>1, <3>4
      <4> QED
        BY <2>0, <3>1, <4>1, GotoFact
    <3> QED
      BY <3>3, <3>4
  <2>7. CASE Reset(c)
    <3>1. /\ failureCount' = 0
          /\ fails' = IF Disturbed(c) THEN fails ELSE 0
          /\ Goto(c, "idle")
          /\ held' = held
      BY <2>7 DEF Reset, locals
    <3>2. fails' \in 0 .. Threshold
      BY <3>1 DEF BreakerTypeOK
    <3>3. ASSUME NEW d \in Caller, pc'[d] \in {"store", "open"}
          PROVE  pc[d] = pc'[d] /\ fails' = fails
      <4>1. d # c
        BY <3>1, <3>3, GotoFact
      <4> QED
        BY <3>1, <3>3, <4>1, GotoFact DEF Disturbed
    <3> QED
      BY <3>1, <3>2, <3>3 DEF CountsHappened, Increment
  <2> QED
    BY <1>3, <2>1, <2>2, <2>3, <2>4, <2>5, <2>6, <2>7 DEF Execute
<1> QED
  BY <1>0, <1>1, <1>2, <1>3 DEF BreakerNext

LEMMA BreakerInvHolds == BreakerSpec => []BreakerInv
<1>1. BreakerInv /\ [BreakerNext]_bvars => BreakerInv'
  BY BreakerTypeStep, CountsStep DEF BreakerInv
<1> QED
  BY InitBreakerInv, <1>1, PTL DEF BreakerSpec

(***************************************************************************)
(* The breaker and its callers keep their types: at most MaxRetries        *)
(* attempts are made in a call of Chat, and a caller that writes the state *)
(* always has a word left to write.                                        *)
(***************************************************************************)
THEOREM BreakerTypeCorrect == BreakerSpec => []BreakerTypeOK
<1>1. BreakerInv => BreakerTypeOK
  BY DEF BreakerInv
<1> QED
  BY BreakerInvHolds, <1>1, PTL

(***************************************************************************)
(* However many calls overwrite each other's counts and states, Execute    *)
(* never opens the breaker for fewer than Threshold failures.              *)
(***************************************************************************)
THEOREM OpensForCauseHolds == BreakerSpec => OpensForCause
<1>1. BreakerInv /\ [BreakerNext]_bvars =>
        [\A w \in Word : state[w] # "open" /\ state'[w] = "open" => fails = Threshold]_bvars
  <2> SUFFICES ASSUME BreakerTypeOK, CountsHappened, [BreakerNext]_bvars,
                      NEW w \in Word, state[w] # "open", state'[w] = "open"
               PROVE  fails = Threshold
    BY DEF BreakerInv
  <2>1. PICK c \in Caller : Execute(c)
    BY DEF BreakerNext, Expire, Change, shared, bvars
  <2>2. ~(Probe(c) \/ Close(c))
    BY <2>1, AssignFact DEF Probe, Close, CircuitState
  <2>3. Open(c)
    BY <2>1, <2>2 DEF Execute, ReadState, ReadAge, Succeed, Retry, GiveUp, ReadCount, WriteCount,
                      Stamp, CompareCount, Settle, Reset, shared
  <2> QED
    BY <2>3 DEF Open, CountsHappened
<1> QED
  BY BreakerInvHolds, <1>1, PTL DEF BreakerSpec, OpensForCause

-----------------------------------------------------------------------------
(***************************************************************************)
(* The streams.  InOrder, BreakIsTold and LostOnlyInBursts are about what   *)
(* the consumer gets; they hold because of what is on its way to it.       *)
(* Consecutive says that the events under way are the ones that come next, *)
(* Announced that the news of a break is under way or has arrived, and      *)
(* nothing else is taken for it, KeptUp that the parser lags behind only    *)
(* after a burst.                                                          *)
(***************************************************************************)
IsEvent(m) == m \in 1 .. Events

\* Where a message may be on its way: with the forwarder, or in the channel.
Queued(m, places) == m = carried \/ \E i \in places : channel[i] = m

Places ==
  /\ parcel # Nothing => reader = "send"
  /\ forwarder # "give" => carried = Nothing

\* An event in the channel is new to the consumer, and those before it that the
\* consumer has not got are ahead of it.
Follows(i) ==
  /\ received < channel[i] /\ channel[i] # carried
  /\ channel[i] <= (IF IsEvent(parcel) THEN parsed - 1 ELSE parsed)
  /\ \A j \in DOMAIN channel : i # j => channel[i] # channel[j]
  /\ forwarder # "done" => \A e \in received + 1 .. channel[i] - 1 : Queued(e, 1 .. i - 1)

CarriedIsNext == IsEvent(carried) => carried = received + 1 /\ carried <= parsed
ChannelFollows == \A i \in DOMAIN channel : IsEvent(channel[i]) => Follows(i)
ParcelIsLast ==
  /\ received <= parsed
  /\ IsEvent(parcel) => /\ parcel = parsed /\ received < parsed
                        /\ IsEvent(carried) => carried < parsed
NoneIsMissing ==
  ~cancelled \/ (reader # "done" /\ forwarder # "done") =>
    \A e \in received + 1 .. parsed : e = parcel \/ Queued(e, DOMAIN channel)

Consecutive == CarriedIsNext /\ ChannelFollows /\ ParcelIsLast /\ NoneIsMissing

Announced ==
  /\ \A i \in DOMAIN channel : channel[i] = Broken => i = Len(channel) /\ reader = "done"
  /\ told \/ parcel = Broken \/ Queued(Broken, DOMAIN channel) => body = "broken"
  /\ ~cancelled /\ reader = "done" =>
       \/ body = "ended"
       \/ body = "broken" /\ (told \/ Queued(Broken, DOMAIN channel))
  /\ ~cancelled /\ forwarder = "done" => reader = "done" /\ channel = <<>>
  /\ consumer = "finished" => forwarder = "done"

\* As long as no read ends two events, the parser keeps none back.
KeptUp ==
  /\ body = "ended" => written = Pieces
  /\ ~burst => /\ parsed = Completed(taken)
               /\ ~cancelled /\ reader = "done" /\ body = "ended" => taken = Pieces

IInv == StreamTypeOK /\ Places /\ Consecutive /\ Announced /\ KeptUp

LEMMA InitIInv == StreamInit => IInv
<1> SUFFICES ASSUME StreamInit PROVE IInv
  OBVIOUS
<1> USE EventsAssumption, CapacityAssumption DEF StreamInit
<1>1. StreamTypeOK
  <2>1. channel \in Seq(Message) /\ Len(channel) <= Capacity OBVIOUS
  <2>2. 0 \in 0 .. Pieces /\ 0 \in Message /\ 0 \in 0 .. Events /\ 0 \in 0 .. 0
    BY DEF Pieces, PerEvent, Message
  <2>3. /\ body \in {"open", "ended", "broken"} /\ reader \in {"check", "read", "send", "done"}
        /\ forwarder \in {"take", "give", "done"}
        /\ consumer \in {"reading", "finished", "gone"}
        /\ told \in BOOLEAN /\ burst \in BOOLEAN
    OBVIOUS
  <2>4. /\ written \in 0 .. Pieces /\ taken \in 0 .. written /\ parsed \in 0 .. Events
        /\ parcel \in Message /\ carried \in Message /\ received \in 0 .. Events
    BY <2>2 DEF Nothing
  <2> QED BY <2>1, <2>3, <2>4, Zenon DEF StreamTypeOK
<1>2. Places BY DEF Places, Nothing
<1>3. Consecutive
  BY DEF Consecutive, CarriedIsNext, ChannelFollows, ParcelIsLast, NoneIsMissing, IsEvent,
         Queued, Nothing
<1>4. Announced BY DEF Announced, Queued, Nothing, Broken
<1>5. KeptUp BY DEF KeptUp, Completed, PerEvent
<1> QED BY <1>1, <1>2, <1>3, <1>4, <1>5 DEF IInv

\* What Send and Take do to the channel.
LEMMA SendFact ==
  ASSUME StreamTypeOK, Send
  PROVE  /\ channel' \in Seq(Message) /\ Len(channel') = Len(channel) + 1
         /\ \A i \in DOMAIN channel : i \in DOMAIN channel' /\ channel'[i] = channel[i]
         /\ channel'[Len(channel')] = parcel
         /\ DOMAIN channel' = DOMAIN channel \union {Len(channel')}
         /\ DOMAIN channel = 1 .. Len(channel) /\ Len(channel) \in Nat
  BY DEF StreamTypeOK, Send

LEMMA TakeFact ==
  ASSUME StreamTypeOK, Take
  PROVE  /\ channel' \in Seq(Message) /\ Len(channel') = Len(channel) - 1
         /\ DOMAIN channel = 1 .. Len(channel) /\ Len(channel) \in Nat \ {0}
         /\ DOMAIN channel' = 1 .. Len(channel) - 1
         /\ \A i \in DOMAIN channel' : channel'[i] = channel[i + 1]
         /\ carried' = channel[1] /\ carried' \in Message
  BY DEF StreamTypeOK, Take

\* No more events are complete than the answer has.
LEMMA CompletedFact == \A n \in 0 .. Pieces : Completed(n) \in 0 .. Events
  BY EventsAssumption DEF Completed, Pieces, PerEvent

LEMMA TypeStep == IInv /\ [StreamNext]_svars => StreamTypeOK'
<1> SUFFICES ASSUME StreamTypeOK, Places, Consecutive, [StreamNext]_svars PROVE StreamTypeOK'
  BY DEF IInv
<1> USE EventsAssumption, CapacityAssumption
<1> USE DEF StreamTypeOK, source, reading, forwarding, consuming
<1>0. CASE UNCHANGED svars BY <1>0 DEF svars
<1>1. CASE Provider
  BY <1>1 DEF Provider, SendPiece, EndBody, BreakBody, Pieces, PerEvent
<1>2. CASE CheckContext \/ ReadEnd \/ DropParcel
  <2>1. reader' \in {"read", "done"} /\ parcel' \in Message
    BY <1>2 DEF CheckContext, ReadEnd, DropParcel, Nothing, Message
  <2>2. burst' \in BOOLEAN
    BY <1>2, Zenon DEF CheckContext, ReadEnd, DropParcel
  <2>3. UNCHANGED <<source, taken, parsed, channel, forwarding, consuming>>
    BY <1>2 DEF CheckContext, ReadEnd, DropParcel
  <2> QED BY <2>1, <2>2, <2>3
<1>9. CASE ReadError
  <2>1. parcel' \in Message /\ reader' \in {"send", "done"}
    BY <1>9 DEF ReadError, Broken, Message
  <2> QED BY <1>9, <2>1 DEF ReadError
<1>3. CASE Read
  <2>1. PICK n \in taken + 1 .. written : ParseEvent(n) BY <1>3 DEF Read
  <2>2. n \in 0 .. Pieces /\ n \in 0 .. written BY <2>1 DEF Pieces, PerEvent
  <2>3. Completed(n) \in 0 .. Events BY <2>2, CompletedFact
  <2>4. parsed' \in 0 .. Events /\ parcel' \in Message
    BY <2>1, <2>3 DEF ParseEvent, Nothing, Message
  <2>5. taken' \in 0 .. written' /\ burst' \in BOOLEAN /\ reader' = "send"
    BY <1>3, <2>1, <2>2 DEF Read, ParseEvent
  <2> QED BY <1>3, <2>4, <2>5 DEF Read
<1>4. CASE Send
  BY <1>4, SendFact DEF Send, Nothing, Message
<1>5. CASE Take
  BY <1>5, TakeFact DEF Take
<1>6. CASE SeeClosed \/ Abandon
  BY <1>6 DEF SeeClosed, Abandon, Nothing, Message
<1>7. CASE Receive
  <2>1. received' \in 0 .. Events BY <1>7 DEF Receive, Consecutive, CarriedIsNext, IsEvent
  <2> QED BY <1>7, <2>1 DEF Receive, Nothing, Message
<1>8. CASE Finish \/ Leave \/ Cancel
  BY <1>8 DEF Finish, Leave, Cancel
<1> QED BY <1>0, <1>1, <1>2, <1>3, <1>4, <1>5, <1>6, <1>7, <1>8, <1>9
        DEF StreamNext, Reader, Forwarder, Consumer

LEMMA PlacesStep == IInv /\ [StreamNext]_svars => Places'
<1> SUFFICES ASSUME StreamTypeOK, Places, [StreamNext]_svars PROVE Places'
  BY DEF IInv
<1> QED
  BY DEF StreamTypeOK, Places, StreamNext, Provider, Reader, Forwarder, Consumer, SendPiece, EndBody,
         BreakBody, CheckContext, Read, ReadEnd, ReadError, Send, DropParcel, Take, SeeClosed,
         Abandon, Receive, Finish, Leave, Cancel, svars, source, reading, forwarding, consuming

LEMMA ConsecutiveStep == IInv /\ [StreamNext]_svars => Consecutive'
<1> SUFFICES ASSUME StreamTypeOK, Places, Consecutive, Announced, [StreamNext]_svars PROVE Consecutive'
  BY DEF IInv
<1> USE EventsAssumption
<1> USE DEF source, reading, forwarding, consuming, Consecutive, CarriedIsNext, ChannelFollows,
            ParcelIsLast, NoneIsMissing, Follows, Queued, IsEvent
<1>1. CASE \/ UNCHANGED svars \/ Provider \/ Finish \/ Leave \/ Cancel
  BY <1>1 DEF svars, Provider, SendPiece, EndBody, BreakBody, Finish, Leave, Cancel
<1>2. CASE CheckContext \/ ReadEnd
  BY <1>2 DEF CheckContext, ReadEnd
<1>3. CASE ReadError \/ DropParcel
  <2>1. /\ ~IsEvent(Nothing) /\ ~IsEvent(Broken)
        /\ \A e \in received + 1 .. parsed : e # Nothing
    BY DEF Nothing, Broken, StreamTypeOK
  <2>2. CASE ReadError
    <3>1. /\ UNCHANGED <<parsed, channel, forwarding, consuming>>
          /\ parcel = Nothing /\ parcel' \in {Nothing, Broken} /\ reader # "done"
      BY <2>2 DEF ReadError, Places
    <3> QED BY <2>1, <3>1
  <2>3. CASE DropParcel
    <3>1. /\ UNCHANGED <<parsed, channel, forwarding, consuming>> /\ cancelled
          /\ parcel' = Nothing /\ reader' = "done"
      BY <2>3 DEF DropParcel
    <3> QED BY <2>1, <3>1 DEF StreamTypeOK
  <2> QED BY <1>3, <2>2, <2>3
<1>4. CASE Read
  <2>1. /\ parcel = Nothing /\ reader # "done"
        /\ UNCHANGED <<channel, carried, consuming, forwarder>>
    BY <1>4 DEF Read, Places
  <2>2. CASE parsed' = parsed /\ parcel' = Nothing
    BY <2>1, <2>2 DEF Nothing
  <2>3. CASE parsed' = parsed + 1 /\ parcel' = parsed + 1
    <3>1. CarriedIsNext' /\ ParcelIsLast' BY <2>1, <2>3 DEF Nothing, StreamTypeOK, Message
    <3>2. ChannelFollows' BY <2>1, <2>3 DEF Nothing, StreamTypeOK, Message
    <3>3. NoneIsMissing'
      <4>1. \A e \in received + 1 .. parsed + 1 : e = parsed + 1 \/ e \in received + 1 .. parsed
        BY DEF StreamTypeOK
      <4>2. \A e \in received + 1 .. parsed : e # parcel
        BY <2>1 DEF Nothing, StreamTypeOK
      <4> QED BY <2>1, <2>3, <4>1, <4>2
    <3> QED BY <3>1, <3>2, <3>3
  <2> QED BY <1>4, <2>2, <2>3 DEF Read, ParseEvent
<1>5. CASE Send
  <2>1. /\ UNCHANGED <<carried, consuming, forwarder, parsed>>
        /\ parcel' = Nothing /\ reader # "done" /\ forwarder' = forwarder
    BY <1>5 DEF Send
  <2>2. CarriedIsNext' /\ ParcelIsLast' BY <2>1 DEF Nothing
  <2>3. ChannelFollows'
    <3> SUFFICES ASSUME NEW i \in DOMAIN channel', IsEvent(channel'[i]) PROVE Follows(i)'
      OBVIOUS
    <3>1. CASE i \in DOMAIN channel
      <4>1. channel'[i] = channel[i] /\ Follows(i) BY <1>5, <3>1, SendFact
      <4>2. channel[i] <= parsed /\ ~IsEvent(parcel') BY <2>1, <4>1 DEF Nothing, StreamTypeOK
      <4>3. channel[i] # parcel BY <4>1 DEF StreamTypeOK
      <4>4. \A j \in DOMAIN channel' : i # j => channel'[i] # channel'[j]
        BY <1>5, <3>1, <4>1, <4>3, SendFact
      <4>5. \A j \in 1 .. i - 1 : channel'[j] = channel[j] BY <1>5, <3>1, SendFact
      <4> QED BY <2>1, <4>1, <4>2, <4>4, <4>5
    <3>2. CASE i = Len(channel')
      <4>1. channel'[i] = parcel /\ parcel = parsed BY <1>5, <3>2, SendFact
      <4>2. \A j \in DOMAIN channel : channel[j] # parcel
        BY <4>1 DEF StreamTypeOK
      <4>3. \A e \in received + 1 .. parcel - 1 : forwarder # "done" => Queued(e, DOMAIN channel)
        BY <2>1, <4>1 DEF StreamTypeOK
      <4> QED BY <1>5, <2>1, <3>2, <4>1, <4>2, <4>3, SendFact DEF Nothing, StreamTypeOK
    <3> QED BY <1>5, <3>1, <3>2, SendFact
  <2>4. NoneIsMissing' BY <1>5, <2>1, SendFact
  <2> QED BY <2>2, <2>3, <2>4
<1>6. CASE Take
  <2>1. /\ UNCHANGED <<consuming, parsed, parcel, reader>>
        /\ carried = Nothing /\ forwarder = "take" /\ forwarder' = "give"
        /\ channel[1] = carried' /\ 1 \in DOMAIN channel
    BY <1>6, TakeFact DEF Take, Places
  <2>2. CarriedIsNext'
    <3> SUFFICES ASSUME IsEvent(channel[1]) PROVE channel[1] = received + 1
      BY <2>1
    <3>1. Follows(1) BY <2>1
    <3>2. \A e \in received + 1 .. channel[1] - 1 : FALSE BY <2>1, <3>1 DEF Nothing, StreamTypeOK
    <3> QED BY <3>1, <3>2 DEF StreamTypeOK
  <2>3. ParcelIsLast'
    <3>1. IsEvent(parcel) /\ IsEvent(channel[1]) => channel[1] < parsed
      BY <2>1 DEF StreamTypeOK
    <3> QED BY <2>1, <3>1
  <2>4. ChannelFollows'
    <3> SUFFICES ASSUME NEW i \in DOMAIN channel', IsEvent(channel'[i]) PROVE Follows(i)'
      OBVIOUS
    <3>1. /\ i + 1 \in DOMAIN channel /\ channel'[i] = channel[i + 1] /\ Follows(i + 1)
          /\ \A j \in DOMAIN channel' : j + 1 \in DOMAIN channel /\ channel'[j] = channel[j + 1]
      BY <1>6, TakeFact
    <3>2. \A e \in received + 1 .. channel[i + 1] - 1 :
            \/ e = carried'
            \/ \E j \in 1 .. i - 1 : channel'[j] = e
      <4> SUFFICES ASSUME NEW e \in received + 1 .. channel[i + 1] - 1, e # channel[1]
                   PROVE  \E j \in 1 .. i - 1 : channel'[j] = e
        BY <2>1
      <4>1. PICK k \in 1 .. i : channel[k] = e
        BY <1>6, <2>1, <3>1, TakeFact DEF Nothing, StreamTypeOK
      <4>2. k # 1 /\ k - 1 \in 1 .. i - 1 /\ k - 1 \in DOMAIN channel'
        BY <1>6, <2>1, <3>1, <4>1, TakeFact
      <4>3. channel'[k - 1] = channel[k - 1 + 1] BY <1>6, <4>2, TakeFact
      <4>4. k - 1 + 1 = k BY <1>6, TakeFact
      <4> QED BY <4>1, <4>2, <4>3, <4>4
    <3>3. \A j \in DOMAIN channel' : i # j => channel'[i] # channel'[j]
      BY <1>6, <3>1, TakeFact
    <3>4. channel'[i] # carried' BY <1>6, <2>1, <3>1, TakeFact
    <3> QED BY <2>1, <3>1, <3>2, <3>3, <3>4
  <2>5. NoneIsMissing'
    <3> SUFFICES ASSUME ~cancelled \/ reader # "done", NEW e \in received + 1 .. parsed, e # parcel, e # channel[1]
                 PROVE  \E j \in DOMAIN channel' : channel'[j] = e
      BY <2>1
    <3>1. PICK k \in DOMAIN channel : channel[k] = e BY <2>1 DEF Nothing, StreamTypeOK
    <3>2. k - 1 \in DOMAIN channel' /\ channel'[k - 1] = e BY <1>6, <3>1, TakeFact
    <3> QED BY <3>2
  <2> QED BY <2>2, <2>3, <2>4, <2>5
<1>7. CASE SeeClosed \/ Abandon
  BY <1>7 DEF SeeClosed, Abandon, Nothing, StreamTypeOK
<1>8. CASE Receive
  <2>1. /\ UNCHANGED <<parsed, parcel, reader, channel, consumer, cancelled>>
        /\ carried' = Nothing /\ forwarder = "give" /\ forwarder' = "take"
        /\ received' = IF IsEvent(carried) THEN received + 1 ELSE received
    BY <1>8 DEF Receive
  <2>2. CASE IsEvent(carried)
    <3>1. received' = carried BY <2>1, <2>2
    <3>2. CarriedIsNext' /\ ParcelIsLast'
      <4>1. carried <= parsed
        BY <2>2, <2>1 DEF StreamTypeOK
      <4> QED BY <2>1, <2>2, <3>1, <4>1 DEF Nothing, StreamTypeOK
    <3>3. ChannelFollows' BY <2>1, <2>2, <3>1 DEF Nothing, StreamTypeOK
    <3>4. NoneIsMissing' BY <2>1, <2>2, <3>1 DEF Nothing, StreamTypeOK
    <3> QED BY <3>2, <3>3, <3>4
  <2>3. CASE ~IsEvent(carried)
    BY <2>1, <2>3 DEF Nothing, StreamTypeOK
  <2> QED BY <2>2, <2>3
<1> QED BY <1>1, <1>2, <1>3, <1>4, <1>5, <1>6, <1>7, <1>8
        DEF StreamNext, Reader, Forwarder, Consumer

LEMMA AnnouncedStep == IInv /\ [StreamNext]_svars => Announced'
<1> SUFFICES ASSUME StreamTypeOK, Places, Announced, [StreamNext]_svars PROVE Announced'
  BY DEF IInv
<1> USE EventsAssumption
<1> USE DEF source, reading, forwarding, consuming
<1>1. CASE UNCHANGED svars \/ Provider
  BY <1>1 DEF svars, Provider, SendPiece, EndBody, BreakBody, Announced, Queued
<1>2. CASE CheckContext \/ ReadEnd \/ ReadError \/ DropParcel
  BY <1>2 DEF CheckContext, ReadEnd, ReadError, DropParcel, Announced, Queued, Nothing, Broken
<1>3. CASE Read
  <2>1. parcel' # Broken
    <3>1. PICK n \in taken + 1 .. written : ParseEvent(n) BY <1>3 DEF Read
    <3>2. Completed(n) \in 0 .. Events BY <3>1, CompletedFact DEF StreamTypeOK, Pieces, PerEvent
    <3> QED BY <3>1, <3>2 DEF ParseEvent, Nothing, Broken, StreamTypeOK
  <2> QED BY <1>3, <2>1 DEF Read, Announced, Queued
<1>4. CASE Send
  BY <1>4, SendFact DEF Send, Announced, Queued, Nothing, Broken, StreamTypeOK
<1>5. CASE Take
  <2>1. /\ UNCHANGED <<told, parcel, body, reader, consumer, cancelled>>
        /\ carried = Nothing /\ forwarder' = "give" /\ carried' = channel[1]
    BY <1>5, TakeFact DEF Take, Places
  <2>2. \A i \in DOMAIN channel' : i + 1 \in DOMAIN channel /\ channel'[i] = channel[i + 1]
    BY <1>5, TakeFact
  <2>3. \A i \in DOMAIN channel' : channel'[i] = Broken => i = Len(channel') /\ reader' = "done"
    BY <1>5, <2>1, <2>2, TakeFact DEF Announced
  <2>4. Queued(Broken, DOMAIN channel) <=> Queued(Broken, DOMAIN channel)'
    <3>1. ASSUME NEW i \in DOMAIN channel, i # 1
          PROVE  i - 1 \in DOMAIN channel' /\ channel'[i - 1] = channel[i]
      <4>1. i \in Nat /\ i - 1 \in DOMAIN channel' BY <1>5, <3>1, TakeFact
      <4>2. channel'[i - 1] = channel[i - 1 + 1] BY <1>5, <4>1, TakeFact
      <4>3. i - 1 + 1 = i BY <4>1
      <4> QED BY <4>1, <4>2, <4>3
    <3>2. 1 \in DOMAIN channel /\ Broken # Nothing BY <1>5, TakeFact DEF Broken, Nothing
    <3> QED BY <2>1, <2>2, <3>1, <3>2 DEF Queued
  <2>5. consumer # "finished" BY <1>5 DEF Take, Announced
  <2> QED BY <2>1, <2>3, <2>4, <2>5 DEF Announced
<1>6. CASE SeeClosed \/ Abandon
  BY <1>6 DEF SeeClosed, Abandon, Announced, Queued, Nothing, Broken, StreamTypeOK
<1>7. CASE Receive
  <2>1. /\ UNCHANGED <<parcel, body, reader, channel, consumer, cancelled>>
        /\ carried' = Nothing /\ forwarder' = "take"
        /\ told' = (told \/ carried = Broken) /\ Broken # Nothing
    BY <1>7 DEF Receive, Broken, Nothing
  <2>2. told \/ Queued(Broken, DOMAIN channel) <=> (told \/ Queued(Broken, DOMAIN channel))'
    BY <2>1 DEF Queued
  <2>3. consumer # "finished" BY <1>7 DEF Receive
  <2> QED BY <2>1, <2>2, <2>3 DEF Announced, Queued
<1>8. CASE Finish \/ Leave \/ Cancel
  BY <1>8 DEF Finish, Leave, Cancel, Announced, Queued
<1> QED BY <1>1, <1>2, <1>3, <1>4, <1>5, <1>6, <1>7, <1>8 DEF StreamNext, Reader, Forwarder, Consumer

LEMMA KeptUpStep == IInv /\ [StreamNext]_svars => KeptUp'
<1> SUFFICES ASSUME StreamTypeOK, Places, Announced, KeptUp, [StreamNext]_svars PROVE KeptUp'
  BY DEF IInv
<1> USE DEF source, reading, forwarding, consuming, KeptUp
<1>1. CASE Provider
  <2>1. /\ UNCHANGED <<reading, consuming>> /\ body = "open"
        /\ body' = "ended" => written' = Pieces
    BY <1>1 DEF Provider, SendPiece, EndBody, BreakBody
  <2>2. ~(~cancelled /\ reader = "done")
    BY <2>1 DEF Announced
  <2> QED BY <2>1, <2>2
<1>2. CASE ReadEnd
  <2>1. ~burst' => ~burst /\ ~(taken < written)
    BY <1>2, Zenon DEF ReadEnd
  <2>2. UNCHANGED <<source, taken, parsed>> /\ body = "ended"
    BY <1>2 DEF ReadEnd
  <2>3. ~(taken < written) => taken = written
    BY DEF StreamTypeOK, Pieces, PerEvent
  <2> QED BY <2>1, <2>2, <2>3
<1>3. CASE Read
  <2>1. PICK n \in taken + 1 .. written : ParseEvent(n) BY <1>3 DEF Read
  <2>2. Completed(taken) \in Nat /\ Completed(n) \in Nat /\ Completed(taken) <= Completed(n)
    BY <2>1 DEF Completed, PerEvent, StreamTypeOK
  <2>3. ASSUME ~burst' PROVE parsed' = Completed(taken')
    <3>1. ~burst /\ ~(Completed(n) > Completed(taken) + 1) /\ taken' = n
      BY <2>1, <2>3, Zenon DEF ParseEvent
    <3>2. parsed' = IF parsed < Completed(n) THEN parsed + 1 ELSE parsed
      BY <2>1 DEF ParseEvent
    <3> QED BY <2>2, <3>1, <3>2
  <2>4. reader' # "done" /\ UNCHANGED <<source, consuming>>
    BY <1>3 DEF Read
  <2> QED BY <2>3, <2>4
<1>4. CASE \/ UNCHANGED svars \/ CheckContext \/ ReadError \/ Send \/ DropParcel
          \/ Forwarder \/ Consumer \/ Cancel
  BY <1>4 DEF svars, CheckContext, ReadError, Send, DropParcel, Forwarder, Take, SeeClosed,
              Abandon, Consumer, Receive, Finish, Leave, Cancel, Announced
<1> QED BY <1>1, <1>2, <1>3, <1>4 DEF StreamNext, Reader

LEMMA IInvHolds == StreamSpec => []IInv
<1>1. IInv /\ [StreamNext]_svars => IInv'
  BY TypeStep, PlacesStep, ConsecutiveStep, AnnouncedStep, KeptUpStep DEF IInv
<1> QED BY InitIInv, <1>1, PTL DEF StreamSpec

\* The channel never holds more than its capacity, and no more events are
\* parsed or received than the answer has.
THEOREM StreamTypeCorrect == StreamSpec => []StreamTypeOK
<1>1. IInv => StreamTypeOK BY DEF IInv
<1> QED BY IInvHolds, <1>1, PTL

\* The consumer of StreamChat gets the events in order, none twice and, as long
\* as it reads on, none left out between two others.
THEOREM InOrderHolds == StreamSpec => []InOrder
<1>1. IInv => InOrder
  BY DEF IInv, Consecutive, CarriedIsNext, Announced, InOrder, IsEvent
<1> QED BY IInvHolds, <1>1, PTL

\* For any number of events and any cut of the body: a consumer that reads to the
\* end with a good context is told of a break if there was one, and nobody is told
\* of one that was not.
THEOREM BreakIsToldHolds == StreamSpec => []BreakIsTold
<1>1. IInv => BreakIsTold
  BY EventsAssumption DEF IInv, StreamTypeOK, Places, Announced, BreakIsTold, Queued, Nothing, Broken
<1> QED BY IInvHolds, <1>1, PTL

\* A consumer that reads to the end with a good context lacks an event of the
\* answer only if it was told of a break, or if one read came with more than
\* ParseEvent returns.
THEOREM LostOnlyInBurstsHolds == StreamSpec => []LostOnlyInBursts
<1>1. IInv => LostOnlyInBursts
  <2> SUFFICES ASSUME IInv, consumer = "finished", ~cancelled, ~told, ~burst PROVE received = Events
    BY DEF LostOnlyInBursts
  <2>1. /\ reader = "done" /\ forwarder = "done" /\ channel = <<>> /\ carried = Nothing
        /\ parcel = Nothing
    BY DEF IInv, Announced, Places
  <2>2. ~Queued(Broken, DOMAIN channel)
    BY <2>1, EventsAssumption DEF Queued, Nothing, Broken
  <2>3. taken = Pieces
    BY <2>1, <2>2 DEF IInv, Announced, KeptUp
  <2>4. parsed = Events
    BY <2>3, EventsAssumption DEF IInv, KeptUp, Completed, Pieces, PerEvent
  <2>5. \A e \in received + 1 .. parsed : e = Nothing
    BY <2>1 DEF IInv, Consecutive, NoneIsMissing, Queued
  <2>6. ~(received < parsed)
    <3>1. received < parsed => received + 1 \in received + 1 .. parsed /\ received + 1 # Nothing
      BY DEF IInv, StreamTypeOK, Nothing
    <3> QED BY <2>5, <3>1
  <2> QED BY <2>4, <2>6, EventsAssumption DEF IInv, StreamTypeOK
<1> QED BY IInvHolds, <1>1, PTL
=============================================================================

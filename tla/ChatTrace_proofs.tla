--------------------------- MODULE ChatTrace_proofs ---------------------------
(***************************************************************************)
(* Proofs about ChatTrace, for every set of traces, every trace store and  *)
(* every fault.  Types alone are not inductive: that a trace records at    *)
(* most five transitions, and that each of them is a move of the domain,   *)
(* both follow from where the handler is, which Path ties to the last      *)
(* recorded transition and to the live trace.  Then about the monitor that *)
(* reads the traces meanwhile.                                             *)
(***************************************************************************)
EXTENDS Monitor, DataInduction

\* After so many transitions the live trace is in state s and the recorder in r.
Stands(t, steps, s, r) ==
  /\ Len(recorder[t]) = steps
  /\ live[t].state = s
  /\ RecordedState[t] = r

\* Where the handler is fixes how far the trace has come.
OnPath(t) ==
  /\ at[t] = "idle" => Stands(t, 0, NotStarted, NotStarted)
  /\ at[t] = "hooks" => Stands(t, 1, "INIT", "INIT")
  /\ at[t] = "decide" => Stands(t, 2, "CONSTRAINT_EVAL", "CONSTRAINT_EVAL")
  /\ at[t] \in {"route", "reserve", "call", "validate"} =>
       Stands(t, 3, "EXECUTING", "EXECUTING")
  /\ at[t] = "finalize" => Stands(t, 4, "EXECUTING", "VALIDATION")

Path == \A t \in Trace : OnPath(t)

IInv == TypeOK /\ Path

\* A transition appended to a history: one longer, and its target comes last.
LEMMA Appended ==
  ASSUME NEW h \in Seq(Transition), NEW from \in State \union {NotStarted},
         NEW to \in State
  PROVE  /\ Append(h, <<from, to>>) \in Seq(Transition)
         /\ Len(Append(h, <<from, to>>)) = Len(h) + 1
         /\ Append(h, <<from, to>>)[Len(Append(h, <<from, to>>))][2] = to
<1>1. <<from, to>> \in Transition
  BY DEF Transition
<1> QED
  BY <1>1

\* Recording a transition moves the recorded state of that trace only.
LEMMA Recorded ==
  ASSUME TypeOK, NEW t \in Trace, NEW from \in State \union {NotStarted},
         NEW to \in State, RecordTransition(t, from, to)
  PROVE  /\ recorder' \in [Trace -> Seq(Transition)]
         /\ recorder' = [recorder EXCEPT ![t] = recorder'[t]]
         /\ Len(recorder'[t]) = Len(recorder[t]) + 1
         /\ RecordedState' = [RecordedState EXCEPT ![t] = to]
<1>1. recorder \in [Trace -> Seq(Transition)] /\ recorder[t] \in Seq(Transition)
  BY DEF TypeOK
<1>2. recorder'[t] = Append(recorder[t], <<from, to>>)
  BY <1>1 DEF RecordTransition
<1>3. /\ recorder'[t] \in Seq(Transition)
      /\ Len(recorder'[t]) = Len(recorder[t]) + 1
      /\ recorder'[t][Len(recorder'[t])][2] = to
  BY <1>1, <1>2, Appended
<1>4. /\ recorder' = [recorder EXCEPT ![t] = recorder'[t]]
      /\ recorder' \in [Trace -> Seq(Transition)]
  BY <1>1, <1>2, <1>3 DEF RecordTransition
<1>5. Len(recorder[t]) \in Nat
  BY <1>1
<1>6. RecordedState'[t] = to
  BY <1>3, <1>5 DEF RecordedState
<1>7. \A u \in Trace : u # t => RecordedState'[u] = RecordedState[u]
  BY <1>1, <1>4 DEF RecordedState
<1>8. RecordedState' = [RecordedState EXCEPT ![t] = to]
  BY <1>6, <1>7 DEF RecordedState
<1> QED
  BY <1>3, <1>4, <1>8

\* A write leaves the store well-formed.
LEMMA WriteType ==
  ASSUME TypeOK, NEW t \in Trace, NEW call, NEW record \in Record,
         Write(t, call, record)
  PROVE  /\ stored' \in [Trace -> Record \union {NoTrace, Shared}]
         /\ lastWrite' \in [Trace -> {"none", "ok", "err"}]
<1>1. \E written \in Record \union {NoTrace, Shared} :
        stored' = [stored EXCEPT ![t] = written]
  <2>1. \/ stored' = [stored EXCEPT ![t] =
                       IF TraceBackend = "memory" THEN Shared ELSE record]
        \/ stored' = stored
    BY DEF Write
  <2>2. stored = [stored EXCEPT ![t] = stored[t]]
    BY DEF TypeOK
  <2>3. stored[t] \in Record \union {NoTrace, Shared}
    BY DEF TypeOK
  <2> QED
    BY <2>1, <2>2, <2>3
<1>2. \E result \in {"ok", "err"} : lastWrite' = [lastWrite EXCEPT ![t] = result]
  BY DEF Write
<1> QED
  BY <1>1, <1>2 DEF TypeOK

\* The traces whose handlers do not move stay on their paths.
LEMMA Elsewhere ==
  ASSUME IInv, NEW t \in Trace, NEW where,
         at' = [at EXCEPT ![t] = where],
         \A u \in Trace : u # t => live'[u] = live[u] /\ recorder'[u] = recorder[u],
         OnPath(t)'
  PROVE  Path'
<1>1. \A u \in Trace : u # t => /\ at'[u] = at[u]
                                /\ RecordedState'[u] = RecordedState[u]
  BY DEF IInv, TypeOK, RecordedState
<1> QED
  BY <1>1 DEF IInv, Path, OnPath, Stands

\* A record with another state, output, error, history or signature is one.
LEMMA RecordWith ==
  ASSUME NEW r \in Record, NEW s \in State, NEW e \in Error,
         NEW h \in Seq(Transition), NEW b \in BOOLEAN
  PROVE  /\ [r EXCEPT !.state = s] \in Record
         /\ [r EXCEPT !.state = s].state = s
         /\ [r EXCEPT !.state = s, !.error = e, !.transitions = h] \in Record
         /\ [r EXCEPT !.state = s, !.error = e, !.transitions = h].state = s
         /\ [r EXCEPT !.error = e, !.transitions = h] \in Record
         /\ [r EXCEPT !.output = b] \in Record
         /\ [r EXCEPT !.signed = b] \in Record
BY DEF Record

\* What Advance changes.
LEMMA Advanced ==
  ASSUME TypeOK, NEW t \in Trace, NEW call, NEW to \in State, Advance(t, call, to)
  PROVE  /\ live' \in [Trace -> Record]
         /\ live'[t].state = to
         /\ \A u \in Trace : u # t => live'[u] = live[u] /\ recorder'[u] = recorder[u]
         /\ recorder' \in [Trace -> Seq(Transition)]
         /\ Len(recorder'[t]) = Len(recorder[t]) + 1
         /\ RecordedState' = [RecordedState EXCEPT ![t] = to]
         /\ RecordedState'[t] = to
         /\ stored' \in [Trace -> Record \union {NoTrace, Shared}]
         /\ lastWrite' \in [Trace -> {"none", "ok", "err"}]
<1> DEFINE record == [live[t] EXCEPT !.state = to]
<1>1. /\ live[t] \in Record
      /\ live[t].state \in State \union {NotStarted}
      /\ live \in [Trace -> Record]
      /\ recorder \in [Trace -> Seq(Transition)]
  BY DEF TypeOK, Record
<1>2. record \in Record /\ record.state = to
  BY <1>1 DEF Record
<1>3. /\ RecordTransition(t, live[t].state, to)
      /\ live' = [live EXCEPT ![t] = record]
      /\ Write(t, call, record)
  BY DEF Advance
<1>4. /\ recorder' \in [Trace -> Seq(Transition)]
      /\ recorder' = [recorder EXCEPT ![t] = recorder'[t]]
      /\ Len(recorder'[t]) = Len(recorder[t]) + 1
      /\ RecordedState' = [RecordedState EXCEPT ![t] = to]
  BY <1>1, <1>3, Recorded
<1>5. /\ stored' \in [Trace -> Record \union {NoTrace, Shared}]
      /\ lastWrite' \in [Trace -> {"none", "ok", "err"}]
  BY <1>2, <1>3, WriteType
<1>6. RecordedState'[t] = to
  BY <1>4 DEF RecordedState
<1>7. \A u \in Trace : u # t => live'[u] = live[u] /\ recorder'[u] = recorder[u]
  BY <1>1, <1>3, <1>4
<1> QED
  BY <1>1, <1>2, <1>3, <1>4, <1>5, <1>6, <1>7

\* One more transition than at most four is at most five.
LEMMA OneMore ==
  ASSUME NEW g \in Seq(Transition), NEW h \in Seq(Transition),
         Len(g) = Len(h) + 1,
         Len(h) = 0 \/ Len(h) = 1 \/ Len(h) = 2 \/ Len(h) = 3 \/ Len(h) = 4
  PROVE  Len(g) <= 5
<1>1. CASE Len(h) = 0
  BY <1>1
<1>2. CASE Len(h) = 1
  BY <1>2
<1>3. CASE Len(h) = 2
  BY <1>3
<1>4. CASE Len(h) = 3
  BY <1>4
<1>5. CASE Len(h) = 4
  BY <1>5
<1> QED
  BY <1>1, <1>2, <1>3, <1>4, <1>5

\* What Fail changes, from a place where the handler can fail.
LEMMA Failed ==
  ASSUME IInv, NEW t \in Trace, NEW error \in Error,
         NEW status \in {"404", "429", "502"}, Fail(t, error, status),
         at[t] \in {"decide", "route", "reserve", "call"},
         UNCHANGED <<headers, hungUp>>
  PROVE  /\ IInv'
         /\ RecordedState' = [RecordedState EXCEPT ![t] = "FAILED"]
<1> DEFINE history == Append(recorder[t], <<live[t].state, "FAILED">>)
           record == [live[t] EXCEPT !.state = "FAILED", !.error = error,
                                     !.transitions = history]
<1>1. /\ live[t] \in Record
      /\ live[t].state \in State \union {NotStarted}
      /\ live \in [Trace -> Record]
      /\ recorder \in [Trace -> Seq(Transition)]
      /\ recorder[t] \in Seq(Transition)
      /\ "FAILED" \in State
      /\ TypeOK
  BY DEF IInv, TypeOK, Record, State, FinalState
<1>2. history \in Seq(Transition)
  <2>1. <<live[t].state, "FAILED">> \in Transition
    BY <1>1 DEF Transition
  <2> QED
    BY <1>1, <2>1
<1>3. record \in Record
  BY <1>1, <1>2 DEF Record
<1>4. /\ RecordTransition(t, live[t].state, "FAILED")
      /\ live' = [live EXCEPT ![t] = record]
      /\ Write(t, "Update", record)
      /\ answer' = [answer EXCEPT ![t] = status]
      /\ at' = [at EXCEPT ![t] = "done"]
  BY DEF Fail, RecordTransition, Goto
<1>5. /\ recorder' \in [Trace -> Seq(Transition)]
      /\ recorder' = [recorder EXCEPT ![t] = recorder'[t]]
      /\ Len(recorder'[t]) = Len(recorder[t]) + 1
      /\ RecordedState' = [RecordedState EXCEPT ![t] = "FAILED"]
  BY <1>1, <1>4, Recorded
<1>6. /\ stored' \in [Trace -> Record \union {NoTrace, Shared}]
      /\ lastWrite' \in [Trace -> {"none", "ok", "err"}]
  BY <1>1, <1>3, <1>4, WriteType
<1>7. at'[t] = "done"
  BY <1>1, <1>4 DEF TypeOK
<1>8. Path'
  <2>1. OnPath(t)'
    BY <1>7 DEF OnPath
  <2>2. \A u \in Trace : u # t => live'[u] = live[u] /\ recorder'[u] = recorder[u]
    BY <1>1, <1>4, <1>5
  <2> QED
    BY <1>4, <2>1, <2>2, Elsewhere
<1>9. Len(recorder'[t]) <= 5
  <2>1. Len(recorder[t]) = 2 \/ Len(recorder[t]) = 3
    BY DEF IInv, Path, OnPath, Stands
  <2>2. recorder'[t] \in Seq(Transition)
    BY <1>5
  <2> QED
    BY <1>1, <1>5, <2>1, <2>2, OneMore
<1>10. \A u \in Trace : Len(recorder'[u]) <= 5
  <2> SUFFICES ASSUME NEW u \in Trace PROVE Len(recorder'[u]) <= 5
    OBVIOUS
  <2>1. CASE u = t
    BY <1>9, <2>1
  <2>2. CASE u # t
    <3>1. recorder'[u] = recorder[u]
      BY <1>1, <1>5, <2>2
    <3> QED
      BY <1>1, <3>1 DEF TypeOK
  <2> QED
    BY <2>1, <2>2
<1>11. TypeOK'
  <2>1. live' \in [Trace -> Record]
    BY <1>1, <1>3, <1>4
  <2>2. at' \in [Trace -> {"idle", "done", "lost"} \union InHandler]
    BY <1>1, <1>4 DEF TypeOK
  <2>3. answer' \in [Trace -> {"none", "200", "404", "429", "502"}]
    BY <1>1, <1>4 DEF TypeOK
  <2>4. stream' \in [Trace -> BOOLEAN]
    BY <1>1 DEF TypeOK, headers
  <2>5. strategy' \in [Trace -> Strategies] /\ hungUp' \in [Trace -> BOOLEAN]
    BY <1>1 DEF TypeOK, headers
  <2> QED
    BY <1>5, <1>6, <1>10, <2>1, <2>2, <2>3, <2>4, <2>5 DEF TypeOK
<1> QED
  BY <1>5, <1>8, <1>11 DEF IInv

\* An Advance from a place on the path to the next one.
LEMMA AdvancedOnPath ==
  ASSUME IInv, NEW t \in Trace, NEW call, NEW to \in State, NEW where,
         Advance(t, call, to), Goto(t, where),
         \/ at[t] = "idle" /\ where = "hooks" /\ to = "INIT"
         \/ at[t] = "hooks" /\ where = "decide" /\ to = "CONSTRAINT_EVAL"
         \/ at[t] = "decide" /\ where = "route" /\ to = "EXECUTING",
         UNCHANGED <<headers, answer, hungUp>>
  PROVE  /\ IInv'
         /\ RecordedState' = [RecordedState EXCEPT ![t] = to]
<1>1. TypeOK
  BY DEF IInv
<1>2. /\ live' \in [Trace -> Record]
      /\ live'[t].state = to
      /\ \A u \in Trace : u # t => live'[u] = live[u] /\ recorder'[u] = recorder[u]
      /\ recorder' \in [Trace -> Seq(Transition)]
      /\ Len(recorder'[t]) = Len(recorder[t]) + 1
      /\ RecordedState' = [RecordedState EXCEPT ![t] = to]
      /\ RecordedState'[t] = to
      /\ stored' \in [Trace -> Record \union {NoTrace, Shared}]
      /\ lastWrite' \in [Trace -> {"none", "ok", "err"}]
  BY <1>1, Advanced
<1>3. at' = [at EXCEPT ![t] = where] /\ at'[t] = where
  BY <1>1 DEF TypeOK, Goto
<1>4. Len(recorder[t]) = IF to = "INIT" THEN 0
                         ELSE IF to = "CONSTRAINT_EVAL" THEN 1 ELSE 2
  BY DEF IInv, Path, OnPath, Stands
<1>5. OnPath(t)'
  BY <1>2, <1>3, <1>4 DEF OnPath, Stands
<1>6. Path'
  BY <1>2, <1>3, <1>5, Elsewhere
<1>7. \A u \in Trace : Len(recorder'[u]) <= 5
  <2> SUFFICES ASSUME NEW u \in Trace PROVE Len(recorder'[u]) <= 5
    OBVIOUS
  <2>1. CASE u = t
    <3>1. recorder[t] \in Seq(Transition) /\ recorder'[t] \in Seq(Transition)
      BY <1>1, <1>2 DEF TypeOK
    <3>2. Len(recorder[t]) = 0 \/ Len(recorder[t]) = 1 \/ Len(recorder[t]) = 2
      BY <1>4
    <3> QED
      BY <1>2, <2>1, <3>1, <3>2, OneMore
  <2>2. CASE u # t
    BY <1>1, <1>2, <2>2 DEF TypeOK
  <2> QED
    BY <2>1, <2>2
<1>8. at' \in [Trace -> {"idle", "done", "lost"} \union InHandler]
  BY <1>1, <1>3 DEF TypeOK, InHandler
<1>9. /\ stream' \in [Trace -> BOOLEAN]
      /\ strategy' \in [Trace -> Strategies]
      /\ answer' \in [Trace -> {"none", "200", "404", "429", "502"}]
      /\ hungUp' \in [Trace -> BOOLEAN]
  BY <1>1 DEF TypeOK, headers
<1>10. TypeOK'
  BY <1>2, <1>7, <1>8, <1>9 DEF TypeOK
<1> QED
  BY <1>2, <1>6, <1>10 DEF IInv

\* A step that records nothing and goes to where the path asks no more.
LEMMA OnwardOnPath ==
  ASSUME IInv, NEW t \in Trace, NEW where, Goto(t, where),
         where \in InHandler \union {"done"},
         live' \in [Trace -> Record],
         \A u \in Trace : u # t => live'[u] = live[u],
         UNCHANGED recorder,
         OnPath(t)',
         UNCHANGED <<headers, hungUp>>,
         answer' \in [Trace -> {"none", "200", "404", "429", "502"}],
         stored' \in [Trace -> Record \union {NoTrace, Shared}],
         lastWrite' \in [Trace -> {"none", "ok", "err"}]
  PROVE  /\ IInv'
         /\ RecordedState' = RecordedState
<1>1. TypeOK
  BY DEF IInv
<1>2. at' = [at EXCEPT ![t] = where]
  BY DEF Goto
<1>3. Path'
  BY <1>2, Elsewhere
<1>4. at' \in [Trace -> {"idle", "done", "lost"} \union InHandler]
  BY <1>1, <1>2 DEF TypeOK
<1>5. /\ stream' \in [Trace -> BOOLEAN]
      /\ strategy' \in [Trace -> Strategies]
      /\ hungUp' \in [Trace -> BOOLEAN]
  BY <1>1 DEF TypeOK, headers
<1>6. TypeOK'
  BY <1>1, <1>4, <1>5 DEF TypeOK
<1> QED
  BY <1>3, <1>6 DEF IInv, RecordedState

-----------------------------------------------------------------------------
\* Initially no trace has a transition.
LEMMA InitOnPath == Init => IInv /\ Lifecycle!Unborn
<1> SUFFICES ASSUME Init PROVE IInv /\ Lifecycle!Unborn
  OBVIOUS
<1>1. \A t \in Trace : /\ recorder[t] = <<>> /\ Len(recorder[t]) = 0
                       /\ recorder[t] \in Seq(Transition)
                       /\ at[t] = "idle"
                       /\ live[t].state = NotStarted
  BY DEF Init, NewRecord
<1>2. RecordedState = [t \in Trace |-> NotStarted]
  BY <1>1 DEF RecordedState
<1>3. Path
  BY <1>1, <1>2 DEF Path, OnPath, Stands
<1>4. NewRecord \in Record
  BY DEF NewRecord, Record, Error
<1>5. TypeOK
  BY <1>1, <1>4 DEF Init, TypeOK
<1> QED
  BY <1>2, <1>3, <1>5 DEF IInv, Lifecycle!Unborn, Lifecycle!NotStarted, NotStarted

\* The move of the lifecycle that a step of one trace amounts to.
LEMMA MoveOf ==
  ASSUME NEW t \in Trace, NEW to \in State,
         RecordedState' = [RecordedState EXCEPT ![t] = to],
         \/ RecordedState[t] = NotStarted /\ to = "INIT"
         \/ <<RecordedState[t], to>> \in CanTransition
  PROVE  Lifecycle!Move(t)
BY DEF Lifecycle!Move, Lifecycle!State, Lifecycle!FinalState, Lifecycle!NotStarted,
       Lifecycle!CanTransition, State, FinalState, NotStarted, CanTransition

\* Every step keeps the invariant and is a move of the lifecycle or none.
LEMMA StepOnPath ==
  IInv /\ [Next]_tvars =>
    IInv' /\ (UNCHANGED RecordedState \/ \E t \in Trace : Lifecycle!Move(t))
<1> SUFFICES ASSUME IInv, [Next]_tvars
             PROVE  IInv' /\ (UNCHANGED RecordedState \/ \E t \in Trace : Lifecycle!Move(t))
  OBVIOUS
<1> USE DEF IInv
<1>1. CASE UNCHANGED tvars
  BY <1>1 DEF tvars, TypeOK, Path, OnPath, Stands, RecordedState
<1>2. ASSUME NEW t \in Trace, Receive(t)
      PROVE  IInv' /\ Lifecycle!Move(t)
  <2>1. RecordedState[t] = NotStarted /\ "INIT" \in State
    BY <1>2 DEF Receive, Path, OnPath, Stands, State
  <2>2. IInv' /\ RecordedState' = [RecordedState EXCEPT ![t] = "INIT"]
    BY <1>2, <2>1, AdvancedOnPath DEF Receive
  <2> QED
    BY <2>1, <2>2, MoveOf
<1>3. ASSUME NEW t \in Trace, PreExecute(t)
      PROVE  IInv' /\ Lifecycle!Move(t)
  <2>1. /\ <<RecordedState[t], "CONSTRAINT_EVAL">> \in CanTransition
        /\ "CONSTRAINT_EVAL" \in State
    BY <1>3 DEF PreExecute, Path, OnPath, Stands, State, CanTransition
  <2>2. IInv' /\ RecordedState' = [RecordedState EXCEPT ![t] = "CONSTRAINT_EVAL"]
    BY <1>3, <2>1, AdvancedOnPath DEF PreExecute
  <2> QED
    BY <2>1, <2>2, MoveOf
<1>4. ASSUME NEW t \in Trace, Decide(t)
      PROVE  IInv' /\ Lifecycle!Move(t)
  <2>1. /\ <<RecordedState[t], "EXECUTING">> \in CanTransition
        /\ <<RecordedState[t], "FAILED">> \in CanTransition
        /\ "EXECUTING" \in State /\ "FAILED" \in State
        /\ at[t] = "decide"
        /\ UNCHANGED <<headers, hungUp>>
    BY <1>4 DEF Decide, Path, OnPath, Stands, State, FinalState, CanTransition
  <2>2. CASE Fail(t, "BUDGET_EXCEEDED", "429")
    <3>1. "BUDGET_EXCEEDED" \in Error
      BY DEF Error
    <3> QED
      BY <2>1, <2>2, <3>1, Failed, MoveOf
  <2>3. CASE Advance(t, "Update", "EXECUTING") /\ Goto(t, "route") /\ UNCHANGED answer
    BY <2>1, <2>3, AdvancedOnPath, MoveOf
  <2> QED
    BY <1>4, <2>2, <2>3 DEF Decide
<1>5. ASSUME NEW t \in Trace, NoProvider(t) \/ NoBudget(t) \/ UpstreamFails(t)
      PROVE  IInv' /\ Lifecycle!Move(t)
  <2>1. at[t] \in {"route", "reserve", "call"} /\ UNCHANGED <<headers, hungUp>>
    BY <1>5 DEF NoProvider, NoBudget, UpstreamFails
  <2>2. <<RecordedState[t], "FAILED">> \in CanTransition /\ "FAILED" \in State
    BY <2>1 DEF Path, OnPath, Stands, State, FinalState, CanTransition
  <2>3. PICK error \in Error, status \in {"404", "429", "502"} : Fail(t, error, status)
    BY <1>5 DEF NoProvider, NoBudget, UpstreamFails, Error
  <2> QED
    BY <2>1, <2>2, <2>3, Failed, MoveOf
<1>6. ASSUME NEW t \in Trace, Route(t) \/ Reserve(t) \/ UpstreamReplies(t)
      PROVE  IInv' /\ UNCHANGED RecordedState
  <2>1. PICK where \in {"reserve", "call", "validate"} :
          /\ Goto(t, where)
          /\ at[t] \in {"route", "reserve", "call"}
          /\ UNCHANGED <<live, recorder, headers, answer, hungUp>>
          /\ NoWrite
    BY <1>6 DEF Route, Reserve, UpstreamReplies
  <2>2. at'[t] = where
    BY <2>1 DEF TypeOK, Goto
  <2>3. Stands(t, 3, "EXECUTING", "EXECUTING")
    BY <2>1 DEF Path, OnPath
  <2>4. Stands(t, 3, "EXECUTING", "EXECUTING")'
    BY <2>1, <2>3 DEF Stands, RecordedState
  <2>5. OnPath(t)'
    BY <2>1, <2>2, <2>4 DEF OnPath
  <2>6. where \in InHandler
    BY <2>1 DEF InHandler
  <2>7. /\ live' \in [Trace -> Record]
        /\ stored' \in [Trace -> Record \union {NoTrace, Shared}]
        /\ lastWrite' \in [Trace -> {"none", "ok", "err"}]
        /\ answer' \in [Trace -> {"none", "200", "404", "429", "502"}]
    BY <2>1 DEF TypeOK, NoWrite
  <2> QED
    BY <2>1, <2>5, <2>6, <2>7, OnwardOnPath
<1>7. ASSUME NEW t \in Trace, Validate(t)
      PROVE  IInv' /\ Lifecycle!Move(t)
  <2> USE <1>7 DEF Validate
  <2>1. Stands(t, 3, "EXECUTING", "EXECUTING")
    BY DEF Path, OnPath
  <2>2. /\ <<RecordedState[t], "VALIDATION">> \in CanTransition
        /\ "VALIDATION" \in State
        /\ live[t].state \in State \union {NotStarted}
    BY <2>1 DEF Stands, State, CanTransition
  <2>3. /\ recorder' \in [Trace -> Seq(Transition)]
        /\ recorder' = [recorder EXCEPT ![t] = recorder'[t]]
        /\ Len(recorder'[t]) = Len(recorder[t]) + 1
        /\ RecordedState' = [RecordedState EXCEPT ![t] = "VALIDATION"]
    BY <2>2, Recorded
  <2> HIDE <1>7 DEF Validate
  <2>4. at' = [at EXCEPT ![t] = "finalize"] /\ at'[t] = "finalize" /\ live' = live
    BY <1>7 DEF Validate, Goto, TypeOK
  <2>5. Len(recorder'[t]) = 4 /\ RecordedState'[t] = "VALIDATION" /\ live'[t].state = "EXECUTING"
    BY <2>1, <2>3, <2>4 DEF Stands, RecordedState
  <2>6. OnPath(t)'
    BY <2>4, <2>5 DEF OnPath, Stands
  <2>7. \A u \in Trace : u # t => live'[u] = live[u] /\ recorder'[u] = recorder[u]
    BY <2>3, <2>4 DEF TypeOK
  <2>8. Path'
    BY <2>4, <2>6, <2>7, Elsewhere
  <2>9. \A u \in Trace : Len(recorder'[u]) <= 5
    <3>1. Len(recorder[t]) = 3 /\ recorder[t] \in Seq(Transition) /\ recorder'[t] \in Seq(Transition)
      BY <2>1, <2>3 DEF Stands, TypeOK
    <3>2. Len(recorder'[t]) <= 5
      BY <2>3, <3>1, OneMore
    <3> QED
      BY <2>7, <3>2 DEF TypeOK
  <2>10. TypeOK'
    <3>1. at' \in [Trace -> {"idle", "done", "lost"} \union InHandler]
      BY <2>4 DEF TypeOK, InHandler
    <3> QED
      BY <1>7, <2>3, <2>9, <3>1 DEF Validate, TypeOK, NoWrite, headers
  <2> QED
    BY <2>2, <2>3, <2>8, <2>10, MoveOf
<1>8. ASSUME NEW t \in Trace, Finalize(t)
      PROVE  IInv' /\ Lifecycle!Move(t)
  <2>1. Stands(t, 4, "EXECUTING", "VALIDATION") /\ at[t] = "finalize"
    BY <1>8 DEF Finalize, Path, OnPath
  <2>2. /\ <<RecordedState[t], "FINALIZED">> \in CanTransition
        /\ "FINALIZED" \in State
        /\ "VALIDATION" \in State \union {NotStarted}
    BY <2>1 DEF Stands, State, FinalState, CanTransition
  <2>3. /\ recorder' \in [Trace -> Seq(Transition)]
        /\ recorder' = [recorder EXCEPT ![t] = recorder'[t]]
        /\ Len(recorder'[t]) = Len(recorder[t]) + 1
        /\ RecordedState' = [RecordedState EXCEPT ![t] = "FINALIZED"]
    BY <1>8, <2>2, Recorded DEF Finalize
  <2>4. at' = [at EXCEPT ![t] = "output"] /\ at'[t] = "output"
    BY <1>8 DEF Finalize, Goto, TypeOK
  <2>5. OnPath(t)'
    BY <2>4 DEF OnPath
  <2>6. /\ live' \in [Trace -> Record]
        /\ \A u \in Trace : u # t => live'[u] = live[u]
    <3>1. live[t] \in Record /\ live \in [Trace -> Record]
      BY DEF TypeOK
    <3>2. [live[t] EXCEPT !.state = "FINALIZED"] \in Record
      BY <2>2, <3>1 DEF Record
    <3>3. live' = [live EXCEPT ![t] = [live[t] EXCEPT !.state = "FINALIZED"]]
      BY <1>8 DEF Finalize
    <3> QED
      BY <3>1, <3>2, <3>3
  <2>7. \A u \in Trace : u # t => recorder'[u] = recorder[u]
    BY <2>3 DEF TypeOK
  <2>8. Path'
    BY <2>4, <2>5, <2>6, <2>7, Elsewhere
  <2>9. \A u \in Trace : Len(recorder'[u]) <= 5
    <3>1. Len(recorder[t]) = 4 /\ recorder[t] \in Seq(Transition) /\ recorder'[t] \in Seq(Transition)
      BY <2>1, <2>3 DEF Stands, TypeOK
    <3>2. Len(recorder'[t]) <= 5
      BY <2>3, <3>1, OneMore
    <3> QED
      BY <2>7, <3>2 DEF TypeOK
  <2>10. TypeOK'
    <3>1. at' \in [Trace -> {"idle", "done", "lost"} \union InHandler]
      BY <2>4 DEF TypeOK, InHandler
    <3> QED
      BY <1>8, <2>3, <2>6, <2>9, <3>1 DEF Finalize, TypeOK, NoWrite, headers
  <2> QED
    BY <2>2, <2>3, <2>8, <2>10, MoveOf
<1>9. ASSUME NEW t \in Trace, SetOutput(t) \/ Observe(t) \/ Reply(t) \/ ReplyStream(t) \/ SignAndStore(t)
      PROVE  IInv' /\ UNCHANGED RecordedState
  <2>1. PICK where \in {"observe", "reply", "sign", "done"} : Goto(t, where)
    BY <1>9 DEF SetOutput, Observe, Reply, ReplyStream, SignAndStore
  <2>2. where \in InHandler \union {"done"}
    BY <2>1 DEF InHandler
  <2>3. OnPath(t)'
    <3>1. at'[t] = where
      BY <2>1 DEF TypeOK, Goto
    <3> QED
      BY <2>1, <3>1 DEF OnPath
  <2>4. live[t] \in Record /\ live \in [Trace -> Record] /\ recorder[t] \in Seq(Transition)
    BY DEF TypeOK
  <2>5. PICK r \in Record : live' = [live EXCEPT ![t] = r] /\ (SignAndStore(t) => Write(t, "Update", r))
    <3>1. CASE SetOutput(t)
      <4>1. live' = [live EXCEPT ![t] = [live[t] EXCEPT !.output = TRUE]]
        BY <3>1 DEF SetOutput
      <4>2. [live[t] EXCEPT !.output = TRUE] \in Record
        BY <2>4 DEF Record
      <4>3. ~SignAndStore(t)
        BY <3>1 DEF SetOutput, SignAndStore
      <4> QED
        BY <4>1, <4>2, <4>3
    <3>2. CASE Observe(t)
      <4>1. live' = [live EXCEPT ![t] = [live[t] EXCEPT !.error = "none", !.transitions = recorder[t]]]
        BY <3>2 DEF Observe
      <4>2. [live[t] EXCEPT !.error = "none", !.transitions = recorder[t]] \in Record
        BY <2>4 DEF Record, Error
      <4>3. ~SignAndStore(t)
        BY <3>2 DEF Observe, SignAndStore
      <4> QED
        BY <4>1, <4>2, <4>3
    <3>3. CASE Reply(t) \/ ReplyStream(t)
      <4>1. live' = [live EXCEPT ![t] = live[t]] /\ ~SignAndStore(t)
        BY <2>4, <3>3 DEF Reply, ReplyStream, SignAndStore
      <4> QED
        BY <2>4, <4>1
    <3>4. CASE SignAndStore(t)
      <4>1. Signable("messages") \in BOOLEAN
        BY DEF Signable
      <4>2. [live[t] EXCEPT !.signed = Signable("messages")] \in Record
        BY <2>4, <4>1 DEF Record
      <4> QED
        BY <3>4, <4>2 DEF SignAndStore
    <3> QED
      BY <1>9, <3>1, <3>2, <3>3, <3>4
  <2>6. /\ live' \in [Trace -> Record]
        /\ \A u \in Trace : u # t => live'[u] = live[u]
    BY <2>4, <2>5
  <2>7. UNCHANGED <<recorder, headers, hungUp>>
    BY <1>9 DEF SetOutput, Observe, Reply, ReplyStream, SignAndStore
  <2>8. answer' \in [Trace -> {"none", "200", "404", "429", "502"}]
    BY <1>9 DEF SetOutput, Observe, Reply, ReplyStream, SignAndStore, TypeOK
  <2>9. /\ stored' \in [Trace -> Record \union {NoTrace, Shared}]
        /\ lastWrite' \in [Trace -> {"none", "ok", "err"}]
    <3>1. CASE SignAndStore(t)
      BY <2>5, <3>1, WriteType
    <3>2. CASE NoWrite
      BY <3>2 DEF NoWrite, TypeOK
    <3> QED
      BY <1>9, <3>1, <3>2 DEF SetOutput, Observe, Reply, ReplyStream
  <2> QED
    BY <2>1, <2>2, <2>3, <2>6, <2>7, <2>8, <2>9, OnwardOnPath
<1>10. ASSUME NEW t \in Trace, HangUp(t)
       PROVE  IInv' /\ UNCHANGED RecordedState
  BY <1>10 DEF HangUp, TypeOK, Path, OnPath, Stands, RecordedState, headers
<1>11. ASSUME Crash
       PROVE  IInv' /\ UNCHANGED RecordedState
  <2>1. /\ UNCHANGED <<live, recorder, headers, answer, lastWrite, hungUp>>
        /\ UNCHANGED RecordedState
    BY <1>11 DEF Crash, RecordedState
  <2>2. \A t \in Trace : at'[t] = (IF at[t] \in InHandler THEN "lost" ELSE at[t])
    BY <1>11 DEF Crash
  <2>3. \A t \in Trace : OnPath(t)'
    BY <2>1, <2>2 DEF Path, OnPath, Stands
  <2>4. at' \in [Trace -> {"idle", "done", "lost"} \union InHandler]
    BY <1>11 DEF Crash, TypeOK
  <2>5. stored' \in [Trace -> Record \union {NoTrace, Shared}]
    BY <1>11 DEF Crash, TypeOK
  <2> QED
    BY <2>1, <2>3, <2>4, <2>5 DEF TypeOK, Path, headers
<1> QED
  BY <1>1, <1>2, <1>3, <1>4, <1>5, <1>6, <1>7, <1>8, <1>9, <1>10, <1>11
  DEF Next, Handle

-----------------------------------------------------------------------------
\* The types, with the bound on the history: no path through
\* handleChatCompletions records more than five transitions.
THEOREM TraceTypeCorrect == Spec => []TypeOK
<1>1. Init => IInv
  BY InitOnPath
<1>2. IInv /\ [Next]_tvars => IInv'
  BY StepOnPath
<1>3. IInv => TypeOK
  BY DEF IInv
<1> QED
  BY <1>1, <1>2, <1>3, PTL DEF Spec

\* Whatever fails, whoever hangs up and whenever the process ends, the
\* transitions the handler records are moves of the domain's state machine.
THEOREM LifecycleFollowed == Spec => FollowsLifecycle
<1>1. Init => IInv /\ Lifecycle!Unborn
  BY InitOnPath
<1>2. IInv /\ [Next]_tvars =>
        IInv' /\ [\E t \in Trace : Lifecycle!Move(t)]_RecordedState
  BY StepOnPath
<1> QED
  BY <1>1, <1>2, PTL DEF Spec, FollowsLifecycle, Lifecycle!LifecycleSpec

-----------------------------------------------------------------------------
(***************************************************************************)
(* What the store keeps and what was answered.                             *)
(***************************************************************************)
\* The transitions start at INIT and join up.
Tells(path) ==
  /\ path # <<>>
  /\ path[1] = <<NotStarted, "INIT">>
  /\ \A i \in 1 .. Len(path) - 1 : path[i][2] = path[i + 1][1]

Underway == {"hooks", "decide", "route", "reserve", "call", "validate", "finalize"}
Ending == {"output", "observe", "reply", "sign"}

\* A trace in a final state says how it came there and what came of it.
Complete(r) ==
  /\ ToldInFull(r)
  /\ \/ r.state = "FINALIZED" /\ r.output /\ r.error = "none"
     \/ r.state = "FAILED" /\ ~r.output /\ r.error # "none"

\* The store keeps no copy in a final state.
NoFinalCopy(t) ==
  stored[t] \notin {NoTrace, Shared} => stored[t].state \notin FinalState

\* Until the handler is done, no copy is final and only a reply was sent.
OpenStory(t) ==
  /\ at[t] = "idle" =>
       recorder[t] = <<>> /\ answer[t] = "none" /\ stored[t] = NoTrace
  /\ at[t] \in Underway =>
       Tells(recorder[t]) /\ answer[t] = "none" /\ NoFinalCopy(t)
  /\ at[t] \in {"idle", "output"} \union Underway =>
       live[t].error = "none" /\ ~live[t].output

\* From the assignment of FINALIZED on.
EndingStory(t) ==
  at[t] \in Ending =>
    /\ Tells(recorder[t]) /\ NoFinalCopy(t)
    /\ RecordedState[t] = "FINALIZED" /\ live[t].state = "FINALIZED"
    /\ live[t].error = "none"
    /\ at[t] # "output" => live[t].output
    /\ at[t] \in {"reply", "sign"} => live[t].transitions = recorder[t]
    /\ answer[t] = IF at[t] = "sign" THEN "200" ELSE "none"
    /\ at[t] = "sign" => ~stream[t]

\* The live trace is complete and fits the answer; a final copy is of it.
DoneStory(t) ==
  at[t] = "done" =>
    /\ Complete(live[t])
    /\ \/ answer[t] = "200" /\ live[t].state = "FINALIZED"
       \/ answer[t] \in {"404", "429", "502"} /\ live[t].state = "FAILED"
    /\ \/ stored[t] \in {NoTrace, Shared}
       \/ Complete(stored[t]) /\ stored[t].state = live[t].state
       \/ /\ stored[t].state \notin FinalState
          /\ lastWrite[t] = "err" \/ (answer[t] = "200" /\ stream[t])

LostStory(t) ==
  at[t] = "lost" =>
    answer[t] \in {"none", "200"} /\ stored[t] # Shared /\ NoFinalCopy(t)

Told(t) == OpenStory(t) /\ EndingStory(t) /\ DoneStory(t) /\ LostStory(t)

Story == \A t \in Trace : Told(t)

\* A transition from where a history has come joins up with it.
LEMMA TellsMore ==
  ASSUME NEW h \in Seq(Transition), Tells(h), NEW from \in State \union {NotStarted},
         NEW to \in State, from = h[Len(h)][2]
  PROVE  Tells(Append(h, <<from, to>>))
<1> DEFINE g == Append(h, <<from, to>>)
<1>1. Len(h) \in Nat /\ Len(h) > 0
  BY DEF Tells
<1>2. <<from, to>> \in Transition
  BY DEF Transition
<1>3. /\ g \in Seq(Transition) /\ Len(g) = Len(h) + 1
      /\ \A i \in 1 .. Len(h) : g[i] = h[i]
      /\ g[Len(h) + 1] = <<from, to>>
  BY <1>2
<1>4. g # <<>> /\ g[1] = <<NotStarted, "INIT">>
  BY <1>1, <1>3 DEF Tells
<1>5. ASSUME NEW i \in 1 .. Len(g) - 1 PROVE g[i][2] = g[i + 1][1]
  <2>1. i \in 1 .. Len(h) /\ g[i] = h[i]
    BY <1>1, <1>3, <1>5
  <2>2. CASE i = Len(h)
    <3>1. g[i + 1][1] = from
      BY <1>3, <2>2
    <3> QED
      BY <2>1, <2>2, <3>1
  <2>3. CASE i # Len(h)
    <3>1. i \in 1 .. Len(h) - 1 /\ i + 1 \in 1 .. Len(h)
      BY <1>1, <2>1, <2>3
    <3> QED
      BY <1>3, <2>1, <3>1 DEF Tells
  <2> QED
    BY <2>2, <2>3
<1> QED
  BY <1>4, <1>5 DEF Tells

\* The recorder of a trace that has begun, after one more transition.
LEMMA RecorderTells ==
  ASSUME TypeOK, NEW t \in Trace, NEW from \in State \union {NotStarted},
         NEW to \in State, RecordTransition(t, from, to),
         \/ Tells(recorder[t]) /\ from = RecordedState[t]
         \/ recorder[t] = <<>> /\ from = NotStarted /\ to = "INIT"
  PROVE  Tells(recorder'[t])
<1>1. recorder[t] \in Seq(Transition) /\ recorder'[t] = Append(recorder[t], <<from, to>>)
  BY DEF TypeOK, RecordTransition
<1>2. CASE Tells(recorder[t]) /\ from = RecordedState[t]
  <2>1. Len(recorder[t]) # 0
    BY <1>1, <1>2 DEF Tells
  <2>2. from = recorder[t][Len(recorder[t])][2]
    BY <1>2, <2>1 DEF RecordedState
  <2> QED
    BY <1>1, <1>2, <2>2, TellsMore
<1>3. CASE recorder[t] = <<>> /\ from = NotStarted /\ to = "INIT"
  <2>1. recorder'[t] = <<<<NotStarted, "INIT">>>>
    BY <1>1, <1>3
  <2> QED
    BY <2>1 DEF Tells
<1> QED
  BY <1>2, <1>3

\* How a write may end, and that it concerns one trace.
LEMMA Written ==
  ASSUME TypeOK, NEW t \in Trace, NEW call, NEW record, Write(t, call, record)
  PROVE  /\ \/ stored'[t] \in {Shared, record}
            \/ stored'[t] = stored[t] /\ lastWrite'[t] = "err"
         /\ \A u \in Trace : u # t => stored'[u] = stored[u] /\ lastWrite'[u] = lastWrite[u]
BY DEF TypeOK, Write

\* What a trace is told to be depends on its own part of the state.
LEMMA OthersTold ==
  ASSUME IInv, Story, NEW t \in Trace, NEW where, Goto(t, where),
         \A u \in Trace : u # t =>
           /\ live'[u] = live[u] /\ recorder'[u] = recorder[u]
           /\ stored'[u] = stored[u] /\ lastWrite'[u] = lastWrite[u]
           /\ answer'[u] = answer[u],
         UNCHANGED headers,
         Told(t)'
  PROVE  Story'
<1> SUFFICES ASSUME NEW u \in Trace, u # t PROVE Told(u)'
  BY DEF Story
<1>1. /\ at'[u] = at[u] /\ live'[u] = live[u] /\ recorder'[u] = recorder[u]
      /\ stored'[u] = stored[u] /\ lastWrite'[u] = lastWrite[u]
      /\ answer'[u] = answer[u] /\ stream'[u] = stream[u]
      /\ RecordedState'[u] = RecordedState[u]
  BY DEF Goto, IInv, TypeOK, RecordedState, headers
<1>2. Told(u)
  BY DEF Story
<1>3. OpenStory(u)' /\ LostStory(u)'
  BY <1>1, <1>2 DEF Told, OpenStory, LostStory, NoFinalCopy
<1>4. EndingStory(u)' /\ DoneStory(u)'
  BY <1>1, <1>2 DEF Told, EndingStory, DoneStory, NoFinalCopy
<1> QED
  BY <1>3, <1>4 DEF Told

\* No two of the places a story speaks of are the same.
LEMMA Apart ==
  ASSUME NEW where \in Underway
  PROVE  where \notin Ending /\ where \notin {"idle", "done", "lost", "output"}
BY DEF Underway, Ending

\* A story goes on while the handler is under way.
LEMMA UnderwayTold ==
  ASSUME NEW t \in Trace, at'[t] \in Underway,
         Tells(recorder'[t]), answer'[t] = "none", NoFinalCopy(t)',
         live'[t].error = "none", ~live'[t].output
  PROVE  Told(t)'
<1>1. /\ at'[t] \notin Ending
      /\ at'[t] # "idle" /\ at'[t] # "done" /\ at'[t] # "lost"
  BY Apart
<1> QED
  BY <1>1 DEF Told, OpenStory, EndingStory, DoneStory, LostStory

\* Advance keeps the story, from the first write on.
LEMMA AdvanceTold ==
  ASSUME IInv, Story, NEW t \in Trace, NEW call, NEW to \in State \ FinalState,
         NEW where \in Underway, Advance(t, call, to), Goto(t, where),
         at[t] \in {"idle", "hooks", "decide"},
         at[t] = "idle" => to = "INIT",
         UNCHANGED <<headers, answer>>
  PROVE  Story'
<1> DEFINE record == [live[t] EXCEPT !.state = to]
<1>1. /\ TypeOK /\ live[t] \in Record /\ live \in [Trace -> Record]
      /\ live[t].state \in State \union {NotStarted}
      /\ live[t].state = RecordedState[t] /\ to \in State
      /\ at[t] = "idle" => live[t].state = NotStarted
  BY DEF IInv, TypeOK, Record, Path, OnPath, Stands
<1>2. /\ RecordTransition(t, live[t].state, to)
      /\ live' = [live EXCEPT ![t] = record]
      /\ Write(t, call, record)
  BY DEF Advance
<1>3. OpenStory(t)
  BY DEF Story, Told
<1>4. /\ at[t] = "idle" => recorder[t] = <<>> /\ stored[t] = NoTrace
      /\ at[t] # "idle" => Tells(recorder[t]) /\ NoFinalCopy(t)
      /\ answer[t] = "none" /\ live[t].error = "none" /\ ~live[t].output
  BY <1>3 DEF OpenStory, Underway
<1>5. Tells(recorder'[t])
  BY <1>1, <1>2, <1>4, RecorderTells
<1>6. record.state = to /\ record.error = "none" /\ ~record.output
  BY <1>1, <1>4 DEF Record
<1>7. live'[t] = record /\ at'[t] = where /\ answer'[t] = "none"
  BY <1>1, <1>2, <1>4 DEF Goto, TypeOK
<1>8. NoFinalCopy(t)
  BY <1>4 DEF NoFinalCopy
<1>9. /\ \/ stored'[t] \in {Shared, record}
         \/ stored'[t] = stored[t] /\ lastWrite'[t] = "err"
      /\ \A u \in Trace : u # t => stored'[u] = stored[u] /\ lastWrite'[u] = lastWrite[u]
  BY <1>1, <1>2, Written
<1>10. NoFinalCopy(t)'
  BY <1>6, <1>8, <1>9 DEF NoFinalCopy
<1>11. Told(t)'
  BY <1>5, <1>6, <1>7, <1>10, UnderwayTold
<1>12. \A u \in Trace : u # t => /\ live'[u] = live[u] /\ recorder'[u] = recorder[u]
                                 /\ answer'[u] = answer[u]
  BY <1>1, <1>2 DEF RecordTransition, TypeOK
<1> QED
  BY <1>9, <1>11, <1>12, OthersTold

\* Fail completes the trace, and writes it so or not at all.
LEMMA FailTold ==
  ASSUME IInv, Story, NEW t \in Trace, NEW error \in Error \ {"none"},
         NEW status \in {"404", "429", "502"}, Fail(t, error, status),
         at[t] \in {"decide", "route", "reserve", "call"},
         UNCHANGED headers
  PROVE  Story'
<1> DEFINE history == Append(recorder[t], <<live[t].state, "FAILED">>)
           record == [live[t] EXCEPT !.state = "FAILED", !.error = error,
                                     !.transitions = history]
<1>1. /\ TypeOK /\ live[t] \in Record /\ live \in [Trace -> Record]
      /\ live[t].state \in State \union {NotStarted}
      /\ live[t].state = RecordedState[t] /\ "FAILED" \in State
      /\ recorder[t] \in Seq(Transition)
  BY DEF IInv, TypeOK, Record, Path, OnPath, Stands, State, FinalState
<1>2. /\ RecordTransition(t, live[t].state, "FAILED")
      /\ live' = [live EXCEPT ![t] = record]
      /\ Write(t, "Update", record)
      /\ answer' = [answer EXCEPT ![t] = status]
      /\ at' = [at EXCEPT ![t] = "done"]
      /\ recorder'[t] = history
  BY DEF Fail, RecordTransition, Goto, IInv, TypeOK
<1>3. OpenStory(t)
  BY DEF Story, Told
<1>4. Tells(recorder[t]) /\ NoFinalCopy(t) /\ ~live[t].output
  BY <1>3 DEF OpenStory, Underway
<1>5. Tells(history)
  BY <1>1, <1>2, <1>4, RecorderTells
<1>6. /\ history # <<>> /\ history[Len(history)][2] = "FAILED"
  BY <1>1, Appended
<1>7. /\ record.state = "FAILED" /\ record.error # "none" /\ ~record.output
      /\ record.transitions = history
  BY <1>1, <1>4 DEF Record
<1>8. Complete(record)
  <2> HIDE DEF history, record
  <2> QED
    BY <1>5, <1>6, <1>7 DEF Complete, ToldInFull, Tells
<1>9. live'[t] = record /\ at'[t] = "done" /\ answer'[t] = status
  BY <1>1, <1>2 DEF TypeOK
<1>10. /\ \/ stored'[t] \in {Shared, record}
          \/ stored'[t] = stored[t] /\ lastWrite'[t] = "err"
       /\ \A u \in Trace : u # t => stored'[u] = stored[u] /\ lastWrite'[u] = lastWrite[u]
  BY <1>1, <1>2, Written
<1>11. Told(t)'
  <2> HIDE DEF record
  <2>1. DoneStory(t)'
    BY <1>4, <1>7, <1>8, <1>9, <1>10 DEF DoneStory, NoFinalCopy
  <2> QED
    BY <1>9, <2>1 DEF Told, OpenStory, EndingStory, LostStory, Underway, Ending
<1>12. \A u \in Trace : u # t => /\ live'[u] = live[u] /\ recorder'[u] = recorder[u]
                                 /\ answer'[u] = answer[u]
  BY <1>1, <1>2 DEF RecordTransition, TypeOK
<1>13. Goto(t, "done")
  BY <1>2 DEF Goto
<1> QED
  BY <1>10, <1>11, <1>12, <1>13, OthersTold

\* Initially there is nothing to tell.
LEMMA InitTold == Init => Story
<1> SUFFICES ASSUME Init, NEW t \in Trace PROVE Told(t)
  BY DEF Story
<1>1. /\ at[t] = "idle" /\ live[t] = NewRecord /\ recorder[t] = <<>>
      /\ stored[t] = NoTrace /\ answer[t] = "none"
  BY DEF Init
<1> QED
  BY <1>1 DEF Told, OpenStory, EndingStory, DoneStory, LostStory, Underway, Ending, NewRecord

\* Every step keeps the story.
LEMMA StepTold == IInv /\ Story /\ [Next]_tvars => Story'
<1> SUFFICES ASSUME IInv, Story, [Next]_tvars PROVE Story'
  OBVIOUS
<1>0. /\ TypeOK
      /\ \A t \in Trace : Told(t) /\ OnPath(t)
      /\ \A t \in Trace : live[t] \in Record /\ recorder[t] \in Seq(Transition)
  BY DEF IInv, Story, Path, TypeOK
<1>1. CASE UNCHANGED tvars
  <2> SUFFICES ASSUME NEW t \in Trace PROVE Told(t)'
    BY DEF Story
  <2>1. /\ UNCHANGED <<at, live, recorder, stored, stream, answer, lastWrite>>
        /\ RecordedState' = RecordedState
    BY <1>1 DEF tvars, RecordedState
  <2> QED
    BY <1>0, <2>1 DEF Told, OpenStory, EndingStory, DoneStory, LostStory, NoFinalCopy
<1>2. ASSUME NEW t \in Trace, Receive(t) PROVE Story'
  <2>1. "INIT" \in State \ FinalState /\ "hooks" \in Underway
    BY DEF State, FinalState, Underway
  <2> QED
    BY <1>2, <2>1, AdvanceTold DEF Receive
<1>3. ASSUME NEW t \in Trace, PreExecute(t) PROVE Story'
  <2>1. "CONSTRAINT_EVAL" \in State \ FinalState /\ "decide" \in Underway
    BY DEF State, FinalState, Underway
  <2> QED
    BY <1>3, <2>1, AdvanceTold DEF PreExecute
<1>4. ASSUME NEW t \in Trace, Decide(t) PROVE Story'
  <2>1. /\ "EXECUTING" \in State \ FinalState /\ "route" \in Underway
        /\ "BUDGET_EXCEEDED" \in Error \ {"none"}
    BY DEF State, FinalState, Underway, Error
  <2>2. at[t] = "decide" /\ UNCHANGED headers
    BY <1>4 DEF Decide
  <2>3. CASE Fail(t, "BUDGET_EXCEEDED", "429")
    BY <2>1, <2>2, <2>3, FailTold
  <2>4. CASE Advance(t, "Update", "EXECUTING") /\ Goto(t, "route") /\ UNCHANGED answer
    BY <2>1, <2>2, <2>4, AdvanceTold
  <2> QED
    BY <1>4, <2>3, <2>4 DEF Decide
<1>5. ASSUME NEW t \in Trace, NoProvider(t) \/ NoBudget(t) \/ UpstreamFails(t)
      PROVE  Story'
  <2>1. at[t] \in {"route", "reserve", "call"} /\ UNCHANGED headers
    BY <1>5 DEF NoProvider, NoBudget, UpstreamFails
  <2>2. PICK error \in Error \ {"none"}, status \in {"404", "429", "502"} :
          Fail(t, error, status)
    BY <1>5 DEF NoProvider, NoBudget, UpstreamFails, Error
  <2> QED
    BY <2>1, <2>2, FailTold
<1>6. ASSUME NEW t \in Trace, Route(t) \/ Reserve(t) \/ UpstreamReplies(t)
      PROVE  Story'
  <2>1. PICK where \in {"reserve", "call", "validate"} :
          /\ Goto(t, where)
          /\ at[t] \in {"route", "reserve", "call"}
          /\ UNCHANGED <<live, recorder, headers, answer>>
          /\ NoWrite
    BY <1>6 DEF Route, Reserve, UpstreamReplies
  <2>2. at'[t] = where /\ where \in Underway /\ UNCHANGED <<stored, lastWrite>>
    BY <1>0, <2>1 DEF TypeOK, Goto, Underway, NoWrite
  <2>3. OpenStory(t) /\ at[t] \in Underway
    BY <1>0, <2>1 DEF Told, Underway
  <2>4. Told(t)'
    BY <2>1, <2>2, <2>3, UnderwayTold DEF OpenStory, NoFinalCopy
  <2> QED
    BY <2>1, <2>2, <2>4, OthersTold
<1>7. ASSUME NEW t \in Trace, Validate(t) PROVE Story'
  <2>1. /\ at[t] = "validate" /\ at'[t] = "finalize" /\ Goto(t, "finalize")
        /\ RecordTransition(t, live[t].state, "VALIDATION")
        /\ UNCHANGED <<live, headers, answer, stored, lastWrite>>
    BY <1>0, <1>7 DEF Validate, Goto, TypeOK, NoWrite
  <2>2. /\ OpenStory(t) /\ at[t] \in Underway /\ at'[t] \in Underway
        /\ live[t].state = RecordedState[t]
        /\ live[t].state \in State /\ "VALIDATION" \in State
    BY <1>0, <2>1 DEF Told, Underway, OnPath, Stands, State
  <2>3. Tells(recorder'[t])
    BY <1>0, <2>1, <2>2, RecorderTells DEF OpenStory
  <2>4. Told(t)'
    BY <2>1, <2>2, <2>3, UnderwayTold DEF OpenStory, NoFinalCopy
  <2>5. \A u \in Trace : u # t => recorder'[u] = recorder[u]
    BY <1>0, <2>1 DEF RecordTransition, TypeOK
  <2> QED
    BY <2>1, <2>4, <2>5, OthersTold
<1>8. ASSUME NEW t \in Trace, Finalize(t) PROVE Story'
  <2>1. /\ at[t] = "finalize" /\ at'[t] = "output" /\ Goto(t, "output")
        /\ RecordTransition(t, "VALIDATION", "FINALIZED")
        /\ live' = [live EXCEPT ![t] = [live[t] EXCEPT !.state = "FINALIZED"]]
        /\ UNCHANGED <<headers, answer, stored, lastWrite>>
    BY <1>0, <1>8 DEF Finalize, Goto, TypeOK, NoWrite
  <2>2. /\ OpenStory(t) /\ at[t] \in Underway
        /\ RecordedState[t] = "VALIDATION"
        /\ "VALIDATION" \in State /\ "FINALIZED" \in State
    BY <1>0, <2>1 DEF Told, Underway, OnPath, Stands, State, FinalState
  <2>3. Tells(recorder'[t])
    BY <1>0, <2>1, <2>2, RecorderTells DEF OpenStory
  <2>4. RecordedState'[t] = "FINALIZED"
    <3>1. RecordedState' = [RecordedState EXCEPT ![t] = "FINALIZED"]
      BY <1>0, <2>1, <2>2, Recorded
    <3> QED
      BY <3>1 DEF RecordedState
  <2>5. live'[t].state = "FINALIZED" /\ live'[t].error = "none" /\ ~live'[t].output
    BY <1>0, <2>1, <2>2 DEF OpenStory, TypeOK, Record
  <2>6. EndingStory(t)' /\ OpenStory(t)'
    BY <2>1, <2>2, <2>3, <2>4, <2>5
    DEF EndingStory, OpenStory, NoFinalCopy, Underway, Ending
  <2>7. Told(t)'
    BY <2>1, <2>6 DEF Told, DoneStory, LostStory
  <2>8. \A u \in Trace : u # t => recorder'[u] = recorder[u] /\ live'[u] = live[u]
    BY <1>0, <2>1 DEF RecordTransition, TypeOK
  <2> QED
    BY <2>1, <2>7, <2>8, OthersTold
<1>9. ASSUME NEW t \in Trace, SetOutput(t) \/ Observe(t) PROVE Story'
  <2>1. /\ EndingStory(t) /\ OpenStory(t) /\ at[t] \in Ending
        /\ Goto(t, IF SetOutput(t) THEN "observe" ELSE "reply")
        /\ UNCHANGED <<recorder, headers, answer, stored, lastWrite>>
    BY <1>0, <1>9 DEF SetOutput, Observe, Told, Ending, NoWrite
  <2>2. RecordedState' = RecordedState
    BY <2>1 DEF RecordedState
  <2>3. CASE SetOutput(t)
    <3>1. /\ at[t] = "output" /\ at'[t] = "observe"
          /\ live' = [live EXCEPT ![t] = [live[t] EXCEPT !.output = TRUE]]
      BY <1>0, <2>3 DEF SetOutput, Goto, TypeOK
    <3>2. /\ live'[t].state = live[t].state /\ live'[t].error = live[t].error
          /\ live'[t].output
      BY <1>0, <3>1 DEF TypeOK, Record
    <3>3. Told(t)'
      BY <2>1, <2>2, <3>1, <3>2
      DEF Told, OpenStory, EndingStory, DoneStory, LostStory, NoFinalCopy, Underway, Ending
    <3>4. \A u \in Trace : u # t => live'[u] = live[u]
      BY <1>0, <3>1 DEF TypeOK
    <3> QED
      BY <2>1, <3>3, <3>4, OthersTold
  <2>4. CASE Observe(t)
    <3>1. /\ at[t] = "observe" /\ at'[t] = "reply"
          /\ live' = [live EXCEPT ![t] =
                        [live[t] EXCEPT !.error = "none", !.transitions = recorder[t]]]
      BY <1>0, <2>4 DEF Observe, Goto, TypeOK
    <3>2. /\ live'[t].state = live[t].state /\ live'[t].error = "none"
          /\ live'[t].output = live[t].output /\ live'[t].transitions = recorder[t]
      BY <1>0, <3>1 DEF TypeOK, Record
    <3>3. Told(t)'
      BY <2>1, <2>2, <3>1, <3>2
      DEF Told, OpenStory, EndingStory, DoneStory, LostStory, NoFinalCopy, Underway, Ending
    <3>4. \A u \in Trace : u # t => live'[u] = live[u]
      BY <1>0, <3>1 DEF TypeOK
    <3> QED
      BY <2>1, <3>3, <3>4, OthersTold
  <2> QED
    BY <1>9, <2>3, <2>4
<1>10. ASSUME NEW t \in Trace, at[t] \in {"reply", "sign"}
       PROVE  Complete(live[t]) /\ live[t].state = "FINALIZED"
  <2>1. EndingStory(t) /\ at[t] \in Ending
    BY <1>0, <1>10 DEF Told, Ending
  <2>2. /\ Tells(recorder[t]) /\ RecordedState[t] = "FINALIZED"
        /\ live[t].state = "FINALIZED" /\ live[t].error = "none"
        /\ live[t].output /\ live[t].transitions = recorder[t]
    BY <1>10, <2>1 DEF EndingStory
  <2>3. recorder[t][Len(recorder[t])][2] = "FINALIZED"
    BY <1>0, <2>2 DEF RecordedState, Tells
  <2> QED
    BY <2>2, <2>3 DEF Complete, ToldInFull, Tells
<1>11. ASSUME NEW t \in Trace, Reply(t) PROVE Story'
  <2>1. /\ at[t] = "reply" /\ at'[t] = "sign" /\ Goto(t, "sign") /\ ~stream[t]
        /\ answer' = [answer EXCEPT ![t] = "200"] /\ answer'[t] = "200"
        /\ UNCHANGED <<live, recorder, headers, stored, lastWrite>>
        /\ RecordedState' = RecordedState
    BY <1>0, <1>11 DEF Reply, Goto, TypeOK, NoWrite, RecordedState
  <2>2. EndingStory(t)
    BY <1>0 DEF Told
  <2>3. Told(t)'
    BY <2>1, <2>2
    DEF Told, OpenStory, EndingStory, DoneStory, LostStory, NoFinalCopy, Underway, Ending, headers
  <2>4. \A u \in Trace : u # t => answer'[u] = answer[u]
    BY <1>0, <2>1 DEF TypeOK
  <2> QED
    BY <2>1, <2>3, <2>4, OthersTold
<1>12. ASSUME NEW t \in Trace, ReplyStream(t) PROVE Story'
  <2>1. /\ at[t] = "reply" /\ at'[t] = "done" /\ Goto(t, "done") /\ stream'[t]
        /\ answer' = [answer EXCEPT ![t] = "200"] /\ answer'[t] = "200"
        /\ UNCHANGED <<live, recorder, headers, stored, lastWrite>>
    BY <1>0, <1>12 DEF ReplyStream, Goto, TypeOK, NoWrite, headers
  <2>2. NoFinalCopy(t)
    BY <1>0, <2>1 DEF Told, EndingStory, Ending
  <2>3. Complete(live'[t]) /\ live'[t].state = "FINALIZED"
    BY <1>10, <2>1
  <2>4. Told(t)'
    BY <2>1, <2>2, <2>3
    DEF Told, OpenStory, EndingStory, DoneStory, LostStory, NoFinalCopy, Underway, Ending
  <2>5. \A u \in Trace : u # t => answer'[u] = answer[u]
    BY <1>0, <2>1 DEF TypeOK
  <2> QED
    BY <2>1, <2>4, <2>5, OthersTold
<1>13. ASSUME NEW t \in Trace, SignAndStore(t) PROVE Story'
  <2> DEFINE record == [live[t] EXCEPT !.signed = Signable("messages")]
  <2>1. /\ at[t] = "sign" /\ at'[t] = "done" /\ Goto(t, "done")
        /\ live' = [live EXCEPT ![t] = record] /\ live'[t] = record
        /\ Write(t, "Update", record)
        /\ UNCHANGED <<recorder, headers, answer>>
    BY <1>0, <1>13 DEF SignAndStore, Goto, TypeOK
  <2>2. /\ record.state = live[t].state /\ record.error = live[t].error
        /\ record.output = live[t].output /\ record.transitions = live[t].transitions
    BY <1>0 DEF Record
  <2>3. Complete(record) /\ record.state = "FINALIZED"
    <3>1. Complete(live[t]) /\ live[t].state = "FINALIZED"
      BY <1>10, <2>1
    <3> HIDE DEF record
    <3> QED
      BY <2>2, <3>1 DEF Complete, ToldInFull
  <2>4. /\ \/ stored'[t] \in {Shared, record}
           \/ stored'[t] = stored[t] /\ lastWrite'[t] = "err"
        /\ \A u \in Trace : u # t => stored'[u] = stored[u] /\ lastWrite'[u] = lastWrite[u]
    BY <1>0, <2>1, Written
  <2>5. NoFinalCopy(t) /\ answer'[t] = "200"
    BY <1>0, <2>1 DEF Told, EndingStory, Ending
  <2>6. DoneStory(t)'
    <3> HIDE DEF record
    <3> QED
      BY <2>1, <2>3, <2>4, <2>5 DEF DoneStory, NoFinalCopy
  <2>7. Told(t)'
    BY <2>1, <2>6 DEF Told, OpenStory, EndingStory, LostStory, Underway, Ending
  <2>8. \A u \in Trace : u # t => live'[u] = live[u]
    BY <1>0, <2>1 DEF TypeOK
  <2> QED
    BY <2>1, <2>4, <2>7, <2>8, OthersTold
<1>14. ASSUME NEW t \in Trace, HangUp(t) PROVE Story'
  <2> SUFFICES ASSUME NEW u \in Trace PROVE Told(u)'
    BY DEF Story
  <2>1. /\ UNCHANGED <<at, live, recorder, stored, stream, answer, lastWrite>>
        /\ RecordedState' = RecordedState
    BY <1>14 DEF HangUp, headers, RecordedState
  <2> QED
    BY <1>0, <2>1 DEF Told, OpenStory, EndingStory, DoneStory, LostStory, NoFinalCopy
<1>15. ASSUME Crash PROVE Story'
  <2> SUFFICES ASSUME NEW t \in Trace PROVE Told(t)'
    BY DEF Story
  <2>1. /\ UNCHANGED <<live, recorder, stream, answer, lastWrite>>
        /\ RecordedState' = RecordedState
        /\ at'[t] = (IF at[t] \in InHandler THEN "lost" ELSE at[t])
        /\ stored'[t] = (IF stored[t] = Shared THEN NoTrace ELSE stored[t])
    BY <1>15 DEF Crash, headers, RecordedState
  <2>2. Told(t) /\ at[t] \in {"idle", "done", "lost"} \union Underway \union Ending
    BY <1>0 DEF TypeOK, InHandler, Underway, Ending
  <2>3. stored'[t] # Shared
    BY <2>1, MarksAssumption
  <2>4. CASE at[t] \in Underway \union Ending
    <3>1. at'[t] = "lost"
      BY <2>1, <2>4 DEF InHandler, Underway, Ending
    <3>2. answer[t] \in {"none", "200"} /\ NoFinalCopy(t)
      BY <2>2, <2>4 DEF Told, OpenStory, EndingStory
    <3>3. LostStory(t)'
      BY <2>1, <2>3, <3>2 DEF LostStory, NoFinalCopy
    <3> QED
      BY <3>1, <3>3 DEF Told, OpenStory, EndingStory, DoneStory, Underway, Ending
  <2>5. CASE at[t] \in {"idle", "done", "lost"}
    <3>1. at'[t] = at[t]
      BY <2>1, <2>5 DEF InHandler
    <3>2. OpenStory(t)' /\ EndingStory(t)'
      BY <2>1, <2>2, <2>5, <3>1, MarksAssumption
      DEF Told, OpenStory, EndingStory, Underway, Ending
    <3>3. DoneStory(t)' /\ LostStory(t)'
      BY <2>1, <2>2, <2>3, <3>1 DEF Told, DoneStory, LostStory, NoFinalCopy
    <3> QED
      BY <3>2, <3>3 DEF Told
  <2> QED
    BY <2>2, <2>4, <2>5
<1> QED
  BY <1>1, <1>2, <1>3, <1>4, <1>5, <1>6, <1>7, <1>8, <1>9, <1>11, <1>12, <1>13, <1>14, <1>15
  DEF Next, Handle

\* In every reachable state the path and the story hold.
LEMMA StoryHolds == Spec => [](IInv /\ Story)
<1>1. Init => IInv /\ Story
  BY InitOnPath, InitTold
<1>2. IInv /\ Story /\ [Next]_tvars => IInv' /\ Story'
  BY StepOnPath, StepTold
<1> QED
  BY <1>1, <1>2, PTL DEF Spec

\* A copy in a final state is found only when the handler is done, and complete.
LEMMA FinalCopy ==
  ASSUME IInv, Story, NEW t \in Trace, stored[t] \notin {NoTrace, Shared},
         stored[t].state \in FinalState
  PROVE  /\ at[t] = "done" /\ Complete(stored[t])
         /\ stored[t].state = live[t].state
<1>1. Told(t) /\ at[t] \in {"idle", "done", "lost"} \union Underway \union Ending
  BY DEF Story, IInv, TypeOK, InHandler, Underway, Ending
<1>2. at[t] = "done"
  BY <1>1 DEF Told, OpenStory, EndingStory, LostStory, NoFinalCopy
<1> QED
  BY <1>1, <1>2 DEF Told, DoneStory

\* Whoever finds a trace in a final state finds it complete, however the writes
\* failed, the client hung up or the process ended.
THEOREM FinalTraceIsCompleteHolds == Spec => []FinalTraceIsComplete
<1>1. IInv /\ Story => FinalTraceIsComplete
  <2> SUFFICES ASSUME IInv, Story, NEW t \in Trace, View(t) # NoTrace,
                      View(t).state \in FinalState, stored[t] = Shared => at[t] = "done"
               PROVE  Complete(View(t))
    BY DEF FinalTraceIsComplete, Complete, FinalState
  <2>1. CASE stored[t] = Shared
    BY <2>1 DEF View, Story, Told, DoneStory
  <2>2. CASE stored[t] # Shared
    BY <2>2, FinalCopy DEF View
  <2> QED
    BY <2>1, <2>2
<1> QED
  BY <1>1, StoryHolds, PTL

\* What the client was told and what the store shows agree as far as the last
\* write came.
THEOREM AnswerMatchesTraceHolds == Spec => []AnswerMatchesTrace
<1>1. IInv /\ Story => AnswerMatchesTrace
  <2> SUFFICES ASSUME IInv, Story, NEW t \in Trace, View(t) # NoTrace
               PROVE  LET found == View(t)
                          refused == answer[t] \in {"404", "429", "502"}
                      IN  /\ refused => found.state # "FINALIZED"
                          /\ answer[t] = "200" => found.state # "FAILED"
                          /\ (at[t] = "done" /\ lastWrite[t] = "ok") =>
                               /\ refused => found.state = "FAILED"
                               /\ answer[t] = "200" /\ ~stream[t] => found.state = "FINALIZED"
    BY DEF AnswerMatchesTrace
  <2>1. Told(t) /\ at[t] \in {"idle", "done", "lost"} \union Underway \union Ending
    BY DEF Story, IInv, TypeOK, InHandler, Underway, Ending
  <2>2. CASE at[t] = "done"
    <3>1. /\ \/ answer[t] = "200" /\ live[t].state = "FINALIZED"
             \/ answer[t] \in {"404", "429", "502"} /\ live[t].state = "FAILED"
          /\ \/ View(t).state = live[t].state
             \/ /\ View(t).state \notin FinalState
                /\ lastWrite[t] = "err" \/ (answer[t] = "200" /\ stream[t])
      BY <2>1, <2>2 DEF Told, DoneStory, View
    <3> QED
      BY <2>2, <3>1 DEF FinalState
  <2>3. CASE at[t] # "done"
    <3>1. answer[t] \in {"none", "200"}
      BY <2>1, <2>3 DEF Told, OpenStory, EndingStory, LostStory
    <3>2. CASE stored[t] # Shared
      BY <2>3, <3>1, <3>2, FinalCopy DEF View, FinalState
    <3>3. CASE stored[t] = Shared
      <4>1. at[t] \in Ending \/ answer[t] = "none"
        BY <2>1, <2>3, <3>3 DEF Told, OpenStory, LostStory
      <4>2. at[t] \in Ending => View(t).state = "FINALIZED"
        BY <2>1, <3>3 DEF Told, EndingStory, View
      <4> QED
        BY <2>3, <3>1, <4>1, <4>2
    <3> QED
      BY <3>2, <3>3
  <2> QED
    BY <2>2, <2>3
<1> QED
  BY <1>1, StoryHolds, PTL

-----------------------------------------------------------------------------
(***************************************************************************)
(* What a reader sees from one step to the next.                           *)
(***************************************************************************)
\* The copy of the store is behind the live trace, never ahead of it.
Behind(t) ==
  /\ stored[t] = Shared => TraceBackend = "memory"
  /\ stored[t] \notin {NoTrace, Shared} =>
       Rank(stored[t].state) <= Rank(live[t].state)

\* Ranks are numbers, and the order in which the handler takes the states.
LEMMA RankOrder ==
  /\ \A s : Rank(s) \in 0 .. 5
  /\ Rank(NotStarted) = 0 /\ Rank("INIT") = 1 /\ Rank("CONSTRAINT_EVAL") = 2
  /\ Rank("EXECUTING") = 3 /\ Rank("FINALIZED") = 5 /\ Rank("FAILED") = 5
<1>1. ASSUME NEW s PROVE Rank(s) \in 0 .. 5
  <2>1. CASE s \in {NotStarted, "INIT", "CONSTRAINT_EVAL", "EXECUTING", "VALIDATION"}
    <3>1. CASE s = NotStarted
      BY <3>1 DEF Rank
    <3>2. CASE s = "INIT"
      BY <3>2 DEF Rank, NotStarted
    <3>3. CASE s = "CONSTRAINT_EVAL"
      BY <3>3 DEF Rank, NotStarted
    <3>4. CASE s = "EXECUTING"
      BY <3>4 DEF Rank, NotStarted
    <3>5. CASE s = "VALIDATION"
      BY <3>5 DEF Rank, NotStarted
    <3> QED
      BY <2>1, <3>1, <3>2, <3>3, <3>4, <3>5
  <2>2. CASE s \notin {NotStarted, "INIT", "CONSTRAINT_EVAL", "EXECUTING", "VALIDATION"}
    BY <2>2 DEF Rank
  <2> QED
    BY <2>1, <2>2
<1> QED
  BY <1>1 DEF Rank, NotStarted

\* The two states of a step of the live trace, before and after.
Forward(t) ==
  /\ Rank(live[t].state) <= Rank(live'[t].state)
  /\ live[t].state \in FinalState => live'[t].state = live[t].state

\* The entry of a trace after a step: as it was, the live trace, or lost.
Kept(t) ==
  \/ stored'[t] = stored[t]
  \/ stored'[t] = Shared /\ TraceBackend = "memory"
  \/ stored'[t] = live'[t]
  \/ /\ stored[t] = Shared /\ stored'[t] = NoTrace
     /\ \E u \in Trace : at[u] # "lost" /\ at'[u] = "lost"

\* A trace whose live copy keeps its state goes forward.
LEMMA SameState ==
  ASSUME NEW t \in Trace, live'[t].state = live[t].state
  PROVE  Forward(t)
<1>1. Rank(live[t].state) \in 0 .. 5
  BY RankOrder
<1> QED
  BY <1>1 DEF Forward

\* A write leaves the record it was given, a pointer, or what there was.
LEMMA WriteKeeps ==
  ASSUME TypeOK, NEW t \in Trace, NEW call, NEW record \in Record,
         Write(t, call, record), live' = [live EXCEPT ![t] = record]
  PROVE  \A u \in Trace : Kept(u)
<1>1. live'[t] = record
  BY DEF TypeOK
<1>2. /\ \/ stored'[t] = stored[t]
         \/ stored'[t] = (IF TraceBackend = "memory" THEN Shared ELSE record)
      /\ \A u \in Trace : u # t => stored'[u] = stored[u]
  BY DEF Write, TypeOK
<1> QED
  BY <1>1, <1>2 DEF Kept

\* Advance moves the live trace on and keeps the store with it.
LEMMA AdvanceForward ==
  ASSUME IInv, NEW t \in Trace, NEW call, NEW to \in State, Advance(t, call, to),
         Rank(live[t].state) <= Rank(to), live[t].state \notin FinalState
  PROVE  \A u \in Trace : Forward(u) /\ Kept(u)
<1> DEFINE record == [live[t] EXCEPT !.state = to]
<1>1. /\ TypeOK /\ live[t] \in Record /\ live \in [Trace -> Record]
      /\ live' = [live EXCEPT ![t] = record] /\ Write(t, call, record)
  BY DEF IInv, TypeOK, Advance
<1>2. record \in Record /\ record.state = to
  BY <1>1 DEF Record
<1>3. \A u \in Trace : Kept(u)
  BY <1>1, <1>2, WriteKeeps
<1>4. live'[t].state = to /\ \A u \in Trace : u # t => live'[u] = live[u]
  BY <1>1, <1>2
<1> QED
  BY <1>3, <1>4, SameState DEF Forward

\* Fail moves the live trace to its end and keeps the store with it.
LEMMA FailForward ==
  ASSUME IInv, NEW t \in Trace, NEW error \in Error, NEW status,
         Fail(t, error, status), live[t].state \notin FinalState
  PROVE  \A u \in Trace : Forward(u) /\ Kept(u)
<1> DEFINE history == Append(recorder[t], <<live[t].state, "FAILED">>)
           record == [live[t] EXCEPT !.state = "FAILED", !.error = error,
                                     !.transitions = history]
<1>1. /\ TypeOK /\ live[t] \in Record /\ live \in [Trace -> Record]
      /\ recorder[t] \in Seq(Transition) /\ "FAILED" \in State
      /\ live[t].state \in State \union {NotStarted}
      /\ live' = [live EXCEPT ![t] = record] /\ Write(t, "Update", record)
  BY DEF IInv, TypeOK, Record, Fail, State, FinalState
<1>2. history \in Seq(Transition)
  BY <1>1, Appended
<1>3. record \in Record /\ record.state = "FAILED"
  BY <1>1, <1>2 DEF Record
<1>4. \A u \in Trace : Kept(u)
  BY <1>1, <1>3, WriteKeeps
<1>5. live'[t].state = "FAILED" /\ \A u \in Trace : u # t => live'[u] = live[u]
  BY <1>1, <1>3
<1>6. Rank(live[t].state) <= Rank("FAILED")
  BY RankOrder
<1> QED
  BY <1>4, <1>5, <1>6, SameState DEF Forward

\* Every step moves every live trace forward and keeps the store with it.
LEMMA StepForward ==
  ASSUME IInv, Story, [Next]_tvars
  PROVE  \A t \in Trace : Forward(t) /\ Kept(t)
<1>0. /\ TypeOK
      /\ \A t \in Trace : Told(t) /\ OnPath(t)
      /\ \A t \in Trace : live[t] \in Record /\ recorder[t] \in Seq(Transition)
  BY DEF IInv, Story, Path, TypeOK
<1>1. CASE UNCHANGED <<live, stored>>
  BY <1>1, SameState DEF Kept
<1>2. ASSUME NEW t \in Trace, Receive(t) PROVE \A u \in Trace : Forward(u) /\ Kept(u)
  <2>1. Advance(t, "Save", "INIT") /\ live[t].state = NotStarted
    BY <1>0, <1>2 DEF Receive, OnPath, Stands
  <2>2. "INIT" \in State /\ NotStarted \notin FinalState
    BY DEF State, FinalState, NotStarted
  <2>3. Rank(NotStarted) <= Rank("INIT")
    BY RankOrder
  <2> QED
    BY <2>1, <2>2, <2>3, AdvanceForward
<1>3. ASSUME NEW t \in Trace, PreExecute(t) PROVE \A u \in Trace : Forward(u) /\ Kept(u)
  <2>1. Advance(t, "Update", "CONSTRAINT_EVAL") /\ live[t].state = "INIT"
    BY <1>0, <1>3 DEF PreExecute, OnPath, Stands
  <2>2. "CONSTRAINT_EVAL" \in State /\ "INIT" \notin FinalState
    BY DEF State, FinalState
  <2>3. Rank("INIT") <= Rank("CONSTRAINT_EVAL")
    BY RankOrder
  <2> QED
    BY <2>1, <2>2, <2>3, AdvanceForward
<1>4. ASSUME NEW t \in Trace, Decide(t) PROVE \A u \in Trace : Forward(u) /\ Kept(u)
  <2>1. /\ live[t].state = "CONSTRAINT_EVAL" /\ live[t].state \notin FinalState
        /\ "EXECUTING" \in State /\ "BUDGET_EXCEEDED" \in Error
    BY <1>0, <1>4 DEF Decide, OnPath, Stands, State, FinalState, Error
  <2>2. Rank("CONSTRAINT_EVAL") <= Rank("EXECUTING")
    BY RankOrder
  <2>3. CASE Fail(t, "BUDGET_EXCEEDED", "429")
    BY <2>1, <2>3, FailForward
  <2>4. CASE Advance(t, "Update", "EXECUTING")
    BY <2>1, <2>2, <2>4, AdvanceForward
  <2> QED
    BY <1>4, <2>3, <2>4 DEF Decide
<1>5. ASSUME NEW t \in Trace, NoProvider(t) \/ NoBudget(t) \/ UpstreamFails(t)
      PROVE  \A u \in Trace : Forward(u) /\ Kept(u)
  <2>1. PICK error \in Error, status \in {"404", "429", "502"} : Fail(t, error, status)
    BY <1>5 DEF NoProvider, NoBudget, UpstreamFails, Error
  <2>2. live[t].state \notin FinalState
    BY <1>0, <1>5 DEF NoProvider, NoBudget, UpstreamFails, OnPath, Stands, FinalState
  <2> QED
    BY <2>1, <2>2, FailForward
<1>6. ASSUME NEW t \in Trace, Finalize(t) PROVE \A u \in Trace : Forward(u) /\ Kept(u)
  <2>1. /\ live' = [live EXCEPT ![t] = [live[t] EXCEPT !.state = "FINALIZED"]]
        /\ live[t].state \notin FinalState /\ UNCHANGED stored
    BY <1>0, <1>6 DEF Finalize, OnPath, Stands, FinalState, NoWrite
  <2>2. live'[t].state = "FINALIZED" /\ \A u \in Trace : u # t => live'[u] = live[u]
    BY <1>0, <2>1 DEF TypeOK, Record
  <2>3. Rank(live[t].state) <= Rank("FINALIZED")
    BY RankOrder
  <2> QED
    BY <2>1, <2>2, <2>3, SameState DEF Forward, Kept
<1>7. ASSUME NEW t \in Trace, SetOutput(t) \/ Observe(t)
      PROVE  \A u \in Trace : Forward(u) /\ Kept(u)
  <2>1. UNCHANGED stored
    BY <1>7 DEF SetOutput, Observe, NoWrite
  <2>2. \A u \in Trace : live'[u].state = live[u].state
    <3>1. CASE SetOutput(t)
      <4>1. live' = [live EXCEPT ![t] = [live[t] EXCEPT !.output = TRUE]]
        BY <3>1 DEF SetOutput
      <4>2. [live[t] EXCEPT !.output = TRUE].state = live[t].state
        BY <1>0 DEF Record
      <4> QED
        BY <1>0, <4>1, <4>2 DEF TypeOK
    <3>2. CASE Observe(t)
      <4>1. live' = [live EXCEPT ![t] =
                       [live[t] EXCEPT !.error = "none", !.transitions = recorder[t]]]
        BY <3>2 DEF Observe
      <4>2. [live[t] EXCEPT !.error = "none", !.transitions = recorder[t]].state
              = live[t].state
        BY <1>0 DEF Record
      <4> QED
        BY <1>0, <4>1, <4>2 DEF TypeOK
    <3> QED
      BY <1>7, <3>1, <3>2
  <2> QED
    BY <2>1, <2>2, SameState DEF Kept
<1>8. ASSUME NEW t \in Trace, SignAndStore(t) PROVE \A u \in Trace : Forward(u) /\ Kept(u)
  <2> DEFINE record == [live[t] EXCEPT !.signed = Signable("messages")]
  <2>1. live' = [live EXCEPT ![t] = record] /\ Write(t, "Update", record)
    BY <1>8 DEF SignAndStore
  <2>2. record \in Record /\ record.state = live[t].state
    <3>1. Signable("messages") \in BOOLEAN
      BY DEF Signable
    <3> QED
      BY <1>0, <3>1 DEF Record
  <2>3. \A u \in Trace : live'[u].state = live[u].state
    BY <1>0, <2>1, <2>2 DEF TypeOK
  <2>4. \A u \in Trace : Kept(u)
    BY <1>0, <2>1, <2>2, WriteKeeps
  <2> QED
    BY <2>3, <2>4, SameState
<1>9. ASSUME Crash PROVE \A u \in Trace : Forward(u) /\ Kept(u)
  <2>1. \E u \in Trace : at[u] # "lost" /\ at'[u] = "lost"
    BY <1>9 DEF Crash, InHandler
  <2>2. /\ UNCHANGED live
        /\ \A u \in Trace : stored'[u] = IF stored[u] = Shared THEN NoTrace ELSE stored[u]
    BY <1>9 DEF Crash
  <2> QED
    BY <2>1, <2>2, SameState DEF Kept
<1>10. ASSUME NEW t \in Trace,
              \/ Route(t) \/ Reserve(t) \/ UpstreamReplies(t) \/ Validate(t)
              \/ Reply(t) \/ ReplyStream(t) \/ HangUp(t)
       PROVE  UNCHANGED <<live, stored>>
  BY <1>10 DEF Route, Reserve, UpstreamReplies, Validate, Reply, ReplyStream, HangUp, NoWrite
<1>11. UNCHANGED tvars => UNCHANGED <<live, stored>>
  BY DEF tvars
<1> QED
  BY <1>1, <1>2, <1>3, <1>4, <1>5, <1>6, <1>7, <1>8, <1>9, <1>10, <1>11
  DEF Next, Handle

\* What the store keeps stays behind the live trace.
LEMMA StepBehind ==
  ASSUME IInv, Story, \A t \in Trace : Behind(t), [Next]_tvars
  PROVE  \A t \in Trace : Behind(t)'
<1> SUFFICES ASSUME NEW t \in Trace PROVE Behind(t)'
  OBVIOUS
<1>1. Forward(t) /\ Kept(t) /\ Behind(t)
  BY StepForward
<1>2. /\ Rank(live[t].state) \in 0 .. 5 /\ Rank(live'[t].state) \in 0 .. 5
      /\ Rank(stored[t].state) \in 0 .. 5
  BY RankOrder
<1>3. IInv'
  BY StepOnPath
<1>4. live'[t] # Shared
  BY <1>3, MarksAssumption DEF IInv, TypeOK
<1>5. CASE stored'[t] = stored[t]
  BY <1>1, <1>2, <1>5 DEF Behind, Forward
<1>6. CASE stored'[t] = live'[t]
  BY <1>2, <1>4, <1>6 DEF Behind
<1>7. CASE (stored'[t] = Shared /\ TraceBackend = "memory") \/ stored'[t] = NoTrace
  BY <1>7, MarksAssumption DEF Behind
<1> QED
  BY <1>1, <1>5, <1>6, <1>7 DEF Kept

\* Whichever of the handler's assignments and writes a reader comes between, on
\* whichever store, it never finds a trace in an earlier state than before nor
\* in another final state; only a restart loses one, of the memory store.
THEOREM StoreNeverGoesBackHolds == Spec => StoreNeverGoesBack
<1> DEFINE BInv == IInv /\ Story /\ \A t \in Trace : Behind(t)
<1>1. Init => BInv
  BY InitOnPath, InitTold, MarksAssumption DEF Init, Behind
<1>2. BInv /\ [Next]_tvars => BInv'
  BY StepOnPath, StepTold, StepBehind
<1>3. BInv /\ [Next]_tvars =>
        \A t \in Trace :
          LET before == View(t)
              after == View(t)'
          IN  before # NoTrace =>
                \/ /\ after = NoTrace
                   /\ TraceBackend = "memory"
                   /\ \E u \in Trace : at[u] # "lost" /\ at'[u] = "lost"
                \/ /\ after # NoTrace
                   /\ Rank(before.state) <= Rank(after.state)
                   /\ before.state \in FinalState => after.state = before.state
  <2> SUFFICES ASSUME BInv, [Next]_tvars, NEW t \in Trace, View(t) # NoTrace
               PROVE  \/ /\ View(t)' = NoTrace
                         /\ TraceBackend = "memory"
                         /\ \E u \in Trace : at[u] # "lost" /\ at'[u] = "lost"
                      \/ /\ View(t)' # NoTrace
                         /\ Rank(View(t).state) <= Rank(View(t)'.state)
                         /\ View(t).state \in FinalState => View(t)'.state = View(t).state
    OBVIOUS
  <2>1. Forward(t) /\ Kept(t) /\ Behind(t)
    BY StepForward
  <2>2. /\ Rank(live[t].state) \in 0 .. 5 /\ Rank(live'[t].state) \in 0 .. 5
        /\ Rank(stored[t].state) \in 0 .. 5
    BY RankOrder
  <2>3. IInv'
    BY StepOnPath
  <2>4. live'[t] # Shared /\ live'[t] # NoTrace /\ stored[t] # NoTrace
    BY <2>3, MarksAssumption DEF IInv, TypeOK, View
  <2>5. /\ Rank(View(t).state) <= Rank(live[t].state)
        /\ View(t).state \in FinalState => View(t).state = live[t].state
    BY <2>1, <2>2, <2>4, FinalCopy DEF View, Behind
  <2>6. CASE View(t)' = live'[t]
    <3>1. Rank(View(t).state) \in 0 .. 5
      BY RankOrder
    <3> QED
      BY <2>1, <2>2, <2>4, <2>5, <2>6, <3>1 DEF Forward
  <2>7. CASE stored[t] # Shared /\ stored'[t] = stored[t]
    <3>1. View(t)' = View(t) /\ Rank(View(t).state) \in 0 .. 5
      BY <2>7, RankOrder DEF View
    <3> QED
      BY <3>1
  <2>8. CASE stored[t] = Shared /\ stored'[t] = NoTrace
    <3>1. View(t)' = NoTrace
      BY <2>8, MarksAssumption DEF View
    <3> QED
      BY <2>1, <2>4, <2>8, <3>1, MarksAssumption DEF Kept, Behind
  <2>9. \/ View(t)' = live'[t]
        \/ stored[t] # Shared /\ stored'[t] = stored[t]
        \/ stored[t] = Shared /\ stored'[t] = NoTrace
    BY <2>1, <2>4 DEF Kept, View
  <2> QED
    BY <2>6, <2>7, <2>8, <2>9
<1> QED
  BY <1>1, <1>2, <1>3, PTL DEF Spec, StoreNeverGoesBack

-----------------------------------------------------------------------------
(***************************************************************************)
(* The monitor.  What its list holds, first: the traces found, each once,  *)
(* the latest first.                                                       *)
(***************************************************************************)
Latest(order, found) ==
  CHOOSE f : f = [n \in 0 .. Len(order) |->
                    IF n = 0 THEN <<>>
                    ELSE IF order[n] \in found THEN <<order[n]>> \o f[n - 1]
                    ELSE f[n - 1]]

LEMMA LatestDefined ==
  ASSUME NEW S, NEW order \in Seq(S), NEW found
  PROVE  LET f == Latest(order, found)
         IN  /\ f \in [0 .. Len(order) -> Seq(S)] /\ f[0] = <<>>
             /\ \A n \in 1 .. Len(order) :
                  f[n] = IF order[n] \in found THEN <<order[n]>> \o f[n - 1] ELSE f[n - 1]
<1> DEFINE N == Len(order)
           next(n, v) == IF n \in 1 .. N /\ order[n] \in found THEN <<order[n]>> \o v ELSE v
           step == [p \in Nat \X Seq(S) |-> next(p[1], p[2])]
           form(f, n) == IF n = 0 THEN <<>>
                         ELSE IF order[n] \in found THEN <<order[n]>> \o f[n - 1]
                         ELSE f[n - 1]
<1>1. N \in Nat /\ <<>> \in Seq(S) /\ \A n \in 1 .. N : order[n] \in S
  OBVIOUS
<1>2. ASSUME NEW n \in Nat, NEW v \in Seq(S)
      PROVE  step[<<n, v>>] = next(n, v) /\ next(n, v) \in Seq(S)
  <2>1. step[<<n, v>>] = next(n, v)
    OBVIOUS
  <2>2. n \in 1 .. N => <<order[n]>> \o v \in Seq(S)
    BY <1>1
  <2> QED
    BY <2>1, <2>2
<1>3. PICK g : Recursive(g, Seq(S), <<>>, step, N)
  <2>1. step \in [Nat \X Seq(S) -> Seq(S)]
    <3> SUFFICES ASSUME NEW p \in Nat \X Seq(S) PROVE next(p[1], p[2]) \in Seq(S)
      OBVIOUS
    <3> QED
      BY <1>2
  <2> HIDE DEF step, N
  <2> QED
    BY <1>1, <2>1, RecursionExists
<1> USE DEF Recursive
<1>4. ASSUME NEW n \in 1 .. N PROVE g[n] = form(g, n)
  <2>1. n \in Nat /\ n - 1 \in 0 .. N /\ n # 0
    BY <1>1
  <2>2. g[n - 1] \in Seq(S)
    BY <1>3, <2>1
  <2>3. g[n] = next(n, g[n - 1])
    BY <1>2, <1>3, <2>1, <2>2
  <2> QED
    BY <2>1, <2>3
<1>5. g = [n \in 0 .. N |-> form(g, n)]
  <2>1. \A n \in 0 .. N : g[n] = form(g, n)
    <3>1. \A n \in 0 .. N : n = 0 \/ n \in 1 .. N
      BY <1>1
    <3> QED
      BY <1>3, <1>4, <3>1
  <2> HIDE DEF form
  <2> QED
    BY <1>3, <2>1
<1>6. Latest(order, found) = [n \in 0 .. N |-> form(Latest(order, found), n)]
  BY <1>5 DEF Latest
<1> QED
  <2> DEFINE f == Latest(order, found)
  <2>1. f = [n \in 0 .. N |-> form(f, n)]
    BY <1>6
  <2> HIDE DEF f, form
  <2>2. f[0] = form(f, 0) /\ \A n \in 1 .. N : f[n] = form(f, n) /\ n # 0
    <3>1. 0 \in 0 .. N /\ \A n \in 1 .. N : n \in 0 .. N /\ n # 0
      BY <1>1
    <3> HIDE DEF N
    <3> QED
      BY <2>1, <3>1
  <2>3. \A n \in 1 .. N :
          f[n] = IF order[n] \in found THEN <<order[n]>> \o f[n - 1] ELSE f[n - 1]
    BY <2>2 DEF form
  <2>4. f[0] = <<>>
    BY <2>2 DEF form
  <2>5. f \in [0 .. N -> Seq(S)]
    <3> DEFINE Good == {n \in Nat : n \in 0 .. N => f[n] \in Seq(S)}
    <3>1. ASSUME NEW n \in Nat, \A k \in Nat : k < n => k \in Good PROVE n \in Good
      <4>1. CASE n = 0
        BY <1>1, <2>4, <4>1
      <4>2. CASE n \in 1 .. N
        <5>1. n - 1 \in 0 .. N /\ n - 1 \in Nat /\ n - 1 < n
          BY <1>1, <4>2
        <5>2. f[n - 1] \in Seq(S) /\ order[n] \in S
          BY <1>1, <3>1, <4>2, <5>1
        <5>3. <<order[n]>> \o f[n - 1] \in Seq(S)
          BY <5>2
        <5> QED
          BY <2>3, <4>2, <5>2, <5>3
      <4> QED
        BY <4>1, <4>2
    <3>2. Good = Nat
      <4>1. Good \in SUBSET Nat
        OBVIOUS
      <4> HIDE DEF Good
      <4> QED
        BY <3>1, <4>1, NumberInduction
    <3>3. \A n \in 0 .. N : f[n] \in Seq(S)
      BY <1>1, <3>2
    <3> QED
      BY <2>1, <3>3
  <2> QED
    BY <2>3, <2>5, <2>4 DEF f

\* What has been picked of the first n, the latest first.
Picks(r, order, found, n) ==
  /\ \A i \in 1 .. Len(r) : r[i] \in found /\ \E k \in 1 .. n : order[k] = r[i]
  /\ \A k \in 1 .. n : order[k] \in found => \E i \in 1 .. Len(r) : r[i] = order[k]
  /\ \A i, j \in 1 .. Len(r) :
       i < j => \E a, b \in 1 .. n : b < a /\ order[a] = r[i] /\ order[b] = r[j]

LEMMA OnePicked ==
  ASSUME NEW S, NEW order \in Seq(S), NEW found, NEW n \in 1 .. Len(order),
         NEW r \in Seq(S), Picks(r, order, found, n - 1)
  PROVE  Picks(IF order[n] \in found THEN <<order[n]>> \o r ELSE r, order, found, n)
<1>1. /\ n - 1 \in Nat /\ n \in Nat /\ order[n] \in S /\ Len(r) \in Nat
      /\ \A k \in 1 .. n - 1 : k \in 1 .. n /\ k < n
      /\ \A k \in 1 .. n : k = n \/ k \in 1 .. n - 1
  OBVIOUS
<1>2. CASE order[n] \notin found
  BY <1>1, <1>2 DEF Picks
<1>3. CASE order[n] \in found
  <2> DEFINE q == <<order[n]>> \o r
  <2>1. /\ Len(q) = Len(r) + 1 /\ q[1] = order[n]
        /\ 1 \in 1 .. Len(q) /\ n \in 1 .. n
        /\ \A i \in 1 .. Len(r) : q[i + 1] = r[i] /\ i + 1 \in 1 .. Len(q)
    <3>1. Len(q) = Len(r) + 1 /\ q[1] = order[n]
      BY <1>1
    <3>2. \A i \in 1 .. Len(r) : q[i + 1] = r[i]
      BY <1>1
    <3> HIDE DEF q
    <3>3. 1 \in 1 .. Len(q) /\ n \in 1 .. n
      BY <1>1, <3>1
    <3>4. \A i \in 1 .. Len(r) : i + 1 \in 1 .. Len(q)
      BY <1>1, <3>1
    <3> QED
      BY <3>1, <3>2, <3>3, <3>4
  <2>2. \A i \in 1 .. Len(q) : i = 1 \/ (i - 1 \in 1 .. Len(r) /\ q[i] = r[i - 1])
    <3> SUFFICES ASSUME NEW i \in 1 .. Len(q), i # 1
                 PROVE  i - 1 \in 1 .. Len(r) /\ q[i] = r[i - 1]
      OBVIOUS
    <3>1. i - 1 \in 1 .. Len(r) /\ (i - 1) + 1 = i
      BY <1>1, <2>1
    <3> QED
      BY <2>1, <3>1
  <2> HIDE DEF q
  <2>3. ASSUME NEW i \in 1 .. Len(q)
        PROVE  q[i] \in found /\ \E k \in 1 .. n : order[k] = q[i]
    <3>1. CASE i = 1
      BY <1>1, <1>3, <2>1, <3>1
    <3>2. CASE i # 1
      <4>1. i - 1 \in 1 .. Len(r) /\ q[i] = r[i - 1]
        BY <2>2, <3>2
      <4>2. r[i - 1] \in found /\ \E k \in 1 .. n - 1 : order[k] = r[i - 1]
        BY <4>1 DEF Picks
      <4> QED
        BY <1>1, <4>1, <4>2
    <3> QED
      BY <3>1, <3>2
  <2>4. ASSUME NEW k \in 1 .. n, order[k] \in found
        PROVE  \E i \in 1 .. Len(q) : q[i] = order[k]
    <3>1. CASE k = n
      <4>1. 1 \in 1 .. Len(q) /\ q[1] = order[k]
        BY <2>1, <3>1
      <4> QED
        BY <4>1
    <3>2. CASE k # n
      <4>1. PICK i \in 1 .. Len(r) : r[i] = order[k]
        BY <1>1, <2>4, <3>2 DEF Picks
      <4>2. i + 1 \in 1 .. Len(q) /\ q[i + 1] = order[k]
        BY <1>1, <2>1, <4>1
      <4> QED
        BY <4>2
    <3> QED
      BY <3>1, <3>2
  <2>5. ASSUME NEW i \in 1 .. Len(q), NEW j \in 1 .. Len(q), i < j
        PROVE  \E a, b \in 1 .. n : b < a /\ order[a] = q[i] /\ order[b] = q[j]
    <3>1. j - 1 \in 1 .. Len(r) /\ q[j] = r[j - 1]
      <4>1. j # 1
        BY <2>1, <2>5
      <4> QED
        BY <2>2, <4>1
    <3>2. CASE i = 1
      <4>1. \E b \in 1 .. n - 1 : order[b] = r[j - 1]
        BY <3>1 DEF Picks
      <4>2. PICK b \in 1 .. n - 1 : order[b] = q[j]
        BY <3>1, <4>1
      <4> QED
        BY <1>1, <2>1, <3>2, <4>2
    <3>3. CASE i # 1
      <4>1. i - 1 \in 1 .. Len(r) /\ q[i] = r[i - 1] /\ i - 1 < j - 1
        BY <1>1, <2>1, <2>2, <2>5, <3>3
      <4>2. PICK a \in 1 .. n - 1, b \in 1 .. n - 1 :
              b < a /\ order[a] = r[i - 1] /\ order[b] = r[j - 1]
        BY <3>1, <4>1 DEF Picks
      <4> QED
        BY <1>1, <3>1, <4>1, <4>2
    <3> QED
      BY <3>2, <3>3
  <2>6. Picks(q, order, found, n)
    BY <2>3, <2>4, <2>5 DEF Picks
  <2>7. (IF order[n] \in found THEN <<order[n]>> \o r ELSE r) = q
    BY <1>3 DEF q
  <2> QED
    BY <2>6, <2>7
<1> QED
  BY <1>2, <1>3

LEMMA LatestPicks ==
  ASSUME NEW S, NEW order \in Seq(S), NEW found
  PROVE  LET r == Latest(order, found)[Len(order)]
         IN  r \in Seq(S) /\ Picks(r, order, found, Len(order))
<1> DEFINE f == Latest(order, found)
           N == Len(order)
           Good == {n \in Nat : n \in 0 .. N => Picks(f[n], order, found, n)}
<1>1. /\ N \in Nat /\ f \in [0 .. N -> Seq(S)] /\ f[0] = <<>>
      /\ \A n \in 1 .. N :
           f[n] = IF order[n] \in found THEN <<order[n]>> \o f[n - 1] ELSE f[n - 1]
  BY LatestDefined
<1> HIDE DEF f
<1>2. ASSUME NEW n \in Nat, \A k \in Nat : k < n => k \in Good PROVE n \in Good
  <2>1. CASE n = 0
    BY <1>1, <2>1 DEF Picks
  <2>2. CASE n \in 1 .. N
    <3>1. n - 1 \in 0 .. N /\ n - 1 \in Nat /\ n - 1 < n
      BY <1>1, <2>2
    <3>2. f[n - 1] \in Seq(S) /\ Picks(f[n - 1], order, found, n - 1)
      BY <1>1, <1>2, <3>1
    <3>3. Picks(IF order[n] \in found THEN <<order[n]>> \o f[n - 1] ELSE f[n - 1],
                order, found, n)
      BY <2>2, <3>2, OnePicked
    <3>4. f[n] = IF order[n] \in found THEN <<order[n]>> \o f[n - 1] ELSE f[n - 1]
      BY <1>1, <2>2
    <3>5. Picks(f[n], order, found, n)
      BY <3>3, <3>4
    <3> QED
      BY <3>5
  <2> QED
    BY <2>1, <2>2
<1>3. Good = Nat
  <2>1. Good \in SUBSET Nat
    OBVIOUS
  <2> HIDE DEF Good
  <2> QED
    BY <1>2, <2>1, NumberInduction
<1>4. N \in Good /\ f[N] \in Seq(S)
  BY <1>1, <1>3
<1> QED
  BY <1>1, <1>4 DEF f

\* If no trace comes twice in the order, none comes twice in what is picked, and
\* as many are picked as are found.
LEMMA PickedOnce ==
  ASSUME NEW S, NEW order \in Seq(S), NEW found, NEW r \in Seq(S),
         Picks(r, order, found, Len(order)),
         \A i, j \in DOMAIN order : order[i] = order[j] => i = j,
         \A x \in found : \E k \in DOMAIN order : order[k] = x
  PROVE  /\ \A i, j \in 1 .. Len(r) : r[i] = r[j] => i = j
         /\ IsFiniteSet(found) /\ Cardinality(found) = Len(r)
<1>1. Len(r) \in Nat /\ DOMAIN r = 1 .. Len(r) /\ DOMAIN order = 1 .. Len(order)
  OBVIOUS
<1>2. ASSUME NEW i \in 1 .. Len(r), NEW j \in 1 .. Len(r), i < j PROVE r[i] # r[j]
  <2>1. PICK a, b \in 1 .. Len(order) : b < a /\ order[a] = r[i] /\ order[b] = r[j]
    BY <1>2 DEF Picks
  <2> QED
    BY <1>1, <2>1
<1>3. \A i, j \in 1 .. Len(r) : r[i] = r[j] => i = j
  BY <1>1, <1>2
<1>4. r \in [1 .. Len(r) -> found]
  BY <1>1 DEF Picks
<1>5. \A x \in found : \E i \in 1 .. Len(r) : r[i] = x
  BY <1>1 DEF Picks
<1>6. r \in Bijection(1 .. Len(r), found)
  <2>1. r \in Injection(1 .. Len(r), found)
    BY <1>3, <1>4 DEF Injection, IsInjective
  <2>2. r \in Surjection(1 .. Len(r), found)
    BY <1>4, <1>5 DEF Surjection
  <2> QED
    BY <2>1, <2>2 DEF Bijection
<1>7. ExistsBijection(1 .. Len(r), found)
  BY <1>6 DEF ExistsBijection
<1>8. IsFiniteSet(1 .. Len(r)) /\ Cardinality(1 .. Len(r)) = Len(r)
  <2>1. \A m \in Nat : IsFiniteSet(1 .. m) /\ Cardinality(1 .. m) = m
    BY FS_Interval
  <2> QED
    BY <1>1, <2>1
<1>9. IsFiniteSet(found) /\ Cardinality(found) = Cardinality(1 .. Len(r))
  BY <1>7, <1>8, FS_Bijection
<1> QED
  BY <1>3, <1>8, <1>9

-----------------------------------------------------------------------------
(***************************************************************************)
(* The monitor beside the chats.  Its invariant has four parts: the chats  *)
(* are as above and their copies costed right (ChatsInv), the order of     *)
(* creation has each trace that has begun once (Ordered), the count is not *)
(* ahead of the store (Counted), and what is tallied and what is still     *)
(* listed are apart and together enough (Looking).                         *)
(***************************************************************************)
\* A record that counts as one with a cost is of a request that was finalized.
Costed(r) == HasCost(r) => r.state = "FINALIZED"

\* The transitions stay out of a trace until they are all known.
Priced(t) ==
  /\ at[t] \in {"idle"} \union Underway => live[t].transitions = <<>>
  /\ at[t] = "lost" => Costed(live[t])
  /\ stored[t] \notin {NoTrace, Shared} => Costed(stored[t])

\* Each trace that has begun is in the order of creation, once.
Ordered ==
  /\ \A i, j \in DOMAIN created : created[i] = created[j] => i = j
  /\ \A t \in Trace : at[t] = "idle" <=> \A i \in DOMAIN created : created[i] # t

ChatsInv == IInv /\ Story /\ \A t \in Trace : Priced(t)

\* The traces that are listed and not yet looked at.
Pending == {listed[i].trace : i \in DOMAIN listed}

\* Between the count and the list traces may join, and none is lost.
Counted ==
  phase = "list" =>
    /\ Tallied = {} /\ costs = {}
    /\ request.kind = "metrics" => total <= Cardinality(Found)

\* What is tallied and what is listed are apart, and enough.
Looking ==
  phase \in {"tally", "price", "answered"} =>
    /\ IsFiniteSet(Tallied)
    /\ \A i, j \in DOMAIN listed : listed[i].trace = listed[j].trace => i = j
    /\ Pending \intersect Tallied = {}
    /\ costs \subseteq Tallied
    /\ phase = "price" => current.trace \in Tallied /\ current.trace \notin costs
    /\ phase = "answered" => listed = <<>>
    /\ TraceBackend # "sqlite" /\ request.kind = "metrics" =>
         Cardinality(Tallied) + Len(listed)
           >= IF total < MetricsLimit THEN total ELSE MetricsLimit

\* What one step of a handler can do, as far as the monitor is concerned.
HandlerSteps(t) ==
  /\ \A u \in Trace \ {t} :
       at'[u] = at[u] /\ live'[u] = live[u] /\ answer'[u] = answer[u]
  /\ \/ at'[t] \in Ending \union {"done"}
     \/ /\ at[t] \in {"idle"} \union Underway /\ at'[t] \in Underway
        /\ live'[t].transitions = live[t].transitions
  /\ at[t] \in {"sign", "done", "lost"} => answer'[t] = answer[t]
  /\ stored' = stored \/ \E call, record : Write(t, call, record)

LEMMA AdvanceSteps ==
  ASSUME TypeOK, NEW t \in Trace, NEW call, NEW to, NEW where,
         Advance(t, call, to), Goto(t, where), UNCHANGED answer,
         at[t] \in {"idle"} \union Underway, where \in Underway
  PROVE  HandlerSteps(t) /\ at'[t] = where
<1> DEFINE record == [live[t] EXCEPT !.state = to]
<1>1. /\ live' = [live EXCEPT ![t] = record] /\ at' = [at EXCEPT ![t] = where]
      /\ Write(t, call, record) /\ live[t] \in Record
      /\ live \in [Trace -> Record] /\ t \in DOMAIN at
  BY DEF Advance, Goto, TypeOK
<1>2. record.transitions = live[t].transitions
  BY <1>1 DEF Record
<1>3. \A u \in Trace \ {t} : at'[u] = at[u] /\ live'[u] = live[u]
  BY <1>1
<1>4. at'[t] = where /\ live'[t] = record
  BY <1>1
<1>5. \E c, r : Write(t, c, r)
  BY <1>1
<1> QED
  BY <1>2, <1>3, <1>4, <1>5 DEF HandlerSteps

LEMMA FailSteps ==
  ASSUME TypeOK, NEW t \in Trace, NEW error, NEW status, Fail(t, error, status),
         at[t] \in Underway
  PROVE  HandlerSteps(t) /\ at'[t] = "done"
<1>1. PICK history, record :
        /\ live' = [live EXCEPT ![t] = record] /\ at' = [at EXCEPT ![t] = "done"]
        /\ answer' = [answer EXCEPT ![t] = status] /\ Write(t, "Update", record)
  BY DEF Fail, Goto
<1>2. \A u \in Trace \ {t} :
        at'[u] = at[u] /\ live'[u] = live[u] /\ answer'[u] = answer[u]
  BY <1>1 DEF TypeOK
<1>3. at'[t] = "done"
  BY <1>1 DEF TypeOK
<1>4. \E call, r : Write(t, call, r)
  BY <1>1
<1>5. at[t] \notin {"sign", "done", "lost"}
  BY DEF Underway
<1> QED
  BY <1>2, <1>3, <1>4, <1>5 DEF HandlerSteps

\* A step that writes nothing.
LEMMA PlainSteps ==
  ASSUME TypeOK, NEW t \in Trace, NEW where, Goto(t, where), NoWrite,
         \A u \in Trace \ {t} : live'[u] = live[u] /\ answer'[u] = answer[u],
         \/ where \in Ending \union {"done"}
         \/ at[t] \in Underway /\ where \in Underway /\ live' = live,
         at[t] \in {"sign", "done", "lost"} => answer'[t] = answer[t]
  PROVE  HandlerSteps(t) /\ at'[t] = where
<1>1. at' = [at EXCEPT ![t] = where] /\ stored' = stored /\ t \in DOMAIN at
  BY DEF Goto, NoWrite, TypeOK
<1>2. at'[t] = where /\ \A u \in Trace \ {t} : at'[u] = at[u]
  BY <1>1
<1> QED
  BY <1>1, <1>2 DEF HandlerSteps

LEMMA HandlerMoves ==
  ASSUME TypeOK, NEW t \in Trace
  PROVE  /\ Receive(t) => HandlerSteps(t) /\ at[t] = "idle" /\ at'[t] = "hooks"
         /\ Handle(t) => HandlerSteps(t) /\ at[t] # "idle" /\ at'[t] # "idle"
<1>0. t \in DOMAIN at /\ t \in DOMAIN live /\ t \in DOMAIN answer
  BY DEF TypeOK
<1>1. ASSUME Receive(t) PROVE HandlerSteps(t) /\ at[t] = "idle" /\ at'[t] = "hooks"
  BY <1>1, AdvanceSteps DEF Receive, Underway
<1>2. ASSUME PreExecute(t) PROVE HandlerSteps(t) /\ at[t] # "idle" /\ at'[t] # "idle"
  BY <1>2, AdvanceSteps DEF PreExecute, Underway
<1>3. ASSUME Decide(t) PROVE HandlerSteps(t) /\ at[t] # "idle" /\ at'[t] # "idle"
  <2>1. CASE Evaluate(strategy[t]) = "block"
    BY <1>3, <2>1, FailSteps DEF Decide, Underway
  <2>2. CASE Evaluate(strategy[t]) # "block"
    BY <1>3, <2>2, AdvanceSteps DEF Decide, Underway
  <2> QED
    BY <2>1, <2>2
<1>4. ASSUME NoProvider(t) \/ NoBudget(t) \/ UpstreamFails(t)
      PROVE  HandlerSteps(t) /\ at[t] # "idle" /\ at'[t] # "idle"
  BY <1>4, FailSteps DEF NoProvider, NoBudget, UpstreamFails, Underway
<1>5. ASSUME Route(t) \/ Reserve(t) \/ UpstreamReplies(t) \/ Validate(t)
      PROVE  HandlerSteps(t) /\ at[t] # "idle" /\ at'[t] # "idle"
  <2>1. PICK where \in {"reserve", "call", "validate", "finalize"} :
          /\ at[t] \in {"route", "reserve", "call", "validate"} /\ Goto(t, where)
          /\ NoWrite /\ live' = live /\ answer' = answer
    BY <1>5 DEF Route, Reserve, UpstreamReplies, Validate
  <2>2. HandlerSteps(t) /\ at'[t] = where
    BY <2>1, PlainSteps DEF Underway
  <2> QED
    BY <2>1, <2>2
<1>6. ASSUME Finalize(t) \/ SetOutput(t) \/ Observe(t)
      PROVE  HandlerSteps(t) /\ at[t] # "idle" /\ at'[t] # "idle"
  <2>1. PICK where \in {"output", "observe", "reply"} :
          /\ at[t] \in {"finalize", "output", "observe"} /\ Goto(t, where)
          /\ NoWrite /\ answer' = answer
          /\ \A u \in Trace \ {t} : live'[u] = live[u]
    <3>1. live \in [Trace -> Record]
      BY DEF TypeOK
    <3>2. CASE Finalize(t)
      BY <3>1, <3>2 DEF Finalize
    <3>3. CASE SetOutput(t)
      BY <3>1, <3>3 DEF SetOutput
    <3>4. CASE Observe(t)
      BY <3>1, <3>4 DEF Observe
    <3> QED
      BY <1>6, <3>2, <3>3, <3>4
  <2>2. HandlerSteps(t) /\ at'[t] = where
    BY <2>1, PlainSteps DEF Ending
  <2> QED
    BY <2>1, <2>2
<1>7. ASSUME Reply(t) \/ ReplyStream(t)
      PROVE  HandlerSteps(t) /\ at[t] # "idle" /\ at'[t] # "idle"
  <2>1. PICK where \in {"sign", "done"} :
          /\ at[t] = "reply" /\ Goto(t, where) /\ NoWrite /\ live' = live
          /\ \A u \in Trace \ {t} : answer'[u] = answer[u]
    BY <1>7 DEF Reply, ReplyStream, TypeOK
  <2>2. HandlerSteps(t) /\ at'[t] = where
    BY <2>1, PlainSteps DEF Ending
  <2> QED
    BY <2>1, <2>2
<1>8. ASSUME SignAndStore(t) PROVE HandlerSteps(t) /\ at[t] # "idle" /\ at'[t] # "idle"
  <2>1. PICK record :
          /\ at[t] = "sign" /\ live' = [live EXCEPT ![t] = record]
          /\ Write(t, "Update", record) /\ at' = [at EXCEPT ![t] = "done"]
          /\ answer' = answer
    BY <1>8 DEF SignAndStore, Goto
  <2>2. \E call, r : Write(t, call, r)
    BY <2>1
  <2> QED
    BY <1>0, <2>1, <2>2 DEF HandlerSteps
<1> QED
  BY <1>1, <1>2, <1>3, <1>4, <1>5, <1>6, <1>7, <1>8 DEF Handle

\* A step of the monitor or of the chats beside it is one of the chats, or none.
LEMMA MonitorStep == [MonitorNext]_mvars => [Next]_tvars
  BY DEF MonitorNext, Chat, AskMetrics, AskList, List, Tally, AddCost, Answer, Next, mvars

\* A live trace in a final state, or with its transitions, is costed.
LEMMA CostedLive ==
  ASSUME IInv, Story, NEW t \in Trace, Priced(t)
  PROVE  Costed(live[t])
<1>1. /\ EndingStory(t) /\ DoneStory(t)
      /\ at[t] \in {"idle", "done", "lost"} \union Underway \union Ending
  BY DEF Story, Told, IInv, TypeOK, InHandler, Underway, Ending
<1>2. CASE at[t] \in {"idle"} \union Underway
  BY <1>2 DEF Priced, Costed, HasCost
<1>3. CASE at[t] \in Ending
  BY <1>1, <1>3 DEF EndingStory, Costed
<1>4. CASE at[t] = "done"
  BY <1>1, <1>4 DEF DoneStory, Complete, Costed, HasCost
<1>5. CASE at[t] = "lost"
  BY <1>5 DEF Priced
<1> QED
  BY <1>1, <1>2, <1>3, <1>4, <1>5

\* The chats keep their part of the invariant.
LEMMA InitChats == Init => ChatsInv
<1> SUFFICES ASSUME Init PROVE \A t \in Trace : Priced(t)
  BY InitOnPath, InitTold DEF ChatsInv
<1> QED
  BY DEF Init, Priced, NewRecord

LEMMA StepPriced ==
  ASSUME ChatsInv, [Next]_tvars, NEW t \in Trace
  PROVE  Priced(t)'
<1>1. /\ IInv /\ Story /\ Priced(t) /\ TypeOK
      /\ IInv' /\ Story' /\ Kept(t)
  BY StepOnPath, StepTold, StepForward DEF ChatsInv, IInv
<1>2. /\ at'[t] \in {"idle"} \union Underway => live'[t].transitions = <<>>
      /\ at'[t] = "lost" => Costed(live'[t])
  <2>1. CASE UNCHANGED <<at, live>>
    BY <1>1, <2>1, CostedLive DEF Priced
  <2>2. ASSUME NEW u \in Trace, HandlerSteps(u)
        PROVE  /\ at'[t] \in {"idle"} \union Underway => live'[t].transitions = <<>>
               /\ at'[t] = "lost" => Costed(live'[t])
    <3>1. CASE u # t
      <4>1. at'[t] = at[t] /\ live'[t] = live[t]
        BY <2>2, <3>1 DEF HandlerSteps
      <4> QED
        BY <1>1, <4>1, CostedLive DEF Priced
    <3>2. CASE u = t
      <4>1. at'[t] \in Ending \union {"done"} =>
              at'[t] \notin {"idle", "lost"} \union Underway
        BY DEF Ending, Underway
      <4>2. at'[t] \in Underway => at'[t] # "lost"
        BY DEF Underway
      <4> QED
        BY <1>1, <2>2, <3>2, <4>1, <4>2 DEF HandlerSteps, Priced
    <3> QED
      BY <3>1, <3>2
  <2>3. CASE Crash
    <3>1. /\ live' = live /\ at'[t] = IF at[t] \in InHandler THEN "lost" ELSE at[t]
          /\ "lost" \notin {"idle"} \union Underway
      BY <2>3 DEF Crash, Underway
    <3> QED
      BY <1>1, <3>1, CostedLive DEF Priced
  <2> QED
    BY <1>1, <2>1, <2>2, <2>3, HandlerMoves DEF Next, tvars, HangUp
<1>4. Costed(live'[t])
  <2>1. EndingStory(t)' /\ DoneStory(t)'
    BY <1>1 DEF Story, Told
  <2>2. at'[t] \in {"idle", "done", "lost"} \union Underway \union Ending
    BY <1>1 DEF IInv, TypeOK, InHandler, Underway, Ending
  <2>3. CASE at'[t] \in {"idle"} \union Underway
    BY <1>2, <2>3 DEF Costed, HasCost
  <2>4. CASE at'[t] \in Ending
    BY <2>1, <2>4 DEF EndingStory, Costed
  <2>5. CASE at'[t] = "done"
    BY <2>1, <2>5 DEF DoneStory, Complete, Costed, HasCost
  <2>6. CASE at'[t] = "lost"
    BY <1>2, <2>6
  <2> QED
    BY <2>2, <2>3, <2>4, <2>5, <2>6
<1> QED
  BY <1>1, <1>2, <1>4 DEF Priced, Kept

LEMMA StepChats == ChatsInv /\ [Next]_tvars => ChatsInv'
<1> SUFFICES ASSUME ChatsInv, [Next]_tvars PROVE ChatsInv'
  OBVIOUS
<1>1. IInv' /\ Story'
  BY StepOnPath, StepTold DEF ChatsInv
<1>2. \A t \in Trace : Priced(t)'
  BY StepPriced
<1> QED
  BY <1>1, <1>2 DEF ChatsInv

\* In an order in which each element that is found comes once.
LEMMA LatestOnce ==
  ASSUME NEW S, NEW order \in Seq(S), NEW found,
         \A i, j \in DOMAIN order : order[i] = order[j] => i = j,
         \A x \in found : \E k \in DOMAIN order : order[k] = x
  PROVE  /\ Latest(order, found)[Len(order)] \in Seq(S)
         /\ Picks(Latest(order, found)[Len(order)], order, found, Len(order))
         /\ \A i, j \in 1 .. Len(Latest(order, found)[Len(order)]) :
              Latest(order, found)[Len(order)][i] = Latest(order, found)[Len(order)][j]
                => i = j
         /\ IsFiniteSet(found)
         /\ Cardinality(found) = Len(Latest(order, found)[Len(order)])
<1> DEFINE r == Latest(order, found)[Len(order)]
<1>1. r \in Seq(S) /\ Picks(r, order, found, Len(order))
  BY LatestPicks
<1> HIDE DEF r
<1>2. /\ \A i, j \in 1 .. Len(r) : r[i] = r[j] => i = j
      /\ IsFiniteSet(found) /\ Cardinality(found) = Len(r)
  BY <1>1, PickedOnce
<1> QED
  BY <1>1, <1>2 DEF r

\* A trace that is stored has begun.
LEMMA FoundHasBegun ==
  ASSUME Story, Ordered
  PROVE  \A x \in Found : \E k \in DOMAIN created : created[k] = x
<1> SUFFICES ASSUME NEW x \in Trace, stored[x] # NoTrace
             PROVE  \E k \in DOMAIN created : created[k] = x
  BY DEF Found
<1>1. at[x] # "idle"
  BY DEF Story, Told, OpenStory
<1> QED
  BY <1>1 DEF Ordered

LEMMA FoundIsFinite ==
  ASSUME Story, Ordered, created \in Seq(Trace)
  PROVE  IsFiniteSet(Found) /\ Cardinality(Found) \in Nat
<1>1. IsFiniteSet(Found)
  BY FoundHasBegun, LatestOnce DEF Ordered
<1> QED
  BY <1>1, FS_CardinalityType

\* The order grows at its end, by traces that begin.
LEMMA StepOrdered ==
  ASSUME TypeOK, created \in Seq(Trace), Ordered, [MonitorNext]_mvars
  PROVE  /\ Ordered' /\ created' \in Seq(Trace)
         /\ \A u, t : Later(u, t) => Later(u, t)'
<1>1. CASE created' = created /\ \A t \in Trace : at'[t] = "idle" <=> at[t] = "idle"
  BY <1>1 DEF Ordered, Later
<1>2. ASSUME NEW t \in Trace, Receive(t), created' = Append(created, t)
      PROVE  /\ Ordered' /\ created' \in Seq(Trace)
             /\ \A u, v : Later(u, v) => Later(u, v)'
  <2>1. at[t] = "idle" /\ at'[t] = "hooks" /\ \A u \in Trace \ {t} : at'[u] = at[u]
    BY <1>2, HandlerMoves DEF HandlerSteps
  <2>2. /\ created' \in Seq(Trace) /\ Len(created') = Len(created) + 1
        /\ Len(created) \in Nat
        /\ created'[Len(created) + 1] = t
        /\ \A i \in 1 .. Len(created) : created'[i] = created[i]
        /\ DOMAIN created = 1 .. Len(created) /\ DOMAIN created' = 1 .. Len(created) + 1
    BY <1>2
  <2>3. \A i \in DOMAIN created : created[i] # t
    BY <2>1 DEF Ordered
  <2>4. /\ \A i \in DOMAIN created : i \in DOMAIN created'
        /\ \A i \in DOMAIN created' : i = Len(created) + 1 \/ i \in DOMAIN created
    BY <2>2
  <2>5. \A i, j \in DOMAIN created' : created'[i] = created'[j] => i = j
    BY <2>2, <2>3, <2>4 DEF Ordered
  <2>6. ASSUME NEW u \in Trace
        PROVE  at'[u] = "idle" <=> \A i \in DOMAIN created' : created'[i] # u
    <3>1. CASE u = t
      BY <2>1, <2>2, <3>1
    <3>2. CASE u # t
      <4>1. (\A i \in DOMAIN created' : created'[i] # u)
              <=> \A i \in DOMAIN created : created[i] # u
        BY <2>2, <2>4, <3>2
      <4> QED
        BY <2>1, <3>2, <4>1 DEF Ordered
    <3> QED
      BY <3>1, <3>2
  <2>7. \A u, v : Later(u, v) => Later(u, v)'
    BY <2>2, <2>4 DEF Later
  <2> QED
    BY <2>2, <2>5, <2>6, <2>7 DEF Ordered
<1>3. ASSUME NEW t \in Trace, Handle(t), created' = created
      PROVE  \A u \in Trace : at'[u] = "idle" <=> at[u] = "idle"
  BY <1>3, HandlerMoves DEF HandlerSteps
<1>4. ASSUME NEW t \in Trace, HangUp(t)
      PROVE  \A u \in Trace : at'[u] = "idle" <=> at[u] = "idle"
  BY <1>4 DEF HangUp
<1>5. ASSUME Crash PROVE \A u \in Trace : at'[u] = "idle" <=> at[u] = "idle"
  BY <1>5 DEF Crash, InHandler
<1>6. CASE \/ UNCHANGED mvars \/ AskMetrics \/ AskList \/ List
           \/ Tally \/ AddCost \/ Answer
  <2>1. created' = created /\ at' = at
    BY <1>6 DEF mvars, tvars, AskMetrics, AskList, List, Tally, AddCost, Answer
  <2> QED
    BY <1>1, <2>1
<1> QED
  BY <1>1, <1>2, <1>3, <1>4, <1>5, <1>6 DEF MonitorNext, Chat

\* What the store lists: rows of traces found, each once, the latest ones, and
\* all of them unless the list is full.
Lists(l, limit) ==
  /\ l \in Seq(Entry)
  /\ \A i \in DOMAIN l : l[i].trace \in Found /\ l[i].copy = stored[l[i].trace]
  /\ \A i, j \in DOMAIN l : l[i].trace = l[j].trace => i = j
  /\ Cardinality(Found) \in Nat
  /\ Len(l) = IF Cardinality(Found) > limit THEN limit ELSE Cardinality(Found)
  /\ \A t \in Found : \/ \E i \in DOMAIN l : l[i].trace = t
                      \/ /\ Len(l) = limit
                         /\ \A i \in DOMAIN l : Later(l[i].trace, t)

LEMMA ListFacts ==
  ASSUME MonitorTypeOK, ChatsInv, Ordered, TraceBackend # "sqlite", NEW limit \in Nat
  PROVE  Lists(ListRecent(limit), limit)
<1> DEFINE r == Recent[Len(created)]
           N == Len(r)
           entries == Entries(r)
           l == ListRecent(limit)
<1>1. /\ created \in Seq(Trace) /\ Story /\ TypeOK
      /\ DOMAIN created = 1 .. Len(created)
  BY DEF MonitorTypeOK, ChatsInv, IInv
<1>2. r = Latest(created, Found)[Len(created)]
  BY DEF Recent, Latest
<1>3. /\ r \in Seq(Trace) /\ Picks(r, created, Found, Len(created))
      /\ \A i, j \in 1 .. N : r[i] = r[j] => i = j
      /\ IsFiniteSet(Found) /\ Cardinality(Found) = N
  BY <1>1, <1>2, FoundHasBegun, LatestOnce DEF Ordered
<1> HIDE DEF r
<1>4. N \in Nat /\ DOMAIN r = 1 .. N /\ \A i \in 1 .. N : r[i] \in Found
  BY <1>3 DEF Picks
<1>5. /\ entries \in Seq(Entry) /\ Len(entries) = N
      /\ \A i \in 1 .. N : entries[i].trace = r[i] /\ entries[i].copy = stored[r[i]]
  <2>1. entries = [i \in 1 .. N |-> [trace |-> r[i], copy |-> stored[r[i]]]]
    BY <1>4 DEF Entries
  <2>2. \A i \in 1 .. N : [trace |-> r[i], copy |-> stored[r[i]]] \in Entry
    BY <1>1, <1>4 DEF Entry, Found, TypeOK
  <2> QED
    BY <1>4, <2>1, <2>2
<1>6. l = IF Len(entries) > limit THEN SubSeq(entries, 1, limit) ELSE entries
  BY DEF ListRecent, r
<1> HIDE DEF entries, N, l
<1>7. /\ l \in Seq(Entry) /\ Len(l) = IF N > limit THEN limit ELSE N
      /\ \A i \in 1 .. Len(l) : l[i] = entries[i]
  <2>1. CASE N > limit
    BY <1>4, <1>5, <1>6, <2>1
  <2>2. CASE ~ (N > limit)
    BY <1>4, <1>5, <1>6, <2>2
  <2> QED
    BY <2>1, <2>2
<1>8. /\ DOMAIN l = 1 .. Len(l) /\ Len(l) \in Nat
      /\ \A i \in 1 .. Len(l) : i \in 1 .. N /\ l[i].trace = r[i] /\ l[i].copy = stored[r[i]]
  <2>1. DOMAIN l = 1 .. Len(l) /\ Len(l) \in Nat
    BY <1>7
  <2>2. \A i \in 1 .. Len(l) : i \in 1 .. N
    BY <1>4, <1>7
  <2> QED
    BY <1>5, <1>7, <2>1, <2>2
<1>9. ASSUME NEW t \in Found
      PROVE  \/ \E i \in DOMAIN l : l[i].trace = t
             \/ Len(l) = limit /\ \A i \in DOMAIN l : Later(l[i].trace, t)
  <2>1. PICK k \in 1 .. N : r[k] = t
    <3>1. PICK n \in DOMAIN created : created[n] = t
      BY <1>1, FoundHasBegun
    <3> QED
      BY <1>1, <1>3, <3>1 DEF Picks, N
  <2>2. CASE k \in 1 .. Len(l)
    BY <1>8, <2>1, <2>2
  <2>3. CASE k \notin 1 .. Len(l)
    <3>1. Len(l) = limit /\ \A i \in 1 .. Len(l) : i < k
      BY <1>4, <1>7, <1>8, <2>3
    <3>2. ASSUME NEW i \in 1 .. Len(l) PROVE Later(l[i].trace, t)
      <4>1. i \in 1 .. N /\ i < k /\ l[i].trace = r[i]
        BY <1>8, <3>1
      <4>2. PICK a, b \in 1 .. Len(created) :
              b < a /\ created[a] = r[i] /\ created[b] = r[k]
        BY <1>3, <4>1 DEF Picks, N
      <4> QED
        BY <1>1, <2>1, <4>1, <4>2 DEF Later
    <3> QED
      BY <1>8, <3>1, <3>2
  <2> QED
    BY <2>2, <2>3
<1>10. Cardinality(Found) = N
  BY <1>3 DEF N
<1>11. \A i, j \in DOMAIN l : l[i].trace = l[j].trace => i = j
  BY <1>3, <1>8 DEF N
<1>12. Lists(l, limit)
  BY <1>4, <1>7, <1>8, <1>9, <1>10, <1>11 DEF Lists
<1> QED
  BY <1>12 DEF l

\* The first of the traces listed is tallied: what changes.
LEMMA TallyFacts ==
  ASSUME MonitorTypeOK, ChatsInv, Tally, NEW e, e = Head(listed), NEW r, r = Deref(e)
  PROVE  /\ e \in Entry /\ r \in Record /\ current' = e
         /\ e.copy = Shared => r = live[e.trace]
         /\ e.copy # Shared => r = e.copy
         /\ byState' = [byState EXCEPT ![e.trace] = r.state]
         /\ byState'[e.trace] = r.state
         /\ \A t \in Trace : t # e.trace => byState'[t] = byState[t]
         /\ Tallied' = Tallied \union {e.trace}
         /\ listed' \in Seq(Entry) /\ Len(listed') + 1 = Len(listed) /\ Len(listed') \in Nat
         /\ 1 \in DOMAIN listed /\ listed[1] = e
         /\ \A i \in DOMAIN listed' : i + 1 \in DOMAIN listed /\ listed'[i] = listed[i + 1]
         /\ \A i \in DOMAIN listed : i # 1 => i - 1 \in DOMAIN listed' /\ listed'[i - 1] = listed[i]
<1>1. /\ listed \in Seq(Entry) /\ listed # <<>> /\ listed' = Tail(listed)
      /\ byState' = [byState EXCEPT ![e.trace] = r.state] /\ current' = e
      /\ byState \in [Trace -> State \union {NotStarted, Untallied}]
      /\ live \in [Trace -> Record]
  BY DEF MonitorTypeOK, Tally, ChatsInv, IInv, TypeOK
<1>2. /\ e \in Entry /\ listed[1] = e /\ Len(listed) \in Nat /\ Len(listed) >= 1
      /\ DOMAIN listed = 1 .. Len(listed)
  BY <1>1
<1>3. /\ listed' \in Seq(Entry) /\ Len(listed') = Len(listed) - 1
      /\ DOMAIN listed' = 1 .. Len(listed')
      /\ \A i \in 1 .. Len(listed) - 1 : listed'[i] = listed[i + 1]
  BY <1>1, <1>2
<1>4. /\ e.trace \in Trace /\ e.copy \in Record \union {Shared}
      /\ r = IF e.copy = Shared THEN live[e.trace] ELSE e.copy
  BY <1>2 DEF Entry, Deref
<1>5. r \in Record
  BY <1>1, <1>4
<1>6. byState'[e.trace] = r.state /\ \A t \in Trace : t # e.trace => byState'[t] = byState[t]
  BY <1>1, <1>4
<1>7. r.state # Untallied
  BY <1>5 DEF Record, State, FinalState, NotStarted, Untallied
<1>8. Tallied' = Tallied \union {e.trace}
  BY <1>4, <1>6, <1>7 DEF Tallied
<1>9. \A i \in DOMAIN listed' : i + 1 \in DOMAIN listed /\ listed'[i] = listed[i + 1]
  BY <1>2, <1>3
<1>10. \A i \in DOMAIN listed : i # 1 => i - 1 \in DOMAIN listed' /\ listed'[i - 1] = listed[i]
  BY <1>2, <1>3
<1> QED
  BY <1>1, <1>2, <1>3, <1>4, <1>5, <1>6, <1>8, <1>9, <1>10

\* The types of the monitor.
LEMMA StepMonitorType ==
  ASSUME MonitorTypeOK, ChatsInv, ChatsInv', Ordered, [MonitorNext]_mvars
  PROVE  MonitorTypeOK'
<1>1. /\ created' \in Seq(Trace) /\ TypeOK /\ TypeOK'
      /\ IsFiniteSet(Found) /\ Cardinality(Found) \in Nat
  BY StepOrdered, FoundIsFinite DEF MonitorTypeOK, ChatsInv, IInv
<1>2. CASE UNCHANGED monitor
  BY <1>1, <1>2 DEF MonitorTypeOK, monitor
<1>3. CASE Crash /\ settled' = Sent' /\ phase' = "idle" /\ request' = NoRequest /\ total' = 0
           /\ listed' = <<>> /\ current' = NoTrace
           /\ byState' = [t \in Trace |-> Untallied] /\ costs' = {}
  <2>1. request' \in [kind : {"metrics", "list"}, limit : Nat]
        /\ request'.limit = MetricsLimit
    BY <1>3, LimitAssumption DEF NoRequest
  <2>2. settled' \in [Trace -> {"none", "200", "404", "429", "502"}]
    BY <1>1, <1>3 DEF Sent, TypeOK
  <2> QED
    BY <1>1, <1>3, <2>1, <2>2 DEF MonitorTypeOK
<1>4. CASE AskMetrics \/ AskList
  <2>1. PICK kind \in {"metrics", "list"}, limit \in Nat :
          Begin(kind, limit) /\ (kind = "metrics" => limit = MetricsLimit)
    BY <1>4, LimitAssumption DEF AskMetrics, AskList
  <2>2. request' \in [kind : {"metrics", "list"}, limit : Nat]
        /\ (request'.kind = "metrics" => request'.limit = MetricsLimit)
    BY <2>1 DEF Begin
  <2>3. settled' \in [Trace -> {"none", "200", "404", "429", "502"}]
    BY <1>1, <2>1 DEF Begin, Sent, TypeOK
  <2>4. total' \in Nat /\ phase' \in {"list", "failed"}
    BY <1>1, <1>4 DEF AskMetrics, AskList, Count
  <2> QED
    BY <1>1, <2>1, <2>2, <2>3, <2>4 DEF MonitorTypeOK, Begin
<1>5. CASE List
  <2>1. request.limit \in Nat
    BY DEF MonitorTypeOK
  <2>2. ListRecent(request.limit) \in Seq(Entry)
    <3>1. CASE TraceBackend = "sqlite"
      BY <3>1 DEF ListRecent
    <3>2. CASE TraceBackend # "sqlite"
      BY <2>1, <3>2, ListFacts DEF Lists
    <3> QED
      BY <3>1, <3>2
  <2>3. listed' \in Seq(Entry) /\ phase' \in {"tally", "failed"}
        /\ UNCHANGED <<request, total, current, byState, costs, settled>>
    BY <1>5, <2>2 DEF List, MonitorTypeOK
  <2> QED
    BY <1>1, <2>3 DEF MonitorTypeOK
<1>6. CASE Tally
  <2>1. PICK e, r : e = Head(listed) /\ r = Deref(e)
    OBVIOUS
  <2>2. /\ e \in Entry /\ r \in Record /\ listed' \in Seq(Entry) /\ current' = e
        /\ byState' = [byState EXCEPT ![e.trace] = r.state]
    BY <1>6, <2>1, TallyFacts
  <2>3. phase' = "price" /\ UNCHANGED <<request, total, costs, settled>>
    BY <1>6 DEF Tally
  <2>4. e.trace \in Trace /\ r.state \in State \union {NotStarted}
    BY <2>2 DEF Entry, Record
  <2> QED
    BY <1>1, <2>2, <2>3, <2>4 DEF MonitorTypeOK
<1>7. CASE AddCost
  <2>1. /\ current \in Entry /\ phase' = "tally" /\ current' = NoTrace
        /\ costs' = costs \union (IF HasCost(Deref(current)) THEN {current.trace} ELSE {})
        /\ UNCHANGED <<request, total, listed, byState, settled>>
    BY <1>7 DEF AddCost, MonitorTypeOK
  <2>2. current.trace \in Trace
    BY <2>1 DEF Entry
  <2>3. costs' \in SUBSET Trace
    BY <2>1, <2>2 DEF MonitorTypeOK
  <2> QED
    BY <1>1, <2>1, <2>3 DEF MonitorTypeOK
<1>8. CASE Answer
  BY <1>1, <1>8 DEF Answer, MonitorTypeOK
<1> QED
  BY <1>2, <1>3, <1>4, <1>5, <1>6, <1>7, <1>8 DEF MonitorNext, Chat, mvars

LEMMA InitMonitor == MonitorInit => MonitorTypeOK /\ ChatsInv /\ Ordered
<1> SUFFICES ASSUME MonitorInit PROVE MonitorTypeOK /\ ChatsInv /\ Ordered
  OBVIOUS
<1>1. ChatsInv
  BY InitChats DEF MonitorInit
<1>2. Ordered
  BY DEF MonitorInit, Init, Ordered
<1>3. MonitorTypeOK
  <2>1. settled \in [Trace -> {"none", "200", "404", "429", "502"}]
    BY <1>1 DEF MonitorInit, Sent, ChatsInv, IInv, TypeOK
  <2> QED
    BY <2>1, LimitAssumption DEF MonitorInit, MonitorTypeOK, NoRequest
<1> QED
  BY <1>1, <1>2, <1>3

\* Without a restart no trace is lost from the store.
LEMMA StillFound ==
  ASSUME ChatsInv,
         UNCHANGED tvars \/ \E t \in Trace : Receive(t) \/ Handle(t) \/ HangUp(t)
  PROVE  Found \subseteq Found'
<1> SUFFICES ASSUME NEW t \in Trace, stored[t] # NoTrace PROVE stored'[t] # NoTrace
  BY DEF Found
<1>1. IInv /\ Story /\ IInv' /\ Kept(t)
  BY StepOnPath, StepForward DEF ChatsInv, Next
<1>2. ~ \E u \in Trace : at[u] # "lost" /\ at'[u] = "lost"
  <2> SUFFICES ASSUME NEW u \in Trace, at[u] # "lost" PROVE at'[u] # "lost"
    OBVIOUS
  <2>1. CASE UNCHANGED at
    BY <2>1
  <2>2. ASSUME NEW v \in Trace, HandlerSteps(v) PROVE at'[u] # "lost"
    BY <2>2 DEF HandlerSteps, Ending, Underway
  <2> QED
    BY <1>1, <2>1, <2>2, HandlerMoves DEF HangUp, tvars, IInv
<1>3. live'[t] \in Record
  BY <1>1 DEF IInv, TypeOK
<1> QED
  BY <1>1, <1>2, <1>3, MarksAssumption DEF Kept

\* The count never exceeds what is stored when the list is asked for.
LEMMA StepCounted ==
  ASSUME MonitorTypeOK, ChatsInv, ChatsInv', Ordered, Counted, [MonitorNext]_mvars
  PROVE  Counted'
<1>1. /\ Ordered' /\ created' \in Seq(Trace) /\ [Next]_tvars
      /\ IsFiniteSet(Found) /\ Cardinality(Found) \in Nat
  BY StepOrdered, MonitorStep, FoundIsFinite DEF MonitorTypeOK, ChatsInv, IInv
<1>2. CASE /\ UNCHANGED monitor
           /\ UNCHANGED tvars \/ \E t \in Trace : Receive(t) \/ Handle(t) \/ HangUp(t)
  <2>1. Found \subseteq Found'
    BY <1>1, <1>2, StillFound
  <2>2. \A x \in Found' : \E k \in DOMAIN created' : created'[k] = x
    <3> SUFFICES ASSUME NEW x \in Trace, stored'[x] # NoTrace
                 PROVE  \E k \in DOMAIN created' : created'[k] = x
      BY DEF Found
    <3>1. at'[x] # "idle"
      BY DEF ChatsInv, Story, Told, OpenStory
    <3> QED
      BY <1>1, <3>1 DEF Ordered
  <2>3. \A i, j \in DOMAIN created' : created'[i] = created'[j] => i = j
    BY <1>1 DEF Ordered
  <2>4. IsFiniteSet(Found')
    <3> DEFINE order == created'
               found == Found'
    <3>1. /\ order \in Seq(Trace)
          /\ \A x \in found : \E k \in DOMAIN order : order[k] = x
          /\ \A i, j \in DOMAIN order : order[i] = order[j] => i = j
      BY <1>1, <2>2, <2>3
    <3> HIDE DEF order, found
    <3>2. IsFiniteSet(found)
      BY <3>1, LatestOnce
    <3> QED
      BY <3>2 DEF found
  <2>5. Cardinality(Found) <= Cardinality(Found') /\ Cardinality(Found') \in Nat
    BY <2>1, <2>4, FS_Subset, FS_CardinalityType
  <2>6. UNCHANGED <<phase, request, total, Tallied, costs>>
    BY <1>2 DEF monitor, Tallied
  <2>7. total \in Nat
    BY DEF MonitorTypeOK
  <2> QED
    BY <1>1, <2>5, <2>6, <2>7 DEF Counted
<1>3. CASE AskMetrics \/ AskList
  <2>1. /\ byState' = [t \in Trace |-> Untallied] /\ costs' = {}
        /\ (request'.kind = "metrics" /\ phase' = "list" => total' = Cardinality(Found))
        /\ stored' = stored
    BY <1>3 DEF AskMetrics, AskList, Begin, Count, tvars
  <2>2. Tallied' = {} /\ Found' = Found
    BY <2>1 DEF Tallied, Found
  <2> QED
    BY <1>1, <2>1, <2>2 DEF Counted
<1>4. CASE phase' # "list"
  BY <1>4 DEF Counted
<1>5. CASE Tally \/ AddCost \/ Answer \/ List
  BY <1>4, <1>5 DEF Tally, AddCost, Answer, List
<1> QED
  BY <1>2, <1>3, <1>4, <1>5 DEF MonitorNext, Chat, mvars

\* The list and the tally stay apart and together stay enough.
LEMMA StepLooking ==
  ASSUME MonitorTypeOK, ChatsInv, Ordered, Counted, Looking, [MonitorNext]_mvars
  PROVE  Looking'
<1>1. CASE UNCHANGED monitor
  BY <1>1 DEF Looking, monitor, Pending, Tallied
<1>2. CASE phase' \notin {"tally", "price", "answered"}
  BY <1>2 DEF Looking
<1>3. CASE List /\ phase' = "tally"
  <2>1. /\ phase = "list" /\ listed' = ListRecent(request.limit)
        /\ UNCHANGED <<request, total, byState, costs>>
    BY <1>3 DEF List
  <2>2. /\ Tallied' = {} /\ costs' = {}
        /\ request.kind = "metrics" => total <= Cardinality(Found)
    BY <2>1 DEF Counted, Tallied
  <2>3. IsFiniteSet(Tallied') /\ Cardinality(Tallied') = 0
    BY <2>2, FS_EmptySet
  <2>4. CASE TraceBackend = "sqlite"
    <3>1. listed' = <<>> /\ Pending' = {}
      BY <2>1, <2>4 DEF ListRecent, Pending
    <3> QED
      BY <1>3, <2>2, <2>3, <2>4, <3>1 DEF Looking
  <2>5. CASE TraceBackend # "sqlite"
    <3>1. /\ listed' \in Seq(Entry)
          /\ \A i, j \in DOMAIN listed' : listed'[i].trace = listed'[j].trace => i = j
          /\ Cardinality(Found) \in Nat
          /\ Len(listed') = IF Cardinality(Found) > request.limit
                            THEN request.limit ELSE Cardinality(Found)
      BY <2>1, <2>5, ListFacts DEF MonitorTypeOK, Lists
    <3>2. request.kind = "metrics" =>
            Len(listed') >= IF total < MetricsLimit THEN total ELSE MetricsLimit
      BY <2>2, <3>1 DEF MonitorTypeOK
    <3>3. Len(listed') \in Nat
      BY <3>1
    <3> QED
      BY <1>3, <2>1, <2>2, <2>3, <3>1, <3>2, <3>3 DEF Looking
  <2> QED
    BY <2>4, <2>5
<1>4. CASE Tally
  <2>1. PICK e, r : e = Head(listed) /\ r = Deref(e)
    OBVIOUS
  <2>2. /\ current' = e /\ e \in Entry
        /\ Tallied' = Tallied \union {e.trace}
        /\ 1 \in DOMAIN listed /\ listed[1] = e
        /\ Len(listed') + 1 = Len(listed) /\ Len(listed') \in Nat
        /\ \A i \in DOMAIN listed' : i + 1 \in DOMAIN listed /\ listed'[i] = listed[i + 1]
    BY <1>4, <2>1, TallyFacts
  <2>3. /\ phase = "tally" /\ phase' = "price" /\ UNCHANGED <<request, total, costs>>
        /\ listed' \in Seq(Entry)
    BY <1>4, <2>1, TallyFacts DEF Tally
  <2>4. /\ IsFiniteSet(Tallied)
        /\ \A i, j \in DOMAIN listed : listed[i].trace = listed[j].trace => i = j
        /\ Pending \intersect Tallied = {}
        /\ costs \subseteq Tallied
        /\ TraceBackend # "sqlite" /\ request.kind = "metrics" =>
             Cardinality(Tallied) + Len(listed)
               >= IF total < MetricsLimit THEN total ELSE MetricsLimit
    BY <2>3 DEF Looking
  <2>5. e.trace \notin Tallied
    BY <2>2, <2>4 DEF Pending
  <2>6. \A i \in DOMAIN listed' : i \in Nat /\ i + 1 # 1
    BY <2>3
  <2>7. \A i \in DOMAIN listed' : listed'[i].trace # e.trace
    BY <2>2, <2>4, <2>6
  <2>8. \A i, j \in DOMAIN listed' : listed'[i].trace = listed'[j].trace => i = j
    <3> SUFFICES ASSUME NEW i \in DOMAIN listed', NEW j \in DOMAIN listed',
                        listed'[i].trace = listed'[j].trace
                 PROVE  i = j
      OBVIOUS
    <3>1. i + 1 = j + 1
      BY <2>2, <2>4
    <3> QED
      BY <2>6, <3>1
  <2>9. Pending' \intersect Tallied' = {}
    <3>1. \A i \in DOMAIN listed' : listed'[i].trace \in Pending
      BY <2>2 DEF Pending
    <3> QED
      BY <2>2, <2>4, <2>7, <3>1 DEF Pending
  <2>10. /\ IsFiniteSet(Tallied') /\ Cardinality(Tallied) \in Nat
         /\ Cardinality(Tallied') = Cardinality(Tallied) + 1
    BY <2>2, <2>4, <2>5, FS_AddElement, FS_CardinalityType
  <2>11. Cardinality(Tallied') + Len(listed') = Cardinality(Tallied) + Len(listed)
    BY <2>2, <2>10
  <2>12. costs' \subseteq Tallied' /\ current'.trace \in Tallied' /\ current'.trace \notin costs'
    BY <2>2, <2>3, <2>4, <2>5
  <2> QED
    BY <2>3, <2>4, <2>8, <2>9, <2>10, <2>11, <2>12 DEF Looking
<1>5. CASE AddCost
  <2>1. /\ phase = "price" /\ phase' = "tally"
        /\ UNCHANGED <<request, total, listed, byState>>
        /\ costs' \subseteq costs \union {current.trace}
        /\ Pending' = Pending /\ Tallied' = Tallied
    BY <1>5 DEF AddCost, Pending, Tallied
  <2> QED
    BY <2>1 DEF Looking
<1>6. CASE Answer
  <2>1. /\ phase = "tally" /\ phase' = "answered" /\ listed' = <<>>
        /\ UNCHANGED <<request, total, listed, byState, costs>>
        /\ Pending' = Pending /\ Tallied' = Tallied
    BY <1>6 DEF Answer, Pending, Tallied
  <2> QED
    BY <2>1 DEF Looking
<1>7. CASE Crash /\ phase' = "idle"
  BY <1>2, <1>7
<1>8. CASE AskMetrics \/ AskList
  BY <1>2, <1>8 DEF AskMetrics, AskList
<1> QED
  BY <1>1, <1>2, <1>3, <1>4, <1>5, <1>6, <1>7, <1>8 DEF MonitorNext, Chat, mvars, List

MonitorInv == MonitorTypeOK /\ ChatsInv /\ Ordered /\ Counted /\ Looking

LEMMA StartMonitorInv == MonitorInit => MonitorInv
<1> SUFFICES ASSUME MonitorInit PROVE MonitorInv
  OBVIOUS
<1>1. Counted /\ Looking
  BY DEF MonitorInit, Counted, Looking
<1> QED
  BY <1>1, InitMonitor DEF MonitorInv

LEMMA StepMonitorInv == MonitorInv /\ [MonitorNext]_mvars => MonitorInv'
<1> SUFFICES ASSUME MonitorInv, [MonitorNext]_mvars PROVE MonitorInv'
  OBVIOUS
<1>1. ChatsInv'
  BY MonitorStep, StepChats DEF MonitorInv
<1>2. MonitorTypeOK'
  BY <1>1, StepMonitorType DEF MonitorInv
<1>3. Ordered'
  BY StepOrdered DEF MonitorInv, MonitorTypeOK, ChatsInv, IInv
<1>4. Counted'
  BY <1>1, StepCounted DEF MonitorInv
<1>5. Looking'
  BY StepLooking DEF MonitorInv
<1> QED
  BY <1>1, <1>2, <1>3, <1>4, <1>5 DEF MonitorInv

THEOREM MonitorTypeCorrect == MonitorSpec => []MonitorTypeOK
<1>1. MonitorInv => MonitorTypeOK
  BY DEF MonitorInv
<1> QED
  BY <1>1, StartMonitorInv, StepMonitorInv, PTL DEF MonitorSpec

\* The memory store has pointers only, and keeps them until the process ends.
Pointers ==
  /\ \A t \in Trace : stored[t] \in {NoTrace, Shared}
  /\ \A i \in DOMAIN listed : listed[i].copy = Shared
  /\ phase = "price" => current.copy = Shared
  /\ \A t \in Trace : settled[t] # "none" => answer[t] = settled[t] /\ stored[t] = Shared

\* Those that were answered are tallied as they were, or about to be, or left
\* out for later ones; and no trace tallied as FAILED has its cost counted.
Remembered ==
  phase \in {"tally", "price", "answered"} =>
    /\ phase = "price" /\ byState[current.trace] = "FAILED" =>
         live[current.trace].state = "FAILED"
    /\ \A t \in costs : byState[t] # "FAILED"
    /\ \A t \in Trace :
         /\ t \in Tallied /\ settled[t] = "200" =>
              /\ byState[t] = "FINALIZED"
              /\ t \in costs \/ (phase = "price" /\ t = current.trace)
         /\ t \in Tallied /\ settled[t] \in {"404", "429", "502"} => byState[t] = "FAILED"
         /\ settled[t] # "none" /\ t \notin Tallied \union Pending =>
              /\ Cardinality(Tallied) + Len(listed) = request.limit
              /\ \A u \in Tallied \union Pending : Later(u, t)

\* A chat keeps the answer it gave.
LEMMA AnswersStay ==
  ASSUME ChatsInv, [Next]_tvars, NEW t \in Trace, answer[t] # "none"
  PROVE  answer'[t] = answer[t]
<1>1. at[t] \in {"sign", "done", "lost"}
  BY DEF ChatsInv, IInv, TypeOK, InHandler, Story, Told, OpenStory, EndingStory,
         Underway, Ending
<1>2. ASSUME NEW u \in Trace, HandlerSteps(u) PROVE answer'[t] = answer[t]
  BY <1>1, <1>2 DEF HandlerSteps
<1> QED
  BY <1>2, HandlerMoves DEF Next, HangUp, Crash, tvars, ChatsInv, IInv

\* In the memory store a pointer stays, save in a restart, which loses them all.
LEMMA PointersStay ==
  ASSUME ChatsInv, [Next]_tvars, TraceBackend = "memory",
         \A t \in Trace : stored[t] \in {NoTrace, Shared}
  PROVE  /\ \A t \in Trace : stored'[t] \in {NoTrace, Shared}
         /\ Crash \/ \A t \in Trace : stored[t] = Shared => stored'[t] = Shared
<1>1. stored \in [Trace -> Record \union {NoTrace, Shared}]
  BY DEF ChatsInv, IInv, TypeOK
<1>2. CASE stored' = stored
  BY <1>2
<1>3. ASSUME NEW u \in Trace, NEW call, NEW record, Write(u, call, record)
      PROVE  /\ \A t \in Trace : stored'[t] \in {NoTrace, Shared}
             /\ \A t \in Trace : stored[t] = Shared => stored'[t] = Shared
  BY <1>1, <1>3 DEF Write
<1>4. CASE Crash
  BY <1>4 DEF Crash
<1> QED
  BY <1>2, <1>3, <1>4, HandlerMoves DEF Next, HangUp, tvars, HandlerSteps, ChatsInv, IInv

\* What the live trace of an answered chat says.
LEMMA AnsweredLive ==
  ASSUME ChatsInv, NEW t \in Trace, stored[t] = Shared
  PROVE  /\ answer[t] = "200" => live[t].state = "FINALIZED" /\ HasCost(live[t])
         /\ answer[t] \in {"404", "429", "502"} => live[t].state = "FAILED"
<1>1. /\ OpenStory(t) /\ EndingStory(t) /\ DoneStory(t) /\ LostStory(t)
      /\ at[t] \in {"idle", "done", "lost"} \union InHandler
  BY DEF ChatsInv, IInv, TypeOK, Story, Told
<1>2. CASE at[t] = "sign"
  <2>1. /\ live[t].state = "FINALIZED" /\ live[t].error = "none"
        /\ live[t].transitions = recorder[t] /\ recorder[t] # <<>> /\ answer[t] = "200"
    BY <1>1, <1>2 DEF EndingStory, Ending, Tells
  <2> QED
    BY <2>1 DEF HasCost
<1>3. CASE at[t] = "done"
  <2>1. Complete(live[t])
    BY <1>1, <1>3 DEF DoneStory
  <2>2. live[t].transitions # <<>>
    BY <2>1 DEF Complete, ToldInFull
  <2> QED
    BY <1>1, <1>3, <2>1, <2>2 DEF DoneStory, Complete, HasCost
<1>4. CASE at[t] \notin {"sign", "done"}
  BY <1>1, <1>4 DEF OpenStory, EndingStory, LostStory, InHandler, Underway, Ending
<1> QED
  BY <1>2, <1>3, <1>4

MemoryInv == MonitorInv /\ Pointers /\ Remembered

LEMMA StepPointers ==
  ASSUME MonitorInv, Pointers, TraceBackend = "memory", [MonitorNext]_mvars
  PROVE  Pointers'
<1>1. /\ [Next]_tvars /\ ChatsInv /\ MonitorTypeOK /\ Ordered
      /\ \A t \in Trace : stored'[t] \in {NoTrace, Shared}
      /\ Crash \/ \A t \in Trace : stored[t] = Shared => stored'[t] = Shared
      /\ \A t \in Trace : answer[t] # "none" => answer'[t] = answer[t]
  BY MonitorStep, PointersStay, AnswersStay DEF MonitorInv, Pointers
<1>2. ASSUME NEW t \in Trace, stored[t] # NoTrace PROVE stored[t] = Shared
  BY <1>2 DEF Pointers
<1>3. CASE UNCHANGED <<phase, listed, current, settled>> /\ ~ Crash
  BY <1>1, <1>3 DEF Pointers
<1>4. CASE listed' = <<>> /\ settled' = Sent' /\ phase' = "idle" /\ Crash
  <2>1. \A t \in Trace : settled'[t] # "none" => stored'[t] # NoTrace /\ settled'[t] = answer'[t]
    BY <1>4 DEF Sent, Found
  <2> QED
    BY <1>1, <1>4, <2>1 DEF Pointers
<1>5. CASE AskMetrics \/ AskList
  <2>1. /\ listed' = <<>> /\ settled' = Sent /\ stored' = stored /\ answer' = answer
        /\ phase' # "price"
    BY <1>5 DEF AskMetrics, AskList, Begin, tvars
  <2>2. \A t \in Trace : settled'[t] # "none" => stored[t] # NoTrace /\ settled'[t] = answer[t]
    BY <2>1 DEF Sent, Found
  <2> QED
    BY <1>1, <1>2, <2>1, <2>2 DEF Pointers
<1>6. CASE List
  <2>1. /\ listed' = ListRecent(request.limit) \/ listed' = listed
        /\ phase' # "price" /\ UNCHANGED <<settled, stored, answer>>
    BY <1>6 DEF List, tvars
  <2>2. CASE listed' = ListRecent(request.limit)
    <3>1. \A i \in DOMAIN listed' :
            listed'[i].trace \in Found /\ listed'[i].copy = stored[listed'[i].trace]
      BY <1>1, <2>2, ListFacts DEF MonitorTypeOK, Lists
    <3>2. \A i \in DOMAIN listed' : listed'[i].copy = Shared
      BY <1>2, <3>1 DEF Found
    <3> QED
      BY <1>1, <2>1, <3>2 DEF Pointers
  <2> QED
    BY <1>1, <2>1, <2>2 DEF Pointers
<1>7. CASE Tally
  <2>1. PICK e, r : e = Head(listed) /\ r = Deref(e)
    OBVIOUS
  <2>2. /\ \A i \in DOMAIN listed' : i + 1 \in DOMAIN listed /\ listed'[i] = listed[i + 1]
        /\ 1 \in DOMAIN listed /\ current' = listed[1]
    BY <1>1, <1>7, <2>1, TallyFacts
  <2>3. UNCHANGED <<settled, stored, answer>>
    BY <1>7 DEF Tally, tvars
  <2> QED
    BY <1>1, <2>2, <2>3 DEF Pointers
<1>8. CASE AddCost \/ Answer \/ UNCHANGED mvars
  BY <1>8 DEF AddCost, Answer, mvars, tvars, monitor, Pointers
<1>9. ASSUME NEW t \in Trace, Receive(t) \/ Handle(t) \/ HangUp(t), UNCHANGED monitor
      PROVE  Pointers'
  <2>1. \A u \in Trace : stored[u] = Shared => stored'[u] = Shared
    <3>1. Found \subseteq Found'
      BY <1>1, <1>9, StillFound
    <3> QED
      BY <1>1, <3>1, MarksAssumption DEF Found
  <2> QED
    BY <1>1, <1>9, <2>1 DEF Pointers, monitor
<1> QED
  BY <1>4, <1>5, <1>6, <1>7, <1>8, <1>9 DEF MonitorNext, Chat

\* In a list of the memory store, what is not there is older than what is.
LEMMA StepRemembered ==
  ASSUME MonitorInv, Pointers, Remembered, TraceBackend = "memory", [MonitorNext]_mvars
  PROVE  Remembered'
<1>1. /\ ChatsInv /\ MonitorTypeOK /\ Ordered /\ Counted /\ Looking
      /\ \A u, t : Later(u, t) => Later(u, t)'
  BY StepOrdered DEF MonitorInv, MonitorTypeOK, ChatsInv, IInv
<1>2. CASE UNCHANGED monitor
  <2>1. /\ UNCHANGED <<phase, request, listed, current, byState, costs, settled>>
        /\ Pending' = Pending /\ Tallied' = Tallied
    BY <1>2 DEF monitor, Pending, Tallied
  <2>2. phase = "price" /\ live[current.trace].state = "FAILED" =>
          live'[current.trace].state = "FAILED"
    <3>1. phase = "price" => current.trace \in Trace
      BY <1>1 DEF MonitorTypeOK, Entry
    <3> QED
      BY <1>1, <3>1, MonitorStep, StepForward DEF Forward, FinalState, ChatsInv
  <2>3. phase \in {"tally", "price", "answered"} =>
          \A t \in Trace :
            settled[t] # "none" /\ t \notin Tallied \union Pending =>
              /\ Cardinality(Tallied) + Len(listed) = request.limit
              /\ \A u \in Tallied \union Pending : Later(u, t)'
    BY <1>1 DEF Remembered
  <2> QED
    BY <2>1, <2>2, <2>3 DEF Remembered
<1>3. CASE phase' \notin {"tally", "price", "answered"}
  BY <1>3 DEF Remembered
<1>4. CASE List /\ phase' = "tally"
  <2>1. /\ phase = "list" /\ listed' = ListRecent(request.limit)
        /\ UNCHANGED <<request, byState, costs, settled>>
    BY <1>4 DEF List
  <2>2. Tallied' = {} /\ Cardinality(Tallied') = 0 /\ costs' = {}
    BY <1>1, <2>1, FS_EmptySet DEF Counted, Tallied
  <2>3. /\ listed' \in Seq(Entry)
        /\ \A t \in Found : \/ \E i \in DOMAIN listed' : listed'[i].trace = t
                            \/ /\ Len(listed') = request.limit
                               /\ \A i \in DOMAIN listed' : Later(listed'[i].trace, t)
    <3>1. Lists(listed', request.limit)
      BY <1>1, <2>1, ListFacts DEF MonitorTypeOK
    <3> QED
      BY <3>1 DEF Lists
  <2>4. Len(listed') \in Nat
    BY <2>3
  <2> SUFFICES ASSUME NEW t \in Trace, settled'[t] # "none", t \notin Pending'
               PROVE  /\ Cardinality(Tallied') + Len(listed') = request.limit
                      /\ \A u \in Pending' : Later(u, t)'
    BY <1>4, <2>1, <2>2 DEF Remembered
  <2>5. t \in Found
    BY <2>1, MarksAssumption DEF Pointers, Found
  <2>6. Len(listed') = request.limit /\ \A i \in DOMAIN listed' : Later(listed'[i].trace, t)
    BY <2>3, <2>5 DEF Pending
  <2> QED
    BY <1>1, <2>2, <2>4, <2>6 DEF Pending
<1>5. CASE Tally
  <2>1. PICK e, r : e = Head(listed) /\ r = Deref(e)
    OBVIOUS
  <2>2. /\ e \in Entry /\ current' = e
        /\ e.copy = Shared => r = live[e.trace]
        /\ byState'[e.trace] = r.state
        /\ \A t \in Trace : t # e.trace => byState'[t] = byState[t]
        /\ Tallied' = Tallied \union {e.trace}
        /\ 1 \in DOMAIN listed /\ listed[1] = e
        /\ Len(listed') + 1 = Len(listed) /\ Len(listed') \in Nat
    BY <1>1, <1>5, <2>1, TallyFacts
  <2>3. /\ \A i \in DOMAIN listed' : i + 1 \in DOMAIN listed /\ listed'[i] = listed[i + 1]
        /\ \A i \in DOMAIN listed :
             i # 1 => i - 1 \in DOMAIN listed' /\ listed'[i - 1] = listed[i]
    BY <1>1, <1>5, <2>1, TallyFacts
  <2>4. /\ phase = "tally" /\ phase' = "price"
        /\ UNCHANGED <<live, request, costs, settled, created>>
    BY <1>5 DEF Tally, tvars
  <2>5. e.trace \in Trace /\ e.copy = Shared
    BY <2>2 DEF Pointers, Entry
  <2>6. /\ settled[e.trace] = "200" => r.state = "FINALIZED"
        /\ settled[e.trace] \in {"404", "429", "502"} => r.state = "FAILED"
    BY <1>1, <2>2, <2>5, AnsweredLive DEF Pointers
  <2>7. Tallied' \union Pending' = Tallied \union Pending
    <3>1. Pending' \subseteq Pending /\ e.trace \in Pending
      BY <2>2, <2>3 DEF Pending
    <3>2. Pending \subseteq Pending' \union {e.trace}
      BY <2>2, <2>3 DEF Pending
    <3> QED
      BY <2>2, <3>1, <3>2
  <2>8. Cardinality(Tallied') + Len(listed') = Cardinality(Tallied) + Len(listed)
    <3>1. IsFiniteSet(Tallied) /\ e.trace \notin Tallied
      BY <1>1, <2>2, <2>4 DEF Looking, Pending
    <3>2. Cardinality(Tallied) \in Nat /\ Cardinality(Tallied') = Cardinality(Tallied) + 1
      BY <2>2, <3>1, FS_AddElement, FS_CardinalityType
    <3> QED
      BY <2>2, <3>2
  <2>9. ASSUME NEW t \in Trace
        PROVE  /\ t \in Tallied' /\ settled[t] = "200" =>
                    byState'[t] = "FINALIZED" /\ (t \in costs \/ t = e.trace)
               /\ t \in Tallied' /\ settled[t] \in {"404", "429", "502"} =>
                    byState'[t] = "FAILED"
    <3>1. CASE t = e.trace
      BY <2>2, <2>6, <3>1
    <3>2. CASE t # e.trace
      BY <2>2, <2>4, <3>2 DEF Remembered
    <3> QED
      BY <3>1, <3>2
  <2>10. \A u, t : Later(u, t) => Later(u, t)'
    BY <1>1
  <2>11. ASSUME NEW t \in Trace, settled[t] # "none", t \notin Tallied' \union Pending'
         PROVE  /\ Cardinality(Tallied') + Len(listed') = request.limit
                /\ \A u \in Tallied' \union Pending' : Later(u, t)'
    BY <2>4, <2>7, <2>8, <2>10, <2>11 DEF Remembered
  <2>12. \A t \in costs : byState'[t] # "FAILED"
    <3>1. \A t \in costs : t \in Trace /\ t # e.trace /\ byState[t] # "FAILED"
      <4>1. e.trace \notin Tallied /\ costs \subseteq Tallied
        BY <1>1, <2>2, <2>4 DEF Looking, Pending
      <4> QED
        BY <1>1, <2>4, <4>1 DEF Remembered, MonitorTypeOK
    <3> QED
      BY <2>2, <3>1
  <2>13. byState'[current'.trace] = "FAILED" => live'[current'.trace].state = "FAILED"
    BY <2>2, <2>4, <2>5
  <2>14. current'.trace = e.trace /\ costs' = costs /\ settled' = settled
         /\ request' = request /\ phase' = "price"
    BY <2>2, <2>4
  <2> HIDE DEF Tallied
  <2> QED
    BY <2>9, <2>11, <2>12, <2>13, <2>14 DEF Remembered
<1>6. CASE AddCost
  <2>1. /\ phase = "price" /\ phase' = "tally"
        /\ UNCHANGED <<request, listed, byState, settled>>
        /\ costs' = costs \union (IF HasCost(Deref(current)) THEN {current.trace} ELSE {})
        /\ Pending' = Pending /\ Tallied' = Tallied
    BY <1>6 DEF AddCost, Pending, Tallied
  <2>2. current.trace \in Trace /\ Deref(current) = live[current.trace]
    BY <1>1, <2>1 DEF MonitorTypeOK, Entry, Deref, Pointers
  <2>3. settled[current.trace] = "200" => HasCost(live[current.trace])
    BY <1>1, <2>2, AnsweredLive DEF Pointers
  <2>4. Costed(live[current.trace])
    BY <1>1, <2>2, CostedLive DEF ChatsInv
  <2>5. byState[current.trace] = "FAILED" => ~ HasCost(live[current.trace])
    BY <2>1, <2>4 DEF Remembered, Costed
  <2>6. \A t \in costs' : byState'[t] # "FAILED"
    BY <2>1, <2>2, <2>5 DEF Remembered
  <2>7. \A t \in Trace :
          t \in Tallied /\ settled[t] = "200" => byState[t] = "FINALIZED" /\ t \in costs'
    BY <2>1, <2>2, <2>3 DEF Remembered
  <2>8. \A t \in Trace :
          settled[t] # "none" /\ t \notin Tallied \union Pending =>
            /\ Cardinality(Tallied) + Len(listed) = request.limit
            /\ \A u \in Tallied \union Pending : Later(u, t)'
    BY <1>1, <2>1 DEF Remembered
  <2>9. \A t \in Trace :
          t \in Tallied /\ settled[t] \in {"404", "429", "502"} => byState[t] = "FAILED"
    BY <2>1 DEF Remembered
  <2> HIDE DEF Tallied
  <2> QED
    BY <2>1, <2>6, <2>7, <2>8, <2>9 DEF Remembered
<1>7. CASE Answer
  <2>1. /\ phase = "tally" /\ phase' = "answered"
        /\ UNCHANGED <<request, listed, byState, costs, settled, created>>
        /\ Pending' = Pending /\ Tallied' = Tallied
    BY <1>7 DEF Answer, Pending, Tallied
  <2> QED
    BY <1>1, <2>1 DEF Remembered
<1> QED
  BY <1>2, <1>3, <1>4, <1>5, <1>6, <1>7
     DEF MonitorNext, Chat, mvars, List, AskMetrics, AskList

LEMMA MemoryInvHolds ==
  ASSUME TraceBackend = "memory"
  PROVE  MonitorSpec => []MemoryInv
<1>1. MonitorInit => MemoryInv
  <2> SUFFICES ASSUME MonitorInit PROVE Pointers /\ Remembered
    BY StartMonitorInv DEF MemoryInv
  <2> QED
    BY DEF MonitorInit, Init, Pointers, Remembered, Sent, Found
<1>2. MemoryInv /\ [MonitorNext]_mvars => MemoryInv'
  <2> SUFFICES ASSUME MemoryInv, [MonitorNext]_mvars PROVE MemoryInv'
    OBVIOUS
  <2>1. MonitorInv'
    BY StepMonitorInv DEF MemoryInv
  <2>2. Pointers' /\ Remembered'
    BY StepPointers, StepRemembered DEF MemoryInv
  <2> QED
    BY <2>1, <2>2 DEF MemoryInv
<1> QED
  BY <1>1, <1>2, PTL DEF MonitorSpec

\* Whoever had its answer before the request came is tallied as its client knows
\* it, or a full list of later ones has left it out, on the memory store, whose
\* traces change while the monitor reads them.
THEOREM AnsweredIsTalliedHolds ==
  ASSUME TraceBackend = "memory"
  PROVE  MonitorSpec => []AnsweredIsTallied
<1>1. MemoryInv => AnsweredIsTallied
  <2> SUFFICES ASSUME MemoryInv, phase = "answered" PROVE AnsweredIsTallied
    BY DEF AnsweredIsTallied
  <2>1. listed = <<>> /\ IsFiniteSet(Tallied) /\ Remembered
    BY DEF MemoryInv, MonitorInv, Looking
  <2>2. /\ Pending = {} /\ Len(listed) = 0 /\ Cardinality(Tallied) \in Nat
    BY <2>1, FS_CardinalityType DEF Pending
  <2>3. Cardinality(Tallied) + Len(listed) = Cardinality(Tallied)
    BY <2>2
  <2> QED
    BY <2>1, <2>2, <2>3 DEF AnsweredIsTallied, Remembered
<1> QED
  BY <1>1, MemoryInvHolds, PTL

-----------------------------------------------------------------------------
(***************************************************************************)
(* What the copies of PostgreSQL add up to: a copy does not change while   *)
(* the monitor looks at it, and has its cost just when it is FINALIZED.    *)
(***************************************************************************)
Whole(r) == r \in Record /\ (HasCost(r) <=> r.state = "FINALIZED")

CopiesAddUp ==
  phase \in {"tally", "price", "answered"} =>
    /\ \A i \in DOMAIN listed : Whole(listed[i].copy)
    /\ phase = "price" =>
         Whole(current.copy) /\ byState[current.trace] = current.copy.state
    /\ \A t \in Tallied :
         \/ t \in costs <=> byState[t] = "FINALIZED"
         \/ phase = "price" /\ t = current.trace

CopiesInv == MonitorInv /\ (\A t \in Trace : Behind(t)) /\ CopiesAddUp

\* A copy that the store has is whole.
LEMMA StoredWhole ==
  ASSUME ChatsInv, TraceBackend # "memory", NEW t \in Found, Behind(t)
  PROVE  Whole(stored[t])
<1>1. /\ t \in Trace /\ stored[t] # NoTrace /\ stored[t] # Shared
      /\ IInv /\ Story /\ Priced(t)
  BY DEF Found, Behind, ChatsInv
<1>2. stored[t] \in Record
  BY <1>1 DEF IInv, TypeOK
<1>3. HasCost(stored[t]) => stored[t].state = "FINALIZED"
  BY <1>1 DEF Priced, Costed
<1>4. ASSUME stored[t].state = "FINALIZED" PROVE HasCost(stored[t])
  <2>1. Complete(stored[t])
    BY <1>1, <1>4, FinalCopy DEF FinalState
  <2>2. stored[t].error = "none" /\ stored[t].transitions # <<>>
    BY <1>4, <2>1 DEF Complete, ToldInFull
  <2> QED
    BY <2>2 DEF HasCost
<1> QED
  BY <1>2, <1>3, <1>4 DEF Whole

LEMMA StepCopies ==
  ASSUME CopiesInv, TraceBackend \notin {"memory", "sqlite"}, [MonitorNext]_mvars
  PROVE  CopiesAddUp'
<1>1. /\ ChatsInv /\ MonitorTypeOK /\ Ordered /\ Counted /\ Looking /\ CopiesAddUp
      /\ \A t \in Trace : Behind(t)
  BY DEF CopiesInv, MonitorInv
<1>2. CASE UNCHANGED monitor
  BY <1>1, <1>2 DEF CopiesAddUp, monitor, Tallied
<1>3. CASE phase' \notin {"tally", "price", "answered"}
  BY <1>3 DEF CopiesAddUp
<1>4. CASE List /\ phase' = "tally"
  <2>1. phase = "list" /\ listed' = ListRecent(request.limit) /\ byState' = byState
    BY <1>4 DEF List
  <2>2. \A i \in DOMAIN listed' :
          listed'[i].trace \in Found /\ listed'[i].copy = stored[listed'[i].trace]
    BY <1>1, <2>1, ListFacts DEF MonitorTypeOK, Lists
  <2>3. \A i \in DOMAIN listed' : Whole(listed'[i].copy)
    BY <1>1, <2>2, StoredWhole DEF Found
  <2>4. Tallied' = {}
    BY <1>1, <2>1 DEF Counted, Tallied
  <2> QED
    BY <1>4, <2>3, <2>4 DEF CopiesAddUp
<1>5. CASE Tally
  <2>1. PICK e, r : e = Head(listed) /\ r = Deref(e)
    OBVIOUS
  <2>2. /\ current' = e /\ e \in Entry /\ (e.copy # Shared => r = e.copy)
        /\ byState'[e.trace] = r.state
        /\ \A t \in Trace : t # e.trace => byState'[t] = byState[t]
        /\ Tallied' = Tallied \union {e.trace}
        /\ 1 \in DOMAIN listed /\ listed[1] = e
        /\ \A i \in DOMAIN listed' : i + 1 \in DOMAIN listed /\ listed'[i] = listed[i + 1]
    BY <1>1, <1>5, <2>1, TallyFacts
  <2>3. phase = "tally" /\ phase' = "price" /\ costs' = costs
    BY <1>5 DEF Tally
  <2>4. \A i \in DOMAIN listed : Whole(listed[i].copy)
    BY <1>1, <2>3 DEF CopiesAddUp
  <2>5. Whole(e.copy) /\ r = e.copy
    BY <2>2, <2>4, MarksAssumption DEF Whole
  <2>6. \A t \in Tallied : t \in Trace /\ (t \in costs <=> byState[t] = "FINALIZED")
    BY <1>1, <2>3 DEF CopiesAddUp, Tallied
  <2> QED
    BY <2>2, <2>3, <2>4, <2>5, <2>6 DEF CopiesAddUp
<1>6. CASE AddCost
  <2>1. /\ phase = "price" /\ phase' = "tally" /\ listed' = listed /\ byState' = byState
        /\ costs' = costs \union (IF HasCost(Deref(current)) THEN {current.trace} ELSE {})
        /\ Tallied' = Tallied
    BY <1>6 DEF AddCost, Tallied
  <2>2. /\ Whole(current.copy) /\ byState[current.trace] = current.copy.state
        /\ current.trace \notin costs
    BY <1>1, <2>1 DEF CopiesAddUp, Looking
  <2>3. Deref(current) = current.copy
    BY <2>2, MarksAssumption DEF Whole, Deref
  <2>4. current.trace \in costs' <=> byState[current.trace] = "FINALIZED"
    BY <2>1, <2>2, <2>3 DEF Whole
  <2>5. \A t \in Tallied : t # current.trace => (t \in costs' <=> byState[t] = "FINALIZED")
    BY <1>1, <2>1 DEF CopiesAddUp
  <2>6. \A i \in DOMAIN listed : Whole(listed[i].copy)
    BY <1>1, <2>1 DEF CopiesAddUp
  <2> HIDE DEF Tallied
  <2> QED
    BY <2>1, <2>4, <2>5, <2>6 DEF CopiesAddUp
<1>7. CASE Answer
  BY <1>1, <1>7 DEF Answer, CopiesAddUp, Tallied
<1> QED
  BY <1>2, <1>3, <1>4, <1>5, <1>6, <1>7
     DEF MonitorNext, Chat, mvars, List, AskMetrics, AskList

LEMMA CopiesInvHolds ==
  ASSUME TraceBackend \notin {"memory", "sqlite"}
  PROVE  MonitorSpec => []CopiesInv
<1>1. MonitorInit => CopiesInv
  <2> SUFFICES ASSUME MonitorInit PROVE CopiesAddUp /\ \A t \in Trace : Behind(t)
    BY StartMonitorInv DEF CopiesInv
  <2> QED
    BY MarksAssumption DEF MonitorInit, Init, CopiesAddUp, Behind
<1>2. CopiesInv /\ [MonitorNext]_mvars => CopiesInv'
  <2> SUFFICES ASSUME CopiesInv, [MonitorNext]_mvars PROVE CopiesInv'
    OBVIOUS
  <2>1. MonitorInv' /\ CopiesAddUp'
    BY StepMonitorInv, StepCopies DEF CopiesInv
  <2>2. \A t \in Trace : Behind(t)'
    BY MonitorStep, StepBehind DEF CopiesInv, MonitorInv, ChatsInv
  <2> QED
    BY <2>1, <2>2 DEF CopiesInv
<1> QED
  BY <1>1, <1>2, PTL DEF MonitorSpec

\* Enough is tallied, whatever the store.
LEMMA EnoughTallied ==
  ASSUME MonitorInv, phase = "answered", request.kind = "metrics", TraceBackend # "sqlite"
  PROVE  Cardinality(Tallied) >= IF total < MetricsLimit THEN total ELSE MetricsLimit
<1>1. /\ IsFiniteSet(Tallied) /\ listed = <<>>
      /\ Cardinality(Tallied) + Len(listed)
           >= IF total < MetricsLimit THEN total ELSE MetricsLimit
  BY DEF MonitorInv, Looking
<1>2. Cardinality(Tallied) \in Nat /\ Len(listed) = 0
  BY <1>1, FS_CardinalityType
<1>3. Cardinality(Tallied) + Len(listed) = Cardinality(Tallied)
  BY <1>2
<1> QED
  BY <1>1, <1>3

\* However the calls of the metrics, and the two reads of each trace, are spread
\* among the steps of the chats, the states reported account for every trace
\* counted that fits in the list, and a cost and a FINALIZED part only over a
\* chat at work in the memory of this process.  (SQLite lists no trace at all.)
THEOREM MetricsAddUpHolds ==
  ASSUME TraceBackend # "sqlite"
  PROVE  MonitorSpec => []MetricsAddUp
<1>1. CASE TraceBackend = "memory"
  <2>1. MemoryInv => MetricsAddUp
    <3> SUFFICES ASSUME MemoryInv, phase = "answered", request.kind = "metrics",
                        NEW t \in Tallied
                 PROVE  \/ t \in costs <=> byState[t] = "FINALIZED"
                        \/ settled[t] = "none" /\ byState[t] # "FAILED"
      BY <1>1, EnoughTallied DEF MetricsAddUp, MemoryInv
    <3>1. /\ t \in Trace /\ Remembered
          /\ settled[t] \in {"none", "200", "404", "429", "502"}
      BY DEF MemoryInv, MonitorInv, MonitorTypeOK, Tallied
    <3>2. /\ t \in costs => byState[t] # "FAILED"
          /\ settled[t] = "200" => byState[t] = "FINALIZED" /\ t \in costs
          /\ settled[t] \in {"404", "429", "502"} => byState[t] = "FAILED"
      BY <3>1 DEF Remembered
    <3> QED
      BY <3>1, <3>2
  <2>2. MonitorSpec => []MemoryInv
    BY <1>1, MemoryInvHolds
  <2> QED
    BY <2>1, <2>2, PTL
<1>2. CASE TraceBackend # "memory"
  <2>1. CopiesInv => MetricsAddUp
    <3> SUFFICES ASSUME CopiesInv, phase = "answered", request.kind = "metrics"
                 PROVE  \A t \in Tallied : t \in costs <=> byState[t] = "FINALIZED"
      BY EnoughTallied DEF MetricsAddUp, CopiesInv
    <3> QED
      BY DEF CopiesInv, CopiesAddUp
  <2>2. MonitorSpec => []CopiesInv
    BY <1>2, CopiesInvHolds
  <2> QED
    BY <2>1, <2>2, PTL
<1> QED
  BY <1>1, <1>2
=============================================================================

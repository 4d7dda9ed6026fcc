-------------------------------- MODULE Monitor --------------------------------
(***************************************************************************)
(* The monitor reads the trace store beside the chats.  Its requests are   *)
(* several calls long: the statistics count the traces, then list the most *)
(* recent ones, then look at these one by one, and what the memory store   *)
(* lists are pointers to traces that their handlers still change, between  *)
(* the reading of a trace's state and that of its cost as well.  A state   *)
(* is read in one piece.                                                   *)
(***************************************************************************)
EXTENDS ChatTrace, FiniteSets

CONSTANTS
  MetricsLimit,  \* traces handleMonitorMetrics asks for
  ListLimits     \* the limits a client of handleTracesList may give

ASSUME LimitAssumption == MetricsLimit \in Nat /\ ListLimits \subseteq Nat

VARIABLES
  created,   \* the traces in the order of their CreatedAt
  phase,     \* "idle", "list", "tally", "price", "answered" or "failed"
  request,   \* "metrics" or "list", and the limit of a list
  total,     \* what Count has returned
  listed,    \* what ListRecent has returned and is still to be looked at
  current,   \* the trace whose state has been read and whose cost has not
  byState,   \* the state each trace has been tallied in
  costs,     \* the traces whose cost is in total_cost
  settled    \* history: the answers this process had sent when the request came

monitor == <<phase, request, total, listed, current, byState, costs, settled>>
mvars == <<tvars, created, monitor>>

Untallied == "untallied"
Found == {t \in Trace : stored[t] # NoTrace}
Sent == [t \in Trace |-> IF t \in Found THEN answer[t] ELSE "none"]
NoRequest == [kind |-> "metrics", limit |-> MetricsLimit]

Entry == [trace : Trace, copy : Record \union {Shared}]

MonitorTypeOK ==
  /\ created \in Seq(Trace)
  /\ phase \in {"idle", "list", "tally", "price", "answered", "failed"}
  /\ request \in [kind : {"metrics", "list"}, limit : Nat]
  /\ request.kind = "metrics" => request.limit = MetricsLimit
  /\ total \in Nat
  /\ listed \in Seq(Entry)
  /\ current \in Entry \union {NoTrace} /\ (phase = "price" => current \in Entry)
  /\ byState \in [Trace -> State \union {NotStarted, Untallied}]
  /\ costs \in SUBSET Trace
  /\ settled \in [Trace -> {"none", "200", "404", "429", "502"}]

MonitorInit ==
  /\ Init
  /\ created = <<>>
  /\ phase = "idle" /\ request = NoRequest /\ total = 0
  /\ listed = <<>> /\ current = NoTrace
  /\ byState = [t \in Trace |-> Untallied] /\ costs = {}
  /\ settled = Sent

-----------------------------------------------------------------------------
(***************************************************************************)
(* Queries of the trace store.                                             *)
(***************************************************************************)
\* SQLite and PostgreSQL may fail.
QueryMayFail == TraceBackend # "memory" /\ "store" \in TraceFaults

Count == Cardinality(Found)

\* The traces found among the first n, the most recent first.
Recent[n \in 0 .. Len(created)] ==
  IF n = 0 THEN <<>>
  ELSE IF created[n] \in Found THEN <<created[n]>> \o Recent[n - 1]
  ELSE Recent[n - 1]

\* A row, or the pointer of the memory store, for each of some traces.
Entries(traces) ==
  [i \in DOMAIN traces |-> [trace |-> traces[i], copy |-> stored[traces[i]]]]

\* Mutant of ListRecent: the oldest ones.
ListOldest(limit) ==
  LET entries == Entries(SelectSeq(created, LAMBDA t : t \in Found))
  IN  IF Len(entries) > limit THEN SubSeq(entries, 1, limit) ELSE entries

\* Mutant of ListRecent: a full list loses its last entry.
ListShort(limit) ==
  LET entries == Entries(Recent[Len(created)])
  IN  IF Len(entries) >= limit THEN SubSeq(entries, 1, limit - 1) ELSE entries

\* SQLite closes the rows before it reads them, and its list is empty.
ListRecent(limit) ==
  LET entries == Entries(Recent[Len(created)])
  IN  IF TraceBackend = "sqlite" THEN <<>>
      ELSE IF Len(entries) > limit THEN SubSeq(entries, 1, limit) ELSE entries

-----------------------------------------------------------------------------
(***************************************************************************)
(* handleMonitorMetrics and handleTracesList, one request at a time.  (Of  *)
(* the others, handleMonitor is a Count and handleMonitorTraces a View.)   *)
(***************************************************************************)
Resting == phase \in {"idle", "answered", "failed"}

Begin(kind, limit) ==
  /\ Resting
  /\ request' = [kind |-> kind, limit |-> limit]
  /\ byState' = [t \in Trace |-> Untallied]
  /\ costs' = {} /\ listed' = <<>> /\ current' = NoTrace
  /\ settled' = Sent

\* The metrics count first; an error of the store leaves its zeros.
AskMetrics ==
  /\ Begin("metrics", MetricsLimit)
  /\ \/ total' = Count /\ phase' = "list"
     \/ QueryMayFail /\ total' = 0 /\ phase' = "failed"
  /\ UNCHANGED <<tvars, created>>

AskList ==
  /\ \E limit \in ListLimits : Begin("list", limit)
  /\ total' = 0 /\ phase' = "list"
  /\ UNCHANGED <<tvars, created>>

List ==
  /\ phase = "list"
  /\ \/ listed' = ListRecent(request.limit) /\ phase' = "tally"
     \/ QueryMayFail /\ phase' = "failed" /\ UNCHANGED listed
  /\ UNCHANGED <<tvars, created, request, total, current, byState, costs, settled>>

Deref(entry) == IF entry.copy = Shared THEN live[entry.trace] ELSE entry.copy

\* Observations with a cost are those of a call that was answered.
HasCost(record) == record.transitions # <<>> /\ record.error = "none"

\* The loop over the traces, or the encoder that writes them out, reads the
\* state of the next one ...
Tally ==
  /\ phase = "tally" /\ listed # <<>>
  /\ LET entry == Head(listed)
     IN  /\ current' = entry
         /\ byState' = [byState EXCEPT ![entry.trace] = Deref(entry).state]
  /\ phase' = "price" /\ listed' = Tail(listed)
  /\ UNCHANGED <<tvars, created, request, total, costs, settled>>

\* ... and then its observations.
AddCost ==
  /\ phase = "price"
  /\ costs' = costs \union (IF HasCost(Deref(current)) THEN {current.trace} ELSE {})
  /\ phase' = "tally" /\ current' = NoTrace
  /\ UNCHANGED <<tvars, created, request, total, listed, byState, settled>>

Answer ==
  /\ phase = "tally" /\ listed = <<>>
  /\ phase' = "answered"
  /\ UNCHANGED <<tvars, created, request, total, listed, current, byState, costs, settled>>

-----------------------------------------------------------------------------
\* The chats, and the end of the process, which takes the monitor with it.
Chat ==
  \/ \E t \in Trace :
       \/ Receive(t) /\ created' = Append(created, t) /\ UNCHANGED monitor
       \/ (Handle(t) \/ HangUp(t)) /\ UNCHANGED <<created, monitor>>
  \/ /\ Crash
     /\ phase' = "idle" /\ request' = NoRequest /\ total' = 0
     /\ listed' = <<>> /\ current' = NoTrace
     /\ byState' = [t \in Trace |-> Untallied] /\ costs' = {}
     /\ settled' = Sent'
     /\ UNCHANGED created

MonitorNext == Chat \/ AskMetrics \/ AskList \/ List \/ Tally \/ AddCost \/ Answer

MonitorSpec == MonitorInit /\ [][MonitorNext]_mvars

-----------------------------------------------------------------------------
(***************************************************************************)
(* Properties.                                                             *)
(***************************************************************************)
Tallied == {t \in Trace : byState[t] # Untallied}

\* The parts of the answer of handleMonitorMetrics come from different calls,
\* but they add up: as long as the list is not cut off, by_state accounts for
\* every trace that total counts, and a copy's cost is in total_cost just when
\* by_state has it as FINALIZED.  Of a pointer the state is read first: the
\* cost of a chat may be there without its FINALIZED, or the other way about,
\* but only of a chat that had no answer when the metrics were asked for, and
\* never of one tallied as FAILED.
MetricsAddUp ==
  phase = "answered" /\ request.kind = "metrics" =>
    /\ Cardinality(Tallied) >= IF total < MetricsLimit THEN total ELSE MetricsLimit
    /\ \A t \in Tallied :
         \/ t \in costs <=> byState[t] = "FINALIZED"
         \/ TraceBackend = "memory" /\ settled[t] = "none" /\ byState[t] # "FAILED"

Later(u, t) ==
  \E i, j \in DOMAIN created : i < j /\ created[i] = t /\ created[j] = u

\* A chat that had its answer before the metrics were asked for is tallied as
\* its client knows it, with its cost, whatever other chats are at work; and a
\* list leaves it out only if it is full of later ones.
AnsweredIsTallied ==
  phase = "answered" =>
    \A t \in Trace :
      /\ t \in Tallied /\ settled[t] = "200" => byState[t] = "FINALIZED" /\ t \in costs
      /\ t \in Tallied /\ settled[t] \in {"404", "429", "502"} => byState[t] = "FAILED"
      /\ settled[t] # "none" /\ t \notin Tallied =>
           /\ Cardinality(Tallied) = request.limit
           /\ \A u \in Tallied : Later(u, t)
=============================================================================

------------------------------ MODULE TraceState ------------------------------
(* The execution states of a trace (domain/trace.go).                       *)

NotStarted == ""
FinalState == {"FINALIZED", "FAILED"}
State == {"INIT", "CONSTRAINT_EVAL", "EXECUTING", "VALIDATION"} \union FinalState

\* Trace.CanTransitionTo.
CanTransition ==
  {<<"INIT", "CONSTRAINT_EVAL">>,
   <<"CONSTRAINT_EVAL", "EXECUTING">>, <<"CONSTRAINT_EVAL", "FAILED">>,
   <<"EXECUTING", "VALIDATION">>, <<"EXECUTING", "FAILED">>,
   <<"VALIDATION", "FINALIZED">>, <<"VALIDATION", "FAILED">>}
=============================================================================

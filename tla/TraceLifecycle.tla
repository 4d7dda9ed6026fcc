---------------------------- MODULE TraceLifecycle ----------------------------
(***************************************************************************)
(* The life of a trace as Trace.CanTransitionTo draws it.  The handlers    *)
(* never call that method; the specification below is what their steps     *)
(* should amount to.                                                       *)
(***************************************************************************)
EXTENDS TraceState

CONSTANT Trace

VARIABLE state

Unborn == state = [t \in Trace |-> NotStarted]

Move(t) ==
  \E s \in State :
    /\ \/ state[t] = NotStarted /\ s = "INIT"
       \/ <<state[t], s>> \in CanTransition
    /\ state' = [state EXCEPT ![t] = s]

LifecycleSpec == Unborn /\ [][\E t \in Trace : Move(t)]_state
=============================================================================

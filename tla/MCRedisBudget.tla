---------------------------- MODULE MCRedisBudget ----------------------------
(* On Redis the chats have accounts of their own and share nothing with the *)
(* streams of a session: a behaviour is one of the chats or of the streams. *)
EXTENDS MCStreamBudget

VARIABLE part

PartsInit ==
  /\ part \in {"chats", "streams"}
  /\ StreamInit
  /\ part = "chats" => strategy = [s \in Stream |-> "hard_stop"]

\* No chat arrives among the streams.
PartsNext ==
  /\ \/ ChatStep /\ (part = "streams" => UNCHANGED request)
     \/ part = "streams" /\ \E s \in Stream : StreamStep(s)
  /\ UNCHANGED part

PartsSpec == PartsInit /\ [][PartsNext]_<<part, svars>>
=============================================================================

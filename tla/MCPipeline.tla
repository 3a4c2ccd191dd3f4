----------------------------- MODULE MCPipeline -----------------------------
(***************************************************************************)
(* TLC instance of Pipeline: a ring of two samples that laps a client two  *)
(* samples behind, pulls of at most two samples, two lives of the agent.   *)
(***************************************************************************)
EXTENDS Pipeline

MCCapacities == {2}

\* ReplyMax is three: two samples fit, and two with a trigger do not.
MCClients ==
  {[is |-> "forward", via |-> "direct"], [is |-> "forward", via |-> "relay"],
   [is |-> "record", via |-> "direct"]}
=============================================================================

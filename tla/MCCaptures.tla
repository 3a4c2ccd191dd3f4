----------------------------- MODULE MCCaptures -----------------------------
(***************************************************************************)
(* TLC instance of Captures: a window of three samples in a ring of        *)
(* three, two conditions that stay quiet longer than a window lasts, a     *)
(* budget of at most two windows, two markers kept.                        *)
(***************************************************************************)
EXTENDS Captures

MCConditions == <<"oom", "reset">>
MCPolicies == {"first", "last"}
MCLineBytes == [s \in 1 .. MaxSeq |-> 1 + (s % 2)]
MCCallers == {"operator"}
=============================================================================

---------------------------- MODULE MCSinkQueue ----------------------------
(***************************************************************************)
(* TLC instance of SinkQueue: events of one or two bytes, a budget of      *)
(* three bytes, so that the third batch already overflows it, and a        *)
(* backoff of two seconds under a ceiling of five.                         *)
(***************************************************************************)
EXTENDS SinkQueue

MCDisciplines == {"own", "shared", "elastic", "stdout"}
MCSizes == {1, 2}
=============================================================================

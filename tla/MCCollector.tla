----------------------------- MODULE MCCollector -----------------------------
(* What a reboot can do to the router's wall clock. *)
EXTENDS Collector

\* A clock that was kept, and one that came back in the past.
KeptOrLost == {2, -2}
Lost == {-2}
Always == {TRUE}
=============================================================================

------------------------------ MODULE MCApiTier ------------------------------
(* A router that reboots once, a redial every second tick. *)
EXTENDS ApiTier
=============================================================================

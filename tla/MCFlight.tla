------------------------------ MODULE MCFlight ------------------------------
(* Flight for TLC. *)
EXTENDS Flight
=============================================================================

------------------------------ MODULE MCHealth -------------------------------
(***************************************************************************)
(* A ring of two events and up to four errors: it fills and wraps around   *)
(* twice, and the monitor may miss errors or not.                          *)
(***************************************************************************)
EXTENDS Health
=============================================================================

------------------------------ MODULE MCSetup -------------------------------
(***************************************************************************)
(* Two overlapping runs of the administration command, with failures.      *)
(***************************************************************************)
EXTENDS Setup
=============================================================================

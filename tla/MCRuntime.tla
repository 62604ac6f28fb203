----------------------------- MODULE MCRuntime ------------------------------
(***************************************************************************)
(* Two calls and two probes, with the deadlines of the code in seconds.    *)
(***************************************************************************)
EXTENDS Runtime
=============================================================================

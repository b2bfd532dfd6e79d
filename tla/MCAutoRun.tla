------------------------------- MODULE MCAutoRun -------------------------------
(***************************************************************************)
(* AutoRun for TLC, without symmetry: a liveness property is checked.      *)
(***************************************************************************)
EXTENDS AutoRun
=============================================================================

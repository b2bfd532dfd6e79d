---------------------------- MODULE MCSolvePipeline ----------------------------
(***************************************************************************)
(* SolvePipeline for TLC, without symmetry: a liveness property is checked. *)
(***************************************************************************)
EXTENDS SolvePipeline
=============================================================================

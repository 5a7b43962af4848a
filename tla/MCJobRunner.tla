---------------------------- MODULE MCJobRunner ----------------------------
(* Instances of JobRunner for TLC. *)
EXTENDS JobRunner
=============================================================================

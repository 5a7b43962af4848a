---------------------------- MODULE MCFileDriver ----------------------------
(* One apply at a time, two applies in a behaviour.                         *)
EXTENDS FileDriver

CONSTANT s1
=============================================================================

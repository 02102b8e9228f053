---------------------------- MODULE MCStartDual ----------------------------
(***************************************************************************)
(* Instances of StartDual for TLC.                                         *)
(***************************************************************************)
EXTENDS StartDual

=============================================================================

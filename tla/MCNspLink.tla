----------------------------- MODULE MCNspLink ------------------------------
(***************************************************************************)
(* Instances of NspLink for TLC.                                           *)
(***************************************************************************)
EXTENDS NspLink

CONSTANTS c, s1, s2

=============================================================================

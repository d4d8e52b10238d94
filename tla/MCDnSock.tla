------------------------------ MODULE MCDnSock ------------------------------
(***************************************************************************)
(* Instances of DnSock for TLC.                                            *)
(***************************************************************************)
EXTENDS DnSock, TLC

CONSTANTS s1, s2, s3, o1

Hashes == (o1 :> 1)

Symmetric == Permutations(Sk)

=============================================================================

----------------------------- MODULE MCNspWrap ------------------------------
(***************************************************************************)
(* Instances of NspWrap for TLC.                                           *)
(***************************************************************************)
EXTENDS NspWrap, TLC

CONSTANTS a, b

Sends(da, oa, db, ob) ==
  (a :> [c \in Chan |-> IF c = "dat" THEN da ELSE oa]) @@
  (b :> [c \in Chan |-> IF c = "dat" THEN db ELSE ob])

ResumeSends == Sends(3, 1, 0, 0)

\* More than half the number space of segments one way, one the other way.
StaleSends == Sends(4, 0, 1, 0)
=============================================================================

----------------------------- MODULE MCNspData ------------------------------
(***************************************************************************)
(* An instance of NspData for TLC: one end sends data, which fills the     *)
(* receive buffer of the other; both send interrupts and link services.    *)
(***************************************************************************)
EXTENDS NspData, TLC

CONSTANTS a, b

DataLimit == (a :> [c \in Chan |-> IF c = "dat" THEN 0 ELSE 2]) @@
             (b :> [c \in Chan |-> IF c = "dat" THEN 2 ELSE 1])

=============================================================================

----------------------------- MODULE MCRouting -----------------------------
(***************************************************************************)
(* Instances of Routing.                                                   *)
(***************************************************************************)
EXTENDS Routing, TLC

-----------------------------------------------------------------------------
(* An end node: two routers with different hello times *)

CONSTANTS r1, r2, near, far, s1, s2

Times == (r1 :> 3) @@ (r2 :> 1)

-----------------------------------------------------------------------------
(* A router with two Ethernets *)

CONSTANTS d1, d2, us, alias, leaf, b, own, area, hand

Areas == r1 :> own @@ r2 :> own @@ leaf :> own @@ b :> area
Levels == r1 :> 2 @@ r2 :> 1 @@ leaf :> 0 @@ b :> 2
Priorities == r1 :> 64 @@ r2 :> 100 @@ leaf :> 0 @@ b :> 64
Costs == d1 :> 1 @@ d2 :> 2 @@ Nil :> 4

Lan(heard, says, addresses, flaps) ==
  [heard |-> heard, says |-> says, addrs |-> addresses, flaps |-> flaps]

AllLans ==
  {Lan({<<r1, d1>>, <<r2, d2>>, <<leaf, d1>>}, {<<r1, leaf, 2>>, <<r2, leaf, 1>>}, {}, FALSE),
   Lan({<<r1, d1>>, <<b, d1>>}, {<<b, area, 1>>, <<r1, area, 1>>, <<r1, hand, 1>>}, {}, FALSE),
   Lan({<<b, d1>>, <<b, d2>>}, {<<b, area, 1>>}, {}, TRUE),
   Lan({<<leaf, d1>>, <<leaf, d2>>}, {}, {alias}, TRUE)}
=============================================================================

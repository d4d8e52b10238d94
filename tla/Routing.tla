------------------------------ MODULE Routing ------------------------------
(***************************************************************************)
(* The two kinds of node as far as routes go: an end node, built without   *)
(* CONFIG_DECNET_ROUTER, with its route cache (DnRoute), and a router, on  *)
(* which the daemon sets the forwarding table (Dnroute).  Each scene is a  *)
(* node of one kind; nothing happens on the other.                         *)
(***************************************************************************)
EXTENDS DnRoute, Dnroute

VARIABLE scene

RoutingInit ==
  \/ scene = "end node" /\ Init /\ DnrouteIdle
  \/ scene = "router" /\ DnrouteInit /\ Init /\ up = {}

RoutingNext ==
  /\ UNCHANGED scene
  /\ \/ scene = "end node" /\ Next /\ UNCHANGED dnrouteVars
     \/ scene = "router" /\ DnrouteNext /\ UNCHANGED vars

\* On an end node the listen timer starts itself again, and handlers come to
\* their end.
EndNode == scene = "end node"
RoutingSpec == /\ RoutingInit /\ [][RoutingNext]_<<scene, vars, dnrouteVars>>
               /\ WF_vars(EndNode /\ TimerStart /\ RouterStep)
               /\ WF_vars(EndNode /\ TimerEnd /\ RouterStep)
               /\ WF_vars(EndNode /\ HelloEnd /\ RouterStep)
=============================================================================

------------------------------ MODULE Dnroute ------------------------------
(***************************************************************************)
(* The router daemon dnroute on top of the forwarding table of the kernel. *)
(*                                                                         *)
(* The daemon is one process: it reads one routing message, or scans the   *)
(* neighbour table, at a time.  A scan is many steps, between which        *)
(* devices and neighbours come and go: the kernel's answer to the dump     *)
(* (dump), the entries one by one, and the nodes that were not among them. *)
(* A routing message is one step for each of its entries.                  *)
(***************************************************************************)
EXTENDS DnFib

CONSTANTS Own,       \* the area of this node
          Level,     \* of each node in its router hellos, 0 of an end node
          Priority,  \* of each router in its hellos
          Cost,      \* of each device, and of Nil (interface 0)
          Manual,    \* areas left to manual control
          Lans       \* bound: which nodes can be heard on which devices, the
                     \* entries of routing messages, which addresses come and
                     \* go and whether devices do

ASSUME OwnAssumption == Own \in Area
ASSUME DnrouteAssumption ==
  /\ Level \in [Node -> 0 .. 2] /\ Priority \in [Node -> Nat] /\ Cost \in [Dev \cup {Nil} -> Nat]
  /\ \A l \in Lans : /\ l.heard \subseteq Node \X Dev /\ l.addrs \subseteq Address
                     /\ l.says \subseteq Node \X (Node \cup Area) \X Nat

VARIABLES lan,     \* one of Lans
          hash,    \* node_hash
          table,   \* node_table and area_table
          phase,   \* get_neighbours
          dump,    \* RTM_GETNEIGH entries still to be read
          flushed  \* history: devices whose routes the kernel has flushed

dnrouteVars == <<fibVars, lan, hash, table, phase, dump, flushed>>
tables == <<hash, table>>

\* Destinations: nodes of the area and other areas
Dest == {n \in Node : AreaOf[n] = Own} \cup (Area \ {Own})

NodeInfo == [dev : Dev \cup {Nil}, level : 0 .. 2, prio : Nat,
             scanned : BOOLEAN, deleted : BOOLEAN]
RouteInfo == [router : Node, cost : Nat, prio : Nat, valid : BOOLEAN]

\* The head of a list of routes: the one in use, if its router is not Nil
Head0 == [router |-> Nil, cost |-> 0, valid |-> FALSE, next |-> <<>>]

\* In node_hash and not deleted
Here(n) == hash[n] # Nil /\ ~hash[n].deleted

-----------------------------------------------------------------------------
(* Lists of routes *)

Better(r, q) == r.cost < q.cost \/ (r.cost = q.cost /\ r.prio > q.prio)

\* the last of those equally good, and of those no longer valid too
BadCheapest(list) ==
  LET ok == DOMAIN list
      best == {i \in ok : \A j \in ok : ~Better(list[j], list[i])}
  IN  IF best = {} THEN Nil ELSE list[CHOOSE i \in best : \A j \in best : i >= j]

\* The choice of set_lowest_cost_route: of the cheapest those of the highest
\* priority, and of these the one known first
Cheapest(list) ==
  LET ok == {i \in DOMAIN list : list[i].valid}
      best == {i \in ok : \A j \in ok : ~Better(list[j], list[i])}
  IN  IF best = {} THEN Nil ELSE list[CHOOSE i \in best : \A j \in best : i <= j]

\* add_via_route and del_via_route in table t
AddVia(t, addr, router) == IF addr \in Manual THEN t ELSE TableInsert(t, addr, router, Nil)
DelVia(t, addr, router) ==
  IF addr \in Manual THEN t ELSE TableDelete(t, addr, "universe", router, Nil)

\* set_lowest_cost_route of dest, for the kernel of addr
SetLowest(t, dest, head, addr) ==
  LET best == Cheapest(head.next)
  IN  /\ table' = [table EXCEPT ![dest] =
            IF best = Nil THEN [head EXCEPT !.valid = FALSE]
            ELSE [head EXCEPT !.router = best.router, !.cost = best.cost, !.valid = TRUE]]
      /\ main' = IF best = Nil THEN DelVia(t, addr, head.router)
                 ELSE IF best.router # head.router THEN AddVia(t, addr, best.router)
                 ELSE t

\* add_routeinfo
WithRoute(head, cost, from) ==
  LET at == {i \in DOMAIN head.next : head.next[i].router = from}
      old == IF at = {} THEN 0 ELSE head.next[CHOOSE i \in at : TRUE].prio
      r == [router |-> from, cost |-> cost, valid |-> TRUE,
            prio |-> IF hash[from] = Nil THEN old ELSE hash[from].prio]
  IN  [head EXCEPT !.next = IF at = {} THEN Append(@, r)
                            ELSE [i \in DOMAIN @ |-> IF i \in at THEN r ELSE @[i]]]

AddRouteInfo(t, dest, cost, from) ==
  SetLowest(t, dest, WithRoute(table[dest], cost, from), dest)

\* invalidate_route: the kernel's route is changed for the node that has gone,
\* not for the area.
Invalidate(t, dest, node) ==
  SetLowest(t, dest,
            [table[dest] EXCEPT !.next = [i \in DOMAIN @ |->
               IF @[i].router = node THEN [@[i] EXCEPT !.valid = FALSE] ELSE @[i]]],
            node)

-----------------------------------------------------------------------------
(* get_neighbours *)

Entries == {e \in Node \X Dev : e[2] \in neighbours[e[1]]}

StartScan ==
  /\ phase = "idle"
  /\ phase' = "dump" /\ dump' = Entries
  /\ UNCHANGED <<fibVars, lan, tables, flushed>>

\* does not look at deleted
BadIsNew(n, d) == hash[n] = Nil \/ hash[n].dev # d

\* Not known, on another interface, or back again
IsNew(n, d) == hash[n] = Nil \/ hash[n].dev # d \/ hash[n].deleted

\* A node of this area is here: what a router said of it is forgotten.
Local(t, n, d) ==
  LET behind == table[n].router # Nil
  IN  /\ main' = IF behind THEN DelVia(t, n, table[n].router) ELSE t
      /\ table' = [table EXCEPT ![n] =
           [@ EXCEPT !.router = Nil, !.valid = TRUE,
                     !.cost = IF table[n].valid /\ ~behind THEN table[n].cost ELSE Cost[d]]]

\* got_neigh.  Of several entries of a node the first counts.
GotNeigh(n, d) ==
  /\ phase = "dump" /\ <<n, d>> \in dump
  /\ dump' = dump \ {<<n, d>>}
  /\ LET info == IF hash[n] = Nil THEN [level |-> 0, prio |-> 0] ELSE hash[n]
         t == TableInsert(main, n, Nil, d)
     IN  IF hash[n] # Nil /\ hash[n].scanned THEN UNCHANGED <<main, tables>>
         ELSE /\ hash' = [hash EXCEPT ![n] =
                   [dev |-> d, level |-> info.level, prio |-> info.prio,
                    scanned |-> TRUE, deleted |-> FALSE]]
              /\ IF ~IsNew(n, d) THEN UNCHANGED <<main, table>>
                 ELSE IF AreaOf[n] = Own THEN Local(t, n, d)
                 ELSE IF info.level = 2 THEN AddRouteInfo(t, AreaOf[n], Cost[d], n)
                 ELSE main' = t /\ UNCHANGED table
  /\ UNCHANGED <<ifup, addrs, neighbours, local, lan, phase, flushed>>

EndDump == /\ phase = "dump" /\ dump = {}
           /\ phase' = "sweep"
           /\ UNCHANGED <<fibVars, lan, tables, dump, flushed>>

Unscanned(n) == hash[n] # Nil /\ ~hash[n].scanned /\ ~hash[n].deleted

\* A node that is no longer in the neighbour table
Sweep(n) ==
  /\ phase = "sweep" /\ Unscanned(n)
  /\ hash' = [hash EXCEPT ![n] = [@ EXCEPT !.deleted = TRUE]]
  /\ LET t == TableDelete(main, n, "link", Nil, hash[n].dev)
     IN  IF hash[n].level = 2 /\ AreaOf[n] # Own /\ table[AreaOf[n]].valid
         THEN Invalidate(t, AreaOf[n], n)
         ELSE main' = t /\ UNCHANGED table
  /\ UNCHANGED <<ifup, addrs, neighbours, local, lan, phase, dump, flushed>>

EndSweep ==
  /\ phase = "sweep" /\ ~\E n \in Node : Unscanned(n)
  /\ phase' = "idle"
  /\ hash' = [n \in Node |-> IF hash[n] = Nil THEN Nil ELSE [hash[n] EXCEPT !.scanned = FALSE]]
  /\ UNCHANGED <<fibVars, lan, table, dump, flushed>>

-----------------------------------------------------------------------------
(* Routing messages, from routers heard on the device *)

Heard(r, d) == phase = "idle" /\ <<r, d>> \in lan.heard
Offers(r, d, x, c) == Heard(r, d) /\ <<r, x, c>> \in lan.says

\* An entry of process_level1_message.  What it says of nodes that are
\* neighbours is not used.
Level1(r, d, n, c) ==
  /\ Offers(r, d, n, c) /\ Level[r] > 0 /\ AreaOf[r] = Own /\ AreaOf[n] = Own
  /\ ~Here(n)
  /\ hash' = [hash EXCEPT ![n] = IF @ = Nil THEN Nil ELSE [@ EXCEPT !.dev = Nil]]
  /\ AddRouteInfo(main, n, c + Cost[d], r)
  /\ UNCHANGED <<ifup, addrs, neighbours, local, lan, phase, dump, flushed>>

\* add_routing_neighbour
Learned(info, level, prio) == [info EXCEPT !.level = level, !.prio = prio]

\* An entry of process_level2_message
Level2(r, d, a, c) ==
  /\ Offers(r, d, a, c) /\ Level[r] = 2 /\ a # Own /\ hash[r] # Nil
  /\ hash' = [hash EXCEPT ![r] = Learned(@, 2, IF @.prio = 0 THEN 64 ELSE @.prio)]
  /\ LET head == [WithRoute(table[a], c + Cost[hash[r].dev], r) EXCEPT !.next =
                    [i \in DOMAIN @ |-> IF @[i].router = r
                                        THEN [@[i] EXCEPT !.prio = hash'[r].prio] ELSE @[i]]]
     IN  SetLowest(main, a, head, a)
  /\ UNCHANGED <<ifup, addrs, neighbours, local, lan, phase, dump, flushed>>

\* The router hello in process_routing_message
RouterHello(r, d) ==
  /\ Heard(r, d) /\ Level[r] > 0 /\ hash[r] # Nil
  /\ hash' = [hash EXCEPT ![r] = Learned(@, Level[r], Priority[r])]
  /\ UNCHANGED <<fibVars, lan, table, phase, dump, flushed>>

-----------------------------------------------------------------------------
(* The kernel, meanwhile *)

Kernel ==
  /\ \/ \E n \in Node, d \in Dev : <<n, d>> \in lan.heard /\ Appear(n, d)
     \/ \E n \in Node, d \in Dev : Vanish(n, d)
     \/ \E d \in Dev, a \in lan.addrs : NewAddr(d, a)
     \/ \E d \in Dev, a \in lan.addrs : DelAddr(d, a)
     \/ lan.flaps /\ \E d \in Dev : DevDown(d)
     \/ \E d \in Dev, a \in Address : DevUp(d, a)
  /\ flushed' = flushed \cup {d \in Dev : addrs[d] # {} /\ addrs'[d] = {}}
  /\ UNCHANGED <<lan, hash, table, phase, dump>>

DnrouteInit ==
  /\ FibInit
  /\ lan \in Lans
  /\ \A n \in Node : neighbours[n] \subseteq {d \in Dev : <<n, d>> \in lan.heard}
  /\ hash = [n \in Node |-> Nil]
  /\ table = [x \in Dest |-> Head0]
  /\ phase = "dump" /\ dump = Entries
  /\ flushed = {}

\* No daemon runs, and there is no device.
DnrouteIdle ==
  /\ ifup = {} /\ addrs = [d \in Dev |-> {}] /\ neighbours = [n \in Node |-> {}]
  /\ local = [a \in Address |-> {}] /\ main = [k \in Prefix |-> Nil]
  /\ lan = [heard |-> {}, says |-> {}, addrs |-> {}, flaps |-> FALSE]
  /\ hash = [n \in Node |-> Nil] /\ table = [x \in Dest |-> Head0]
  /\ phase = "off" /\ dump = {} /\ flushed = {}

DnrouteNext ==
  \/ StartScan \/ EndDump \/ EndSweep \/ Kernel
  \/ \E n \in Node : \/ Sweep(n)
                     \/ \E d \in Dev : GotNeigh(n, d) \/ RouterHello(n, d)
  \/ \E said \in lan.says, d \in Dev :
       \/ said[2] \in Node /\ Level1(said[1], d, said[2], said[3])
       \/ said[2] \in Area /\ Level2(said[1], d, said[2], said[3])

-----------------------------------------------------------------------------
(* Properties *)

DnrouteTypeOK ==
  /\ FibTypeOK
  /\ hash \in [Node -> NodeInfo \cup {Nil}]
  /\ \A x \in Dest : /\ table[x].router \in Node \cup {Nil}
                     /\ \A i \in DOMAIN table[x].next : table[x].next[i] \in RouteInfo

\* get_neighbours: a node known as a neighbour is reached directly, on the
\* device it was last found on, whatever routers say of it, were said to be
\* the way to it before, or lose; unless the kernel has flushed the routes of
\* the device, which the daemon does not notice.
DirectRoute ==
  \A n \in Node :
    Here(n) /\ hash[n].dev \notin flushed =>
      /\ Lookup(n) = [scope |-> "link", gw |-> Nil, dev |-> hash[n].dev]
      /\ n \in Dest => table[n].router = Nil

\* set_lowest_cost_route: the route in use to a node or area is one that its
\* router still offers, and none of those is better.
BestChosen ==
  \A x \in Dest : table[x].valid /\ table[x].router # Nil =>
    \E i \in DOMAIN table[x].next :
      LET r == table[x].next[i]
      IN  /\ r.valid /\ r.router = table[x].router /\ r.cost = table[x].cost
          /\ \A j \in DOMAIN table[x].next : table[x].next[j].valid => ~Better(table[x].next[j], r)
=============================================================================

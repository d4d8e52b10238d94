------------------------------- MODULE DnFib -------------------------------
(***************************************************************************)
(* The forwarding table of a node built with CONFIG_DECNET_ROUTER, and the *)
(* devices, addresses and neighbour entries it depends on (dn_fib.c,       *)
(* dn_table.c, dn_rules.c, dn_dev.c).                                      *)
(*                                                                         *)
(* All changes are made under the RTNL lock.  A route has one next hop and *)
(* priority 0, as those of dnroute and of the kernel have; a zombie entry, *)
(* which no lookup, insertion or deletion tells from none, is none.        *)
(* Routes whose device has gone are flushed in the step that marks them.   *)
(***************************************************************************)
EXTENDS Integers, Sequences, FiniteSets

CONSTANTS Dev,        \* Ethernet devices
          Address,    \* addresses this node may have
          Node,       \* other nodes, with the address as key of 16 bits
          Area,       \* areas, with the address as key of 6 bits
          AreaOf,     \* the area of each node
          Nil         \* no gateway, no device, no route

\* Keys of the two lengths are never the same.
ASSUME AreaAssumption == AreaOf \in [Node -> Area] /\ Node \cap Area = {}

VARIABLES ifup,        \* devices that are up (IFF_UP)
          addrs,       \* the addresses of each device (ifa_list)
          neighbours,  \* the devices each node has a neighbour entry on
          local,       \* the devices of the routes to each address in RT_TABLE_LOCAL
          main         \* the route to each node and area in RT_TABLE_MAIN

fibVars == <<ifup, addrs, neighbours, local, main>>

Prefix == Node \cup Area
FibRoute == [scope : {"link", "universe"}, gw : Node \cup {Nil}, dev : Dev]
ASSUME NilAssumption == Nil \notin Dev \cup Node \cup Area \cup FibRoute

\* A device has a dn_dev while it has addresses.
Attached(d) == addrs[d] # {}

-----------------------------------------------------------------------------
(* Routes set by netlink requests *)

\* dn_fib_check_nh in table t: the device is there, or the gateway is reached
\* by a route of scope link.
CheckNh(t, gw, dev) ==
  IF gw = Nil THEN dev \in ifup /\ Attached(dev)
  ELSE t[gw] # Nil /\ t[gw].scope = "link" /\ t[gw].dev \in ifup

\* dn_fib_table_insert with NLM_F_CREATE and NLM_F_REPLACE
TableInsert(t, key, gw, dev) ==
  IF ~CheckNh(t, gw, dev) THEN t
  ELSE [t EXCEPT ![key] =
          IF gw = Nil THEN [scope |-> "link", gw |-> Nil, dev |-> dev]
          ELSE [scope |-> "universe", gw |-> gw, dev |-> t[gw].dev]]

\* dn_fib_nh_match: a gateway that is given must be another one.
NhMatch(r, gw, dev) ==
  (gw # Nil \/ dev # Nil) =>
    (dev = Nil \/ dev = r.dev) /\ (gw = Nil \/ gw # r.gw)

\* dn_fib_table_delete
TableDelete(t, key, scope, gw, dev) ==
  IF t[key] # Nil /\ t[key].scope = scope /\ NhMatch(t[key], gw, dev)
  THEN [t EXCEPT ![key] = Nil] ELSE t

\* dn_fib_table_lookup by the longest prefix, for any scope
Lookup(n) == IF main[n] # Nil THEN main[n] ELSE main[AreaOf[n]]

-----------------------------------------------------------------------------
(* Devices and addresses *)

FibInit == /\ ifup = Dev
           /\ \E a \in Address : addrs = [d \in Dev |-> {a}] /\
                local = [b \in Address |-> IF b = a THEN Dev ELSE {}]
           /\ neighbours \in [Node -> SUBSET Dev]
           /\ main = [k \in Prefix |-> Nil]

\* dn_fib_sync_down and dn_fib_flush
Flushed(d) == [k \in Prefix |-> IF main[k] # Nil /\ main[k].dev = d THEN Nil ELSE main[k]]

\* dn_dev_insert_ifa and the NETDEV_UP of dn_fib_dnaddr_event
NewAddr(d, a) ==
  /\ a \notin addrs[d]
  /\ addrs' = [addrs EXCEPT ![d] = @ \cup {a}]
  /\ local' = [local EXCEPT ![a] = @ \cup {d}]
  /\ UNCHANGED <<ifup, neighbours, main>>

\* forgets that another device may have the address
BadDelIfaddr(d, gone, rest) ==
  [a \in Address |-> IF a \in gone THEN {} ELSE local[a]]

\* dn_fib_del_ifaddr for each address that goes: its route stays while another
\* device has the address.
DelIfaddr(d, gone, rest) ==
  [a \in Address |->
     IF a \in gone /\ \A e \in Dev : a \notin rest[e] THEN local[a] \ {d} ELSE local[a]]

\* dn_dev_del_ifa, the NETDEV_DOWN of dn_fib_dnaddr_event and, with the last
\* address, dn_fib_disable_addr and dn_dev_delete
Remove(d, gone) ==
  LET rest == [addrs EXCEPT ![d] = @ \ gone]
      loc == DelIfaddr(d, gone, rest)
      last == rest[d] = {} /\ gone # {}
  IN  /\ addrs' = rest
      /\ local' = IF last THEN [a \in Address |-> loc[a] \ {d}] ELSE loc
      /\ main' = IF last THEN Flushed(d) ELSE main
      /\ neighbours' = IF last THEN [n \in Node |-> neighbours[n] \ {d}] ELSE neighbours

\* dn_nl_deladdr
DelAddr(d, a) == a \in addrs[d] /\ Remove(d, {a}) /\ UNCHANGED ifup

\* dn_dev_down
DevDown(d) == d \in ifup /\ ifup' = ifup \ {d} /\ Remove(d, addrs[d])

\* dn_dev_up, with the address in the MAC address of the device
DevUp(d, a) == /\ d \notin ifup /\ ifup' = ifup \cup {d}
               /\ addrs' = [addrs EXCEPT ![d] = @ \cup {a}]
               /\ local' = IF a \in addrs[d] THEN local ELSE [local EXCEPT ![a] = @ \cup {d}]
               /\ UNCHANGED <<neighbours, main>>

\* A packet or a hello of the node arrives, or is sent to it, and it gets a
\* neighbour entry (dn_neigh_construct); or the entry is collected.
Appear(n, d) == /\ d \in ifup /\ Attached(d) /\ d \notin neighbours[n]
                /\ neighbours' = [neighbours EXCEPT ![n] = @ \cup {d}]
                /\ UNCHANGED <<ifup, addrs, local, main>>
Vanish(n, d) == /\ d \in neighbours[n]
                /\ neighbours' = [neighbours EXCEPT ![n] = @ \ {d}]
                /\ UNCHANGED <<ifup, addrs, local, main>>

-----------------------------------------------------------------------------
(* Properties *)

FibTypeOK == /\ ifup \subseteq Dev /\ addrs \in [Dev -> SUBSET Address]
             /\ neighbours \in [Node -> SUBSET Dev] /\ local \in [Address -> SUBSET Dev]
             /\ main \in [Prefix -> FibRoute \cup {Nil}]

\* dn_fib_del_ifaddr: an address of any device is known as one of this node
\* (dnet_addr_type), whichever device it was added to and removed from first.
AddressLocal == \A d \in Dev : \A a \in addrs[d] : local[a] # {}
=============================================================================

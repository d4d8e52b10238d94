------------------------------ MODULE DnRoute -------------------------------
(***************************************************************************)
(* The route cache of an end node and the sockets that use it, while its   *)
(* designated router comes and goes (DnRouter).  Built without             *)
(* CONFIG_DECNET_ROUTER, so no forwarding table is looked at and nothing   *)
(* flushes the cache while the module is loaded.                           *)
(*                                                                         *)
(* A connect looks the cache up, finds a next hop and inserts the route in *)
(* three steps, between which packets arrive, the timer runs and other     *)
(* connects go on.  A packet that arrives is one step.  A cached route is  *)
(* named by its key, which one entry has at most: a socket holds the key.  *)
(* A lookup and the hold it takes are one step, as are the checks of the   *)
(* reference count in dn_dst_check_expire and the removal.                 *)
(***************************************************************************)
EXTENDS DnRouter

CONSTANTS Near,   \* other nodes on this Ethernet
          Far,    \* nodes behind the routers
          Sock

Peer == Near \cup Far
Key == {"in", "out"} \X Peer
\* fresh: rt_created is after dn_rtrchange
Route == [gateway: Router \cup Peer, fresh: BOOLEAN]

ASSUME NodeAssumption == /\ Near \cap Far = {}
                         /\ Router \cap (Near \cup Far) = {}
                         /\ None \notin Near \cup Far \cup Key \cup Route

VARIABLES neigh,  \* addresses with an entry in the neighbour table, which
                  \* stays below gc_thresh1 and drops none
          cache,  \* the route of each key, or None
          later,  \* a jiffy has passed since dn_rtrchange
          sock

routeVars == <<neigh, cache, later, sock>>
vars == <<routerVars, routeVars>>

\* heard is history: the socket has taken the route of a packet it received.
Socket == [pc: {"idle", "resolve", "insert", "ci", "run"},
           peer: Peer \cup {None}, gateway: Router \cup Peer \cup {None},
           route: Key \cup {None}, heard: BOOLEAN]

Idle == [pc |-> "idle", peer |-> None, gateway |-> None, route |-> None,
         heard |-> FALSE]

Init == /\ RouterInit
        /\ neigh = {}
        /\ cache = [k \in Key |-> None]
        /\ later = TRUE
        /\ sock = [s \in Sock |-> Idle]

Put(s, x) == sock' = [sock EXCEPT ![s] = x]
Held(k) == \E s \in Sock : sock[s].route = k
Gateway(s) == cache[sock[s].route].gateway

-----------------------------------------------------------------------------

\* What a step of DnRouter means here: a new router sets dn_rtrchange and makes
\* a neighbour entry, losing one does neither.
RouterStep ==
  LET new == router' \notin {router, None}
  IN  /\ RouterNext
      /\ neigh' = IF new THEN neigh \cup {router'} ELSE neigh
      /\ later' = IF new THEN FALSE ELSE later
      /\ cache' = [k \in Key |-> IF new /\ cache[k] # None
                                 THEN [cache[k] EXCEPT !.fresh = FALSE]
                                 ELSE cache[k]]
      /\ UNCHANGED sock

Jiffy == ~later /\ later' = TRUE /\ UNCHANGED <<routerVars, neigh, cache, sock>>

\* dn_insert_route: an entry with the same key is returned in the place of rt,
\* which is forgotten.
Insert(k, rt) == IF cache[k] = None THEN [cache EXCEPT ![k] = rt] ELSE cache

Hit(k) == cache[k] # None /\ cache[k].fresh

Connect(s, n) ==
  /\ sock[s].pc = "idle"
  /\ LET x == [Idle EXCEPT !.peer = n]
         k == <<"out", n>>
     IN  Put(s, IF Hit(k) THEN [x EXCEPT !.pc = "ci", !.route = k]
                          ELSE [x EXCEPT !.pc = "resolve"])
  /\ UNCHANGED <<routerVars, neigh, cache, later>>

\* The next hop: a neighbour, the designated router, or hope.
NextHop(n) == IF n \in neigh \/ router = None THEN n ELSE router

Resolve(s) ==
  /\ sock[s].pc = "resolve"
  /\ Put(s, [sock[s] EXCEPT !.pc = "insert",
                               !.gateway = NextHop(sock[s].peer)])
  /\ UNCHANGED <<routerVars, neigh, cache, later>>

InsertOut(s) ==
  LET k == <<"out", sock[s].peer>>
      hop == sock[s].gateway
  IN  /\ sock[s].pc = "insert"
      /\ neigh' = neigh \cup {hop}
      /\ cache' = Insert(k, [gateway |-> hop, fresh |-> later])
      /\ Put(s, [sock[s] EXCEPT !.pc = "ci", !.route = k, !.gateway = None])
      /\ UNCHANGED <<routerVars, later>>

-----------------------------------------------------------------------------

\* A mistake: the intra-Ethernet bit is not looked at.
BadReturnHop(n) == IF router = None THEN n ELSE router

\* The way back to n, the source of a packet: itself when the packet is
\* intra-Ethernet, else the designated router.
ReturnHop(n) == IF n \in Near \/ router = None THEN n ELSE router

\* dn_route_input finds or makes the route of a packet from n.
Input(n) ==
  LET k == <<"in", n>>
  IN  /\ cache' = Insert(k, [gateway |-> ReturnHop(n), fresh |-> later])
      /\ neigh' = neigh \cup {cache'[k].gateway}
      /\ UNCHANGED <<routerVars, later>>

\* A next hop that takes our packets to n.
Reaches(hop, n) == IF n \in Near THEN hop = n \/ hop \in up
                                 ELSE hop \in up

\* A packet from the peer opens the link.  Only in RUN is its route taken.
Open(s) ==
  /\ sock[s].pc = "ci" /\ Reaches(Gateway(s), sock[s].peer)
  /\ Input(sock[s].peer)
  /\ Put(s, [sock[s] EXCEPT !.pc = "run"])

Receive(s) ==
  /\ sock[s].pc = "run"
  /\ Input(sock[s].peer)
  /\ Put(s, [sock[s] EXCEPT !.route = <<"in", sock[s].peer>>, !.heard = TRUE])

\* A connect initiate from n is accepted: the socket gets the packet's route.
Accept(s, n) ==
  /\ sock[s].pc = "idle"
  /\ Input(n)
  /\ Put(s, [Idle EXCEPT !.pc = "run", !.peer = n, !.route = <<"in", n>>,
                         !.heard = TRUE])

\* The link, or the attempt, ends and the socket is destroyed.
Close(s) == /\ sock[s].pc \in {"ci", "run"}
            /\ Put(s, Idle)
            /\ UNCHANGED <<routerVars, neigh, cache, later>>

\* Two minutes without use.
Expire(k) == /\ cache[k] # None /\ ~Held(k)
             /\ cache' = [cache EXCEPT ![k] = None]
             /\ UNCHANGED <<routerVars, neigh, later, sock>>

Next == \/ RouterStep
        \/ Jiffy
        \/ \E s \in Sock, n \in Peer : Connect(s, n) \/ Accept(s, n)
        \/ \E s \in Sock : Resolve(s) \/ InsertOut(s) \/ Open(s)
                           \/ Receive(s) \/ Close(s)
        \/ \E k \in Key : Expire(k)

Spec == Init /\ [][Next]_vars

-----------------------------------------------------------------------------

TypeOK == /\ RouterTypeOK
          /\ neigh \subseteq Router \cup Peer
          /\ cache \in [Key -> Route \cup {None}]
          /\ later \in BOOLEAN
          /\ sock \in [Sock -> Socket]

(* Once a link has received a packet in RUN, or was accepted, it talks to  *)
(* a node on the same Ethernet directly, whatever route its connect got    *)
(* and whichever router there is: README.Raspbian, 06/23/2020              *)
(* (dn_nsp_rx_packet, dn_route_input_slow).                                *)
IntraEthernet ==
  \A s \in Sock : sock[s].heard /\ sock[s].peer \in Near =>
                    cache[sock[s].route] # None /\ Gateway(s) = sock[s].peer

=============================================================================

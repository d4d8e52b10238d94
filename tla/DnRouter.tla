------------------------------ MODULE DnRouter ------------------------------
(***************************************************************************)
(* How an end node on one Ethernet knows its designated router: the hellos *)
(* it hears, and the listen timer that gives a silent router up.           *)
(*                                                                         *)
(* The hello handler and the timer share no lock and may run on two        *)
(* processors at once, so each is two steps: it reads and exchanges        *)
(* dn_db->router, then it writes listen and t4.  Hellos of two routers are *)
(* handled one after the other, as one receive queue does.  Routers of     *)
(* other areas are ignored by the code and do not occur here, nor do       *)
(* neighbour entries that an administrator made permanent.                 *)
(***************************************************************************)
EXTENDS Naturals

CONSTANTS Router,     \* the routers of our area on this Ethernet
          None,
          Listen,     \* Listen[r], seconds: the hello time that r announces,
                      \* times dn_db->multiplier
          OwnListen   \* the same with our own hello time, parms.t3

Hello == [from: Router, changed: BOOLEAN, ticked: BOOLEAN]
Timer == [lost: BOOLEAN, t4: Nat]

ASSUME RouterAssumption == /\ None \notin Router
                           /\ None \notin Hello /\ None \notin Timer
                           /\ Listen \in [Router -> Nat \ {0}]
                           /\ OwnListen \in Nat \ {0}

VARIABLES up,         \* the routers that work
          router,     \* dn_db->router
          listen,     \* dn_db->listen
          t4,         \* dn_db->t4, seconds
          hello,      \* a hello between its two steps, or None; ticked says
                      \* that a second has begun meanwhile
          timer4,     \* the timer between its two steps, or None
          silent      \* history: seconds begun since router was heard

routerVars == <<up, router, listen, t4, hello, timer4, silent>>

RouterInit == /\ up \in SUBSET Router
              /\ router = None
              /\ listen = 0
              /\ t4 = OwnListen
              /\ hello = None
              /\ timer4 = None
              /\ silent = 0

-----------------------------------------------------------------------------

\* Routers fail and return.
Turn(r) == /\ up' = IF r \in up THEN up \ {r} ELSE up \cup {r}
           /\ UNCHANGED <<router, listen, t4, hello, timer4, silent>>

\* A mistake: a hello of another router renews the time of the one we have.
BadHelloStart(r) ==
  /\ r \in up /\ hello = None
  /\ router' = IF router = None THEN r ELSE router
  /\ hello' = [from |-> r, changed |-> router # router', ticked |-> FALSE]
  /\ silent' = IF router' = r THEN 0 ELSE silent
  /\ UNCHANGED <<up, listen, t4, timer4>>

\* A hello of r arrives.  A router that is not the one we have replaces it.
HelloStart(r) ==
  /\ r \in up /\ hello = None
  /\ router' = r
  /\ hello' = [from |-> r, changed |-> router # r, ticked |-> FALSE]
  /\ silent' = 0
  /\ UNCHANGED <<up, listen, t4, timer4>>

\* The listening time is taken only from a router that is new.
HelloEnd ==
  /\ hello # None
  /\ listen' = IF hello.changed THEN Listen[hello.from] ELSE listen
  /\ t4' = listen'
  /\ hello' = None
  /\ UNCHANGED <<up, router, timer4, silent>>

\* A mistake: the time is renewed and the router kept.
BadTimerStart ==
  /\ timer4 = None
  /\ hello # None => ~hello.ticked
  /\ timer4' = [lost |-> t4 <= 1, t4 |-> IF t4 <= 1 THEN OwnListen ELSE t4 - 1]
  /\ silent' = IF router = None \/ silent > OwnListen THEN silent ELSE silent + 1
  /\ hello' = IF hello = None THEN None ELSE [hello EXCEPT !.ticked = TRUE]
  /\ UNCHANGED <<up, router, listen, t4>>

\* Once a second.  A handler takes less than that.
TimerStart ==
  /\ timer4 = None
  /\ hello # None => ~hello.ticked
  /\ timer4' = [lost |-> t4 <= 1, t4 |-> IF t4 <= 1 THEN OwnListen ELSE t4 - 1]
  /\ router' = IF t4 <= 1 THEN None ELSE router
  /\ silent' = IF router' = None THEN 0 ELSE silent + 1
  /\ hello' = IF hello = None THEN None ELSE [hello EXCEPT !.ticked = TRUE]
  /\ UNCHANGED <<up, listen, t4>>

TimerEnd ==
  /\ timer4 # None
  /\ listen' = IF timer4.lost THEN OwnListen ELSE listen
  /\ t4' = timer4.t4
  /\ timer4' = None
  /\ UNCHANGED <<up, router, hello, silent>>

RouterNext == \/ \E r \in Router : Turn(r) \/ HelloStart(r)
              \/ HelloEnd
              \/ TimerStart
              \/ TimerEnd

-----------------------------------------------------------------------------

RouterTypeOK == /\ up \subseteq Router
                /\ router \in Router \cup {None}
                /\ listen \in Nat /\ t4 \in Nat /\ silent \in Nat
                /\ hello \in Hello \cup {None}
                /\ timer4 \in Timer \cup {None}

\* Some router here, or this node, announces a listening time of n or more.
Within(n) == n <= OwnListen \/ \E r \in Router : n <= Listen[r]

(* The designated router was heard within the longest listening time that  *)
(* any router here or this node announces.  Not within its own: when a     *)
(* hello falls between the two steps of the timer, dn_dev_timer4_func      *)
(* writes what was left of the time of the router before                   *)
(* (dn_neigh_router_hello, dn_dev_timer4_func).                            *)
RouterHeard == router # None => Within(silent)

(* A router that has failed for good is given up: either another has       *)
(* replaced it, or the listen timer removes it (dn_dev_timer4_func).       *)
FailedRouterDropped ==
  \A r \in Router : <>[](r \notin up) => <>[](router # r)

=============================================================================

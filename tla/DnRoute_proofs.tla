--------------------------- MODULE DnRoute_proofs ---------------------------
(***************************************************************************)
(* What holds on an end node and on a router for every set of routers,     *)
(* nodes and sockets: the designated router is never older than the        *)
(* longest listening time; the route cache and the sockets that hold its   *)
(* entries stay well formed, and an established link talks to a node on    *)
(* the same Ethernet directly.  The daemon of a router keeps the direct    *)
(* routes to the neighbours it knows and the best of the others, and the   *)
(* kernel the addresses of the node.                                       *)
(***************************************************************************)
EXTENDS Routing, WellFoundedInduction, TLAPS

(* The designated router.  What the router has been silent for and what is *)
(* left of its time stay within the bound together.  Between the two steps *)
(* of a handler the time left is in two places, t4 and the value the       *)
(* handler is about to write, and either may be left over from another     *)
(* router.                                                                 *)

\* Whatever may become the time left is within the bound and not zero.
Bounded == /\ t4 > 0 /\ Within(t4) /\ Within(listen)
           /\ timer4 # None => timer4.t4 > 0 /\ Within(timer4.t4)
           /\ router # None /\ (hello = None \/ ~hello.changed) => listen > 0
           /\ hello # None /\ ~hello.changed => listen > 0

\* A handler under way has seen one second begin at most.
Brief == hello # None => silent <= IF hello.ticked THEN 1 ELSE 0

\* The silence and the time left, one second of a handler apart.
Left == router # None =>
          /\ timer4 # None => Within(silent + timer4.t4 - 1)
          /\ timer4 = None /\ hello = None => Within(silent + t4 - 1)

IInv == RouterTypeOK /\ Bounded /\ Brief /\ Left

-----------------------------------------------------------------------------

\* A bound holds of everything below it, and of one second.
LEMMA WithinDown ==
  ASSUME NEW n \in Nat, NEW m \in Int, m <= n, Within(n)
  PROVE  Within(m)
<1>1. \A r \in Router : Listen[r] \in Nat
  BY RouterAssumption
<1>. QED
  BY <1>1, RouterAssumption DEF Within

LEMMA WithinOne == Within(1)
BY RouterAssumption DEF Within

LEMMA WithinListen ==
  /\ Within(OwnListen) /\ Within(0)
  /\ \A r \in Router : Within(Listen[r]) /\ Listen[r] \in Nat /\ Listen[r] > 0
BY RouterAssumption DEF Within

LEMMA InvInit == Init => IInv
BY WithinListen, RouterAssumption
   DEF Init, RouterInit, IInv, RouterTypeOK, Bounded, Brief, Left

-----------------------------------------------------------------------------

\* Each step keeps the invariant.

LEMMA TurnInv ==
  ASSUME IInv, NEW r \in Router, Turn(r)
  PROVE  IInv'
BY DEF Turn, IInv, RouterTypeOK, Bounded, Brief, Left, Within

LEMMA HelloStartInv ==
  ASSUME IInv, NEW r \in Router, HelloStart(r)
  PROVE  IInv'
<1>. USE DEF HelloStart
<1>0. /\ hello' \in Hello /\ hello' # None /\ r # None
      /\ hello'.changed <=> router # r
  <2>1. hello' \in Hello
    BY DEF Hello
  <2>2. hello'.changed = (router # r)
    BY Zenon
  <2>. QED
    BY <2>1, <2>2, RouterAssumption
<1>1. RouterTypeOK'
  BY DEF IInv, RouterTypeOK, Hello
<1>2. Bounded'
  BY <1>0 DEF IInv, Bounded, Within
<1>3. Brief'
  BY DEF Brief
<1>4. Left'
  <2>1. CASE timer4 = None
    BY <1>0, <2>1 DEF Left
  <2>2. CASE timer4 # None
    <3>1. timer4.t4 \in Nat /\ Within(timer4.t4)
      BY <2>2 DEF IInv, RouterTypeOK, Timer, Bounded
    <3>2. Within(timer4.t4 - 1)
      BY <3>1, WithinDown
    <3>3. silent' + timer4'.t4 - 1 = timer4.t4 - 1
      BY <3>1
    <3>. QED
      BY <1>0, <3>2, <3>3, <2>2 DEF Left, Within
  <2>. QED
    BY <2>1, <2>2
<1>. QED
  BY <1>1, <1>2, <1>3, <1>4 DEF IInv

LEMMA HelloEndInv ==
  ASSUME IInv, HelloEnd
  PROVE  IInv'
<1>. USE DEF HelloEnd
<1>1. hello \in Hello /\ silent \in Nat /\ silent <= 1
  BY DEF IInv, RouterTypeOK, Brief
<1>2. listen' \in Nat /\ listen' > 0 /\ Within(listen') /\ t4' = listen'
  BY <1>1, WithinListen DEF IInv, RouterTypeOK, Bounded, Hello
<1>3. RouterTypeOK'
  BY <1>2 DEF IInv, RouterTypeOK
<1>4. Bounded'
  BY <1>2 DEF IInv, Bounded, Within
<1>5. Brief'
  BY DEF Brief
<1>6. Left'
  <2>1. Within(silent + t4' - 1)
    BY <1>1, <1>2, WithinDown
  <2>. QED
    BY <2>1 DEF IInv, Left, Within
<1>. QED
  BY <1>3, <1>4, <1>5, <1>6 DEF IInv

LEMMA TimerStartInv ==
  ASSUME IInv, TimerStart
  PROVE  IInv'
<1>. USE DEF TimerStart
<1>1. /\ t4 \in Nat /\ t4 > 0 /\ Within(t4) /\ silent \in Nat
      /\ hello \in Hello \cup {None}
  BY DEF IInv, RouterTypeOK, Bounded
<1>2. /\ timer4' \in Timer /\ timer4'.t4 > 0 /\ Within(timer4'.t4)
      /\ timer4'.t4 = IF t4 <= 1 THEN OwnListen ELSE t4 - 1
  <2>1. CASE t4 <= 1
    BY <2>1, WithinListen, RouterAssumption DEF Timer
  <2>2. CASE ~(t4 <= 1)
    <3>1. t4 - 1 \in Nat /\ t4 - 1 > 0
      BY <1>1, <2>2
    <3>2. Within(t4 - 1)
      BY <1>1, <3>1, WithinDown
    <3>. QED
      BY <2>2, <3>1, <3>2 DEF Timer
  <2>. QED
    BY <2>1, <2>2
<1>3. /\ hello' \in Hello \cup {None} /\ (hello' = None <=> hello = None)
      /\ hello # None => hello'.changed = hello.changed /\ hello'.ticked
  BY <1>1, RouterAssumption DEF Hello
<1>4. router' \in {router, None} /\ (router' # None => ~(t4 <= 1))
  OBVIOUS
<1>5. RouterTypeOK'
  BY <1>1, <1>2, <1>3, <1>4 DEF IInv, RouterTypeOK
<1>6. Bounded'
  BY <1>1, <1>2, <1>3, <1>4 DEF IInv, Bounded, Within
<1>7. Brief'
  BY <1>1, <1>3 DEF IInv, Brief
<1>8. Left'
  <2>. SUFFICES ASSUME router' # None
                PROVE  Within(silent' + timer4'.t4 - 1)
    BY <1>2, RouterAssumption DEF Left, Within
  <2>1. silent' = silent + 1 /\ timer4'.t4 = t4 - 1 /\ router # None
    BY <1>2, <1>4
  <2>2. CASE hello = None
    <3>1. Within(silent + t4 - 1)
      BY <2>1, <2>2 DEF IInv, Left
    <3>2. silent' + timer4'.t4 - 1 = silent + t4 - 1
      BY <1>1, <2>1
    <3>. QED
      BY <3>1, <3>2
  <2>3. CASE hello # None
    <3>1. silent = 0
      BY <1>1, <2>3 DEF IInv, Brief
    <3>2. silent' + timer4'.t4 - 1 <= t4 /\ silent' + timer4'.t4 - 1 \in Int
      BY <1>1, <2>1, <3>1
    <3>. QED
      BY <1>1, <3>2, WithinDown
  <2>. QED
    BY <2>2, <2>3
<1>. QED
  BY <1>5, <1>6, <1>7, <1>8 DEF IInv

LEMMA TimerEndInv ==
  ASSUME IInv, TimerEnd
  PROVE  IInv'
<1>. USE DEF TimerEnd
<1>1. timer4 \in Timer /\ timer4.t4 > 0 /\ Within(timer4.t4)
  BY DEF IInv, RouterTypeOK, Bounded
<1>2. RouterTypeOK'
  BY <1>1, RouterAssumption DEF IInv, RouterTypeOK, Timer
<1>3. Bounded'
  BY <1>1, WithinListen, RouterAssumption DEF IInv, Bounded, Within
<1>4. Brief'
  BY DEF IInv, Brief
<1>5. Left'
  BY DEF IInv, Left, Within
<1>. QED
  BY <1>2, <1>3, <1>4, <1>5 DEF IInv

LEMMA InvNext == IInv /\ [Next]_vars => IInv'
<1>. SUFFICES ASSUME IInv, [Next]_vars
              PROVE  IInv'
  OBVIOUS
<1>1. CASE RouterStep
  BY <1>1, TurnInv, HelloStartInv, HelloEndInv, TimerStartInv, TimerEndInv
     DEF RouterStep, RouterNext
<1>2. CASE UNCHANGED routerVars
  BY <1>2 DEF routerVars, IInv, RouterTypeOK, Bounded, Brief, Left, Within
<1>3. RouterStep \/ UNCHANGED routerVars
  BY DEF Next, vars, Jiffy, Connect, Accept, Resolve, InsertOut, Open, Receive,
         Close, Expire, Input
<1>. QED
  BY <1>1, <1>2, <1>3

LEMMA InvHeard == IInv => RouterHeard
<1>. SUFFICES ASSUME IInv, router # None
              PROVE  Within(silent)
  BY DEF RouterHeard
<1>. USE DEF IInv
<1>1. silent \in Nat /\ t4 \in Nat /\ t4 > 0
  BY DEF RouterTypeOK, Bounded
<1>2. CASE timer4 # None
  <2>1. timer4.t4 \in Nat /\ timer4.t4 > 0 /\ Within(silent + timer4.t4 - 1)
    BY <1>2 DEF RouterTypeOK, Timer, Bounded, Left
  <2>2. silent + timer4.t4 - 1 \in Nat /\ silent <= silent + timer4.t4 - 1
    BY <1>1, <2>1
  <2>. QED
    BY <1>1, <2>1, <2>2, WithinDown
<1>3. CASE timer4 = None /\ hello = None
  <2>1. silent + t4 - 1 \in Nat /\ silent <= silent + t4 - 1
    BY <1>1
  <2>. QED
    BY <1>1, <1>3, <2>1, WithinDown DEF Left
<1>4. CASE hello # None
  BY <1>1, <1>4, WithinOne, WithinDown DEF Brief
<1>. QED
  BY <1>2, <1>3, <1>4

(* Whatever times the routers announce, and however hellos, timer, packets *)
(* and connects interleave, the designated router was heard within the     *)
(* longest of those times (dn_neigh_router_hello, dn_dev_timer4_func).     *)
THEOREM RouterIsRecent == Spec => []RouterHeard
BY InvInit, InvNext, InvHeard, PTL DEF Spec

-----------------------------------------------------------------------------
(* The route cache.  The entry of a packet from a near node has that node  *)
(* as its next hop, because an intra-Ethernet packet never looks at the    *)
(* router; an entry is not changed once it is made, but for its age; and   *)
(* the entry a socket holds is not removed.                                *)

CacheOK == cache \in [Key -> Route \cup {None}]

\* Whose packets have come from the same Ethernet.
NearOK == \A n \in Near : cache[<<"in", n>>] # None => cache[<<"in", n>>].gateway = n

\* A socket holds an entry that exists; one that has heard its peer, the entry
\* of its peer's packets.
Holds(c, x) == /\ x.pc \in {"ci", "run"} => x.route # None
               /\ x.route # None => c[x.route] # None
               /\ x.heard => /\ x.pc = "run" /\ x.peer \in Peer
                             /\ x.route = <<"in", x.peer>>
               /\ x.pc # "idle" => x.peer \in Peer
               /\ x.pc = "insert" => x.gateway \in Router \cup Peer

SockOK == sock \in [Sock -> Socket] /\ \A s \in Sock : Holds(cache, sock[s])

Routes == /\ neigh \subseteq Router \cup Peer /\ later \in BOOLEAN
          /\ CacheOK /\ NearOK /\ SockOK

RInv == IInv /\ Routes

-----------------------------------------------------------------------------

LEMMA Keys ==
  /\ \A n \in Peer : <<"in", n>> \in Key /\ <<"out", n>> \in Key
  /\ \A n, m \in Peer : /\ <<"in", n>> # <<"out", m>>
                        /\ <<"in", n>> = <<"in", m>> => n = m
  /\ None \notin Key /\ None \notin Route /\ None \notin Peer
BY NodeAssumption DEF Key, Peer

LEMMA RouteType ==
  ASSUME NEW hop \in Router \cup Peer, NEW b \in BOOLEAN
  PROVE  /\ [gateway |-> hop, fresh |-> b] \in Route
         /\ [gateway |-> hop, fresh |-> b].gateway = hop
BY DEF Route

\* An insertion changes no entry that is there.
LEMMA InsertKeeps ==
  ASSUME CacheOK, NEW k \in Key, NEW rt \in Route, cache' = Insert(k, rt)
  PROVE  /\ CacheOK'
         /\ \A j \in Key : cache[j] # None => cache'[j] = cache[j]
         /\ \A j \in Key : j # k => cache'[j] = cache[j]
         /\ cache[k] = None => cache'[k] = rt
         /\ cache'[k] \in Route
BY Keys DEF CacheOK, Insert

\* A socket is replaced by one that holds an entry.
LEMMA PutKeeps ==
  ASSUME SockOK, NEW s \in Sock, NEW x \in Socket, Put(s, x), Holds(cache', x),
         \A j \in Key : cache[j] # None => cache'[j] # None
  PROVE  SockOK'
<1>1. sock' \in [Sock -> Socket]
  BY DEF SockOK, Put
<1>2. ASSUME NEW q \in Sock
      PROVE  Holds(cache', sock'[q])
  <2>1. CASE q = s
    BY <2>1 DEF SockOK, Put
  <2>2. CASE q # s
    BY <2>2, Keys DEF SockOK, Put, Holds, Socket
  <2>. QED
    BY <2>1, <2>2
<1>. QED
  BY <1>1, <1>2 DEF SockOK

\* A packet from n leaves an entry for it, by n itself if n is near.
LEMMA InputKeeps ==
  ASSUME CacheOK, NearOK, neigh \subseteq Router \cup Peer, later \in BOOLEAN,
         router \in Router \cup {None}, NEW n \in Peer, Input(n)
  PROVE  /\ CacheOK' /\ NearOK' /\ neigh' \subseteq Router \cup Peer
         /\ \A j \in Key : cache[j] # None => cache'[j] # None
         /\ cache'[<<"in", n>>] # None
<1>. DEFINE k == <<"in", n>>
            rt == [gateway |-> ReturnHop(n), fresh |-> later]
<1>1. k \in Key
  BY Keys
<1>2. ReturnHop(n) \in Router \cup Peer /\ (n \in Near => ReturnHop(n) = n)
  BY DEF ReturnHop
<1>3. rt \in Route /\ rt.gateway = ReturnHop(n)
  BY <1>2, RouteType
<1>4. cache' = Insert(k, rt) /\ neigh' = neigh \cup {cache'[k].gateway}
  BY DEF Input
<1>. HIDE DEF k, rt
<1>5. /\ CacheOK'
      /\ \A j \in Key : cache[j] # None => cache'[j] = cache[j]
      /\ \A j \in Key : j # k => cache'[j] = cache[j]
      /\ cache[k] = None => cache'[k] = rt
      /\ cache'[k] \in Route
  BY <1>1, <1>3, <1>4, InsertKeeps
<1>6. neigh' \subseteq Router \cup Peer
  BY <1>4, <1>5 DEF Route
<1>7. NearOK'
  <2>. SUFFICES ASSUME NEW m \in Near, cache'[<<"in", m>>] # None
                PROVE  cache'[<<"in", m>>].gateway = m
    BY DEF NearOK
  <2>0. m \in Peer /\ <<"in", m>> \in Key
    BY Keys DEF Peer
  <2>1. CASE cache[<<"in", m>>] # None
    BY <1>5, <2>0, <2>1 DEF NearOK
  <2>2. CASE cache[<<"in", m>>] = None /\ m = n
    BY <1>2, <1>3, <1>5, <2>2 DEF k
  <2>3. CASE cache[<<"in", m>>] = None /\ m # n
    <3>1. <<"in", m>> # k
      BY <2>0, <2>3, Keys DEF k
    <3>. QED
      BY <1>5, <2>0, <2>3, <3>1
  <2>. QED
    BY <2>1, <2>2, <2>3
<1>. QED
  BY <1>5, <1>6, <1>7, <1>1, Keys DEF k

\* When cache and sockets are left alone.
LEMMA Unchanged == Routes /\ UNCHANGED routeVars => Routes'
BY DEF Routes, routeVars, CacheOK, NearOK, SockOK, Holds

LEMMA RInvInit == Init => RInv
<1>. SUFFICES ASSUME Init
              PROVE  RInv
  OBVIOUS
<1>1. IInv
  BY InvInit
<1>2. CacheOK /\ NearOK /\ neigh \subseteq Router \cup Peer /\ later \in BOOLEAN
  BY Keys DEF Init, CacheOK, NearOK, Peer
<1>3. Idle \in Socket
  BY DEF Idle, Socket
<1>4. SockOK
  BY <1>3 DEF Init, SockOK, Holds, Idle
<1>. QED
  BY <1>1, <1>2, <1>4 DEF RInv, Routes

-----------------------------------------------------------------------------

\* Each step keeps Routes.

LEMMA RouterStepInv ==
  ASSUME RInv, RouterStep, router' \in Router \cup {None}
  PROVE  Routes'
<1>. DEFINE new == router' \notin {router, None}
<1>1. /\ neigh' = IF new THEN neigh \cup {router'} ELSE neigh
      /\ later' = IF new THEN FALSE ELSE later
      /\ cache' = [k \in Key |-> IF new /\ cache[k] # None
                                 THEN [cache[k] EXCEPT !.fresh = FALSE]
                                 ELSE cache[k]]
      /\ sock' = sock
  BY DEF RouterStep
<1>. HIDE DEF new
<1>2. ASSUME NEW k \in Key
      PROVE  /\ cache'[k] \in Route \cup {None}
             /\ cache[k] # None <=> cache'[k] # None
             /\ cache[k] # None => cache'[k].gateway = cache[k].gateway
  <2>1. cache[k] \in Route \cup {None}
    BY DEF RInv, Routes, CacheOK
  <2>2. CASE new /\ cache[k] # None
    <3>1. cache'[k] = [cache[k] EXCEPT !.fresh = FALSE]
      BY <1>1, <2>2
    <3>2. cache[k] \in Route
      BY <2>1, <2>2
    <3>3. cache'[k] \in Route /\ cache'[k].gateway = cache[k].gateway
      BY <3>1, <3>2 DEF Route
    <3>. QED
      BY <2>2, <3>3, Keys
  <2>3. CASE ~(new /\ cache[k] # None)
    BY <1>1, <2>1, <2>3
  <2>. QED
    BY <2>2, <2>3
<1>3. CacheOK'
  BY <1>1, <1>2 DEF CacheOK
<1>4. NearOK'
  <2>1. \A n \in Near : <<"in", n>> \in Key
    BY Keys DEF Peer
  <2>. QED
    BY <1>2, <2>1 DEF RInv, Routes, NearOK
<1>5. SockOK'
  <2>1. sock' \in [Sock -> Socket]
    BY <1>1 DEF RInv, Routes, SockOK
  <2>2. ASSUME NEW s \in Sock
        PROVE  Holds(cache', sock'[s])
    <3>1. sock[s] \in Socket /\ Holds(cache, sock[s])
      BY DEF RInv, Routes, SockOK
    <3>2. sock[s].route \in Key \cup {None}
      BY <3>1 DEF Socket
    <3>. QED
      BY <1>1, <3>1, <3>2, <1>2 DEF Holds
  <2>. QED
    BY <2>1, <2>2 DEF SockOK
<1>6. neigh' \subseteq Router \cup Peer /\ later' \in BOOLEAN
  BY <1>1 DEF RInv, Routes, new
<1>. QED
  BY <1>3, <1>4, <1>5, <1>6 DEF Routes

LEMMA ConnectInv ==
  ASSUME Routes, router \in Router \cup {None},
         NEW s \in Sock, NEW n \in Peer, Connect(s, n)
  PROVE  Routes'
<1>. DEFINE x == [Idle EXCEPT !.peer = n]
            k == <<"out", n>>
<1>1. Put(s, IF Hit(k) THEN [x EXCEPT !.pc = "ci", !.route = k]
                       ELSE [x EXCEPT !.pc = "resolve"])
      /\ UNCHANGED <<neigh, cache, later>>
  BY DEF Connect
<1>2. k \in Key /\ n # None
  BY Keys
<1>3. x \in Socket /\ x.peer = n /\ x.route = None /\ ~x.heard
  BY DEF Socket, Idle
<1>. HIDE DEF x, k
<1>4. SockOK'
  <2>1. CASE Hit(k)
    <3>1. [x EXCEPT !.pc = "ci", !.route = k] \in Socket
      BY <1>2, <1>3 DEF Socket
    <3>2. Holds(cache', [x EXCEPT !.pc = "ci", !.route = k])
      BY <1>1, <1>2, <1>3, <2>1, Keys DEF Holds, Hit, Socket
    <3>. QED
      BY <1>1, <2>1, <3>1, <3>2, PutKeeps DEF Routes
  <2>2. CASE ~Hit(k)
    <3>1. [x EXCEPT !.pc = "resolve"] \in Socket
      BY <1>3 DEF Socket
    <3>2. Holds(cache', [x EXCEPT !.pc = "resolve"])
      BY <1>3 DEF Holds, Socket
    <3>. QED
      BY <1>1, <2>2, <3>1, <3>2, PutKeeps DEF Routes
  <2>. QED
    BY <2>1, <2>2
<1>. QED
  BY <1>1, <1>4 DEF Routes, CacheOK, NearOK

LEMMA ResolveInv ==
  ASSUME Routes, router \in Router \cup {None}, NEW s \in Sock, Resolve(s)
  PROVE  Routes'
<1>. DEFINE hop == NextHop(sock[s].peer)
            x == [sock[s] EXCEPT !.pc = "insert", !.gateway = hop]
<1>1. Put(s, x) /\ UNCHANGED <<neigh, cache, later>> /\ sock[s].pc = "resolve"
  BY DEF Resolve
<1>2. sock[s] \in Socket /\ Holds(cache, sock[s])
  BY DEF Routes, SockOK
<1>3. hop \in Router \cup Peer
  BY <1>1, <1>2 DEF NextHop, Holds
<1>. HIDE DEF hop
<1>4. x \in Socket
  BY <1>2, <1>3 DEF Socket
<1>5. Holds(cache', x)
  BY <1>1, <1>2, <1>3 DEF Holds, Socket
<1>. HIDE DEF x
<1>6. SockOK'
  BY <1>1, <1>4, <1>5, PutKeeps DEF Routes
<1>. QED
  BY <1>1, <1>6 DEF Routes, CacheOK, NearOK

LEMMA InsertOutInv ==
  ASSUME Routes, NEW s \in Sock, InsertOut(s)
  PROVE  Routes'
<1>. DEFINE k == <<"out", sock[s].peer>>
            hop == sock[s].gateway
            rt == [gateway |-> hop, fresh |-> later]
            x == [sock[s] EXCEPT !.pc = "ci", !.route = k, !.gateway = None]
<1>1. /\ sock[s].pc = "insert" /\ neigh' = neigh \cup {hop}
      /\ cache' = Insert(k, rt) /\ Put(s, x) /\ later' = later
  BY DEF InsertOut
<1>2. sock[s] \in Socket /\ Holds(cache, sock[s])
  BY DEF Routes, SockOK
<1>3. k \in Key /\ k # None /\ hop \in Router \cup Peer /\ sock[s].peer \in Peer
  BY <1>1, <1>2, Keys DEF Holds
<1>4. rt \in Route
  BY <1>3, RouteType DEF Routes
<1>5. x \in Socket
  BY <1>2, <1>3 DEF Socket
<1>6. /\ CacheOK'
      /\ \A j \in Key : cache[j] # None => cache'[j] = cache[j]
      /\ \A j \in Key : j # k => cache'[j] = cache[j]
      /\ cache'[k] \in Route
  <2>. HIDE DEF k, rt
  <2>. QED
    BY <1>1, <1>3, <1>4, InsertKeeps DEF Routes
<1>7. NearOK'
  <2>1. \A n \in Near : <<"in", n>> \in Key /\ <<"in", n>> # k
    BY <1>3, Keys DEF Peer
  <2>. HIDE DEF k
  <2>. QED
    BY <1>6, <2>1 DEF Routes, NearOK
<1>8. ~sock[s].heard
  BY <1>1, <1>2 DEF Holds
<1>9. Holds(cache', x)
  BY <1>2, <1>3, <1>6, <1>8, Keys DEF Holds, Socket
<1>. HIDE DEF x, k
<1>10. SockOK'
  BY <1>1, <1>5, <1>6, <1>9, PutKeeps DEF Routes
<1>. QED
  BY <1>1, <1>3, <1>6, <1>7, <1>10 DEF Routes

LEMMA OpenInv ==
  ASSUME Routes, router \in Router \cup {None}, NEW s \in Sock, Open(s)
  PROVE  Routes'
<1>. DEFINE n == sock[s].peer
            x == [sock[s] EXCEPT !.pc = "run"]
<1>1. sock[s].pc = "ci" /\ Input(n) /\ Put(s, x) /\ later' = later
  BY DEF Open, Input
<1>2. sock[s] \in Socket /\ Holds(cache, sock[s])
  BY DEF Routes, SockOK
<1>3. n \in Peer
  BY <1>1, <1>2 DEF Holds
<1>. HIDE DEF n
<1>4. /\ CacheOK' /\ NearOK' /\ neigh' \subseteq Router \cup Peer
      /\ \A j \in Key : cache[j] # None => cache'[j] # None
  BY <1>1, <1>3, InputKeeps DEF Routes
<1>5. x \in Socket
  BY <1>2 DEF Socket
<1>6. Holds(cache', x)
  BY <1>1, <1>2, <1>4 DEF Holds, Socket
<1>. HIDE DEF x
<1>7. SockOK'
  BY <1>1, <1>4, <1>5, <1>6, PutKeeps DEF Routes
<1>. QED
  BY <1>1, <1>4, <1>7 DEF Routes

LEMMA ReceiveInv ==
  ASSUME Routes, router \in Router \cup {None}, NEW s \in Sock, Receive(s)
  PROVE  Routes'
<1>. DEFINE n == sock[s].peer
            x == [sock[s] EXCEPT !.route = <<"in", n>>, !.heard = TRUE]
<1>1. sock[s].pc = "run" /\ Input(n) /\ Put(s, x) /\ later' = later
  BY DEF Receive, Input
<1>2. sock[s] \in Socket /\ Holds(cache, sock[s])
  BY DEF Routes, SockOK
<1>3. sock[s].peer \in Peer
  BY <1>1, <1>2 DEF Holds
<1>4. /\ CacheOK' /\ NearOK' /\ neigh' \subseteq Router \cup Peer
      /\ \A j \in Key : cache[j] # None => cache'[j] # None
      /\ cache'[<<"in", n>>] # None
  BY <1>1, <1>3, InputKeeps DEF Routes
<1>5. x \in Socket
  BY <1>2, <1>3, Keys DEF Socket
<1>6. Holds(cache', x)
  <2>1. x.route = <<"in", n>> /\ x.peer = n /\ x.pc = "run"
    BY <1>1, <1>2 DEF Socket
  <2>2. <<"in", n>> \in Key /\ <<"in", n>> # None
    BY <1>3, Keys
  <2>. HIDE DEF x
  <2>. QED
    BY <1>3, <1>4, <2>1, <2>2 DEF Holds
<1>. HIDE DEF x
<1>7. SockOK'
  BY <1>1, <1>4, <1>5, <1>6, PutKeeps DEF Routes
<1>. QED
  BY <1>1, <1>4, <1>7 DEF Routes

LEMMA AcceptInv ==
  ASSUME Routes, router \in Router \cup {None},
         NEW s \in Sock, NEW n \in Peer, Accept(s, n)
  PROVE  Routes'
<1>. DEFINE x == [Idle EXCEPT !.pc = "run", !.peer = n, !.route = <<"in", n>>,
                              !.heard = TRUE]
<1>1. Input(n) /\ Put(s, x) /\ later' = later
  BY DEF Accept, Input
<1>2. /\ CacheOK' /\ NearOK' /\ neigh' \subseteq Router \cup Peer
      /\ \A j \in Key : cache[j] # None => cache'[j] # None
      /\ cache'[<<"in", n>>] # None
  BY <1>1, InputKeeps DEF Routes
<1>3. x \in Socket
  BY Keys DEF Socket, Idle
<1>4. Holds(cache', x)
  BY <1>2, Keys DEF Holds, Idle
<1>. HIDE DEF x
<1>5. SockOK'
  BY <1>1, <1>2, <1>3, <1>4, PutKeeps DEF Routes
<1>. QED
  BY <1>1, <1>2, <1>5 DEF Routes

LEMMA CloseInv ==
  ASSUME Routes, NEW s \in Sock, Close(s)
  PROVE  Routes'
<1>1. Put(s, Idle) /\ UNCHANGED <<neigh, cache, later>>
  BY DEF Close
<1>2. Idle \in Socket
  BY DEF Idle, Socket
<1>3. Holds(cache', Idle)
  BY DEF Holds, Idle
<1>4. SockOK'
  BY <1>1, <1>2, <1>3, PutKeeps DEF Routes
<1>. QED
  BY <1>1, <1>4 DEF Routes, CacheOK, NearOK

LEMMA ExpireInv ==
  ASSUME Routes, NEW k \in Key, Expire(k)
  PROVE  Routes'
<1>1. /\ cache' = [cache EXCEPT ![k] = None] /\ UNCHANGED <<neigh, later, sock>>
      /\ \A s \in Sock : sock[s].route # k
  BY DEF Expire, Held
<1>2. CacheOK' /\ NearOK'
  <2>1. CacheOK'
    BY <1>1 DEF Routes, CacheOK
  <2>2. \A n \in Near : <<"in", n>> \in Key
    BY Keys DEF Peer
  <2>. QED
    BY <1>1, <2>1, <2>2 DEF Routes, CacheOK, NearOK
<1>3. ASSUME NEW s \in Sock
      PROVE  Holds(cache', sock'[s])
  <2>1. sock[s] \in Socket /\ Holds(cache, sock[s])
    BY DEF Routes, SockOK
  <2>2. sock[s].route # None => cache'[sock[s].route] = cache[sock[s].route]
    BY <1>1, <2>1 DEF Socket, Routes, CacheOK
  <2>. QED
    BY <1>1, <2>1, <2>2 DEF Holds
<1>. QED
  BY <1>1, <1>2, <1>3 DEF Routes, SockOK

LEMMA RInvNext == RInv /\ [Next]_vars => RInv'
<1>. SUFFICES ASSUME RInv, [Next]_vars
              PROVE  Routes'
  BY InvNext DEF RInv
<1>0. Routes /\ router \in Router \cup {None} /\ router' \in Router \cup {None}
  BY InvNext DEF RInv, IInv, RouterTypeOK
<1>1. CASE RouterStep
  BY <1>0, <1>1, RouterStepInv
<1>2. CASE Jiffy
  BY <1>0, <1>2 DEF Jiffy, Routes, CacheOK, NearOK, SockOK, Holds
<1>3. ASSUME NEW s \in Sock, NEW n \in Peer, Connect(s, n) \/ Accept(s, n)
      PROVE  Routes'
  BY <1>0, <1>3, ConnectInv, AcceptInv
<1>4. ASSUME NEW s \in Sock,
             \/ Resolve(s) \/ InsertOut(s) \/ Open(s) \/ Receive(s) \/ Close(s)
      PROVE  Routes'
  BY <1>0, <1>4, ResolveInv, InsertOutInv, OpenInv, ReceiveInv, CloseInv
<1>5. ASSUME NEW k \in Key, Expire(k)
      PROVE  Routes'
  BY <1>0, <1>5, ExpireInv
<1>6. CASE UNCHANGED vars
  BY <1>0, <1>6, Unchanged DEF vars
<1>. QED
  BY <1>1, <1>2, <1>3, <1>4, <1>5, <1>6 DEF Next

-----------------------------------------------------------------------------

(* Route cache, sockets, neighbours and the router's timers keep their     *)
(* types: no route has nothing as its next hop, and no socket anything     *)
(* but a key as its route (dn_route_output_slow, dn_route_input_slow).     *)
THEOREM RoutesAreTyped == Spec => []TypeOK
<1>1. RInv => TypeOK
  BY DEF RInv, IInv, Routes, CacheOK, SockOK, TypeOK
<1>. QED
  BY <1>1, RInvInit, RInvNext, PTL DEF Spec

LEMMA InvIntra == RInv => IntraEthernet
<1>. SUFFICES ASSUME RInv, NEW s \in Sock, sock[s].heard, sock[s].peer \in Near
              PROVE  cache[sock[s].route] # None /\ Gateway(s) = sock[s].peer
  BY DEF IntraEthernet
<1>1. Holds(cache, sock[s])
  BY DEF RInv, Routes, SockOK
<1>2. sock[s].route = <<"in", sock[s].peer>> /\ sock[s].route # None
  BY <1>1, Keys DEF Holds
<1>3. cache[sock[s].route] # None
  BY <1>1, <1>2 DEF Holds
<1>. QED
  BY <1>2, <1>3 DEF RInv, Routes, NearOK, Gateway

(* However many nodes, routers and sockets there are, a link that has      *)
(* received a packet in RUN, or was accepted, talks to a node on the same  *)
(* Ethernet directly (dn_nsp_rx_packet, dn_accept, dn_route_input_slow).   *)
THEOREM NearIsDirect == Spec => []IntraEthernet
  BY InvIntra, RInvInit, RInvNext, PTL DEF Spec

-----------------------------------------------------------------------------
(***************************************************************************)
(* The router.  The daemon believes what the kernel told it some steps     *)
(* ago.  What makes this safe is that every entry of a dump is of a device *)
(* that has its addresses still, or is known to have been flushed since:   *)
(* only then may a route the daemon sets be refused.                       *)
(***************************************************************************)
RouteHead == [router : Node \cup {Nil}, cost : Nat, valid : BOOLEAN, next : Seq(RouteInfo)]
LanTyped == /\ lan.heard \subseteq Node \X Dev /\ lan.addrs \subseteq Address
            /\ lan.says \subseteq Node \X (Node \cup Area) \X Nat

RouterTyped ==
  /\ FibTypeOK /\ hash \in [Node -> NodeInfo \cup {Nil}] /\ table \in [Dest -> RouteHead]
  /\ dump \subseteq Node \X Dev /\ flushed \subseteq Dev /\ LanTyped

\* The device of an address is among those of its route: AddressLocal holds
\* for the device that is left when the others lose the address.
AddressKnown == \A d \in Dev : \A a \in addrs[d] : d \in local[a]

Useful(d) == d \in ifup /\ Attached(d)
DumpFresh == /\ \A n \in Node : \A d \in neighbours[n] : Useful(d)
             /\ \A e \in dump : e[2] \in flushed \/ Useful(e[2])

Direct(d) == [scope |-> "link", gw |-> Nil, dev |-> d]

\* DirectRoute, with the key of 16 bits
ToNeighbour(n) ==
  Here(n) =>
    /\ hash[n].dev # Nil
    /\ hash[n].dev \notin flushed =>
         main[n] = Direct(hash[n].dev) /\ (n \in Dest => table[n].router = Nil)

\* BestChosen, of one head
Chosen(h) ==
  h.valid /\ h.router # Nil =>
    \E i \in DOMAIN h.next :
      /\ h.next[i].valid /\ h.next[i].router = h.router /\ h.next[i].cost = h.cost
      /\ \A j \in DOMAIN h.next : h.next[j].valid => ~Better(h.next[j], h.next[i])

RouterInv == /\ RouterTyped /\ AddressKnown /\ DumpFresh
             /\ \A n \in Node : ToNeighbour(n)
             /\ \A x \in Dest : Chosen(table[x])

-----------------------------------------------------------------------------
(* The operators of the forwarding table and of the lists of routes *)

FibTable == [Prefix -> FibRoute \cup {Nil}]

LEMMA FibTyped ==
  ASSUME FibTypeOK
  PROVE  /\ ifup \subseteq Dev /\ addrs \in [Dev -> SUBSET Address]
         /\ neighbours \in [Node -> SUBSET Dev] /\ local \in [Address -> SUBSET Dev]
         /\ main \in FibTable
BY DEF FibTypeOK, FibTable

\* A route is set for its key only, and a direct one where the device allows it.
LEMMA InsertIs ==
  ASSUME NEW t \in FibTable, NEW key \in Prefix, NEW gw \in Node \cup {Nil},
         NEW dev \in Dev \cup {Nil}, gw = Nil => dev \in Dev
  PROVE  LET r == TableInsert(t, key, gw, dev)
         IN  /\ r \in FibTable /\ \A k \in Prefix : k # key => r[k] = t[k]
             /\ gw = Nil /\ Useful(dev) => r[key] = Direct(dev)
<1>1. CASE ~CheckNh(t, gw, dev)
  BY <1>1 DEF TableInsert, CheckNh, Useful
<1>2. CASE CheckNh(t, gw, dev) /\ gw = Nil
  <2> DEFINE new == Direct(dev)
  <2>1. TableInsert(t, key, gw, dev) = [t EXCEPT ![key] = new]
    BY <1>2 DEF TableInsert, Direct
  <2>2. new \in FibRoute
    BY <1>2 DEF FibRoute, Direct
  <2> HIDE DEF new
  <2>3. [t EXCEPT ![key] = new] \in FibTable
    BY <2>2 DEF FibTable
  <2>4. [t EXCEPT ![key] = new][key] = new
          /\ \A k \in Prefix : k # key => [t EXCEPT ![key] = new][k] = t[k]
    BY DEF FibTable
  <2> QED BY <1>2, <2>1, <2>3, <2>4 DEF new
<1>3. CASE CheckNh(t, gw, dev) /\ gw # Nil
  <2> DEFINE new == [scope |-> "universe", gw |-> gw, dev |-> t[gw].dev]
  <2>1. TableInsert(t, key, gw, dev) = [t EXCEPT ![key] = new]
    BY <1>3 DEF TableInsert
  <2>2. t[gw] \in FibRoute
    BY <1>3 DEF FibTable, CheckNh, Prefix
  <2>3. new \in FibRoute
    BY <2>2 DEF FibRoute
  <2> HIDE DEF new
  <2>4. [t EXCEPT ![key] = new] \in FibTable
    BY <2>3 DEF FibTable
  <2>5. \A k \in Prefix : k # key => [t EXCEPT ![key] = new][k] = t[k]
    BY DEF FibTable
  <2> QED BY <1>3, <2>1, <2>4, <2>5
<1> QED BY <1>1, <1>2, <1>3

\* A route goes from its key only, and one of another scope stays.
LEMMA DeleteIs ==
  ASSUME NEW t \in FibTable, NEW key \in Prefix, NEW scope, NEW gw, NEW dev
  PROVE  LET r == TableDelete(t, key, scope, gw, dev)
         IN  /\ r \in FibTable /\ \A k \in Prefix : k # key => r[k] = t[k]
             /\ t[key].scope # scope => r = t
<1>1. [t EXCEPT ![key] = Nil] \in FibTable
        /\ \A k \in Prefix : k # key => [t EXCEPT ![key] = Nil][k] = t[k]
  BY DEF FibTable
<1> QED BY <1>1 DEF TableDelete

LEMMA ViaIs ==
  ASSUME NEW t \in FibTable, NEW addr \in Prefix, NEW r \in Node \cup {Nil}
  PROVE  /\ r # Nil => /\ AddVia(t, addr, r) \in FibTable
                       /\ \A k \in Prefix : k # addr => AddVia(t, addr, r)[k] = t[k]
         /\ DelVia(t, addr, r) \in FibTable
         /\ \A k \in Prefix : k # addr => DelVia(t, addr, r)[k] = t[k]
         /\ t[addr].scope = "link" => DelVia(t, addr, r) = t
<1>1. ASSUME r # Nil
      PROVE  /\ AddVia(t, addr, r) \in FibTable
             /\ \A k \in Prefix : k # addr => AddVia(t, addr, r)[k] = t[k]
  <2>1. Nil \in Dev \cup {Nil} /\ (r = Nil => Nil \in Dev)
    BY <1>1
  <2>2. \A dev \in Dev \cup {Nil} : (r = Nil => dev \in Dev) =>
          LET q == TableInsert(t, addr, r, dev)
          IN  q \in FibTable /\ \A k \in Prefix : k # addr => q[k] = t[k]
    BY InsertIs
  <2> QED BY <2>1, <2>2 DEF AddVia
<1>2. LET q == TableDelete(t, addr, "universe", r, Nil)
      IN  /\ q \in FibTable /\ \A k \in Prefix : k # addr => q[k] = t[k]
          /\ t[addr].scope # "universe" => q = t
  BY DeleteIs
<1> QED BY <1>1, <1>2 DEF DelVia

\* A set of numbers that is not empty has a least one.
LEMMA LeastOf ==
  ASSUME NEW T \in SUBSET Nat, T # {}
  PROVE  \E x \in T : \A y \in T : x <= y
<1>1. PICK R : IsWellFoundedOn(R, Nat) /\ \A x, y \in Nat : <<y, x>> \in R <=> y < x
  <2> DEFINE R == OpToRel(<, Nat)
  <2>1. IsWellFoundedOn(R, Nat)
    BY NatLessThanWellFounded
  <2>2. \A x, y \in Nat : <<y, x>> \in R <=> y < x
    BY DEF OpToRel
  <2> HIDE DEF R
  <2> QED BY <2>1, <2>2
<1>2. PICK x \in T : \A y \in T : ~(<<y, x>> \in R)
  BY <1>1, WFMin
<1>3. ASSUME NEW y \in T PROVE x <= y
  <2>1. x \in Nat /\ y \in Nat
    OBVIOUS
  <2>2. ~(y < x)
    BY <1>1, <1>2, <2>1, Zenon
  <2> QED BY <2>1, <2>2
<1> QED BY <1>3

\* The choice is one of the valid routes, and none of those is better.
LEMMA CheapestIs ==
  ASSUME NEW list \in Seq(RouteInfo), Cheapest(list) # Nil
  PROVE  \E i \in DOMAIN list :
           /\ Cheapest(list) = list[i] /\ list[i].valid
           /\ \A j \in DOMAIN list : list[j].valid => ~Better(list[j], list[i])
<1> DEFINE ok == {i \in DOMAIN list : list[i].valid}
           best == {i \in ok : \A j \in ok : ~Better(list[j], list[i])}
           first == CHOOSE i \in best : \A j \in best : i <= j
<1>1. best # {} /\ Cheapest(list) = list[first]
  BY DEF Cheapest
<1>2. best \in SUBSET Nat
  BY DEF best
<1> HIDE DEF best
<1>3. \E i \in best : \A j \in best : i <= j
  BY <1>1, <1>2, LeastOf
<1>4. first \in best
  BY <1>3
<1> QED BY <1>1, <1>4 DEF best

LEMMA HeadIs ==
  ASSUME NEW h \in RouteHead
  PROVE  /\ h.router \in Node \cup {Nil} /\ h.cost \in Nat /\ h.valid \in BOOLEAN
         /\ h.next \in Seq(RouteInfo)
         /\ \A next \in Seq(RouteInfo) : [h EXCEPT !.next = next] \in RouteHead
         /\ [h EXCEPT !.valid = FALSE] \in RouteHead
         /\ [h EXCEPT !.valid = FALSE].valid = FALSE
BY DEF RouteHead

LEMMA RouteIs ==
  ASSUME NEW r \in RouteInfo
  PROVE  r.router \in Node /\ r.cost \in Nat /\ r.prio \in Nat /\ r.valid \in BOOLEAN
BY DEF RouteInfo

\* set_lowest_cost_route leaves a head whose route is well chosen, and changes
\* the route of one key.
LEMMA SetLowestIs ==
  ASSUME NEW t \in FibTable, NEW x \in Dest, NEW h \in RouteHead, NEW addr \in Prefix,
         table \in [Dest -> RouteHead], SetLowest(t, x, h, addr)
  PROVE  /\ main' \in FibTable /\ \A k \in Prefix : k # addr => main'[k] = t[k]
         /\ table' \in [Dest -> RouteHead] /\ \A y \in Dest : y # x => table'[y] = table[y]
         /\ Chosen(table'[x])
<1> DEFINE best == Cheapest(h.next)
           new == IF best = Nil THEN [h EXCEPT !.valid = FALSE]
                  ELSE [h EXCEPT !.router = best.router, !.cost = best.cost, !.valid = TRUE]
<1>1. /\ table' = [table EXCEPT ![x] = new]
      /\ main' = IF best = Nil THEN DelVia(t, addr, h.router)
                 ELSE IF best.router # h.router THEN AddVia(t, addr, best.router) ELSE t
  BY DEF SetLowest
<1>2. new \in RouteHead /\ Chosen(new) /\ (best # Nil => best.router \in Node)
  <2>1. CASE best = Nil
    BY <2>1, HeadIs DEF Chosen
  <2>2. CASE best # Nil
    <3>1. PICK i \in DOMAIN h.next :
            /\ best = h.next[i] /\ h.next[i].valid
            /\ \A j \in DOMAIN h.next : h.next[j].valid => ~Better(h.next[j], h.next[i])
      BY <2>2, CheapestIs, HeadIs
    <3>2. h.next[i] \in RouteInfo
      <4>1. h.next \in Seq(RouteInfo)
        BY HeadIs
      <4> QED BY <4>1
    <3>3. best.router \in Node /\ best.cost \in Nat
      BY <3>1, <3>2, RouteIs
    <3> HIDE DEF best
    <3>4. /\ new \in RouteHead /\ new.router = best.router /\ new.cost = best.cost
          /\ new.next = h.next
      BY <2>2, <3>3 DEF RouteHead
    <3> HIDE DEF new
    <3> QED BY <3>1, <3>3, <3>4 DEF Chosen
  <2> QED BY <2>1, <2>2
<1> HIDE DEF best, new
<1>3. /\ table' \in [Dest -> RouteHead] /\ \A y \in Dest : y # x => table'[y] = table[y]
      /\ table'[x] = new
  BY <1>1, <1>2
<1>4. Nil \notin Node
  BY NilAssumption
<1>5. /\ main' \in FibTable /\ \A k \in Prefix : k # addr => main'[k] = t[k]
  <2>1. h.router \in Node \cup {Nil}
    BY HeadIs
  <2>2. CASE best = Nil
    BY <1>1, <2>1, <2>2, ViaIs
  <2>3. CASE best # Nil
    <3>1. /\ AddVia(t, addr, best.router) \in FibTable
          /\ \A k \in Prefix : k # addr => AddVia(t, addr, best.router)[k] = t[k]
      BY <1>2, <1>4, <2>3, ViaIs
    <3> QED BY <1>1, <2>3, <3>1
  <2> QED BY <2>2, <2>3
<1> QED BY <1>2, <1>3, <1>5

LEMMA InfoIs ==
  ASSUME NEW h \in NodeInfo
  PROVE  /\ h.dev \in Dev \cup {Nil} /\ h.level \in 0 .. 2 /\ h.prio \in Nat
         /\ h.scanned \in BOOLEAN /\ h.deleted \in BOOLEAN
         /\ \A d \in Dev \cup {Nil} : [h EXCEPT !.dev = d] \in NodeInfo
         /\ \A l \in 0 .. 2, p \in Nat :
              LET r == [h EXCEPT !.level = l, !.prio = p]
              IN  r \in NodeInfo /\ r.dev = h.dev /\ r.deleted = h.deleted
         /\ \A b \in BOOLEAN :
              LET r == [h EXCEPT !.scanned = b]
              IN  r \in NodeInfo /\ r.dev = h.dev /\ r.deleted = h.deleted
         /\ [h EXCEPT !.deleted = TRUE] \in NodeInfo /\ [h EXCEPT !.deleted = TRUE].deleted
         /\ \A d \in Dev \cup {Nil} : [h EXCEPT !.dev = d].deleted = h.deleted
BY DEF NodeInfo

LEMMA WithRouteIs ==
  ASSUME NEW h \in RouteHead, NEW cost \in Nat, NEW from \in Node,
         hash \in [Node -> NodeInfo \cup {Nil}]
  PROVE  WithRoute(h, cost, from) \in RouteHead
<1> DEFINE at == {i \in DOMAIN h.next : h.next[i].router = from}
           old == IF at = {} THEN 0 ELSE h.next[CHOOSE i \in at : TRUE].prio
           prio == IF hash[from] = Nil THEN old ELSE hash[from].prio
           r == [router |-> from, cost |-> cost, valid |-> TRUE, prio |-> prio]
           next == IF at = {} THEN Append(h.next, r)
                   ELSE [i \in DOMAIN h.next |-> IF i \in at THEN r ELSE h.next[i]]
<1>1. h.next \in Seq(RouteInfo)
  BY HeadIs
<1>2. \A i \in DOMAIN h.next : h.next[i] \in RouteInfo
  BY <1>1
<1>3. old \in Nat
  <2>1. CASE at # {}
    <3>1. (CHOOSE i \in at : TRUE) \in at
      BY <2>1
    <3>2. (CHOOSE i \in at : TRUE) \in DOMAIN h.next
      BY <3>1 DEF at
    <3> QED BY <1>2, <2>1, <3>2, RouteIs
  <2> QED BY <2>1
<1> HIDE DEF old, at
<1>4. prio \in Nat
  <2>1. hash[from] # Nil => hash[from] \in NodeInfo
    OBVIOUS
  <2> QED BY <1>3, <2>1, InfoIs
<1> HIDE DEF prio
<1>5. r \in RouteInfo
  BY <1>4 DEF RouteInfo
<1> HIDE DEF r
<1>6. next \in Seq(RouteInfo)
  <2>1. DOMAIN h.next = 1..Len(h.next) /\ Len(h.next) \in Nat
    BY <1>1
  <2>2. [i \in DOMAIN h.next |-> IF i \in at THEN r ELSE h.next[i]] \in Seq(RouteInfo)
    <3> DEFINE g(i) == IF i \in at THEN r ELSE h.next[i]
    <3>1. \A i \in 1..Len(h.next) : g(i) \in RouteInfo
      BY <1>2, <1>5, <2>1
    <3>2. [i \in 1..Len(h.next) |-> g(i)] \in Seq(RouteInfo)
      BY <2>1, <3>1
    <3> QED BY <2>1, <3>2
  <2> QED BY <1>1, <1>5, <2>2
<1>7. WithRoute(h, cost, from) = [h EXCEPT !.next = next]
  BY DEF WithRoute, next, r, prio, old, at
<1> HIDE DEF next
<1> QED BY <1>6, <1>7, HeadIs

\* Routes of one router are changed, in another way each time.
LEMMA MappedIs ==
  ASSUME NEW h \in RouteHead, NEW from, NEW f,
         \A i \in DOMAIN h.next : f[i] \in RouteInfo
  PROVE  [h EXCEPT !.next = [i \in DOMAIN h.next |->
            IF h.next[i].router = from THEN f[i] ELSE h.next[i]]] \in RouteHead
<1> DEFINE g(i) == IF h.next[i].router = from THEN f[i] ELSE h.next[i]
<1>1. h.next \in Seq(RouteInfo)
  BY HeadIs
<1>2. DOMAIN h.next = 1..Len(h.next) /\ Len(h.next) \in Nat
  BY <1>1
<1>3. \A i \in 1..Len(h.next) : g(i) \in RouteInfo
  BY <1>1, <1>2
<1>4. [i \in 1..Len(h.next) |-> g(i)] \in Seq(RouteInfo)
  BY <1>2, <1>3
<1>5. [i \in DOMAIN h.next |-> g(i)] \in Seq(RouteInfo)
  BY <1>2, <1>4
<1> QED BY <1>5, HeadIs

-----------------------------------------------------------------------------
(* The daemon *)

\* Between two scans the dump grows only by entries of devices in use.
LEMMA DaemonKeeps ==
  ASSUME RouterInv, UNCHANGED <<ifup, addrs, neighbours, local, lan, flushed>>,
         main' \in FibTable, hash' \in [Node -> NodeInfo \cup {Nil}],
         table' \in [Dest -> RouteHead],
         dump' \subseteq Node \X Dev, \A e \in dump' : e \in dump \/ Useful(e[2]),
         \A n \in Node : ToNeighbour(n)', \A x \in Dest : Chosen(table'[x])
  PROVE  RouterInv'
<1>1. RouterTyped'
  BY DEF RouterInv, RouterTyped, FibTypeOK, FibTable, LanTyped
<1>2. AddressKnown'
  BY DEF RouterInv, AddressKnown
<1>3. DumpFresh'
  BY DEF RouterInv, DumpFresh, Useful, Attached
<1> QED BY <1>1, <1>2, <1>3 DEF RouterInv

\* A node whose route, device and entry are not changed
LEMMA SameNeighbour ==
  ASSUME NEW n \in Node, ToNeighbour(n), flushed' = flushed, main'[n] = main[n],
         Here(n)' => Here(n) /\ hash'[n].dev = hash[n].dev,
         n \in Dest => table'[n].router = table[n].router
  PROVE  ToNeighbour(n)'
BY DEF ToNeighbour, Direct

LEMMA Dests ==
  /\ \A n \in Node : n \in Prefix /\ AreaOf[n] \in Prefix /\ AreaOf[n] \in Area
                     /\ AreaOf[n] # n /\ (n \in Dest <=> AreaOf[n] = Own)
                     /\ (AreaOf[n] # Own => AreaOf[n] \in Dest)
  /\ \A a \in Area : a \in Prefix /\ a \notin Node /\ (a # Own => a \in Dest)
BY AreaAssumption DEF Prefix, Dest

LEMMA TypesOf ==
  ASSUME RouterInv
  PROVE  /\ main \in FibTable /\ hash \in [Node -> NodeInfo \cup {Nil}]
         /\ table \in [Dest -> RouteHead] /\ dump \subseteq Node \X Dev
         /\ \A x \in Dest : table[x] \in RouteHead /\ Chosen(table[x])
         /\ \A n \in Node : hash[n] # Nil => hash[n] \in NodeInfo
         /\ \A n \in Node : ToNeighbour(n)
BY DEF RouterInv, RouterTyped, FibTypeOK, FibTable

\* The route to node n, its entry and the heads of routes change, and n is
\* reached directly where the device allows it.
LEMMA NeighbourFound ==
  ASSUME RouterInv, NEW n \in Node, NEW d \in Dev, <<n, d>> \in dump,
         UNCHANGED <<ifup, addrs, neighbours, local, lan, flushed>>, dump' \subseteq dump,
         NEW i \in NodeInfo, i.dev = d, hash' = [hash EXCEPT ![n] = i],
         main' \in FibTable, \A m \in Node : m # n => main'[m] = main[m],
         Useful(d) => main'[n] = Direct(d),
         table' \in [Dest -> RouteHead], \A x \in Dest : Chosen(table'[x]),
         \A m \in Node : m # n /\ m \in Dest => table'[m] = table[m],
         n \in Dest => table'[n].router = Nil
  PROVE  RouterInv'
<1>1. d \in flushed \/ Useful(d)
  BY DEF RouterInv, DumpFresh
<1>2. /\ hash' \in [Node -> NodeInfo \cup {Nil}] /\ hash'[n] = i
      /\ \A m \in Node : m # n => hash'[m] = hash[m]
  BY TypesOf
<1>3. ASSUME NEW m \in Node PROVE ToNeighbour(m)'
  <2>1. CASE m = n
    BY <1>1, <1>2, <2>1, NilAssumption DEF ToNeighbour
  <2>2. CASE m # n
    <3>1. ToNeighbour(m) /\ (Here(m)' => Here(m) /\ hash'[m].dev = hash[m].dev)
      BY <1>2, <2>2, TypesOf DEF Here
    <3> QED BY <2>2, <3>1, SameNeighbour
  <2> QED BY <2>1, <2>2
<1> QED BY <1>2, <1>3, TypesOf, DaemonKeeps

LEMMA GotNeighKeeps ==
  ASSUME RouterInv, NEW n \in Node, NEW d \in Dev, GotNeigh(n, d)
  PROVE  RouterInv'
<1> DEFINE info == IF hash[n] = Nil THEN [level |-> 0, prio |-> 0] ELSE hash[n]
           t == TableInsert(main, n, Nil, d)
           new == [dev |-> d, level |-> info.level, prio |-> info.prio,
                   scanned |-> TRUE, deleted |-> FALSE]
<1>1. /\ <<n, d>> \in dump /\ dump' = dump \ {<<n, d>>}
      /\ UNCHANGED <<ifup, addrs, neighbours, local, lan, flushed>>
  BY DEF GotNeigh
<1>2. \/ /\ hash[n] # Nil /\ hash[n].scanned
         /\ main' = main /\ hash' = hash /\ table' = table
      \/ /\ hash' = [hash EXCEPT ![n] = new]
         /\ \/ ~IsNew(n, d) /\ main' = main /\ table' = table
            \/ AreaOf[n] = Own /\ Local(t, n, d)
            \/ AreaOf[n] # Own /\ AddRouteInfo(t, AreaOf[n], Cost[d], n)
            \/ AreaOf[n] # Own /\ main' = t /\ table' = table
  BY DEF GotNeigh, tables
<1>3. /\ t \in FibTable /\ \A k \in Prefix : k # n => t[k] = main[k]
      /\ Useful(d) => t[n] = Direct(d)
  <2>1. main \in FibTable /\ n \in Prefix /\ d \in Dev \cup {Nil}
    BY TypesOf, Dests
  <2>2. \A gw \in Node \cup {Nil} : (gw = Nil => d \in Dev) =>
          LET r == TableInsert(main, n, gw, d)
          IN  /\ r \in FibTable /\ \A k \in Prefix : k # n => r[k] = main[k]
              /\ gw = Nil /\ Useful(d) => r[n] = Direct(d)
    BY <2>1, InsertIs
  <2> QED BY <2>2
<1>4. new \in NodeInfo /\ new.dev = d /\ ~new.deleted
  <2>1. info.level \in 0 .. 2 /\ info.prio \in Nat
    <3>1. CASE hash[n] = Nil
      BY <3>1
    <3>2. CASE hash[n] # Nil
      <4>1. hash[n] \in NodeInfo
        BY <3>2, TypesOf
      <4> QED BY <3>2, <4>1, InfoIs
    <3> QED BY <3>1, <3>2
  <2> HIDE DEF info
  <2> QED BY <2>1 DEF NodeInfo
<1> HIDE DEF new, t
<1>5. CASE main' = main /\ hash' = hash /\ table' = table
  <2>1. \A m \in Node : ToNeighbour(m)'
    BY <1>1, <1>5, TypesOf DEF ToNeighbour, Here
  <2> QED BY <1>1, <1>5, <2>1, TypesOf, DaemonKeeps
<1>6. CASE hash' = [hash EXCEPT ![n] = new] /\ ~IsNew(n, d) /\ main' = main /\ table' = table
  <2>1. /\ hash' \in [Node -> NodeInfo \cup {Nil}] /\ hash'[n] = new
        /\ \A m \in Node : m # n => hash'[m] = hash[m]
    BY <1>4, <1>6, TypesOf
  <2>2. \A m \in Node : Here(m)' => Here(m) /\ hash'[m].dev = hash[m].dev
    BY <1>4, <1>6, <2>1 DEF IsNew, Here
  <2>3. \A m \in Node : ToNeighbour(m)'
    BY <1>1, <1>6, <2>2, TypesOf, SameNeighbour
  <2> QED BY <1>1, <1>6, <2>1, <2>3, TypesOf, DaemonKeeps
<1>7. ASSUME hash' = [hash EXCEPT ![n] = new], AreaOf[n] = Own, Local(t, n, d)
      PROVE  RouterInv'
  <2> DEFINE behind == table[n].router # Nil
             cost == IF table[n].valid /\ ~behind THEN table[n].cost ELSE Cost[d]
             head == [table[n] EXCEPT !.router = Nil, !.valid = TRUE, !.cost = cost]
  <2>1. n \in Dest /\ table[n] \in RouteHead /\ Cost[d] \in Nat
    BY <1>7, Dests, TypesOf, DnrouteAssumption
  <2>2. /\ main' = IF behind THEN DelVia(t, n, table[n].router) ELSE t
        /\ table' = [table EXCEPT ![n] = head]
    BY <1>7 DEF Local
  <2>3. table[n].router \in Node \cup {Nil} /\ cost \in Nat
    BY <2>1, HeadIs
  <2> HIDE DEF cost
  <2>4. head \in RouteHead /\ head.router = Nil
    BY <2>1, <2>3 DEF RouteHead
  <2> HIDE DEF head
  <2>5. /\ table' \in [Dest -> RouteHead] /\ table'[n] = head
        /\ \A x \in Dest : x # n => table'[x] = table[x]
    BY <2>1, <2>2, <2>4, TypesOf
  <2>6. \A x \in Dest : Chosen(table'[x])
    BY <2>4, <2>5, TypesOf DEF Chosen
  <2>7. /\ DelVia(t, n, table[n].router) \in FibTable
        /\ \A k \in Prefix : k # n => DelVia(t, n, table[n].router)[k] = t[k]
        /\ t[n].scope = "link" => DelVia(t, n, table[n].router) = t
    <3>1. n \in Prefix
      BY Dests
    <3> DEFINE q == table[n].router
    <3> HIDE DEF q
    <3>2. /\ DelVia(t, n, q) \in FibTable
          /\ \A k \in Prefix : k # n => DelVia(t, n, q)[k] = t[k]
          /\ t[n].scope = "link" => DelVia(t, n, q) = t
      BY <1>3, <2>3, <3>1, ViaIs DEF q
    <3> QED BY <3>2 DEF q
  <2>8. Direct(d).scope = "link"
    BY DEF Direct
  <2>9. /\ main' \in FibTable /\ \A m \in Node : m # n => main'[m] = main[m]
        /\ Useful(d) => main'[n] = Direct(d)
    BY <1>3, <2>2, <2>7, <2>8, Dests
  <2> QED BY <1>1, <1>4, <1>7, <2>4, <2>5, <2>6, <2>9, NeighbourFound
<1>8. ASSUME hash' = [hash EXCEPT ![n] = new], AreaOf[n] # Own,
             AddRouteInfo(t, AreaOf[n], Cost[d], n)
      PROVE  RouterInv'
  <2> DEFINE a == AreaOf[n]
  <2>1. a \in Dest /\ a \in Prefix /\ a \notin Node /\ Cost[d] \in Nat /\ n \notin Dest
    BY <1>8, Dests, DnrouteAssumption
  <2>2. WithRoute(table[a], Cost[d], n) \in RouteHead
    BY <2>1, TypesOf, WithRouteIs
  <2>3. /\ main' \in FibTable /\ \A k \in Prefix : k # a => main'[k] = t[k]
        /\ table' \in [Dest -> RouteHead] /\ \A y \in Dest : y # a => table'[y] = table[y]
        /\ Chosen(table'[a])
    BY <1>3, <1>8, <2>1, <2>2, TypesOf, SetLowestIs DEF AddRouteInfo
  <2>4. /\ \A m \in Node : m # n => main'[m] = main[m]
        /\ Useful(d) => main'[n] = Direct(d)
    BY <1>3, <2>1, <2>3, Dests
  <2>5. /\ \A x \in Dest : Chosen(table'[x])
        /\ \A m \in Node : m # n /\ m \in Dest => table'[m] = table[m]
    BY <2>1, <2>3, TypesOf
  <2> QED BY <1>1, <1>4, <1>8, <2>1, <2>3, <2>4, <2>5, NeighbourFound
<1>9. ASSUME hash' = [hash EXCEPT ![n] = new], AreaOf[n] # Own, main' = t, table' = table
      PROVE  RouterInv'
  <2>1. n \notin Dest /\ \A m \in Node : m # n => main'[m] = main[m]
    BY <1>3, <1>9, Dests
  <2>2. Useful(d) => main'[n] = Direct(d)
    BY <1>3, <1>9
  <2> QED BY <1>1, <1>3, <1>4, <1>9, <2>1, <2>2, TypesOf, NeighbourFound
<1> QED BY <1>2, <1>5, <1>6, <1>7, <1>8, <1>9

LEMMA ScanKeeps ==
  ASSUME RouterInv, StartScan \/ EndDump
  PROVE  RouterInv'
<1>1. UNCHANGED <<ifup, addrs, neighbours, local, lan, flushed, main, hash, table>>
  BY DEF StartScan, EndDump, fibVars, tables
<1>2. \A m \in Node : ToNeighbour(m)'
  BY <1>1, TypesOf DEF ToNeighbour, Here
<1>3. dump' \subseteq Node \X Dev /\ \A e \in dump' : e \in dump \/ Useful(e[2])
  BY TypesOf DEF StartScan, EndDump, Entries, RouterInv, DumpFresh
<1> QED BY <1>1, <1>2, <1>3, TypesOf, DaemonKeeps

\* What the daemon knows of its neighbours changes, but not where they are.
LEMMA KnownKeeps ==
  ASSUME RouterInv, UNCHANGED <<fibVars, lan, table, dump, flushed>>,
         hash' \in [Node -> NodeInfo \cup {Nil}],
         \A m \in Node : Here(m)' => Here(m) /\ hash'[m].dev = hash[m].dev
  PROVE  RouterInv'
<1>1. UNCHANGED <<ifup, addrs, neighbours, local, main>>
  BY DEF fibVars
<1>2. \A m \in Node : ToNeighbour(m)'
  BY <1>1, TypesOf, SameNeighbour
<1> QED BY <1>1, <1>2, TypesOf, DaemonKeeps

LEMMA EndSweepKeeps ==
  ASSUME RouterInv, EndSweep
  PROVE  RouterInv'
<1>1. \A m \in Node : /\ hash'[m] = IF hash[m] = Nil THEN Nil ELSE [hash[m] EXCEPT !.scanned = FALSE]
                      /\ hash'[m] \in NodeInfo \cup {Nil}
                      /\ Here(m)' => Here(m) /\ hash'[m].dev = hash[m].dev
  <2> SUFFICES ASSUME NEW m \in Node
               PROVE  /\ hash'[m] = IF hash[m] = Nil THEN Nil ELSE [hash[m] EXCEPT !.scanned = FALSE]
                      /\ hash'[m] \in NodeInfo \cup {Nil}
                      /\ Here(m)' => Here(m) /\ hash'[m].dev = hash[m].dev
    OBVIOUS
  <2>1. hash'[m] = IF hash[m] = Nil THEN Nil ELSE [hash[m] EXCEPT !.scanned = FALSE]
    BY DEF EndSweep
  <2>2. ASSUME hash[m] # Nil
        PROVE  /\ hash'[m] \in NodeInfo /\ hash'[m].dev = hash[m].dev
               /\ hash'[m].deleted = hash[m].deleted
    <3>1. hash[m] \in NodeInfo
      BY <2>2, TypesOf
    <3>2. \A b \in BOOLEAN : LET r == [hash[m] EXCEPT !.scanned = b]
                             IN  r \in NodeInfo /\ r.dev = hash[m].dev /\ r.deleted = hash[m].deleted
      BY <3>1, InfoIs
    <3> QED BY <2>1, <2>2, <3>2
  <2> QED BY <2>1, <2>2 DEF Here
<1>2. hash' \in [Node -> NodeInfo \cup {Nil}]
  <2>1. hash' = [m \in Node |-> hash'[m]]
    BY DEF EndSweep
  <2> QED BY <1>1, <2>1
<1> QED BY <1>1, <1>2, KnownKeeps DEF EndSweep

\* add_routing_neighbour changes level and priority.
LEMMA LearnedKeeps ==
  ASSUME RouterInv, NEW r \in Node, hash[r] # Nil, NEW l \in 0 .. 2, NEW p \in Nat,
         hash' = [hash EXCEPT ![r] = Learned(@, l, p)]
  PROVE  /\ hash' \in [Node -> NodeInfo \cup {Nil}] /\ hash'[r].prio = p
         /\ \A m \in Node : Here(m)' => Here(m) /\ hash'[m].dev = hash[m].dev
<1> DEFINE new == [hash[r] EXCEPT !.level = l, !.prio = p]
<1>1. hash' = [hash EXCEPT ![r] = new]
  BY DEF Learned
<1>2. hash[r] \in NodeInfo
  BY TypesOf
<1>3. /\ new \in NodeInfo /\ new.dev = hash[r].dev /\ new.deleted = hash[r].deleted
  BY <1>2, InfoIs
<1>4. new.prio = p
  BY <1>2 DEF NodeInfo
<1> HIDE DEF new
<1>5. /\ hash' \in [Node -> NodeInfo \cup {Nil}] /\ hash'[r] = new
      /\ \A m \in Node : m # r => hash'[m] = hash[m]
  BY <1>1, <1>3, TypesOf
<1> QED BY <1>3, <1>4, <1>5 DEF Here

LEMMA RouterHelloKeeps ==
  ASSUME RouterInv, NEW r \in Node, NEW d \in Dev, RouterHello(r, d)
  PROVE  RouterInv'
<1>1. Level[r] \in 0 .. 2 /\ Priority[r] \in Nat
  BY DnrouteAssumption
<1>2. hash[r] # Nil /\ hash' = [hash EXCEPT ![r] = Learned(@, Level[r], Priority[r])]
  BY DEF RouterHello
<1> QED BY <1>1, <1>2, LearnedKeeps, KnownKeeps DEF RouterHello

\* A route by way of a router is set or lost, and no neighbour is concerned.
LEMMA ViaKeeps ==
  ASSUME RouterInv, NEW t \in FibTable, NEW x \in Dest, NEW h \in RouteHead, NEW addr \in Prefix,
         SetLowest(t, x, h, addr),
         UNCHANGED <<ifup, addrs, neighbours, local, lan, phase, dump, flushed>>,
         hash' \in [Node -> NodeInfo \cup {Nil}],
         \A m \in Node : Here(m)' => /\ Here(m) /\ hash'[m].dev = hash[m].dev
                                     /\ m # x /\ m # addr /\ t[m] = main[m]
  PROVE  RouterInv'
<1>1. /\ main' \in FibTable /\ \A k \in Prefix : k # addr => main'[k] = t[k]
      /\ table' \in [Dest -> RouteHead] /\ \A y \in Dest : y # x => table'[y] = table[y]
      /\ Chosen(table'[x])
  BY TypesOf, SetLowestIs
<1>2. ASSUME NEW m \in Node PROVE ToNeighbour(m)'
  <2>1. CASE ~Here(m)'
    BY <2>1 DEF ToNeighbour
  <2>2. CASE Here(m)'
    <3>1. main'[m] = main[m] /\ (m \in Dest => table'[m] = table[m])
      BY <1>1, <2>2, Dests
    <3> QED BY <2>2, <3>1, TypesOf, SameNeighbour
  <2> QED BY <2>1, <2>2
<1>3. \A y \in Dest : Chosen(table'[y])
  BY <1>1, TypesOf
<1> QED BY <1>1, <1>2, <1>3, TypesOf, DaemonKeeps

LEMMA SweepKeeps ==
  ASSUME RouterInv, NEW n \in Node, Sweep(n)
  PROVE  RouterInv'
<1> DEFINE a == AreaOf[n]
           t == TableDelete(main, n, "link", Nil, hash[n].dev)
           gone == [hash[n] EXCEPT !.deleted = TRUE]
           h == [table[a] EXCEPT !.next = [i \in DOMAIN @ |->
                   IF @[i].router = n THEN [@[i] EXCEPT !.valid = FALSE] ELSE @[i]]]
<1>1. /\ UNCHANGED <<ifup, addrs, neighbours, local, lan, phase, dump, flushed>>
      /\ hash[n] # Nil /\ hash' = [hash EXCEPT ![n] = gone]
      /\ \/ a # Own /\ SetLowest(t, a, h, n)
         \/ main' = t /\ table' = table
  BY DEF Sweep, Unscanned, Invalidate
<1>2. n \in Prefix /\ (a # Own => a \in Dest) /\ a \notin Node
  BY Dests
<1>3. t \in FibTable /\ \A k \in Prefix : k # n => t[k] = main[k]
  BY <1>2, TypesOf, DeleteIs
<1>4. /\ hash' \in [Node -> NodeInfo \cup {Nil}]
      /\ \A m \in Node : Here(m)' => Here(m) /\ hash'[m].dev = hash[m].dev /\ m # n
  <2>1. hash[n] \in NodeInfo
    BY <1>1, TypesOf
  <2>2. gone \in NodeInfo /\ gone.deleted
    BY <2>1, InfoIs
  <2> HIDE DEF gone
  <2>3. /\ hash' \in [Node -> NodeInfo \cup {Nil}] /\ hash'[n] = gone
        /\ \A m \in Node : m # n => hash'[m] = hash[m]
    BY <1>1, <2>2, TypesOf
  <2> QED BY <2>2, <2>3 DEF Here
<1> HIDE DEF gone, t
<1>5. CASE a # Own /\ SetLowest(t, a, h, n)
  <2>1. table[a] \in RouteHead
    BY <1>2, <1>5, TypesOf
  <2>2. h \in RouteHead
    <3> DEFINE next == table[a].next
               f == [i \in DOMAIN next |-> [next[i] EXCEPT !.valid = FALSE]]
    <3>1. next \in Seq(RouteInfo)
      BY <2>1, HeadIs
    <3>2. \A i \in DOMAIN next : f[i] \in RouteInfo
      <4>1. \A i \in DOMAIN next : next[i] \in RouteInfo
        BY <3>1
      <4> HIDE DEF next
      <4>2. \A r \in RouteInfo : [r EXCEPT !.valid = FALSE] \in RouteInfo
        BY DEF RouteInfo
      <4> QED BY <4>1, <4>2
    <3>3. h = [table[a] EXCEPT !.next = [i \in DOMAIN table[a].next |->
                 IF table[a].next[i].router = n THEN f[i] ELSE table[a].next[i]]]
      OBVIOUS
    <3> HIDE DEF f
    <3>4. [table[a] EXCEPT !.next = [i \in DOMAIN table[a].next |->
             IF table[a].next[i].router = n THEN f[i] ELSE table[a].next[i]]] \in RouteHead
      BY <2>1, <3>2, MappedIs
    <3> QED BY <3>3, <3>4
  <2> HIDE DEF h
  <2>3. \A m \in Node : Here(m)' => /\ Here(m) /\ hash'[m].dev = hash[m].dev
                                    /\ m # a /\ m # n /\ t[m] = main[m]
    BY <1>2, <1>3, <1>4, Dests
  <2>4. a \in Dest
    BY <1>2, <1>5
  <2> QED BY <1>1, <1>2, <1>3, <1>4, <1>5, <2>2, <2>3, <2>4, ViaKeeps
<1>6. CASE main' = t /\ table' = table
  <2>1. \A m \in Node : Here(m)' => main'[m] = main[m]
    BY <1>3, <1>4, <1>6, Dests
  <2>2. \A m \in Node : ToNeighbour(m)'
    <3> SUFFICES ASSUME NEW m \in Node PROVE ToNeighbour(m)'
      OBVIOUS
    <3>1. CASE ~Here(m)'
      BY <3>1 DEF ToNeighbour
    <3>2. CASE Here(m)'
      BY <1>1, <1>4, <1>6, <2>1, <3>2, TypesOf, SameNeighbour
    <3> QED BY <3>1, <3>2
  <2> QED BY <1>1, <1>3, <1>4, <1>6, <2>2, TypesOf, DaemonKeeps
<1> QED BY <1>1, <1>5, <1>6

LEMMA Level1Keeps ==
  ASSUME RouterInv, NEW r \in Node, NEW d \in Dev, NEW n \in Node, NEW c \in Nat, Level1(r, d, n, c)
  PROVE  RouterInv'
<1> DEFINE away == IF hash[n] = Nil THEN Nil ELSE [hash[n] EXCEPT !.dev = Nil]
<1>1. /\ UNCHANGED <<ifup, addrs, neighbours, local, lan, phase, dump, flushed>>
      /\ AreaOf[n] = Own /\ ~Here(n) /\ hash' = [hash EXCEPT ![n] = away]
      /\ SetLowest(main, n, WithRoute(table[n], c + Cost[d], r), n)
  BY DEF Level1, AddRouteInfo
<1>2. n \in Dest /\ n \in Prefix /\ table[n] \in RouteHead /\ main \in FibTable
  BY <1>1, Dests, TypesOf
<1>3. c + Cost[d] \in Nat
  <2>1. Cost[d] \in Nat
    BY DnrouteAssumption
  <2> QED BY <2>1
<1>4. WithRoute(table[n], c + Cost[d], r) \in RouteHead
  BY <1>2, <1>3, TypesOf, WithRouteIs
<1>5. away \in NodeInfo \cup {Nil} /\ (away # Nil => away.deleted)
  <2>1. CASE hash[n] = Nil
    BY <2>1
  <2>2. CASE hash[n] # Nil
    <3>1. hash[n] \in NodeInfo /\ hash[n].deleted
      BY <1>1, <2>2, TypesOf DEF Here
    <3> QED BY <2>2, <3>1, InfoIs
  <2> QED BY <2>1, <2>2
<1> HIDE DEF away
<1>6. /\ hash' \in [Node -> NodeInfo \cup {Nil}] /\ hash'[n] = away
      /\ \A m \in Node : m # n => hash'[m] = hash[m]
  BY <1>1, <1>5, TypesOf
<1>7. \A m \in Node : Here(m)' => Here(m) /\ hash'[m].dev = hash[m].dev /\ m # n /\ main[m] = main[m]
  BY <1>5, <1>6 DEF Here
<1> QED BY <1>1, <1>2, <1>4, <1>6, <1>7, ViaKeeps

LEMMA Level2Keeps ==
  ASSUME RouterInv, NEW r \in Node, NEW d \in Dev, NEW a \in Area, NEW c \in Nat, Level2(r, d, a, c)
  PROVE  RouterInv'
<1> DEFINE prio == IF hash[r].prio = 0 THEN 64 ELSE hash[r].prio
           with == WithRoute(table[a], c + Cost[hash[r].dev], r)
           head(p) == [with EXCEPT !.next = [i \in DOMAIN @ |->
                         IF @[i].router = r THEN [@[i] EXCEPT !.prio = p] ELSE @[i]]]
<1>1. /\ UNCHANGED <<ifup, addrs, neighbours, local, lan, phase, dump, flushed>>
      /\ a # Own /\ hash[r] # Nil /\ hash' = [hash EXCEPT ![r] = Learned(@, 2, prio)]
      /\ SetLowest(main, a, head(hash'[r].prio), a)
  BY DEF Level2
<1>2. a \in Dest /\ a \in Prefix /\ a \notin Node /\ main \in FibTable /\ table[a] \in RouteHead
  BY <1>1, Dests, TypesOf
<1>3. hash[r] \in NodeInfo
  BY <1>1, TypesOf
<1>4. prio \in Nat /\ Cost[hash[r].dev] \in Nat
  <2>1. hash[r].prio \in Nat /\ hash[r].dev \in Dev \cup {Nil}
    BY <1>3, InfoIs
  <2> QED BY <2>1, DnrouteAssumption
<1> HIDE DEF prio
<1>5. /\ hash' \in [Node -> NodeInfo \cup {Nil}] /\ hash'[r].prio = prio
      /\ \A m \in Node : Here(m)' => Here(m) /\ hash'[m].dev = hash[m].dev
  <2>1. 2 \in 0 .. 2
    OBVIOUS
  <2> QED BY <1>1, <1>4, <2>1, LearnedKeeps
<1>6. with \in RouteHead
  <2>1. \A x, y \in Nat : x + y \in Nat
    OBVIOUS
  <2>2. c + Cost[hash[r].dev] \in Nat
    BY <1>4, <2>1
  <2> QED BY <1>2, <2>2, TypesOf, WithRouteIs
<1> HIDE DEF with
<1>7. head(hash'[r].prio) \in RouteHead
  <2> DEFINE next == with.next
             f == [i \in DOMAIN next |-> [next[i] EXCEPT !.prio = hash'[r].prio]]
  <2>1. next \in Seq(RouteInfo)
    BY <1>6, HeadIs
  <2>2. \A i \in DOMAIN next : f[i] \in RouteInfo
    <3>1. \A i \in DOMAIN next : next[i] \in RouteInfo
      BY <2>1
    <3> HIDE DEF next
    <3>2. \A q \in RouteInfo : [q EXCEPT !.prio = hash'[r].prio] \in RouteInfo
      BY <1>4, <1>5 DEF RouteInfo
    <3> QED BY <3>1, <3>2
  <2>3. head(hash'[r].prio) = [with EXCEPT !.next = [i \in DOMAIN with.next |->
               IF with.next[i].router = r THEN f[i] ELSE with.next[i]]]
    OBVIOUS
  <2> HIDE DEF f
  <2>4. [with EXCEPT !.next = [i \in DOMAIN with.next |->
               IF with.next[i].router = r THEN f[i] ELSE with.next[i]]] \in RouteHead
    BY <1>6, <2>2, MappedIs
  <2> QED BY <2>3, <2>4
<1> HIDE DEF head
<1>8. \A m \in Node : Here(m)' => Here(m) /\ hash'[m].dev = hash[m].dev /\ m # a /\ main[m] = main[m]
  BY <1>2, <1>5
<1> QED BY <1>1, <1>2, <1>5, <1>7, <1>8, ViaKeeps

-----------------------------------------------------------------------------
(* The kernel *)

\* Of the tables of the kernel what the daemon relies on: an entry in a dump,
\* or a route to a neighbour, is lost only with the addresses of its device,
\* and this is noted in flushed.
LEMMA KernelKeeps ==
  ASSUME RouterInv, FibTypeOK', UNCHANGED <<lan, hash, table, dump>>,
         flushed' = flushed \cup {d \in Dev : addrs[d] # {} /\ addrs'[d] = {}},
         \A d \in Dev : \A a \in addrs'[d] : d \in local'[a],
         \A n \in Node : \A d \in neighbours'[n] : Useful(d)',
         \A d \in Dev : Useful(d) => Useful(d)' \/ d \in flushed',
         \A n \in Node : main[n] # Nil /\ main[n].dev \notin flushed' => main'[n] = main[n]
  PROVE  RouterInv'
<1>1. RouterTyped'
  BY DEF RouterInv, RouterTyped, LanTyped
<1>2. AddressKnown'
  BY DEF AddressKnown
<1>3. DumpFresh'
  <2>1. ASSUME NEW e \in dump' PROVE e[2] \in flushed' \/ Useful(e[2])'
    <3>1. e \in dump /\ e[2] \in Dev
      BY TypesOf
    <3>2. e[2] \in flushed \/ Useful(e[2])
      BY <3>1 DEF RouterInv, DumpFresh
    <3> QED BY <3>1, <3>2
  <2> QED BY <2>1 DEF DumpFresh
<1>4. ASSUME NEW n \in Node PROVE ToNeighbour(n)'
  <2>1. ToNeighbour(n) /\ flushed \subseteq flushed'
    BY TypesOf
  <2>2. ASSUME Here(n), hash[n].dev \notin flushed' PROVE main'[n] = main[n]
    <3>1. main[n] = Direct(hash[n].dev) /\ hash[n].dev # Nil
      BY <2>1, <2>2 DEF ToNeighbour
    <3>2. hash[n].dev \in Dev
      <4>1. hash[n] \in NodeInfo
        BY <2>2, TypesOf DEF Here
      <4>2. hash[n].dev \in Dev \cup {Nil}
        BY <4>1, InfoIs
      <4> QED BY <3>1, <4>2
    <3>3. Direct(hash[n].dev) \in FibRoute /\ Direct(hash[n].dev).dev = hash[n].dev
      BY <3>2 DEF Direct, FibRoute
    <3> QED BY <2>2, <3>1, <3>3, NilAssumption
  <2> QED BY <2>1, <2>2 DEF ToNeighbour, Here
<1>5. \A x \in Dest : Chosen(table'[x])
  BY TypesOf
<1> QED BY <1>1, <1>2, <1>3, <1>4, <1>5 DEF RouterInv

LEMMA KernelTypes ==
  ASSUME RouterInv
  PROVE  /\ ifup \subseteq Dev /\ addrs \in [Dev -> SUBSET Address]
         /\ neighbours \in [Node -> SUBSET Dev] /\ local \in [Address -> SUBSET Dev]
         /\ main \in FibTable
         /\ \A d \in Dev : \A a \in addrs[d] : d \in local[a]
         /\ \A n \in Node : \A d \in neighbours[n] : Useful(d)
BY DEF RouterInv, RouterTyped, FibTypeOK, FibTable, AddressKnown, DumpFresh

\* dn_dev_insert_ifa
LEMMA AddKeeps ==
  ASSUME RouterInv, NEW d \in Dev, NEW a \in Address,
         ifup \subseteq ifup', ifup' \subseteq Dev,
         addrs' = [addrs EXCEPT ![d] = @ \cup {a}],
         \/ local' = [local EXCEPT ![a] = @ \cup {d}]
         \/ a \in addrs[d] /\ local' = local,
         UNCHANGED <<neighbours, main, lan, hash, table, dump>>,
         flushed' = flushed \cup {e \in Dev : addrs[e] # {} /\ addrs'[e] = {}}
  PROVE  RouterInv'
<1>1. \A e \in Dev : /\ addrs[e] \subseteq addrs'[e] /\ addrs'[e] \subseteq Address
                     /\ addrs'[e] \subseteq addrs[e] \cup {a}
                     /\ e # d => addrs'[e] = addrs[e]
  BY KernelTypes
<1>2. \A b \in Address : local[b] \subseteq local'[b] /\ (b = a => d \in local'[b])
  BY KernelTypes
<1>3. FibTypeOK'
  BY KernelTypes DEF FibTypeOK, FibTable
<1>4. \A e \in Dev : Useful(e) => Useful(e)'
  BY <1>1 DEF Useful, Attached
<1>5. \A e \in Dev : \A b \in addrs'[e] : e \in local'[b]
  <2> SUFFICES ASSUME NEW e \in Dev, NEW b \in addrs'[e] PROVE e \in local'[b]
    OBVIOUS
  <2>1. b \in Address
    BY <1>1
  <2>2. CASE b \in addrs[e]
    BY <1>2, <2>1, <2>2, KernelTypes
  <2>3. CASE b \notin addrs[e]
    BY <1>1, <1>2, <2>1, <2>3
  <2> QED BY <2>2, <2>3
<1>6. \A n \in Node : \A e \in neighbours'[n] : Useful(e)'
  BY <1>4, KernelTypes
<1> QED BY <1>3, <1>4, <1>5, <1>6, KernelKeeps

\* dn_dev_del_ifa: the routes of a device go with its last address, and its
\* neighbours; an address another device has stays known.
LEMMA RemoveKeeps ==
  ASSUME RouterInv, NEW d \in Dev, NEW gone \in SUBSET addrs[d], Remove(d, gone),
         ifup' \subseteq ifup, \A e \in Dev : e \in ifup \ ifup' => e = d /\ gone = addrs[d],
         UNCHANGED <<lan, hash, table, dump>>,
         flushed' = flushed \cup {e \in Dev : addrs[e] # {} /\ addrs'[e] = {}}
  PROVE  RouterInv'
<1> DEFINE rest == [addrs EXCEPT ![d] = @ \ gone]
           loc == DelIfaddr(d, gone, rest)
           last == rest[d] = {} /\ gone # {}
<1>1. /\ addrs' = rest
      /\ local' = IF last THEN [b \in Address |-> loc[b] \ {d}] ELSE loc
      /\ main' = IF last THEN Flushed(d) ELSE main
      /\ neighbours' = IF last THEN [n \in Node |-> neighbours[n] \ {d}] ELSE neighbours
  BY DEF Remove
<1>2. /\ rest \in [Dev -> SUBSET Address] /\ rest[d] = addrs[d] \ gone
      /\ \A e \in Dev : e # d => rest[e] = addrs[e]
  BY KernelTypes
<1>3. \A b \in Address : loc[b] = IF b \in gone /\ \A e \in Dev : b \notin rest[e]
                                  THEN local[b] \ {d} ELSE local[b]
  BY DEF DelIfaddr
<1>4. loc \in [Address -> SUBSET Dev]
  BY KernelTypes DEF DelIfaddr
<1> HIDE DEF rest, loc
<1>5. last => d \in flushed'
  BY <1>1, <1>2, KernelTypes
<1> HIDE DEF last
<1>6. Flushed(d) \in FibTable /\ \A n \in Node : main[n] # Nil /\ main[n].dev # d => Flushed(d)[n] = main[n]
  <2>1. \A k \in Prefix : main[k] \in FibRoute \cup {Nil}
    BY KernelTypes DEF FibTable
  <2> QED BY <2>1, Dests DEF Flushed, FibTable
<1>7. FibTypeOK'
  <2>1. neighbours' \in [Node -> SUBSET Dev]
    BY <1>1, KernelTypes
  <2>2. local' \in [Address -> SUBSET Dev]
    BY <1>1, <1>4
  <2>3. main' \in FibTable
    BY <1>1, <1>6, KernelTypes
  <2> QED BY <1>1, <1>2, <2>1, <2>2, <2>3, KernelTypes DEF FibTypeOK, FibTable
<1>8. \A e \in Dev : Useful(e) => Useful(e)' \/ (e = d /\ last)
  <2> SUFFICES ASSUME NEW e \in Dev, Useful(e) PROVE Useful(e)' \/ (e = d /\ last)
    OBVIOUS
  <2>1. CASE e # d
    BY <1>1, <1>2, <2>1 DEF Useful, Attached
  <2>2. CASE e = d
    <3>1. addrs[d] # {} /\ d \in ifup
      BY <2>2 DEF Useful, Attached
    <3>2. CASE d \notin ifup'
      BY <1>2, <2>2, <3>1, <3>2 DEF last
    <3>3. CASE d \in ifup'
      BY <1>1, <1>2, <2>2, <3>1, <3>3 DEF Useful, Attached, last
    <3> QED BY <3>2, <3>3
  <2> QED BY <2>1, <2>2
<1>9. \A e \in Dev : \A b \in addrs'[e] : e \in local'[b]
  <2> SUFFICES ASSUME NEW e \in Dev, NEW b \in addrs'[e] PROVE e \in local'[b]
    OBVIOUS
  <2>1. b \in rest[e] /\ b \in addrs[e] /\ b \in Address /\ e \in local[b]
    BY <1>1, <1>2, KernelTypes
  <2>2. e \in loc[b]
    BY <1>3, <2>1
  <2>3. last => e # d
    BY <2>1 DEF last
  <2> QED BY <1>1, <2>1, <2>2, <2>3
<1>10. \A n \in Node : \A e \in neighbours'[n] : Useful(e)'
  <2> SUFFICES ASSUME NEW n \in Node, NEW e \in neighbours'[n] PROVE Useful(e)'
    OBVIOUS
  <2>1. e \in neighbours[n] /\ (last => e # d)
    BY <1>1
  <2>2. e \in Dev /\ Useful(e)
    BY <2>1, KernelTypes
  <2> QED BY <1>8, <2>1, <2>2
<1>11. \A n \in Node : main[n] # Nil /\ main[n].dev \notin flushed' => main'[n] = main[n]
  BY <1>1, <1>5, <1>6
<1>12. \A e \in Dev : Useful(e) => Useful(e)' \/ e \in flushed'
  BY <1>5, <1>8
<1> QED BY <1>7, <1>9, <1>10, <1>11, <1>12, KernelKeeps

LEMMA KernelStepKeeps ==
  ASSUME RouterInv, Kernel
  PROVE  RouterInv'
<1>1. /\ UNCHANGED <<lan, hash, table, dump>>
      /\ flushed' = flushed \cup {e \in Dev : addrs[e] # {} /\ addrs'[e] = {}}
  BY DEF Kernel
<1>2. lan.addrs \subseteq Address
  BY DEF RouterInv, RouterTyped, LanTyped
<1>3. ASSUME NEW n \in Node, NEW d \in Dev, Appear(n, d) \/ Vanish(n, d)
      PROVE  RouterInv'
  <2>1. /\ UNCHANGED <<ifup, addrs, local, main>>
        /\ neighbours' \in [Node -> SUBSET Dev]
        /\ \A m \in Node : \A e \in neighbours'[m] : e \in neighbours[m] \/ (e = d /\ Useful(d))
    BY <1>3, KernelTypes DEF Appear, Vanish, Useful
  <2>2. \A e \in Dev : Useful(e)' <=> Useful(e)
    BY <2>1 DEF Useful, Attached
  <2>3. FibTypeOK'
    BY <2>1, KernelTypes DEF FibTypeOK, FibTable
  <2>4. \A m \in Node : \A e \in neighbours'[m] : Useful(e)'
    BY <2>1, <2>2, KernelTypes
  <2> QED BY <1>1, <2>1, <2>2, <2>3, <2>4, KernelTypes, KernelKeeps
<1>4. ASSUME NEW d \in Dev, NEW a \in Address, NewAddr(d, a) \/ DevUp(d, a)
      PROVE  RouterInv'
  <2>1. /\ ifup \subseteq ifup' /\ ifup' \subseteq Dev
        /\ addrs' = [addrs EXCEPT ![d] = @ \cup {a}]
        /\ \/ local' = [local EXCEPT ![a] = @ \cup {d}]
           \/ a \in addrs[d] /\ local' = local
        /\ UNCHANGED <<neighbours, main>>
    BY <1>4, KernelTypes DEF NewAddr, DevUp
  <2> QED BY <1>1, <2>1, AddKeeps
<1>5. ASSUME NEW d \in Dev, NEW a, DelAddr(d, a)
      PROVE  RouterInv'
  <2>1. {a} \in SUBSET addrs[d] /\ Remove(d, {a}) /\ ifup' = ifup
    BY <1>5 DEF DelAddr
  <2> QED BY <1>1, <2>1, RemoveKeeps
<1>6. ASSUME NEW d \in Dev, DevDown(d)
      PROVE  RouterInv'
  <2>1. Remove(d, addrs[d]) /\ ifup' = ifup \ {d}
    BY <1>6 DEF DevDown
  <2>2. addrs[d] \in SUBSET addrs[d]
    OBVIOUS
  <2> QED BY <1>1, <2>1, <2>2, RemoveKeeps
<1> QED BY <1>2, <1>3, <1>4, <1>5, <1>6 DEF Kernel

-----------------------------------------------------------------------------
(* Both kinds of node *)

LEMMA FirstHead == Head0 \in RouteHead /\ Chosen(Head0)
<1>1. <<>> \in Seq(RouteInfo)
  OBVIOUS
<1> QED BY <1>1 DEF Head0, RouteHead, Chosen

LEMMA RouterStart == DnrouteInit \/ DnrouteIdle => RouterInv
<1> SUFFICES ASSUME DnrouteInit \/ DnrouteIdle PROVE RouterInv
  OBVIOUS
<1>1. LanTyped
  <2>1. CASE DnrouteInit
    BY <2>1, DnrouteAssumption DEF DnrouteInit, LanTyped
  <2>2. CASE DnrouteIdle
    <3>1. lan.heard = {} /\ lan.addrs = {} /\ lan.says = {}
      BY <2>2 DEF DnrouteIdle
    <3> QED BY <3>1 DEF LanTyped
  <2> QED BY <2>1, <2>2
<1>2. /\ hash = [n \in Node |-> Nil] /\ table = [x \in Dest |-> Head0] /\ flushed = {}
      /\ main = [k \in Prefix |-> Nil] /\ dump \subseteq Entries
  BY DEF DnrouteInit, DnrouteIdle, FibInit
<1>3. /\ ifup \subseteq Dev /\ addrs \in [Dev -> SUBSET Address]
      /\ neighbours \in [Node -> SUBSET Dev] /\ local \in [Address -> SUBSET Dev]
      /\ AddressKnown /\ \A n \in Node : \A d \in neighbours[n] : Useful(d)
  <2>1. CASE DnrouteInit
    <3>1. PICK a \in Address : /\ addrs = [d \in Dev |-> {a}]
                               /\ local = [b \in Address |-> IF b = a THEN Dev ELSE {}]
      BY <2>1 DEF DnrouteInit, FibInit
    <3>2. ifup = Dev /\ neighbours \in [Node -> SUBSET Dev]
      BY <2>1 DEF DnrouteInit, FibInit
    <3>3. \A d \in Dev : addrs[d] = {a} /\ d \in local[a]
      BY <3>1
    <3>4. addrs \in [Dev -> SUBSET Address] /\ local \in [Address -> SUBSET Dev]
      BY <3>1
    <3> QED BY <3>2, <3>3, <3>4 DEF AddressKnown, Useful, Attached
  <2>2. CASE DnrouteIdle
    BY <2>2 DEF DnrouteIdle, AddressKnown
  <2> QED BY <2>1, <2>2
<1>4. RouterTyped
  <2>1. table \in [Dest -> RouteHead]
    BY <1>2, FirstHead
  <2>2. dump \subseteq Node \X Dev
    BY <1>2 DEF Entries
  <2> QED BY <1>1, <1>2, <1>3, <2>1, <2>2 DEF RouterTyped, FibTypeOK
<1>5. DumpFresh
  BY <1>2, <1>3 DEF DumpFresh, Entries
<1>6. \A n \in Node : ToNeighbour(n)
  BY <1>2 DEF ToNeighbour, Here
<1>7. \A x \in Dest : Chosen(table[x])
  BY <1>2, FirstHead
<1> QED BY <1>3, <1>4, <1>5, <1>6, <1>7 DEF RouterInv

LEMMA RouterIdles == RouterInv /\ UNCHANGED dnrouteVars => RouterInv'
<1> SUFFICES ASSUME RouterInv, UNCHANGED dnrouteVars PROVE RouterInv'
  OBVIOUS
<1>1. UNCHANGED <<fibVars, lan, table, dump, flushed, hash>>
  BY DEF dnrouteVars
<1>2. \A m \in Node : Here(m)' => Here(m) /\ hash'[m].dev = hash[m].dev
  BY <1>1 DEF Here
<1> QED BY <1>1, <1>2, TypesOf, KnownKeeps

LEMMA DaemonNext == RouterInv /\ DnrouteNext => RouterInv'
<1> SUFFICES ASSUME RouterInv, DnrouteNext PROVE RouterInv'
  OBVIOUS
<1>1. CASE \E n \in Node : Sweep(n)
  BY <1>1, SweepKeeps
<1>2. CASE \E n \in Node, d \in Dev : GotNeigh(n, d) \/ RouterHello(n, d)
  BY <1>2, GotNeighKeeps, RouterHelloKeeps
<1>3. ASSUME NEW said \in lan.says, NEW d \in Dev,
             \/ said[2] \in Node /\ Level1(said[1], d, said[2], said[3])
             \/ said[2] \in Area /\ Level2(said[1], d, said[2], said[3])
      PROVE  RouterInv'
  <2>1. said[1] \in Node /\ said[3] \in Nat
    BY DEF RouterInv, RouterTyped, LanTyped
  <2> QED BY <1>3, <2>1, Level1Keeps, Level2Keeps
<1> QED BY <1>1, <1>2, <1>3, ScanKeeps, EndSweepKeeps, KernelStepKeeps DEF DnrouteNext

\* What holds on either node is kept by the steps of both.
LEMMA RoutingInv == RoutingSpec => [](RInv /\ RouterInv)
<1>1. RoutingInit => RInv /\ RouterInv
  BY RInvInit, RouterStart DEF RoutingInit
<1>2. ASSUME RInv, RouterInv, [RoutingNext]_<<scene, vars, dnrouteVars>>
      PROVE  RInv' /\ RouterInv'
  <2>1. [Next]_vars /\ (DnrouteNext \/ UNCHANGED dnrouteVars)
    BY <1>2 DEF RoutingNext
  <2> QED BY <1>2, <2>1, RInvNext, DaemonNext, RouterIdles
<1> QED BY <1>1, <1>2, PTL DEF RoutingSpec

\* The forwarding table, what the daemon keeps of its neighbours and the lists
\* of routes keep their types, whatever devices and routers do.
THEOREM RouterIsTyped == RoutingSpec => []DnrouteTypeOK
<1>1. RouterInv => DnrouteTypeOK
  <2> SUFFICES ASSUME RouterInv, NEW x \in Dest
               PROVE  /\ table[x].router \in Node \cup {Nil}
                      /\ \A i \in DOMAIN table[x].next : table[x].next[i] \in RouteInfo
    BY DEF RouterInv, RouterTyped, DnrouteTypeOK
  <2>1. table[x].router \in Node \cup {Nil} /\ table[x].next \in Seq(RouteInfo)
    BY TypesOf, HeadIs
  <2> QED BY <2>1
<1> QED BY <1>1, RoutingInv, PTL

\* dn_fib_del_ifaddr and dn_fib_add_ifaddr: whatever addresses devices share
\* and lose, each that is left is one of this node.
THEOREM AddressesAreLocal == RoutingSpec => []AddressLocal
<1>1. RouterInv => AddressLocal
  BY DEF RouterInv, AddressKnown, AddressLocal
<1> QED BY <1>1, RoutingInv, PTL

\* get_neighbours: a neighbour is reached directly, on the device it was last
\* found on, whatever routers say, unless the kernel has flushed its route.
THEOREM NeighbourIsDirect == RoutingSpec => []DirectRoute
<1>1. ASSUME RouterInv, NEW n \in Node, Here(n), hash[n].dev \notin flushed
      PROVE  /\ Lookup(n) = [scope |-> "link", gw |-> Nil, dev |-> hash[n].dev]
             /\ n \in Dest => table[n].router = Nil
  <2>1. /\ main[n] = Direct(hash[n].dev) /\ hash[n].dev # Nil
        /\ n \in Dest => table[n].router = Nil
    BY <1>1, TypesOf DEF ToNeighbour
  <2>2. hash[n].dev \in Dev
    <3>1. hash[n] \in NodeInfo
      BY <1>1, TypesOf DEF Here
    <3>2. hash[n].dev \in Dev \cup {Nil}
      BY <3>1, InfoIs
    <3> QED BY <2>1, <3>2
  <2>3. main[n] # Nil
    <3>1. Direct(hash[n].dev) \in FibRoute
      BY <2>2 DEF Direct, FibRoute
    <3> QED BY <2>1, <3>1, NilAssumption
  <2> QED BY <2>1, <2>3 DEF Lookup, Direct
<1>2. RouterInv => DirectRoute
  BY <1>1 DEF DirectRoute
<1> QED BY <1>2, RoutingInv, PTL

\* set_lowest_cost_route: the route in use is one its router still offers, and
\* none of those on offer is better.
THEOREM BestIsChosen == RoutingSpec => []BestChosen
<1>1. RouterInv => BestChosen
  <2> SUFFICES ASSUME RouterInv, NEW x \in Dest, table[x].valid, table[x].router # Nil
               PROVE  \E i \in DOMAIN table[x].next :
                        LET r == table[x].next[i]
                        IN  /\ r.valid /\ r.router = table[x].router /\ r.cost = table[x].cost
                            /\ \A j \in DOMAIN table[x].next :
                                 table[x].next[j].valid => ~Better(table[x].next[j], r)
    BY DEF BestChosen
  <2>1. Chosen(table[x])
    BY DEF RouterInv
  <2> QED BY <2>1 DEF Chosen
<1> QED BY <1>1, RoutingInv, PTL

\* The two properties of an end node, where it may be a router instead: the
\* router is recent, and links on the Ethernet go direct.
THEOREM EndNodeToo == RoutingSpec => [](RouterHeard /\ IntraEthernet)
<1>1. RInv => RouterHeard /\ IntraEthernet
  BY InvHeard, InvIntra DEF RInv
<1> QED BY <1>1, RoutingInv, PTL

=============================================================================

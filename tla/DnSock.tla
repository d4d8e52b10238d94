------------------------------- MODULE DnSock -------------------------------
(***************************************************************************)
(* The tables of sockets: how bind, listen, connect and accept file a      *)
(* socket, which ports are given out, and which socket a packet finds.     *)
(*                                                                         *)
(* dn_hash_lock makes each change of a table and each lookup one step.  An *)
(* accept is two steps, because the new socket is in no table between      *)
(* them.  What a link does is in NspLink; here a packet of any link, old   *)
(* or new, may arrive at any time.                                         *)
(*                                                                         *)
(* A hash list is the set of its sockets.  Its order decides only which of *)
(* several listeners for one object is found; here it may be any of them.  *)
(***************************************************************************)
EXTENDS Naturals, Sequences

CONSTANTS Sk,          \* sockets the system can have
          Ports,       \* 65536: ports are 16 bits wide
          HashSize,    \* DN_SK_HASH_SIZE
          Object,      \* object numbers and names
          ListenHash,  \* listen_hash of each
          Account,     \* the name an unbound socket is given by connect
          Peer,        \* addresses of other nodes
          Remote,      \* bound: ports that other nodes use, zero included
          Backlog      \* sk_max_ack_backlog of the listening sockets

ASSUME PortsAssumption == Ports \in Nat \ {0, 1} /\ HashSize \in Nat \ {0}
ASSUME ObjectAssumption == /\ ListenHash \in [Object -> 0 .. (HashSize - 1)]
                           /\ Account \in Object
ASSUME PeerAssumption == Peer \subseteq Nat \ {0} /\ Remote \subseteq Nat /\ 0 \in Remote
ASSUME BacklogAssumption == Backlog \in Nat

VARIABLES sock,   \* the sockets
          port    \* the last port given out

vars == <<sock, port>>

\* END stands for the states that close a link, CI for CD too.
State == {"FREE", "O", "CI", "CR", "CC", "RUN", "END"}

ConnInit == [src : Peer, sport : Remote \ {0}, obj : Object]
Packet == [src : Peer, sport : Remote, dst : 1 .. (Ports - 1)]

Sock == [state  : State,
         sk     : {"CLOSE", "LISTEN", "ESTABLISHED"},   \* sk_state
         zapped : BOOLEAN,                              \* SOCK_ZAPPED: not bound
         dead   : BOOLEAN,                              \* SOCK_DEAD
         wild   : BOOLEAN,                              \* SDF_WILD
         obj    : Object,                               \* in addr
         loc    : 0 .. (Ports - 1),                     \* addrloc
         rem    : Remote,                               \* addrrem
         peer   : Peer \cup {0},
         hashed : BOOLEAN,                              \* sk_hashed
         at     : 0 .. (HashSize - 1),                  \* the list, if not wild
         queue  : Seq(ConnInit),                        \* sk_receive_queue
         kept   : BOOLEAN]                              \* history: a bind failed

\* dn_alloc_sock
New(st) == [state |-> st, sk |-> "CLOSE", zapped |-> TRUE, dead |-> FALSE,
            wild |-> FALSE, obj |-> Account, loc |-> 0, rem |-> 0,
            peer |-> 0, hashed |-> FALSE, at |-> 0,
            queue |-> <<>>, kept |-> FALSE]

Live(s) == sock[s].state # "FREE" /\ ~sock[s].dead

InWild(s) == sock[s].hashed /\ sock[s].wild
InList(s, b) == sock[s].hashed /\ ~sock[s].wild /\ sock[s].at = b

-----------------------------------------------------------------------------
(* Lookups *)

\* passes over sockets in LISTEN, as the other lookups do
BadInUse(p) == \E s \in Sk : /\ InList(s, p % HashSize) /\ sock[s].loc = p
                             /\ sock[s].sk # "LISTEN"

\* check_port
InUse(p) == \E s \in Sk : InList(s, p % HashSize) /\ sock[s].loc = p

\* dn_sklist_find_listener: the wild socket is only looked at when no other
\* will do.
FindListener(o) ==
  LET named == {s \in Sk : /\ InList(s, ListenHash[o])
                           /\ sock[s].sk = "LISTEN" /\ sock[s].obj = o}
  IN  IF named # {} THEN named
      ELSE {s \in Sk : InWild(s) /\ sock[s].sk = "LISTEN"}

\* dn_check_duplicate_conn
Duplicate(m) ==
  \E s \in Sk : /\ sock[s].hashed /\ ~sock[s].wild /\ sock[s].sk # "LISTEN"
                /\ sock[s].peer = m.src /\ sock[s].rem = m.sport

\* dn_check_returned_conn
Returned(p) == {s \in Sk : /\ InList(s, p % HashSize)
                           /\ sock[s].sk # "LISTEN" /\ sock[s].loc = p}

\* dn_find_by_skb
FindBySkb(m) ==
  {s \in Sk : /\ InList(s, m.dst % HashSize)
              /\ sock[s].peer = m.src /\ sock[s].loc = m.dst
              /\ sock[s].rem \in {0, m.sport}}

-----------------------------------------------------------------------------
(* Changes of the tables *)

Set(s, r) == sock' = [sock EXCEPT ![s] = r]

\* The first free port after the last one given out, if there is one
Ahead(p) == (p + Ports - port - 1) % Ports
NextPort == LET free == {p \in 1 .. (Ports - 1) : ~InUse(p)}
            IN  {p \in free : \A q \in free : Ahead(p) <= Ahead(q)}

\* dn_hash_sock of r as socket s.  The caller makes it no if that fails; a
\* wild socket that finds another has its port by then.
HashSock(s, r, no) ==
  \/ /\ r.loc = 0 /\ NextPort = {}
     /\ Set(s, no) /\ UNCHANGED port
  \/ \E p \in IF r.loc = 0 THEN NextPort ELSE {r.loc} :
       /\ port' = IF r.loc = 0 THEN p ELSE port
       /\ Set(s, IF r.wild /\ \E t \in Sk : InWild(t)
                 THEN [no EXCEPT !.loc = p, !.kept = TRUE]
                 ELSE [r EXCEPT !.loc = p, !.hashed = TRUE, !.at = p % HashSize])

\* leaves the socket where it was bound
BadRehashed(r) == IF r.wild THEN r ELSE [r EXCEPT !.loc = 0]

\* dn_rehash_sock
Rehashed(r) == IF r.wild THEN r
               ELSE [r EXCEPT !.hashed = TRUE, !.loc = 0, !.at = ListenHash[r.obj]]

-----------------------------------------------------------------------------
(* Calls of users *)

Init == /\ sock = [s \in Sk |-> New("FREE")]
        /\ port \in 0 .. (Ports - 1)

Create(s) == /\ sock[s].state = "FREE"
             /\ Set(s, New("O")) /\ UNCHANGED port

Bind(s) ==
  /\ Live(s) /\ sock[s].zapped /\ sock[s].state = "O"
  /\ \E o \in Object, w \in BOOLEAN :
       LET r == [sock[s] EXCEPT !.obj = o, !.wild = w]
       IN  HashSock(s, [r EXCEPT !.zapped = FALSE], r)

Listen(s) ==
  /\ Live(s) /\ ~sock[s].zapped
  /\ sock[s].state = "O" /\ sock[s].sk # "LISTEN"
  /\ Set(s, Rehashed([sock[s] EXCEPT !.sk = "LISTEN"]))
  /\ UNCHANGED port

\* __dn_connect, to a node that there is a route to or is none
Connect(s, n) ==
  /\ Live(s) /\ sock[s].state = "O"
  /\ \E st \in {"CI", "O"} :
       LET r == [sock[s] EXCEPT !.peer = n, !.state = st]
           b == [sock[s] EXCEPT !.wild = FALSE, !.obj = Account]
       IN  IF sock[s].zapped
           THEN HashSock(s, [b EXCEPT !.peer = n, !.state = st, !.zapped = FALSE], b)
           ELSE Set(s, r) /\ UNCHANGED port

\* files what came by a wild socket where only the wild socket belongs
BadAcceptTake(t, s) ==
  /\ Live(t) /\ sock[t].sk = "LISTEN" /\ sock[t].state = "O"
  /\ sock[t].queue # <<>> /\ sock[s].state = "FREE"
  /\ LET m == Head(sock[t].queue)
     IN  sock' = [sock EXCEPT ![t] = [sock[t] EXCEPT !.queue = Tail(@)],
                   ![s] = [New("CR") EXCEPT !.sk = "LISTEN", !.rem = m.sport,
                             !.wild = sock[t].wild, !.peer = m.src, !.obj = m.obj]]
  /\ UNCHANGED port

\* dn_accept of a connect initiate queued to t, until it lets go of t.  A
\* retransmitted one that is known already is dropped; which ones are
\* retransmitted matters nowhere else.
AcceptTake(t, s) ==
  /\ Live(t) /\ sock[t].sk = "LISTEN" /\ sock[t].state = "O"
  /\ sock[t].queue # <<>> /\ sock[s].state = "FREE"
  /\ LET m == Head(sock[t].queue)
         rest == [sock[t] EXCEPT !.queue = Tail(@)]
     IN  \/ Duplicate(m) /\ sock' = [sock EXCEPT ![t] = rest]
         \/ sock' = [sock EXCEPT ![t] = rest,
                      ![s] = [New("CR") EXCEPT !.sk = "LISTEN", !.rem = m.sport,
                                               !.peer = m.src, !.obj = m.obj]]
  /\ UNCHANGED port

\* The rest of dn_accept.  If there is no port the socket is released, before
\* anybody has seen it.
AcceptHash(s) ==
  /\ Live(s) /\ sock[s].state = "CR" /\ sock[s].zapped
  /\ HashSock(s, [sock[s] EXCEPT !.zapped = FALSE],
                 [sock[s] EXCEPT !.state = "END", !.sk = "CLOSE", !.dead = TRUE])

\* dn_confirm_accept
Confirm(s) == /\ Live(s) /\ sock[s].state = "CR" /\ ~sock[s].zapped
              /\ Set(s, [sock[s] EXCEPT !.state = "CC"]) /\ UNCHANGED port

\* DSO_CONREJECT
Reject(s) == /\ Live(s) /\ sock[s].state = "CR" /\ ~sock[s].zapped
             /\ Set(s, [sock[s] EXCEPT !.state = "END"]) /\ UNCHANGED port

\* dn_destroy_sock: a socket without a link, or with one it has accepted and
\* that is not yet up, goes at once, others when their timer finds them.  One
\* that is connecting stays so until then.
Destroyed(r) == IF r.state \in {"O", "CC"} THEN New("FREE")
                ELSE [r EXCEPT !.state = IF @ = "CI" THEN "CI" ELSE "END", !.sk = "CLOSE"]

Shutdown(s) == /\ Live(s) /\ sock[s].state \in {"CI", "RUN", "END"}
               /\ Set(s, Destroyed(sock[s])) /\ UNCHANGED port

Close(s) == /\ Live(s) /\ (sock[s].state = "CR" => ~sock[s].zapped)
            /\ Set(s, IF sock[s].state \in {"O", "CC"} THEN New("FREE")
                      ELSE [Destroyed(sock[s]) EXCEPT !.dead = TRUE, !.queue = <<>>])
            /\ UNCHANGED port

-----------------------------------------------------------------------------
(* Packets and timers *)

\* dn_nsp_conn_init
RecvConnInit(m) ==
  \E s \in FindListener(m.obj) :
    /\ Len(sock[s].queue) <= IF sock[s].state \in {"O", "CI"} THEN Backlog ELSE 0
    /\ Set(s, [sock[s] EXCEPT !.queue = Append(@, m)])
    /\ UNCHANGED port

\* a connect confirm, or data or an acknowledgement
RecvUp(m) ==
  \E s \in FindBySkb(m) :
    /\ \/ sock[s].state = "CI"
       \/ sock[s].state = "CC" /\ ~sock[s].dead
    /\ Set(s, [sock[s] EXCEPT !.state = "RUN", !.sk = "ESTABLISHED",
                 !.rem = IF sock[s].state = "CI" THEN m.sport ELSE @])
    /\ UNCHANGED port

\* dn_nsp_disc_init
RecvDisc(m) ==
  \E s \in FindBySkb(m) :
    /\ Set(s, [sock[s] EXCEPT !.sk = "CLOSE", !.rem = m.sport,
                 !.state = IF @ \in {"CI", "RUN"} THEN "END" ELSE @])
    /\ UNCHANGED port

\* dn_returned_conn_init
RecvReturned(p) ==
  \E s \in Returned(p) :
    /\ sock[s].state = "CI"
    /\ Set(s, [sock[s] EXCEPT !.state = "END", !.sk = "CLOSE"])
    /\ UNCHANGED port

\* The retransmission and outgoing timers of a link that does not come up
GiveUp(s) == /\ sock[s].state \in {"CI", "CC"}
             /\ Set(s, [sock[s] EXCEPT !.state = "END", !.sk = "CLOSE"])
             /\ UNCHANGED port

\* dn_destroy_timer
DestroyTimer(s) == /\ sock[s].state \in {"CI", "END"} /\ sock[s].dead
                   /\ Set(s, New("FREE")) /\ UNCHANGED port

Next ==
  \/ \E s \in Sk : \/ Create(s) \/ Bind(s) \/ Listen(s) \/ AcceptHash(s)
                   \/ Confirm(s) \/ Reject(s) \/ Shutdown(s) \/ Close(s)
                   \/ GiveUp(s) \/ DestroyTimer(s)
                   \/ \E n \in Peer : Connect(s, n)
                   \/ \E t \in Sk : AcceptTake(t, s)
  \/ \E m \in ConnInit : RecvConnInit(m)
  \/ \E m \in Packet : RecvUp(m) \/ RecvDisc(m)
  \/ \E p \in 1 .. (Ports - 1) : RecvReturned(p)

Spec == Init /\ [][Next]_vars

-----------------------------------------------------------------------------
(* Properties *)

TypeOK == sock \in [Sk -> Sock] /\ port \in 0 .. (Ports - 1)

\* check_port: "Valid ports are those greater than zero and not already in
\* use."  Two sockets in the lists have different ports, though a socket may be
\* filed with a port it already had: except that one is not looked for when a
\* bind to the wild object failed and the socket, which kept the port it was
\* given on the way, is bound again.
PortsApart ==
  \A s, t \in Sk :
    /\ s # t /\ sock[s].hashed /\ ~sock[s].wild /\ sock[t].hashed /\ ~sock[t].wild
    /\ sock[s].loc = sock[t].loc
    => sock[s].loc = 0 \/ sock[s].kept \/ sock[t].kept

\* The socket has a link, or asks for one from a port of its own.
Linked(s) == /\ ~sock[s].zapped
             /\ \/ sock[s].state \in {"CR", "CC", "RUN"}
                \/ sock[s].state = "CI" /\ ~sock[s].wild /\ sock[s].loc # 0
             /\ \A t \in Sk : ~sock[t].kept

\* dn_find_by_skb: what the other end of a link sends, from the port the link
\* has there, finds the socket of that link and no other, whatever listens, was
\* accepted, closed or filed anew before, and whoever had the port before.
LinkFound ==
  \A s \in Sk : Linked(s) =>
    \A p \in Remote : sock[s].rem \in {0, p} =>
      FindBySkb([src |-> sock[s].peer, sport |-> p, dst |-> sock[s].loc]) = {s}

\* dn_sklist_find_listener and dn_rehash_sock: while somebody listens for an
\* object, or for every object, no connect initiate for it is answered with "no
\* such object".
NoListenerLost ==
  \A s \in Sk :
    sock[s].state = "O" /\ sock[s].sk = "LISTEN" =>
      \A o \in Object : sock[s].wild \/ sock[s].obj = o => FindListener(o) # {}

\* dn_hash_sock: BUG_ON(sk_hashed(sk)).  No socket that may be filed is in a
\* table, and none is in a table after it has been freed.
HashedOnce ==
  \A s \in Sk : sock[s].zapped \/ sock[s].state = "FREE" => ~sock[s].hashed
=============================================================================

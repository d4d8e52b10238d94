------------------------------ MODULE NspLink ------------------------------
(***************************************************************************)
(* The life of a logical link: a node whose users connect, and a node that *)
(* listens, accepts, confirms or rejects; disconnection by either end; the *)
(* timers; packets lost, repeated and reordered; nodes that restart.       *)
(*                                                                         *)
(* A handler, a user call between two sleeps, and a timer each run under   *)
(* the socket lock and are operators from a socket to a socket; what they  *)
(* send is put in the field out.  A call that sleeps is two actions.       *)
(*                                                                         *)
(* Of the traffic of the established link only link service messages are   *)
(* here, numbered and acknowledged one at a time as in NspScp, because     *)
(* they decide when an end enters RUN and which timer it runs.  A port is  *)
(* used once.                                                              *)
(***************************************************************************)
EXTENDS Naturals, Sequences, FiniteSets

CONSTANTS Caller,      \* local ports of the sockets that connect
          Callee,      \* local ports that accepted sockets get
          None,        \* port number zero
          Retrans,     \* NSP_CI_RETRANS and NSP_CC_RETRANS
          DiCount,     \* decnet_di_count and decnet_dr_count
          Backlog,     \* sk_max_ack_backlog of the listening socket
          Immediate,   \* its accept_mode is ACC_IMMED
          Use,         \* bound: which of the less common calls users make
          MaxLink,     \* bound: link service messages one end sends
          MaxLoss,     \* bound: packets lost
          MaxDup,      \* bound: packets delivered and kept to deliver again
          MaxCrash     \* bound: restarts of a node

ASSUME PortAssumption == Caller \cap Callee = {} /\ None \notin Caller \cup Callee
ASSUME CountAssumption == /\ Retrans \in Nat /\ DiCount \in Nat \ {0}
                          /\ Backlog \in Nat /\ Immediate \in BOOLEAN
ASSUME UseAssumption == Use \subseteq {"wait", "again", "reject", "read",
                                       "shutdown", "unlisten"}
ASSUME BoundAssumption == /\ MaxLink \in Nat \ {0} /\ MaxLoss \in Nat
                          /\ MaxDup \in Nat /\ MaxCrash \in Nat

VARIABLES sock,        \* the socket of each port
          listening,   \* the listening socket is open
          queue,       \* its receive queue of connect initiates
          net,         \* packets in flight
          faults       \* how many of each kind there were

vars == <<sock, listening, queue, net, faults>>

Port == Caller \cup Callee

\* scp->state, with FREE before a socket exists and GONE after
State == {"FREE", "O", "CR", "DR", "DRC", "CC", "CI", "NR", "NC", "CD", "RJ",
          "RUN", "DI", "DIC", "DN", "CN", "GONE"}

\* RTS is a connect initiate returned to its sender; DC and NL are disconnect
\* confirms with reasons "disconnect confirm" and "no link".
Kind == {"CI", "RCI", "RTS", "CA", "CC", "LS", "ACK", "DI", "DC", "NL"}
Packet == [kind : Kind, src : Port \cup {None}, dst : Port \cup {None}, num : 0 .. MaxLink]

Sock == [loc     : Port,                     \* addrloc
         rem     : Port \cup {None},         \* addrrem
         state   : State,
         hashed  : BOOLEAN,
         dead    : BOOLEAN,                  \* SOCK_DEAD, no sk_socket
         sk      : {"CLOSE", "LISTEN", "ESTABLISHED"},       \* sk_state
         so      : {"UNCONNECTED", "CONNECTING", "CONNECTED", "DISCONNECTING"},
         err     : BOOLEAN,                  \* sk_err
         call    : {"none", "connect", "take", "accept", "failed"},
         fxn     : {"none", "conninit", "connconf", "xmit", "destroy"},
         persist : BOOLEAN,                  \* the persist timer is running
         count   : 0 .. Retrans,             \* persist_count
         conn    : BOOLEAN,                  \* conntimer is running
         shift   : 0 .. DiCount,             \* nsp_rxtshift; higher is DiCount
         nsent   : 0 .. MaxLink,             \* link service messages numbered,
         nack    : 0 .. MaxLink,             \* acknowledged
         nrcv    : 0 .. MaxLink,             \* and received
         pend    : BOOLEAN,                  \* a link service message is due
         ran     : BOOLEAN,                  \* history: has been in RUN
         tries   : 0 .. (Retrans + 1),       \* history: CI or CC sent
         out     : SUBSET Packet]

New(p, st) ==
  [loc |-> p, rem |-> None, state |-> st, hashed |-> FALSE, dead |-> FALSE,
   sk |-> "CLOSE", so |-> "UNCONNECTED", err |-> FALSE, call |-> "none",
   fxn |-> "none", persist |-> FALSE, count |-> 0, conn |-> FALSE, shift |-> 0,
   nsent |-> 0, nack |-> 0, nrcv |-> 0, pend |-> FALSE, ran |-> FALSE,
   tries |-> 0, out |-> {}]

\* sock_put of the last reference; only the history is kept
Freed(s) == [New(s.loc, "GONE") EXCEPT !.rem = IF s.ran THEN s.rem ELSE None,
                                       !.dead = s.dead, !.ran = s.ran,
                                       !.out = s.out]

Send(s, kind, num) ==
  [s EXCEPT !.out = @ \cup {[kind |-> kind, src |-> s.loc, dst |-> s.rem, num |-> num]}]

-----------------------------------------------------------------------------
(* dn_nsp_out.c *)

\* dn_nsp_persist, and the timer set to what it returns
Persist(s) ==
  [s EXCEPT !.persist = TRUE,
            !.shift = IF s.state = "RUN" /\ @ < DiCount THEN @ + 1 ELSE @]

SendLink(s) ==
  LET t == [s EXCEPT !.nsent = @ + 1, !.fxn = "xmit"]
  IN  Persist(Send(t, "LS", t.nsent))

SchedulePending(s, due) ==
  IF (s.pend \/ due) /\ s.nsent = s.nack
  THEN SendLink([s EXCEPT !.pend = FALSE])
  ELSE [s EXCEPT !.pend = @ \/ due]

\* dn_nsp_send_disc; dn_nsp_do_disc sends nothing to port zero
SendDisc(s, kind) == IF s.rem = None THEN s ELSE Send(s, kind, 0)

SendConnInit(s, kind) ==
  [s EXCEPT !.out = @ \cup {[kind |-> kind, src |-> s.loc, dst |-> None, num |-> 0]},
            !.tries = @ + 1]

\* names no source port
SendConnAck(s) ==
  [s EXCEPT !.out = @ \cup {[kind |-> "CA", src |-> None, dst |-> s.rem, num |-> 0]}]

SendConnConf(s) == [Send(s, "CC", 0) EXCEPT !.tries = @ + 1]

GiveUp(s) == [s EXCEPT !.state = "NC", !.err = TRUE, !.sk = "CLOSE"]

\* does not look at the count
BadRetransConnInit(s) ==
  IF s.state # "CI" THEN s
  ELSE [SendConnInit(s, "RCI") EXCEPT !.count = @ - 1, !.persist = TRUE]

RetransConnInit(s) ==
  IF s.state # "CI" THEN s
  ELSE IF s.count # 0
  THEN [SendConnInit(s, "RCI") EXCEPT !.count = @ - 1, !.persist = TRUE]
  ELSE GiveUp(s)

RetransConnConf(s) ==
  IF s.state # "CC" THEN s
  ELSE IF s.count # 0
  THEN [SendConnConf(s) EXCEPT !.count = @ - 1, !.persist = TRUE]
  ELSE GiveUp(s)

XmitTimeout(s) ==
  IF s.nsent > s.nack THEN Persist(Send(s, "LS", s.nsent)) ELSE s

-----------------------------------------------------------------------------
(* dn_nsp_in.c *)

\* dn_find_by_skb: is m for the socket s of port m.dst?
FindBySkb(s, m) == s.hashed /\ (s.rem = None \/ s.rem = m.src)

\* takes the remote port and enters RUN in any state
BadConnConf(s, m) ==
  LET t == [s EXCEPT !.state = "RUN", !.sk = "ESTABLISHED", !.rem = m.src,
                     !.ran = TRUE]
  IN  IF s.state \in {"CI", "CD"}
      THEN SchedulePending([t EXCEPT !.persist = FALSE, !.conn = FALSE], TRUE) ELSE t

ConnConf(s, m) ==
  IF s.state \notin {"CI", "CD"} THEN s
  ELSE SchedulePending(
         [s EXCEPT !.state = "RUN", !.sk = "ESTABLISHED", !.rem = m.src,
                   !.persist = FALSE, !.conn = FALSE, !.ran = TRUE], TRUE)

\* does not start the outgoing timer
BadConnAck(s) ==
  IF s.state = "CI" THEN [s EXCEPT !.state = "CD", !.persist = FALSE] ELSE s

\* does not look at the state
BadConnAckAlways(s) == [s EXCEPT !.state = "CD", !.persist = FALSE, !.conn = TRUE]

ConnAck(s) ==
  IF s.state = "CI"
  THEN [s EXCEPT !.state = "CD", !.persist = FALSE, !.conn = TRUE]
  ELSE s

Disconnecting(s) ==
  IF s.dead \/ s.so = "UNCONNECTED" THEN s.so ELSE "DISCONNECTING"

DiscInit(s, m) ==
  LET calling == s.state \in {"CI", "CD"}
      next == CASE calling -> "RJ"
                [] s.state = "RUN" -> "DN"
                [] s.state = "DI" -> "DIC"
                [] OTHER -> s.state
      t == [s EXCEPT !.rem = m.src, !.sk = "CLOSE", !.state = next,
                     !.err = @ \/ calling, !.conn = @ /\ ~calling,
                     !.so = Disconnecting(s)]
  IN  Persist([SendDisc(t, "DC") EXCEPT !.fxn = "destroy"])

DiscConf(s, m) ==
  LET next == CASE s.state = "CI" -> "NR"
                [] s.state = "DR" -> IF m.kind = "DC" THEN "DRC" ELSE "CN"
                [] s.state = "DI" -> "DIC"
                [] s.state \in {"RUN", "CC"} -> "CN"
                [] OTHER -> s.state
  IN  Persist([s EXCEPT !.sk = "CLOSE", !.state = next,
                        !.so = Disconnecting(s), !.fxn = "destroy"])

ReturnedConnInit(s) == IF s.state = "CI" THEN GiveUp(s) ELSE s

\* Data and acknowledgements take a CC socket to RUN.
Established(s) ==
  IF s.state = "CC" /\ ~s.dead
  THEN [s EXCEPT !.state = "RUN", !.sk = "ESTABLISHED", !.ran = TRUE] ELSE s

\* dn_nsp_check_xmit_queue of the other-data queue
ProcessAck(s, m) ==
  IF m.num > s.nack THEN SchedulePending([s EXCEPT !.nack = m.num], FALSE) ELSE s

LinkService(s, m) ==
  IF s.state # "RUN" THEN s
  ELSE LET t == [s EXCEPT !.nrcv = IF m.num = @ + 1 THEN m.num ELSE @]
       IN  Send(t, "ACK", t.nrcv)

\* dn_nsp_rx_packet for a socket it found, then dn_nsp_backlog_rcv
Receive(s0, m) ==
  LET s == [s0 EXCEPT !.shift = 0]
  IN  CASE m.kind = "CC"  -> ConnConf(s, m)
        [] m.kind = "CA"  -> ConnAck(s)
        [] m.kind = "DI"  -> DiscInit(s, m)
        [] m.kind \in {"DC", "NL"} -> DiscConf(s, m)
        [] m.kind = "LS"  -> LinkService(Established(s), m)
        [] m.kind = "ACK" -> ProcessAck(Established(s), m)

-----------------------------------------------------------------------------
(* af_decnet.c *)

\* quiet: nothing was received or sent for two seconds
DestroyTimer(s0, quiet) ==
  LET s == Persist(s0)
      last == s.shift >= DiCount
  IN  CASE s.state = "DI" -> [SendDisc(s, "DI") EXCEPT !.state = IF last THEN "CN" ELSE @]
        [] s.state = "DR" -> [SendDisc(s, "DI") EXCEPT !.state = IF last THEN "DRC" ELSE @]
        [] OTHER -> IF s.dead /\ quiet THEN Freed(s) ELSE s

DestroySock(s0) ==
  LET s == [s0 EXCEPT !.shift = 0, !.so = Disconnecting(s0), !.sk = "CLOSE"]
      next == CASE s.state = "CR" -> "DR"
                [] s.state = "RUN" -> "DI"
                [] OTHER -> s.state
      t == [s EXCEPT !.state = next]
      u == CASE next = "DN" -> SendDisc(t, "DC")
             [] next \in {"DI", "DR"} -> SendDisc(t, "DI")
             [] OTHER -> t
  IN  IF s.state \in {"O", "CC"} THEN Freed(s)
      ELSE Persist([u EXCEPT !.fxn = "destroy"])

\* does not wait for the caller
BadConfirmAccept(s) ==
  [SendConnConf([s EXCEPT !.state = "RUN", !.ran = TRUE]) EXCEPT
     !.persist = TRUE, !.count = Retrans, !.fxn = "connconf", !.call = "accept"]

\* dn_confirm_accept until it sleeps
ConfirmAccept(s) ==
  [SendConnConf([s EXCEPT !.state = "CC"]) EXCEPT
     !.persist = TRUE, !.count = Retrans, !.fxn = "connconf", !.call = "accept"]

\* dn_check_duplicate_conn
DuplicateConn(m) ==
  \E p \in Port : sock[p].hashed /\ sock[p].sk # "LISTEN" /\ sock[p].rem = m.src

-----------------------------------------------------------------------------

Init == /\ sock = [p \in Port |-> IF p \in Caller THEN [New(p, "O") EXCEPT !.hashed = TRUE]
                                                  ELSE New(p, "FREE")]
        /\ listening = TRUE
        /\ queue = <<>>
        /\ net = {}
        /\ faults = [loss |-> 0, dup |-> 0, crash |-> 0]

\* A packet for a socket that is gone would find none: only a connect confirm
\* is answered then, and the others need not be carried.
Carried(packets, socks) ==
  {m \in packets : m.dst = None \/ m.kind = "CC" \/ socks[m.dst].state # "GONE"}

\* The socket of port p becomes s; old leaves the network.
Update(p, s, old) ==
  /\ sock' = [sock EXCEPT ![p] = [s EXCEPT !.out = {}]]
  /\ net' = Carried((net \ old) \cup s.out, sock')

User(p, s) == Update(p, s, {}) /\ UNCHANGED <<listening, queue, faults>>

\* A user process holds the socket and is not inside a call.
Idle(p) == ~sock[p].dead /\ sock[p].call = "none"

Connect(p) ==
  /\ Idle(p) /\ sock[p].state = "O"
  /\ \E call \in {"none"} \cup (IF "wait" \in Use THEN {"connect"} ELSE {}) :
       User(p, [SendConnInit(sock[p], "CI") EXCEPT
                  !.state = "CI", !.so = "CONNECTING", !.fxn = "conninit",
                  !.persist = TRUE, !.count = Retrans, !.call = call])

\* connect called again on a socket that is connecting
ConnectAgain(p) ==
  /\ "again" \in Use /\ Idle(p) /\ sock[p].so = "CONNECTING"
  /\ LET s == sock[p]
     IN  User(p, CASE s.state = "RUN" -> [s EXCEPT !.so = "CONNECTED"]
                   [] s.state \in {"CI", "CC"} -> [s EXCEPT !.call = "connect"]
                   [] OTHER -> [s EXCEPT !.so = "UNCONNECTED"])

\* A message is sent or read before the link is up.
WaitRun(p) == /\ "wait" \in Use /\ Idle(p)
              /\ sock[p].state \in {"CI", "CC"}
              /\ User(p, [sock[p] EXCEPT !.call = "connect"])

\* How dn_wait_run and dn_confirm_accept leave the socket
Leave(s) ==
  LET waiting == IF s.call = "connect" THEN {"CI", "CC"} ELSE {"CC"}
      ok == s.state = "RUN"
  IN  [s EXCEPT !.so = IF ok THEN "CONNECTED"
                       ELSE IF s.state \in waiting THEN @ ELSE "UNCONNECTED",
                !.err = ok /\ @,
                !.call = IF ~ok /\ @ = "accept" /\ Immediate THEN "failed" ELSE "none"]

MayReturn(p) == /\ sock[p].call \in {"connect", "accept"}
                /\ sock[p].state = "RUN" \/ sock[p].err

Return(p) == MayReturn(p) /\ User(p, Leave(sock[p]))

\* a signal, or the end of the socket's send or receive timeout
Interrupt(p) == /\ "wait" \in Use
                /\ sock[p].call \in {"connect", "accept"}
                /\ sock[p].state # "RUN" /\ ~sock[p].err
                /\ User(p, Leave(sock[p]))

\* dn_accept up to the allocation of a socket; the listener is unlocked after it
AcceptTake(p) ==
  /\ listening /\ queue # <<>>
  /\ LET m == Head(queue)
         dup == m.kind = "RCI" /\ DuplicateConn(m)
     IN  sock' = IF dup THEN sock
                 ELSE [sock EXCEPT ![p] = [New(p, "CR") EXCEPT
                         !.rem = m.src, !.sk = "LISTEN", !.call = "take"]]
  /\ queue' = Tail(queue)
  /\ UNCHANGED <<listening, net, faults>>

\* The ports are given out in a fixed order.
Accept == LET free == {p \in Callee : sock[p].state = "FREE"}
          IN  free # {} /\ AcceptTake(CHOOSE p \in free : TRUE)

\* the rest of dn_accept
AcceptHash(p) ==
  /\ sock[p].call = "take"
  /\ LET s == [SendConnAck(sock[p]) EXCEPT !.hashed = TRUE, !.call = "none"]
     IN  User(p, IF Immediate THEN ConfirmAccept(s) ELSE s)

\* DSO_CONACCEPT, or the first message sent or read
Confirm(p) == /\ Idle(p) /\ sock[p].state = "CR"
              /\ User(p, ConfirmAccept(sock[p]))

\* DSO_CONREJECT
Reject(p) == /\ "reject" \in Use /\ Idle(p) /\ sock[p].state = "CR"
             /\ User(p, SendDisc([sock[p] EXCEPT !.state = "DR"], "DI"))

\* A read that owes the peer a link service message
Read(p) == /\ "read" \in Use /\ Idle(p) /\ sock[p].state = "RUN"
           /\ sock[p].nsent + (IF sock[p].pend THEN 1 ELSE 0) < MaxLink
           /\ User(p, SchedulePending(sock[p], TRUE))

\* Another process that shares the socket may be waiting in a call.
Shutdown(p) == /\ "shutdown" \in Use
               /\ ~sock[p].dead /\ sock[p].state # "O"
               /\ sock[p].so \notin {"UNCONNECTED", "DISCONNECTING"}
               /\ User(p, DestroySock(sock[p]))

Close(p) == /\ ~sock[p].dead /\ sock[p].call \in {"none", "failed"}
            /\ sock[p].state \notin {"FREE", "GONE"}
            /\ User(p, DestroySock([sock[p] EXCEPT !.dead = TRUE, !.call = "none"]))

CloseListener == /\ "unlisten" \in Use /\ listening
                 /\ listening' = FALSE /\ queue' = <<>>
                 /\ UNCHANGED <<sock, net, faults>>

-----------------------------------------------------------------------------
(* dn_slow_timer *)

Expired(s0, quiet) ==
  LET s == [s0 EXCEPT !.persist = FALSE]
  IN  CASE s.fxn = "conninit" -> RetransConnInit(s)
        [] s.fxn = "connconf" -> RetransConnConf(s)
        [] s.fxn = "xmit" -> XmitTimeout(s)
        [] s.fxn = "destroy" -> DestroyTimer(s, quiet)

PersistTimer(p, quiet) == sock[p].persist /\ User(p, Expired(sock[p], quiet))

ConnTimer(p) ==
  /\ sock[p].conn
  /\ LET s == [sock[p] EXCEPT !.conn = FALSE]
     IN  User(p, IF s.state = "CD" THEN [s EXCEPT !.state = "NC", !.sk = "CLOSE"] ELSE s)

\* dn_keepalive
Keepalive(p) == /\ sock[p].state = "RUN"
                /\ sock[p].nsent = sock[p].nack /\ sock[p].nsent < MaxLink
                /\ User(p, SendLink(sock[p]))

-----------------------------------------------------------------------------
(* The network *)

\* dn_nsp_conn_init of the listening socket, or dn_nsp_no_socket
DeliverConnInit(m, old) ==
  /\ UNCHANGED sock
  /\ IF listening
     THEN /\ queue' = IF Len(queue) > Backlog THEN queue ELSE Append(queue, m)
          /\ net' = net \ old
     ELSE /\ net' = Carried((net \ old) \cup
                      {[kind |-> "DI", src |-> None, dst |-> m.src, num |-> 0]}, sock)
          /\ UNCHANGED queue

DeliverReturned(m, old) ==
  LET s == sock[m.src]
  IN  /\ Update(m.src, IF s.hashed /\ s.sk # "LISTEN" THEN ReturnedConnInit(s) ELSE s, old)
      /\ UNCHANGED queue

DeliverToSocket(m, old) ==
  LET s == sock[m.dst]
  IN  /\ IF FindBySkb(s, m) THEN Update(m.dst, Receive(s, m), old)
         ELSE /\ UNCHANGED sock
              /\ net' = Carried((net \ old) \cup
                   (IF m.kind = "CC"
                    THEN {[kind |-> "NL", src |-> m.dst, dst |-> m.src, num |-> 0]}
                    ELSE {}), sock)
      /\ UNCHANGED queue

Rx(m, old) == /\ CASE m.kind \in {"CI", "RCI"} -> DeliverConnInit(m, old)
                   [] m.kind = "RTS" -> DeliverReturned(m, old)
                   [] OTHER -> DeliverToSocket(m, old)
              /\ UNCHANGED listening

Deliver(m) == m \in net /\ Rx(m, {m}) /\ UNCHANGED faults

Duplicate(m) == /\ m \in net /\ faults.dup < MaxDup
                /\ Rx(m, {})
                /\ faults' = [faults EXCEPT !.dup = @ + 1]

Lose(m) == /\ m \in net /\ faults.loss < MaxLoss
           /\ net' = net \ {m}
           /\ faults' = [faults EXCEPT !.loss = @ + 1]
           /\ UNCHANGED <<sock, listening, queue>>

\* a router cannot reach the listening node
ReturnToSender(m) == /\ m \in net /\ m.kind \in {"CI", "RCI"}
                     /\ faults.loss < MaxLoss
                     /\ net' = (net \ {m}) \cup {[m EXCEPT !.kind = "RTS"]}
                     /\ faults' = [faults EXCEPT !.loss = @ + 1]
                     /\ UNCHANGED <<sock, listening, queue>>

\* A node restarts and knows nothing of its sockets.
Crash(ports) ==
  /\ faults.crash < MaxCrash
  /\ sock' = [p \in Port |->
                IF p \in ports /\ sock[p].state # "FREE"
                THEN Freed([sock[p] EXCEPT !.dead = TRUE]) ELSE sock[p]]
  /\ queue' = IF ports = Callee THEN <<>> ELSE queue
  /\ net' = Carried(net, sock')
  /\ faults' = [faults EXCEPT !.crash = @ + 1]
  /\ UNCHANGED listening

Timer(p) == (\E quiet \in BOOLEAN : PersistTimer(p, quiet)) \/ ConnTimer(p) \/ Keepalive(p)

Call(p) == \/ Connect(p) \/ ConnectAgain(p) \/ WaitRun(p) \/ Return(p)
           \/ Interrupt(p) \/ AcceptHash(p) \/ Confirm(p)   \/ Reject(p)  \/ Read(p)
           \/ Shutdown(p) \/ Close(p)

Network == \E m \in net : Deliver(m) \/ Duplicate(m) \/ Lose(m) \/ ReturnToSender(m)

Next == \/ \E p \in Port : Call(p) \/ Timer(p)
        \/ Accept \/ CloseListener
        \/ Network
        \/ Crash(Caller) \/ Crash(Callee)

Spec == Init /\ [][Next]_vars

-----------------------------------------------------------------------------
(* Fairness: the network carries what it does not lose, the slow timer of a  *)
(* socket runs, a socket that hears nothing for two seconds finds that out,  *)
(* and calls that may return do.  No user has to do anything else.           *)

\* Weak fairness of delivery, for each kind of packet: it is enabled when there
\* is one in flight.
DeliveryFair(k) == \/ []<>(\A m \in net : m.kind # k)
                   \/ []<><<\E m \in net : m.kind = k /\ Deliver(m)>>_vars

Fairness ==
  /\ \A k \in Kind : DeliveryFair(k)
  /\ \A p \in Port : /\ WF_vars(PersistTimer(p, TRUE))
                     /\ WF_vars(ConnTimer(p))
                     /\ WF_vars(Return(p))
                     /\ WF_vars(AcceptHash(p))

FairSpec == Spec /\ Fairness

-----------------------------------------------------------------------------
(* Properties *)

\* Types of the sockets, of the listener and of the packets in flight.
TypeOK == /\ sock \in [Port -> Sock]
          /\ listening \in BOOLEAN
          /\ queue \in Seq(Packet)
          /\ net \subseteq Packet
          /\ faults \in [loss : 0 .. MaxLoss, dup : 0 .. MaxDup, crash : 0 .. MaxCrash]

\* An accepted socket enters RUN only for a caller that entered RUN with it,
\* so of the sockets that dn_accept made for one connect, through repeated
\* connect initiates, at most one ever does.
OneLinkPerConnect ==
  \A p \in Callee :
    sock[p].ran => /\ sock[p].rem \in Caller
                   /\ sock[sock[p].rem].ran
                   /\ sock[sock[p].rem].rem = p

Ended == {"NR", "NC", "RJ", "DI", "DIC", "DN", "DR", "DRC", "CN", "GONE"}

\* No packet, timer or call brings a link that has ended, or whose end has
\* begun, back to life.
EndIsFinal ==
  [][\A p \in Port : sock[p].state \in Ended => sock'[p].state \in Ended]_vars

\* A connect attempt comes to an end: answered, refused or timed out.
ConnectSettles ==
  \A p \in Caller : sock[p].state \in {"CI", "CD"} ~> sock[p].state \notin {"CI", "CD"}

\* dn_destroy_timer, once it runs for a closed socket that has no disconnect to
\* repeat and no link service message due, keeps running until the socket is
\* freed: nothing that still arrives takes the timer away.
DestroyTimerFrees ==
  \A p \in Port :
    sock[p].dead /\ sock[p].state \in Ended \ {"DI", "DR"} /\ ~sock[p].pend
      /\ sock[p].persist /\ sock[p].fxn = "destroy"  ~>  sock[p].state = "GONE"
=============================================================================

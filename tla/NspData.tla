------------------------------ MODULE NspData -------------------------------
(***************************************************************************)
(* The two ends of a logical link over the datagram service of the routing *)
(* layer: packets may be lost, repeated, delayed and reordered without     *)
(* bound.  net[n] is every packet that n ever sent; a packet that is never *)
(* taken from it is one that was lost.                                     *)
(*                                                                         *)
(* The numbers of a subchannel are compared modulo SeqMod, and a network   *)
(* that keeps packets for ever can deliver one from the previous turn.     *)
(* This module therefore follows a link until it has numbered MaxSeg       *)
(* segments on a subchannel, fewer than half the number space; NspWrap     *)
(* follows it further.                                                     *)
(***************************************************************************)
EXTENDS NspScp

CONSTANTS Node,     \* the two ends
          Caller,   \* the one that connected
          MaxSeg    \* bound: MaxSeg[n][c] segments n numbers on subchannel c

ASSUME NodeAssumption == \E a \in Node : \E b \in Node \ {a} : Node = {a, b}
ASSUME CallerAssumption == Caller \in Node
ASSUME MaxSegAssumption == /\ MaxSeg \in [Node -> [Chan -> Nat]]
                           /\ \A n \in Node, c \in Chan : MaxSeg[n][c] < SeqHalf

VARIABLES scp,      \* the socket of each end
          net       \* net[n]: what n has sent

vars == <<scp, net>>

Peer(n) == CHOOSE m \in Node : m # n

Packets(out) == {out[i] : i \in DOMAIN out}

\* A handler has turned n's socket into s.
Step(n, s) ==
  /\ \A c \in Chan : s.nsent[c] <= MaxSeg[n][c]
  /\ scp' = [scp EXCEPT ![n] = [s EXCEPT !.out = <<>>]]
  /\ net' = [net EXCEPT ![n] = @ \cup Packets(s.out)]

\* The end that connected has its Connect Confirm, the other has sent it.
Init == LET s == ConnConf(InitScp)
        IN  /\ scp = [n \in Node |-> IF n = Caller THEN [s EXCEPT !.out = <<>>]
                                                   ELSE InitScp]
            /\ net = [n \in Node |-> IF n = Caller THEN Packets(s.out) ELSE {}]

-----------------------------------------------------------------------------

Deliver(n) == \E p \in net[Peer(n)] : Step(n, Receive(scp[n], p))

SendMsg(n) == /\ scp[n].state = "RUN"
              /\ MaySend(scp[n], "dat")
              /\ \E more, idle \in BOOLEAN : Step(n, SendData(scp[n], more, idle))

SendOob(n) == /\ scp[n].state = "RUN"
              /\ MaySend(scp[n], "oth")
              /\ \E idle \in BOOLEAN : Step(n, SendOther(scp[n], idle))

\* dn_recvmsg first returns empty-handed once, to report interrupt data
ReportOob(n) == /\ scp[n].state = "RUN"
                /\ scp[n].rcvq["oth"] > 0 /\ ~scp[n].other_report
                /\ Step(n, [scp[n] EXCEPT !.other_report = TRUE])

RecvMsg(n) == /\ scp[n].state = "RUN"
              /\ scp[n].rcvq["oth"] = 0 \/ scp[n].other_report
              /\ scp[n].rcvq["dat"] > 0
              /\ \E idle \in BOOLEAN : Step(n, RecvData(scp[n], idle))

RecvOob(n) == /\ scp[n].state = "RUN"
              /\ scp[n].rcvq["oth"] > 0
              /\ \E idle \in BOOLEAN : Step(n, RecvOther(scp[n], idle))

PersistTimer(n) == /\ scp[n].state = "RUN"
                   /\ scp[n].persist
                   /\ Step(n, XmitTimeout(scp[n]))

\* dn_keepalive, when nothing was sent for scp->keepalive
Keepalive(n) == /\ scp[n].state = "RUN"
                /\ scp[n].xmitq["oth"] = {}
                /\ Step(n, SendLink(scp[n], "NOCHANGE", TRUE))

Next == \E n \in Node :
          \/ Deliver(n)   \/ SendMsg(n) \/ SendOob(n)
          \/ ReportOob(n) \/ RecvMsg(n) \/ RecvOob(n)
          \/ PersistTimer(n) \/ Keepalive(n)

Spec == Init /\ [][Next]_vars

-----------------------------------------------------------------------------
(* Properties *)

\* Types of the sockets and of every packet in flight.
TypeOK == /\ scp \in [Node -> Scp]
          /\ net \in [Node -> SUBSET Packet]

\* The receive paths dn_nsp_data, dn_nsp_otherdata and dn_nsp_linkservice take
\* each segment of a subchannel once, in the order dn_nsp_queue_xmit numbered
\* them, and never one that was not sent.
InOrder ==
  \A n \in Node, c \in Chan :
    /\ Len(scp[n].got[c]) <= scp[Peer(n)].nsent[c]
    /\ \A i \in 1 .. Len(scp[n].got[c]) : scp[n].got[c][i] = i

\* dn_nsp_check_xmit_queue frees a segment only when the other end has it.
NoSegmentLost ==
  \A n \in Node, c \in Chan :
    \A i \in 1 .. scp[n].nsent[c] :
      i > Len(scp[Peer(n)].got[c]) => \E e \in scp[n].xmitq[c] : e.pkt.id = i

\* Segments of kind k that n has queued and its peer has not accepted.
Unaccepted(n, k) ==
  {e \in scp[n].xmitq["oth"] :
     e.pkt.kind = k /\ e.pkt.id > Len(scp[Peer(n)].got["oth"])}

\* Other data is stop and wait: dn_sendmsg, dn_keepalive and
\* dn_nsp_schedule_pending each look at the queue before they add to it.  And
\* its one interrupt credit each way is always somewhere: with the sender, in
\* an interrupt message under way, waiting to be read, due to be returned
\* (DN_PEND_INTR), or on its way back.
OtherData ==
  \A n \in Node :
    LET m == Peer(n)
    IN  /\ Cardinality(scp[n].xmitq["oth"]) <= 1
        /\ scp[n].flowrem_oth + Cardinality(Unaccepted(n, "OD"))
             + scp[m].rcvq["oth"] + (IF "INTR" \in scp[m].pending THEN 1 ELSE 0)
             + Cardinality(Unaccepted(m, "INTR")) = 1

\* When no flow control message is due (DN_PEND_SW) or under way, the sender's
\* idea of the switch is the receiver's.
SwitchAgreement ==
  \A n \in Node :
    LET m == Peer(n)
    IN  "SW" \notin scp[m].pending /\ Unaccepted(m, "SEND") = {}
          /\ Unaccepted(m, "DONTSEND") = {}
        => scp[n].flowrem_sw = scp[m].flowloc_sw

\* The link as its users see it.
Ways == Node \X Chan
Link == INSTANCE NspChannel WITH
          Way <- Ways,
          sent <- [w \in Ways |-> scp[w[1]].nsent[w[2]]],
          recv <- [w \in Ways |-> scp[Peer(w[1])].got[w[2]]]
OrderedLink == Link!Spec

=============================================================================

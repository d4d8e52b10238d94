------------------------------- MODULE NspScp -------------------------------
(***************************************************************************)
(* One end of an established logical link: the fields of struct dn_scp *)
(* that the data and other-data subchannels use, and the handlers of       *)
(* dn_nsp_in.c and dn_nsp_out.c as operators from a socket to a socket.    *)
(* What a handler hands to dst_output is appended to the field out; the    *)
(* module that composes two sockets moves it to its network.               *)
(*                                                                         *)
(* Every handler runs to its end under the socket lock, so a composition   *)
(* of these operators is one atomic step.                                  *)
(*                                                                         *)
(* A transmit queue is the set of its segments; id, the number of the      *)
(* segment on its subchannel counted without wrapping, is their order.  Of *)
(* xmit_count only 0, 1 and "more" are told apart, so it stops at 2.       *)
(***************************************************************************)
EXTENDS NspSeq, Sequences, FiniteSets

CONSTANTS MaxWindow,   \* scp->max_window
          DlySeq,      \* decnet_dlyack_seq
          RcvBuf       \* sk_rcvbuf, counted in segments

\* NSP_MAX_WINDOW is 0x7FE, two below the half range
ASSUME WindowAssumption == MaxWindow \in 1 .. (SeqHalf - 1)
ASSUME DlySeqAssumption == DlySeq \in Nat \ {0}
ASSUME RcvBufAssumption == RcvBuf \in Nat \ {0}

MinWindow == 1                                          \* NSP_MIN_WINDOW

Chan == {"dat", "oth"}
OtherChan(c) == IF c = "dat" THEN "oth" ELSE "dat"

\* Interrupt data, and the link service messages: a credit for an interrupt
\* message, the flow control switch, and one that changes nothing.
OthKind == {"OD", "INTR", "SEND", "DONTSEND", "NOCHANGE"}
AckKind == {"DATACK", "OTHACK"}
Kind == {"DATA"} \cup OthKind \cup AckKind

Packet == [kind : Kind, seg : SeqNum, id : Nat, dly : BOOLEAN,
           ack : [Chan -> SeqNum]]
Queued == [pkt : Packet, cnt : 0..2]

\* The subchannel a packet belongs to; its first acknowledgement field is
\* about that subchannel, the second about the other.
ChanOf(p) == IF p.kind \in {"DATA", "DATACK"} THEN "dat" ELSE "oth"

Scp == [state       : {"CC", "RUN"},
        num         : [Chan -> SeqNum],     \* numdat, numoth: next to assign
        num_rcv     : [Chan -> SeqNum],     \* numdat_rcv, numoth_rcv
        ackrcv      : [Chan -> SeqNum],     \* ackrcv_dat, ackrcv_oth
        xmitq       : [Chan -> SUBSET Queued],
        rcvq        : [Chan -> Nat],        \* segments waiting to be read
        other_report: BOOLEAN,
        flowrem_sw  : {"SEND", "DONTSEND"},
        flowloc_sw  : {"SEND", "DONTSEND"},
        flowrem_oth : Nat,
        pending     : SUBSET {"INTR", "SW", "IDLE"},
        snd_window  : MinWindow .. MaxWindow,
        delayedacks : 0 .. (MaxWindow - 1),
        persist     : BOOLEAN,              \* the persist timer is running
        out         : Seq(Packet),
        nsent       : [Chan -> Nat],        \* history: segments numbered
        got         : [Chan -> Seq(Nat)]]   \* history: ids accepted, in order

\* A socket that has just sent its Connect Confirm
InitScp ==
  [state |-> "CC", num |-> [c \in Chan |-> 1], num_rcv |-> [c \in Chan |-> 0],
   ackrcv |-> [c \in Chan |-> 0], xmitq |-> [c \in Chan |-> {}],
   rcvq |-> [c \in Chan |-> 0], other_report |-> FALSE,
   flowrem_sw |-> "SEND", flowloc_sw |-> "SEND", flowrem_oth |-> 1,
   pending |-> {}, snd_window |-> MinWindow, delayedacks |-> 0,
   persist |-> FALSE, out |-> <<>>, nsent |-> [c \in Chan |-> 0],
   got |-> [c \in Chan |-> <<>>]]

-----------------------------------------------------------------------------
(* Transmission, dn_nsp_out.c *)

First(q) == CHOOSE e \in q : \A f \in q : e.pkt.id <= f.pkt.id
Last(q) == CHOOSE e \in q : \A f \in q : f.pkt.id <= e.pkt.id

CloneAndSend(s, c, e) ==
  [s EXCEPT !.xmitq[c] = (@ \ {e}) \cup
                           {[e EXCEPT !.cnt = IF @ = 0 THEN 1 ELSE 2]},
            !.out = Append(@, e.pkt)]

HalfWindow(w) == IF w \div 2 < MinWindow THEN MinWindow ELSE w \div 2

\* dn_nsp_output: the head of each queue, other data first.  A repeated
\* segment of other data holds the data back; any repetition halves the window.
Output(s) ==
  LET oth == s.xmitq["oth"]
      dat == s.xmitq["dat"]
      othAgain == oth # {} /\ First(oth).cnt > 0
      sendDat == dat # {} /\ ~othAgain /\ s.flowrem_sw = "SEND"
      s1 == IF oth = {} THEN s ELSE CloneAndSend(s, "oth", First(oth))
      s2 == IF sendDat THEN CloneAndSend(s1, "dat", First(dat)) ELSE s1
  IN  IF othAgain \/ (sendDat /\ First(dat).cnt > 0)
      THEN [s2 EXCEPT !.snd_window = HalfWindow(@)]
      ELSE s2

\* dn_nsp_queue_xmit.  idle: nothing was sent or received for a round trip.
QueueXmit(s, c, kind, dly, idle) ==
  LET e == [cnt |-> 0,
            pkt |-> [kind |-> kind, seg |-> s.num[c], id |-> s.nsent[c] + 1,
                     dly |-> dly, ack |-> s.num_rcv]]
      s1 == [s EXCEPT !.num[c] = seq_add1(@),
                      !.nsent[c] = @ + 1,
                      !.snd_window = IF idle THEN MinWindow ELSE @,
                      !.xmitq[c] = @ \cup {e}]
  IN  IF c = "dat" /\ s.flowrem_sw # "SEND" THEN s1 ELSE CloneAndSend(s1, c, e)

SendLink(s, kind, idle) ==
  [QueueXmit(s, "oth", kind, FALSE, idle) EXCEPT !.persist = TRUE]

\* answers with the peer's switch
BadLinkMessage(s, k) ==
  IF k = "SW" THEN s.flowrem_sw ELSE IF k = "INTR" THEN "INTR" ELSE "NOCHANGE"

LinkMessage(s, k) ==
  IF k = "SW" THEN s.flowloc_sw ELSE IF k = "INTR" THEN "INTR" ELSE "NOCHANGE"

\* dn_nsp_schedule_pending: one link service message at a time, and only into
\* an empty other-data queue
SchedulePending(s, what, idle) ==
  LET pend == s.pending \cup what
      k == IF "INTR" \in pend THEN "INTR"
           ELSE IF "SW" \in pend THEN "SW" ELSE "IDLE"
  IN  IF pend = {} \/ s.xmitq["oth"] # {}
      THEN [s EXCEPT !.pending = pend]
      ELSE SendLink([s EXCEPT !.pending = pend \ {k}], LinkMessage(s, k), idle)

\* dn_nsp_send_data_ack, dn_nsp_send_oth_ack
SendAck(s, c) ==
  [s EXCEPT !.out = Append(@,
     [kind |-> IF c = "dat" THEN "DATACK" ELSE "OTHACK",
      seg |-> 0, id |-> 0, dly |-> FALSE, ack |-> s.num_rcv])]

-----------------------------------------------------------------------------
(* Acknowledgement *)

\* The window opens by one for each acknowledged segment sent just once.
Opened(w, acked) ==
  LET new == w + Cardinality({e \in acked : e.cnt = 1})
  IN  IF new > MaxWindow THEN MaxWindow ELSE new

CheckXmitQueue(s, c, a) ==
  LET acked == {e \in s.xmitq[c] : dn_before_or_equal(e.pkt.seg, a)}
      s1 == [s EXCEPT !.xmitq[c] = @ \ acked,
                      !.snd_window = Opened(@, acked)]
      s2 == IF c = "oth" THEN SchedulePending(s1, {}, FALSE) ELSE s1
  IN  IF acked # {} /\ Last(acked).cnt > 1 THEN Output(s2) ELSE s2

dn_ack(s, c, a) ==
  IF dn_after(a, s.ackrcv[c])
  THEN CheckXmitQueue([s EXCEPT !.ackrcv[c] = a], c, a)
  ELSE s

ProcessAck(s, p) ==
  LET c == ChanOf(p)
      d == OtherChan(c)
  IN  dn_ack(dn_ack(s, c, p.ack[c]), d, p.ack[d])

-----------------------------------------------------------------------------
(* Reception, dn_nsp_in.c.  dn_nsp_rx_packet has just set scp->stamp, so the *)
(* link is not idle when a handler sends.                                  *)

Rmem(s) == s.rcvq["dat"] + s.rcvq["oth"]                \* sk_rmem_alloc
Congested(s) == Rmem(s) > RcvBuf \div 2                 \* dn_congested

\* does not count what it takes
BadAccept(s, c, p) == [s EXCEPT !.got[c] = Append(@, p.id)]

Accept(s, c, p) == [s EXCEPT !.num_rcv[c] = seq_add1(@),
                             !.got[c] = Append(@, p.id)]

dn_nsp_data(s, p) ==
  LET next == seq_next(s.num_rcv["dat"], p.seg)
      queued == next /\ Rmem(s) < RcvBuf
      s1 == IF queued
            THEN [Accept(s, "dat", p) EXCEPT !.rcvq["dat"] = @ + 1] ELSE s
      s2 == IF next /\ s1.flowloc_sw = "SEND" /\ Congested(s1)
            THEN SchedulePending([s1 EXCEPT !.flowloc_sw = "DONTSEND"],
                                 {"SW"}, FALSE)
            ELSE s1
  IN  \* the delayed acknowledgement timer is off, and only one that is
      \* already running would be set again
      IF queued /\ p.dly THEN s2 ELSE SendAck(s2, "dat")

dn_nsp_otherdata(s, p) ==
  LET queued == seq_next(s.num_rcv["oth"], p.seg) /\ Rmem(s) < RcvBuf
      s1 == IF queued
            THEN [Accept(s, "oth", p) EXCEPT !.rcvq["oth"] = @ + 1,
                                             !.other_report = FALSE]
            ELSE s
  IN  SendAck(s1, "oth")

dn_nsp_linkservice(s, p) ==
  LET s1 == Accept(s, "oth", p)
      s2 == CASE p.kind = "NOCHANGE" -> s1
              [] p.kind = "DONTSEND" -> [s1 EXCEPT !.flowrem_sw = "DONTSEND"]
              [] p.kind = "SEND" -> Output([s1 EXCEPT !.flowrem_sw = "SEND"])
              [] p.kind = "INTR" -> [s1 EXCEPT !.flowrem_oth = @ + 1]
  IN  SendAck(IF seq_next(s.num_rcv["oth"], p.seg) THEN s2 ELSE s, "oth")

\* dn_nsp_conn_conf: the connecting end enters RUN and says so
ConnConf(s) == SchedulePending([s EXCEPT !.state = "RUN"], {"IDLE"}, FALSE)

\* dn_nsp_backlog_rcv; any data or acknowledgement takes CC to RUN
Receive(s, p) ==
  LET s1 == ProcessAck([s EXCEPT !.state = "RUN"], p)
  IN  CASE p.kind = "DATA" -> dn_nsp_data(s1, p)
        [] p.kind = "OD" -> dn_nsp_otherdata(s1, p)
        [] p.kind \in OthKind \ {"OD"} -> dn_nsp_linkservice(s1, p)
        [] p.kind \in AckKind -> s1

-----------------------------------------------------------------------------
(* User calls and timers, af_decnet.c and dn_timer.c *)

\* dn_queue_too_long is false, for a peer that asks for no flow control
MaySend(s, c) ==
  IF c = "dat"
  THEN Cardinality(s.xmitq["dat"]) < s.snd_window /\ s.flowrem_sw = "SEND"
  ELSE s.flowrem_oth > 0 /\ s.xmitq["oth"] = {}

\* One segment of dn_sendmsg.  more: it is not the last one of the call.
SendData(s, more, idle) ==
  LET allowed == IF DlySeq < s.snd_window THEN DlySeq ELSE s.snd_window
      dly == more /\ s.delayedacks + 1 < allowed
      s1 == [s EXCEPT !.delayedacks = IF dly THEN @ + 1 ELSE 0,
                      !.persist = TRUE]
  IN  QueueXmit(s1, "dat", "DATA", dly, idle)

\* dn_sendmsg with MSG_OOB
SendOther(s, idle) ==
  QueueXmit([s EXCEPT !.flowrem_oth = @ - 1, !.persist = TRUE],
            "oth", "OD", FALSE, idle)

\* does not say that there is room again
BadRecvData(s, idle) == [s EXCEPT !.rcvq["dat"] = @ - 1]

\* dn_recvmsg takes one segment off the receive queue
RecvData(s, idle) ==
  LET s1 == [s EXCEPT !.rcvq["dat"] = @ - 1]
  IN  IF s1.flowloc_sw = "DONTSEND" /\ ~Congested(s1)
      THEN SchedulePending([s1 EXCEPT !.flowloc_sw = "SEND"], {"SW"}, idle)
      ELSE s1

\* returns no credit
BadRecvOther(s, idle) == [s EXCEPT !.rcvq["oth"] = @ - 1]

\* dn_recvmsg with MSG_OOB
RecvOther(s, idle) ==
  SchedulePending([s EXCEPT !.rcvq["oth"] = @ - 1], {"INTR"}, idle)

\* never starts the timer again
BadXmitTimeout(s) == [Output(s) EXCEPT !.persist = FALSE]

\* dn_slow_timer finds the persist timer expired: dn_nsp_xmit_timeout
XmitTimeout(s) ==
  LET s1 == Output(s)
  IN  [s1 EXCEPT !.persist = \E c \in Chan : s1.xmitq[c] # {}]

=============================================================================

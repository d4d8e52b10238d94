------------------------------ MODULE NspWrap -------------------------------
(***************************************************************************)
(* The two ends of a logical link over a path that keeps packets in order  *)
(* and may lose some of them.  Nothing bounds the numbers, so a link can    *)
(* be followed until everything that was sent has arrived, and past half   *)
(* the number space.                                                       *)
(*                                                                         *)
(* In order means that no packet outlives the ones sent after it, so what  *)
(* goes wrong here is not the network's doing.  NspData has the network    *)
(* that reorders and repeats.                                              *)
(***************************************************************************)
EXTENDS NspScp

CONSTANTS Node,       \* the two ends
          Caller,     \* the one that connected
          MaxSend,    \* bound: MaxSend[n][c], messages sent by n's user or by
                      \* its keepalive timer on subchannel c
          MaxLoss,    \* bound: packets lost
          TimerRoom   \* bound: packets in flight, both ways, when a
                      \* retransmission timer expires

ASSUME BoundsAssumption == /\ MaxSend \in [Node -> [Chan -> Nat]]
                           /\ MaxLoss \in Nat /\ TimerRoom \in Nat

VARIABLES scp, net, used, lost

vars == <<scp, net, used, lost>>

Peer(n) == CHOOSE m \in Node : m # n

\* A handler has turned n's socket into s.
Step(n, s) ==
  /\ scp' = [scp EXCEPT ![n] = [s EXCEPT !.out = <<>>]]
  /\ net' = [net EXCEPT ![n] = @ \o s.out]

Init == LET s == ConnConf(InitScp)
        IN  /\ scp = [n \in Node |-> IF n = Caller THEN [s EXCEPT !.out = <<>>]
                                                   ELSE InitScp]
            /\ net = [n \in Node |-> IF n = Caller THEN s.out ELSE <<>>]
            /\ used = [n \in Node |-> [c \in Chan |-> 0]]
            /\ lost = 0

-----------------------------------------------------------------------------

Deliver(n) ==
  LET m == Peer(n)
  IN  /\ net[m] # <<>>
      /\ LET s == Receive(scp[n], Head(net[m]))
         IN  /\ scp' = [scp EXCEPT ![n] = [s EXCEPT !.out = <<>>]]
             /\ net' = [net EXCEPT ![n] = @ \o s.out, ![m] = Tail(@)]
      /\ UNCHANGED <<used, lost>>

Lose(n) == /\ net[n] # <<>> /\ lost < MaxLoss
           /\ net' = [net EXCEPT ![n] = Tail(@)]
           /\ lost' = lost + 1
           /\ UNCHANGED <<scp, used>>

Use(n, c) == /\ scp[n].state = "RUN"
             /\ used[n][c] < MaxSend[n][c]
             /\ used' = [used EXCEPT ![n][c] = @ + 1]
             /\ UNCHANGED lost

SendMsg(n) == /\ Use(n, "dat") /\ MaySend(scp[n], "dat")
              /\ \E more, idle \in BOOLEAN : Step(n, SendData(scp[n], more, idle))

SendOob(n) == /\ Use(n, "oth") /\ MaySend(scp[n], "oth")
              /\ \E idle \in BOOLEAN : Step(n, SendOther(scp[n], idle))

Keepalive(n) == /\ Use(n, "oth") /\ scp[n].xmitq["oth"] = {}
                /\ Step(n, SendLink(scp[n], "NOCHANGE", TRUE))

ReportOob(n) == /\ scp[n].state = "RUN"
                /\ scp[n].rcvq["oth"] > 0 /\ ~scp[n].other_report
                /\ Step(n, [scp[n] EXCEPT !.other_report = TRUE])
                /\ UNCHANGED <<used, lost>>

RecvMsg(n) == /\ scp[n].state = "RUN"
              /\ scp[n].rcvq["oth"] = 0 \/ scp[n].other_report
              /\ scp[n].rcvq["dat"] > 0
              /\ \E idle \in BOOLEAN : Step(n, RecvData(scp[n], idle))
              /\ UNCHANGED <<used, lost>>

RecvOob(n) == /\ scp[n].state = "RUN"
              /\ scp[n].rcvq["oth"] > 0
              /\ \E idle \in BOOLEAN : Step(n, RecvOther(scp[n], idle))
              /\ UNCHANGED <<used, lost>>

PersistTimer(n) == /\ scp[n].state = "RUN" /\ scp[n].persist
                   /\ Len(net[n]) + Len(net[Peer(n)]) <= TimerRoom
                   /\ Step(n, XmitTimeout(scp[n]))
                   /\ UNCHANGED <<used, lost>>

System(n) == Deliver(n) \/ PersistTimer(n)
Reader(n) == ReportOob(n) \/ RecvMsg(n) \/ RecvOob(n)
Writer(n) == SendMsg(n) \/ SendOob(n) \/ Keepalive(n)

Next == \E n \in Node : System(n) \/ Reader(n) \/ Writer(n) \/ Lose(n)

\* What each of the actions below waits for, apart from the network's room.
HasPacket(n) == net[Peer(n)] # <<>>
HasData(n) == /\ scp[n].state = "RUN" /\ scp[n].rcvq["dat"] > 0
              /\ scp[n].rcvq["oth"] = 0
HasOob(n) == scp[n].state = "RUN" /\ scp[n].rcvq["oth"] > 0
TimerDue(n) == /\ scp[n].state = "RUN" /\ scp[n].persist
               /\ Len(net[n]) + Len(net[Peer(n)]) <= TimerRoom

\* The network delivers, the slow timer runs, and the users read what arrives.
\* Nobody has to send.  These are weak fairness of Deliver and of the readers
\* and strong fairness of PersistTimer, with the condition that enables each
\* action written out.
Fairness ==
  \A n \in Node :
    /\ []<>~HasPacket(n) \/ []<><<Deliver(n)>>_vars
    /\ []<>~HasData(n) \/ []<><<RecvMsg(n)>>_vars
    /\ []<>~HasOob(n) \/ []<><<RecvOob(n)>>_vars
    /\ <>[]~TimerDue(n) \/ []<><<PersistTimer(n)>>_vars

Spec == Init /\ [][Next]_vars /\ Fairness

-----------------------------------------------------------------------------
(* Properties *)

\* dn_nsp_check_xmit_queue: "We don't expect to see acknowledgements for
\* packets we haven't sent yet."  The number dn_ack takes is never after the
\* last one assigned.  Not so: a segment that is sent again carries the
\* acknowledgements of the time it was queued (dn_nsp_clone_and_send), and
\* when half the number space has gone the other way since, an old one passes
\* for a new one.
AckOnlySent ==
  \A n \in Node, c \in Chan :
    ~dn_after(scp[n].ackrcv[c], IF scp[n].num[c] = 0 THEN SeqMod - 1
                                ELSE scp[n].num[c] - 1)

\* Everything sent arrives and is acknowledged: whatever is lost, dropped by a
\* full receive buffer or held back by flow control, the transmit queues are
\* empty again some day.
QueuesDrain == \A n \in Node, c \in Chan : []<>(scp[n].xmitq[c] = {})

\* A sender that was stopped is let on: the DONTSEND of a congested receiver
\* is always taken back, and the one interrupt credit comes back.
SendersResume ==
  \A n \in Node : []<>(scp[n].flowrem_sw = "SEND") /\ []<>(scp[n].flowrem_oth = 1)

=============================================================================

--------------------------- MODULE NspData_proofs ---------------------------
(***************************************************************************)
(* What NspData promises for every window, buffer, number space and number *)
(* of segments below half that space.  First the sequence number           *)
(* comparisons, for every half range; that the handlers of NspScp turn a   *)
(* well-typed socket into a well-typed one; and that every handler keeps   *)
(* the numbers, the transmit queues and the receive side of its socket     *)
(* consistent, as long as the numbers have not turned: what was sent and   *)
(* not acknowledged is queued, what was accepted was accepted in order,    *)
(* and no packet claims more than its sender did.                          *)
(***************************************************************************)
EXTENDS NspData, FiniteSetTheorems, WellFoundedInduction, TLAPS

-----------------------------------------------------------------------------
(* Sequence numbers, dn_nsp.h *)

\* seq_add stays within the mask.
LEMMA SeqAddType ==
  ASSUME NEW x \in SeqNum
  PROVE  seq_add1(x) \in SeqNum
BY SeqHalfAssumption DEF seq_add1, SeqNum, SeqMod

\* The number after x comes right after it: dn_after holds one way round only.
LEMMA SeqAddDist ==
  ASSUME NEW x \in SeqNum
  PROVE  /\ seq_add1(x) # x
         /\ Dist(x, seq_add1(x)) = 1
         /\ dn_after(seq_add1(x), x)
         /\ ~dn_after(x, seq_add1(x))
BY SeqHalfAssumption DEF seq_add1, SeqNum, SeqMod, Dist, dn_after

\* The comparisons are strict: of two numbers at most one comes after the other.
THEOREM AfterAsymmetric ==
  ASSUME NEW x \in SeqNum, NEW y \in SeqNum, dn_after(x, y)
  PROVE  ~dn_after(y, x) /\ dn_before(y, x)
BY SeqHalfAssumption DEF SeqNum, SeqMod, Dist, dn_after, dn_before

\* Two numbers that both go on by one compare as before, at the turn too: with NoWrapOrder, numbers
\* less than half the space apart compare as the counts they stand for, however often both turned.
THEOREM TurnKeepsOrder ==
  ASSUME NEW x \in SeqNum, NEW y \in SeqNum
  PROVE  /\ dn_after(seq_add1(x), seq_add1(y)) <=> dn_after(x, y)
         /\ dn_before(seq_add1(x), seq_add1(y)) <=> dn_before(x, y)
         /\ dn_before_or_equal(seq_add1(x), seq_add1(y)) <=> dn_before_or_equal(x, y)
         /\ seq_next(seq_add1(x), seq_add1(y)) <=> seq_next(x, y)
<1>1. Dist(seq_add1(x), seq_add1(y)) = Dist(x, y) /\ Dist(seq_add1(y), seq_add1(x)) = Dist(y, x)
  BY SeqHalfAssumption DEF SeqNum, SeqMod, Dist, seq_add1
<1>2. seq_add1(x) = seq_add1(y) <=> x = y
  BY SeqHalfAssumption DEF SeqNum, SeqMod, seq_add1
<1>3. seq_next(seq_add1(x), seq_add1(y)) <=> seq_next(x, y)
  BY SeqHalfAssumption DEF SeqNum, SeqMod, seq_add1, seq_next
<1> QED  BY <1>1, <1>2, <1>3 DEF dn_after, dn_before, dn_before_or_equal

\* Numbers that have not wrapped compare as integers do.
LEMMA NoWrapOrder ==
  ASSUME NEW x \in 0 .. (SeqHalf - 1), NEW y \in 0 .. (SeqHalf - 1)
  PROVE  /\ dn_after(x, y) <=> x > y
         /\ dn_before_or_equal(x, y) <=> x <= y
         /\ seq_add1(x) = x + 1
BY SeqHalfAssumption
DEF SeqMod, Dist, dn_after, dn_before, dn_before_or_equal, seq_add1

-----------------------------------------------------------------------------
(* Sockets *)

\* A transmit queue is finite as well as typed.
Typed(s) == s \in Scp /\ \A c \in Chan : IsFiniteSet(s.xmitq[c])

-----------------------------------------------------------------------------

\* A set of numbers that is not empty has a least one.
LEMMA NatMin ==
  ASSUME NEW T \in SUBSET Nat, T # {}
  PROVE  \E x \in T : \A y \in T : x <= y
<1>1. \E R : /\ IsWellFoundedOn(R, Nat)
             /\ \A x, y \in Nat : <<y, x>> \in R <=> y < x
  <2> DEFINE R == OpToRel(<, Nat)
  <2>1. IsWellFoundedOn(R, Nat)
    BY NatLessThanWellFounded
  <2>2. \A x, y \in Nat : <<y, x>> \in R <=> y < x
    BY DEF OpToRel
  <2> HIDE DEF R
  <2> QED BY <2>1, <2>2
<1>2. PICK R : /\ IsWellFoundedOn(R, Nat)
               /\ \A x, y \in Nat : <<y, x>> \in R <=> y < x
  BY <1>1
<1>3. PICK x \in T : \A y \in T : ~(<<y, x>> \in R)
  BY <1>2, WFMin
<1>4. ASSUME NEW y \in T PROVE x <= y
  <2>1. x \in Nat /\ y \in Nat
    OBVIOUS
  <2>2. ~(<<y, x>> \in R)
    BY <1>3
  <2>3. <<y, x>> \in R <=> y < x
    BY <1>2, <2>1, Zenon
  <2>4. ~(y < x)
    BY <2>2, <2>3, Zenon
  <2> QED BY <2>1, <2>4
<1> QED BY <1>4

\* The head of a transmit queue is in the queue.
LEMMA FirstInQueue ==
  ASSUME NEW q \in SUBSET Queued, q # {}
  PROVE  First(q) \in q /\ \A f \in q : First(q).pkt.id <= f.pkt.id
<1> DEFINE ids == {e.pkt.id : e \in q}
<1>1. ids \in SUBSET Nat /\ ids # {}
  BY DEF Queued, Packet
<1>2. PICK x \in ids : \A y \in ids : x <= y
  <2> HIDE DEF ids
  <2> QED BY <1>1, NatMin
<1>3. PICK e \in q : e.pkt.id = x
  OBVIOUS
<1>4. \A f \in q : e.pkt.id <= f.pkt.id
  BY <1>2, <1>3
<1> QED BY <1>4 DEF First

-----------------------------------------------------------------------------

\* Counters that a handler sets to a natural number
LEMMA CounterUpdate ==
  ASSUME NEW s, Typed(s), NEW c \in Chan, NEW k \in Nat
  PROVE  /\ Typed([s EXCEPT !.rcvq[c] = k])
         /\ Typed([s EXCEPT !.flowrem_oth = k])
         /\ Typed([s EXCEPT !.flowrem_oth = k, !.persist = TRUE])
         /\ Typed([s EXCEPT !.rcvq[c] = k, !.other_report = FALSE])
BY DEF Typed, Scp

LEMMA HalfWindowType ==
  ASSUME NEW w \in MinWindow .. MaxWindow
  PROVE  HalfWindow(w) \in MinWindow .. MaxWindow
BY WindowAssumption, SeqHalfAssumption DEF HalfWindow, MinWindow

LEMMA CloneAndSendType ==
  ASSUME NEW s, Typed(s), NEW c \in Chan, NEW e \in Queued
  PROVE  Typed(CloneAndSend(s, c, e))
<1> DEFINE f == [e EXCEPT !.cnt = IF @ = 0 THEN 1 ELSE 2]
           q == (s.xmitq[c] \ {e}) \cup {f}
           r == CloneAndSend(s, c, e)
<1>1. f \in Queued
  BY DEF Queued
<1>2. q \in SUBSET Queued /\ IsFiniteSet(q)
  <2>1. q \in SUBSET Queued
    BY <1>1 DEF Typed, Scp
  <2>2. IsFiniteSet(s.xmitq[c] \ {e})
    BY FS_RemoveElement, FS_Subset DEF Typed
  <2> HIDE DEF f
  <2>3. IsFiniteSet(q)
    BY <2>2, FS_AddElement
  <2> QED BY <2>1, <2>3
<1>3. r = [s EXCEPT !.xmitq = [s.xmitq EXCEPT ![c] = q], !.out = Append(s.out, e.pkt)]
  BY DEF CloneAndSend, Typed, Scp
<1> HIDE DEF q, f
<1>4. Append(s.out, e.pkt) \in Seq(Packet)
  BY DEF Typed, Scp, Queued
<1>5. [s.xmitq EXCEPT ![c] = q] \in [Chan -> SUBSET Queued]
  BY <1>2 DEF Typed, Scp
<1>6. r \in Scp
  BY ZenonT(40), <1>3, <1>4, <1>5 DEF Typed, Scp
<1>7. \A d \in Chan : IsFiniteSet(r.xmitq[d])
  BY <1>2, <1>3 DEF Typed, Scp
<1> QED BY <1>6, <1>7 DEF Typed

LEMMA OutputType ==
  ASSUME NEW s, Typed(s)
  PROVE  Typed(Output(s))
<1> DEFINE oth == s.xmitq["oth"]
           dat == s.xmitq["dat"]
           s1 == IF oth = {} THEN s ELSE CloneAndSend(s, "oth", First(oth))
           s2 == CloneAndSend(s1, "dat", First(dat))
<1>1. /\ oth \in SUBSET Queued /\ dat \in SUBSET Queued
      /\ "oth" \in Chan /\ "dat" \in Chan
  BY DEF Typed, Scp, Chan
<1>2. Typed(s1)
  BY <1>1, FirstInQueue, CloneAndSendType
<1>3. dat # {} => Typed(s2)
  BY <1>1, <1>2, FirstInQueue, CloneAndSendType
<1>4. ASSUME NEW r, Typed(r)
      PROVE  Typed([r EXCEPT !.snd_window = HalfWindow(@)])
  BY <1>4, HalfWindowType DEF Typed, Scp
<1> HIDE DEF s1, s2
<1>5. Typed([s1 EXCEPT !.snd_window = HalfWindow(@)])
  BY <1>2, <1>4
<1>6. dat # {} => Typed([s2 EXCEPT !.snd_window = HalfWindow(@)])
  BY <1>3, <1>4
<1> QED BY <1>2, <1>3, <1>5, <1>6 DEF Output, s1, s2

\* Numbers that a socket may put in a packet
LEMMA QueueXmitType ==
  ASSUME NEW s, Typed(s), NEW c \in Chan, NEW kind \in Kind,
         NEW dly \in BOOLEAN, NEW idle \in BOOLEAN
  PROVE  Typed(QueueXmit(s, c, kind, dly, idle))
<1> DEFINE e == [cnt |-> 0,
                 pkt |-> [kind |-> kind, seg |-> s.num[c],
                          id |-> s.nsent[c] + 1, dly |-> dly,
                          ack |-> s.num_rcv]]
           num == [s.num EXCEPT ![c] = seq_add1(@)]
           nsent == [s.nsent EXCEPT ![c] = @ + 1]
           win == IF idle THEN MinWindow ELSE s.snd_window
           q == [s.xmitq EXCEPT ![c] = @ \cup {e}]
           r == [s EXCEPT !.num = num, !.nsent = nsent,
                          !.snd_window = win, !.xmitq = q]
<1>1. e \in Queued
  BY DEF Typed, Scp, Queued, Packet
<1>2. /\ num \in [Chan -> SeqNum]
      /\ nsent \in [Chan -> Nat]
      /\ win \in MinWindow .. MaxWindow
  BY SeqAddType, WindowAssumption, SeqHalfAssumption DEF Typed, Scp, MinWindow
<1> HIDE DEF e, num, nsent, win
<1>3. q \in [Chan -> SUBSET Queued]
  BY <1>1 DEF Typed, Scp
<1>4. \A d \in Chan : IsFiniteSet(q[d])
  BY FS_AddElement DEF Typed, Scp
<1>5. Typed(r)
  BY <1>2, <1>3, <1>4 DEF Typed, Scp
<1>6. Typed(CloneAndSend(r, c, e))
  BY <1>1, <1>5, CloneAndSendType
<1>7. r = [s EXCEPT !.num[c] = seq_add1(@), !.nsent[c] = @ + 1,
                    !.snd_window = IF idle THEN MinWindow ELSE @,
                    !.xmitq[c] = @ \cup {e}]
  BY DEF num, nsent, win, Typed, Scp
<1>8. QueueXmit(s, c, kind, dly, idle)
        = IF c = "dat" /\ s.flowrem_sw # "SEND" THEN r ELSE CloneAndSend(r, c, e)
  BY <1>7 DEF QueueXmit, e
<1> QED BY <1>5, <1>6, <1>8

LEMMA SendLinkType ==
  ASSUME NEW s, Typed(s), NEW kind \in Kind, NEW idle \in BOOLEAN
  PROVE  Typed(SendLink(s, kind, idle))
<1>1. Typed(QueueXmit(s, "oth", kind, FALSE, idle))
  BY QueueXmitType DEF Chan
<1> QED BY <1>1 DEF SendLink, Typed, Scp

LEMMA SchedulePendingType ==
  ASSUME NEW s, Typed(s), NEW what \in SUBSET {"INTR", "SW", "IDLE"},
         NEW idle \in BOOLEAN
  PROVE  Typed(SchedulePending(s, what, idle))
<1> DEFINE pend == s.pending \cup what
           k == IF "INTR" \in pend THEN "INTR"
                ELSE IF "SW" \in pend THEN "SW" ELSE "IDLE"
           r == [s EXCEPT !.pending = pend \ {k}]
<1>1. Typed([s EXCEPT !.pending = pend]) /\ Typed(r)
  BY DEF Typed, Scp
<1>2. LinkMessage(r, k) \in Kind
  BY DEF LinkMessage, Kind, OthKind, Typed, Scp
<1> HIDE DEF r, k
<1>3. Typed(SendLink(r, LinkMessage(r, k), idle))
  BY <1>1, <1>2, SendLinkType
<1>4. LinkMessage(s, k) = LinkMessage(r, k)
  BY DEF LinkMessage, r, Typed, Scp
<1> QED BY <1>1, <1>3, <1>4 DEF SchedulePending, r, k

LEMMA SendAckType ==
  ASSUME NEW s, Typed(s), NEW c \in Chan
  PROVE  Typed(SendAck(s, c))
<1> DEFINE p == [kind |-> IF c = "dat" THEN "DATACK" ELSE "OTHACK",
                 seg |-> 0, id |-> 0, dly |-> FALSE, ack |-> s.num_rcv]
<1>1. p \in Packet
  BY SeqHalfAssumption DEF Typed, Scp, Packet, Kind, AckKind, SeqNum, SeqMod
<1> HIDE DEF p
<1>2. Append(s.out, p) \in Seq(Packet)
  BY <1>1 DEF Typed, Scp
<1>3. Typed([s EXCEPT !.out = Append(@, p)])
  BY <1>2 DEF Typed, Scp
<1> QED BY <1>3 DEF SendAck, p

-----------------------------------------------------------------------------

\* What is left of a queue when the segments in acked are freed.
LEMMA FreedType ==
  ASSUME NEW s, Typed(s), NEW c \in Chan, NEW acked \in SUBSET s.xmitq[c]
  PROVE  Typed([s EXCEPT !.xmitq[c] = @ \ acked,
                         !.snd_window = Opened(@, acked)])
<1>1. IsFiniteSet(s.xmitq[c]) /\ s.xmitq[c] \in SUBSET Queued
  BY DEF Typed, Scp
<1>2. \A S \in SUBSET s.xmitq[c] : IsFiniteSet(S)
  BY <1>1, FS_Subset
<1>3. Opened(s.snd_window, acked) \in MinWindow .. MaxWindow
  <2> DEFINE once == {e \in acked : e.cnt = 1}
  <2>1. once \in SUBSET s.xmitq[c]
    OBVIOUS
  <2> HIDE DEF once
  <2>2. Cardinality(once) \in Nat
    BY <1>2, <2>1, FS_CardinalityType
  <2> QED BY <2>2, WindowAssumption, SeqHalfAssumption
          DEF Opened, once, Typed, Scp, MinWindow
<1>4. IsFiniteSet(s.xmitq[c] \ acked)
  BY <1>2
<1> QED BY <1>1, <1>3, <1>4 DEF Typed, Scp

LEMMA CheckXmitQueueType ==
  ASSUME NEW s, Typed(s), NEW c \in Chan, NEW a \in SeqNum
  PROVE  Typed(CheckXmitQueue(s, c, a))
<1> DEFINE acked == {e \in s.xmitq[c] : dn_before_or_equal(e.pkt.seg, a)}
           s1 == [s EXCEPT !.xmitq[c] = @ \ acked,
                           !.snd_window = Opened(@, acked)]
           s2 == IF c = "oth" THEN SchedulePending(s1, {}, FALSE) ELSE s1
<1>1. acked \in SUBSET s.xmitq[c]
  OBVIOUS
<1> HIDE DEF acked
<1>2. Typed(s1)
  BY <1>1, FreedType
<1> HIDE DEF s1
<1>3. Typed(s2)
  BY <1>2, SchedulePendingType
<1> HIDE DEF s2
<1>4. Typed(Output(s2))
  BY <1>3, OutputType
<1> QED BY <1>3, <1>4 DEF CheckXmitQueue, acked, s1, s2

LEMMA DnAckType ==
  ASSUME NEW s, Typed(s), NEW c \in Chan, NEW a \in SeqNum
  PROVE  Typed(dn_ack(s, c, a))
<1>1. Typed([s EXCEPT !.ackrcv[c] = a])
  BY DEF Typed, Scp
<1> QED BY <1>1, CheckXmitQueueType DEF dn_ack

LEMMA ProcessAckType ==
  ASSUME NEW s, Typed(s), NEW p \in Packet
  PROVE  Typed(ProcessAck(s, p))
<1>1. /\ ChanOf(p) \in Chan /\ OtherChan(ChanOf(p)) \in Chan
      /\ p.ack \in [Chan -> SeqNum]
  BY DEF ChanOf, OtherChan, Chan, Packet
<1> QED BY <1>1, DnAckType DEF ProcessAck

-----------------------------------------------------------------------------

LEMMA AcceptType ==
  ASSUME NEW s, Typed(s), NEW c \in Chan, NEW p \in Packet
  PROVE  Typed(Accept(s, c, p))
<1>1. Append(s.got[c], p.id) \in Seq(Nat)
  BY DEF Typed, Scp, Packet
<1>2. seq_add1(s.num_rcv[c]) \in SeqNum
  BY SeqAddType DEF Typed, Scp
<1> QED BY <1>1, <1>2 DEF Accept, Typed, Scp

LEMMA DataType ==
  ASSUME NEW s, Typed(s), NEW p \in Packet
  PROVE  Typed(dn_nsp_data(s, p))
<1> DEFINE next == seq_next(s.num_rcv["dat"], p.seg)
           queued == next /\ Rmem(s) < RcvBuf
           s1 == IF queued
                 THEN [Accept(s, "dat", p) EXCEPT !.rcvq["dat"] = @ + 1] ELSE s
           s2 == IF next /\ s1.flowloc_sw = "SEND" /\ Congested(s1)
                 THEN SchedulePending([s1 EXCEPT !.flowloc_sw = "DONTSEND"],
                                      {"SW"}, FALSE)
                 ELSE s1
<1>1. "dat" \in Chan
  BY DEF Chan
<1>2. Typed(Accept(s, "dat", p))
  BY <1>1, AcceptType
<1>3. Typed(s1)
  <2>1. Accept(s, "dat", p).rcvq["dat"] + 1 \in Nat
    BY <1>1, <1>2 DEF Typed, Scp
  <2> QED BY <1>1, <1>2, <2>1, CounterUpdate
<1> HIDE DEF s1
<1>4. Typed([s1 EXCEPT !.flowloc_sw = "DONTSEND"])
  BY <1>3 DEF Typed, Scp
<1>5. Typed(s2)
  BY <1>3, <1>4, SchedulePendingType
<1> HIDE DEF s2
<1>6. Typed(SendAck(s2, "dat"))
  BY <1>1, <1>5, SendAckType
<1> QED BY <1>5, <1>6 DEF dn_nsp_data, s1, s2

LEMMA OtherdataType ==
  ASSUME NEW s, Typed(s), NEW p \in Packet
  PROVE  Typed(dn_nsp_otherdata(s, p))
<1>1. "oth" \in Chan
  BY DEF Chan
<1>2. Typed(Accept(s, "oth", p))
  BY <1>1, AcceptType
<1>3. Typed([Accept(s, "oth", p) EXCEPT !.rcvq["oth"] = @ + 1,
                                        !.other_report = FALSE])
  <2>1. Accept(s, "oth", p).rcvq["oth"] + 1 \in Nat
    BY <1>1, <1>2 DEF Typed, Scp
  <2> QED BY <1>1, <1>2, <2>1, CounterUpdate
<1> QED BY <1>1, <1>3, SendAckType DEF dn_nsp_otherdata

LEMMA LinkserviceType ==
  ASSUME NEW s, Typed(s), NEW p \in Packet, p.kind \in OthKind \ {"OD"}
  PROVE  Typed(dn_nsp_linkservice(s, p))
<1> DEFINE s1 == Accept(s, "oth", p)
           s2 == CASE p.kind = "NOCHANGE" -> s1
                   [] p.kind = "DONTSEND" -> [s1 EXCEPT !.flowrem_sw = "DONTSEND"]
                   [] p.kind = "SEND" -> Output([s1 EXCEPT !.flowrem_sw = "SEND"])
                   [] p.kind = "INTR" -> [s1 EXCEPT !.flowrem_oth = @ + 1]
<1>1. "oth" \in Chan
  BY DEF Chan
<1>2. Typed(s1)
  BY <1>1, AcceptType
<1> HIDE DEF s1
<1>3. /\ Typed([s1 EXCEPT !.flowrem_sw = "DONTSEND"])
      /\ Typed([s1 EXCEPT !.flowrem_sw = "SEND"])
      /\ Typed([s1 EXCEPT !.flowrem_oth = @ + 1])
  <2>1. s1.flowrem_oth + 1 \in Nat
    BY <1>2 DEF Typed, Scp
  <2>2. Typed([s1 EXCEPT !.flowrem_oth = @ + 1])
    BY <1>1, <1>2, <2>1, CounterUpdate
  <2> QED BY <1>2, <2>2 DEF Typed, Scp
<1>4. Typed(Output([s1 EXCEPT !.flowrem_sw = "SEND"]))
  BY <1>3, OutputType
<1>5. Typed(s2)
  BY <1>2, <1>3, <1>4 DEF OthKind
<1> HIDE DEF s2
<1>6. Typed(IF seq_next(s.num_rcv["oth"], p.seg) THEN s2 ELSE s)
  BY <1>5
<1> QED BY <1>1, <1>6, SendAckType DEF dn_nsp_linkservice, s1, s2

\* The whole receive path
LEMMA ReceiveType ==
  ASSUME NEW s, Typed(s), NEW p \in Packet
  PROVE  Typed(Receive(s, p))
<1> DEFINE s1 == ProcessAck([s EXCEPT !.state = "RUN"], p)
<1>1. Typed([s EXCEPT !.state = "RUN"])
  BY DEF Typed, Scp
<1>2. Typed(s1)
  BY <1>1, ProcessAckType
<1> HIDE DEF s1
<1>3. p.kind = "DATA" \/ p.kind = "OD" \/ p.kind \in OthKind \ {"OD"}
        \/ p.kind \in AckKind
  BY DEF Packet, Kind
<1>4. Receive(s, p) = CASE p.kind = "DATA" -> dn_nsp_data(s1, p)
                        [] p.kind = "OD" -> dn_nsp_otherdata(s1, p)
                        [] p.kind \in OthKind \ {"OD"} -> dn_nsp_linkservice(s1, p)
                        [] p.kind \in AckKind -> s1
  BY DEF Receive, s1
<1>5. CASE p.kind = "DATA"
  BY <1>2, <1>4, <1>5, DataType DEF OthKind, AckKind
<1>6. CASE p.kind = "OD"
  BY <1>2, <1>4, <1>6, OtherdataType DEF OthKind, AckKind
<1>7. CASE p.kind \in OthKind \ {"OD"}
  BY <1>2, <1>4, <1>7, LinkserviceType DEF OthKind, AckKind
<1>8. CASE p.kind \in AckKind
  BY <1>2, <1>4, <1>8 DEF OthKind, AckKind
<1> QED BY <1>3, <1>5, <1>6, <1>7, <1>8

-----------------------------------------------------------------------------

LEMMA ConnConfType ==
  ASSUME NEW s, Typed(s)
  PROVE  Typed(ConnConf(s))
<1>1. Typed([s EXCEPT !.state = "RUN"])
  BY DEF Typed, Scp
<1> QED BY <1>1, SchedulePendingType DEF ConnConf

LEMMA SendDataType ==
  ASSUME NEW s, Typed(s), NEW more \in BOOLEAN, NEW idle \in BOOLEAN
  PROVE  Typed(SendData(s, more, idle))
<1> DEFINE allowed == IF DlySeq < s.snd_window THEN DlySeq ELSE s.snd_window
           dly == more /\ s.delayedacks + 1 < allowed
           delayed == IF dly THEN s.delayedacks + 1 ELSE 0
           s1 == [s EXCEPT !.delayedacks = delayed, !.persist = TRUE]
<1>1. delayed \in 0 .. (MaxWindow - 1) /\ dly \in BOOLEAN
  BY DlySeqAssumption, WindowAssumption, SeqHalfAssumption
  DEF Typed, Scp, MinWindow
<1> HIDE DEF delayed, dly
<1>2. Typed(s1)
  BY <1>1 DEF Typed, Scp
<1>3. Typed(QueueXmit(s1, "dat", "DATA", dly, idle))
  BY <1>1, <1>2, QueueXmitType DEF Chan, Kind
<1> QED BY <1>3 DEF SendData, delayed, dly

LEMMA SendOtherType ==
  ASSUME NEW s, Typed(s), s.flowrem_oth > 0, NEW idle \in BOOLEAN
  PROVE  Typed(SendOther(s, idle))
<1>1. s.flowrem_oth - 1 \in Nat
  BY DEF Typed, Scp
<1>2. Typed([s EXCEPT !.flowrem_oth = @ - 1, !.persist = TRUE])
  BY <1>1, CounterUpdate DEF Chan
<1> QED BY <1>2, QueueXmitType DEF SendOther, Chan, Kind, OthKind

LEMMA RecvDataType ==
  ASSUME NEW s, Typed(s), s.rcvq["dat"] > 0, NEW idle \in BOOLEAN
  PROVE  Typed(RecvData(s, idle))
<1> DEFINE s1 == [s EXCEPT !.rcvq["dat"] = @ - 1]
<1>0. s.rcvq["dat"] - 1 \in Nat /\ "dat" \in Chan
  BY DEF Typed, Scp, Chan
<1>1. Typed(s1)
  BY <1>0, CounterUpdate
<1>2. Typed([s1 EXCEPT !.flowloc_sw = "SEND"])
  BY <1>1 DEF Typed, Scp
<1> HIDE DEF s1
<1>3. Typed(SchedulePending([s1 EXCEPT !.flowloc_sw = "SEND"], {"SW"}, idle))
  BY <1>2, SchedulePendingType
<1> QED BY <1>1, <1>3 DEF RecvData, s1

LEMMA RecvOtherType ==
  ASSUME NEW s, Typed(s), s.rcvq["oth"] > 0, NEW idle \in BOOLEAN
  PROVE  Typed(RecvOther(s, idle))
<1>0. s.rcvq["oth"] - 1 \in Nat /\ "oth" \in Chan
  BY DEF Typed, Scp, Chan
<1>1. Typed([s EXCEPT !.rcvq["oth"] = @ - 1])
  BY <1>0, CounterUpdate
<1> QED BY <1>1, SchedulePendingType DEF RecvOther

LEMMA XmitTimeoutType ==
  ASSUME NEW s, Typed(s)
  PROVE  Typed(XmitTimeout(s))
<1>1. Typed(Output(s))
  BY OutputType
<1> QED BY <1>1 DEF XmitTimeout, Typed, Scp

LEMMA InitScpType == Typed(InitScp)
<1>1. InitScp \in Scp
  BY SeqHalfAssumption, WindowAssumption
  DEF InitScp, Scp, SeqNum, SeqMod, MinWindow, Queued
<1>2. \A c \in Chan : IsFiniteSet(InitScp.xmitq[c])
  BY FS_EmptySet DEF InitScp
<1> QED BY <1>1, <1>2 DEF Typed


-----------------------------------------------------------------------------
(* One socket *)

\* Numbers have not turned.
Room(s) == \A c \in Chan : s.nsent[c] < SeqHalf

\* p was stamped by socket s, now or earlier.
Stamped(p, s) ==
  /\ \A c \in Chan : p.ack[c] <= s.num_rcv[c]
  /\ p.kind \notin AckKind => p.seg = p.id /\ p.id \in 1 .. s.nsent[ChanOf(p)]

\* The transmit queue of subchannel c holds what was numbered and is not
\* acknowledged.
QueueSound(s, c) ==
  /\ s.ackrcv[c] <= s.nsent[c]
  /\ \A e \in s.xmitq[c] : /\ Stamped(e.pkt, s)
                           /\ ChanOf(e.pkt) = c /\ e.pkt.kind \notin AckKind
                           /\ s.ackrcv[c] < e.pkt.id
  /\ \A i \in (s.ackrcv[c] + 1) .. s.nsent[c] :
       \E e \in s.xmitq[c] : e.pkt.id = i

\* What was accepted on subchannel c, in order.
RcvSound(s, c) ==
  /\ s.num_rcv[c] = Len(s.got[c])
  /\ \A i \in 1 .. Len(s.got[c]) : s.got[c][i] = i

Core(s) ==
  /\ \A c \in Chan : /\ s.num[c] = s.nsent[c] + 1
                     /\ QueueSound(s, c)
                     /\ RcvSound(s, c)
  /\ \A i \in DOMAIN s.out : Stamped(s.out[i], s)

\* The state every handler starts from and leaves behind
Sound(s) == Typed(s) /\ (Room(s) => Core(s))

\* r is s after sending: nothing was received or acknowledged in between.
SentOnly(s, r) ==
  /\ r.got = s.got /\ r.num_rcv = s.num_rcv /\ r.ackrcv = s.ackrcv
  /\ \A c \in Chan : s.nsent[c] <= r.nsent[c]

\* A later state of the socket has stamped what an earlier one had.
LEMMA StampedLater ==
  ASSUME NEW s, Typed(s), NEW r, Typed(r), NEW p \in Packet, Stamped(p, s),
         \A c \in Chan : s.num_rcv[c] <= r.num_rcv[c] /\ s.nsent[c] <= r.nsent[c]
  PROVE  Stamped(p, r)
<1>1. ChanOf(p) \in Chan
  BY DEF ChanOf, Chan
<1>2. \A c \in Chan : /\ p.ack[c] \in Int
                      /\ s.num_rcv[c] \in Int /\ r.num_rcv[c] \in Int
                      /\ s.nsent[c] \in Int /\ r.nsent[c] \in Int
  BY SeqHalfAssumption DEF Typed, Scp, Packet, SeqNum, SeqMod
<1>3. p.id \in Int
  BY DEF Packet
<1> QED BY <1>1, <1>2, <1>3 DEF Stamped

LEMMA SentOnlyTrans ==
  ASSUME NEW s, Typed(s), NEW r, Typed(r), NEW t, Typed(t),
         SentOnly(s, r), SentOnly(r, t)
  PROVE  SentOnly(s, t)
<1>1. \A c \in Chan : s.nsent[c] \in Int /\ r.nsent[c] \in Int /\ t.nsent[c] \in Int
  BY DEF Typed, Scp
<1> QED BY <1>1 DEF SentOnly

LEMMA SentOnlyStamped ==
  ASSUME NEW s, Typed(s), NEW r, Typed(r), SentOnly(s, r)
  PROVE  \A p \in Packet : Stamped(p, s) => Stamped(p, r)
<1> SUFFICES ASSUME NEW p \in Packet, Stamped(p, s) PROVE Stamped(p, r)
  OBVIOUS
<1>1. \A c \in Chan : s.num_rcv[c] <= r.num_rcv[c] /\ s.nsent[c] <= r.nsent[c]
  BY SeqHalfAssumption DEF SentOnly, Typed, Scp, SeqNum, SeqMod
<1> QED BY <1>1, StampedLater

\* Fields that the invariant does not mention may change freely.
LEMMA SoundSame ==
  ASSUME NEW s, Sound(s), NEW r, Typed(r),
         r.num = s.num, r.num_rcv = s.num_rcv, r.ackrcv = s.ackrcv,
         r.xmitq = s.xmitq, r.out = s.out, r.nsent = s.nsent, r.got = s.got
  PROVE  Sound(r) /\ SentOnly(s, r)
BY SMTT(30) DEF Sound, Room, Core, QueueSound, RcvSound, Stamped, SentOnly, Typed, Scp

LEMMA CloneAndSendSound ==
  ASSUME NEW s, Sound(s), NEW c \in Chan, NEW e \in s.xmitq[c]
  PROVE  Sound(CloneAndSend(s, c, e)) /\ SentOnly(s, CloneAndSend(s, c, e))
<1> DEFINE f == [e EXCEPT !.cnt = IF @ = 0 THEN 1 ELSE 2]
           r == CloneAndSend(s, c, e)
<1>1. e \in Queued
  BY DEF Sound, Typed, Scp
<1>2. Typed(r)
  BY <1>1, CloneAndSendType DEF Sound
<1>3. f \in Queued /\ f.pkt = e.pkt
  BY <1>1 DEF Queued
<1>4. /\ r.num = s.num /\ r.num_rcv = s.num_rcv /\ r.ackrcv = s.ackrcv
      /\ r.nsent = s.nsent /\ r.got = s.got
      /\ r.out = Append(s.out, e.pkt)
      /\ r.xmitq[c] = (s.xmitq[c] \ {e}) \cup {f}
      /\ \A d \in Chan \ {c} : r.xmitq[d] = s.xmitq[d]
  BY DEF CloneAndSend, Sound, Typed, Scp
<1> HIDE DEF r, f
<1>5. SentOnly(s, r)
  BY <1>2, <1>4 DEF SentOnly, Sound, Typed, Scp
<1>6. ASSUME Room(r) PROVE Core(r)
  <2>1. Core(s)
    BY <1>4, <1>6 DEF Room, Sound
  <2>2. \A p : Stamped(p, r) <=> Stamped(p, s)
    BY <1>4 DEF Stamped
  <2>3. ASSUME NEW d \in Chan PROVE QueueSound(r, d)
    <3>1. QueueSound(s, d)
      BY <2>1 DEF Core
    <3>2. CASE d = c
      <4>1. \A g \in r.xmitq[c] : g = f \/ g \in s.xmitq[c]
        BY <1>4
      <4>2. \A g \in s.xmitq[c] : g = e \/ g \in r.xmitq[c]
        BY <1>4
      <4>3. f \in r.xmitq[c]
        BY <1>4
      <4> QED BY <1>3, <1>4, <2>2, <3>1, <3>2, <4>1, <4>2, <4>3 DEF QueueSound
    <3>3. CASE d # c
      BY <1>4, <2>2, <3>1, <3>3 DEF QueueSound
    <3> QED BY <3>2, <3>3
  <2>4. \A i \in DOMAIN r.out : Stamped(r.out[i], r)
    <3>1. Stamped(e.pkt, s)
      BY <2>1 DEF Core, QueueSound
    <3>2. s.out \in Seq(Packet) /\ e.pkt \in Packet
      BY <1>1 DEF Sound, Typed, Scp, Queued
    <3>3. \A i \in DOMAIN r.out :
             r.out[i] = e.pkt \/ (i \in DOMAIN s.out /\ r.out[i] = s.out[i])
      BY <1>4, <3>2
    <3> QED BY <2>1, <2>2, <3>1, <3>3 DEF Core
  <2> QED BY <1>4, <2>1, <2>3, <2>4 DEF Core, RcvSound
<1> QED BY <1>2, <1>5, <1>6 DEF Sound, r

LEMMA OutputSound ==
  ASSUME NEW s, Sound(s)
  PROVE  Sound(Output(s)) /\ SentOnly(s, Output(s))
<1> DEFINE oth == s.xmitq["oth"]
           dat == s.xmitq["dat"]
           s1 == IF oth = {} THEN s ELSE CloneAndSend(s, "oth", First(oth))
           s2 == CloneAndSend(s1, "dat", First(dat))
           Good(r) == Sound(r) /\ SentOnly(s, r)
           Halved(r) == [r EXCEPT !.snd_window = HalfWindow(@)]
<1>1. /\ oth \in SUBSET Queued /\ dat \in SUBSET Queued
      /\ "oth" \in Chan /\ "dat" \in Chan
  BY DEF Sound, Typed, Scp, Chan
<1>2. Good(s)
  BY DEF SentOnly, Sound, Typed, Scp
<1>3. Good(s1) /\ s1.xmitq["dat"] = dat
  <2>1. CASE oth = {}
    BY <1>2, <2>1
  <2>2. CASE oth # {}
    <3>1. First(oth) \in oth
      BY <1>1, <2>2, FirstInQueue
    <3>2. CloneAndSend(s, "oth", First(oth)).xmitq["dat"] = dat
      BY DEF CloneAndSend, Sound, Typed, Scp, Chan
    <3> QED BY <1>1, <2>2, <3>1, <3>2, CloneAndSendSound
  <2> QED BY <2>1, <2>2
<1> HIDE DEF s1
<1>4. dat # {} => Good(s2)
  <2> SUFFICES ASSUME dat # {} PROVE Good(s2)
    OBVIOUS
  <2>1. First(dat) \in s1.xmitq["dat"]
    BY <1>1, <1>3, FirstInQueue
  <2>2. Sound(s2) /\ SentOnly(s1, s2)
    BY <1>1, <1>3, <2>1, CloneAndSendSound
  <2> QED BY <1>3, <2>2, SentOnlyTrans DEF Sound
<1> HIDE DEF s2
<1>5. ASSUME NEW r, Good(r) PROVE Good(Halved(r))
  <2>1. Typed(Halved(r))
    BY <1>5, HalfWindowType DEF Sound, Typed, Scp
  <2>2. Sound(Halved(r)) /\ SentOnly(r, Halved(r))
    <3>1. Typed(r) /\ Sound(r)
      BY <1>5 DEF Sound
    <3> QED BY <2>1, <3>1, SoundSame DEF Typed, Scp
  <2> QED BY <1>5, <2>1, <2>2, SentOnlyTrans DEF Sound
<1> HIDE DEF Good
<1>6. Good(Halved(s1)) /\ (dat # {} => Good(Halved(s2)))
  BY <1>3, <1>4, <1>5
<1>7. Good(Output(s))
  BY <1>3, <1>4, <1>6 DEF Output, s1, s2
<1> QED BY <1>7 DEF Good

LEMMA QueueXmitSound ==
  ASSUME NEW s, Sound(s), NEW c \in Chan, NEW kind \in Kind \ AckKind,
         NEW dly \in BOOLEAN, NEW idle \in BOOLEAN,
         c = ChanOf([kind |-> kind])
  PROVE  /\ Sound(QueueXmit(s, c, kind, dly, idle))
         /\ SentOnly(s, QueueXmit(s, c, kind, dly, idle))
<1> DEFINE e == [cnt |-> 0,
                 pkt |-> [kind |-> kind, seg |-> s.num[c],
                          id |-> s.nsent[c] + 1, dly |-> dly,
                          ack |-> s.num_rcv]]
           r == [s EXCEPT !.num[c] = seq_add1(@),
                          !.nsent[c] = @ + 1,
                          !.snd_window = IF idle THEN MinWindow ELSE @,
                          !.xmitq[c] = @ \cup {e}]
<1>1. e \in Queued /\ ChanOf(e.pkt) = c /\ e.pkt.kind \notin AckKind
  BY DEF Sound, Typed, Scp, Queued, Packet, ChanOf
<1>2. /\ r.num = [s.num EXCEPT ![c] = seq_add1(s.num[c])]
      /\ r.nsent = [s.nsent EXCEPT ![c] = s.nsent[c] + 1]
      /\ r.xmitq = [s.xmitq EXCEPT ![c] = s.xmitq[c] \cup {e}]
      /\ r.num_rcv = s.num_rcv /\ r.ackrcv = s.ackrcv /\ r.got = s.got
      /\ r.out = s.out
  BY DEF Sound, Typed, Scp
<1>3. Typed(r)
  <2>1. /\ r.num \in [Chan -> SeqNum] /\ r.nsent \in [Chan -> Nat]
        /\ (IF idle THEN MinWindow ELSE s.snd_window) \in MinWindow .. MaxWindow
    BY <1>2, SeqAddType, WindowAssumption, SeqHalfAssumption
    DEF Sound, Typed, Scp, MinWindow
  <2>2. r.xmitq \in [Chan -> SUBSET Queued]
    BY <1>1, <1>2 DEF Sound, Typed, Scp
  <2> HIDE DEF e, r
  <2>3. \A d \in Chan : IsFiniteSet(r.xmitq[d])
    <3>1. IsFiniteSet(s.xmitq[c] \cup {e})
      BY FS_AddElement DEF Sound, Typed
    <3> QED BY <1>2, <3>1 DEF Sound, Typed, Scp
  <2> USE DEF r
  <2>4. /\ r.state = s.state /\ r.rcvq = s.rcvq
        /\ r.other_report = s.other_report /\ r.flowrem_sw = s.flowrem_sw
        /\ r.flowloc_sw = s.flowloc_sw /\ r.flowrem_oth = s.flowrem_oth
        /\ r.pending = s.pending /\ r.delayedacks = s.delayedacks
        /\ r.persist = s.persist
        /\ r.snd_window = IF idle THEN MinWindow ELSE s.snd_window
    BY DEF Sound, Typed, Scp
  <2> QED BY <1>2, <2>1, <2>2, <2>3, <2>4 DEF Sound, Typed, Scp
<1> HIDE DEF r
<1>4. SentOnly(s, r)
  BY <1>2 DEF SentOnly, Sound, Typed, Scp
<1>5. ASSUME Room(r) PROVE Core(r)
  <2>1. Core(s) /\ s.nsent[c] + 1 < SeqHalf /\ s.nsent[c] \in Nat
    <3>1. s.nsent \in [Chan -> Nat]
      BY DEF Sound, Typed, Scp
    <3>2. \A d \in Chan : r.nsent[d] = IF d = c THEN s.nsent[d] + 1 ELSE s.nsent[d]
      BY <1>2, <3>1
    <3>3. Room(s) /\ s.nsent[c] + 1 < SeqHalf
      BY <1>5, <3>1, <3>2, SeqHalfAssumption DEF Room
    <3> QED BY <3>1, <3>3 DEF Sound
  <2>2. r.num[c] = r.nsent[c] + 1 /\ e.pkt.seg = e.pkt.id
    BY <1>2, <2>1, SeqHalfAssumption DEF Core, seq_add1, SeqMod, Sound, Typed, Scp
  <2>3. \A p \in Packet : Stamped(p, s) => Stamped(p, r)
    BY <1>3, <1>4, SentOnlyStamped DEF Sound
  <2>4. Stamped(e.pkt, r)
    <3>1. e.pkt.ack = r.num_rcv
      BY <1>2
    <3>2. e.pkt.seg = e.pkt.id /\ e.pkt.id \in 1 .. r.nsent[c]
      BY <1>2, <2>1, <2>2 DEF Sound, Typed, Scp
    <3>3. \A d \in Chan : r.num_rcv[d] \in Int
      BY <1>3, SeqHalfAssumption DEF Typed, Scp, SeqNum, SeqMod
    <3> HIDE DEF e
    <3> QED BY <1>1, <3>1, <3>2, <3>3 DEF Stamped
  <2>5. ASSUME NEW d \in Chan PROVE QueueSound(r, d)
    <3>1. QueueSound(s, d) /\ s.ackrcv[d] \in Nat /\ s.nsent[d] \in Nat
      BY <2>1, SeqHalfAssumption DEF Core, Sound, Typed, Scp, SeqNum, SeqMod
    <3>2. \A g \in s.xmitq[d] : g.pkt \in Packet
      BY DEF Sound, Typed, Scp, Queued
    <3>3. CASE d = c
      <4>1. r.xmitq[c] = s.xmitq[c] \cup {e} /\ r.nsent[c] = s.nsent[c] + 1
            /\ r.ackrcv = s.ackrcv
        BY <1>2 DEF Sound, Typed, Scp
      <4>2. r.ackrcv[c] <= r.nsent[c]
        BY <3>1, <3>3, <4>1 DEF QueueSound
      <4>3. \A g \in r.xmitq[c] : /\ Stamped(g.pkt, r)
                                  /\ ChanOf(g.pkt) = c /\ g.pkt.kind \notin AckKind
                                  /\ r.ackrcv[c] < g.pkt.id
        <5>1. r.ackrcv[c] < e.pkt.id
          BY <3>1, <3>3, <4>1 DEF QueueSound
        <5> HIDE DEF e
        <5> QED BY <1>1, <2>3, <2>4, <3>1, <3>2, <3>3, <4>1, <5>1 DEF QueueSound
      <4>4. ASSUME NEW i \in (r.ackrcv[c] + 1) .. r.nsent[c]
            PROVE  \E g \in r.xmitq[c] : g.pkt.id = i
        <5>1. CASE i = s.nsent[c] + 1
          <6>1. e \in r.xmitq[c] /\ e.pkt.id = i
            BY <4>1, <5>1
          <6> HIDE DEF e
          <6> QED BY <6>1
        <5>2. CASE i # s.nsent[c] + 1
          <6>1. i \in (s.ackrcv[c] + 1) .. s.nsent[c]
            <7>1. s.ackrcv[c] \in Nat /\ s.nsent[c] \in Nat
              BY <3>1, <3>3
            <7>2. i \in (s.ackrcv[c] + 1) .. (s.nsent[c] + 1)
              BY <4>1
            <7> HIDE DEF e
            <7> QED BY <5>2, <7>1, <7>2
          <6> HIDE DEF e
          <6> QED BY <3>1, <3>3, <4>1, <6>1 DEF QueueSound
        <5> QED BY <5>1, <5>2
      <4> QED BY <3>3, <4>2, <4>3, <4>4 DEF QueueSound
    <3>4. CASE d # c
      <4>1. r.xmitq[d] = s.xmitq[d] /\ r.nsent[d] = s.nsent[d] /\ r.ackrcv = s.ackrcv
        BY <1>2, <3>4 DEF Sound, Typed, Scp
      <4> QED BY <2>3, <3>1, <3>2, <4>1 DEF QueueSound
    <3> QED BY <3>3, <3>4
  <2>6. \A d \in Chan : r.num[d] = r.nsent[d] + 1
    BY <1>2, <2>1, <2>2 DEF Core, Sound, Typed, Scp
  <2>7. \A d \in Chan : RcvSound(r, d)
    BY <1>2, <2>1 DEF Core, RcvSound
  <2>8. \A i \in DOMAIN r.out : Stamped(r.out[i], r)
    BY <1>2, <2>1, <2>3 DEF Core, Sound, Typed, Scp
  <2> QED BY <2>5, <2>6, <2>7, <2>8 DEF Core
<1>6. Sound(r)
  BY <1>3, <1>5 DEF Sound
<1>7. e \in r.xmitq[c]
  BY <1>2 DEF Sound, Typed, Scp
<1>8. /\ Sound(CloneAndSend(r, c, e)) /\ SentOnly(r, CloneAndSend(r, c, e))
  BY <1>6, <1>7, CloneAndSendSound
<1>9. SentOnly(s, CloneAndSend(r, c, e))
  BY <1>3, <1>4, <1>8, SentOnlyTrans DEF Sound
<1>10. QueueXmit(s, c, kind, dly, idle)
        = IF c = "dat" /\ s.flowrem_sw # "SEND" THEN r ELSE CloneAndSend(r, c, e)
  BY DEF QueueXmit, r
<1> HIDE DEF e
<1> QED BY <1>4, <1>6, <1>8, <1>9, <1>10

LEMMA SendLinkSound ==
  ASSUME NEW s, Sound(s), NEW kind \in OthKind, NEW idle \in BOOLEAN
  PROVE  Sound(SendLink(s, kind, idle)) /\ SentOnly(s, SendLink(s, kind, idle))
<1> DEFINE r == QueueXmit(s, "oth", kind, FALSE, idle)
           t == [r EXCEPT !.persist = TRUE]
<1>1. kind \in Kind \ AckKind /\ "oth" \in Chan /\ "oth" = ChanOf([kind |-> kind])
  BY DEF Kind, OthKind, AckKind, Chan, ChanOf
<1>2. Sound(r) /\ SentOnly(s, r)
  BY <1>1, QueueXmitSound
<1> HIDE DEF r
<1>3. Typed(t)
  BY <1>2 DEF Sound, Typed, Scp
<1>4. Sound(t) /\ SentOnly(r, t)
  BY <1>2, <1>3, SoundSame DEF Sound, Typed, Scp
<1>5. SentOnly(s, t)
  BY <1>2, <1>4, SentOnlyTrans DEF Sound
<1> QED BY <1>4, <1>5 DEF SendLink, r

LEMMA SchedulePendingSound ==
  ASSUME NEW s, Sound(s), NEW what \in SUBSET {"INTR", "SW", "IDLE"},
         NEW idle \in BOOLEAN
  PROVE  /\ Sound(SchedulePending(s, what, idle))
         /\ SentOnly(s, SchedulePending(s, what, idle))
<1> DEFINE pend == s.pending \cup what
           k == IF "INTR" \in pend THEN "INTR"
                ELSE IF "SW" \in pend THEN "SW" ELSE "IDLE"
           Pending(P) == [s EXCEPT !.pending = P]
           t == SendLink(Pending(pend \ {k}), LinkMessage(s, k), idle)
<1>1. ASSUME NEW P \in SUBSET {"INTR", "SW", "IDLE"}
      PROVE  Sound(Pending(P)) /\ SentOnly(s, Pending(P))
  <2>1. Typed(Pending(P))
    BY DEF Sound, Typed, Scp
  <2> QED BY <2>1, SoundSame DEF Sound, Typed, Scp
<1>2. pend \in SUBSET {"INTR", "SW", "IDLE"} /\ LinkMessage(s, k) \in OthKind
  BY DEF LinkMessage, OthKind, Sound, Typed, Scp
<1> HIDE DEF k, pend
<1>3. Sound(Pending(pend \ {k})) /\ SentOnly(s, Pending(pend \ {k}))
  BY <1>1, <1>2
<1>4. Sound(Pending(pend)) /\ SentOnly(s, Pending(pend))
  BY <1>1, <1>2
<1>5. SchedulePending(s, what, idle)
        = IF pend = {} \/ s.xmitq["oth"] # {} THEN Pending(pend) ELSE t
  BY DEF SchedulePending, k, pend
<1> HIDE DEF Pending
<1>6. Sound(t) /\ SentOnly(Pending(pend \ {k}), t)
  BY <1>2, <1>3, SendLinkSound
<1>7. SentOnly(s, t)
  BY <1>3, <1>6, SentOnlyTrans DEF Sound
<1> QED BY <1>4, <1>5, <1>6, <1>7

LEMMA SendAckSound ==
  ASSUME NEW s, Sound(s), NEW c \in Chan
  PROVE  Sound(SendAck(s, c)) /\ SentOnly(s, SendAck(s, c))
<1> DEFINE p == [kind |-> IF c = "dat" THEN "DATACK" ELSE "OTHACK",
                 seg |-> 0, id |-> 0, dly |-> FALSE, ack |-> s.num_rcv]
           r == SendAck(s, c)
<1>1. Typed(r)
  BY SendAckType DEF Sound
<1>2. /\ r.num = s.num /\ r.num_rcv = s.num_rcv /\ r.ackrcv = s.ackrcv
      /\ r.xmitq = s.xmitq /\ r.nsent = s.nsent /\ r.got = s.got
      /\ r.out = Append(s.out, p)
  BY DEF SendAck, Sound, Typed, Scp
<1>3. Stamped(p, s)
  BY SeqHalfAssumption
  DEF Stamped, AckKind, Sound, Typed, Scp, SeqNum, SeqMod
<1> HIDE DEF r, p
<1>4. SentOnly(s, r)
  BY <1>2 DEF SentOnly, Sound, Typed, Scp
<1>5. ASSUME Room(r) PROVE Core(r)
  <2>1. Core(s)
    BY <1>2, <1>5 DEF Room, Sound
  <2>2. \A q : Stamped(q, r) <=> Stamped(q, s)
    BY <1>2 DEF Stamped
  <2>3. \A i \in DOMAIN r.out : r.out[i] = p \/ (i \in DOMAIN s.out /\ r.out[i] = s.out[i])
    BY <1>2 DEF Sound, Typed, Scp
  <2>4. \A i \in DOMAIN r.out : Stamped(r.out[i], r)
    BY <1>3, <2>1, <2>2, <2>3 DEF Core
  <2>5. \A d \in Chan : QueueSound(r, d) /\ RcvSound(r, d) /\ r.num[d] = r.nsent[d] + 1
    BY <1>2, <2>1, <2>2 DEF Core, QueueSound, RcvSound
  <2> QED BY <2>4, <2>5 DEF Core
<1> QED BY <1>1, <1>4, <1>5 DEF Sound, r

\* r is s after acknowledgements for subchannel c up to a: nothing received.
AckedTo(s, r, c, a) ==
  /\ r.got = s.got /\ r.num_rcv = s.num_rcv
  /\ \A d \in Chan : /\ s.nsent[d] <= r.nsent[d]
                     /\ r.ackrcv[d] = s.ackrcv[d] \/ (d = c /\ r.ackrcv[d] = a)

\* s when the segments of subchannel c up to a are freed.
Freed(s, c, a) ==
  LET acked == {e \in s.xmitq[c] : dn_before_or_equal(e.pkt.seg, a)}
  IN  [s EXCEPT !.ackrcv[c] = a, !.xmitq[c] = @ \ acked,
                !.snd_window = Opened(@, acked)]

\* dn_ack frees exactly what the acknowledgement covers.
LEMMA FreedSound ==
  ASSUME NEW s, Sound(s), NEW c \in Chan, NEW a \in SeqNum,
         Room(s) => a <= s.nsent[c], dn_after(a, s.ackrcv[c])
  PROVE  LET s1 == Freed(s, c, a)
         IN  /\ Sound(s1)
             /\ s1.num_rcv = s.num_rcv /\ s1.nsent = s.nsent /\ s1.got = s.got
             /\ s1.out = s.out /\ s1.rcvq = s.rcvq /\ s1.pending = s.pending
             /\ s1.flowrem_oth = s.flowrem_oth /\ s1.flowrem_sw = s.flowrem_sw
             /\ s1.flowloc_sw = s.flowloc_sw
             /\ \A d \in Chan : s1.ackrcv[d] = IF d = c THEN a ELSE s.ackrcv[d]
             /\ \A d \in Chan \ {c} : s1.xmitq[d] = s.xmitq[d]
             /\ \A e \in s1.xmitq[c] : e \in s.xmitq[c]
             /\ Room(s) => \A e \in s.xmitq[c] : e \in s1.xmitq[c] \/ e.pkt.id <= a
<1> DEFINE acked == {e \in s.xmitq[c] : dn_before_or_equal(e.pkt.seg, a)}
           s0 == [s EXCEPT !.ackrcv[c] = a]
           s1 == Freed(s, c, a)
<1>1. \A d \in Chan : s.nsent[d] \in Int
  BY DEF Sound, Typed, Scp
<1>2. /\ s1.num = s.num /\ s1.num_rcv = s.num_rcv
      /\ s1.nsent = s.nsent /\ s1.got = s.got /\ s1.out = s.out
      /\ s1.rcvq = s.rcvq /\ s1.pending = s.pending
      /\ s1.flowrem_oth = s.flowrem_oth /\ s1.flowrem_sw = s.flowrem_sw
      /\ s1.flowloc_sw = s.flowloc_sw
      /\ s1.ackrcv = [s.ackrcv EXCEPT ![c] = a]
      /\ s1.xmitq = [s.xmitq EXCEPT ![c] = @ \ acked]
  BY DEF Freed, Sound, Typed, Scp
<1>3. Typed(s0) /\ s0.xmitq = s.xmitq /\ acked \in SUBSET s0.xmitq[c]
      /\ s1 = [s0 EXCEPT !.xmitq[c] = @ \ acked, !.snd_window = Opened(@, acked)]
  BY DEF Freed, Sound, Typed, Scp
<1> HIDE DEF acked, s0, s1
<1>4. Typed(s1)
  BY <1>3, FreedType
<1>5. ASSUME Room(s)
      PROVE  /\ a \in 0 .. (SeqHalf - 1) /\ s.ackrcv[c] \in 0 .. (SeqHalf - 1)
             /\ s.ackrcv[c] < a
             /\ \A e \in s.xmitq[c] : e \in acked <=> e.pkt.id <= a
  <2>1. Core(s) /\ QueueSound(s, c) /\ a <= s.nsent[c]
    BY <1>5 DEF Sound, Core
  <2>2. a \in 0 .. (SeqHalf - 1) /\ s.ackrcv[c] \in 0 .. (SeqHalf - 1)
    <3>1. a \in Nat /\ s.ackrcv[c] \in Nat
      BY SeqHalfAssumption DEF Sound, Typed, Scp, SeqNum, SeqMod
    <3>2. a <= s.nsent[c] /\ s.ackrcv[c] <= s.nsent[c] /\ s.nsent[c] < SeqHalf
      BY <1>5, <2>1 DEF Room, QueueSound
    <3> QED BY <1>1, <3>1, <3>2, SeqHalfAssumption
  <2>3. s.ackrcv[c] < a
    <3>1. dn_after(a, s.ackrcv[c]) <=> a > s.ackrcv[c]
      BY <2>2, NoWrapOrder
    <3>2. a \in Int /\ s.ackrcv[c] \in Int
      BY <2>2
    <3> QED BY <3>1, <3>2
  <2>4. ASSUME NEW e \in s.xmitq[c]
        PROVE  e \in acked <=> e.pkt.id <= a
    <3>1. e.pkt.seg = e.pkt.id /\ e.pkt.id \in 1 .. s.nsent[c]
      BY <2>1 DEF QueueSound, Stamped
    <3>2. e.pkt.seg \in 0 .. (SeqHalf - 1)
      <4>1. s.nsent[c] < SeqHalf /\ s.nsent[c] \in Int
        BY <1>1, <1>5 DEF Room
      <4> QED BY <3>1, <4>1, SeqHalfAssumption
    <3> QED BY <2>2, <3>1, <3>2, NoWrapOrder DEF acked
  <2> QED BY <2>2, <2>3, <2>4
<1>6. ASSUME Room(s1) PROVE Core(s1)
  <2>1. Core(s) /\ a <= s.nsent[c] /\ Room(s)
    BY <1>2, <1>6 DEF Room, Sound
  <2>2. \A p : Stamped(p, s1) <=> Stamped(p, s)
    BY <1>2 DEF Stamped
  <2>3. QueueSound(s1, c)
    <3>1. QueueSound(s, c)
      BY <2>1 DEF Core
    <3>2. a \in 0 .. (SeqHalf - 1) /\ s.ackrcv[c] \in 0 .. (SeqHalf - 1)
          /\ s.ackrcv[c] < a
      BY <1>5, <2>1
    <3>4. \A e \in s.xmitq[c] : e \in acked <=> e.pkt.id <= a
      BY <1>5, <2>1
    <3>5. s1.xmitq[c] = s.xmitq[c] \ acked /\ s1.ackrcv[c] = a
      BY <1>2 DEF Sound, Typed, Scp
    <3>6. \A e \in s1.xmitq[c] : a < e.pkt.id
      <4> SUFFICES ASSUME NEW e \in s1.xmitq[c] PROVE a < e.pkt.id
        OBVIOUS
      <4>1. e \in s.xmitq[c] /\ ~(e.pkt.id <= a)
        BY <3>4, <3>5
      <4>2. e.pkt.id \in Int
        BY <4>1 DEF Sound, Typed, Scp, Queued, Packet
      <4> HIDE DEF acked
      <4>3. a \in Int
        BY <3>2
      <4> QED BY <4>1, <4>2, <4>3
    <3>7. ASSUME NEW i \in (a + 1) .. s.nsent[c]
          PROVE  \E e \in s1.xmitq[c] : e.pkt.id = i
      <4>1. PICK e \in s.xmitq[c] : e.pkt.id = i
        BY <3>1, <3>2 DEF QueueSound
      <4>2. ~(e.pkt.id <= a)
        BY <1>1, <3>2, <4>1
      <4> QED BY <3>4, <3>5, <4>1, <4>2
    <3> QED BY <1>2, <2>1, <2>2, <3>1, <3>5, <3>6, <3>7 DEF QueueSound
  <2>4. \A d \in Chan \ {c} : QueueSound(s1, d)
    <3>1. \A d \in Chan \ {c} : s1.xmitq[d] = s.xmitq[d] /\ s1.ackrcv[d] = s.ackrcv[d]
      BY <1>2 DEF Sound, Typed, Scp
    <3> QED BY <1>2, <2>1, <2>2, <3>1 DEF Core, QueueSound
  <2> QED BY <1>2, <2>1, <2>2, <2>3, <2>4 DEF Core, RcvSound
<1>7. s1.xmitq[c] = s.xmitq[c] \ acked /\ \A d \in Chan \ {c} : s1.xmitq[d] = s.xmitq[d]
  BY <1>2 DEF Sound, Typed, Scp
<1>8. Room(s) => \A e \in s.xmitq[c] : e \in s1.xmitq[c] \/ e.pkt.id <= a
  BY <1>5, <1>7
<1>9. Sound(s1)
  BY <1>4, <1>6 DEF Sound
<1>10. \A d \in Chan : s1.ackrcv[d] = IF d = c THEN a ELSE s.ackrcv[d]
  BY <1>2 DEF Sound, Typed, Scp
<1> QED BY <1>2, <1>7, <1>8, <1>9, <1>10 DEF s1

\* What dn_ack does after that.
LEMMA AckSteps ==
  ASSUME NEW s, Sound(s), NEW c \in Chan, NEW a
  PROVE  LET s1 == Freed(s, c, a)
             s2 == IF c = "oth" THEN SchedulePending(s1, {}, FALSE) ELSE s1
         IN  \/ dn_ack(s, c, a) = s
             \/ dn_after(a, s.ackrcv[c]) /\ dn_ack(s, c, a) \in {s2, Output(s2)}
<1> DEFINE acked == {e \in s.xmitq[c] : dn_before_or_equal(e.pkt.seg, a)}
           s0 == [s EXCEPT !.ackrcv[c] = a]
<1>1. s0.xmitq = s.xmitq
  BY DEF Sound, Typed, Scp
<1>2. [s0 EXCEPT !.xmitq[c] = @ \ acked, !.snd_window = Opened(@, acked)] = Freed(s, c, a)
  BY DEF Freed, Sound, Typed, Scp
<1>3. dn_ack(s, c, a) = IF dn_after(a, s.ackrcv[c]) THEN CheckXmitQueue(s0, c, a) ELSE s
  BY DEF dn_ack
<1>4. CheckXmitQueue(s0, c, a)
        = LET s1 == Freed(s, c, a)
              s2 == IF c = "oth" THEN SchedulePending(s1, {}, FALSE) ELSE s1
          IN  IF acked # {} /\ Last(acked).cnt > 1 THEN Output(s2) ELSE s2
  <2> HIDE DEF s0
  <2> QED BY <1>1, <1>2 DEF CheckXmitQueue
<1> HIDE DEF s0, acked
<1> QED BY <1>3, <1>4

LEMMA DnAckSound ==
  ASSUME NEW s, Sound(s), NEW c \in Chan, NEW a \in SeqNum,
         Room(s) => a <= s.nsent[c]
  PROVE  Sound(dn_ack(s, c, a)) /\ AckedTo(s, dn_ack(s, c, a), c, a)
<1> DEFINE s1 == Freed(s, c, a)
           s2 == IF c = "oth" THEN SchedulePending(s1, {}, FALSE) ELSE s1
<1>1. \A d \in Chan : s.nsent[d] \in Int
  BY DEF Sound, Typed, Scp
<1>2. CASE dn_ack(s, c, a) = s
  BY <1>1, <1>2 DEF AckedTo
<1>3. CASE dn_after(a, s.ackrcv[c]) /\ dn_ack(s, c, a) \in {s2, Output(s2)}
  <2>1. /\ Sound(s1) /\ s1.got = s.got /\ s1.num_rcv = s.num_rcv /\ s1.nsent = s.nsent
        /\ \A d \in Chan : s1.ackrcv[d] = IF d = c THEN a ELSE s.ackrcv[d]
    BY <1>3, FreedSound
  <2> HIDE DEF s1
  <2>2. Sound(s2) /\ SentOnly(s1, s2)
    <3>1. SentOnly(s1, s1)
      BY <1>1, <2>1 DEF SentOnly
    <3>2. /\ Sound(SchedulePending(s1, {}, FALSE))
          /\ SentOnly(s1, SchedulePending(s1, {}, FALSE))
      BY <2>1, SchedulePendingSound
    <3> QED BY <2>1, <3>1, <3>2
  <2> HIDE DEF s2
  <2>3. Sound(Output(s2)) /\ SentOnly(s1, Output(s2))
    BY <2>1, <2>2, OutputSound, SentOnlyTrans DEF Sound
  <2>4. PICK r : r = dn_ack(s, c, a) /\ Sound(r) /\ SentOnly(s1, r)
    BY <1>3, <2>2, <2>3
  <2>5. \A d \in Chan : s1.ackrcv[d] = s.ackrcv[d] \/ (d = c /\ s1.ackrcv[d] = a)
    BY <2>1 DEF Sound, Typed, Scp
  <2>6. AckedTo(s, r, c, a)
    BY <2>1, <2>4, <2>5 DEF AckedTo, SentOnly
  <2> QED BY <2>4, <2>6
<1> QED BY <1>2, <1>3, AckSteps

-----------------------------------------------------------------------------
(* Reception *)

\* p can come from the other end: it acknowledges what s has sent, and what it
\* numbers has not turned.
Acceptable(p, s) ==
  /\ \A c \in Chan : p.ack[c] <= s.nsent[c]
  /\ p.kind \notin AckKind => p.seg = p.id /\ p.id \in 1 .. (SeqHalf - 1)

\* r is s after the acknowledgements in p.
AckedBy(s, r, p) ==
  /\ r.got = s.got /\ r.num_rcv = s.num_rcv
  /\ \A d \in Chan : /\ s.nsent[d] <= r.nsent[d]
                     /\ r.ackrcv[d] \in {s.ackrcv[d], p.ack[d]}

\* r is s after p was taken in, if it was the next of its subchannel.
Taken(s, r, p) ==
  /\ r.ackrcv = s.ackrcv
  /\ \A d \in Chan :
       /\ s.nsent[d] <= r.nsent[d]
       /\ \/ r.got[d] = s.got[d]
          \/ /\ d = ChanOf(p) /\ p.kind \notin AckKind
             /\ seq_next(s.num_rcv[d], p.seg)
             /\ r.got[d] = Append(s.got[d], p.id)

LEMMA ProcessAckSound ==
  ASSUME NEW s, Sound(s), NEW p \in Packet, Acceptable(p, s)
  PROVE  Sound(ProcessAck(s, p)) /\ AckedBy(s, ProcessAck(s, p), p)
<1> DEFINE c == ChanOf(p)
           d == OtherChan(c)
           t == dn_ack(s, c, p.ack[c])
           r == dn_ack(t, d, p.ack[d])
<1>1. c \in Chan /\ d \in Chan /\ c # d /\ Chan = {c, d}
  BY DEF ChanOf, OtherChan, Chan
<1>2. p.ack[c] \in SeqNum /\ p.ack[d] \in SeqNum
  BY <1>1 DEF Packet
<1> HIDE DEF c, d
<1>3. Sound(t) /\ AckedTo(s, t, c, p.ack[c])
  BY <1>1, <1>2, DnAckSound DEF Acceptable
<1> HIDE DEF t
<1>4. ASSUME NEW e \in Chan PROVE s.nsent[e] \in Int /\ t.nsent[e] \in Int
  BY <1>3 DEF Sound, Typed, Scp
<1>5. p.ack[d] <= t.nsent[d]
  <2>1. p.ack[d] <= s.nsent[d] /\ s.nsent[d] <= t.nsent[d]
    BY <1>1, <1>3 DEF Acceptable, AckedTo
  <2>2. p.ack[d] \in Int
    BY <1>2, SeqHalfAssumption DEF SeqNum, SeqMod
  <2> QED BY <1>1, <1>4, <2>1, <2>2
<1>6. Sound(r) /\ AckedTo(t, r, d, p.ack[d])
  BY <1>1, <1>2, <1>3, <1>5, DnAckSound
<1> HIDE DEF r
<1>7. ASSUME NEW e \in Chan PROVE s.nsent[e] <= r.nsent[e]
  <2>1. r.nsent[e] \in Int
    BY <1>6 DEF Sound, Typed, Scp
  <2> QED BY <1>3, <1>4, <1>6, <2>1 DEF AckedTo
<1>8. AckedBy(s, r, p)
  BY <1>1, <1>3, <1>6, <1>7 DEF AckedTo, AckedBy
<1> QED BY <1>6, <1>8 DEF ProcessAck, r, t, c, d

\* The next segment of a subchannel is the one after those accepted.
LEMMA AcceptSound ==
  ASSUME NEW s, Sound(s), NEW p \in Packet, Acceptable(p, s),
         p.kind \notin AckKind, NEW c \in Chan, c = ChanOf(p),
         seq_next(s.num_rcv[c], p.seg)
  PROVE  Sound(Accept(s, c, p)) /\ Taken(s, Accept(s, c, p), p)
<1> DEFINE r == Accept(s, c, p)
<1>1. Typed(r)
  BY AcceptType DEF Sound
<1>2. /\ r.num = s.num /\ r.ackrcv = s.ackrcv /\ r.nsent = s.nsent
      /\ r.xmitq = s.xmitq /\ r.out = s.out
      /\ r.num_rcv = [s.num_rcv EXCEPT ![c] = p.seg]
      /\ r.got = [s.got EXCEPT ![c] = Append(@, p.id)]
  BY DEF Accept, seq_next, Sound, Typed, Scp
<1> HIDE DEF r
<1>3. p.seg = p.id /\ p.id \in 1 .. (SeqHalf - 1) /\ s.num_rcv[c] + 1 = p.id
  <2>1. s.num_rcv[c] \in SeqNum
    BY DEF Sound, Typed, Scp
  <2> QED BY <2>1, SeqHalfAssumption
          DEF Acceptable, seq_next, seq_add1, SeqNum, SeqMod
<1>4. Taken(s, r, p)
  BY SMTT(30), <1>2 DEF Taken, Sound, Typed, Scp
<1>5. ASSUME Room(r) PROVE Core(r)
  <2>1. Core(s)
    BY <1>2, <1>5 DEF Room, Sound
  <2>2. \A q \in Packet : Stamped(q, s) => Stamped(q, r)
    <3>1. ASSUME NEW d \in Chan
          PROVE  s.num_rcv[d] <= r.num_rcv[d] /\ s.nsent[d] <= r.nsent[d]
      <4>1. s.num_rcv[d] \in Int /\ s.nsent[d] \in Int
        BY SeqHalfAssumption DEF Sound, Typed, Scp, SeqNum, SeqMod
      <4>2. r.num_rcv[d] = IF d = c THEN s.num_rcv[c] + 1 ELSE s.num_rcv[d]
        BY <1>2, <1>3 DEF Sound, Typed, Scp
      <4> QED BY <1>2, <4>1, <4>2
    <3> QED BY <1>1, <3>1, StampedLater DEF Sound
  <2>3. ASSUME NEW d \in Chan PROVE QueueSound(r, d)
    <3>1. \A e \in s.xmitq[d] : e.pkt \in Packet
      BY DEF Sound, Typed, Scp, Queued
    <3> QED BY <1>2, <2>1, <2>2, <3>1 DEF Core, QueueSound
  <2>4. ASSUME NEW d \in Chan PROVE RcvSound(r, d)
    <3>1. RcvSound(s, d) /\ s.got[d] \in Seq(Nat)
      BY <2>1 DEF Core, Sound, Typed, Scp
    <3>2. CASE d = c
      <4>1. r.got[c] = Append(s.got[c], p.id) /\ r.num_rcv[c] = p.id
        BY <1>2, <1>3 DEF Sound, Typed, Scp
      <4>2. Len(s.got[c]) + 1 = p.id
        BY <1>3, <3>1, <3>2 DEF RcvSound
      <4>3. Len(r.got[c]) = p.id
        BY <3>1, <3>2, <4>1, <4>2
      <4>4. ASSUME NEW i \in 1 .. Len(r.got[c]) PROVE r.got[c][i] = i
        BY <3>1, <3>2, <4>1, <4>2, <4>3 DEF RcvSound
      <4> QED BY <3>2, <4>1, <4>3, <4>4 DEF RcvSound
    <3>3. CASE d # c
      BY <1>2, <3>1, <3>3 DEF RcvSound, Sound, Typed, Scp
    <3> QED BY <3>2, <3>3
  <2>5. \A i \in DOMAIN r.out : Stamped(r.out[i], r)
    BY <1>2, <2>1, <2>2 DEF Core, Sound, Typed, Scp
  <2> QED BY <1>2, <2>1, <2>3, <2>4, <2>5 DEF Core
<1> QED BY <1>1, <1>4, <1>5 DEF Sound, r

LEMMA TakenThenSent ==
  ASSUME NEW s, Sound(s), NEW r, Sound(r), NEW t, Sound(t), NEW p,
         Taken(s, r, p), SentOnly(r, t)
  PROVE  Taken(s, t, p)
<1>1. ASSUME NEW d \in Chan PROVE s.nsent[d] <= t.nsent[d]
  <2>1. s.nsent[d] \in Int /\ r.nsent[d] \in Int /\ t.nsent[d] \in Int
    BY DEF Sound, Typed, Scp
  <2> QED BY <2>1 DEF Taken, SentOnly
<1> QED BY <1>1 DEF Taken, SentOnly

LEMMA TakenNothing ==
  ASSUME NEW s, Sound(s), NEW p
  PROVE  Taken(s, s, p)
<1>1. \A d \in Chan : s.nsent[d] \in Int
  BY DEF Sound, Typed, Scp
<1> QED BY <1>1 DEF Taken

LEMMA DataSound ==
  ASSUME NEW s, Sound(s), NEW p \in Packet, Acceptable(p, s), p.kind = "DATA"
  PROVE  Sound(dn_nsp_data(s, p)) /\ Taken(s, dn_nsp_data(s, p), p)
<1> DEFINE next == seq_next(s.num_rcv["dat"], p.seg)
           queued == next /\ Rmem(s) < RcvBuf
           Good(r) == Sound(r) /\ Taken(s, r, p)
           s1 == IF queued
                 THEN [Accept(s, "dat", p) EXCEPT !.rcvq["dat"] = @ + 1] ELSE s
           r == [s1 EXCEPT !.flowloc_sw = "DONTSEND"]
           s2 == IF next /\ s1.flowloc_sw = "SEND" /\ Congested(s1)
                 THEN SchedulePending(r, {"SW"}, FALSE) ELSE s1
<1>1. "dat" \in Chan /\ "dat" = ChanOf(p) /\ p.kind \notin AckKind
  BY DEF Chan, ChanOf, AckKind
<1>2. Good(s1)
  <2> DEFINE a == Accept(s, "dat", p)
             b == [a EXCEPT !.rcvq["dat"] = @ + 1]
  <2>1. Good(s)
    BY TakenNothing
  <2>2. CASE queued
    <3>1. Good(a)
      BY <1>1, <2>2, AcceptSound
    <3> HIDE DEF a
    <3>2. a.rcvq["dat"] + 1 \in Nat
      BY <1>1, <3>1 DEF Sound, Typed, Scp
    <3>3. Typed(b)
      BY <1>1, <3>1, <3>2, CounterUpdate DEF Sound
    <3>4. Sound(b) /\ SentOnly(a, b)
      BY <3>1, <3>3, SoundSame DEF Sound, Typed, Scp
    <3>5. Taken(s, b, p)
      BY <3>1, <3>4, TakenThenSent
    <3>6. s1 = b
      BY <2>2 DEF a
    <3> QED BY <3>4, <3>5, <3>6
  <2> QED BY <2>1, <2>2
<1> HIDE DEF s1
<1>3. Good(s2)
  <2>1. Typed(r)
    BY <1>2 DEF Sound, Typed, Scp
  <2>2. Sound(r) /\ SentOnly(s1, r)
    BY <1>2, <2>1, SoundSame DEF Sound, Typed, Scp
  <2> HIDE DEF r
  <2>3. Sound(SchedulePending(r, {"SW"}, FALSE)) /\ SentOnly(r, SchedulePending(r, {"SW"}, FALSE))
    BY <2>2, SchedulePendingSound
  <2>4. Taken(s, SchedulePending(r, {"SW"}, FALSE), p)
    BY <1>2, <2>2, <2>3, TakenThenSent
  <2> QED BY <1>2, <2>3, <2>4
<1> HIDE DEF s2
<1>4. Good(SendAck(s2, "dat"))
  BY <1>1, <1>3, SendAckSound, TakenThenSent
<1>5. dn_nsp_data(s, p) = IF queued /\ p.dly THEN s2 ELSE SendAck(s2, "dat")
  BY DEF dn_nsp_data, s1, s2
<1> QED BY <1>3, <1>4, <1>5

LEMMA OtherdataSound ==
  ASSUME NEW s, Sound(s), NEW p \in Packet, Acceptable(p, s), p.kind = "OD"
  PROVE  Sound(dn_nsp_otherdata(s, p)) /\ Taken(s, dn_nsp_otherdata(s, p), p)
<1> DEFINE queued == seq_next(s.num_rcv["oth"], p.seg) /\ Rmem(s) < RcvBuf
           Good(r) == Sound(r) /\ Taken(s, r, p)
           a == Accept(s, "oth", p)
           b == [a EXCEPT !.rcvq["oth"] = @ + 1, !.other_report = FALSE]
           s1 == IF queued THEN b ELSE s
<1>1. "oth" \in Chan /\ "oth" = ChanOf(p) /\ p.kind \notin AckKind
  BY DEF Chan, ChanOf, AckKind
<1>2. Good(s)
  BY TakenNothing
<1>3. ASSUME queued PROVE Good(b)
  <2>1. Good(a)
    BY <1>1, <1>3, AcceptSound
  <2> HIDE DEF a
  <2>2. a.rcvq["oth"] + 1 \in Nat
    BY <1>1, <2>1 DEF Sound, Typed, Scp
  <2>3. Typed(b)
    BY <1>1, <2>1, <2>2, CounterUpdate DEF Sound
  <2>4. Sound(b) /\ SentOnly(a, b)
    BY <2>1, <2>3, SoundSame DEF Sound, Typed, Scp
  <2>5. Taken(s, b, p)
    BY <2>1, <2>4, TakenThenSent
  <2> QED BY <2>4, <2>5
<1>4. Good(s1)
  BY <1>2, <1>3
<1> HIDE DEF s1
<1>5. Good(SendAck(s1, "oth"))
  BY <1>1, <1>4, SendAckSound, TakenThenSent
<1> QED BY <1>5 DEF dn_nsp_otherdata, s1

LEMMA LinkserviceSound ==
  ASSUME NEW s, Sound(s), NEW p \in Packet, Acceptable(p, s),
         p.kind \in OthKind \ {"OD"}
  PROVE  Sound(dn_nsp_linkservice(s, p)) /\ Taken(s, dn_nsp_linkservice(s, p), p)
<1> DEFINE next == seq_next(s.num_rcv["oth"], p.seg)
           Good(r) == Sound(r) /\ Taken(s, r, p)
           s1 == Accept(s, "oth", p)
           Switch(w) == [s1 EXCEPT !.flowrem_sw = w]
           credit == [s1 EXCEPT !.flowrem_oth = @ + 1]
           s2 == CASE p.kind = "NOCHANGE" -> s1
                   [] p.kind = "DONTSEND" -> [s1 EXCEPT !.flowrem_sw = "DONTSEND"]
                   [] p.kind = "SEND" -> Output([s1 EXCEPT !.flowrem_sw = "SEND"])
                   [] p.kind = "INTR" -> [s1 EXCEPT !.flowrem_oth = @ + 1]
           s3 == IF next THEN s2 ELSE s
<1>1. "oth" \in Chan /\ "oth" = ChanOf(p) /\ p.kind \notin AckKind
  BY DEF Chan, ChanOf, AckKind, OthKind
<1>2. Good(s)
  BY TakenNothing
<1>3. ASSUME next PROVE Good(s2)
  <2>1. Good(s1)
    BY <1>1, <1>3, AcceptSound
  <2> HIDE DEF s1
  <2>2. ASSUME NEW w \in {"SEND", "DONTSEND"}
        PROVE  Good(Switch(w))
    <3>1. Typed(Switch(w))
      BY <2>1 DEF Sound, Typed, Scp
    <3>2. Sound(Switch(w)) /\ SentOnly(s1, Switch(w))
      BY <2>1, <3>1, SoundSame DEF Sound, Typed, Scp
    <3> QED BY <2>1, <3>2, TakenThenSent
  <2>3. Good(credit)
    <3>1. s1.flowrem_oth + 1 \in Nat
      BY <2>1 DEF Sound, Typed, Scp
    <3>2. Typed(credit)
      BY <1>1, <2>1, <3>1, CounterUpdate DEF Sound
    <3>3. Sound(credit) /\ SentOnly(s1, credit)
      BY <2>1, <3>2, SoundSame DEF Sound, Typed, Scp
    <3> QED BY <2>1, <3>3, TakenThenSent
  <2>4. Good(Switch("DONTSEND")) /\ Good(Switch("SEND"))
    BY <2>2
  <2> HIDE DEF Switch, credit
  <2>5. Good(Output(Switch("SEND")))
    BY <2>4, OutputSound, TakenThenSent
  <2>6. s2 = CASE p.kind = "NOCHANGE" -> s1
               [] p.kind = "DONTSEND" -> Switch("DONTSEND")
               [] p.kind = "SEND" -> Output(Switch("SEND"))
               [] p.kind = "INTR" -> credit
    BY DEF Switch, credit
  <2> HIDE DEF s2, Good
  <2>7. Good(s2)
    BY <2>1, <2>3, <2>4, <2>5, <2>6 DEF OthKind
  <2> QED BY <2>7 DEF Good
<1> HIDE DEF s2
<1>4. Good(s3)
  BY <1>2, <1>3
<1> HIDE DEF s3
<1>5. Good(SendAck(s3, "oth"))
  BY <1>1, <1>4, SendAckSound, TakenThenSent
<1> QED BY <1>5 DEF dn_nsp_linkservice, s1, s2, s3

\* What a received packet may change.
Received(s, r, p) ==
  \A d \in Chan :
    /\ s.nsent[d] <= r.nsent[d]
    /\ r.ackrcv[d] \in {s.ackrcv[d], p.ack[d]}
    /\ \/ r.got[d] = s.got[d]
       \/ /\ d = ChanOf(p) /\ p.kind \notin AckKind
          /\ seq_next(s.num_rcv[d], p.seg)
          /\ r.got[d] = Append(s.got[d], p.id)

LEMMA ReceiveSound ==
  ASSUME NEW s, Sound(s), NEW p \in Packet, Acceptable(p, s)
  PROVE  Sound(Receive(s, p)) /\ Received(s, Receive(s, p), p)
<1> DEFINE s0 == [s EXCEPT !.state = "RUN"]
           s1 == ProcessAck(s0, p)
           r == Receive(s, p)
<1>1. Sound(s0) /\ SentOnly(s, s0) /\ s0.nsent = s.nsent
  <2>1. Typed(s0)
    BY DEF Sound, Typed, Scp
  <2> QED BY <2>1, SoundSame DEF Sound, Typed, Scp
<1> HIDE DEF s0
<1>2. Sound(s1) /\ AckedBy(s0, s1, p)
  BY <1>1, ProcessAckSound DEF Acceptable
<1> HIDE DEF s1
<1>3. Acceptable(p, s1)
  <2>1. ASSUME NEW d \in Chan PROVE p.ack[d] <= s1.nsent[d]
    <3>1. p.ack[d] \in Int /\ s.nsent[d] \in Int /\ s1.nsent[d] \in Int
      BY <1>2, SeqHalfAssumption DEF Packet, SeqNum, SeqMod, Sound, Typed, Scp
    <3>2. p.ack[d] <= s.nsent[d] /\ s.nsent[d] <= s1.nsent[d]
      BY <1>1, <1>2 DEF Acceptable, AckedBy
    <3> QED BY <3>1, <3>2
  <2> QED BY <2>1 DEF Acceptable
<1>4. p.kind = "DATA" \/ p.kind = "OD" \/ p.kind \in OthKind \ {"OD"}
        \/ p.kind \in AckKind
  BY DEF Packet, Kind
<1>5. r = CASE p.kind = "DATA" -> dn_nsp_data(s1, p)
            [] p.kind = "OD" -> dn_nsp_otherdata(s1, p)
            [] p.kind \in OthKind \ {"OD"} -> dn_nsp_linkservice(s1, p)
            [] p.kind \in AckKind -> s1
  BY DEF Receive, s1, s0
<1> HIDE DEF r
<1>6. Sound(r) /\ Taken(s1, r, p)
  <2>1. CASE p.kind = "DATA"
    BY <1>2, <1>3, <1>5, <2>1, DataSound DEF OthKind, AckKind
  <2>2. CASE p.kind = "OD"
    BY <1>2, <1>3, <1>5, <2>2, OtherdataSound DEF OthKind, AckKind
  <2>3. CASE p.kind \in OthKind \ {"OD"}
    BY <1>2, <1>3, <1>5, <2>3, LinkserviceSound DEF OthKind, AckKind
  <2>4. CASE p.kind \in AckKind
    <3>1. r = s1
      BY <1>5, <2>4 DEF OthKind, AckKind
    <3> QED BY <1>2, <3>1, TakenNothing
  <2> QED BY <1>4, <2>1, <2>2, <2>3, <2>4
<1>7. ASSUME NEW d \in Chan PROVE s.nsent[d] <= r.nsent[d]
  <2>1. s.nsent[d] \in Int /\ s1.nsent[d] \in Int /\ r.nsent[d] \in Int
    BY <1>2, <1>6 DEF Sound, Typed, Scp
  <2>2. s.nsent[d] <= s1.nsent[d] /\ s1.nsent[d] <= r.nsent[d]
    BY <1>1, <1>2, <1>6 DEF AckedBy, Taken
  <2> QED BY <2>1, <2>2
<1>8. /\ s1.got = s.got /\ s1.num_rcv = s.num_rcv
      /\ \A d \in Chan : r.ackrcv[d] \in {s.ackrcv[d], p.ack[d]}
  BY <1>1, <1>2, <1>6 DEF SentOnly, AckedBy, Taken
<1>9. Received(s, r, p)
  BY <1>6, <1>7, <1>8 DEF Received, Taken
<1> QED BY <1>6, <1>9 DEF r

-----------------------------------------------------------------------------
(* User calls, timers and the first step *)

LEMMA ConnConfSound ==
  ASSUME NEW s, Sound(s)
  PROVE  Sound(ConnConf(s)) /\ SentOnly(s, ConnConf(s))
<1> DEFINE r == [s EXCEPT !.state = "RUN"]
<1>1. Typed(r)
  BY DEF Sound, Typed, Scp
<1>2. Sound(r) /\ SentOnly(s, r)
  BY <1>1, SoundSame DEF Sound, Typed, Scp
<1> HIDE DEF r
<1>3. Sound(SchedulePending(r, {"IDLE"}, FALSE)) /\ SentOnly(r, SchedulePending(r, {"IDLE"}, FALSE))
  BY <1>2, SchedulePendingSound
<1> QED BY <1>2, <1>3, SentOnlyTrans DEF ConnConf, r, Sound

LEMMA SendDataSound ==
  ASSUME NEW s, Sound(s), NEW more \in BOOLEAN, NEW idle \in BOOLEAN
  PROVE  Sound(SendData(s, more, idle)) /\ SentOnly(s, SendData(s, more, idle))
<1> DEFINE allowed == IF DlySeq < s.snd_window THEN DlySeq ELSE s.snd_window
           dly == more /\ s.delayedacks + 1 < allowed
           r == [s EXCEPT !.delayedacks = IF dly THEN @ + 1 ELSE 0,
                          !.persist = TRUE]
<1>1. dly \in BOOLEAN /\ "DATA" \in Kind \ AckKind /\ "dat" \in Chan
        /\ "dat" = ChanOf([kind |-> "DATA"])
  BY DEF Kind, AckKind, Chan, ChanOf
<1>2. (IF dly THEN s.delayedacks + 1 ELSE 0) \in 0 .. (MaxWindow - 1)
  BY WindowAssumption, SeqHalfAssumption, DlySeqAssumption
  DEF Sound, Typed, Scp, MinWindow
<1> HIDE DEF dly
<1>3. Typed(r)
  BY <1>2 DEF Sound, Typed, Scp
<1>4. Sound(r) /\ SentOnly(s, r)
  BY <1>3, SoundSame DEF Sound, Typed, Scp
<1> HIDE DEF r
<1>5. /\ Sound(QueueXmit(r, "dat", "DATA", dly, idle))
      /\ SentOnly(r, QueueXmit(r, "dat", "DATA", dly, idle))
  BY <1>1, <1>4, QueueXmitSound
<1> QED BY <1>4, <1>5, SentOnlyTrans DEF SendData, dly, r, Sound

LEMMA SendOtherSound ==
  ASSUME NEW s, Sound(s), s.flowrem_oth > 0, NEW idle \in BOOLEAN
  PROVE  Sound(SendOther(s, idle)) /\ SentOnly(s, SendOther(s, idle))
<1> DEFINE r == [s EXCEPT !.flowrem_oth = @ - 1, !.persist = TRUE]
<1>1. "OD" \in Kind \ AckKind /\ "oth" \in Chan /\ "oth" = ChanOf([kind |-> "OD"])
  BY DEF Kind, OthKind, AckKind, Chan, ChanOf
<1>2. s.flowrem_oth - 1 \in Nat
  BY DEF Sound, Typed, Scp
<1>3. Typed(r)
  BY <1>1, <1>2, CounterUpdate DEF Sound
<1>4. Sound(r) /\ SentOnly(s, r)
  BY <1>3, SoundSame DEF Sound, Typed, Scp
<1> HIDE DEF r
<1>5. /\ Sound(QueueXmit(r, "oth", "OD", FALSE, idle))
      /\ SentOnly(r, QueueXmit(r, "oth", "OD", FALSE, idle))
  BY <1>1, <1>4, QueueXmitSound
<1> QED BY <1>4, <1>5, SentOnlyTrans DEF SendOther, r, Sound

LEMMA RecvDataSound ==
  ASSUME NEW s, Sound(s), s.rcvq["dat"] > 0, NEW idle \in BOOLEAN
  PROVE  Sound(RecvData(s, idle)) /\ SentOnly(s, RecvData(s, idle))
<1> DEFINE r == [s EXCEPT !.rcvq["dat"] = @ - 1]
           t == [r EXCEPT !.flowloc_sw = "SEND"]
           u == SchedulePending(t, {"SW"}, idle)
<1>1. s.rcvq["dat"] - 1 \in Nat /\ "dat" \in Chan
  BY DEF Sound, Typed, Scp, Chan
<1>2. Typed(r)
  BY <1>1, CounterUpdate DEF Sound
<1>3. Sound(r) /\ SentOnly(s, r)
  BY <1>2, SoundSame DEF Sound, Typed, Scp
<1> HIDE DEF r
<1>4. Typed(t)
  BY <1>3 DEF Sound, Typed, Scp
<1>5. Sound(t) /\ SentOnly(r, t)
  BY <1>3, <1>4, SoundSame DEF Sound, Typed, Scp
<1> HIDE DEF t
<1>6. Sound(u) /\ SentOnly(t, u)
  BY <1>5, SchedulePendingSound
<1> HIDE DEF u
<1>7. SentOnly(s, u)
  BY <1>3, <1>5, <1>6, SentOnlyTrans DEF Sound
<1>8. RecvData(s, idle)
        = IF r.flowloc_sw = "DONTSEND" /\ ~Congested(r) THEN u ELSE r
  BY DEF RecvData, r, t, u
<1> QED BY <1>3, <1>6, <1>7, <1>8

LEMMA RecvOtherSound ==
  ASSUME NEW s, Sound(s), s.rcvq["oth"] > 0, NEW idle \in BOOLEAN
  PROVE  Sound(RecvOther(s, idle)) /\ SentOnly(s, RecvOther(s, idle))
<1> DEFINE r == [s EXCEPT !.rcvq["oth"] = @ - 1]
           u == SchedulePending(r, {"INTR"}, idle)
<1>1. s.rcvq["oth"] - 1 \in Nat /\ "oth" \in Chan
  BY DEF Sound, Typed, Scp, Chan
<1>2. Typed(r)
  BY <1>1, CounterUpdate DEF Sound
<1>3. Sound(r) /\ SentOnly(s, r)
  BY <1>2, SoundSame DEF Sound, Typed, Scp
<1> HIDE DEF r
<1>4. Sound(u) /\ SentOnly(r, u)
  BY <1>3, SchedulePendingSound
<1>5. SentOnly(s, u)
  BY <1>3, <1>4, SentOnlyTrans DEF Sound
<1> QED BY <1>4, <1>5 DEF RecvOther, r

LEMMA XmitTimeoutSound ==
  ASSUME NEW s, Sound(s)
  PROVE  Sound(XmitTimeout(s)) /\ SentOnly(s, XmitTimeout(s))
<1> DEFINE r == Output(s)
           t == [r EXCEPT !.persist = \E c \in Chan : r.xmitq[c] # {}]
<1>1. Sound(r) /\ SentOnly(s, r)
  BY OutputSound
<1> HIDE DEF r
<1>2. Typed(t)
  BY <1>1 DEF Sound, Typed, Scp
<1>3. Sound(t) /\ SentOnly(r, t)
  BY <1>1, <1>2, SoundSame DEF Sound, Typed, Scp
<1>4. SentOnly(s, t)
  BY <1>1, <1>3, SentOnlyTrans DEF Sound
<1> QED BY <1>3, <1>4 DEF XmitTimeout, r

\* The socket that Init starts from
LEMMA InitScpSound == Sound(InitScp) /\ Core(InitScp)
<1>1. Typed(InitScp)
  BY InitScpType
<1>2. Core(InitScp)
  BY DEF Core, QueueSound, RcvSound, InitScp
<1> QED BY <1>1, <1>2 DEF Sound

-----------------------------------------------------------------------------
LEMMA PeerType ==
  ASSUME NEW n \in Node
  PROVE  /\ Peer(n) \in Node /\ Peer(n) # n
         /\ Peer(Peer(n)) = n /\ Node = {n, Peer(n)}
<1>1. PICK a, b \in Node : a # b /\ Node = {a, b}
  BY NodeAssumption
<1>2. \A x \in Node : Peer(x) \in Node /\ Peer(x) # x
  BY <1>1 DEF Peer
<1> QED BY <1>1, <1>2

-----------------------------------------------------------------------------
(* The inductive invariant: each socket is consistent, each end is ahead of *)
(* what the other has accepted and acknowledged, and what is in flight was  *)
(* stamped by its sender.                                                   *)

SocketInv(n) == Typed(scp[n]) /\ Room(scp[n]) /\ Core(scp[n]) /\ scp[n].out = <<>>

LinkInv(n) ==
  \A c \in Chan :
    /\ scp[n].ackrcv[c] <= Len(scp[Peer(n)].got[c])
    /\ Len(scp[Peer(n)].got[c]) <= scp[n].nsent[c]

FlightInv(n) == \A p \in net[n] : Stamped(p, scp[n])

Inv == /\ scp \in [Node -> Scp]
       /\ net \in [Node -> SUBSET Packet]
       /\ \A n \in Node : SocketInv(n) /\ LinkInv(n) /\ FlightInv(n)

\* What a handler may do to n's socket, seen from the other end.
Evolved(n, s) ==
  \A c \in Chan :
    /\ scp[n].nsent[c] <= s.nsent[c]
    /\ s.ackrcv[c] <= Len(scp[Peer(n)].got[c])
    /\ \/ s.got[c] = scp[n].got[c]
       \/ \E i \in Nat : /\ s.got[c] = Append(scp[n].got[c], i)
                         /\ Len(scp[n].got[c]) + 1 <= scp[Peer(n)].nsent[c]

\* Taking the packets a handler has sent leaves a consistent socket.
LEMMA Flushed ==
  ASSUME NEW s, Sound(s), Room(s)
  PROVE  LET r == [s EXCEPT !.out = <<>>]
         IN  /\ Typed(r) /\ Room(r) /\ Core(r) /\ r.out = <<>>
             /\ r.nsent = s.nsent /\ r.got = s.got /\ r.ackrcv = s.ackrcv
             /\ \A p : Stamped(p, r) <=> Stamped(p, s)
<1> DEFINE r == [s EXCEPT !.out = <<>>]
<1>1. /\ r.out = <<>> /\ r.num = s.num /\ r.num_rcv = s.num_rcv
      /\ r.ackrcv = s.ackrcv /\ r.xmitq = s.xmitq /\ r.nsent = s.nsent
      /\ r.got = s.got
  BY DEF Sound, Typed, Scp
<1>2. Typed(r)
  <2>1. <<>> \in Seq(Packet)
    OBVIOUS
  <2> QED BY <2>1 DEF Sound, Typed, Scp
<1> HIDE DEF r
<1>3. \A p : Stamped(p, r) <=> Stamped(p, s)
  BY <1>1 DEF Stamped
<1>4. Room(r) /\ Core(s)
  BY <1>1 DEF Room, Sound
<1>5. Core(r)
  BY <1>1, <1>3, <1>4 DEF Core, QueueSound, RcvSound
<1> QED BY <1>1, <1>2, <1>3, <1>4, <1>5 DEF r

LEMMA StepInv ==
  ASSUME Inv, NEW n \in Node, NEW s, Sound(s), Evolved(n, s), Step(n, s)
  PROVE  Inv'
<1> DEFINE m == Peer(n)
           r == [s EXCEPT !.out = <<>>]
<1>1. m \in Node /\ m # n /\ Peer(m) = n /\ Node = {n, m}
  BY PeerType
<1> HIDE DEF m
<1>2. SocketInv(n) /\ LinkInv(n) /\ FlightInv(n) /\ SocketInv(m) /\ LinkInv(m) /\ FlightInv(m)
  BY <1>1 DEF Inv
<1>3. /\ scp'[n] = r /\ scp'[m] = scp[m]
      /\ net'[n] = net[n] \cup Packets(s.out) /\ net'[m] = net[m]
      /\ \A c \in Chan : s.nsent[c] <= MaxSeg[n][c]
  BY <1>1 DEF Step, Inv
<1>4. Room(s)
  <2>1. \A c \in Chan : s.nsent[c] \in Int /\ MaxSeg[n][c] \in Int
    BY MaxSegAssumption DEF Sound, Typed, Scp
  <2> QED BY <1>3, <2>1, MaxSegAssumption, SeqHalfAssumption DEF Room
<1>5. /\ Typed(r) /\ Room(r) /\ Core(r) /\ r.out = <<>>
      /\ r.nsent = s.nsent /\ r.got = s.got /\ r.ackrcv = s.ackrcv
      /\ \A p : Stamped(p, r) <=> Stamped(p, s)
  BY <1>4, Flushed
<1> HIDE DEF r
<1>6. SocketInv(n)' /\ SocketInv(m)'
  BY <1>2, <1>3, <1>5 DEF SocketInv
<1>7. ASSUME NEW c \in Chan
      PROVE  /\ scp[n].nsent[c] \in Nat /\ s.nsent[c] \in Nat /\ scp[m].nsent[c] \in Nat
             /\ scp[n].ackrcv[c] \in Nat /\ scp[m].ackrcv[c] \in Nat
             /\ scp[n].got[c] \in Seq(Nat) /\ scp[m].got[c] \in Seq(Nat)
  <2>1. SeqNum \in SUBSET Nat
    BY SeqHalfAssumption DEF SeqNum, SeqMod
  <2>2. s \in Scp /\ scp[n] \in Scp /\ scp[m] \in Scp
    BY <1>2 DEF SocketInv, Typed, Sound
  <2> QED BY <2>1, <2>2 DEF Scp
<1>8. LinkInv(n)'
  <2> SUFFICES ASSUME NEW c \in Chan
               PROVE  /\ s.ackrcv[c] <= Len(scp[m].got[c])
                      /\ Len(scp[m].got[c]) <= s.nsent[c]
    BY <1>3, <1>5 DEF LinkInv, m
  <2>1. Len(scp[m].got[c]) \in Nat
    BY <1>7
  <2>2. /\ s.ackrcv[c] <= Len(scp[m].got[c])
        /\ scp[n].nsent[c] <= s.nsent[c]
        /\ Len(scp[m].got[c]) <= scp[n].nsent[c]
    BY <1>2 DEF LinkInv, Evolved, m
  <2> QED BY <1>7, <2>1, <2>2
<1>9. LinkInv(m)'
  <2> SUFFICES ASSUME NEW c \in Chan
               PROVE  /\ scp[m].ackrcv[c] <= Len(s.got[c])
                      /\ Len(s.got[c]) <= scp[m].nsent[c]
    BY <1>1, <1>3, <1>5 DEF LinkInv
  <2>1. /\ scp[m].ackrcv[c] <= Len(scp[n].got[c])
        /\ Len(scp[n].got[c]) <= scp[m].nsent[c]
    BY <1>1, <1>2 DEF LinkInv
  <2>2. CASE s.got[c] = scp[n].got[c]
    BY <2>1, <2>2
  <2>3. CASE \E i \in Nat : /\ s.got[c] = Append(scp[n].got[c], i)
                            /\ Len(scp[n].got[c]) + 1 <= scp[m].nsent[c]
    <3>1. Len(s.got[c]) = Len(scp[n].got[c]) + 1 /\ Len(scp[n].got[c]) \in Nat
      BY <1>7, <2>3
    <3> QED BY <1>7, <2>1, <2>3, <3>1
  <2> QED BY <2>2, <2>3 DEF Evolved, m
<1>10. FlightInv(n)'
  <2>1. ASSUME NEW c \in Chan
        PROVE  scp[n].num_rcv[c] <= s.num_rcv[c] /\ scp[n].nsent[c] <= s.nsent[c]
    <3>1. scp[n].num_rcv[c] = Len(scp[n].got[c]) /\ s.num_rcv[c] = Len(s.got[c])
      BY <1>2, <1>4 DEF SocketInv, Core, RcvSound, Sound
    <3>2. Len(scp[n].got[c]) \in Nat
      BY <1>7
    <3>3. CASE s.got[c] = scp[n].got[c]
      BY <3>1, <3>2, <3>3 DEF Evolved
    <3>4. CASE \E i \in Nat : s.got[c] = Append(scp[n].got[c], i)
      <4>1. Len(s.got[c]) = Len(scp[n].got[c]) + 1
        BY <1>7, <3>4
      <4> QED BY <3>1, <3>2, <4>1 DEF Evolved
    <3> QED BY <3>3, <3>4 DEF Evolved
  <2>2. \A p \in net[n] : Stamped(p, s)
    <3>1. \A p \in net[n] : p \in Packet /\ Stamped(p, scp[n])
      BY <1>2 DEF FlightInv, Inv
    <3>2. Typed(s) /\ Typed(scp[n])
      BY <1>2 DEF SocketInv, Sound
    <3> QED BY <2>1, <3>1, <3>2, StampedLater
  <2>3. \A p \in Packets(s.out) : Stamped(p, s)
    BY <1>4 DEF Packets, Sound, Core
  <2> QED BY <1>3, <1>5, <2>2, <2>3 DEF FlightInv
<1>11. FlightInv(m)'
  BY <1>2, <1>3 DEF FlightInv
<1>12. (scp \in [Node -> Scp] /\ net \in [Node -> SUBSET Packet])'
  <2>1. r \in Scp /\ Packets(s.out) \in SUBSET Packet
    BY <1>5 DEF Typed, Packets, Sound, Scp
  <2> QED BY <2>1 DEF Step, Inv, r
<1> QED BY <1>1, <1>6, <1>8, <1>9, <1>10, <1>11, <1>12 DEF Inv

-----------------------------------------------------------------------------
(* Every action *)

\* A handler that only sends
LEMMA SentOnlyEvolved ==
  ASSUME Inv, NEW n \in Node, NEW s, Sound(s), SentOnly(scp[n], s)
  PROVE  Evolved(n, s)
<1>1. LinkInv(n)
  BY DEF Inv
<1> QED BY <1>1 DEF LinkInv, SentOnly, Evolved

\* A packet of the other end is what Receive expects.
LEMMA FlightAcceptable ==
  ASSUME Inv, NEW n \in Node, NEW p \in net[Peer(n)]
  PROVE  /\ p \in Packet /\ Stamped(p, scp[Peer(n)])
         /\ Sound(scp[n]) /\ Acceptable(p, scp[n])
         /\ \A c \in Chan :
              /\ p.ack[c] <= Len(scp[Peer(n)].got[c])
              /\ p.ack[c] \in Nat /\ Len(scp[Peer(n)].got[c]) \in Nat
              /\ scp[n].nsent[c] \in Nat /\ scp[Peer(n)].nsent[c] \in Nat
              /\ Len(scp[Peer(n)].got[c]) <= scp[n].nsent[c]
              /\ scp[Peer(n)].nsent[c] < SeqHalf
<1> DEFINE m == Peer(n)
<1>1. m \in Node
  BY PeerType
<1>2. p \in Packet /\ Stamped(p, scp[m])
  BY <1>1 DEF Inv, FlightInv
<1>3. SocketInv(n) /\ LinkInv(n) /\ SocketInv(m)
  BY <1>1 DEF Inv
<1>4. ASSUME NEW c \in Chan
      PROVE  /\ p.ack[c] <= Len(scp[m].got[c])
             /\ p.ack[c] \in Nat /\ Len(scp[m].got[c]) \in Nat
             /\ scp[n].nsent[c] \in Nat /\ scp[m].nsent[c] \in Nat
             /\ Len(scp[m].got[c]) <= scp[n].nsent[c]
             /\ scp[m].nsent[c] < SeqHalf
  <2>1. p.ack[c] <= scp[m].num_rcv[c] /\ scp[m].num_rcv[c] = Len(scp[m].got[c])
    BY <1>2, <1>3 DEF Stamped, SocketInv, Core, RcvSound
  <2>2. SeqNum \in SUBSET Nat
    BY SeqHalfAssumption DEF SeqNum, SeqMod
  <2>3. p.ack[c] \in Nat /\ scp[m].got[c] \in Seq(Nat)
        /\ scp[n].nsent[c] \in Nat /\ scp[m].nsent[c] \in Nat
    BY <1>2, <1>3, <2>2 DEF Packet, SocketInv, Typed, Scp
  <2> QED BY <1>3, <2>1, <2>3 DEF LinkInv, SocketInv, Room
<1>5. ChanOf(p) \in Chan
  BY DEF ChanOf, Chan
<1>6. Acceptable(p, scp[n])
  <2>1. \A c \in Chan : p.ack[c] <= scp[n].nsent[c]
    BY <1>4
  <2>2. p.kind \notin AckKind => p.seg = p.id /\ p.id \in 1 .. (SeqHalf - 1)
    BY <1>2, <1>4, <1>5, SeqHalfAssumption DEF Stamped
  <2> QED BY <2>1, <2>2 DEF Acceptable
<1>7. Sound(scp[n])
  BY <1>3 DEF SocketInv, Sound
<1> QED BY <1>2, <1>4, <1>6, <1>7

LEMMA DeliverEvolved ==
  ASSUME Inv, NEW n \in Node, NEW p \in net[Peer(n)]
  PROVE  Sound(Receive(scp[n], p)) /\ Evolved(n, Receive(scp[n], p))
<1> DEFINE m == Peer(n)
           s == Receive(scp[n], p)
<1>1. m \in Node
  BY PeerType
<1>2. p \in Packet /\ Stamped(p, scp[m])
  BY FlightAcceptable
<1>3. SocketInv(n) /\ LinkInv(n) /\ SocketInv(m)
  BY <1>1 DEF Inv
<1>4. ASSUME NEW c \in Chan
      PROVE  /\ p.ack[c] <= Len(scp[m].got[c])
             /\ p.ack[c] \in Nat /\ Len(scp[m].got[c]) \in Nat
             /\ scp[n].nsent[c] \in Nat /\ scp[m].nsent[c] \in Nat
             /\ Len(scp[m].got[c]) <= scp[n].nsent[c]
             /\ scp[m].nsent[c] < SeqHalf
  BY FlightAcceptable
<1>5. Sound(scp[n])
  BY FlightAcceptable
<1>6. Acceptable(p, scp[n])
  BY FlightAcceptable
<1>7. Sound(s) /\ Received(scp[n], s, p)
  BY <1>2, <1>5, <1>6, ReceiveSound
<1> HIDE DEF s
<1>8. ASSUME NEW c \in Chan
      PROVE  /\ scp[n].nsent[c] <= s.nsent[c]
             /\ s.ackrcv[c] <= Len(scp[m].got[c])
  BY <1>3, <1>4, <1>7 DEF Received, LinkInv
<1>9. ASSUME NEW c \in Chan, s.got[c] # scp[n].got[c]
      PROVE  \E i \in Nat : /\ s.got[c] = Append(scp[n].got[c], i)
                            /\ Len(scp[n].got[c]) + 1 <= scp[m].nsent[c]
  <2>1. /\ c = ChanOf(p) /\ p.kind \notin AckKind
        /\ seq_next(scp[n].num_rcv[c], p.seg)
        /\ s.got[c] = Append(scp[n].got[c], p.id)
    BY <1>7, <1>9 DEF Received
  <2>2. p.seg = p.id /\ p.id \in 1 .. scp[m].nsent[c] /\ p.id <= SeqHalf - 1
    BY <1>2, <1>4, <2>1, SeqHalfAssumption DEF Stamped
  <2>3. scp[n].num_rcv[c] = Len(scp[n].got[c]) /\ scp[n].num_rcv[c] \in SeqNum
    BY <1>3 DEF SocketInv, Core, RcvSound, Typed, Scp
  <2>4. scp[n].num_rcv[c] + 1 = p.id
    BY <1>4, <2>1, <2>2, <2>3, SeqHalfAssumption
    DEF seq_next, seq_add1, SeqNum, SeqMod
  <2>5. p.id \in Nat
    BY <1>2 DEF Packet
  <2> QED BY <1>4, <2>1, <2>2, <2>3, <2>4, <2>5
<1>10. Evolved(n, s)
  BY <1>8, <1>9 DEF Evolved
<1> QED BY <1>7, <1>10 DEF s

\* The connecting end has numbered one message, the idle link message that
\* dn_nsp_conn_conf sends.
LEMMA ConnConfCounts ==
  /\ ConnConf(InitScp).nsent["oth"] = 1 /\ ConnConf(InitScp).nsent["dat"] = 0
<1> DEFINE s == ConnConf(InitScp)
<1>1. Sound(InitScp)
  BY InitScpSound
<1>2. s.nsent["oth"] = 1 /\ s.nsent["dat"] = 0
  <2> DEFINE s1 == [InitScp EXCEPT !.state = "RUN"]
             s2 == [s1 EXCEPT !.pending = {}]
             s3 == QueueXmit(s2, "oth", "NOCHANGE", FALSE, FALSE)
  <2>1. s1 \in Scp /\ s1.pending = {} /\ s1.xmitq["oth"] = {}
    BY <1>1 DEF InitScp, Sound, Typed, Scp, Chan
  <2> HIDE DEF s1
  <2>2. s = SendLink(s2, "NOCHANGE", FALSE)
    <3>1. s = SchedulePending(s1, {"IDLE"}, FALSE)
      BY DEF ConnConf, s1
    <3>2. {"IDLE"} \ {"IDLE"} = {} /\ s1.pending \cup {"IDLE"} = {"IDLE"}
      BY <2>1
    <3> QED BY <2>1, <3>1, <3>2 DEF SchedulePending, LinkMessage
  <2>3. s2 \in Scp /\ s2.nsent["oth"] = 0 /\ s2.nsent["dat"] = 0
    BY ZenonT(40), <2>1 DEF s1, InitScp, Scp, Chan
  <2> HIDE DEF s2
  <2>4. s3.nsent["oth"] = 1 /\ s3.nsent["dat"] = 0
    BY <2>3 DEF QueueXmit, CloneAndSend, Scp, Chan
  <2>5. [s3 EXCEPT !.persist = TRUE].nsent = s3.nsent
    <3>1. s2.nsent["dat"] \in Nat
      BY <2>3
    <3> QED BY <2>3 DEF QueueXmit, CloneAndSend, Scp
  <2> HIDE DEF s3
  <2> QED BY <2>2, <2>4, <2>5 DEF SendLink, s3
<1> QED BY <1>2

LEMMA InitInv == Init => Inv
<1> SUFFICES ASSUME Init PROVE Inv
  OBVIOUS
<1> DEFINE s == ConnConf(InitScp)
           r == [s EXCEPT !.out = <<>>]
<1>1. Sound(InitScp) /\ Core(InitScp) /\ Room(InitScp) /\ InitScp.out = <<>>
  BY InitScpSound, SeqHalfAssumption DEF Room, InitScp
<1>2. Sound(s) /\ SentOnly(InitScp, s)
  BY <1>1, ConnConfSound
<1>3. s.nsent["oth"] = 1 /\ s.nsent["dat"] = 0
  BY ConnConfCounts
<1> HIDE DEF s
<1>4. Room(s)
  BY <1>3, SeqHalfAssumption DEF Room, Chan
<1>5. /\ Typed(r) /\ Room(r) /\ Core(r) /\ r.out = <<>>
      /\ r.nsent = s.nsent /\ r.got = s.got /\ r.ackrcv = s.ackrcv
      /\ \A p : Stamped(p, r) <=> Stamped(p, s)
  BY <1>2, <1>4, Flushed
<1> HIDE DEF r
<1>6. /\ scp = [n \in Node |-> IF n = Caller THEN r ELSE InitScp]
      /\ net = [n \in Node |-> IF n = Caller THEN Packets(s.out) ELSE {}]
  BY DEF Init, s, r
<1>7. \A n \in Node : SocketInv(n)
  BY <1>1, <1>5, <1>6 DEF SocketInv, Sound
<1>8. \A c \in Chan : /\ r.ackrcv[c] = 0 /\ InitScp.ackrcv[c] = 0
                      /\ r.got[c] = <<>> /\ InitScp.got[c] = <<>>
                      /\ r.nsent[c] >= 0 /\ InitScp.nsent[c] = 0
  BY <1>2, <1>3, <1>5 DEF SentOnly, InitScp, Chan
<1>9. \A n \in Node : LinkInv(n)
  <2> SUFFICES ASSUME NEW n \in Node, NEW c \in Chan
               PROVE  /\ scp[n].ackrcv[c] <= Len(scp[Peer(n)].got[c])
                      /\ Len(scp[Peer(n)].got[c]) <= scp[n].nsent[c]
    BY DEF LinkInv
  <2>1. Peer(n) \in Node
    BY PeerType
  <2>2. scp[n].ackrcv[c] = 0 /\ scp[Peer(n)].got[c] = <<>> /\ scp[n].nsent[c] >= 0
    BY <1>6, <1>8, <2>1
  <2> QED BY <2>2
<1>10. Packets(s.out) \in SUBSET Packet /\ \A p \in Packets(s.out) : Stamped(p, r)
  BY <1>2, <1>4, <1>5 DEF Packets, Sound, Core, Typed, Scp
<1>11. \A n \in Node : FlightInv(n)
  BY <1>6, <1>10 DEF FlightInv
<1>12. scp \in [Node -> Scp] /\ net \in [Node -> SUBSET Packet]
  BY <1>1, <1>5, <1>6, <1>10 DEF Sound, Typed
<1> QED BY <1>7, <1>9, <1>11, <1>12 DEF Inv

\* Each action hands Step a socket that the handlers keep sound.
LEMMA NextSteps ==
  ASSUME Inv, Next
  PROVE  \E n \in Node : \E s : Sound(s) /\ Evolved(n, s) /\ Step(n, s)
<1> DEFINE Goal(n) == \E s : Sound(s) /\ Evolved(n, s) /\ Step(n, s)
<1>1. PICK n \in Node : \/ Deliver(n)   \/ SendMsg(n) \/ SendOob(n)
                        \/ ReportOob(n) \/ RecvMsg(n) \/ RecvOob(n)
                        \/ PersistTimer(n) \/ Keepalive(n)
  BY DEF Next
<1>2. Sound(scp[n])
  BY DEF Inv, SocketInv, Sound
<1>3. ASSUME NEW s, Sound(s), SentOnly(scp[n], s), Step(n, s)
      PROVE  Goal(n)
  BY <1>3, SentOnlyEvolved
<1> HIDE DEF Goal
<1>4. ASSUME Deliver(n) PROVE Goal(n)
  BY <1>4, DeliverEvolved DEF Deliver, Goal
<1>5. ASSUME SendMsg(n) PROVE Goal(n)
  <2>1. PICK more \in BOOLEAN, idle \in BOOLEAN : Step(n, SendData(scp[n], more, idle))
    BY <1>5 DEF SendMsg
  <2> QED BY <1>2, <1>3, <2>1, SendDataSound
<1>6. ASSUME SendOob(n) PROVE Goal(n)
  <2>1. PICK idle \in BOOLEAN : Step(n, SendOther(scp[n], idle))
    BY <1>6 DEF SendOob
  <2>2. scp[n].flowrem_oth > 0
    BY <1>6 DEF SendOob, MaySend
  <2> QED BY <1>2, <1>3, <2>1, <2>2, SendOtherSound
<1>7. ASSUME ReportOob(n) PROVE Goal(n)
  <2> DEFINE s == [scp[n] EXCEPT !.other_report = TRUE]
  <2>1. Typed(s)
    BY <1>2 DEF Sound, Typed, Scp
  <2>2. Sound(s) /\ SentOnly(scp[n], s)
    BY <1>2, <2>1, SoundSame DEF Sound, Typed, Scp
  <2>3. Step(n, s)
    BY <1>7 DEF ReportOob
  <2> QED BY <1>3, <2>2, <2>3
<1>8. ASSUME RecvMsg(n) PROVE Goal(n)
  <2>1. PICK idle \in BOOLEAN : Step(n, RecvData(scp[n], idle))
    BY <1>8 DEF RecvMsg
  <2>2. scp[n].rcvq["dat"] > 0
    BY <1>8 DEF RecvMsg
  <2> QED BY <1>2, <1>3, <2>1, <2>2, RecvDataSound
<1>9. ASSUME RecvOob(n) PROVE Goal(n)
  <2>1. PICK idle \in BOOLEAN : Step(n, RecvOther(scp[n], idle))
    BY <1>9 DEF RecvOob
  <2>2. scp[n].rcvq["oth"] > 0
    BY <1>9 DEF RecvOob
  <2> QED BY <1>2, <1>3, <2>1, <2>2, RecvOtherSound
<1>10. ASSUME PersistTimer(n) PROVE Goal(n)
  <2>1. Step(n, XmitTimeout(scp[n]))
    BY <1>10 DEF PersistTimer
  <2> QED BY <1>2, <1>3, <2>1, XmitTimeoutSound
<1>11. ASSUME Keepalive(n) PROVE Goal(n)
  <2>1. Step(n, SendLink(scp[n], "NOCHANGE", TRUE)) /\ "NOCHANGE" \in OthKind
    BY <1>11 DEF Keepalive, OthKind
  <2> QED BY <1>2, <1>3, <2>1, SendLinkSound
<1>12. Goal(n)
  BY <1>1, <1>4, <1>5, <1>6, <1>7, <1>8, <1>9, <1>10, <1>11
<1> QED BY <1>12 DEF Goal

LEMMA Invariance == Spec => []Inv
<1>1. Init => Inv
  BY InitInv
<1>2. Inv /\ [Next]_vars => Inv'
  <2> SUFFICES ASSUME Inv, [Next]_vars PROVE Inv'
    OBVIOUS
  <2>1. CASE Next
    BY <2>1, NextSteps, StepInv
  <2>2. CASE UNCHANGED vars
    BY <2>2 DEF vars, Inv, SocketInv, LinkInv, FlightInv, Typed, Room, Core,
                QueueSound, RcvSound, Stamped
  <2> QED BY <2>1, <2>2
<1> QED BY <1>1, <1>2, PTL DEF Spec

-----------------------------------------------------------------------------
(* The theorems *)

\* Every handler leaves its socket and what it sends well typed: numbers stay
\* within the mask, the window within its limits, delayedacks below it.
THEOREM TypeCorrect == Spec => []TypeOK
<1>1. Inv => TypeOK
  BY DEF Inv, TypeOK
<1> QED BY <1>1, Invariance, PTL

\* dn_nsp_data, dn_nsp_otherdata and dn_nsp_linkservice take in each subchannel
\* in order, once, whatever the network loses, repeats and reorders.
THEOREM OrderedDelivery == Spec => []InOrder
<1>1. Inv => InOrder
  <2> SUFFICES ASSUME Inv, NEW n \in Node, NEW c \in Chan
               PROVE  /\ Len(scp[n].got[c]) <= scp[Peer(n)].nsent[c]
                      /\ \A i \in 1 .. Len(scp[n].got[c]) : scp[n].got[c][i] = i
    BY DEF InOrder
  <2>1. Peer(n) \in Node /\ Peer(Peer(n)) = n
    BY PeerType
  <2>2. SocketInv(n) /\ LinkInv(Peer(n))
    BY <2>1 DEF Inv
  <2> QED BY <2>1, <2>2 DEF SocketInv, LinkInv, Core, RcvSound
<1> QED BY <1>1, Invariance, PTL

\* dn_nsp_check_xmit_queue frees no segment that the other end does not have.
THEOREM Retained == Spec => []NoSegmentLost
<1>1. Inv => NoSegmentLost
  <2> SUFFICES ASSUME Inv, NEW n \in Node, NEW c \in Chan,
                      NEW i \in 1 .. scp[n].nsent[c],
                      i > Len(scp[Peer(n)].got[c])
               PROVE  \E e \in scp[n].xmitq[c] : e.pkt.id = i
    BY DEF NoSegmentLost
  <2>1. Peer(n) \in Node
    BY PeerType
  <2>2. SocketInv(n) /\ LinkInv(n) /\ SocketInv(Peer(n))
    BY <2>1 DEF Inv
  <2>3. SeqNum \in SUBSET Nat
    BY SeqHalfAssumption DEF SeqNum, SeqMod
  <2>4. /\ scp[n].ackrcv[c] \in Nat /\ scp[n].nsent[c] \in Nat
        /\ scp[Peer(n)].got[c] \in Seq(Nat)
    BY <2>2, <2>3 DEF SocketInv, Typed, Scp
  <2>5. scp[n].ackrcv[c] <= Len(scp[Peer(n)].got[c]) /\ Len(scp[Peer(n)].got[c]) \in Nat
    BY <2>2, <2>4 DEF LinkInv
  <2>6. i \in (scp[n].ackrcv[c] + 1) .. scp[n].nsent[c]
    BY <2>4, <2>5
  <2> QED BY <2>2, <2>6 DEF SocketInv, Core, QueueSound
<1> QED BY <1>1, Invariance, PTL

-----------------------------------------------------------------------------
(* The link implements its channels. *)

LEMMA StepLink ==
  ASSUME Inv, Inv', NEW n \in Node, NEW s, Sound(s), Evolved(n, s), Step(n, s)
  PROVE  Link!Next
<1> DEFINE sent == [w \in Ways |-> scp[w[1]].nsent[w[2]]]
           recv == [w \in Ways |-> scp[Peer(w[1])].got[w[2]]]
<1>1. \A w \in Ways : w[1] \in Node /\ Peer(w[1]) \in Node /\ w[2] \in Chan
  BY PeerType DEF Ways
<1>2. \A m \in Node : SocketInv(m) /\ SocketInv(m)' /\ LinkInv(m)
  BY DEF Inv
<1>3. \A m \in Node, c \in Chan :
        /\ scp[m].nsent[c] \in Nat /\ scp'[m].nsent[c] \in Nat
        /\ scp[m].got[c] \in Seq(Nat) /\ scp'[m].got[c] \in Seq(Nat)
  BY SMTT(30), <1>2 DEF SocketInv, Typed, Scp
<1>4. /\ scp'[n].nsent = s.nsent /\ scp'[n].got = s.got
      /\ \A m \in Node : m # n => scp'[m] = scp[m]
  BY DEF Step, Inv, Sound, Typed, Scp
<1>5. ASSUME NEW m \in Node, NEW c \in Chan
      PROVE  scp[m].nsent[c] <= scp'[m].nsent[c]
  BY <1>3, <1>4 DEF Evolved
<1>6. ASSUME NEW m \in Node, NEW c \in Chan, scp'[m].got[c] # scp[m].got[c]
      PROVE  /\ Len(scp[m].got[c]) < scp[Peer(m)].nsent[c]
             /\ scp'[m].got[c] = Append(scp[m].got[c], Len(scp[m].got[c]) + 1)
  <2>1. m = n
    BY <1>4, <1>6
  <2>2. PICK i \in Nat : /\ scp'[n].got[c] = Append(scp[n].got[c], i)
                         /\ Len(scp[n].got[c]) + 1 <= scp[Peer(n)].nsent[c]
    BY <1>4, <1>6, <2>1 DEF Evolved
  <2>3. \A j \in 1 .. Len(scp'[n].got[c]) : scp'[n].got[c][j] = j
    BY <1>2 DEF SocketInv, Core, RcvSound
  <2>4. /\ Len(scp'[n].got[c]) = Len(scp[n].got[c]) + 1
        /\ Len(scp[n].got[c]) \in Nat
        /\ scp'[n].got[c][Len(scp[n].got[c]) + 1] = i
    BY SMTT(30), <1>3, <2>2
  <2>5. i = Len(scp[n].got[c]) + 1
    <3>1. Len(scp[n].got[c]) + 1 \in 1 .. Len(scp'[n].got[c])
      BY <2>4
    <3>2. scp'[n].got[c][Len(scp[n].got[c]) + 1] = Len(scp[n].got[c]) + 1
      BY <2>3, <3>1
    <3> QED BY <2>4, <3>2
  <2>6. scp[Peer(n)].nsent[c] \in Nat
    BY <1>3, PeerType
  <2>7. Len(scp[n].got[c]) < scp[Peer(n)].nsent[c]
    BY <2>2, <2>4, <2>6
  <2> QED BY <2>1, <2>2, <2>5, <2>7
<1>7. sent' \in [Ways -> Nat] /\ \A w \in Ways : sent[w] <= sent'[w]
  BY <1>1, <1>3, <1>5
<1>8. \A w \in Ways : \/ recv'[w] = recv[w]
                      \/ /\ Len(recv[w]) < sent[w]
                         /\ recv'[w] = Append(recv[w], Len(recv[w]) + 1)
  <2> SUFFICES ASSUME NEW w \in Ways, recv'[w] # recv[w]
               PROVE  /\ Len(recv[w]) < sent[w]
                      /\ recv'[w] = Append(recv[w], Len(recv[w]) + 1)
    OBVIOUS
  <2> DEFINE m == Peer(w[1])
             c == w[2]
  <2>1. m \in Node /\ c \in Chan /\ Peer(m) = w[1]
    BY <1>1, PeerType
  <2>2. recv[w] = scp[m].got[c] /\ recv'[w] = scp'[m].got[c] /\ sent[w] = scp[w[1]].nsent[c]
    OBVIOUS
  <2> HIDE DEF m, c, sent, recv
  <2> QED BY <1>6, <2>1, <2>2
<1> QED BY <1>7, <1>8 DEF Link!Next

LEMMA InitCounts ==
  ASSUME Init, NEW m \in Node, NEW c \in Chan
  PROVE  scp[m].nsent[c] \in 0 .. 1 /\ scp[m].got[c] = <<>>
<1> DEFINE s == ConnConf(InitScp)
<1>1. scp[m] = IF m = Caller THEN [s EXCEPT !.out = <<>>] ELSE InitScp
  BY DEF Init
<1>2. /\ InitScp.nsent[c] = 0 /\ InitScp.got[c] = <<>>
  BY DEF InitScp
<1>3. Sound(s) /\ s.got = InitScp.got
  BY InitScpSound, ConnConfSound DEF SentOnly
<1>4. s.nsent[c] \in 0 .. 1
  BY ConnConfCounts DEF Chan
<1> HIDE DEF s
<1>5. [s EXCEPT !.out = <<>>].nsent = s.nsent /\ [s EXCEPT !.out = <<>>].got = s.got
  BY <1>3 DEF Sound, Typed, Scp
<1> QED BY <1>1, <1>2, <1>3, <1>4, <1>5

\* The two sockets and the network between them implement four channels that
\* lose nothing, repeat nothing and keep the order.
THEOREM ImplementsChannels == Spec => OrderedLink
<1>1. Init => Link!Init
  <2> SUFFICES ASSUME Init PROVE Link!Init
    OBVIOUS
  <2>1. \A w \in Ways : w[1] \in Node /\ Peer(w[1]) \in Node /\ w[2] \in Chan
    BY PeerType DEF Ways
  <2>2. ASSUME NEW m \in Node, NEW c \in Chan
        PROVE  scp[m].nsent[c] \in 0 .. 1 /\ scp[m].got[c] = <<>>
    BY <2>2, InitCounts
  <2> QED BY <2>1, <2>2 DEF Link!Init
<1>2. Inv /\ Inv' /\ [Next]_vars => [Link!Next]_(Link!vars)
  <2> SUFFICES ASSUME Inv, Inv', [Next]_vars PROVE [Link!Next]_(Link!vars)
    OBVIOUS
  <2>1. CASE Next
    BY <2>1, NextSteps, StepLink
  <2>2. CASE UNCHANGED vars
    BY <2>2 DEF vars, Link!vars
  <2> QED BY <2>1, <2>2
<1> QED BY <1>1, <1>2, Invariance, PTL DEF Spec, OrderedLink, Link!Spec

-----------------------------------------------------------------------------
(***************************************************************************)
(* Other data of a link, for every window, buffer, number space and number *)
(* of segments below half that space: it is stop and wait, its interrupt   *)
(* credit is in one place, and the two ends agree on the flow control      *)
(* switch when nothing is due or under way.                                *)
(*                                                                         *)
(* The argument.  What a socket says of the credit and of the switch       *)
(* depends on how much of its other data the peer has accepted, A below.   *)
(* A handler that sends or is acknowledged moves a credit within its       *)
(* socket.  The one that accepts a message ends what the peer had under    *)
(* way, and since the queue it came from has one segment, the message is   *)
(* what the peer still has queued, whatever the network did to it.         *)
(***************************************************************************)

Num(b) == IF b THEN 1 ELSE 0

\* A message of the other-data subchannel, not an acknowledgement
Other(p) == ChanOf(p) = "oth" /\ p.kind \notin AckKind

\* What the queue of s holds of kind k after the first A accepted messages
Open(s, A, k) == \E e \in s.xmitq["oth"] : e.pkt.kind = k /\ e.pkt.id > A

\* The credit on its way to the peer's reader, as far as it is with the sender;
\* and on its way back to the sender, as far as it is with the reader.
ToSend(s, A) == s.flowrem_oth + Num(Open(s, A, "OD"))
ToReturn(s, A) == s.rcvq["oth"] + Num("INTR" \in s.pending) + Num(Open(s, A, "INTR"))

\* The switch that s will have told its peer, which now believes w
Told(s, A, w) ==
  "SW" \notin s.pending =>
    s.flowloc_sw = IF Open(s, A, "SEND") THEN "SEND"
                   ELSE IF Open(s, A, "DONTSEND") THEN "DONTSEND" ELSE w

\* Packets that bear the number of a queued segment are copies of it.
Copies(s, P) ==
  \A p \in P, e \in s.xmitq["oth"] :
    Other(p) /\ p.id = e.pkt.id => p.kind = e.pkt.kind

\* One segment at a time
Waiting(s) ==
  /\ \A e, f \in s.xmitq["oth"] : e = f
  /\ \A e \in s.xmitq["oth"] : e.pkt.id <= s.nsent["oth"]
  /\ \A p \in Packets(s.out) : Other(p) => p.id <= s.nsent["oth"]
  /\ Copies(s, Packets(s.out))

\* How much n's peer has accepted
Accepted(n) == Len(scp[Peer(n)].got["oth"])

OtherInv(n) ==
  LET m == Peer(n)
  IN  /\ Waiting(scp[n])
      /\ Copies(scp[n], net[n])
      /\ ToSend(scp[n], Accepted(n)) + ToReturn(scp[m], Accepted(m)) = 1
      /\ Told(scp[m], Accepted(m), scp[n].flowrem_sw)

OInv == Inv /\ \A n \in Node : OtherInv(n)

-----------------------------------------------------------------------------
(* What a handler does to one socket *)

\* r is s after a handler that took in an other-data message of kind k, or
\* none: what it may do to the credit, to the switch and to the queue.
Passed(s, r, A, k) ==
  /\ \A c \in Chan : s.nsent[c] <= r.nsent[c]
  /\ Room(r) /\ Waiting(s) =>
       /\ Waiting(r)
       /\ \A e \in r.xmitq["oth"] : \/ e.pkt.id > s.nsent["oth"]
                                    \/ \E f \in s.xmitq["oth"] : f.pkt = e.pkt
       /\ ToSend(r, A) = ToSend(s, A) + Num(k = "INTR")
       /\ ToReturn(r, A) = ToReturn(s, A) + Num(k = "OD")
       /\ r.flowrem_sw = IF k \in {"SEND", "DONTSEND"} THEN k ELSE s.flowrem_sw
       /\ \A w : Told(s, A, w) => Told(r, A, w)

Kept(s, r, A) == Passed(s, r, A, "none")

LEMMA Counts ==
  ASSUME NEW s, Typed(s), NEW A \in Nat
  PROVE  /\ ToSend(s, A) \in Nat /\ ToReturn(s, A) \in Nat
         /\ \A c \in Chan : s.nsent[c] \in Nat
         /\ s.flowrem_oth \in Nat /\ s.rcvq["oth"] \in Nat
         /\ "oth" \in Chan
BY SMTT(30) DEF ToSend, ToReturn, Num, Typed, Scp, Chan

LEMMA QueuedType ==
  ASSUME NEW s, Typed(s), NEW c \in Chan, NEW e \in s.xmitq[c]
  PROVE  e \in Queued /\ e.pkt \in Packet /\ e.pkt.id \in Nat
<1>1. e \in Queued
  BY DEF Typed, Scp
<1>2. e.pkt \in Packet
  BY <1>1 DEF Queued
<1> QED BY <1>1, <1>2 DEF Packet

LEMMA RoomBefore ==
  ASSUME NEW s, Sound(s), NEW r, Sound(r), Room(r),
         \A c \in Chan : s.nsent[c] <= r.nsent[c]
  PROVE  Room(s) /\ Core(s)
<1>1. \A c \in Chan : s.nsent[c] \in Int /\ r.nsent[c] \in Int
  BY DEF Sound, Typed, Scp
<1> QED BY <1>1, SeqHalfAssumption DEF Room, Sound

\* One message at most is taken in by a handler.
LEMMA PassedTrans ==
  ASSUME NEW s, Sound(s), NEW t, Sound(t), NEW r, Sound(r), NEW A \in Nat,
         NEW j, NEW k, Passed(s, t, A, j), Passed(t, r, A, k),
         j = "none" \/ k = "none"
  PROVE  Passed(s, r, A, IF j = "none" THEN k ELSE j)
<1> DEFINE l == IF j = "none" THEN k ELSE j
<1>1. /\ ToSend(s, A) \in Nat /\ ToReturn(s, A) \in Nat
      /\ ToSend(t, A) \in Nat /\ ToReturn(t, A) \in Nat
      /\ \A c \in Chan : s.nsent[c] \in Nat /\ t.nsent[c] \in Nat /\ r.nsent[c] \in Nat
      /\ "oth" \in Chan
  BY Counts DEF Sound
<1>2. \A c \in Chan : s.nsent[c] <= t.nsent[c] /\ t.nsent[c] <= r.nsent[c]
  BY DEF Passed
<1>3. \A c \in Chan : s.nsent[c] <= r.nsent[c]
  BY <1>1, <1>2
<1> SUFFICES ASSUME Room(r), Waiting(s)
             PROVE  /\ Waiting(r)
                    /\ \A e \in r.xmitq["oth"] : \/ e.pkt.id > s.nsent["oth"]
                                                 \/ \E f \in s.xmitq["oth"] : f.pkt = e.pkt
                    /\ ToSend(r, A) = ToSend(s, A) + Num(l = "INTR")
                    /\ ToReturn(r, A) = ToReturn(s, A) + Num(l = "OD")
                    /\ r.flowrem_sw = IF l \in {"SEND", "DONTSEND"} THEN l ELSE s.flowrem_sw
                    /\ \A w : Told(s, A, w) => Told(r, A, w)
  BY <1>3 DEF Passed
<1>4. Room(t)
  BY <1>2, RoomBefore
<1>5. Waiting(t) /\ Waiting(r)
  BY <1>4 DEF Passed
<1>6. ASSUME NEW e \in r.xmitq["oth"]
      PROVE  e.pkt.id > s.nsent["oth"] \/ \E f \in s.xmitq["oth"] : f.pkt = e.pkt
  <2>1. e.pkt.id \in Nat
    BY <1>1, QueuedType DEF Sound
  <2>2. CASE e.pkt.id > t.nsent["oth"]
    BY <1>1, <1>2, <2>1, <2>2
  <2>3. CASE \E f \in t.xmitq["oth"] : f.pkt = e.pkt
    BY <1>4, <2>3 DEF Passed
  <2> QED BY <1>5, <2>2, <2>3 DEF Passed
<1>7. ToSend(r, A) = ToSend(s, A) + Num(l = "INTR") /\ ToReturn(r, A) = ToReturn(s, A) + Num(l = "OD")
  BY <1>1, <1>4, <1>5 DEF Passed, Num
<1>8. r.flowrem_sw = IF l \in {"SEND", "DONTSEND"} THEN l ELSE s.flowrem_sw
  BY <1>4, <1>5 DEF Passed
<1>9. \A w : Told(s, A, w) => Told(r, A, w)
  BY <1>4, <1>5 DEF Passed
<1> QED BY <1>5, <1>6, <1>7, <1>8, <1>9

LEMMA KeptTrans ==
  ASSUME NEW s, Sound(s), NEW t, Sound(t), NEW r, Sound(r), NEW A \in Nat,
         NEW k, Kept(s, t, A), Passed(t, r, A, k)
  PROVE  Passed(s, r, A, k)
BY PassedTrans DEF Kept

LEMMA ThenKept ==
  ASSUME NEW s, Sound(s), NEW t, Sound(t), NEW r, Sound(r), NEW A \in Nat,
         NEW k, Passed(s, t, A, k), Kept(t, r, A)
  PROVE  Passed(s, r, A, k)
<1>1. Passed(s, r, A, IF k = "none" THEN "none" ELSE k)
  BY PassedTrans DEF Kept
<1> QED BY <1>1

\* Fields that other data does not depend on may change freely.
LEMMA KeptSame ==
  ASSUME NEW s, Sound(s), NEW r, NEW A \in Nat,
         r.xmitq["oth"] = s.xmitq["oth"], r.out = s.out, r.nsent = s.nsent,
         r.rcvq["oth"] = s.rcvq["oth"], r.pending = s.pending,
         r.flowrem_oth = s.flowrem_oth, r.flowrem_sw = s.flowrem_sw,
         r.flowloc_sw = s.flowloc_sw
  PROVE  Kept(s, r, A)
<1>1. \A k : Open(r, A, k) <=> Open(s, A, k)
  BY DEF Open
<1>2. ToSend(r, A) = ToSend(s, A) /\ ToReturn(r, A) = ToReturn(s, A)
  BY <1>1 DEF ToSend, ToReturn, Num
<1>3. \A w : Told(s, A, w) => Told(r, A, w)
  BY <1>1 DEF Told
<1>4. Waiting(s) => Waiting(r)
  BY DEF Waiting, Copies
<1>5. ToSend(s, A) \in Nat /\ ToReturn(s, A) \in Nat /\ \A c \in Chan : s.nsent[c] \in Nat
  BY Counts DEF Sound
<1> QED BY <1>2, <1>3, <1>4, <1>5 DEF Kept, Passed, Num

\* A copy of a queued segment is what the queue has.
LEMMA KeptCloneAndSend ==
  ASSUME NEW s, Sound(s), NEW c \in Chan, NEW e \in s.xmitq[c], NEW A \in Nat
  PROVE  Kept(s, CloneAndSend(s, c, e), A)
<1> DEFINE f == [e EXCEPT !.cnt = IF @ = 0 THEN 1 ELSE 2]
           r == CloneAndSend(s, c, e)
<1>1. e \in Queued /\ f.pkt = e.pkt /\ e.pkt \in Packet
  <2>1. e \in Queued /\ e.pkt \in Packet
    BY QueuedType DEF Sound
  <2> QED BY <2>1 DEF Queued
<1>2. Sound(r) /\ SentOnly(s, r)
  BY CloneAndSendSound
<1>3. /\ r.nsent = s.nsent /\ r.rcvq = s.rcvq /\ r.pending = s.pending
      /\ r.flowrem_oth = s.flowrem_oth /\ r.flowrem_sw = s.flowrem_sw
      /\ r.flowloc_sw = s.flowloc_sw
      /\ r.out = Append(s.out, e.pkt)
      /\ r.xmitq[c] = (s.xmitq[c] \ {e}) \cup {f}
      /\ \A d \in Chan \ {c} : r.xmitq[d] = s.xmitq[d]
  BY DEF CloneAndSend, Sound, Typed, Scp
<1> HIDE DEF r, f
<1>4. "oth" \in Chan /\ s.out \in Seq(Packet)
  BY DEF Chan, Sound, Typed, Scp
<1>5. ASSUME NEW g \in r.xmitq["oth"]
      PROVE  \E h \in s.xmitq["oth"] : h.pkt = g.pkt
  BY <1>1, <1>3, <1>4
<1>6. ASSUME NEW g \in s.xmitq["oth"]
      PROVE  \E h \in r.xmitq["oth"] : h.pkt = g.pkt
  <2>1. CASE c = "oth" /\ g = e
    BY <1>1, <1>3, <2>1
  <2>2. CASE ~(c = "oth" /\ g = e)
    BY <1>3, <1>4, <2>2
  <2> QED BY <2>1, <2>2
<1>7. \A k : Open(r, A, k) <=> Open(s, A, k)
  BY <1>5, <1>6 DEF Open
<1>8. /\ ToSend(r, A) = ToSend(s, A) /\ ToReturn(r, A) = ToReturn(s, A)
      /\ \A w : Told(s, A, w) => Told(r, A, w)
  BY <1>3, <1>7 DEF ToSend, ToReturn, Told, Num
<1>9. ASSUME Room(r), Waiting(s) PROVE Waiting(r)
  <2>1. Core(s)
    BY <1>2, <1>3, <1>9 DEF Room, Sound
  <2>2. \A p \in Packets(r.out) : p = e.pkt \/ p \in Packets(s.out)
    BY <1>1, <1>3, <1>4 DEF Packets
  <2>3. ChanOf(e.pkt) = c
    BY <2>1 DEF Core, QueueSound
  <2>4. \A g, h \in r.xmitq["oth"] : g = h
    <3>1. CASE c = "oth"
      <4>1. s.xmitq["oth"] = {e}
        BY <1>9, <3>1 DEF Waiting
      <4>2. r.xmitq["oth"] = {f}
        BY <1>3, <3>1, <4>1
      <4> QED BY <4>2
    <3>2. CASE c # "oth"
      BY <1>3, <1>4, <1>9, <3>2 DEF Waiting
    <3> QED BY <3>1, <3>2
  <2>5. \A g \in r.xmitq["oth"] : g.pkt.id <= r.nsent["oth"]
    BY <1>3, <1>5, <1>9 DEF Waiting
  <2>6. ASSUME Other(e.pkt) PROVE e \in s.xmitq["oth"]
    BY <2>3, <2>6 DEF Other
  <2>7. \A p \in Packets(r.out) : Other(p) => p.id <= r.nsent["oth"]
    BY <1>3, <1>9, <2>2, <2>6 DEF Waiting
  <2>8. ASSUME NEW p \in Packets(r.out), NEW g \in r.xmitq["oth"],
               Other(p), p.id = g.pkt.id
        PROVE  p.kind = g.pkt.kind
    <3>1. PICK h \in s.xmitq["oth"] : h.pkt = g.pkt
      BY <1>5
    <3>2. CASE p = e.pkt
      BY <1>9, <2>6, <2>8, <3>1, <3>2 DEF Waiting
    <3>3. CASE p \in Packets(s.out)
      BY <1>9, <2>8, <3>1, <3>3 DEF Waiting, Copies
    <3> QED BY <2>2, <3>2, <3>3
  <2> QED BY <2>4, <2>5, <2>7, <2>8 DEF Waiting, Copies
<1>10. ToSend(s, A) \in Nat /\ ToReturn(s, A) \in Nat /\ \A d \in Chan : s.nsent[d] \in Nat
  BY Counts DEF Sound
<1> QED BY <1>3, <1>5, <1>8, <1>9, <1>10 DEF Kept, Passed, Num, r

LEMMA KeptNothing ==
  ASSUME NEW s, Sound(s), NEW A \in Nat
  PROVE  Kept(s, s, A)
BY KeptSame

LEMMA KeptOutput ==
  ASSUME NEW s, Sound(s), NEW A \in Nat
  PROVE  Kept(s, Output(s), A)
<1> DEFINE oth == s.xmitq["oth"]
           dat == s.xmitq["dat"]
           s1 == IF oth = {} THEN s ELSE CloneAndSend(s, "oth", First(oth))
           s2 == CloneAndSend(s1, "dat", First(dat))
           Good(r) == Sound(r) /\ Kept(s, r, A)
           Halved(r) == [r EXCEPT !.snd_window = HalfWindow(@)]
<1>1. /\ oth \in SUBSET Queued /\ dat \in SUBSET Queued
      /\ "oth" \in Chan /\ "dat" \in Chan
  BY DEF Sound, Typed, Scp, Chan
<1>2. Good(s)
  BY KeptNothing
<1>3. Good(s1) /\ s1.xmitq["dat"] = dat
  <2>1. CASE oth = {}
    BY <1>2, <2>1
  <2>2. CASE oth # {}
    <3>1. First(oth) \in oth
      BY <1>1, <2>2, FirstInQueue
    <3>2. CloneAndSend(s, "oth", First(oth)).xmitq["dat"] = dat
      BY DEF CloneAndSend, Sound, Typed, Scp, Chan
    <3> QED BY <1>1, <2>2, <3>1, <3>2, CloneAndSendSound, KeptCloneAndSend
  <2> QED BY <2>1, <2>2
<1> HIDE DEF s1
<1>4. dat # {} => Good(s2)
  <2> SUFFICES ASSUME dat # {} PROVE Good(s2)
    OBVIOUS
  <2>1. First(dat) \in s1.xmitq["dat"]
    BY <1>1, <1>3, FirstInQueue
  <2>2. Sound(s2) /\ Kept(s1, s2, A)
    BY <1>1, <1>3, <2>1, CloneAndSendSound, KeptCloneAndSend
  <2> QED BY <1>3, <2>2, KeptTrans DEF Kept
<1> HIDE DEF s2
<1>5. ASSUME NEW r, Good(r) PROVE Kept(s, Halved(r), A) /\ Sound(Halved(r))
  <2>1. Typed(Halved(r))
    BY <1>5, HalfWindowType DEF Sound, Typed, Scp
  <2>2. Sound(Halved(r)) /\ Kept(r, Halved(r), A)
    <3>1. Typed(r) /\ Sound(r)
      BY <1>5 DEF Sound
    <3> QED BY <2>1, <3>1, SoundSame, KeptSame DEF Typed, Scp
  <2> QED BY <1>5, <2>1, <2>2, KeptTrans DEF Kept
<1> HIDE DEF Good
<1>6. Kept(s, Halved(s1), A) /\ (dat # {} => Kept(s, Halved(s2), A))
  BY <1>3, <1>4, <1>5
<1> QED BY <1>3, <1>4, <1>6 DEF Output, s1, s2, Good

LEMMA KeptSendAck ==
  ASSUME NEW s, Sound(s), NEW c \in Chan, NEW A \in Nat
  PROVE  Kept(s, SendAck(s, c), A)
<1> DEFINE p == [kind |-> IF c = "dat" THEN "DATACK" ELSE "OTHACK",
                 seg |-> 0, id |-> 0, dly |-> FALSE, ack |-> s.num_rcv]
           r == SendAck(s, c)
<1>1. /\ r.nsent = s.nsent /\ r.rcvq = s.rcvq /\ r.pending = s.pending
      /\ r.flowrem_oth = s.flowrem_oth /\ r.flowrem_sw = s.flowrem_sw
      /\ r.flowloc_sw = s.flowloc_sw /\ r.xmitq = s.xmitq
      /\ r.out = Append(s.out, p) /\ s.out \in Seq(Packet)
  BY DEF SendAck, Sound, Typed, Scp
<1>2. ~Other(p)
  BY DEF Other, AckKind
<1> HIDE DEF r, p
<1>3. \A q \in Packets(r.out) : q = p \/ q \in Packets(s.out)
  BY <1>1 DEF Packets
<1>4. Waiting(s) => Waiting(r)
  BY <1>1, <1>2, <1>3 DEF Waiting, Copies
<1>5. \A k : Open(r, A, k) <=> Open(s, A, k)
  BY <1>1 DEF Open
<1>6. /\ ToSend(r, A) = ToSend(s, A) /\ ToReturn(r, A) = ToReturn(s, A)
      /\ \A w : Told(s, A, w) => Told(r, A, w)
  BY <1>1, <1>5 DEF ToSend, ToReturn, Told, Num
<1>7. ToSend(s, A) \in Nat /\ ToReturn(s, A) \in Nat /\ \A d \in Chan : s.nsent[d] \in Nat
  BY Counts DEF Sound
<1> QED BY <1>1, <1>4, <1>6, <1>7 DEF Kept, Passed, Num, r

\* A segment of data is nothing to other data.
LEMMA KeptSendData ==
  ASSUME NEW s, Sound(s), NEW dly \in BOOLEAN, NEW idle \in BOOLEAN,
         NEW A \in Nat
  PROVE  Kept(s, QueueXmit(s, "dat", "DATA", dly, idle), A)
<1> DEFINE p == [kind |-> "DATA", seg |-> s.num["dat"], id |-> s.nsent["dat"] + 1,
                 dly |-> dly, ack |-> s.num_rcv]
           r == QueueXmit(s, "dat", "DATA", dly, idle)
<1>1. "oth" \in Chan /\ "dat" \in Chan /\ s.out \in Seq(Packet)
      /\ \A c \in Chan : s.nsent[c] \in Nat
  BY DEF Chan, Sound, Typed, Scp
<1>2. ~Other(p)
  BY DEF Other, ChanOf
<1>3. /\ r.rcvq = s.rcvq /\ r.pending = s.pending
      /\ r.flowrem_oth = s.flowrem_oth /\ r.flowrem_sw = s.flowrem_sw
      /\ r.flowloc_sw = s.flowloc_sw /\ r.xmitq["oth"] = s.xmitq["oth"]
      /\ r.out \in {s.out, Append(s.out, p)}
      /\ r.nsent["dat"] = s.nsent["dat"] + 1 /\ r.nsent["oth"] = s.nsent["oth"]
  BY <1>1 DEF QueueXmit, CloneAndSend, Sound, Typed, Scp, Chan
<1> HIDE DEF r, p
<1>4. \A q \in Packets(r.out) : q = p \/ q \in Packets(s.out)
  BY SMTT(30), <1>1, <1>3 DEF Packets
<1>5. Waiting(s) => Waiting(r)
  BY <1>2, <1>3, <1>4 DEF Waiting, Copies
<1>6. \A k : Open(r, A, k) <=> Open(s, A, k)
  BY <1>3 DEF Open
<1>7. /\ ToSend(r, A) = ToSend(s, A) /\ ToReturn(r, A) = ToReturn(s, A)
      /\ \A w : Told(s, A, w) => Told(r, A, w)
  BY <1>3, <1>6 DEF ToSend, ToReturn, Told, Num
<1>8. ToSend(s, A) \in Nat /\ ToReturn(s, A) \in Nat
  BY Counts DEF Sound
<1>9. \A d \in Chan : s.nsent[d] <= r.nsent[d]
  BY <1>1, <1>3 DEF Chan
<1> QED BY <1>3, <1>5, <1>7, <1>8, <1>9 DEF Kept, Passed, Num, r

\* Into an empty queue of other data goes the one segment it has then.
Queues(s, r, kind) ==
  /\ r.rcvq = s.rcvq /\ r.pending = s.pending
  /\ r.flowrem_oth = s.flowrem_oth /\ r.flowrem_sw = s.flowrem_sw
  /\ r.flowloc_sw = s.flowloc_sw
  /\ r.nsent = [s.nsent EXCEPT !["oth"] = @ + 1]
  /\ \E f : /\ r.xmitq["oth"] = {f}
            /\ f.pkt.kind = kind /\ f.pkt.id = s.nsent["oth"] + 1
            /\ r.out = Append(s.out, f.pkt) /\ f.pkt \in Packet

LEMMA QueuesOther ==
  ASSUME NEW s, Sound(s), s.xmitq["oth"] = {}, NEW kind \in OthKind,
         NEW idle \in BOOLEAN
  PROVE  Queues(s, QueueXmit(s, "oth", kind, FALSE, idle), kind)
<1> DEFINE e == [cnt |-> 0,
                 pkt |-> [kind |-> kind, seg |-> s.num["oth"],
                          id |-> s.nsent["oth"] + 1, dly |-> FALSE,
                          ack |-> s.num_rcv]]
           f == [e EXCEPT !.cnt = 1]
           s1 == [s EXCEPT !.num["oth"] = seq_add1(@),
                           !.nsent["oth"] = @ + 1,
                           !.snd_window = IF idle THEN MinWindow ELSE @,
                           !.xmitq["oth"] = @ \cup {e}]
           r == QueueXmit(s, "oth", kind, FALSE, idle)
<1>1. "oth" \in Chan /\ f.pkt = e.pkt /\ f.pkt \in Packet /\ e.pkt.kind = kind
        /\ e.pkt.id = s.nsent["oth"] + 1 /\ e.cnt = 0
  BY DEF Chan, Packet, Kind, Sound, Typed, Scp
<1>2. r = CloneAndSend(s1, "oth", e)
  BY DEF QueueXmit
<1>3. /\ s1.nsent = [s.nsent EXCEPT !["oth"] = @ + 1]
      /\ s1.rcvq = s.rcvq /\ s1.pending = s.pending
      /\ s1.flowrem_oth = s.flowrem_oth /\ s1.flowrem_sw = s.flowrem_sw
      /\ s1.flowloc_sw = s.flowloc_sw /\ s1.out = s.out
      /\ s1.xmitq["oth"] = {e}
  BY <1>1 DEF Sound, Typed, Scp
<1>4. s1 = [x \in DOMAIN s1 |-> s1[x]] /\ s1.xmitq = [x \in Chan |-> s1.xmitq[x]]
      /\ {"xmitq", "out", "rcvq", "pending", "nsent", "flowrem_oth", "flowrem_sw", "flowloc_sw"}
           \subseteq DOMAIN s1
  BY ZenonT(40) DEF Sound, Typed, Scp
<1>5. (s1.xmitq["oth"] \ {e}) \cup {f} = {f}
  BY <1>3
<1> HIDE DEF s1, e
<1>6. /\ r.nsent = s1.nsent /\ r.rcvq = s1.rcvq /\ r.pending = s1.pending
      /\ r.flowrem_oth = s1.flowrem_oth /\ r.flowrem_sw = s1.flowrem_sw
      /\ r.flowloc_sw = s1.flowloc_sw /\ r.out = Append(s1.out, e.pkt)
      /\ r.xmitq["oth"] = (s1.xmitq["oth"] \ {e}) \cup {f}
  BY ZenonT(40), <1>1, <1>2, <1>4 DEF CloneAndSend
<1> HIDE DEF r, f
<1> QED BY <1>1, <1>3, <1>5, <1>6 DEF Queues, r

LEMMA QueuesLink ==
  ASSUME NEW s, Sound(s), s.xmitq["oth"] = {}, NEW kind \in OthKind,
         NEW idle \in BOOLEAN
  PROVE  Queues(s, SendLink(s, kind, idle), kind)
<1> DEFINE r == QueueXmit(s, "oth", kind, FALSE, idle)
           t == [r EXCEPT !.persist = TRUE]
<1>1. Queues(s, r, kind)
  BY QueuesOther
<1>2. Sound(r)
  BY QueueXmitSound DEF Kind, OthKind, AckKind, Chan, ChanOf
<1> HIDE DEF r
<1>3. /\ t.nsent = r.nsent /\ t.rcvq = r.rcvq /\ t.pending = r.pending
      /\ t.flowrem_oth = r.flowrem_oth /\ t.flowrem_sw = r.flowrem_sw
      /\ t.flowloc_sw = r.flowloc_sw /\ t.out = r.out /\ t.xmitq = r.xmitq
  BY <1>2 DEF Sound, Typed, Scp
<1>4. t = SendLink(s, kind, idle)
  BY DEF SendLink, r
<1> HIDE DEF t
<1> QED BY <1>1, <1>3, <1>4 DEF Queues

\* The new segment is the only one under way; before it there was none.
LEMMA QueuesOpen ==
  ASSUME NEW s, Sound(s), s.xmitq["oth"] = {}, NEW kind, NEW r, Queues(s, r, kind),
         NEW A \in Nat, A <= s.nsent["oth"]
  PROVE  /\ \A k : ~Open(s, A, k) /\ (Open(r, A, k) <=> k = kind)
         /\ \A c \in Chan : s.nsent[c] <= r.nsent[c]
         /\ Waiting(s) => Waiting(r)
         /\ \A e \in r.xmitq["oth"] : e.pkt.id > s.nsent["oth"]
<1>1. PICK f : /\ r.xmitq["oth"] = {f}
               /\ f.pkt.kind = kind /\ f.pkt.id = s.nsent["oth"] + 1
               /\ r.out = Append(s.out, f.pkt) /\ f.pkt \in Packet
  BY DEF Queues
<1>2. s.nsent \in [Chan -> Nat] /\ "oth" \in Chan /\ s.out \in Seq(Packet)
  BY DEF Sound, Typed, Scp, Chan
<1>3. r.nsent = [s.nsent EXCEPT !["oth"] = @ + 1]
  BY DEF Queues
<1>4. f.pkt.id > A /\ f.pkt.id > s.nsent["oth"] /\ r.nsent["oth"] = f.pkt.id
      /\ \A c \in Chan : s.nsent[c] <= r.nsent[c]
  BY <1>1, <1>2, <1>3
<1>5. \A k : ~Open(s, A, k) /\ (Open(r, A, k) <=> k = kind)
  BY <1>1, <1>4 DEF Open
<1>6. ASSUME Waiting(s) PROVE Waiting(r)
  <2>1. \A p \in Packets(r.out) : p = f.pkt \/ p \in Packets(s.out)
    BY <1>1, <1>2 DEF Packets
  <2>2. \A p \in Packets(s.out) : p.id \in Nat
    <3>1. \A p \in Packets(s.out) : p \in Packet
      BY <1>2 DEF Packets
    <3> QED BY <3>1 DEF Packet
  <2>3. \A p \in Packets(s.out) : Other(p) => p.id < f.pkt.id
    BY <1>1, <1>2, <1>6, <2>2 DEF Waiting
  <2>4. \A p \in Packets(r.out) : Other(p) => p.id <= r.nsent["oth"]
    BY <1>1, <1>2, <1>4, <2>1, <2>2, <2>3
  <2>5. Copies(r, Packets(r.out))
    BY <1>1, <1>2, <2>1, <2>2, <2>3 DEF Copies
  <2> QED BY <1>1, <1>2, <1>4, <2>4, <2>5 DEF Waiting
<1> QED BY <1>1, <1>4, <1>5, <1>6

\* s with more link service messages due
Due(s, what) == [s EXCEPT !.pending = @ \cup what]

LEMMA DueSound ==
  ASSUME NEW s, Sound(s), NEW what \in SUBSET {"INTR", "SW", "IDLE"}
  PROVE  Sound(Due(s, what)) /\ SentOnly(s, Due(s, what))
<1>1. Typed(Due(s, what))
  BY DEF Due, Sound, Typed, Scp
<1> QED BY <1>1, SoundSame DEF Due, Sound, Typed, Scp

\* A message that is sent is due no more, and carries what was due.
LEMMA KeptSchedulePending ==
  ASSUME NEW s, Sound(s), NEW what \in SUBSET {"INTR", "SW", "IDLE"},
         NEW idle \in BOOLEAN, NEW A \in Nat, A <= s.nsent["oth"]
  PROVE  Kept(Due(s, what), SchedulePending(s, what, idle), A)
<1> DEFINE pend == s.pending \cup what
           k == IF "INTR" \in pend THEN "INTR"
                ELSE IF "SW" \in pend THEN "SW" ELSE "IDLE"
           kind == LinkMessage(s, k)
           d == Due(s, what)
           b == [s EXCEPT !.pending = pend \ {k}]
           r == SendLink(b, kind, idle)
<1>1. Sound(d)
  BY DueSound
<1>2. SchedulePending(s, what, idle)
        = IF pend = {} \/ s.xmitq["oth"] # {} THEN d ELSE r
  BY DEF SchedulePending, Due
<1>3. CASE pend = {} \/ s.xmitq["oth"] # {}
  BY <1>1, <1>2, <1>3, KeptNothing
<1>4. CASE pend # {} /\ s.xmitq["oth"] = {}
  <2>1. kind \in OthKind /\ pend \in SUBSET {"INTR", "SW", "IDLE"}
        /\ s.flowloc_sw \in {"SEND", "DONTSEND"}
    BY DEF LinkMessage, OthKind, Sound, Typed, Scp
  <2>2. /\ kind # "OD"
        /\ "INTR" \in pend <=> kind = "INTR"
        /\ ("INTR" \in pend \ {k}) = FALSE
        /\ "SW" \notin pend \ {k} =>
             \/ "SW" \notin pend /\ kind \notin {"SEND", "DONTSEND"}
             \/ kind = s.flowloc_sw
    BY <2>1 DEF LinkMessage
  <2> HIDE DEF k, kind
  <2>3. /\ d.pending = pend /\ b.pending = pend \ {k}
        /\ d.xmitq = s.xmitq /\ b.xmitq = s.xmitq /\ d.out = s.out /\ b.out = s.out
        /\ d.rcvq = s.rcvq /\ b.rcvq = s.rcvq
        /\ d.flowrem_oth = s.flowrem_oth /\ b.flowrem_oth = s.flowrem_oth
        /\ d.flowrem_sw = s.flowrem_sw /\ b.flowrem_sw = s.flowrem_sw
        /\ d.flowloc_sw = s.flowloc_sw /\ b.flowloc_sw = s.flowloc_sw
        /\ d.nsent = s.nsent /\ b.nsent = s.nsent
    BY DEF Due, Sound, Typed, Scp
  <2>4. Sound(b)
    <3>1. Typed(b)
      BY <2>1 DEF Sound, Typed, Scp
    <3> QED BY <3>1, SoundSame DEF Sound, Typed, Scp
  <2> HIDE DEF b, d, pend
  <2>5. Queues(b, r, kind)
    BY <1>4, <2>1, <2>3, <2>4, QueuesLink
  <2> HIDE DEF r
  <2>6. /\ \A l : ~Open(b, A, l) /\ (Open(r, A, l) <=> l = kind)
        /\ \A c \in Chan : b.nsent[c] <= r.nsent[c]
        /\ Waiting(b) => Waiting(r)
        /\ \A e \in r.xmitq["oth"] : e.pkt.id > b.nsent["oth"]
    BY <1>4, <2>3, <2>4, <2>5, QueuesOpen
  <2>7. \A l : ~Open(d, A, l)
    BY <2>3, <2>6 DEF Open
  <2>8. Waiting(d) => Waiting(b)
    BY <2>3 DEF Waiting, Copies
  <2>9. /\ r.pending = pend \ {k} /\ r.rcvq = d.rcvq /\ r.flowrem_oth = d.flowrem_oth
        /\ r.flowrem_sw = d.flowrem_sw /\ r.flowloc_sw = s.flowloc_sw
    BY <2>3, <2>5 DEF Queues
  <2>10. ToSend(r, A) = ToSend(d, A)
    BY <2>2, <2>6, <2>7, <2>9 DEF ToSend, Num
  <2>11. ToReturn(r, A) = ToReturn(d, A)
    <3>1. d.rcvq["oth"] \in Nat
      BY <1>1, Counts DEF Sound
    <3>2. Open(r, A, "INTR") <=> "INTR" \in pend
      BY <2>2, <2>6
    <3>3. ~Open(d, A, "INTR")
      BY <2>7
    <3> QED BY <2>2, <2>3, <2>9, <3>1, <3>2, <3>3 DEF ToReturn, Num
  <2>12. ASSUME NEW w, Told(d, A, w) PROVE Told(r, A, w)
    BY <2>1, <2>2, <2>3, <2>6, <2>7, <2>9, <2>12 DEF Told
  <2>13. Kept(d, r, A)
    <3>1. ToSend(d, A) \in Nat /\ ToReturn(d, A) \in Nat
      BY <1>1, Counts DEF Sound
    <3> QED BY <2>3, <2>6, <2>8, <2>9, <2>10, <2>11, <2>12, <3>1 DEF Kept, Passed, Num
  <2> QED BY <1>2, <1>4, <2>13 DEF d, r, b, pend, k, kind
<1> QED BY <1>3, <1>4

\* What is due besides a credit changes nothing but the switch.
LEMMA KeptDue ==
  ASSUME NEW s, Sound(s), NEW what \in SUBSET {"SW", "IDLE"}, NEW A \in Nat
  PROVE  Kept(s, Due(s, what), A)
<1> DEFINE d == Due(s, what)
<1>1. /\ d.pending = s.pending \cup what
      /\ d.xmitq = s.xmitq /\ d.out = s.out /\ d.rcvq = s.rcvq
      /\ d.flowrem_oth = s.flowrem_oth /\ d.flowrem_sw = s.flowrem_sw
      /\ d.flowloc_sw = s.flowloc_sw /\ d.nsent = s.nsent
  BY DEF Due, Sound, Typed, Scp
<1> HIDE DEF d
<1>2. \A k : Open(d, A, k) <=> Open(s, A, k)
  BY <1>1 DEF Open
<1>3. "INTR" \in d.pending <=> "INTR" \in s.pending
  BY <1>1
<1>4. /\ ToSend(d, A) = ToSend(s, A) /\ ToReturn(d, A) = ToReturn(s, A)
      /\ \A w : Told(s, A, w) => Told(d, A, w)
      /\ Waiting(s) => Waiting(d)
  BY <1>1, <1>2, <1>3 DEF ToSend, ToReturn, Told, Num, Waiting, Copies
<1>5. ToSend(s, A) \in Nat /\ ToReturn(s, A) \in Nat /\ \A c \in Chan : s.nsent[c] \in Nat
  BY Counts DEF Sound
<1> QED BY <1>1, <1>4, <1>5 DEF Kept, Passed, Num, d

LEMMA KeptSchedule ==
  ASSUME NEW s, Sound(s), NEW what \in SUBSET {"SW", "IDLE"},
         NEW idle \in BOOLEAN, NEW A \in Nat, A <= s.nsent["oth"]
  PROVE  Kept(s, SchedulePending(s, what, idle), A)
<1>1. Sound(Due(s, what)) /\ Sound(SchedulePending(s, what, idle))
  BY DueSound, SchedulePendingSound
<1>2. /\ Kept(s, Due(s, what), A)
      /\ Kept(Due(s, what), SchedulePending(s, what, idle), A)
  BY KeptDue, KeptSchedulePending
<1> QED BY <1>1, <1>2, KeptTrans DEF Kept

\* The switch changes together with the message that says so.
LEMMA KeptSwitch ==
  ASSUME NEW s, Sound(s), NEW w \in {"SEND", "DONTSEND"},
         NEW idle \in BOOLEAN, NEW A \in Nat, A <= s.nsent["oth"]
  PROVE  LET r == SchedulePending([s EXCEPT !.flowloc_sw = w], {"SW"}, idle)
         IN  Kept(s, r, A) /\ Sound(r) /\ SentOnly(s, r)
<1> DEFINE t == [s EXCEPT !.flowloc_sw = w]
           d == Due(t, {"SW"})
           r == SchedulePending(t, {"SW"}, idle)
<1>1. Typed(t)
  BY DEF Sound, Typed, Scp
<1>2. Sound(t) /\ SentOnly(s, t) /\ t.nsent = s.nsent
  BY <1>1, SoundSame DEF Sound, Typed, Scp
<1>3. /\ d.pending = s.pending \cup {"SW"}
      /\ d.xmitq = s.xmitq /\ d.out = s.out /\ d.rcvq = s.rcvq
      /\ d.flowrem_oth = s.flowrem_oth /\ d.flowrem_sw = s.flowrem_sw
      /\ d.nsent = s.nsent
  BY DEF Due, Sound, Typed, Scp
<1> HIDE DEF t
<1>4. Sound(d) /\ Sound(r) /\ SentOnly(t, r)
  BY <1>2, DueSound, SchedulePendingSound
<1>5. Kept(d, r, A)
  BY <1>2, KeptSchedulePending
<1> HIDE DEF d, r
<1>6. \A k : Open(d, A, k) <=> Open(s, A, k)
  BY <1>3 DEF Open
<1>7. /\ ToSend(d, A) = ToSend(s, A) /\ ToReturn(d, A) = ToReturn(s, A)
      /\ \A v : Told(d, A, v)
      /\ Waiting(s) => Waiting(d)
  BY <1>3, <1>6 DEF ToSend, ToReturn, Told, Num, Waiting, Copies
<1>8. ToSend(s, A) \in Nat /\ ToReturn(s, A) \in Nat /\ \A c \in Chan : s.nsent[c] \in Nat
  BY Counts DEF Sound
<1>9. Kept(s, d, A)
  BY <1>3, <1>7, <1>8 DEF Kept, Passed, Num
<1>10. SentOnly(s, r)
  BY <1>2, <1>4, SentOnlyTrans DEF Sound
<1> QED BY <1>4, <1>5, <1>9, <1>10, KeptTrans DEF Kept, t, r

-----------------------------------------------------------------------------
(* Acknowledgements: what is freed was accepted, so none of it was open. *)

LEMMA KeptFreed ==
  ASSUME NEW s, Sound(s), NEW c \in Chan, NEW a \in SeqNum,
         Room(s) => a <= s.nsent[c], dn_after(a, s.ackrcv[c]),
         NEW A \in Nat, c = "oth" => a <= A
  PROVE  Kept(s, Freed(s, c, a), A)
<1> DEFINE r == Freed(s, c, a)
<1>1. /\ Sound(r) /\ r.nsent = s.nsent /\ r.out = s.out /\ r.rcvq = s.rcvq
      /\ r.pending = s.pending /\ r.flowrem_oth = s.flowrem_oth
      /\ r.flowrem_sw = s.flowrem_sw /\ r.flowloc_sw = s.flowloc_sw
  BY FreedSound
<1>2. /\ \A d \in Chan \ {c} : r.xmitq[d] = s.xmitq[d]
      /\ \A e \in r.xmitq[c] : e \in s.xmitq[c]
      /\ Room(s) => \A e \in s.xmitq[c] : e \in r.xmitq[c] \/ e.pkt.id <= a
  BY FreedSound
<1> HIDE DEF r
<1>3. "oth" \in Chan /\ a \in Nat /\ r.xmitq["oth"] \subseteq s.xmitq["oth"]
  BY <1>2, SeqHalfAssumption DEF Chan, SeqNum, SeqMod
<1>4. ASSUME Room(s), NEW e \in s.xmitq["oth"], e.pkt.id > A
      PROVE  e \in r.xmitq["oth"]
  <2>1. e.pkt.id \in Nat
    BY <1>3, QueuedType DEF Sound
  <2>2. CASE c = "oth"
    BY <1>2, <1>3, <1>4, <2>1, <2>2
  <2>3. CASE c # "oth"
    BY <1>2, <1>3, <2>3
  <2> QED BY <2>2, <2>3
<1>5. ASSUME Room(s), NEW k PROVE Open(r, A, k) <=> Open(s, A, k)
  BY <1>3, <1>4, <1>5 DEF Open
<1>6. Waiting(s) => Waiting(r)
  BY <1>1, <1>3 DEF Waiting, Copies
<1>7. ASSUME Room(s)
      PROVE  /\ ToSend(r, A) = ToSend(s, A) /\ ToReturn(r, A) = ToReturn(s, A)
             /\ \A w : Told(s, A, w) => Told(r, A, w)
  BY <1>1, <1>5, <1>7 DEF ToSend, ToReturn, Told, Num
<1>8. ToSend(s, A) \in Nat /\ ToReturn(s, A) \in Nat /\ \A d \in Chan : s.nsent[d] \in Nat
  BY Counts DEF Sound
<1>9. Room(r) => Room(s)
  BY <1>1 DEF Room
<1> QED BY <1>1, <1>3, <1>6, <1>7, <1>8, <1>9 DEF Kept, Passed, Num, r

LEMMA KeptDnAck ==
  ASSUME NEW s, Sound(s), NEW c \in Chan, NEW a \in SeqNum,
         Room(s) => a <= s.nsent[c],
         NEW A \in Nat, A <= s.nsent["oth"], c = "oth" => a <= A
  PROVE  Kept(s, dn_ack(s, c, a), A)
<1> DEFINE s1 == Freed(s, c, a)
           s2 == IF c = "oth" THEN SchedulePending(s1, {}, FALSE) ELSE s1
<1>1. CASE dn_ack(s, c, a) = s
  BY <1>1, KeptNothing
<1>2. CASE dn_after(a, s.ackrcv[c]) /\ dn_ack(s, c, a) \in {s2, Output(s2)}
  <2>1. Sound(s1) /\ s1.nsent = s.nsent
    BY <1>2, FreedSound
  <2>2. Kept(s, s1, A)
    BY <1>2, KeptFreed
  <2> HIDE DEF s1
  <2>3. /\ Sound(SchedulePending(s1, {}, FALSE))
        /\ Kept(s1, SchedulePending(s1, {}, FALSE), A)
    BY <2>1, SchedulePendingSound, KeptSchedule
  <2>4. Sound(s2) /\ Kept(s, s2, A)
    BY <2>1, <2>2, <2>3, KeptTrans DEF Kept
  <2> HIDE DEF s2
  <2>5. Sound(Output(s2)) /\ Kept(s, Output(s2), A)
    BY <2>4, OutputSound, KeptOutput, KeptTrans DEF Kept
  <2> QED BY <1>2, <2>4, <2>5
<1> QED BY <1>1, <1>2, AckSteps

LEMMA KeptProcessAck ==
  ASSUME NEW s, Sound(s), NEW p \in Packet, Acceptable(p, s),
         NEW A \in Nat, A <= s.nsent["oth"], p.ack["oth"] <= A
  PROVE  Kept(s, ProcessAck(s, p), A)
<1> DEFINE c == ChanOf(p)
           d == OtherChan(c)
           t == dn_ack(s, c, p.ack[c])
           r == dn_ack(t, d, p.ack[d])
<1>1. c \in Chan /\ d \in Chan /\ c # d /\ Chan = {c, d} /\ "oth" \in Chan
  BY DEF ChanOf, OtherChan, Chan
<1>2. p.ack[c] \in SeqNum /\ p.ack[d] \in SeqNum
  BY <1>1 DEF Packet
<1> HIDE DEF c, d
<1>3. Sound(t) /\ AckedTo(s, t, c, p.ack[c])
  BY <1>1, <1>2, DnAckSound DEF Acceptable
<1>4. Kept(s, t, A)
  BY <1>1, <1>2, KeptDnAck DEF Acceptable
<1> HIDE DEF t
<1>5. ASSUME NEW e \in Chan
      PROVE  s.nsent[e] \in Nat /\ t.nsent[e] \in Nat /\ s.nsent[e] <= t.nsent[e]
             /\ p.ack[e] \in Nat /\ p.ack[e] <= s.nsent[e]
  <2>1. p.ack[e] \in Nat
    BY SeqHalfAssumption DEF Packet, SeqNum, SeqMod
  <2> QED BY <1>3, <2>1 DEF Sound, Typed, Scp, AckedTo, Acceptable
<1>6. p.ack[d] <= t.nsent[d] /\ A <= t.nsent["oth"]
  BY <1>1, <1>5
<1>7. Sound(r) /\ Kept(t, r, A)
  BY <1>1, <1>2, <1>3, <1>6, DnAckSound, KeptDnAck
<1> QED BY <1>3, <1>4, <1>7, KeptTrans DEF Kept, ProcessAck, r, t, c, d

-----------------------------------------------------------------------------
(* Reception *)

\* r is s after p: p was the next of other data and took effect, or nothing of
\* other data was accepted.
TookIn(s, r, p, A) ==
  \/ r.got["oth"] = s.got["oth"] /\ Kept(s, r, A)
  \/ /\ Other(p) /\ seq_next(s.num_rcv["oth"], p.seg)
     /\ r.got["oth"] = Append(s.got["oth"], p.id)
     /\ Passed(s, r, A, p.kind)

LEMMA TookInThenAck ==
  ASSUME NEW s, Sound(s), NEW r, Sound(r), NEW p, NEW A \in Nat,
         TookIn(s, r, p, A), NEW c \in Chan
  PROVE  TookIn(s, SendAck(r, c), p, A)
<1>1. /\ Sound(SendAck(r, c)) /\ SendAck(r, c).got = r.got
      /\ Kept(r, SendAck(r, c), A)
  BY SendAckSound, KeptSendAck DEF SentOnly
<1>2. ASSUME NEW k, Passed(s, r, A, k) PROVE Passed(s, SendAck(r, c), A, k)
  BY <1>1, <1>2, ThenKept
<1> QED BY <1>1, <1>2 DEF TookIn, Kept

\* Segments of data pass other data by.
LEMMA DataOther ==
  ASSUME NEW s, Sound(s), NEW p \in Packet, Acceptable(p, s), p.kind = "DATA",
         NEW A \in Nat, A <= s.nsent["oth"]
  PROVE  TookIn(s, dn_nsp_data(s, p), p, A)
<1> DEFINE next == seq_next(s.num_rcv["dat"], p.seg)
           queued == next /\ Rmem(s) < RcvBuf
           Good(r) == Sound(r) /\ Kept(s, r, A) /\ r.got["oth"] = s.got["oth"]
           s1 == IF queued
                 THEN [Accept(s, "dat", p) EXCEPT !.rcvq["dat"] = @ + 1] ELSE s
           s2 == IF next /\ s1.flowloc_sw = "SEND" /\ Congested(s1)
                 THEN SchedulePending([s1 EXCEPT !.flowloc_sw = "DONTSEND"],
                                      {"SW"}, FALSE)
                 ELSE s1
<1>1. "dat" \in Chan /\ "oth" \in Chan /\ "dat" = ChanOf(p) /\ p.kind \notin AckKind
  BY DEF Chan, ChanOf, AckKind
<1>2. Good(s1) /\ s1.nsent = s.nsent
  <2> DEFINE a == Accept(s, "dat", p)
             b == [a EXCEPT !.rcvq["dat"] = @ + 1]
  <2>1. CASE ~queued
    BY <2>1, KeptNothing
  <2>2. CASE queued
    <3>1. Sound(a)
      BY <1>1, <2>2, AcceptSound
    <3>2. /\ a.xmitq = s.xmitq /\ a.out = s.out /\ a.nsent = s.nsent
          /\ a.rcvq = s.rcvq /\ a.pending = s.pending
          /\ a.flowrem_oth = s.flowrem_oth /\ a.flowrem_sw = s.flowrem_sw
          /\ a.flowloc_sw = s.flowloc_sw /\ a.got["oth"] = s.got["oth"]
      BY <1>1 DEF Accept, Sound, Typed, Scp
    <3> HIDE DEF a
    <3>3. a.rcvq["dat"] + 1 \in Nat
      <4>1. s.rcvq["dat"] \in Nat
        BY <1>1 DEF Sound, Typed, Scp
      <4> QED BY <3>2, <4>1
    <3>4. Typed(b)
      BY <1>1, <3>1, <3>3, CounterUpdate DEF Sound
    <3>5. Sound(b)
      BY <3>1, <3>4, SoundSame DEF Sound, Typed, Scp
    <3>6. /\ b.xmitq = s.xmitq /\ b.out = s.out /\ b.nsent = s.nsent
          /\ b.rcvq["oth"] = s.rcvq["oth"] /\ b.pending = s.pending
          /\ b.flowrem_oth = s.flowrem_oth /\ b.flowrem_sw = s.flowrem_sw
          /\ b.flowloc_sw = s.flowloc_sw /\ b.got["oth"] = s.got["oth"]
      BY <1>1, <3>1, <3>2 DEF Sound, Typed, Scp
    <3>7. s1 = b
      BY <2>2 DEF a
    <3> HIDE DEF b, s1
    <3>8. Kept(s, b, A)
      BY <3>6, KeptSame
    <3> QED BY <3>5, <3>6, <3>7, <3>8
  <2> QED BY <2>1, <2>2
<1> HIDE DEF s1
<1>3. Good(s2)
  <2> DEFINE u == SchedulePending([s1 EXCEPT !.flowloc_sw = "DONTSEND"], {"SW"}, FALSE)
  <2>1. Kept(s1, u, A) /\ Sound(u) /\ SentOnly(s1, u)
    BY <1>2, KeptSwitch
  <2> HIDE DEF u
  <2>2. Kept(s, u, A) /\ u.got["oth"] = s.got["oth"]
    BY <1>2, <2>1, KeptTrans DEF Kept, SentOnly
  <2> QED BY <1>2, <2>1, <2>2 DEF u
<1> HIDE DEF s2
<1>4. TookIn(s, s2, p, A)
  BY <1>3 DEF TookIn
<1>5. TookIn(s, SendAck(s2, "dat"), p, A)
  BY <1>1, <1>3, <1>4, TookInThenAck
<1>6. dn_nsp_data(s, p) = IF queued /\ p.dly THEN s2 ELSE SendAck(s2, "dat")
  BY DEF dn_nsp_data, s1, s2
<1> QED BY <1>4, <1>5, <1>6

\* The effect of a message on the credit and on the switch, and nothing else
LEMMA PassedSame ==
  ASSUME NEW s, Sound(s), NEW r, NEW A \in Nat, NEW k,
         r.xmitq = s.xmitq, r.out = s.out, r.nsent = s.nsent,
         r.pending = s.pending, r.flowloc_sw = s.flowloc_sw,
         r.rcvq["oth"] = s.rcvq["oth"] + Num(k = "OD"),
         r.flowrem_oth = s.flowrem_oth + Num(k = "INTR"),
         r.flowrem_sw = IF k \in {"SEND", "DONTSEND"} THEN k ELSE s.flowrem_sw
  PROVE  Passed(s, r, A, k)
<1>1. \A l : Open(r, A, l) <=> Open(s, A, l)
  BY DEF Open
<1>2. \A w : Told(s, A, w) => Told(r, A, w)
  BY <1>1 DEF Told
<1>3. Waiting(s) => Waiting(r)
  BY DEF Waiting, Copies
<1>4. s.flowrem_oth \in Nat /\ s.rcvq["oth"] \in Nat /\ \A c \in Chan : s.nsent[c] \in Nat
  BY Counts DEF Sound
<1>5. ToSend(r, A) = ToSend(s, A) + Num(k = "INTR")
  BY <1>1, <1>4 DEF ToSend, Num
<1>6. ToReturn(r, A) = ToReturn(s, A) + Num(k = "OD")
  BY <1>1, <1>4 DEF ToReturn, Num
<1> QED BY <1>2, <1>3, <1>4, <1>5, <1>6 DEF Passed

LEMMA OtherdataOther ==
  ASSUME NEW s, Sound(s), NEW p \in Packet, Acceptable(p, s), p.kind = "OD",
         NEW A \in Nat
  PROVE  TookIn(s, dn_nsp_otherdata(s, p), p, A)
<1> DEFINE queued == seq_next(s.num_rcv["oth"], p.seg) /\ Rmem(s) < RcvBuf
           a == Accept(s, "oth", p)
           b == [a EXCEPT !.rcvq["oth"] = @ + 1, !.other_report = FALSE]
           s1 == IF queued THEN b ELSE s
<1>1. "oth" \in Chan /\ "oth" = ChanOf(p) /\ p.kind \notin AckKind /\ Other(p)
  BY DEF Chan, ChanOf, AckKind, Other
<1>2. TookIn(s, s, p, A)
  BY KeptNothing DEF TookIn
<1>3. ASSUME queued PROVE Sound(b) /\ TookIn(s, b, p, A)
  <2>1. Sound(a)
    BY <1>1, <1>3, AcceptSound
  <2>2. /\ a.xmitq = s.xmitq /\ a.out = s.out /\ a.nsent = s.nsent
        /\ a.rcvq = s.rcvq /\ a.pending = s.pending
        /\ a.flowrem_oth = s.flowrem_oth /\ a.flowrem_sw = s.flowrem_sw
        /\ a.flowloc_sw = s.flowloc_sw
        /\ a.got["oth"] = Append(s.got["oth"], p.id)
    BY <1>1 DEF Accept, Sound, Typed, Scp
  <2> HIDE DEF a
  <2>3. a.rcvq["oth"] + 1 \in Nat
    BY <1>1, <2>1 DEF Sound, Typed, Scp
  <2>4. Typed(b)
    BY <1>1, <2>1, <2>3, CounterUpdate DEF Sound
  <2>5. Sound(b)
    BY <2>1, <2>4, SoundSame DEF Sound, Typed, Scp
  <2>6. /\ b.xmitq = s.xmitq /\ b.out = s.out /\ b.nsent = s.nsent
        /\ b.rcvq["oth"] = s.rcvq["oth"] + 1 /\ b.pending = s.pending
        /\ b.flowrem_oth = s.flowrem_oth /\ b.flowrem_sw = s.flowrem_sw
        /\ b.flowloc_sw = s.flowloc_sw /\ b.got["oth"] = Append(s.got["oth"], p.id)
    BY <1>1, <2>1, <2>2 DEF Sound, Typed, Scp
  <2> HIDE DEF b
  <2>7. s.flowrem_oth \in Nat /\ Num(p.kind = "OD") = 1 /\ Num(p.kind = "INTR") = 0
    BY Counts DEF Num, Sound
  <2>8. /\ b.rcvq["oth"] = s.rcvq["oth"] + Num(p.kind = "OD")
        /\ b.flowrem_oth = s.flowrem_oth + Num(p.kind = "INTR")
        /\ b.flowrem_sw = IF p.kind \in {"SEND", "DONTSEND"} THEN p.kind ELSE s.flowrem_sw
    BY <2>6, <2>7
  <2>9. Passed(s, b, A, p.kind)
    BY <2>6, <2>8, PassedSame
  <2> QED BY <1>1, <1>3, <2>5, <2>6, <2>9 DEF TookIn
<1>4. Sound(s1) /\ TookIn(s, s1, p, A)
  BY <1>2, <1>3
<1> HIDE DEF s1
<1>5. TookIn(s, SendAck(s1, "oth"), p, A)
  BY <1>1, <1>4, TookInThenAck
<1> QED BY <1>5 DEF dn_nsp_otherdata, s1

LEMMA LinkserviceOther ==
  ASSUME NEW s, Sound(s), NEW p \in Packet, Acceptable(p, s),
         p.kind \in OthKind \ {"OD"}, NEW A \in Nat
  PROVE  TookIn(s, dn_nsp_linkservice(s, p), p, A)
<1> DEFINE next == seq_next(s.num_rcv["oth"], p.seg)
           s1 == Accept(s, "oth", p)
           dont == [s1 EXCEPT !.flowrem_sw = "DONTSEND"]
           send == [s1 EXCEPT !.flowrem_sw = "SEND"]
           credit == [s1 EXCEPT !.flowrem_oth = @ + 1]
           s2 == CASE p.kind = "NOCHANGE" -> s1
                   [] p.kind = "DONTSEND" -> dont
                   [] p.kind = "SEND" -> Output(send)
                   [] p.kind = "INTR" -> credit
           s3 == IF next THEN s2 ELSE s
           Good(r) == Sound(r) /\ r.got["oth"] = Append(s.got["oth"], p.id)
                        /\ Passed(s, r, A, p.kind)
<1>1. "oth" \in Chan /\ "oth" = ChanOf(p) /\ p.kind \notin AckKind /\ Other(p)
  BY DEF Chan, ChanOf, AckKind, OthKind, Other
<1>2. ASSUME next PROVE Good(s2)
  <2>1. Sound(s1)
    BY <1>1, <1>2, AcceptSound
  <2>2. /\ s1.xmitq = s.xmitq /\ s1.out = s.out /\ s1.nsent = s.nsent
        /\ s1.rcvq = s.rcvq /\ s1.pending = s.pending
        /\ s1.flowrem_oth = s.flowrem_oth /\ s1.flowrem_sw = s.flowrem_sw
        /\ s1.flowloc_sw = s.flowloc_sw
        /\ s1.got["oth"] = Append(s.got["oth"], p.id)
    BY <1>1 DEF Accept, Sound, Typed, Scp
  <2> HIDE DEF s1
  <2>3. s.flowrem_oth \in Nat /\ s.rcvq["oth"] \in Nat
    BY Counts DEF Sound
  <2>4. ASSUME NEW r, Typed(r), r.num = s1.num, r.num_rcv = s1.num_rcv,
               r.ackrcv = s1.ackrcv, r.xmitq = s1.xmitq, r.out = s1.out,
               r.nsent = s1.nsent, r.got = s1.got, r.pending = s1.pending,
               r.rcvq = s1.rcvq, r.flowloc_sw = s1.flowloc_sw,
               r.flowrem_oth = s1.flowrem_oth + Num(p.kind = "INTR"),
               r.flowrem_sw = IF p.kind \in {"SEND", "DONTSEND"} THEN p.kind
                              ELSE s1.flowrem_sw
        PROVE  Good(r)
    <3>1. Sound(r)
      BY <2>1, <2>4, SoundSame
    <3>2. r.rcvq["oth"] = s.rcvq["oth"] + Num(p.kind = "OD")
      BY <2>2, <2>3, <2>4 DEF Num
    <3>3. Passed(s, r, A, p.kind)
      BY <2>2, <2>4, <3>2, PassedSame
    <3> QED BY <2>2, <2>4, <3>1, <3>3
  <2> HIDE DEF Good
  <2>5. CASE p.kind = "NOCHANGE"
    <3>1. Num(p.kind = "INTR") = 0 /\ s1.flowrem_oth + 0 = s1.flowrem_oth /\ Typed(s1)
      BY <2>1, <2>2, <2>3, <2>5 DEF Num, Sound
    <3>2. Good(s1)
      BY <2>4, <2>5, <3>1
    <3> QED BY <2>5, <3>2
  <2>6. CASE p.kind = "DONTSEND"
    <3>1. Num(p.kind = "INTR") = 0 /\ s1.flowrem_oth + 0 = s1.flowrem_oth
      BY <2>2, <2>3, <2>6 DEF Num
    <3>2. /\ Typed(dont) /\ dont.num = s1.num /\ dont.num_rcv = s1.num_rcv
          /\ dont.ackrcv = s1.ackrcv /\ dont.xmitq = s1.xmitq /\ dont.out = s1.out
          /\ dont.nsent = s1.nsent /\ dont.got = s1.got /\ dont.pending = s1.pending
          /\ dont.rcvq = s1.rcvq /\ dont.flowloc_sw = s1.flowloc_sw
          /\ dont.flowrem_oth = s1.flowrem_oth /\ dont.flowrem_sw = "DONTSEND"
      BY <2>1 DEF Sound, Typed, Scp
    <3> HIDE DEF dont
    <3>3. Good(dont)
      BY <2>4, <2>6, <3>1, <3>2
    <3> QED BY <2>6, <3>3
  <2>7. CASE p.kind = "SEND"
    <3>1. Num(p.kind = "INTR") = 0 /\ s1.flowrem_oth + 0 = s1.flowrem_oth
      BY <2>2, <2>3, <2>7 DEF Num
    <3>2. /\ Typed(send) /\ send.num = s1.num /\ send.num_rcv = s1.num_rcv
          /\ send.ackrcv = s1.ackrcv /\ send.xmitq = s1.xmitq /\ send.out = s1.out
          /\ send.nsent = s1.nsent /\ send.got = s1.got /\ send.pending = s1.pending
          /\ send.rcvq = s1.rcvq /\ send.flowloc_sw = s1.flowloc_sw
          /\ send.flowrem_oth = s1.flowrem_oth /\ send.flowrem_sw = "SEND"
      BY <2>1 DEF Sound, Typed, Scp
    <3> HIDE DEF send
    <3>3. Good(send)
      BY <2>4, <2>7, <3>1, <3>2
    <3>4. Sound(send)
      BY <3>3 DEF Good
    <3>5. /\ Sound(Output(send)) /\ Output(send).got = send.got
          /\ Kept(send, Output(send), A)
      BY <3>4, OutputSound, KeptOutput DEF SentOnly
    <3>6. Passed(s, Output(send), A, p.kind)
      BY <3>3, <3>4, <3>5, ThenKept DEF Good
    <3> QED BY <2>7, <3>3, <3>5, <3>6 DEF Good
  <2>8. CASE p.kind = "INTR"
    <3>1. Num(p.kind = "INTR") = 1
      BY <2>8 DEF Num
    <3>2. s1.flowrem_oth + 1 \in Nat
      BY <2>2, <2>3
    <3>3. /\ credit.num = s1.num /\ credit.num_rcv = s1.num_rcv
          /\ credit.ackrcv = s1.ackrcv /\ credit.xmitq = s1.xmitq /\ credit.out = s1.out
          /\ credit.nsent = s1.nsent /\ credit.got = s1.got
          /\ credit.pending = s1.pending
          /\ credit.rcvq = s1.rcvq /\ credit.flowloc_sw = s1.flowloc_sw
          /\ credit.flowrem_oth = s1.flowrem_oth + 1
          /\ credit.flowrem_sw = s1.flowrem_sw
      BY <2>1 DEF Sound, Typed, Scp
    <3>4. Typed(credit)
      BY <1>1, <2>1, <3>2, CounterUpdate DEF Sound
    <3> HIDE DEF credit
    <3>5. Good(credit)
      BY <2>4, <2>8, <3>1, <3>3, <3>4
    <3> QED BY <2>8, <3>5
  <2> QED BY <2>5, <2>6, <2>7, <2>8 DEF OthKind
<1> HIDE DEF s2
<1>3. Sound(s3) /\ TookIn(s, s3, p, A)
  <2>1. CASE next
    BY <1>1, <1>2, <2>1 DEF TookIn
  <2>2. CASE ~next
    BY <2>2, KeptNothing DEF TookIn
  <2> QED BY <2>1, <2>2
<1> HIDE DEF s3
<1>4. TookIn(s, SendAck(s3, "oth"), p, A)
  BY <1>1, <1>3, TookInThenAck
<1> QED BY <1>4 DEF dn_nsp_linkservice, s1, s2, s3

LEMMA ReceiveOther ==
  ASSUME NEW s, Sound(s), NEW p \in Packet, Acceptable(p, s),
         NEW A \in Nat, A <= s.nsent["oth"], p.ack["oth"] <= A
  PROVE  TookIn(s, Receive(s, p), p, A)
<1> DEFINE s0 == [s EXCEPT !.state = "RUN"]
           s1 == ProcessAck(s0, p)
           r == Receive(s, p)
<1>1. /\ Sound(s0) /\ s0.nsent = s.nsent /\ s0.got = s.got /\ s0.num_rcv = s.num_rcv
      /\ Kept(s, s0, A)
  <2>1. Typed(s0)
    BY DEF Sound, Typed, Scp
  <2> QED BY <2>1, SoundSame, KeptSame DEF Sound, Typed, Scp
<1> HIDE DEF s0
<1>2. Sound(s1) /\ AckedBy(s0, s1, p) /\ Kept(s0, s1, A)
  BY <1>1, ProcessAckSound, KeptProcessAck DEF Acceptable
<1> HIDE DEF s1
<1>3. Kept(s, s1, A) /\ s1.got = s.got /\ s1.num_rcv = s.num_rcv
  BY <1>1, <1>2, KeptTrans DEF Kept, AckedBy
<1>4. Acceptable(p, s1) /\ A <= s1.nsent["oth"]
  <2>1. ASSUME NEW d \in Chan
        PROVE  /\ p.ack[d] <= s1.nsent[d]
               /\ s.nsent[d] <= s1.nsent[d] /\ s.nsent[d] \in Nat /\ s1.nsent[d] \in Nat
    <3>1. p.ack[d] \in Int /\ s.nsent[d] \in Nat /\ s1.nsent[d] \in Nat
      BY <1>2, SeqHalfAssumption DEF Packet, SeqNum, SeqMod, Sound, Typed, Scp
    <3>2. p.ack[d] <= s.nsent[d] /\ s.nsent[d] <= s1.nsent[d]
      BY <1>1, <1>2 DEF Acceptable, AckedBy
    <3> QED BY <3>1, <3>2
  <2>2. A <= s1.nsent["oth"]
    BY <2>1 DEF Chan
  <2> QED BY <2>1, <2>2 DEF Acceptable
<1>5. r = CASE p.kind = "DATA" -> dn_nsp_data(s1, p)
            [] p.kind = "OD" -> dn_nsp_otherdata(s1, p)
            [] p.kind \in OthKind \ {"OD"} -> dn_nsp_linkservice(s1, p)
            [] p.kind \in AckKind -> s1
  BY DEF Receive, s1, s0
<1>6. Sound(r)
  BY ReceiveSound
<1> HIDE DEF r
<1>7. TookIn(s1, r, p, A)
  <2>1. CASE p.kind = "DATA"
    BY <1>2, <1>4, <1>5, <2>1, DataOther DEF OthKind, AckKind
  <2>2. CASE p.kind = "OD"
    BY <1>2, <1>4, <1>5, <2>2, OtherdataOther DEF OthKind, AckKind
  <2>3. CASE p.kind \in OthKind \ {"OD"}
    BY <1>2, <1>4, <1>5, <2>3, LinkserviceOther DEF OthKind, AckKind
  <2>4. CASE p.kind \in AckKind
    <3>1. r = s1
      BY <1>5, <2>4 DEF OthKind, AckKind
    <3> QED BY <1>2, <3>1, KeptNothing DEF TookIn
  <2> QED BY <2>1, <2>2, <2>3, <2>4 DEF Packet, Kind
<1>8. ASSUME NEW k, Passed(s1, r, A, k) PROVE Passed(s, r, A, k)
  BY <1>2, <1>3, <1>6, <1>8, KeptTrans
<1> QED BY <1>3, <1>7, <1>8 DEF TookIn, Kept, r

-----------------------------------------------------------------------------
(* User calls and timers.  Those that queue other data look at the queue     *)
(* first.                                                                    *)

LEMMA SendDataOther ==
  ASSUME NEW s, Sound(s), NEW more \in BOOLEAN, NEW idle \in BOOLEAN,
         NEW A \in Nat
  PROVE  Kept(s, SendData(s, more, idle), A)
<1> DEFINE allowed == IF DlySeq < s.snd_window THEN DlySeq ELSE s.snd_window
           dly == more /\ s.delayedacks + 1 < allowed
           r == [s EXCEPT !.delayedacks = IF dly THEN @ + 1 ELSE 0,
                          !.persist = TRUE]
<1>1. dly \in BOOLEAN
  OBVIOUS
<1>2. (IF dly THEN s.delayedacks + 1 ELSE 0) \in 0 .. (MaxWindow - 1)
  BY WindowAssumption, SeqHalfAssumption, DlySeqAssumption
  DEF Sound, Typed, Scp, MinWindow
<1> HIDE DEF dly
<1>3. Typed(r)
  BY <1>2 DEF Sound, Typed, Scp
<1>4. Sound(r) /\ Kept(s, r, A)
  BY <1>3, SoundSame, KeptSame DEF Sound, Typed, Scp
<1> HIDE DEF r
<1>5. /\ Sound(QueueXmit(r, "dat", "DATA", dly, idle))
      /\ Kept(r, QueueXmit(r, "dat", "DATA", dly, idle), A)
  BY <1>1, <1>4, QueueXmitSound, KeptSendData DEF Kind, AckKind, Chan, ChanOf
<1> QED BY <1>4, <1>5, KeptTrans DEF Kept, SendData, dly, r

\* The credit goes into the message.
LEMMA SendOtherOther ==
  ASSUME NEW s, Sound(s), s.flowrem_oth > 0, s.xmitq["oth"] = {},
         NEW idle \in BOOLEAN, NEW A \in Nat, A <= s.nsent["oth"]
  PROVE  Kept(s, SendOther(s, idle), A)
<1> DEFINE b == [s EXCEPT !.flowrem_oth = @ - 1, !.persist = TRUE]
           r == QueueXmit(b, "oth", "OD", FALSE, idle)
<1>1. s.flowrem_oth - 1 \in Nat /\ s.flowrem_oth \in Nat /\ "oth" \in Chan
  BY DEF Chan, Sound, Typed, Scp
<1>2. /\ b.flowrem_oth = s.flowrem_oth - 1
      /\ b.xmitq = s.xmitq /\ b.out = s.out /\ b.rcvq = s.rcvq
      /\ b.pending = s.pending /\ b.flowrem_sw = s.flowrem_sw
      /\ b.flowloc_sw = s.flowloc_sw /\ b.nsent = s.nsent
      /\ b.num = s.num /\ b.num_rcv = s.num_rcv /\ b.ackrcv = s.ackrcv /\ b.got = s.got
  BY DEF Sound, Typed, Scp
<1>3. Typed(b)
  BY <1>1, CounterUpdate DEF Sound
<1> HIDE DEF b
<1>4. Sound(b)
  BY <1>2, <1>3, SoundSame
<1>5. Queues(b, r, "OD")
  BY <1>2, <1>4, QueuesOther DEF OthKind
<1> HIDE DEF r
<1>6. /\ \A k : ~Open(b, A, k) /\ (Open(r, A, k) <=> k = "OD")
      /\ \A c \in Chan : b.nsent[c] <= r.nsent[c]
      /\ Waiting(b) => Waiting(r)
      /\ \A e \in r.xmitq["oth"] : e.pkt.id > b.nsent["oth"]
  BY <1>2, <1>4, <1>5, QueuesOpen
<1>7. \A k : ~Open(s, A, k)
  BY <1>2, <1>6 DEF Open
<1>8. Waiting(s) => Waiting(b)
  BY <1>2 DEF Waiting, Copies
<1>9. /\ r.pending = s.pending /\ r.rcvq = s.rcvq
      /\ r.flowrem_oth = s.flowrem_oth - 1
      /\ r.flowrem_sw = s.flowrem_sw /\ r.flowloc_sw = s.flowloc_sw
  BY <1>2, <1>5 DEF Queues
<1>10. ToSend(r, A) = ToSend(s, A) /\ ToReturn(r, A) = ToReturn(s, A)
  <2>1. Open(r, A, "OD") /\ ~Open(r, A, "INTR")
    BY <1>6
  <2>2. ~Open(s, A, "OD") /\ ~Open(s, A, "INTR")
    BY <1>7
  <2> QED BY <1>1, <1>9, <2>1, <2>2 DEF ToSend, ToReturn, Num
<1>11. \A w : Told(s, A, w) => Told(r, A, w)
  BY <1>6, <1>7, <1>9 DEF Told
<1>12. ToSend(s, A) \in Nat /\ ToReturn(s, A) \in Nat
  BY Counts DEF Sound
<1>13. Kept(s, r, A)
  BY <1>2, <1>6, <1>8, <1>9, <1>10, <1>11, <1>12 DEF Kept, Passed, Num
<1> QED BY <1>13 DEF SendOther, r, b

LEMMA KeepaliveOther ==
  ASSUME NEW s, Sound(s), s.xmitq["oth"] = {}, NEW idle \in BOOLEAN,
         NEW A \in Nat, A <= s.nsent["oth"]
  PROVE  Kept(s, SendLink(s, "NOCHANGE", idle), A)
<1> DEFINE r == SendLink(s, "NOCHANGE", idle)
<1>1. Queues(s, r, "NOCHANGE")
  BY QueuesLink DEF OthKind
<1> HIDE DEF r
<1>2. /\ \A k : ~Open(s, A, k) /\ (Open(r, A, k) <=> k = "NOCHANGE")
      /\ \A c \in Chan : s.nsent[c] <= r.nsent[c]
      /\ Waiting(s) => Waiting(r)
      /\ \A e \in r.xmitq["oth"] : e.pkt.id > s.nsent["oth"]
  BY <1>1, QueuesOpen
<1>3. /\ r.pending = s.pending /\ r.rcvq = s.rcvq /\ r.flowrem_oth = s.flowrem_oth
      /\ r.flowrem_sw = s.flowrem_sw /\ r.flowloc_sw = s.flowloc_sw
  BY <1>1 DEF Queues
<1>4. \A k \in {"OD", "INTR", "SEND", "DONTSEND"} : ~Open(r, A, k) /\ ~Open(s, A, k)
  BY <1>2
<1>5. /\ ToSend(r, A) = ToSend(s, A) /\ ToReturn(r, A) = ToReturn(s, A)
      /\ \A w : Told(s, A, w) => Told(r, A, w)
  BY <1>3, <1>4 DEF ToSend, ToReturn, Told, Num
<1>6. ToSend(s, A) \in Nat /\ ToReturn(s, A) \in Nat
  BY Counts DEF Sound
<1> QED BY <1>2, <1>3, <1>5, <1>6 DEF Kept, Passed, Num, r

LEMMA RecvDataOther ==
  ASSUME NEW s, Sound(s), s.rcvq["dat"] > 0, NEW idle \in BOOLEAN,
         NEW A \in Nat, A <= s.nsent["oth"]
  PROVE  Kept(s, RecvData(s, idle), A)
<1> DEFINE r == [s EXCEPT !.rcvq["dat"] = @ - 1]
           u == SchedulePending([r EXCEPT !.flowloc_sw = "SEND"], {"SW"}, idle)
<1>1. s.rcvq["dat"] - 1 \in Nat /\ "dat" \in Chan /\ "oth" \in Chan
  BY DEF Sound, Typed, Scp, Chan
<1>2. Typed(r)
  BY <1>1, CounterUpdate DEF Sound
<1>3. Sound(r) /\ Kept(s, r, A) /\ r.nsent = s.nsent
  BY <1>1, <1>2, SoundSame, KeptSame DEF Sound, Typed, Scp
<1> HIDE DEF r
<1>4. Sound(u) /\ Kept(r, u, A)
  BY <1>3, KeptSwitch
<1> HIDE DEF u
<1>5. Kept(s, u, A)
  BY <1>3, <1>4, KeptTrans DEF Kept
<1>6. RecvData(s, idle)
        = IF r.flowloc_sw = "DONTSEND" /\ ~Congested(r) THEN u ELSE r
  BY DEF RecvData, r, u
<1> QED BY <1>3, <1>5, <1>6

\* The credit that was read is due to go back; it was the only one here.
LEMMA RecvOtherOther ==
  ASSUME NEW s, Sound(s), s.rcvq["oth"] > 0, NEW idle \in BOOLEAN,
         NEW A \in Nat, A <= s.nsent["oth"], ToReturn(s, A) <= 1
  PROVE  Kept(s, RecvOther(s, idle), A)
<1> DEFINE t == [s EXCEPT !.rcvq["oth"] = @ - 1]
           d == Due(t, {"INTR"})
           r == SchedulePending(t, {"INTR"}, idle)
<1>1. s.rcvq["oth"] - 1 \in Nat /\ s.rcvq["oth"] \in Nat /\ "oth" \in Chan
  BY DEF Sound, Typed, Scp, Chan
<1>2. Typed(t)
  BY <1>1, CounterUpdate DEF Sound
<1>3. Sound(t) /\ t.nsent = s.nsent
  BY <1>2, SoundSame DEF Sound, Typed, Scp
<1>4. /\ d.pending = s.pending \cup {"INTR"} /\ d.rcvq["oth"] = s.rcvq["oth"] - 1
      /\ d.xmitq = s.xmitq /\ d.out = s.out
      /\ d.flowrem_oth = s.flowrem_oth /\ d.flowrem_sw = s.flowrem_sw
      /\ d.flowloc_sw = s.flowloc_sw /\ d.nsent = s.nsent
  BY <1>1 DEF Due, Sound, Typed, Scp
<1> HIDE DEF t
<1>5. Sound(d) /\ Sound(r) /\ Kept(d, r, A)
  BY <1>3, DueSound, SchedulePendingSound, KeptSchedulePending
<1> HIDE DEF d, r
<1>6. \A k : Open(d, A, k) <=> Open(s, A, k)
  BY <1>4 DEF Open
<1>7. "INTR" \notin s.pending /\ ~Open(s, A, "INTR")
  BY <1>1 DEF ToReturn, Num
<1>8. ToReturn(d, A) = ToReturn(s, A)
  <2>1. "INTR" \in d.pending /\ ~Open(d, A, "INTR")
    BY <1>4, <1>6, <1>7
  <2> QED BY <1>1, <1>4, <1>7, <2>1 DEF ToReturn, Num
<1>9. /\ ToSend(d, A) = ToSend(s, A)
      /\ \A w : Told(s, A, w) => Told(d, A, w)
      /\ Waiting(s) => Waiting(d)
  BY <1>4, <1>6 DEF ToSend, Told, Num, Waiting, Copies
<1>10. ToSend(s, A) \in Nat /\ ToReturn(s, A) \in Nat /\ \A c \in Chan : s.nsent[c] \in Nat
  BY Counts DEF Sound
<1>11. Kept(s, d, A)
  BY <1>4, <1>8, <1>9, <1>10 DEF Kept, Passed, Num
<1> QED BY <1>5, <1>11, KeptTrans DEF Kept, RecvOther, r, t

LEMMA XmitTimeoutOther ==
  ASSUME NEW s, Sound(s), NEW A \in Nat
  PROVE  Kept(s, XmitTimeout(s), A)
<1> DEFINE r == Output(s)
           t == [r EXCEPT !.persist = \E c \in Chan : r.xmitq[c] # {}]
<1>1. Sound(r) /\ Kept(s, r, A)
  BY OutputSound, KeptOutput
<1> HIDE DEF r
<1>2. Typed(t)
  BY <1>1 DEF Sound, Typed, Scp
<1>3. Sound(t) /\ Kept(r, t, A)
  BY <1>1, <1>2, SoundSame, KeptSame DEF Sound, Typed, Scp
<1> QED BY <1>1, <1>3, KeptTrans DEF Kept, XmitTimeout, r

LEMMA ConnConfOther ==
  ASSUME NEW s, Sound(s), NEW A \in Nat, A <= s.nsent["oth"]
  PROVE  Kept(s, ConnConf(s), A)
<1> DEFINE r == [s EXCEPT !.state = "RUN"]
           t == SchedulePending(r, {"IDLE"}, FALSE)
<1>1. Typed(r)
  BY DEF Sound, Typed, Scp
<1>2. Sound(r) /\ Kept(s, r, A) /\ r.nsent = s.nsent
  BY <1>1, SoundSame, KeptSame DEF Sound, Typed, Scp
<1> HIDE DEF r
<1>3. Sound(t) /\ Kept(r, t, A)
  BY <1>2, SchedulePendingSound, KeptSchedule
<1> QED BY <1>2, <1>3, KeptTrans DEF Kept, ConnConf, r, t

-----------------------------------------------------------------------------
(* The two ends *)

\* n's socket becomes s by a handler that accepts no other data, or by one
\* that was given p.
Moves(n, s) ==
  \/ s.got["oth"] = scp[n].got["oth"] /\ Kept(scp[n], s, Accepted(n))
  \/ \E p \in net[Peer(n)] : TookIn(scp[n], s, p, Accepted(n))

LEMMA AcceptedCount ==
  ASSUME Inv, NEW n \in Node
  PROVE  Accepted(n) \in Nat /\ Accepted(n) <= scp[n].nsent["oth"]
           /\ scp[n].nsent["oth"] \in Nat
<1>1. Peer(n) \in Node
  BY PeerType
<1>2. LinkInv(n) /\ SocketInv(Peer(n)) /\ SocketInv(n)
  BY <1>1 DEF Inv
<1>3. "oth" \in Chan /\ scp[Peer(n)].got["oth"] \in Seq(Nat) /\ scp[n].nsent["oth"] \in Nat
  BY <1>2 DEF Chan, SocketInv, Typed, Scp
<1> QED BY <1>2, <1>3 DEF LinkInv, Accepted

\* What an end accepts is the one message that the other has under way.
LEMMA AcceptedIsOpen ==
  ASSUME OInv, NEW n \in Node, NEW p \in net[Peer(n)], Other(p),
         seq_next(scp[n].num_rcv["oth"], p.seg)
  PROVE  LET m == Peer(n)
             B == Accepted(m)
         IN  /\ p.id = B + 1 /\ p.kind \in OthKind
             /\ \A k : (Open(scp[m], B, k) <=> k = p.kind) /\ ~Open(scp[m], B + 1, k)
<1> DEFINE m == Peer(n)
           B == Accepted(m)
           q == scp[m].xmitq["oth"]
<1>1. m \in Node /\ Peer(m) = n /\ "oth" \in Chan /\ Inv
  BY PeerType DEF Chan, OInv
<1>2. p \in Packet /\ Stamped(p, scp[m])
  BY <1>1, FlightAcceptable
<1>3. SocketInv(n) /\ SocketInv(m) /\ LinkInv(m) /\ OtherInv(m)
  BY <1>1 DEF Inv, OInv
<1>4. B = Len(scp[n].got["oth"]) /\ B \in Nat /\ B <= scp[m].nsent["oth"]
      /\ scp[m].nsent["oth"] \in Nat
  BY <1>1, AcceptedCount DEF Accepted
<1>5. p.seg = p.id /\ p.id \in 1 .. scp[m].nsent["oth"]
  BY <1>2 DEF Other, Stamped
<1>6. p.id = B + 1
  <2>1. scp[n].num_rcv["oth"] = B /\ scp[m].nsent["oth"] < SeqHalf
    BY <1>1, <1>3, <1>4 DEF SocketInv, Core, RcvSound, Room
  <2> QED BY <1>4, <1>5, <2>1, SeqHalfAssumption DEF seq_next, seq_add1, SeqMod
<1>7. p.kind \in OthKind
  BY <1>2 DEF Other, Packet, Kind, ChanOf
<1>8. PICK e \in q : e.pkt.id = B + 1
  <2>1. QueueSound(scp[m], "oth") /\ scp[m].ackrcv["oth"] <= B
    BY <1>1, <1>3, <1>4 DEF SocketInv, Core, LinkInv
  <2>2. scp[m].ackrcv["oth"] \in Nat
    BY <1>1, <1>3, SeqHalfAssumption DEF SocketInv, Typed, Scp, SeqNum, SeqMod
  <2>3. B + 1 \in (scp[m].ackrcv["oth"] + 1) .. scp[m].nsent["oth"]
    BY <1>4, <1>5, <1>6, <2>1, <2>2
  <2> QED BY <2>1, <2>3 DEF QueueSound
<1>9. \A f \in q : f = e
  BY <1>3, <1>8 DEF OtherInv, Waiting
<1>10. e.pkt.kind = p.kind
  BY <1>3, <1>6, <1>8 DEF OtherInv, Copies
<1>11. \A k : Open(scp[m], B, k) <=> k = p.kind
  BY <1>4, <1>8, <1>9, <1>10 DEF Open
<1>12. \A k : ~Open(scp[m], B + 1, k)
  <2>1. \A f \in q : f.pkt.id = B + 1
    BY <1>8, <1>9
  <2>2. ~(B + 1 > B + 1)
    BY <1>4
  <2> QED BY <2>1, <2>2 DEF Open
<1> HIDE DEF m, B
<1> QED BY <1>6, <1>7, <1>11, <1>12 DEF m, B

\* Taking the packets a handler has sent changes nothing else.
LEMMA Drained ==
  ASSUME NEW s, Typed(s), NEW A
  PROVE  LET r == [s EXCEPT !.out = <<>>]
         IN  /\ r.xmitq = s.xmitq /\ r.nsent = s.nsent /\ r.got = s.got
             /\ r.flowrem_sw = s.flowrem_sw
             /\ ToSend(r, A) = ToSend(s, A) /\ ToReturn(r, A) = ToReturn(s, A)
             /\ \A w : Told(r, A, w) <=> Told(s, A, w)
             /\ Waiting(s) => Waiting(r)
<1> DEFINE r == [s EXCEPT !.out = <<>>]
<1>1. /\ r.xmitq = s.xmitq /\ r.nsent = s.nsent /\ r.got = s.got
      /\ r.flowrem_sw = s.flowrem_sw /\ r.flowloc_sw = s.flowloc_sw
      /\ r.flowrem_oth = s.flowrem_oth /\ r.rcvq = s.rcvq
      /\ r.pending = s.pending /\ r.out = <<>>
  BY DEF Typed, Scp
<1> HIDE DEF r
<1>2. \A k : Open(r, A, k) <=> Open(s, A, k)
  BY <1>1 DEF Open
<1>3. Waiting(s) => Waiting(r)
  BY <1>1 DEF Waiting, Copies, Packets
<1> QED BY <1>1, <1>2, <1>3 DEF ToSend, ToReturn, Told, Num, r

\* k is the kind that the step accepts, if any; B is how much n has then
\* accepted.
Accepts(n, s, k, B) ==
  LET m == Peer(n)
      C == Accepted(m)
  IN  /\ Passed(scp[n], s, Accepted(n), k)
      /\ Len(s.got["oth"]) = B
      /\ \/ k = "none" /\ B = C
         \/ /\ k \in OthKind /\ B = C + 1
            /\ \A j : (Open(scp[m], C, j) <=> j = k) /\ ~Open(scp[m], B, j)

LEMMA MoveAccepts ==
  ASSUME OInv, NEW n \in Node, NEW s, Moves(n, s)
  PROVE  \E k, B : Accepts(n, s, k, B)
<1> DEFINE m == Peer(n)
           C == Accepted(m)
<1>1. m \in Node /\ Peer(m) = n /\ Inv
  BY PeerType DEF OInv
<1>2. C = Len(scp[n].got["oth"])
  BY <1>1 DEF Accepted
<1>3. CASE s.got["oth"] = scp[n].got["oth"] /\ Kept(scp[n], s, Accepted(n))
  <2>1. Accepts(n, s, "none", C)
    BY <1>2, <1>3 DEF Accepts, Kept
  <2> QED BY <2>1
<1>4. ASSUME NEW p \in net[m], Other(p), seq_next(scp[n].num_rcv["oth"], p.seg),
             s.got["oth"] = Append(scp[n].got["oth"], p.id),
             Passed(scp[n], s, Accepted(n), p.kind)
      PROVE  Accepts(n, s, p.kind, C + 1)
  <2>1. /\ p.kind \in OthKind
        /\ \A k : (Open(scp[m], C, k) <=> k = p.kind) /\ ~Open(scp[m], C + 1, k)
    BY <1>4, AcceptedIsOpen
  <2>2. scp[n].got["oth"] \in Seq(Nat)
    <3>1. scp[n] \in Scp
      BY <1>1 DEF Inv, SocketInv, Typed
    <3>2. scp[n].got \in [Chan -> Seq(Nat)] /\ "oth" \in Chan
      BY <3>1 DEF Scp, Chan
    <3> QED BY <3>2
  <2>3. Len(s.got["oth"]) = C + 1
    BY <1>2, <1>4, <2>2
  <2> QED BY <1>4, <2>1, <2>3 DEF Accepts
<1> QED BY <1>3, <1>4 DEF Moves, TookIn, m

\* What acceptance takes from the end that sent the message.
LEMMA AcceptedFrom ==
  ASSUME OInv, NEW n \in Node, NEW s, NEW k, NEW B, Accepts(n, s, k, B)
  PROVE  LET m == Peer(n)
             C == Accepted(m)
         IN  /\ B \in Nat
             /\ ToSend(scp[m], B) = ToSend(scp[m], C) - Num(k = "OD")
             /\ ToReturn(scp[m], B) = ToReturn(scp[m], C) - Num(k = "INTR")
             /\ \A w : Told(scp[m], C, w) =>
                  Told(scp[m], B, IF k \in {"SEND", "DONTSEND"} THEN k ELSE w)
<1> DEFINE m == Peer(n)
           C == Accepted(m)
           t == scp[m]
<1>1. m \in Node /\ Inv
  BY PeerType DEF OInv
<1>2. C \in Nat
  BY <1>1, AcceptedCount
<1>3. ToSend(t, C) \in Nat /\ ToReturn(t, C) \in Nat
        /\ t.flowrem_oth \in Nat /\ t.rcvq["oth"] \in Nat
  <2>1. Typed(t)
    BY <1>1 DEF Inv, SocketInv
  <2> QED BY <1>2, <2>1, Counts
<1>4. CASE k = "none" /\ B = C
  BY <1>2, <1>3, <1>4 DEF Num
<1>5. CASE /\ k \in OthKind /\ B = C + 1
           /\ \A j : (Open(t, C, j) <=> j = k) /\ ~Open(t, B, j)
  <2> HIDE DEF t, C, m
  <2>1. ToSend(t, B) = ToSend(t, C) - Num(k = "OD")
    BY <1>3, <1>5 DEF ToSend, Num
  <2>2. ToReturn(t, B) = ToReturn(t, C) - Num(k = "INTR")
    <3>1. Num(Open(t, B, "INTR")) = 0 /\ Num(Open(t, C, "INTR")) = Num(k = "INTR")
      BY <1>5 DEF Num
    <3>2. Num("INTR" \in t.pending) \in Nat /\ Num(k = "INTR") \in Nat
      BY DEF Num
    <3> QED BY <1>3, <3>1, <3>2 DEF ToReturn
  <2>3. \A w : Told(t, C, w) =>
          Told(t, B, IF k \in {"SEND", "DONTSEND"} THEN k ELSE w)
    BY <1>5 DEF Told
  <2>4. B \in Nat
    BY <1>2, <1>5
  <2> QED BY <2>1, <2>2, <2>3, <2>4 DEF t, C, m
<1> QED BY <1>4, <1>5 DEF Accepts

LEMMA StepOther ==
  ASSUME OInv, NEW n \in Node, NEW s, Sound(s), Evolved(n, s), Step(n, s),
         Moves(n, s)
  PROVE  \A j \in Node : OtherInv(j)'
<1> DEFINE m == Peer(n)
           r == [s EXCEPT !.out = <<>>]
           t == scp[m]
           A == Accepted(n)
           C == Accepted(m)
<1>1. m \in Node /\ m # n /\ Peer(m) = n /\ Node = {n, m} /\ Inv
  BY PeerType DEF OInv
<1>2. /\ scp'[n] = r /\ scp'[m] = t
      /\ net'[n] = net[n] \cup Packets(s.out) /\ net'[m] = net[m]
      /\ \A c \in Chan : s.nsent[c] <= MaxSeg[n][c]
  BY <1>1 DEF Step, Inv
<1>3. Room(s)
  <2>1. \A c \in Chan : s.nsent[c] \in Int /\ MaxSeg[n][c] \in Int
    BY MaxSegAssumption DEF Sound, Typed, Scp
  <2> QED BY <1>2, <2>1, MaxSegAssumption, SeqHalfAssumption DEF Room
<1>4. PICK k, B : Accepts(n, s, k, B)
  BY MoveAccepts
<1>5. OtherInv(n) /\ OtherInv(m) /\ FlightInv(n) /\ SocketInv(n)
  BY <1>1 DEF OInv, Inv
<1>6. /\ Waiting(s)
      /\ \A e \in s.xmitq["oth"] : \/ e.pkt.id > scp[n].nsent["oth"]
                                   \/ \E f \in scp[n].xmitq["oth"] : f.pkt = e.pkt
      /\ ToSend(s, A) = ToSend(scp[n], A) + Num(k = "INTR")
      /\ ToReturn(s, A) = ToReturn(scp[n], A) + Num(k = "OD")
      /\ s.flowrem_sw = IF k \in {"SEND", "DONTSEND"} THEN k ELSE scp[n].flowrem_sw
      /\ \A w : Told(scp[n], A, w) => Told(s, A, w)
  BY <1>3, <1>4, <1>5 DEF Accepts, Passed, OtherInv
<1>7. /\ r.xmitq = s.xmitq /\ r.nsent = s.nsent /\ r.got = s.got
      /\ r.flowrem_sw = s.flowrem_sw
      /\ ToSend(r, A) = ToSend(s, A) /\ ToReturn(r, A) = ToReturn(s, A)
      /\ \A w : Told(r, A, w) <=> Told(s, A, w)
      /\ Waiting(r)
  BY <1>6, Drained DEF Sound
<1>8. /\ ToSend(t, B) = ToSend(t, C) - Num(k = "OD")
      /\ ToReturn(t, B) = ToReturn(t, C) - Num(k = "INTR")
      /\ \A w : Told(t, C, w) =>
           Told(t, B, IF k \in {"SEND", "DONTSEND"} THEN k ELSE w)
  BY <1>4, AcceptedFrom
<1>9. Accepted(n)' = A /\ Accepted(m)' = B
  BY <1>1, <1>2, <1>4, <1>7 DEF Accepted, Accepts
<1>10. /\ ToSend(scp[n], A) \in Nat /\ ToReturn(scp[n], A) \in Nat
       /\ ToSend(t, C) \in Nat /\ ToReturn(t, C) \in Nat
       /\ Num(k = "OD") \in Nat /\ Num(k = "INTR") \in Nat
  <2>1. A \in Nat /\ C \in Nat
    BY <1>1, AcceptedCount
  <2>2. Typed(scp[n]) /\ Typed(t)
    BY <1>1 DEF Inv, SocketInv
  <2> QED BY <2>1, <2>2, Counts DEF Num
<1>11. Copies(r, net[n] \cup Packets(s.out))
  <2> SUFFICES ASSUME NEW p \in net[n] \cup Packets(s.out), NEW e \in s.xmitq["oth"],
                      Other(p), p.id = e.pkt.id
               PROVE  p.kind = e.pkt.kind
    BY <1>7 DEF Copies
  <2>1. CASE p \in Packets(s.out)
    BY <1>6, <2>1 DEF Waiting, Copies
  <2>2. CASE p \in net[n]
    <3>1. p \in Packet /\ p.id \in 1 .. scp[n].nsent["oth"]
      BY <1>1, <1>5, <2>2 DEF FlightInv, Stamped, Other, Inv
    <3>2. scp[n].nsent["oth"] \in Nat
      BY <1>1, AcceptedCount
    <3>3. ~(e.pkt.id > scp[n].nsent["oth"])
      BY <3>1, <3>2
    <3>4. PICK f \in scp[n].xmitq["oth"] : f.pkt = e.pkt
      BY <1>6, <3>3
    <3> QED BY <1>5, <2>2, <3>4 DEF OtherInv, Copies
  <2> QED BY <2>1, <2>2
<1>12. /\ ToSend(scp[n], A) + ToReturn(t, C) = 1 /\ Told(t, C, scp[n].flowrem_sw)
       /\ ToSend(t, C) + ToReturn(scp[n], A) = 1 /\ Told(scp[n], A, t.flowrem_sw)
       /\ Waiting(t) /\ Copies(t, net[m])
  BY <1>1, <1>5 DEF OtherInv
<1> HIDE DEF r, t, A, C, m
<1>13. ToSend(r, A) + ToReturn(t, B) = 1 /\ ToSend(t, B) + ToReturn(r, A) = 1
  BY <1>6, <1>7, <1>8, <1>10, <1>12
<1>14. Told(t, B, r.flowrem_sw) /\ Told(r, A, t.flowrem_sw)
  BY <1>6, <1>7, <1>8, <1>12
<1> USE DEF m
<1>15. OtherInv(n)'
  BY <1>1, <1>2, <1>7, <1>9, <1>11, <1>13, <1>14 DEF OtherInv
<1>16. OtherInv(m)'
  BY <1>1, <1>2, <1>9, <1>12, <1>13, <1>14 DEF OtherInv
<1> QED BY <1>1, <1>15, <1>16

-----------------------------------------------------------------------------
(* Every action *)

LEMMA NextMoves ==
  ASSUME OInv, Next
  PROVE  \E n \in Node : \E s : Sound(s) /\ Evolved(n, s) /\ Step(n, s) /\ Moves(n, s)
<1> DEFINE Goal(n) == \E s : Sound(s) /\ Evolved(n, s) /\ Step(n, s) /\ Moves(n, s)
<1>1. PICK n \in Node : \/ Deliver(n)   \/ SendMsg(n) \/ SendOob(n)
                        \/ ReportOob(n) \/ RecvMsg(n) \/ RecvOob(n)
                        \/ PersistTimer(n) \/ Keepalive(n)
  BY DEF Next
<1>2. Inv /\ Sound(scp[n])
  BY DEF OInv, Inv, SocketInv, Sound
<1>3. Accepted(n) \in Nat /\ Accepted(n) <= scp[n].nsent["oth"]
  BY <1>2, AcceptedCount
<1>4. ASSUME NEW s, Sound(s), SentOnly(scp[n], s), Step(n, s), Kept(scp[n], s, Accepted(n))
      PROVE  Goal(n)
  <2>1. Evolved(n, s)
    BY <1>2, <1>4, SentOnlyEvolved
  <2>2. Moves(n, s)
    BY <1>4 DEF Moves, SentOnly
  <2> QED BY <1>4, <2>1, <2>2
<1> HIDE DEF Goal
<1>5. ASSUME Deliver(n) PROVE Goal(n)
  <2>1. PICK p \in net[Peer(n)] : Step(n, Receive(scp[n], p))
    BY <1>5 DEF Deliver
  <2>2. Sound(Receive(scp[n], p)) /\ Evolved(n, Receive(scp[n], p))
    BY <1>2, DeliverEvolved
  <2>3. p \in Packet /\ Acceptable(p, scp[n]) /\ p.ack["oth"] <= Accepted(n)
    BY <1>2, FlightAcceptable DEF Accepted, Chan
  <2>4. Moves(n, Receive(scp[n], p))
    BY <1>2, <1>3, <2>3, ReceiveOther DEF Moves
  <2> QED BY <2>1, <2>2, <2>4 DEF Goal
<1>6. ASSUME SendMsg(n) PROVE Goal(n)
  <2>1. PICK more \in BOOLEAN, idle \in BOOLEAN : Step(n, SendData(scp[n], more, idle))
    BY <1>6 DEF SendMsg
  <2> QED BY <1>2, <1>3, <1>4, <2>1, SendDataSound, SendDataOther
<1>7. ASSUME SendOob(n) PROVE Goal(n)
  <2>1. PICK idle \in BOOLEAN : Step(n, SendOther(scp[n], idle))
    BY <1>7 DEF SendOob
  <2>2. scp[n].flowrem_oth > 0 /\ scp[n].xmitq["oth"] = {}
    BY <1>7 DEF SendOob, MaySend
  <2> QED BY <1>2, <1>3, <1>4, <2>1, <2>2, SendOtherSound, SendOtherOther
<1>8. ASSUME ReportOob(n) PROVE Goal(n)
  <2> DEFINE s == [scp[n] EXCEPT !.other_report = TRUE]
  <2>1. Typed(s)
    BY <1>2 DEF Sound, Typed, Scp
  <2>2. Sound(s) /\ SentOnly(scp[n], s) /\ Kept(scp[n], s, Accepted(n))
    BY <1>2, <1>3, <2>1, SoundSame, KeptSame DEF Sound, Typed, Scp
  <2>3. Step(n, s)
    BY <1>8 DEF ReportOob
  <2> QED BY <1>4, <2>2, <2>3
<1>9. ASSUME RecvMsg(n) PROVE Goal(n)
  <2>1. PICK idle \in BOOLEAN : Step(n, RecvData(scp[n], idle))
    BY <1>9 DEF RecvMsg
  <2>2. scp[n].rcvq["dat"] > 0
    BY <1>9 DEF RecvMsg
  <2> QED BY <1>2, <1>3, <1>4, <2>1, <2>2, RecvDataSound, RecvDataOther
<1>10. ASSUME RecvOob(n) PROVE Goal(n)
  <2>1. PICK idle \in BOOLEAN : Step(n, RecvOther(scp[n], idle))
    BY <1>10 DEF RecvOob
  <2>2. scp[n].rcvq["oth"] > 0
    BY <1>10 DEF RecvOob
  <2>3. ToReturn(scp[n], Accepted(n)) <= 1
    <3>1. Peer(n) \in Node /\ Peer(Peer(n)) = n
      BY PeerType
    <3>2. ToSend(scp[Peer(n)], Accepted(Peer(n))) + ToReturn(scp[n], Accepted(n)) = 1
      BY <3>1 DEF OInv, OtherInv
    <3>3. Accepted(Peer(n)) \in Nat /\ Typed(scp[Peer(n)]) /\ Typed(scp[n])
      BY <1>2, <3>1, AcceptedCount DEF Inv, SocketInv
    <3>4. ToSend(scp[Peer(n)], Accepted(Peer(n))) \in Nat /\ ToReturn(scp[n], Accepted(n)) \in Nat
      BY <1>3, <3>3, Counts
    <3> QED BY <3>2, <3>4
  <2> QED BY <1>2, <1>3, <1>4, <2>1, <2>2, <2>3, RecvOtherSound, RecvOtherOther
<1>11. ASSUME PersistTimer(n) PROVE Goal(n)
  <2>1. Step(n, XmitTimeout(scp[n]))
    BY <1>11 DEF PersistTimer
  <2> QED BY <1>2, <1>3, <1>4, <2>1, XmitTimeoutSound, XmitTimeoutOther
<1>12. ASSUME Keepalive(n) PROVE Goal(n)
  <2>1. /\ Step(n, SendLink(scp[n], "NOCHANGE", TRUE)) /\ "NOCHANGE" \in OthKind
        /\ scp[n].xmitq["oth"] = {}
    BY <1>12 DEF Keepalive, OthKind
  <2> QED BY <1>2, <1>3, <1>4, <2>1, SendLinkSound, KeepaliveOther
<1>13. Goal(n)
  BY <1>1, <1>5, <1>6, <1>7, <1>8, <1>9, <1>10, <1>11, <1>12
<1> QED BY <1>13 DEF Goal

\* One credit with each sender, none under way; what ConnConf sends changes
\* neither credit nor switch.
LEMMA InitOther == Init => \A n \in Node : OtherInv(n)
<1> SUFFICES ASSUME Init, NEW n \in Node PROVE OtherInv(n)
  OBVIOUS
<1> DEFINE s == ConnConf(InitScp)
           r == [s EXCEPT !.out = <<>>]
           m == Peer(n)
<1>1. m \in Node /\ m # n /\ Node = {n, m} /\ Peer(m) = n
  BY PeerType
<1>2. /\ scp = [j \in Node |-> IF j = Caller THEN r ELSE InitScp]
      /\ net = [j \in Node |-> IF j = Caller THEN Packets(s.out) ELSE {}]
  BY DEF Init
<1>3. Sound(InitScp) /\ Sound(s) /\ s.nsent["oth"] = 1 /\ s.nsent["dat"] = 0
  BY InitScpSound, ConnConfSound, ConnConfCounts
<1>4. Kept(InitScp, s, 0)
  BY <1>3, ConnConfOther DEF InitScp, Chan
<1>5. /\ ToSend(InitScp, 0) = 1 /\ ToReturn(InitScp, 0) = 0
      /\ Told(InitScp, 0, "SEND") /\ Waiting(InitScp)
      /\ InitScp.flowrem_sw = "SEND"
  BY DEF InitScp, ToSend, ToReturn, Told, Open, Num, Waiting, Copies, Packets, Chan
<1> HIDE DEF s
<1>6. Room(s)
  BY <1>3, SeqHalfAssumption DEF Room, Chan
<1>7. /\ Waiting(s) /\ ToSend(s, 0) = 1 /\ ToReturn(s, 0) = 0
      /\ s.flowrem_sw = "SEND" /\ Told(s, 0, "SEND")
  BY <1>4, <1>5, <1>6 DEF Kept, Passed, Num
<1>8. /\ r.xmitq = s.xmitq /\ r.flowrem_sw = "SEND"
      /\ ToSend(r, 0) = 1 /\ ToReturn(r, 0) = 0
      /\ Told(r, 0, "SEND") /\ Waiting(r)
  BY <1>3, <1>7, Drained DEF Sound
<1> HIDE DEF r
<1>9. \A j \in Node : Accepted(j) = 0
  BY <1>1, InitCounts DEF Accepted, Chan
<1>10. Copies(r, Packets(s.out)) /\ Copies(InitScp, {})
  BY <1>7, <1>8 DEF Waiting, Copies
<1>11. ASSUME NEW j \in Node
       PROVE  /\ Waiting(scp[j]) /\ Copies(scp[j], net[j])
              /\ ToSend(scp[j], 0) = 1 /\ ToReturn(scp[j], 0) = 0
              /\ scp[j].flowrem_sw = "SEND" /\ Told(scp[j], 0, "SEND")
  BY <1>2, <1>5, <1>8, <1>10
<1> QED BY <1>1, <1>9, <1>11 DEF OtherInv

LEMMA OtherInvariance == Spec => []OInv
<1>1. Init => OInv
  BY InitInv, InitOther DEF OInv
<1>2. OInv /\ [Next]_vars => OInv'
  <2> SUFFICES ASSUME OInv, [Next]_vars PROVE OInv'
    OBVIOUS
  <2>1. CASE Next
    <3>1. PICK n \in Node : \E s : Sound(s) /\ Evolved(n, s) /\ Step(n, s) /\ Moves(n, s)
      BY <2>1, NextMoves
    <3>2. PICK s : Sound(s) /\ Evolved(n, s) /\ Step(n, s) /\ Moves(n, s)
      BY <3>1
    <3>3. Inv'
      BY <3>2, StepInv DEF OInv
    <3> QED BY <3>2, <3>3, StepOther DEF OInv
  <2>2. CASE UNCHANGED vars
    <3>1. Inv'
      BY <2>2 DEF OInv, vars, Inv, SocketInv, LinkInv, FlightInv, Typed, Room, Core,
                  QueueSound, RcvSound, Stamped
    <3>2. ASSUME NEW n \in Node PROVE OtherInv(n)'
      BY <2>2 DEF OInv, vars, OtherInv, Accepted
    <3> QED BY <3>1, <3>2 DEF OInv
  <2> QED BY <2>1, <2>2
<1> QED BY <1>1, <1>2, PTL DEF Spec

-----------------------------------------------------------------------------
(* The theorems *)

\* Of what is queued, what the peer has not accepted.
LEMMA UnacceptedOpen ==
  ASSUME OInv, NEW n \in Node, NEW k
  PROVE  /\ Cardinality(Unaccepted(n, k)) = Num(Open(scp[n], Accepted(n), k))
         /\ Unaccepted(n, k) = {} <=> ~Open(scp[n], Accepted(n), k)
         /\ Cardinality(scp[n].xmitq["oth"]) <= 1
<1> DEFINE U == Unaccepted(n, k)
           q == scp[n].xmitq["oth"]
<1>1. \A e, f \in q : e = f
  BY DEF OInv, OtherInv, Waiting
<1>2. U \in SUBSET q /\ (U # {} <=> Open(scp[n], Accepted(n), k))
  BY DEF Unaccepted, Open, Accepted
<1>3. \A S \in SUBSET q : Cardinality(S) = Num(S # {})
  <2> SUFFICES ASSUME NEW S \in SUBSET q PROVE Cardinality(S) = Num(S # {})
    OBVIOUS
  <2>1. CASE S = {}
    BY <2>1, FS_EmptySet DEF Num
  <2>2. CASE S # {}
    <3>1. PICK e : S = {e}
      BY <1>1, <2>2
    <3> QED BY <2>2, <3>1, FS_Singleton DEF Num
  <2> QED BY <2>1, <2>2
<1> QED BY <1>2, <1>3 DEF Num

\* dn_sendmsg, dn_keepalive and dn_nsp_schedule_pending keep other data to one
\* message at a time, and the interrupt credit is neither lost nor doubled:
\* with the sender, under way, waiting to be read, due or on its way back.
THEOREM CreditKept == Spec => []OtherData
<1>1. OInv => OtherData
  <2> SUFFICES ASSUME OInv, NEW n \in Node
               PROVE  LET m == Peer(n)
                      IN  /\ Cardinality(scp[n].xmitq["oth"]) <= 1
                          /\ scp[n].flowrem_oth + Cardinality(Unaccepted(n, "OD"))
                               + scp[m].rcvq["oth"]
                               + (IF "INTR" \in scp[m].pending THEN 1 ELSE 0)
                               + Cardinality(Unaccepted(m, "INTR")) = 1
    BY DEF OtherData
  <2> DEFINE m == Peer(n)
  <2>1. m \in Node
    BY PeerType
  <2>2. Typed(scp[n]) /\ Typed(scp[m])
    BY <2>1 DEF OInv, Inv, SocketInv
  <2>3. scp[n].flowrem_oth \in Nat /\ scp[m].rcvq["oth"] \in Nat
    BY <2>2, Counts
  <2>4. ToSend(scp[n], Accepted(n)) + ToReturn(scp[m], Accepted(m)) = 1
    BY DEF OInv, OtherInv
  <2>5. /\ Cardinality(Unaccepted(n, "OD")) = Num(Open(scp[n], Accepted(n), "OD"))
        /\ Cardinality(Unaccepted(m, "INTR")) = Num(Open(scp[m], Accepted(m), "INTR"))
        /\ Cardinality(scp[n].xmitq["oth"]) <= 1
    BY <2>1, UnacceptedOpen
  <2>6. /\ ToSend(scp[n], Accepted(n)) = scp[n].flowrem_oth + Cardinality(Unaccepted(n, "OD"))
        /\ ToReturn(scp[m], Accepted(m)) = scp[m].rcvq["oth"]
             + (IF "INTR" \in scp[m].pending THEN 1 ELSE 0) + Cardinality(Unaccepted(m, "INTR"))
    BY <2>5, Zenon DEF ToSend, ToReturn, Num
  <2>7. Cardinality(Unaccepted(n, "OD")) \in Nat /\ Cardinality(Unaccepted(m, "INTR")) \in Nat
    BY <2>5 DEF Num
  <2> QED BY <2>3, <2>4, <2>5, <2>6, <2>7
<1> QED BY <1>1, OtherInvariance, PTL

\* When dn_nsp_schedule_pending has no flow control message to send (DN_PEND_SW)
\* and none is under way, the sender obeys the switch that the receiver has set.
THEOREM SwitchAgreed == Spec => []SwitchAgreement
<1>1. OInv => SwitchAgreement
  <2> SUFFICES ASSUME OInv, NEW n \in Node, "SW" \notin scp[Peer(n)].pending,
                      Unaccepted(Peer(n), "SEND") = {},
                      Unaccepted(Peer(n), "DONTSEND") = {}
               PROVE  scp[n].flowrem_sw = scp[Peer(n)].flowloc_sw
    BY DEF SwitchAgreement
  <2> DEFINE m == Peer(n)
  <2>1. m \in Node
    BY PeerType
  <2>2. ~Open(scp[m], Accepted(m), "SEND") /\ ~Open(scp[m], Accepted(m), "DONTSEND")
    BY <2>1, UnacceptedOpen
  <2>3. Told(scp[m], Accepted(m), scp[n].flowrem_sw)
    BY DEF OInv, OtherInv
  <2> QED BY <2>2, <2>3 DEF Told
<1> QED BY <1>1, OtherInvariance, PTL

=============================================================================

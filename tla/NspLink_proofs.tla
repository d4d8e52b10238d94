--------------------------- MODULE NspLink_proofs ---------------------------
(***************************************************************************)
(* The life of a link, for every set of ports, every count of              *)
(* retransmissions, and any number of packets lost, repeated and           *)
(* reordered, calls and restarts: sockets and packets keep their types, of *)
(* the sockets accepted for a connect at most one ever enters RUN, and it  *)
(* does so with the caller, and a link that has ended stays ended.         *)
(***************************************************************************)
EXTENDS NspLink, TLAPS

-----------------------------------------------------------------------------
(* The inductive invariant *)

\* Before a link is up
Early == {"FREE", "O", "CR", "CI", "CD", "CC"}

\* The socket of port p.  In CI and CC each message sent is counted; a link
\* service message is due only while one is not acknowledged; and dn_accept
\* still has the new socket to itself while it allocates it.
Good(p, s) ==
  /\ s \in Sock /\ s.loc = p
  /\ s.persist => s.fxn # "none"
  /\ s.pend => s.nsent # s.nack /\ s.nsent < MaxLink
  /\ s.pend \/ s.fxn = "xmit" \/ s.state = "RUN" => s.ran
  /\ s.ran => s.rem # None
  /\ s.state \in Early => ~s.ran /\ s.nsent = 0
  /\ s.state \in {"O", "CR"} => s.tries = 0
  /\ s.state \in {"CI", "CC"} => s.tries + s.count = Retrans + 1
  /\ s.call = "take" => /\ s.state = "CR" /\ s.so = "UNCONNECTED"
                        /\ ~s.hashed /\ ~s.persist /\ ~s.conn
  /\ p \in Caller => s.state \notin {"FREE", "CR", "CC"}
  /\ p \in Callee => /\ s.state \notin {"O", "CI", "CD"}
                     /\ s.ran \/ s.state \notin {"FREE", "GONE"} => s.rem \in Caller
                     /\ s.hashed => s.state \notin {"FREE", "GONE"}

\* A packet that socket s may have sent, now or earlier
Mine(s, m) ==
  /\ m.kind \in {"CI", "RCI", "RTS"} => s.loc \in Caller
  /\ m.kind \in {"LS", "ACK"} => s.ran /\ m.dst = s.rem

\* Where packets come from and go to
Routed(m) ==
  /\ m \in Packet
  /\ m.kind \in {"CI", "RCI", "RTS", "CC", "LS", "ACK"} => m.src \in Port
  /\ m.kind \notin {"CI", "RCI", "RTS"} => m.dst \in Port

Sent(s) == \A m \in s.out : Routed(m) /\ (m.src \in Port => m.src = s.loc /\ Mine(s, m))

LinkInv ==
  /\ TypeOK
  /\ \A p \in Port : Good(p, sock[p]) /\ sock[p].out = {}
  /\ \A m \in net : Routed(m) /\ (m.src \in Port => Mine(sock[m.src], m))
  /\ \A i \in DOMAIN queue : queue[i].src \in Caller
  /\ OneLinkPerConnect

-----------------------------------------------------------------------------
(* One socket *)

\* What a step of socket s to t, of the same port, may not undo
Follows(s, t) ==
  /\ s.ran => t.ran /\ t.rem = s.rem
  /\ s.state \in Ended => t.state \in Ended

\* t is s with other packets to send.
Untouched(s, t) ==
  /\ t \in Sock /\ t.loc = s.loc /\ t.rem = s.rem /\ t.state = s.state
  /\ t.hashed = s.hashed /\ t.dead = s.dead /\ t.so = s.so /\ t.call = s.call
  /\ t.fxn = s.fxn /\ t.persist = s.persist /\ t.count = s.count /\ t.conn = s.conn
  /\ t.nsent = s.nsent /\ t.nack = s.nack /\ t.nrcv = s.nrcv /\ t.pend = s.pend
  /\ t.ran = s.ran /\ t.tries = s.tries /\ t.shift = s.shift

LEMMA SockIs ==
  ASSUME NEW s \in Sock
  PROVE  /\ s.loc \in Port /\ s.rem \in Port \cup {None} /\ s.state \in State
         /\ s.hashed \in BOOLEAN /\ s.dead \in BOOLEAN
         /\ s.sk \in {"CLOSE", "LISTEN", "ESTABLISHED"}
         /\ s.so \in {"UNCONNECTED", "CONNECTING", "CONNECTED", "DISCONNECTING"}
         /\ s.err \in BOOLEAN /\ s.call \in {"none", "connect", "take", "accept", "failed"}
         /\ s.fxn \in {"none", "conninit", "connconf", "xmit", "destroy"}
         /\ s.persist \in BOOLEAN /\ s.count \in 0 .. Retrans /\ s.conn \in BOOLEAN
         /\ s.shift \in 0 .. DiCount /\ s.nsent \in 0 .. MaxLink /\ s.nack \in 0 .. MaxLink
         /\ s.nrcv \in 0 .. MaxLink /\ s.pend \in BOOLEAN /\ s.ran \in BOOLEAN
         /\ s.tries \in 0 .. (Retrans + 1) /\ s.out \in SUBSET Packet
BY DEF Sock

LEMMA Ports ==
  /\ None \notin Port /\ \A p \in Port : p \in Caller <=> p \notin Callee
  /\ Caller \subseteq Port /\ Callee \subseteq Port
BY PortAssumption DEF Port

LEMMA EndedIs ==
  \A x \in Ended : x \in State /\ x \notin Early /\ x \notin {"RUN", "FREE", "O", "CR", "CI", "CD", "CC"}
BY DEF Ended, Early, State

\* Most of what is done to a socket: timers and the caller's side of it
\* change, and the link may end.
LEMMA Tweaked ==
  ASSUME NEW p \in Port, NEW s, NEW t \in Sock, Good(p, s), s.call # "take", t.call # "take",
         t.loc = s.loc, t.rem = s.rem \/ (s.rem = None /\ p \in Caller), t.ran = s.ran,
         t.nsent = s.nsent, t.nack = s.nack, t.pend = s.pend, t.hashed = s.hashed,
         t.persist => t.fxn # "none", t.fxn = s.fxn \/ t.fxn # "xmit",
         \/ t.state = s.state /\ t.tries = s.tries /\ t.count = s.count
         \/ t.state \in Ended \ {"GONE"} /\ s.state \notin {"FREE", "GONE"}
  PROVE  Good(p, t) /\ Follows(s, t)
<1>1. s.loc = p /\ s \in Sock
  BY DEF Good
<1>2. t.ran => t.rem = s.rem
  BY DEF Good
<1>3. CASE t.state = s.state /\ t.tries = s.tries /\ t.count = s.count
  BY <1>1, <1>2, <1>3, Ports DEF Good, Follows
<1>4. CASE t.state \in Ended \ {"GONE"} /\ s.state \notin {"FREE", "GONE"}
  <2>1. /\ t.state \notin {"RUN", "FREE", "O", "CR", "CI", "CD", "CC", "GONE"}
        /\ t.state \notin Early
    BY <1>4, EndedIs
  <2> QED BY <1>1, <1>2, <1>4, <2>1, Ports DEF Good, Follows
<1> QED BY <1>3, <1>4

\* Nothing is sent meanwhile.
LEMMA Quiet ==
  ASSUME NEW s, NEW t, Sent(s), t.out = s.out, t.loc = s.loc, Follows(s, t)
  PROVE  Sent(t)
BY DEF Sent, Mine, Follows

LEMMA OutIs ==
  ASSUME NEW s \in Sock, NEW X \in SUBSET Packet
  PROVE  LET t == [s EXCEPT !.out = X]
         IN  t.out = X /\ Untouched(s, t)
BY DEF Sock, Untouched

LEMMA OutGood ==
  ASSUME NEW p \in Port, NEW s, Good(p, s), NEW X \in SUBSET Packet
  PROVE  Good(p, [s EXCEPT !.out = X]) /\ Follows(s, [s EXCEPT !.out = X])
<1> DEFINE t == [s EXCEPT !.out = X]
<1>1. s \in Sock
  BY DEF Good
<1>2. Untouched(s, t)
  BY <1>1, OutIs
<1> HIDE DEF t
<1>3. Good(p, t)
  BY <1>2 DEF Good, Untouched
<1>4. Follows(s, t)
  BY <1>2 DEF Follows, Untouched
<1> QED BY <1>3, <1>4 DEF t

\* A packet with this end as its source is added to what a handler sends.
LEMMA SentMore ==
  ASSUME NEW p \in Port, NEW s, Good(p, s), Sent(s), NEW m \in Packet, Routed(m),
         m.src \in Port => m.src = p /\ Mine(s, m)
  PROVE  LET t == [s EXCEPT !.out = @ \cup {m}]
         IN  Good(p, t) /\ Sent(t) /\ Follows(s, t)
<1>1. s \in Sock /\ s.loc = p /\ s.out \in SUBSET Packet
  BY SockIs DEF Good
<1>2. [s EXCEPT !.out = @ \cup {m}] = [s EXCEPT !.out = s.out \cup {m}]
  OBVIOUS
<1>3. s.out \cup {m} \in SUBSET Packet
  BY <1>1
<1> DEFINE t == [s EXCEPT !.out = s.out \cup {m}]
<1>4. Good(p, t) /\ Follows(s, t)
  BY <1>3, OutGood
<1>5. t.out = s.out \cup {m} /\ t.loc = s.loc /\ t.rem = s.rem /\ t.ran = s.ran
  BY <1>1, <1>3, OutIs DEF Untouched
<1> HIDE DEF t
<1>6. Sent(t)
  BY <1>1, <1>5 DEF Sent, Mine
<1> QED BY <1>2, <1>4, <1>6 DEF t

-----------------------------------------------------------------------------
(* dn_nsp_out.c *)

\* s becomes t, with what a handler has sent so far.
Whole(p, s) == Good(p, s) /\ Sent(s)
Works(p, s, t) == Whole(p, t) /\ Follows(s, t)

LEMMA WorksOn ==
  ASSUME NEW p \in Port, NEW s, NEW t, NEW u, Works(p, s, t), Works(p, t, u)
  PROVE  Works(p, s, u)
BY DEF Works, Follows

LEMMA Reply ==
  ASSUME NEW p \in Port, NEW s, Whole(p, s), s.rem # None, NEW kind \in {"CC", "LS", "ACK", "DI", "DC"},
         NEW num \in 0 .. MaxLink, kind \in {"LS", "ACK"} => s.ran
  PROVE  LET t == Send(s, kind, num)
         IN  Works(p, s, t) /\ Untouched(s, t)
<1> DEFINE m == [kind |-> kind, src |-> s.loc, dst |-> s.rem, num |-> num]
<1>1. s \in Sock /\ s.loc = p /\ s.rem \in Port
  BY SockIs DEF Whole, Good
<1>2. m \in Packet /\ m.kind = kind /\ m.src = p /\ m.dst = s.rem
  <2>1. kind \in Kind
    BY DEF Kind
  <2> QED BY <1>1, <2>1 DEF Packet
<1> HIDE DEF m
<1>3. Routed(m) /\ m.src = p /\ Mine(s, m)
  BY <1>1, <1>2 DEF Routed, Mine
<1> DEFINE t == [s EXCEPT !.out = @ \cup {m}]
<1>4. Good(p, t) /\ Sent(t) /\ Follows(s, t)
  BY <1>2, <1>3, SentMore DEF Whole
<1>5. t = [s EXCEPT !.out = s.out \cup {m}] /\ s.out \cup {m} \in SUBSET Packet
  BY <1>1, <1>2, SockIs
<1>6. Untouched(s, t)
  BY <1>1, <1>5, OutIs
<1> HIDE DEF t
<1>7. Send(s, kind, num) = t
  BY DEF Send, m, t
<1> QED BY <1>4, <1>6, <1>7 DEF Works, Whole

LEMMA SendDiscWorks ==
  ASSUME NEW p \in Port, NEW s, Whole(p, s), NEW kind \in {"DI", "DC"}
  PROVE  LET t == SendDisc(s, kind)
         IN  Works(p, s, t) /\ Untouched(s, t)
<1>1. CASE s.rem = None
  BY <1>1 DEF SendDisc, Works, Follows, Whole, Good, Untouched
<1>2. CASE s.rem # None
  <2>1. 0 \in 0 .. MaxLink
    BY BoundAssumption
  <2>2. kind \in {"CC", "LS", "ACK", "DI", "DC"} /\ ~(kind \in {"LS", "ACK"})
    OBVIOUS
  <2>3. SendDisc(s, kind) = Send(s, kind, 0)
    BY <1>2 DEF SendDisc
  <2> QED BY <1>2, <2>1, <2>2, <2>3, Reply
<1> QED BY <1>1, <1>2

LEMMA PersistWorks ==
  ASSUME NEW p \in Port, NEW s, Whole(p, s), s.fxn # "none", s.call # "take"
  PROVE  LET t == Persist(s)
         IN  /\ Works(p, s, t) /\ t \in Sock
             /\ t.loc = s.loc /\ t.rem = s.rem /\ t.state = s.state /\ t.hashed = s.hashed
             /\ t.dead = s.dead /\ t.so = s.so /\ t.call = s.call /\ t.fxn = s.fxn
             /\ t.nsent = s.nsent /\ t.nack = s.nack /\ t.pend = s.pend
             /\ t.ran = s.ran /\ t.out = s.out
<1> DEFINE shift == IF s.state = "RUN" /\ s.shift < DiCount THEN s.shift + 1 ELSE s.shift
           t == [s EXCEPT !.persist = TRUE, !.shift = shift]
<1>1. s \in Sock
  BY DEF Whole, Good
<1>2. shift \in 0 .. DiCount
  <2>1. s.shift \in 0 .. DiCount
    BY <1>1, SockIs
  <2> QED BY <2>1, CountAssumption
<1>3. Persist(s) = t
  BY DEF Persist
<1> HIDE DEF shift
<1>4. /\ t \in Sock /\ t.persist
      /\ t.loc = s.loc /\ t.rem = s.rem /\ t.state = s.state /\ t.hashed = s.hashed
      /\ t.dead = s.dead /\ t.so = s.so /\ t.call = s.call /\ t.fxn = s.fxn
      /\ t.nsent = s.nsent /\ t.nack = s.nack /\ t.pend = s.pend
      /\ t.ran = s.ran /\ t.tries = s.tries /\ t.count = s.count /\ t.out = s.out
  BY <1>1, <1>2 DEF Sock
<1> HIDE DEF t
<1>5. Good(p, t) /\ Follows(s, t)
  BY <1>4, Tweaked DEF Whole
<1>6. Sent(t)
  BY <1>4, <1>5, Quiet DEF Whole
<1> QED BY <1>3, <1>4, <1>5, <1>6 DEF Works, Whole

\* A link service message gets the next number.
LEMMA SendLinkWorks ==
  ASSUME NEW p \in Port, NEW s, Whole(p, s), s.ran, s.nsent < MaxLink, ~s.pend
  PROVE  LET t == SendLink(s)
         IN  Works(p, s, t) /\ t.ran = s.ran /\ t.state = s.state
<1> DEFINE a == [s EXCEPT !.nsent = @ + 1, !.fxn = "xmit"]
           b == Send(a, "LS", a.nsent)
<1>1. s \in Sock /\ s.nsent + 1 \in 0 .. MaxLink
  <2>1. s \in Sock
    BY DEF Whole, Good
  <2>2. s.nsent \in 0 .. MaxLink
    BY <2>1, SockIs
  <2> QED BY <2>1, <2>2, BoundAssumption
<1>2. s.state \notin Early /\ s.call # "take"
  BY DEF Whole, Good, Early
<1>3. /\ a \in Sock /\ a.nsent = s.nsent + 1 /\ a.fxn = "xmit"
      /\ a.loc = s.loc /\ a.rem = s.rem /\ a.state = s.state /\ a.hashed = s.hashed
      /\ a.so = s.so /\ a.call = s.call /\ a.persist = s.persist /\ a.count = s.count
      /\ a.conn = s.conn /\ a.nack = s.nack /\ a.pend = s.pend
      /\ a.ran = s.ran /\ a.tries = s.tries /\ a.out = s.out
  BY <1>1 DEF Sock
<1> HIDE DEF a
<1>4. Good(p, a) /\ Follows(s, a)
  BY <1>2, <1>3 DEF Whole, Good, Early, Follows
<1>5. Works(p, s, a)
  BY <1>3, <1>4, Quiet DEF Works, Whole
<1>6. Works(p, a, b) /\ b.fxn = "xmit" /\ b.call = s.call /\ b.ran = s.ran /\ b.state = s.state
  <2>1. a.rem # None
    BY <1>3 DEF Whole, Good
  <2>2. "LS" \in {"CC", "LS", "ACK", "DI", "DC"} /\ a.nsent \in 0 .. MaxLink
    BY <1>1, <1>3
  <2>3. Whole(p, a) /\ a.ran
    BY <1>3, <1>5 DEF Works
  <2>4. Works(p, a, b) /\ Untouched(a, b)
    BY <2>1, <2>2, <2>3, Reply
  <2> QED BY <1>3, <2>4 DEF Untouched
<1> HIDE DEF b
<1>7. Works(p, b, Persist(b)) /\ Persist(b).ran = s.ran /\ Persist(b).state = s.state
  BY <1>2, <1>6, PersistWorks DEF Works
<1>8. SendLink(s) = Persist(b)
  BY DEF SendLink, a, b
<1> QED BY <1>5, <1>6, <1>7, <1>8, WorksOn

LEMMA PendWorks ==
  ASSUME NEW p \in Port, NEW s, Whole(p, s), s.ran, NEW x \in BOOLEAN,
         x => s.nsent # s.nack /\ s.nsent < MaxLink
  PROVE  LET t == [s EXCEPT !.pend = x]
         IN  /\ Works(p, s, t) /\ t.pend = x /\ t.ran = s.ran /\ t.state = s.state
             /\ t.nsent = s.nsent /\ t.nack = s.nack
<1> DEFINE a == [s EXCEPT !.pend = x]
<1>1. s \in Sock
  BY DEF Whole, Good
<1>2. /\ a \in Sock /\ a.pend = x /\ a.nsent = s.nsent /\ a.fxn = s.fxn
      /\ a.loc = s.loc /\ a.rem = s.rem /\ a.state = s.state /\ a.hashed = s.hashed
      /\ a.so = s.so /\ a.call = s.call /\ a.persist = s.persist /\ a.count = s.count
      /\ a.conn = s.conn /\ a.nack = s.nack
      /\ a.ran = s.ran /\ a.tries = s.tries /\ a.out = s.out
  BY <1>1 DEF Sock
<1> HIDE DEF a
<1>3. Good(p, a) /\ Follows(s, a)
  BY <1>2 DEF Whole, Good, Follows
<1> QED BY <1>2, <1>3, Quiet DEF Works, Whole, a

LEMMA ScheduleWorks ==
  ASSUME NEW p \in Port, NEW s, Whole(p, s), s.ran, NEW due \in BOOLEAN, due => s.nsent < MaxLink
  PROVE  LET t == SchedulePending(s, due)
         IN  Works(p, s, t) /\ t.ran = s.ran /\ t.state = s.state
<1> DEFINE a(x) == [s EXCEPT !.pend = x]
<1>1. s \in Sock /\ s.pend \in BOOLEAN /\ (s.pend => s.nsent # s.nack /\ s.nsent < MaxLink)
  BY SockIs DEF Whole, Good
<1>2. \A x \in BOOLEAN : (x => s.nsent # s.nack /\ s.nsent < MaxLink) =>
        /\ Works(p, s, a(x)) /\ a(x).pend = x /\ a(x).ran = s.ran /\ a(x).state = s.state
        /\ a(x).nsent = s.nsent /\ a(x).nack = s.nack
  BY PendWorks
<1>3. SchedulePending(s, due) = IF (s.pend \/ due) /\ s.nsent = s.nack THEN SendLink(a(FALSE))
                                ELSE a(s.pend \/ due)
  BY DEF SchedulePending
<1> HIDE DEF a
<1>4. CASE (s.pend \/ due) /\ s.nsent = s.nack
  <2>1. /\ Works(p, s, a(FALSE)) /\ ~a(FALSE).pend /\ a(FALSE).ran /\ a(FALSE).nsent < MaxLink
        /\ a(FALSE).ran = s.ran /\ a(FALSE).state = s.state
    BY <1>1, <1>2, <1>4
  <2>2. LET t == SendLink(a(FALSE))
        IN  Works(p, a(FALSE), t) /\ t.ran = a(FALSE).ran /\ t.state = a(FALSE).state
    BY <2>1, SendLinkWorks DEF Works
  <2> QED BY <1>3, <1>4, <2>1, <2>2, WorksOn
<1>5. CASE ~((s.pend \/ due) /\ s.nsent = s.nack)
  <2>1. (s.pend \/ due) \in BOOLEAN /\ ((s.pend \/ due) => s.nsent # s.nack /\ s.nsent < MaxLink)
    BY <1>1, <1>5
  <2>2. Works(p, s, a(s.pend \/ due)) /\ a(s.pend \/ due).ran = s.ran /\ a(s.pend \/ due).state = s.state
    BY <1>2, <2>1
  <2> QED BY <1>3, <1>5, <2>2
<1> QED BY <1>4, <1>5

\* At most m is sent.
LEMMA SentOne ==
  ASSUME NEW p \in Port, NEW s, NEW t, Good(p, s), Sent(s), t.loc = s.loc, Follows(s, t), NEW m,
         t.out \subseteq s.out \cup {m}, Routed(m), m.src \in Port => m.src = p /\ Mine(t, m)
  PROVE  Sent(t)
<1>1. t.loc = p
  BY DEF Good
<1> QED BY <1>1 DEF Sent, Mine, Follows

\* A connect initiate or confirm is sent once more.
LEMMA AttemptWorks ==
  ASSUME NEW p \in Port, NEW s, Whole(p, s), NEW t \in Sock, NEW m, Routed(m),
         m.src = p, m.kind \in {"CI", "RCI", "CC"}, m.kind # "CC" => p \in Caller,
         t.loc = s.loc, t.rem = s.rem, t.ran = s.ran, t.nsent = s.nsent,
         t.nack = s.nack, t.pend = s.pend, t.hashed = s.hashed, t.call # "take",
         t.fxn \notin {"none", "xmit"}, t.out = s.out \cup {m},
         t.tries + t.count = Retrans + 1,
         (t.state = "CI" /\ p \in Caller) \/ (t.state = "CC" /\ p \in Callee),
         s.state \in {"O", "CR", "CI", "CC"}
  PROVE  Works(p, s, t)
<1>1. s \in Sock /\ s.loc = p /\ s.state \in Early /\ s.state \notin Ended /\ t.state \in Early
  BY DEF Whole, Good, Early, Ended
<1>2. Good(p, t)
  <2>1. /\ t.state \notin {"O", "CR", "RUN", "FREE", "GONE"}
        /\ t.state \in {"CI", "CC"}
    OBVIOUS
  <2>2. s.state \notin {"FREE", "GONE"} /\ ~s.ran /\ s.nsent = 0 /\ ~s.pend
    BY <1>1 DEF Whole, Good
  <2> QED BY <1>1, <2>1, <2>2, Ports DEF Whole, Good
<1>3. Follows(s, t)
  BY <1>1 DEF Whole, Good, Follows
<1>4. Sent(t)
  BY <1>1, <1>3, SentOne DEF Whole, Mine
<1> QED BY <1>2, <1>3, <1>4 DEF Works, Whole

LEMMA ConnInitMessage ==
  ASSUME NEW p \in Caller, NEW kind \in {"CI", "RCI"}
  PROVE  LET m == [kind |-> kind, src |-> p, dst |-> None, num |-> 0]
         IN  Routed(m) /\ m \in Packet /\ m.src = p /\ m.kind = kind
<1> DEFINE m == [kind |-> kind, src |-> p, dst |-> None, num |-> 0]
<1>1. kind \in Kind /\ 0 \in 0 .. MaxLink /\ p \in Port
  BY BoundAssumption, Ports DEF Kind
<1>2. m \in Packet /\ m.src = p /\ m.kind = kind
  BY <1>1 DEF Packet
<1> HIDE DEF m
<1> QED BY <1>1, <1>2 DEF Routed, m

LEMMA ConnConfMessage ==
  ASSUME NEW p \in Port, NEW r \in Port
  PROVE  LET m == [kind |-> "CC", src |-> p, dst |-> r, num |-> 0]
         IN  Routed(m) /\ m \in Packet /\ m.src = p /\ m.kind = "CC"
<1> DEFINE m == [kind |-> "CC", src |-> p, dst |-> r, num |-> 0]
<1>1. "CC" \in Kind /\ 0 \in 0 .. MaxLink
  BY BoundAssumption DEF Kind
<1>2. m \in Packet /\ m.src = p /\ m.kind = "CC" /\ m.dst = r
  BY <1>1 DEF Packet
<1> HIDE DEF m
<1> QED BY <1>1, <1>2 DEF Routed, m

LEMMA GiveUpWorks ==
  ASSUME NEW p \in Port, NEW s, Whole(p, s), s.call # "take", s.state \in {"CI", "CC"}
  PROVE  Works(p, s, GiveUp(s)) /\ GiveUp(s).ran = s.ran
<1> DEFINE t == GiveUp(s)
<1>1. s \in Sock /\ (s.persist => s.fxn # "none")
  BY DEF Whole, Good
<1>2. "NC" \in State /\ "NC" \in Ended \ {"GONE"} /\ s.state \notin {"FREE", "GONE"}
  BY DEF State, Ended
<1>3. /\ t \in Sock /\ t.state = "NC"
      /\ t.loc = s.loc /\ t.rem = s.rem /\ t.ran = s.ran
      /\ t.nsent = s.nsent /\ t.nack = s.nack /\ t.pend = s.pend /\ t.hashed = s.hashed
      /\ t.persist = s.persist /\ t.fxn = s.fxn /\ t.call = s.call /\ t.out = s.out
  BY ZenonT(40), <1>1, <1>2 DEF Sock, GiveUp
<1> HIDE DEF t
<1>4. Good(p, t) /\ Follows(s, t)
  BY <1>1, <1>2, <1>3, Tweaked DEF Whole
<1>5. Sent(t)
  BY <1>3, <1>4, Quiet DEF Whole
<1> QED BY <1>3, <1>4, <1>5 DEF Works, Whole, t

LEMMA RetransConnInitWorks ==
  ASSUME NEW p \in Port, NEW s, Whole(p, s), s.call # "take", s.fxn = "conninit"
  PROVE  LET t == RetransConnInit(s) IN Works(p, s, t) /\ t.ran = s.ran
<1> DEFINE t == RetransConnInit(s)
<1>1. s \in Sock /\ s.loc = p
  BY DEF Whole, Good
<1>2. CASE s.state # "CI"
  BY <1>2 DEF RetransConnInit, Works, Whole, Follows
<1>3. CASE s.state = "CI" /\ s.count = 0
  <2>1. t = GiveUp(s) /\ s.state \in {"CI", "CC"}
    BY <1>3 DEF RetransConnInit
  <2> QED BY <2>1, GiveUpWorks
<1>4. CASE s.state = "CI" /\ s.count # 0
  <2> DEFINE m == [kind |-> "RCI", src |-> s.loc, dst |-> None, num |-> 0]
  <2>1. t = [s EXCEPT !.out = @ \cup {m}, !.tries = @ + 1, !.count = @ - 1, !.persist = TRUE]
    BY <1>4 DEF RetransConnInit, SendConnInit
  <2>2. p \in Caller /\ s.tries + s.count = Retrans + 1 /\ s.tries \in Nat /\ s.count \in 0 .. Retrans
    BY <1>1, <1>4, SockIs, Ports DEF Whole, Good
  <2>3. Routed(m) /\ m \in Packet /\ m.src = p /\ m.kind = "RCI"
    BY <1>1, <2>2, ConnInitMessage
  <2>4. /\ s.tries + 1 \in 0 .. (Retrans + 1) /\ s.count - 1 \in 0 .. Retrans
        /\ (s.tries + 1) + (s.count - 1) = Retrans + 1
    BY <1>4, <2>2, CountAssumption
  <2> DEFINE a == s.tries + 1
             b == s.count - 1
             X == s.out \cup {m}
  <2> HIDE DEF m
  <2>5. X \in SUBSET Packet
    BY <1>1, <2>3, SockIs
  <2>6. /\ t \in Sock /\ t.loc = s.loc /\ t.rem = s.rem /\ t.ran = s.ran /\ t.state = s.state
        /\ t.nsent = s.nsent /\ t.nack = s.nack /\ t.pend = s.pend /\ t.hashed = s.hashed
        /\ t.fxn = s.fxn /\ t.call = s.call /\ t.out = X /\ t.tries = a /\ t.count = b
    <3>1. a \in 0 .. (Retrans + 1) /\ b \in 0 .. Retrans
      BY <2>4
    <3>2. t = [s EXCEPT !.out = X, !.tries = a, !.count = b, !.persist = TRUE]
      BY <2>1
    <3> HIDE DEF a, b, X, t
    <3> QED BY <1>1, <2>5, <3>1, <3>2 DEF Sock
  <2>7. t.tries + t.count = Retrans + 1 /\ t.out = s.out \cup {m}
    BY <2>4, <2>6
  <2> HIDE DEF t, a, b, X
  <2>8. Works(p, s, t)
    <3>1. /\ t.call # "take" /\ t.fxn \notin {"none", "xmit"}
          /\ t.state = "CI" /\ s.state \in {"O", "CR", "CI", "CC"}
          /\ m.kind \in {"CI", "RCI", "CC"} /\ p \in Caller
      BY <1>4, <2>2, <2>3, <2>6
    <3>2. /\ m.kind # "CC" => p \in Caller
          /\ (t.state = "CI" /\ p \in Caller) \/ (t.state = "CC" /\ p \in Callee)
      BY <3>1
    <3> QED BY <2>3, <2>6, <2>7, <3>1, <3>2, AttemptWorks
  <2> QED BY <2>6, <2>8 DEF t
<1> QED BY <1>2, <1>3, <1>4

LEMMA RetransConnConfWorks ==
  ASSUME NEW p \in Port, NEW s, Whole(p, s), s.call # "take", s.fxn = "connconf"
  PROVE  LET t == RetransConnConf(s) IN Works(p, s, t) /\ t.ran = s.ran
<1> DEFINE t == RetransConnConf(s)
<1>1. s \in Sock /\ s.loc = p
  BY DEF Whole, Good
<1>2. CASE s.state # "CC"
  BY <1>2 DEF RetransConnConf, Works, Whole, Follows
<1>3. CASE s.state = "CC" /\ s.count = 0
  <2>1. t = GiveUp(s) /\ s.state \in {"CI", "CC"}
    BY <1>3 DEF RetransConnConf
  <2> QED BY <2>1, GiveUpWorks
<1>4. CASE s.state = "CC" /\ s.count # 0
  <2> DEFINE m == [kind |-> "CC", src |-> s.loc, dst |-> s.rem, num |-> 0]
  <2>1. t = [s EXCEPT !.out = @ \cup {m}, !.tries = @ + 1, !.count = @ - 1, !.persist = TRUE]
    BY <1>4 DEF RetransConnConf, SendConnConf, Send
  <2>2. /\ p \in Callee /\ s.rem \in Port
        /\ s.tries + s.count = Retrans + 1 /\ s.tries \in Nat /\ s.count \in 0 .. Retrans
    BY <1>1, <1>4, SockIs, Ports DEF Whole, Good
  <2>3. Routed(m) /\ m \in Packet /\ m.src = p /\ m.kind = "CC"
    BY <1>1, <2>2, ConnConfMessage
  <2>4. /\ s.tries + 1 \in 0 .. (Retrans + 1) /\ s.count - 1 \in 0 .. Retrans
        /\ (s.tries + 1) + (s.count - 1) = Retrans + 1
    BY <1>4, <2>2, CountAssumption
  <2> DEFINE a == s.tries + 1
             b == s.count - 1
             X == s.out \cup {m}
  <2> HIDE DEF m
  <2>5. X \in SUBSET Packet
    BY <1>1, <2>3, SockIs
  <2>6. /\ t \in Sock /\ t.loc = s.loc /\ t.rem = s.rem /\ t.ran = s.ran /\ t.state = s.state
        /\ t.nsent = s.nsent /\ t.nack = s.nack /\ t.pend = s.pend /\ t.hashed = s.hashed
        /\ t.fxn = s.fxn /\ t.call = s.call /\ t.out = X /\ t.tries = a /\ t.count = b
    <3>1. a \in 0 .. (Retrans + 1) /\ b \in 0 .. Retrans
      BY <2>4
    <3>2. t = [s EXCEPT !.out = X, !.tries = a, !.count = b, !.persist = TRUE]
      BY <2>1
    <3> HIDE DEF a, b, X, t
    <3> QED BY <1>1, <2>5, <3>1, <3>2 DEF Sock
  <2>7. t.tries + t.count = Retrans + 1 /\ t.out = s.out \cup {m}
    BY <2>4, <2>6
  <2> HIDE DEF t, a, b, X
  <2>8. Works(p, s, t)
    BY <1>4, <2>2, <2>3, <2>6, <2>7, AttemptWorks
  <2> QED BY <2>6, <2>8 DEF t
<1> QED BY <1>2, <1>3, <1>4

LEMMA XmitTimeoutWorks ==
  ASSUME NEW p \in Port, NEW s, Whole(p, s), s.call # "take", s.fxn = "xmit"
  PROVE  LET t == XmitTimeout(s) IN Works(p, s, t) /\ t.ran = s.ran
<1>1. s.rem # None /\ s.ran /\ s \in Sock
  BY DEF Whole, Good
<1>2. CASE s.nsent > s.nack
  <2> DEFINE a == Send(s, "LS", s.nsent)
  <2>1. "LS" \in {"CC", "LS", "ACK", "DI", "DC"} /\ s.nsent \in 0 .. MaxLink
    BY <1>1, SockIs
  <2>2. Works(p, s, a) /\ Untouched(s, a)
    BY <1>1, <2>1, Reply
  <2> HIDE DEF a
  <2>3. Whole(p, a) /\ a.fxn # "none" /\ a.call # "take" /\ a.ran = s.ran
    BY <2>2 DEF Works, Untouched
  <2>4. Works(p, a, Persist(a)) /\ Persist(a).ran = a.ran
    BY <2>3, PersistWorks
  <2> QED BY <1>2, <2>2, <2>3, <2>4, WorksOn DEF XmitTimeout, a
<1>3. CASE ~(s.nsent > s.nack)
  BY <1>3 DEF XmitTimeout, Works, Whole, Follows
<1> QED BY <1>2, <1>3

-----------------------------------------------------------------------------
(* dn_nsp_in.c *)

\* The socket is moved towards the end of its link, or its timer changed.
LEMMA TweakWorks ==
  ASSUME NEW p \in Port, NEW s, NEW t \in Sock, Whole(p, s), s.call # "take", t.call # "take",
         t.loc = s.loc, t.rem = s.rem \/ (s.rem = None /\ p \in Caller), t.ran = s.ran,
         t.nsent = s.nsent, t.nack = s.nack, t.pend = s.pend, t.hashed = s.hashed,
         t.persist => t.fxn # "none", t.fxn = s.fxn \/ t.fxn # "xmit", t.out = s.out,
         \/ t.state = s.state /\ t.tries = s.tries /\ t.count = s.count
         \/ t.state \in Ended \ {"GONE"} /\ s.state \notin {"FREE", "GONE"}
  PROVE  Works(p, s, t)
<1>1. Good(p, t) /\ Follows(s, t)
  BY Tweaked DEF Whole
<1> QED BY <1>1, Quiet DEF Works, Whole

LEMMA DestroyTimerSet ==
  ASSUME NEW p \in Port, NEW s, Whole(p, s), s.call # "take"
  PROVE  LET t == [s EXCEPT !.fxn = "destroy"]
         IN  Works(p, s, t) /\ t.call = s.call /\ t.fxn = "destroy" /\ t.ran = s.ran
<1> DEFINE t == [s EXCEPT !.fxn = "destroy"]
<1>1. s \in Sock
  BY DEF Whole, Good
<1>2. /\ t \in Sock /\ t.fxn = "destroy" /\ t.state = s.state /\ t.tries = s.tries
      /\ t.count = s.count
      /\ t.loc = s.loc /\ t.rem = s.rem /\ t.ran = s.ran
      /\ t.nsent = s.nsent /\ t.nack = s.nack /\ t.pend = s.pend /\ t.hashed = s.hashed
      /\ t.persist = s.persist /\ t.call = s.call /\ t.out = s.out
  BY <1>1 DEF Sock
<1> HIDE DEF t
<1> QED BY <1>2, TweakWorks DEF t

LEMMA ConnConfWorks ==
  ASSUME NEW p \in Port, NEW s, Whole(p, s), s.call # "take", NEW m, m.src \in Port
  PROVE  LET t == ConnConf(s, m) IN Works(p, s, t) /\ (p \in Callee => t.ran = s.ran)
<1> DEFINE r == m.src
           a == [s EXCEPT !.state = "RUN", !.sk = "ESTABLISHED", !.rem = r,
                          !.persist = FALSE, !.conn = FALSE, !.ran = TRUE]
<1>1. CASE s.state \notin {"CI", "CD"}
  BY <1>1 DEF ConnConf, Works, Whole, Follows
<1>2. CASE s.state \in {"CI", "CD"}
  <2>1. /\ s \in Sock /\ s.loc = p /\ p \in Caller /\ p \notin Callee
        /\ s.state \in Early /\ s.state \notin Ended /\ ~s.ran /\ s.nsent = 0 /\ ~s.pend
    BY <1>2, Ports DEF Whole, Good, Early, Ended
  <2>2. "RUN" \in State /\ "RUN" \notin Early
    BY DEF State, Early
  <2>3. /\ a \in Sock /\ a.state = "RUN" /\ a.rem = r /\ ~a.persist /\ a.ran
        /\ a.loc = s.loc /\ a.nsent = s.nsent /\ a.nack = s.nack /\ a.pend = s.pend
        /\ a.hashed = s.hashed /\ a.call = s.call /\ a.out = s.out
    <3>1. r \in Port \cup {None} /\ s \in Sock /\ "RUN" \in State
      BY <2>1, <2>2
    <3> DEFINE c == [s EXCEPT !.state = "RUN", !.sk = "ESTABLISHED", !.rem = r]
    <3> HIDE DEF r
    <3>2. /\ c \in Sock /\ c.state = "RUN" /\ c.rem = r
          /\ c.loc = s.loc /\ c.nsent = s.nsent /\ c.nack = s.nack /\ c.pend = s.pend
          /\ c.hashed = s.hashed /\ c.call = s.call /\ c.out = s.out
      BY <3>1 DEF Sock
    <3>3. a = [c EXCEPT !.persist = FALSE, !.conn = FALSE, !.ran = TRUE]
      BY <3>1 DEF Sock
    <3> HIDE DEF a, c
    <3> QED BY ZenonT(40), <3>2, <3>3 DEF Sock
  <2> HIDE DEF a
  <2>4. Good(p, a) /\ Follows(s, a)
    BY <2>1, <2>2, <2>3, Ports DEF Good, Follows
  <2>5. Works(p, s, a)
    BY <2>3, <2>4, Quiet DEF Works, Whole
  <2>6. a.nsent < MaxLink
    BY <2>1, <2>3, BoundAssumption
  <2>7. LET t == SchedulePending(a, TRUE) IN Works(p, a, t)
    BY <2>3, <2>5, <2>6, ScheduleWorks DEF Works
  <2>8. ConnConf(s, m) = SchedulePending(a, TRUE)
    BY <1>2 DEF ConnConf, a, r
  <2> QED BY <2>1, <2>5, <2>7, <2>8, WorksOn
<1> QED BY <1>1, <1>2

LEMMA ConnAckWorks ==
  ASSUME NEW p \in Port, NEW s, Whole(p, s), s.call # "take"
  PROVE  LET t == ConnAck(s) IN Works(p, s, t) /\ t.ran = s.ran
<1> DEFINE t == [s EXCEPT !.state = "CD", !.persist = FALSE, !.conn = TRUE]
<1>1. CASE s.state # "CI"
  BY <1>1 DEF ConnAck, Works, Whole, Follows
<1>2. CASE s.state = "CI"
  <2>1. s \in Sock /\ p \in Caller /\ s.state \in Early /\ s.state \notin Ended
    BY <1>2, Ports DEF Whole, Good, Early, Ended
  <2>2. "CD" \in State /\ "CD" \in Early
    BY DEF State, Early
  <2>3. /\ t \in Sock /\ t.state = "CD" /\ t.rem = s.rem /\ ~t.persist /\ t.ran = s.ran
        /\ t.loc = s.loc /\ t.nsent = s.nsent /\ t.nack = s.nack /\ t.pend = s.pend
        /\ t.hashed = s.hashed /\ t.call = s.call /\ t.out = s.out /\ t.fxn = s.fxn
    BY <2>1, <2>2 DEF Sock
  <2> HIDE DEF t
  <2>4. Good(p, t) /\ Follows(s, t)
    BY <2>1, <2>2, <2>3, Ports DEF Whole, Good, Follows
  <2>5. ConnAck(s) = t
    BY <1>2 DEF ConnAck, t
  <2> QED BY <2>3, <2>4, <2>5, Quiet DEF Works, Whole
<1> QED BY <1>1, <1>2

LEMMA EstablishedWorks ==
  ASSUME NEW p \in Port, NEW s, Whole(p, s), s.call # "take"
  PROVE  LET t == Established(s) IN Works(p, s, t) /\ t.rem = s.rem /\ t.call = s.call
<1> DEFINE t == [s EXCEPT !.state = "RUN", !.sk = "ESTABLISHED", !.ran = TRUE]
<1>1. CASE ~(s.state = "CC" /\ ~s.dead)
  BY <1>1 DEF Established, Works, Whole, Follows
<1>2. CASE s.state = "CC" /\ ~s.dead
  <2>1. /\ s \in Sock /\ p \in Callee /\ s.state \in Early /\ s.state \notin Ended
        /\ s.rem \in Caller /\ ~s.ran
    BY <1>2, Ports DEF Whole, Good, Early, Ended
  <2>2. "RUN" \in State /\ "RUN" \notin Early
    BY DEF State, Early
  <2>3. /\ t \in Sock /\ t.state = "RUN" /\ t.rem = s.rem /\ t.ran /\ t.persist = s.persist
        /\ t.loc = s.loc /\ t.nsent = s.nsent /\ t.nack = s.nack /\ t.pend = s.pend
        /\ t.hashed = s.hashed /\ t.call = s.call /\ t.out = s.out /\ t.fxn = s.fxn
    BY <2>1, <2>2 DEF Sock
  <2> HIDE DEF t
  <2>4. Good(p, t) /\ Follows(s, t)
    BY <2>1, <2>2, <2>3, Ports DEF Whole, Good, Follows
  <2>5. Established(s) = t
    BY <1>2 DEF Established, t
  <2> QED BY <2>3, <2>4, <2>5, Quiet DEF Works, Whole
<1> QED BY <1>1, <1>2

\* Of the acknowledgement of a link service message that was due another may be sent.
LEMMA ProcessAckWorks ==
  ASSUME NEW p \in Port, NEW s, Whole(p, s), s.call # "take", NEW m \in Packet
  PROVE  LET t == ProcessAck(s, m) IN Works(p, s, t) /\ (s.ran => t.ran) /\ (t.ran => s.ran)
<1> DEFINE a == [s EXCEPT !.nack = m.num]
           b(x) == [a EXCEPT !.pend = x]
<1>1. s \in Sock /\ m.num \in 0 .. MaxLink /\ (s.pend => s.ran /\ s.nsent < MaxLink) /\ s.pend \in BOOLEAN
  BY SockIs DEF Whole, Good, Packet
<1>2. CASE ~(m.num > s.nack)
  BY <1>2 DEF ProcessAck, Works, Whole, Follows
<1>3. CASE m.num > s.nack
  <2>1. ProcessAck(s, m) = IF a.pend /\ a.nsent = a.nack THEN SendLink(b(FALSE)) ELSE b(a.pend \/ FALSE)
    BY <1>3 DEF ProcessAck, SchedulePending
  <2>2. /\ a \in Sock /\ a.nack = m.num /\ a.pend = s.pend /\ a.nsent = s.nsent
    BY <1>1 DEF Sock
  <2>3. ASSUME NEW x \in BOOLEAN, x => s.pend /\ s.nsent # m.num
        PROVE  Works(p, s, b(x)) /\ b(x).ran = s.ran /\ ~x = ~b(x).pend /\ b(x).nsent = s.nsent
    <3> DEFINE t == b(x)
    <3>1. /\ t \in Sock /\ t.state = s.state /\ t.rem = s.rem /\ t.ran = s.ran
          /\ t.persist = s.persist /\ t.loc = s.loc /\ t.nsent = s.nsent /\ t.nack = m.num
          /\ t.pend = x /\ t.hashed = s.hashed /\ t.call = s.call /\ t.out = s.out
          /\ t.fxn = s.fxn /\ t.so = s.so /\ t.conn = s.conn /\ t.tries = s.tries
          /\ t.count = s.count
      BY <1>1 DEF Sock
    <3> HIDE DEF b
    <3>2. Good(p, t) /\ Follows(s, t)
      BY <1>1, <2>3, <3>1 DEF Whole, Good, Follows
    <3> QED BY <3>1, <3>2, Quiet DEF Works, Whole
  <2> HIDE DEF b, a
  <2>4. CASE a.pend /\ a.nsent = a.nack
    <3>1. Works(p, s, b(FALSE)) /\ b(FALSE).ran /\ ~b(FALSE).pend /\ b(FALSE).nsent < MaxLink /\ s.ran
      BY <1>1, <2>2, <2>3, <2>4
    <3>2. LET t == SendLink(b(FALSE)) IN Works(p, b(FALSE), t) /\ t.ran = b(FALSE).ran
      BY <3>1, SendLinkWorks DEF Works
    <3> QED BY <2>1, <2>4, <3>1, <3>2, WorksOn
  <2>5. CASE ~(a.pend /\ a.nsent = a.nack)
    <3>1. (a.pend \/ FALSE) \in BOOLEAN /\ ((a.pend \/ FALSE) => s.pend /\ s.nsent # m.num)
      BY <1>1, <2>2, <2>5
    <3>2. Works(p, s, b(a.pend \/ FALSE)) /\ b(a.pend \/ FALSE).ran = s.ran
      BY <2>3, <3>1
    <3> QED BY <2>1, <2>5, <3>2
  <2> QED BY <2>4, <2>5
<1> QED BY <1>2, <1>3

LEMMA LinkServiceWorks ==
  ASSUME NEW p \in Port, NEW s, Whole(p, s), s.call # "take", NEW m \in Packet
  PROVE  LET t == LinkService(s, m) IN Works(p, s, t) /\ t.ran = s.ran /\ t.rem = s.rem
<1> DEFINE x == IF m.num = s.nrcv + 1 THEN m.num ELSE s.nrcv
           a == [s EXCEPT !.nrcv = x]
<1>1. CASE s.state # "RUN"
  BY <1>1 DEF LinkService, Works, Whole, Follows
<1>2. CASE s.state = "RUN"
  <2>1. s \in Sock /\ x \in 0 .. MaxLink /\ s.ran /\ s.rem # None /\ (s.persist => s.fxn # "none")
    BY <1>2, SockIs DEF Whole, Good, Packet
  <2>2. LinkService(s, m) = Send(a, "ACK", a.nrcv)
    BY <1>2 DEF LinkService
  <2> HIDE DEF x
  <2>3. /\ a \in Sock /\ a.nrcv = x /\ a.state = s.state /\ a.tries = s.tries /\ a.count = s.count
        /\ a.loc = s.loc /\ a.rem = s.rem /\ a.ran = s.ran
        /\ a.nsent = s.nsent /\ a.nack = s.nack /\ a.pend = s.pend /\ a.hashed = s.hashed
        /\ a.persist = s.persist /\ a.fxn = s.fxn /\ a.call = s.call /\ a.out = s.out
    BY <2>1 DEF Sock
  <2> HIDE DEF a
  <2>4. Works(p, s, a)
    BY <2>1, <2>3, TweakWorks
  <2>5. /\ Whole(p, a) /\ a.rem # None /\ a.ran /\ a.nrcv \in 0 .. MaxLink
        /\ "ACK" \in {"CC", "LS", "ACK", "DI", "DC"}
    BY <2>1, <2>3, <2>4 DEF Works
  <2>6. LET t == Send(a, "ACK", a.nrcv) IN Works(p, a, t) /\ Untouched(a, t)
    BY <2>5, Reply
  <2> QED BY <2>2, <2>3, <2>4, <2>6, WorksOn DEF Untouched
<1> QED BY <1>1, <1>2

LEMMA DisconnectingIs ==
  ASSUME NEW s \in Sock
  PROVE  Disconnecting(s) \in {"UNCONNECTED", "CONNECTING", "CONNECTED", "DISCONNECTING"}
BY SockIs DEF Disconnecting

LEMMA DiscInitWorks ==
  ASSUME NEW p \in Port, NEW s, Whole(p, s), s.call # "take", NEW m \in Packet,
         s.hashed, s.rem = None \/ s.rem = m.src
  PROVE  LET t == DiscInit(s, m) IN Works(p, s, t) /\ t.ran = s.ran
<1> DEFINE calling == s.state \in {"CI", "CD"}
           next == CASE calling -> "RJ"
                     [] s.state = "RUN" -> "DN"
                     [] s.state = "DI" -> "DIC"
                     [] OTHER -> s.state
           e == s.err \/ calling
           c == s.conn /\ ~calling
           r == m.src
           o == Disconnecting(s)
           a == [s EXCEPT !.rem = r, !.sk = "CLOSE", !.state = next,
                          !.err = e, !.conn = c, !.so = o]
           b == SendDisc(a, "DC")
           d == [b EXCEPT !.fxn = "destroy"]
<1>1. s \in Sock /\ (s.persist => s.fxn # "none")
  BY DEF Whole, Good
<1>2. /\ next \in State
      /\ next = s.state \/ (next \in Ended \ {"GONE"} /\ s.state \notin {"FREE", "GONE"})
  BY <1>1, SockIs DEF State, Ended
<1>3. DiscInit(s, m) = Persist(d)
  BY DEF DiscInit
<1>4. r \in Port \cup {None} /\ e \in BOOLEAN /\ c \in BOOLEAN
  BY <1>1, SockIs DEF Packet
<1>5. o \in {"UNCONNECTED", "CONNECTING", "CONNECTED", "DISCONNECTING"}
  BY <1>1, DisconnectingIs
<1> HIDE DEF next, e, c, o
<1>6. r = s.rem \/ (s.rem = None /\ p \in Caller)
  BY <1>1, Ports DEF Whole, Good, Port
<1> HIDE DEF r
<1>7. /\ a \in Sock /\ a.state = next /\ a.rem = r /\ a.tries = s.tries /\ a.count = s.count
      /\ a.loc = s.loc /\ a.ran = s.ran
      /\ a.nsent = s.nsent /\ a.nack = s.nack /\ a.pend = s.pend /\ a.hashed = s.hashed
      /\ a.persist = s.persist /\ a.fxn = s.fxn /\ a.call = s.call /\ a.out = s.out
  <2> DEFINE h == [s EXCEPT !.rem = r, !.sk = "CLOSE", !.state = next]
  <2>1. /\ h \in Sock /\ h.state = next /\ h.rem = r /\ h.tries = s.tries /\ h.count = s.count
        /\ h.loc = s.loc /\ h.ran = s.ran
        /\ h.nsent = s.nsent /\ h.nack = s.nack /\ h.pend = s.pend /\ h.hashed = s.hashed
        /\ h.persist = s.persist /\ h.fxn = s.fxn /\ h.call = s.call /\ h.out = s.out
    BY <1>1, <1>2, <1>4 DEF Sock
  <2>2. a = [h EXCEPT !.err = e, !.conn = c, !.so = o]
    BY <1>1 DEF Sock
  <2> HIDE DEF a, h
  <2>3. h \in Sock
    BY <2>1
  <2>4. a \in Sock
    BY ZenonT(40), <1>4, <1>5, <2>2, <2>3 DEF Sock
  <2>5. /\ a.state = h.state /\ a.rem = h.rem /\ a.tries = h.tries /\ a.count = h.count
        /\ a.loc = h.loc /\ a.ran = h.ran
        /\ a.nsent = h.nsent /\ a.nack = h.nack /\ a.pend = h.pend /\ a.hashed = h.hashed
        /\ a.persist = h.persist /\ a.fxn = h.fxn /\ a.call = h.call /\ a.out = h.out
    BY <2>2, <2>3 DEF Sock
  <2> QED BY <2>1, <2>4, <2>5
<1> HIDE DEF a
<1>8. Works(p, s, a)
  <2>1. \/ a.state = s.state /\ a.tries = s.tries /\ a.count = s.count
        \/ a.state \in Ended \ {"GONE"} /\ s.state \notin {"FREE", "GONE"}
    BY <1>2, <1>7
  <2>2. a.rem = s.rem \/ (s.rem = None /\ p \in Caller)
    BY <1>6, <1>7
  <2> QED BY <1>1, <1>7, <2>1, <2>2, TweakWorks
<1>9. Works(p, a, b) /\ Untouched(a, b)
  BY <1>8, SendDiscWorks DEF Works
<1> HIDE DEF b
<1>10. Works(p, b, d) /\ d.call = b.call /\ d.fxn = "destroy" /\ d.ran = b.ran /\ b.ran = s.ran /\ b.call # "take"
  BY <1>7, <1>9, DestroyTimerSet DEF Works, Untouched
<1> HIDE DEF d
<1>11. Works(p, d, Persist(d)) /\ Persist(d).ran = d.ran
  BY <1>10, PersistWorks DEF Works
<1>12. Works(p, s, b)
  BY <1>8, <1>9, WorksOn
<1>13. Works(p, s, d)
  BY <1>12, <1>10, WorksOn
<1>14. Works(p, s, Persist(d))
  BY <1>13, <1>11, WorksOn
<1> QED BY <1>3, <1>10, <1>11, <1>14

LEMMA DiscConfWorks ==
  ASSUME NEW p \in Port, NEW s, Whole(p, s), s.call # "take", NEW m
  PROVE  LET t == DiscConf(s, m) IN Works(p, s, t) /\ t.ran = s.ran
<1> DEFINE next == CASE s.state = "CI" -> "NR"
                     [] s.state = "DR" -> IF m.kind = "DC" THEN "DRC" ELSE "CN"
                     [] s.state = "DI" -> "DIC"
                     [] s.state \in {"RUN", "CC"} -> "CN"
                     [] OTHER -> s.state
           o == Disconnecting(s)
           a == [s EXCEPT !.sk = "CLOSE", !.state = next, !.so = o, !.fxn = "destroy"]
<1>1. s \in Sock
  BY DEF Whole, Good
<1>2. /\ next \in State
      /\ next = s.state \/ (next \in Ended \ {"GONE"} /\ s.state \notin {"FREE", "GONE"})
  BY <1>1, SockIs DEF State, Ended
<1>3. DiscConf(s, m) = Persist(a)
  BY DEF DiscConf
<1>4. o \in {"UNCONNECTED", "CONNECTING", "CONNECTED", "DISCONNECTING"}
  BY <1>1, DisconnectingIs
<1> HIDE DEF next, o
<1>5. /\ a \in Sock /\ a.state = next /\ a.rem = s.rem /\ a.tries = s.tries /\ a.count = s.count
      /\ a.loc = s.loc /\ a.ran = s.ran
      /\ a.nsent = s.nsent /\ a.nack = s.nack /\ a.pend = s.pend /\ a.hashed = s.hashed
      /\ a.fxn = "destroy" /\ a.call = s.call /\ a.out = s.out
  BY ZenonT(40), <1>1, <1>2, <1>4 DEF Sock
<1> HIDE DEF a
<1>6. Works(p, s, a)
  BY <1>2, <1>5, TweakWorks
<1>7. Works(p, a, Persist(a)) /\ Persist(a).ran = a.ran
  BY <1>5, <1>6, PersistWorks DEF Works
<1> QED BY <1>3, <1>5, <1>6, <1>7, WorksOn

LEMMA ShiftWorks ==
  ASSUME NEW p \in Port, NEW s, Whole(p, s), s.call # "take"
  PROVE  LET t == [s EXCEPT !.shift = 0]
         IN  /\ Works(p, s, t) /\ t.ran = s.ran /\ t.rem = s.rem /\ t.call = s.call
             /\ t.hashed = s.hashed /\ t.state = s.state /\ t.dead = s.dead
<1> DEFINE t == [s EXCEPT !.shift = 0]
<1>1. s \in Sock /\ (s.persist => s.fxn # "none") /\ 0 \in 0 .. DiCount
  BY CountAssumption DEF Whole, Good
<1>2. /\ t \in Sock /\ t.state = s.state /\ t.rem = s.rem /\ t.tries = s.tries /\ t.count = s.count
      /\ t.loc = s.loc /\ t.ran = s.ran /\ t.dead = s.dead
      /\ t.nsent = s.nsent /\ t.nack = s.nack /\ t.pend = s.pend /\ t.hashed = s.hashed
      /\ t.persist = s.persist /\ t.fxn = s.fxn /\ t.call = s.call /\ t.out = s.out
  BY <1>1 DEF Sock
<1> HIDE DEF t
<1>3. Works(p, s, t)
  BY <1>1, <1>2, TweakWorks
<1> QED BY <1>2, <1>3 DEF t

\* Only a message of an established link takes an accepted socket to RUN.
LEMMA ReceiveWorks ==
  ASSUME NEW p \in Port, NEW s, Whole(p, s), NEW m, Routed(m), FindBySkb(s, m),
         m.kind \notin {"CI", "RCI", "RTS"}
  PROVE  LET t == Receive(s, m)
         IN  /\ Works(p, s, t)
             /\ p \in Callee /\ t.ran => s.ran \/ (m.kind \in {"LS", "ACK"} /\ t.rem = m.src)
<1> DEFINE a == [s EXCEPT !.shift = 0]
<1>1. s.hashed /\ (s.rem = None \/ s.rem = m.src) /\ s.call # "take"
  BY DEF FindBySkb, Whole, Good
<1>2. /\ Works(p, s, a) /\ a.ran = s.ran /\ a.rem = s.rem /\ a.call # "take"
      /\ a.hashed = s.hashed /\ a.state = s.state
  BY <1>1, ShiftWorks
<1>3. m \in Packet /\ m.kind \in {"CC", "CA", "DI", "DC", "NL", "LS", "ACK"}
  BY DEF Routed, Packet, Kind
<1>4. Receive(s, m) =
        CASE m.kind = "CC"  -> ConnConf(a, m)
          [] m.kind = "CA"  -> ConnAck(a)
          [] m.kind = "DI"  -> DiscInit(a, m)
          [] m.kind \in {"DC", "NL"} -> DiscConf(a, m)
          [] m.kind = "LS"  -> LinkService(Established(a), m)
          [] m.kind = "ACK" -> ProcessAck(Established(a), m)
  BY DEF Receive
<1> HIDE DEF a
<1>5. Whole(p, a)
  BY <1>2 DEF Works
<1>6. CASE m.kind = "CC"
  <2>1. m.src \in Port
    BY <1>6 DEF Routed
  <2>2. LET t == ConnConf(a, m) IN Works(p, a, t) /\ (p \in Callee => t.ran = a.ran)
    BY <1>2, <1>5, <2>1, ConnConfWorks
  <2> QED BY <1>2, <1>4, <1>6, <2>2, WorksOn
<1>7. CASE m.kind = "CA"
  <2>1. LET t == ConnAck(a) IN Works(p, a, t) /\ t.ran = a.ran
    BY <1>2, <1>5, ConnAckWorks
  <2> QED BY <1>2, <1>4, <1>7, <2>1, WorksOn
<1>8. CASE m.kind = "DI"
  <2>1. LET t == DiscInit(a, m) IN Works(p, a, t) /\ t.ran = a.ran
    BY <1>1, <1>2, <1>3, <1>5, DiscInitWorks
  <2> QED BY <1>2, <1>4, <1>8, <2>1, WorksOn
<1>9. CASE m.kind \in {"DC", "NL"}
  <2>1. LET t == DiscConf(a, m) IN Works(p, a, t) /\ t.ran = a.ran
    BY <1>2, <1>5, DiscConfWorks
  <2>2. Receive(s, m) = DiscConf(a, m)
    BY <1>4, <1>9
  <2> QED BY <1>2, <2>1, <2>2, WorksOn
<1>10. Works(p, a, Established(a)) /\ Established(a).rem = a.rem /\ Established(a).call = a.call
  BY <1>2, <1>5, EstablishedWorks
<1> DEFINE b == Established(a)
<1>11. Works(p, a, b) /\ b.rem = a.rem /\ b.call # "take" /\ Whole(p, b) /\ Works(p, s, b)
  BY <1>2, <1>10, WorksOn DEF Works
<1>12. p \in Callee => b.rem = m.src
  BY <1>1, <1>2, <1>11, Ports DEF Whole, Good
<1> HIDE DEF b
<1>13. CASE m.kind = "LS"
  <2>1. LET t == LinkService(b, m) IN Works(p, b, t) /\ t.ran = b.ran /\ t.rem = b.rem
    BY <1>3, <1>11, LinkServiceWorks
  <2>2. Receive(s, m) = LinkService(b, m)
    BY <1>4, <1>13 DEF b
  <2> QED BY <1>11, <1>12, <1>13, <2>1, <2>2, WorksOn
<1>14. CASE m.kind = "ACK"
  <2>1. LET t == ProcessAck(b, m) IN Works(p, b, t) /\ (b.ran => t.ran) /\ (t.ran => b.ran)
    BY <1>3, <1>11, ProcessAckWorks
  <2>2. Receive(s, m) = ProcessAck(b, m)
    BY <1>4, <1>14 DEF b
  <2>3. ProcessAck(b, m).ran => ProcessAck(b, m).rem = b.rem
    BY <2>1 DEF Works, Follows
  <2> QED BY <1>11, <1>12, <1>14, <2>1, <2>2, <2>3, WorksOn
<1> QED BY <1>3, <1>6, <1>7, <1>8, <1>9, <1>13, <1>14

-----------------------------------------------------------------------------
(* af_decnet.c *)

LEMMA FreedWorks ==
  ASSUME NEW p \in Port, NEW s, Whole(p, s)
  PROVE  Works(p, s, Freed(s)) /\ Freed(s).ran = s.ran
<1> DEFINE r == IF s.ran THEN s.rem ELSE None
           n == New(p, "GONE")
           t == [n EXCEPT !.rem = r, !.dead = s.dead, !.ran = s.ran, !.out = s.out]
<1>1. /\ s \in Sock /\ s.loc = p /\ s.rem \in Port \cup {None} /\ s.dead \in BOOLEAN
      /\ s.ran \in BOOLEAN /\ s.out \in SUBSET Packet
  BY SockIs DEF Whole, Good
<1>2. Freed(s) = t
  BY <1>1 DEF Freed
<1>3. "GONE" \in State /\ "GONE" \in Ended /\ "GONE" \notin Early
  BY DEF State, Ended, Early
<1>4. r \in Port \cup {None} /\ (s.ran => r = s.rem)
  BY <1>1
<1>5. 0 \in 0 .. Retrans /\ 0 \in 0 .. DiCount /\ 0 \in 0 .. MaxLink /\ 0 \in 0 .. (Retrans + 1)
  BY CountAssumption, BoundAssumption
<1>6. /\ n \in Sock /\ n.loc = p /\ n.state = "GONE" /\ n.hashed = FALSE
      /\ n.call = "none" /\ n.fxn = "none" /\ n.persist = FALSE /\ n.nsent = 0 /\ n.pend = FALSE
  BY <1>1, <1>3, <1>5 DEF New, Sock
<1> HIDE DEF n, r
<1>7. /\ t \in Sock /\ t.loc = p /\ t.state = "GONE" /\ t.hashed = FALSE /\ t.call = "none"
      /\ t.fxn = "none" /\ t.persist = FALSE /\ t.nsent = 0 /\ t.pend = FALSE
      /\ t.rem = r /\ t.ran = s.ran /\ t.out = s.out
  <2> DEFINE c == [n EXCEPT !.rem = r, !.dead = s.dead, !.ran = s.ran]
  <2>1. /\ c \in Sock /\ c.loc = p /\ c.state = "GONE" /\ c.hashed = FALSE /\ c.call = "none"
        /\ c.fxn = "none" /\ c.persist = FALSE /\ c.nsent = 0 /\ c.pend = FALSE
        /\ c.rem = r /\ c.ran = s.ran
    <3> DEFINE dead == s.dead
               ran == s.ran
    <3>1. dead \in BOOLEAN /\ ran \in BOOLEAN
      BY <1>1
    <3>2. c = [n EXCEPT !.rem = r, !.dead = dead, !.ran = ran]
      OBVIOUS
    <3> HIDE DEF c, dead, ran
    <3>3. n \in Sock /\ r \in Port \cup {None}
      BY <1>4, <1>6
    <3>4. c \in Sock /\ c.rem = r /\ c.ran = ran
      BY ZenonT(40), <3>1, <3>2, <3>3 DEF Sock
    <3>5. /\ c.loc = n.loc /\ c.state = n.state /\ c.hashed = n.hashed /\ c.call = n.call
          /\ c.fxn = n.fxn /\ c.persist = n.persist /\ c.nsent = n.nsent /\ c.pend = n.pend
      BY <3>2, <3>3 DEF Sock
    <3> QED BY <1>6, <3>4, <3>5 DEF ran
  <2>2. t = [c EXCEPT !.out = s.out]
    BY <1>6 DEF Sock
  <2> HIDE DEF c, t
  <2>3. t.out = s.out /\ Untouched(c, t)
    BY <1>1, <2>1, <2>2, OutIs
  <2> QED BY <2>1, <2>3 DEF Untouched
<1> HIDE DEF t
<1>8. Good(p, t)
  BY <1>3, <1>4, <1>7, Ports DEF Whole, Good
<1>9. Follows(s, t)
  BY <1>3, <1>4, <1>7 DEF Follows
<1> QED BY <1>1, <1>2, <1>7, <1>8, <1>9, Quiet DEF Works, Whole

\* The socket of a link that has ended, or is ending, enters another such state.
LEMMA EndWorks ==
  ASSUME NEW p \in Port, NEW s, Whole(p, s), s.call # "take", NEW x \in Ended \ {"GONE"},
         s.state \notin {"FREE", "GONE"}
  PROVE  LET t == [s EXCEPT !.state = x]
         IN  /\ Works(p, s, t) /\ t.ran = s.ran /\ t.state = x
             /\ t.call = s.call /\ t.fxn = s.fxn
<1> DEFINE t == [s EXCEPT !.state = x]
<1>1. s \in Sock /\ (s.persist => s.fxn # "none") /\ x \in State
  BY EndedIs DEF Whole, Good
<1>2. /\ t \in Sock /\ t.state = x /\ t.rem = s.rem
      /\ t.loc = s.loc /\ t.ran = s.ran /\ t.hashed = s.hashed
      /\ t.nsent = s.nsent /\ t.nack = s.nack /\ t.pend = s.pend
      /\ t.persist = s.persist /\ t.fxn = s.fxn /\ t.call = s.call /\ t.out = s.out
  BY <1>1 DEF Sock
<1> HIDE DEF t
<1>3. Works(p, s, t)
  BY <1>1, <1>2, TweakWorks
<1> QED BY <1>2, <1>3 DEF t

LEMMA DestroyTimerWorks ==
  ASSUME NEW p \in Port, NEW s0, Whole(p, s0), s0.call # "take", s0.fxn = "destroy", NEW quiet
  PROVE  LET t == DestroyTimer(s0, quiet) IN Works(p, s0, t) /\ t.ran = s0.ran
<1> DEFINE s == Persist(s0)
           last == s.shift >= DiCount
           d == SendDisc(s, "DI")
<1>1. Works(p, s0, s) /\ s.ran = s0.ran /\ s.call # "take"
  BY PersistWorks
<1>2. DestroyTimer(s0, quiet) =
        CASE s.state = "DI" -> [d EXCEPT !.state = IF last THEN "CN" ELSE @]
          [] s.state = "DR" -> [d EXCEPT !.state = IF last THEN "DRC" ELSE @]
          [] OTHER -> IF s.dead /\ quiet THEN Freed(s) ELSE s
  BY DEF DestroyTimer
<1> HIDE DEF s
<1>3. Works(p, s, d) /\ d.ran = s0.ran /\ d.call # "take" /\ d.state = s.state
  BY <1>1, SendDiscWorks DEF Works, Untouched
<1>4. Works(p, s0, d)
  BY <1>1, <1>3, WorksOn
<1> HIDE DEF d
<1>5. ASSUME NEW x \in Ended \ {"GONE"}, s.state \in {"DI", "DR"}
      PROVE  Works(p, s0, [d EXCEPT !.state = x]) /\ [d EXCEPT !.state = x].ran = s0.ran
  <2>1. LET t == [d EXCEPT !.state = x] IN Works(p, d, t) /\ t.ran = d.ran
    BY <1>3, <1>5, EndWorks DEF Works
  <2> QED BY <1>3, <1>4, <2>1, WorksOn
<1>6. \A x : x \in {"DI", "DR", "CN", "DRC"} => x \in Ended \ {"GONE"}
  BY DEF Ended
<1>7. CASE s.state = "DI"
  <2> DEFINE x == IF last THEN "CN" ELSE "DI"
  <2>1. DestroyTimer(s0, quiet) = [d EXCEPT !.state = x] /\ x \in Ended \ {"GONE"}
    BY <1>2, <1>3, <1>6, <1>7
  <2> QED BY <1>5, <1>7, <2>1
<1>8. CASE s.state = "DR"
  <2> DEFINE x == IF last THEN "DRC" ELSE "DR"
  <2>1. DestroyTimer(s0, quiet) = [d EXCEPT !.state = x] /\ x \in Ended \ {"GONE"}
    BY <1>2, <1>3, <1>6, <1>8
  <2> QED BY <1>5, <1>8, <2>1
<1>9. CASE s.state \notin {"DI", "DR"}
  <2>1. DestroyTimer(s0, quiet) = IF s.dead /\ quiet THEN Freed(s) ELSE s
    BY <1>2, <1>9
  <2>2. Works(p, s, Freed(s)) /\ Freed(s).ran = s.ran
    BY <1>1, FreedWorks DEF Works
  <2>3. Works(p, s0, Freed(s))
    BY <1>1, <2>2, WorksOn
  <2> QED BY <1>1, <2>1, <2>2, <2>3
<1> QED BY <1>7, <1>8, <1>9

LEMMA DestroySockWorks ==
  ASSUME NEW p \in Port, NEW s0, Whole(p, s0), s0.call # "take"
  PROVE  LET t == DestroySock(s0) IN Works(p, s0, t) /\ t.ran = s0.ran
<1> DEFINE o == Disconnecting(s0)
           s == [s0 EXCEPT !.shift = 0, !.so = o, !.sk = "CLOSE"]
           next == CASE s.state = "CR" -> "DR"
                     [] s.state = "RUN" -> "DI"
                     [] OTHER -> s.state
           t == [s EXCEPT !.state = next]
           u == CASE next = "DN" -> SendDisc(t, "DC")
                  [] next \in {"DI", "DR"} -> SendDisc(t, "DI")
                  [] OTHER -> t
           d == [u EXCEPT !.fxn = "destroy"]
<1>1. s0 \in Sock /\ (s0.persist => s0.fxn # "none") /\ 0 \in 0 .. DiCount
  BY CountAssumption DEF Whole, Good
<1>2. o \in {"UNCONNECTED", "CONNECTING", "CONNECTED", "DISCONNECTING"}
  BY <1>1, DisconnectingIs
<1>3. DestroySock(s0) = IF s.state \in {"O", "CC"} THEN Freed(s) ELSE Persist(d)
  BY DEF DestroySock
<1> HIDE DEF o
<1>4. /\ s \in Sock /\ s.state = s0.state /\ s.rem = s0.rem /\ s.tries = s0.tries
      /\ s.count = s0.count /\ s.loc = s0.loc /\ s.ran = s0.ran
      /\ s.nsent = s0.nsent /\ s.nack = s0.nack /\ s.pend = s0.pend /\ s.hashed = s0.hashed
      /\ s.persist = s0.persist /\ s.fxn = s0.fxn /\ s.call = s0.call /\ s.out = s0.out
  BY <1>1, <1>2 DEF Sock
<1> HIDE DEF s
<1>5. Works(p, s0, s)
  BY <1>1, <1>4, TweakWorks
<1>6. CASE s.state \in {"O", "CC"}
  <2>1. Works(p, s, Freed(s)) /\ Freed(s).ran = s.ran
    BY <1>5, FreedWorks DEF Works
  <2> QED BY <1>3, <1>4, <1>5, <1>6, <2>1, WorksOn
<1>7. CASE s.state \notin {"O", "CC"}
  <2>1. next = s.state \/ (next \in Ended \ {"GONE"} /\ s.state \notin {"FREE", "GONE"})
    BY DEF Ended
  <2> HIDE DEF next
  <2>2. Works(p, s0, t) /\ t.ran = s.ran /\ t.call # "take"
    <3>1. CASE next = s.state
      <4>1. t = s
        BY <1>4, <3>1 DEF Sock
      <4> QED BY <1>4, <1>5, <4>1
    <3>2. CASE next \in Ended \ {"GONE"} /\ s.state \notin {"FREE", "GONE"}
      <4>1. Works(p, s, t) /\ t.ran = s.ran /\ t.call = s.call
        BY <1>4, <1>5, <3>2, EndWorks DEF Works
      <4> QED BY <1>4, <1>5, <4>1, WorksOn
    <3> QED BY <2>1, <3>1, <3>2
  <2> HIDE DEF t
  <2>3. ASSUME NEW k \in {"DC", "DI"}
        PROVE  LET v == SendDisc(t, k) IN Works(p, s0, v) /\ v.ran = s.ran /\ v.call # "take"
    <3>1. LET v == SendDisc(t, k) IN Works(p, t, v) /\ Untouched(t, v)
      BY <2>2, SendDiscWorks DEF Works
    <3> QED BY <2>2, <3>1, WorksOn DEF Untouched
  <2>4. Works(p, s0, u) /\ u.ran = s.ran /\ u.call # "take"
    BY <2>2, <2>3
  <2> HIDE DEF u
  <2>5. Works(p, u, d) /\ d.ran = s.ran /\ d.call # "take" /\ d.fxn = "destroy"
    BY <2>4, DestroyTimerSet DEF Works
  <2> HIDE DEF d
  <2>6. Works(p, d, Persist(d)) /\ Persist(d).ran = s.ran
    BY <2>5, PersistWorks DEF Works
  <2>7. Works(p, s0, d)
    BY <2>4, <2>5, WorksOn
  <2> QED BY <1>3, <1>4, <1>7, <2>6, <2>7, WorksOn
<1> QED BY <1>6, <1>7

LEMMA ExpiredWorks ==
  ASSUME NEW p \in Port, NEW s0, Whole(p, s0), s0.persist, NEW quiet
  PROVE  LET t == Expired(s0, quiet) IN Works(p, s0, t) /\ t.ran = s0.ran
<1> DEFINE s == [s0 EXCEPT !.persist = FALSE]
<1>1. s0 \in Sock /\ s0.fxn # "none" /\ s0.call # "take"
  BY DEF Whole, Good
<1>2. /\ s \in Sock /\ s.state = s0.state /\ s.rem = s0.rem /\ s.tries = s0.tries
      /\ s.count = s0.count /\ s.loc = s0.loc /\ s.ran = s0.ran
      /\ s.nsent = s0.nsent /\ s.nack = s0.nack /\ s.pend = s0.pend /\ s.hashed = s0.hashed
      /\ ~s.persist /\ s.fxn = s0.fxn /\ s.call = s0.call /\ s.out = s0.out
  BY <1>1 DEF Sock
<1>3. Expired(s0, quiet) =
        CASE s.fxn = "conninit" -> RetransConnInit(s)
          [] s.fxn = "connconf" -> RetransConnConf(s)
          [] s.fxn = "xmit" -> XmitTimeout(s)
          [] s.fxn = "destroy" -> DestroyTimer(s, quiet)
  BY DEF Expired
<1> HIDE DEF s
<1>4. Works(p, s0, s) /\ Whole(p, s) /\ s.call # "take"
  <2>1. Works(p, s0, s)
    BY <1>1, <1>2, TweakWorks
  <2> QED BY <1>1, <1>2, <2>1 DEF Works
<1>5. s.fxn \in {"conninit", "connconf", "xmit", "destroy"}
  BY <1>1, <1>2, SockIs
<1>6. CASE s.fxn = "conninit"
  BY <1>2, <1>3, <1>4, <1>6, RetransConnInitWorks, WorksOn
<1>7. CASE s.fxn = "connconf"
  <2>1. Expired(s0, quiet) = RetransConnConf(s)
    BY <1>3, <1>7
  <2> QED BY <1>2, <1>4, <1>7, <2>1, RetransConnConfWorks, WorksOn
<1>8. CASE s.fxn = "xmit"
  <2>1. Expired(s0, quiet) = XmitTimeout(s)
    BY <1>3, <1>8
  <2> QED BY <1>2, <1>4, <1>8, <2>1, XmitTimeoutWorks, WorksOn
<1>9. CASE s.fxn = "destroy"
  <2>1. Expired(s0, quiet) = DestroyTimer(s, quiet)
    BY <1>3, <1>9
  <2> QED BY <1>2, <1>4, <1>9, <2>1, DestroyTimerWorks, WorksOn
<1> QED BY <1>5, <1>6, <1>7, <1>8, <1>9

\* n is a socket just allocated for port p.
Fresh(n, p, x) ==
  /\ n \in Sock /\ n.loc = p /\ n.rem = None /\ n.state = x /\ ~n.hashed
  /\ n.so = "UNCONNECTED" /\ n.call = "none" /\ n.fxn = "none"
  /\ ~n.persist /\ ~n.conn /\ n.nsent = 0 /\ ~n.pend
  /\ ~n.ran /\ n.tries = 0 /\ n.out = {}

LEMMA NewIs ==
  ASSUME NEW p \in Port, NEW x \in State
  PROVE  Fresh(New(p, x), p, x)
<1>1. 0 \in 0 .. Retrans /\ 0 \in 0 .. DiCount /\ 0 \in 0 .. MaxLink /\ 0 \in 0 .. (Retrans + 1)
  BY CountAssumption, BoundAssumption
<1> QED BY <1>1 DEF New, Sock, Fresh

\* Outside dn_accept, a call changes only so, err, call, dead and the
\* connection timer of a socket, and what it sends.
LEMMA CallWorks ==
  ASSUME NEW p \in Port, NEW s, NEW t \in Sock, Whole(p, s), s.call # "take", t.call # "take",
         t.loc = s.loc, t.rem = s.rem, t.ran = s.ran, t.state = s.state,
         t.tries = s.tries, t.count = s.count,
         t.nsent = s.nsent, t.nack = s.nack, t.pend = s.pend, t.hashed = s.hashed,
         t.persist = s.persist, t.fxn = s.fxn, t.out = s.out
  PROVE  Works(p, s, t) /\ t.ran = s.ran
<1>1. s.persist => s.fxn # "none"
  BY DEF Whole, Good
<1> QED BY <1>1, TweakWorks

LEMMA ConfirmAcceptWorks ==
  ASSUME NEW p \in Port, NEW s, Whole(p, s), s.state = "CR"
  PROVE  LET t == ConfirmAccept(s) IN Works(p, s, t) /\ t.ran = s.ran
<1> DEFINE t == ConfirmAccept(s)
           m == [kind |-> "CC", src |-> s.loc, dst |-> s.rem, num |-> 0]
           a == s.tries + 1
           X == s.out \cup {m}
           h == [s EXCEPT !.state = "CC", !.out = X, !.tries = a]
<1>1. s \in Sock /\ s.loc = p /\ p \in Callee /\ s.rem \in Port /\ s.tries = 0
  BY Ports, SockIs DEF Whole, Good
<1>2. Routed(m) /\ m \in Packet /\ m.src = p /\ m.kind = "CC"
  BY <1>1, ConnConfMessage
<1>3. t = [h EXCEPT !.persist = TRUE, !.count = Retrans, !.fxn = "connconf", !.call = "accept"]
  <2>1. SendConnConf([s EXCEPT !.state = "CC"]) = h
    BY <1>1 DEF SendConnConf, Send, Sock
  <2> HIDE DEF h
  <2> QED BY <2>1 DEF ConfirmAccept
<1> HIDE DEF m, t
<1>4. a = 1 /\ a \in 0 .. (Retrans + 1) /\ Retrans \in 0 .. Retrans /\ a + Retrans = Retrans + 1
  BY <1>1, CountAssumption
<1>5. X \in SUBSET Packet /\ "CC" \in State
  BY <1>1, <1>2, SockIs DEF State
<1> HIDE DEF a, X
<1>6. /\ h \in Sock /\ h.loc = s.loc /\ h.rem = s.rem /\ h.ran = s.ran /\ h.state = "CC"
      /\ h.nsent = s.nsent /\ h.nack = s.nack /\ h.pend = s.pend /\ h.hashed = s.hashed
      /\ h.out = X /\ h.tries = a
  <2>1. s \in Sock /\ a \in 0 .. (Retrans + 1)
    BY <1>1, <1>4
  <2> QED BY <1>5, <2>1 DEF Sock
<1> HIDE DEF h
<1>7. /\ t \in Sock /\ t.loc = s.loc /\ t.rem = s.rem /\ t.ran = s.ran /\ t.state = "CC"
      /\ t.nsent = s.nsent /\ t.nack = s.nack /\ t.pend = s.pend /\ t.hashed = s.hashed
      /\ t.out = X /\ t.tries = a /\ t.count = Retrans /\ t.fxn = "connconf" /\ t.call = "accept"
  <2>1. /\ t \in Sock /\ t.count = Retrans /\ t.fxn = "connconf" /\ t.call = "accept"
    BY <1>3, <1>4, <1>6 DEF Sock
  <2>2. /\ t.loc = h.loc /\ t.rem = h.rem /\ t.ran = h.ran /\ t.state = h.state
        /\ t.nsent = h.nsent /\ t.nack = h.nack /\ t.pend = h.pend /\ t.hashed = h.hashed
        /\ t.out = h.out /\ t.tries = h.tries
    BY <1>3, <1>6 DEF Sock
  <2> QED BY <1>6, <2>1, <2>2
<1>8. t.out = s.out \cup {m} /\ t.tries + t.count = Retrans + 1
  BY <1>4, <1>7 DEF X
<1>9. Works(p, s, t)
  BY <1>1, <1>2, <1>7, <1>8, AttemptWorks
<1> QED BY <1>7, <1>9 DEF t

\* The connect acknowledgement names no source port.
LEMMA TakenWorks ==
  ASSUME NEW p \in Port, NEW s, Whole(p, s), s.call = "take"
  PROVE  LET t == [SendConnAck(s) EXCEPT !.hashed = TRUE, !.call = "none"]
         IN  Works(p, s, t) /\ t.ran = s.ran /\ t.state = "CR"
<1> DEFINE m == [kind |-> "CA", src |-> None, dst |-> s.rem, num |-> 0]
           h == [s EXCEPT !.out = @ \cup {m}]
           t == [h EXCEPT !.hashed = TRUE, !.call = "none"]
<1>1. s \in Sock /\ s.loc = p /\ s.state = "CR" /\ p \in Callee /\ s.rem \in Port
  BY Ports, SockIs DEF Whole, Good
<1>2. m \in Packet /\ m.kind = "CA" /\ m.src \notin Port /\ m.dst \in Port
  <2>1. "CA" \in Kind /\ 0 \in 0 .. MaxLink
    BY BoundAssumption DEF Kind
  <2> QED BY <1>1, <2>1, Ports DEF Packet
<1> HIDE DEF m
<1>3. Routed(m)
  BY <1>2 DEF Routed
<1>4. Good(p, h) /\ Sent(h) /\ Follows(s, h)
  BY <1>2, <1>3, SentMore DEF Whole
<1>5. Untouched(s, h)
  <2>1. h = [s EXCEPT !.out = s.out \cup {m}] /\ s.out \cup {m} \in SUBSET Packet
    BY <1>1, <1>2, SockIs
  <2> QED BY <1>1, <2>1, OutIs
<1>6. [SendConnAck(s) EXCEPT !.hashed = TRUE, !.call = "none"] = t
  BY DEF SendConnAck, m
<1> HIDE DEF h
<1>7. h \in Sock /\ h.state = "CR" /\ h.call = "take"
  BY <1>1, <1>5 DEF Untouched
<1>8. /\ t \in Sock /\ t.state = h.state /\ t.rem = h.rem /\ t.tries = h.tries /\ t.count = h.count
      /\ t.loc = h.loc /\ t.ran = h.ran
      /\ t.nsent = h.nsent /\ t.nack = h.nack /\ t.pend = h.pend /\ t.hashed
      /\ t.persist = h.persist /\ t.fxn = h.fxn /\ t.call = "none" /\ t.out = h.out
  BY <1>7 DEF Sock
<1> HIDE DEF t
<1>9. Good(p, t) /\ Follows(h, t)
  BY <1>1, <1>4, <1>7, <1>8 DEF Good, Follows
<1>10. Works(p, h, t) /\ Works(p, s, h)
  BY <1>4, <1>8, <1>9, Quiet DEF Works, Whole
<1> QED BY <1>5, <1>6, <1>7, <1>8, <1>10, WorksOn DEF Untouched

\* The call lets go of a socket that is closed or lost in a restart.
LEMMA DeadWorks ==
  ASSUME NEW p \in Port, NEW s, Whole(p, s)
  PROVE  LET t == [s EXCEPT !.dead = TRUE] IN Works(p, s, t) /\ t.ran = s.ran /\ t.out = s.out
<1> DEFINE t == [s EXCEPT !.dead = TRUE]
<1>1. s \in Sock
  BY DEF Whole, Good
<1>2. /\ t \in Sock /\ t.state = s.state /\ t.rem = s.rem /\ t.tries = s.tries /\ t.count = s.count
      /\ t.loc = s.loc /\ t.ran = s.ran /\ t.so = s.so /\ t.conn = s.conn
      /\ t.nsent = s.nsent /\ t.nack = s.nack /\ t.pend = s.pend /\ t.hashed = s.hashed
      /\ t.persist = s.persist /\ t.fxn = s.fxn /\ t.call = s.call /\ t.out = s.out
  BY <1>1 DEF Sock
<1> HIDE DEF t
<1>3. Good(p, t) /\ Follows(s, t)
  BY <1>2 DEF Whole, Good, Follows
<1> QED BY <1>2, <1>3, Quiet DEF Works, Whole, t

LEMMA LeaveWorks ==
  ASSUME NEW p \in Port, NEW s, Whole(p, s), s.call \in {"connect", "accept"}
  PROVE  LET t == Leave(s) IN Works(p, s, t) /\ t.ran = s.ran
<1> DEFINE ok == s.state = "RUN"
           waiting == IF s.call = "connect" THEN {"CI", "CC"} ELSE {"CC"}
           o == IF ok THEN "CONNECTED" ELSE IF s.state \in waiting THEN s.so ELSE "UNCONNECTED"
           e == ok /\ s.err
           c == IF ~ok /\ s.call = "accept" /\ Immediate THEN "failed" ELSE "none"
           t == [s EXCEPT !.so = o, !.err = e, !.call = c]
<1>1. s \in Sock /\ s.so \in {"UNCONNECTED", "CONNECTING", "CONNECTED", "DISCONNECTING"}
  BY SockIs DEF Whole, Good
<1>2. Leave(s) = t
  BY DEF Leave
<1>3. /\ o \in {"UNCONNECTED", "CONNECTING", "CONNECTED", "DISCONNECTING"}
      /\ e \in BOOLEAN /\ c \in {"none", "failed"}
  BY <1>1, SockIs
<1> HIDE DEF o, e, c
<1>4. /\ t \in Sock /\ t.state = s.state /\ t.rem = s.rem /\ t.tries = s.tries /\ t.count = s.count
      /\ t.loc = s.loc /\ t.ran = s.ran /\ t.hashed = s.hashed
      /\ t.nsent = s.nsent /\ t.nack = s.nack /\ t.pend = s.pend
      /\ t.persist = s.persist /\ t.fxn = s.fxn /\ t.call = c /\ t.out = s.out
  <2>1. s \in Sock /\ c \in {"none", "connect", "take", "accept", "failed"}
    BY <1>1, <1>3
  <2>2. t \in Sock /\ t.call = c
    BY ZenonT(40), <1>3, <2>1 DEF Sock
  <2>3. /\ t.state = s.state /\ t.rem = s.rem /\ t.tries = s.tries /\ t.count = s.count
        /\ t.loc = s.loc /\ t.ran = s.ran /\ t.hashed = s.hashed
        /\ t.nsent = s.nsent /\ t.nack = s.nack /\ t.pend = s.pend
        /\ t.persist = s.persist /\ t.fxn = s.fxn /\ t.out = s.out
    BY <2>1 DEF Sock
  <2> QED BY <2>2, <2>3
<1> HIDE DEF t
<1>5. s.call # "take" /\ t.call # "take"
  BY <1>3, <1>4
<1> QED BY <1>2, <1>4, <1>5, CallWorks

-----------------------------------------------------------------------------
(* A step *)

\* No socket leaves the end of its link.
Final == \A p \in Port : sock[p].state \in Ended => sock'[p].state \in Ended

Counted(f) == f \in [loss : 0 .. MaxLoss, dup : 0 .. MaxDup, crash : 0 .. MaxCrash]

\* A callee enters RUN only for a caller that has been there with it.
Paired(q, t) == t.ran => \/ sock[q].ran
                         \/ t.rem \in Caller /\ sock[t.rem].ran /\ sock[t.rem].rem = q

\* A packet in flight may come from the socket of its source port.
Comes(m) == Routed(m) /\ (m.src \in Port => Mine(sock[m.src], m))

LEMMA StepKeeps ==
  ASSUME LinkInv,
         sock' \in [Port -> Sock],
         \A q \in Port : /\ Good(q, sock'[q]) /\ Follows(sock[q], sock'[q]) /\ sock'[q].out = {}
                         /\ q \in Callee => Paired(q, sock'[q]),
         \A m \in net' : Routed(m) /\ (m.src \in Port => \/ Mine(sock[m.src], m)
                                                         \/ Mine(sock'[m.src], m)),
         listening' \in BOOLEAN, queue' \in Seq(Packet),
         \A i \in DOMAIN queue' : queue'[i].src \in Caller,
         Counted(faults')
  PROVE  LinkInv' /\ Final
<1>1. TypeOK'
  <2>1. net' \subseteq Packet
    BY DEF Routed
  <2> QED BY <2>1 DEF TypeOK, Counted
<1>2. \A q \in Port : sock[q].loc = q /\ sock'[q].loc = q
  BY DEF LinkInv, Good
<1>3. ASSUME NEW m \in net', m.src \in Port
      PROVE  Mine(sock'[m.src], m)
  BY <1>2, <1>3 DEF Mine, Follows
<1>4. OneLinkPerConnect'
  <2> SUFFICES ASSUME NEW q \in Callee, sock'[q].ran
               PROVE  /\ sock'[q].rem \in Caller
                      /\ sock'[sock'[q].rem].ran
                      /\ sock'[sock'[q].rem].rem = q
    BY DEF OneLinkPerConnect
  <2>1. q \in Port
    BY Ports
  <2>2. sock'[q].rem \in Caller /\ sock[sock'[q].rem].ran /\ sock[sock'[q].rem].rem = q
    <3>1. CASE sock[q].ran
      <4>1. sock[q].rem \in Caller /\ sock[sock[q].rem].ran /\ sock[sock[q].rem].rem = q
        BY <3>1 DEF LinkInv, OneLinkPerConnect
      <4>2. sock'[q].rem = sock[q].rem
        BY <2>1, <3>1 DEF Follows
      <4> QED BY <4>1, <4>2
    <3>2. CASE ~sock[q].ran
      BY <2>1, <3>2 DEF Paired
    <3> QED BY <3>1, <3>2
  <2>3. sock'[q].rem \in Port
    BY <2>2, Ports
  <2> QED BY <2>2, <2>3 DEF Follows
<1>5. Final
  BY DEF Final, Follows
<1> QED BY <1>1, <1>3, <1>4, <1>5 DEF LinkInv

LEMMA LinkIs ==
  ASSUME LinkInv
  PROVE  /\ sock \in [Port -> Sock] /\ listening \in BOOLEAN /\ queue \in Seq(Packet)
         /\ Counted(faults)
         /\ \A q \in Port : /\ Whole(q, sock[q]) /\ sock[q].out = {}
                            /\ Follows(sock[q], sock[q]) /\ Paired(q, sock[q])
         /\ \A m \in net : Comes(m)
         /\ \A i \in DOMAIN queue : queue[i].src \in Caller
BY DEF LinkInv, TypeOK, Whole, Sent, Follows, Paired, Comes, Counted

LEMMA CarriedIs ==
  ASSUME NEW X, NEW Y
  PROVE  Carried(X, Y) \subseteq X
BY DEF Carried

\* One socket changes.
LEMMA UpdateKeeps ==
  ASSUME LinkInv, NEW p \in Port, NEW s, Works(p, sock[p], s), p \in Callee => Paired(p, s),
         NEW old, Update(p, s, old), UNCHANGED <<listening, queue>>, Counted(faults')
  PROVE  LinkInv' /\ Final
<1> DEFINE t == [s EXCEPT !.out = {}]
<1>1. sock' = [sock EXCEPT ![p] = t] /\ sock \in [Port -> Sock]
  BY LinkIs DEF Update
<1>2. Good(p, s) /\ Sent(s) /\ Follows(sock[p], s) /\ s \in Sock
  BY DEF Works, Whole, Good
<1>3. Good(p, t) /\ Follows(s, t) /\ t.out = {} /\ Untouched(s, t)
  <2>1. {} \in SUBSET Packet
    OBVIOUS
  <2> QED BY <1>2, <2>1, OutGood, OutIs
<1> HIDE DEF t
<1>4. t \in Sock /\ t.ran = s.ran /\ t.rem = s.rem /\ t.loc = p /\ Follows(sock[p], t)
  BY <1>2, <1>3 DEF Good, Untouched, Follows
<1>5. sock' \in [Port -> Sock] /\ sock'[p] = t /\ \A q \in Port : q # p => sock'[q] = sock[q]
  BY <1>1, <1>4
<1>6. ASSUME NEW q \in Port
      PROVE  /\ Good(q, sock'[q]) /\ Follows(sock[q], sock'[q]) /\ sock'[q].out = {}
             /\ q \in Callee => Paired(q, sock'[q])
  <2>1. CASE q = p
    BY <1>3, <1>4, <1>5, <2>1 DEF Paired
  <2>2. CASE q # p
    BY <1>5, <2>2, LinkIs DEF Whole
  <2> QED BY <2>1, <2>2
<1>7. ASSUME NEW m \in net'
      PROVE  Routed(m) /\ (m.src \in Port => Mine(sock[m.src], m) \/ Mine(sock'[m.src], m))
  <2>1. m \in net \/ m \in s.out
    BY CarriedIs DEF Update
  <2>2. CASE m \in net
    BY <2>2, LinkIs DEF Comes
  <2>3. CASE m \in s.out
    <3>1. Routed(m) /\ (m.src \in Port => m.src = p /\ Mine(s, m))
      BY <1>2, <2>3 DEF Sent, Good
    <3>2. m.src \in Port => Mine(sock'[m.src], m)
      BY <1>2, <1>4, <1>5, <3>1 DEF Mine, Good
    <3> QED BY <3>1, <3>2
  <2> QED BY <2>1, <2>2, <2>3
<1>8. /\ listening' \in BOOLEAN /\ queue' \in Seq(Packet)
      /\ \A i \in DOMAIN queue' : queue'[i].src \in Caller
  BY LinkIs
<1> QED BY <1>5, <1>6, <1>7, <1>8, StepKeeps

\* A user call or a timer takes no callee to RUN.
LEMMA UserKeeps ==
  ASSUME LinkInv, NEW p \in Port, NEW s, Works(p, sock[p], s), s.ran = sock[p].ran, User(p, s)
  PROVE  LinkInv' /\ Final
<1>1. Paired(p, s)
  BY DEF Paired
<1>2. Update(p, s, {}) /\ UNCHANGED <<listening, queue>> /\ Counted(faults')
  BY LinkIs DEF User
<1> QED BY <1>1, <1>2, UpdateKeeps

\* Only packets, the receive queue and the counters change.
LEMMA NetKeeps ==
  ASSUME LinkInv, UNCHANGED sock, \A m \in net' : m \in net \/ Comes(m),
         listening' \in BOOLEAN, queue' \in Seq(Packet),
         \A i \in DOMAIN queue' : queue'[i].src \in Caller, Counted(faults')
  PROVE  LinkInv' /\ Final
<1>1. \A q \in Port : /\ Good(q, sock'[q]) /\ Follows(sock[q], sock'[q]) /\ sock'[q].out = {}
                      /\ q \in Callee => Paired(q, sock'[q])
  BY LinkIs DEF Whole
<1>2. \A m \in net' : Routed(m) /\ (m.src \in Port => Mine(sock[m.src], m) \/ Mine(sock'[m.src], m))
  BY LinkIs DEF Comes
<1>3. sock' \in [Port -> Sock]
  BY LinkIs
<1> QED BY <1>1, <1>2, <1>3, StepKeeps

-----------------------------------------------------------------------------
(* User calls *)

LEMMA ConnectKeeps ==
  ASSUME LinkInv, NEW p \in Port, Connect(p)
  PROVE  LinkInv' /\ Final
<1> DEFINE s == sock[p]
           t(call) == [SendConnInit(s, "CI") EXCEPT
                         !.state = "CI", !.so = "CONNECTING", !.fxn = "conninit",
                         !.persist = TRUE, !.count = Retrans, !.call = call]
           m == [kind |-> "CI", src |-> s.loc, dst |-> None, num |-> 0]
           X == s.out \cup {m}
           a == s.tries + 1
           h == [s EXCEPT !.out = X, !.tries = a, !.state = "CI", !.so = "CONNECTING"]
<1>1. Whole(p, s) /\ s.state = "O" /\ s.call = "none"
  BY LinkIs DEF Connect, Idle
<1>2. PICK call \in {"none", "connect"} : User(p, t(call))
  BY DEF Connect
<1> HIDE DEF s
<1>3. s \in Sock /\ s.loc = p /\ s.tries = 0 /\ p \in Caller
  BY <1>1, Ports DEF Whole, Good
<1>4. Routed(m) /\ m \in Packet /\ m.src = p /\ m.kind = "CI"
  BY <1>3, ConnInitMessage
<1>5. t(call) = [h EXCEPT !.fxn = "conninit", !.persist = TRUE, !.count = Retrans, !.call = call]
  BY <1>3 DEF SendConnInit, Sock
<1> HIDE DEF m, t
<1>6. a = 1 /\ a \in 0 .. (Retrans + 1) /\ Retrans \in 0 .. Retrans /\ a + Retrans = Retrans + 1
  BY <1>3, CountAssumption
<1>7. X \in SUBSET Packet /\ "CI" \in State /\ s \in Sock /\ a \in 0 .. (Retrans + 1)
  BY <1>3, <1>4, <1>6, SockIs DEF State
<1> HIDE DEF a, X
<1>8. /\ h \in Sock /\ h.loc = s.loc /\ h.rem = s.rem /\ h.ran = s.ran /\ h.state = "CI"
      /\ h.nsent = s.nsent /\ h.nack = s.nack /\ h.pend = s.pend /\ h.hashed = s.hashed
      /\ h.out = X /\ h.tries = a
  BY <1>7 DEF Sock
<1> HIDE DEF h
<1> DEFINE u == t(call)
<1>9. /\ u \in Sock /\ u.loc = s.loc /\ u.rem = s.rem /\ u.ran = s.ran /\ u.state = "CI"
      /\ u.nsent = s.nsent /\ u.nack = s.nack /\ u.pend = s.pend /\ u.hashed = s.hashed
      /\ u.out = X /\ u.tries = a /\ u.count = Retrans /\ u.fxn = "conninit" /\ u.call # "take"
  <2>1. call \in {"none", "connect", "take", "accept", "failed"} /\ call # "take"
    BY <1>2
  <2>2. h \in Sock /\ Retrans \in 0 .. Retrans
    BY <1>6, <1>8
  <2>3. /\ u \in Sock /\ u.count = Retrans /\ u.fxn = "conninit" /\ u.call # "take"
    <3> DEFINE k == [h EXCEPT !.fxn = "conninit", !.persist = TRUE]
    <3>1. k \in Sock /\ k.fxn = "conninit"
      BY <2>2 DEF Sock
    <3>2. u = [k EXCEPT !.count = Retrans, !.call = call]
      BY <1>5, <2>2 DEF Sock
    <3> HIDE DEF k, u
    <3> QED BY <2>1, <2>2, <3>1, <3>2 DEF Sock
  <2>4. /\ u.loc = h.loc /\ u.rem = h.rem /\ u.ran = h.ran /\ u.state = h.state
        /\ u.nsent = h.nsent /\ u.nack = h.nack /\ u.pend = h.pend /\ u.hashed = h.hashed
        /\ u.out = h.out /\ u.tries = h.tries
    BY <1>5, <2>2 DEF Sock
  <2> QED BY <1>8, <2>3, <2>4
<1> HIDE DEF u
<1>10. u.out = s.out \cup {m} /\ u.tries + u.count = Retrans + 1
  BY <1>6, <1>9 DEF X
<1>11. Works(p, s, u)
  BY <1>1, <1>3, <1>4, <1>9, <1>10, AttemptWorks
<1> QED BY <1>2, <1>9, <1>11, UserKeeps DEF u, s

\* Only what the user is told, and the call it is in, change.
LEMMA Retold ==
  ASSUME NEW p \in Port, NEW s, Whole(p, s), s.call # "take",
         NEW o \in {"UNCONNECTED", "CONNECTING", "CONNECTED", "DISCONNECTING"},
         NEW call \in {"none", "connect"}
  PROVE  /\ LET t == [s EXCEPT !.so = o] IN Works(p, s, t) /\ t.ran = s.ran
         /\ LET t == [s EXCEPT !.call = call] IN Works(p, s, t) /\ t.ran = s.ran
<1>1. s \in Sock
  BY DEF Whole, Good
<1>2. LET t == [s EXCEPT !.so = o] IN Works(p, s, t) /\ t.ran = s.ran
  <2> DEFINE t == [s EXCEPT !.so = o]
  <2>1. /\ t \in Sock /\ t.state = s.state /\ t.rem = s.rem /\ t.tries = s.tries /\ t.count = s.count
        /\ t.loc = s.loc /\ t.ran = s.ran /\ t.hashed = s.hashed
        /\ t.nsent = s.nsent /\ t.nack = s.nack /\ t.pend = s.pend
        /\ t.persist = s.persist /\ t.fxn = s.fxn /\ t.call = s.call /\ t.out = s.out
    BY <1>1 DEF Sock
  <2> HIDE DEF t
  <2>2. Works(p, s, t) /\ t.ran = s.ran
    BY <2>1, CallWorks
  <2> QED BY <2>2 DEF t
<1>3. LET t == [s EXCEPT !.call = call] IN Works(p, s, t) /\ t.ran = s.ran
  <2> DEFINE t == [s EXCEPT !.call = call]
  <2>1. /\ t \in Sock /\ t.state = s.state /\ t.rem = s.rem /\ t.tries = s.tries /\ t.count = s.count
        /\ t.loc = s.loc /\ t.ran = s.ran /\ t.hashed = s.hashed
        /\ t.nsent = s.nsent /\ t.nack = s.nack /\ t.pend = s.pend
        /\ t.persist = s.persist /\ t.fxn = s.fxn /\ t.call = call /\ t.out = s.out
    BY <1>1 DEF Sock
  <2> HIDE DEF t
  <2>2. Works(p, s, t) /\ t.ran = s.ran
    BY <2>1, CallWorks
  <2> QED BY <2>2 DEF t
<1> QED BY <1>2, <1>3

LEMMA IdleIs ==
  ASSUME LinkInv, NEW p \in Port, Idle(p)
  PROVE  Whole(p, sock[p]) /\ sock[p].call = "none"
BY LinkIs DEF Idle

LEMMA ConnectAgainKeeps ==
  ASSUME LinkInv, NEW p \in Port, ConnectAgain(p)
  PROVE  LinkInv' /\ Final
<1> DEFINE s == sock[p]
<1>1. Whole(p, s) /\ s.call # "take"
  BY IdleIs DEF ConnectAgain
<1>2. PICK t : /\ User(p, t)
               /\ t \in {[s EXCEPT !.so = "CONNECTED"], [s EXCEPT !.call = "connect"],
                         [s EXCEPT !.so = "UNCONNECTED"]}
  BY DEF ConnectAgain
<1>3. Works(p, s, t) /\ t.ran = s.ran
  <2> HIDE DEF s
  <2>1. CASE t = [s EXCEPT !.so = "CONNECTED"]
    BY <1>1, <2>1, Retold
  <2>2. CASE t = [s EXCEPT !.call = "connect"]
    BY <1>1, <2>2, Retold
  <2>3. CASE t = [s EXCEPT !.so = "UNCONNECTED"]
    BY <1>1, <2>3, Retold
  <2> QED BY <1>2, <2>1, <2>2, <2>3
<1> QED BY <1>2, <1>3, UserKeeps

LEMMA WaitRunKeeps ==
  ASSUME LinkInv, NEW p \in Port, WaitRun(p)
  PROVE  LinkInv' /\ Final
<1>1. Whole(p, sock[p]) /\ sock[p].call # "take"
  BY IdleIs DEF WaitRun
<1>2. LET t == [sock[p] EXCEPT !.call = "connect"] IN Works(p, sock[p], t) /\ t.ran = sock[p].ran
  BY <1>1, Retold
<1> QED BY <1>2, UserKeeps DEF WaitRun

LEMMA LeaveKeeps ==
  ASSUME LinkInv, NEW p \in Port, Return(p) \/ Interrupt(p)
  PROVE  LinkInv' /\ Final
<1>1. sock[p].call \in {"connect", "accept"} /\ User(p, Leave(sock[p]))
  BY DEF Return, Interrupt, MayReturn
<1>2. Works(p, sock[p], Leave(sock[p])) /\ Leave(sock[p]).ran = sock[p].ran
  BY <1>1, LinkIs, LeaveWorks
<1> QED BY <1>1, <1>2, UserKeeps

LEMMA AcceptHashKeeps ==
  ASSUME LinkInv, NEW p \in Port, AcceptHash(p)
  PROVE  LinkInv' /\ Final
<1> DEFINE s == [SendConnAck(sock[p]) EXCEPT !.hashed = TRUE, !.call = "none"]
<1>1. Works(p, sock[p], s) /\ s.ran = sock[p].ran /\ s.state = "CR"
  BY LinkIs, TakenWorks DEF AcceptHash
<1>2. User(p, IF Immediate THEN ConfirmAccept(s) ELSE s)
  BY DEF AcceptHash
<1> HIDE DEF s
<1>3. Works(p, s, ConfirmAccept(s)) /\ ConfirmAccept(s).ran = s.ran
  BY <1>1, ConfirmAcceptWorks DEF Works
<1>4. CASE Immediate
  <2>1. Works(p, sock[p], ConfirmAccept(s))
    BY <1>1, <1>3, WorksOn
  <2> QED BY <1>1, <1>2, <1>3, <1>4, <2>1, UserKeeps
<1>5. CASE ~Immediate
  BY <1>1, <1>2, <1>5, UserKeeps
<1> QED BY <1>4, <1>5

LEMMA ConfirmKeeps ==
  ASSUME LinkInv, NEW p \in Port, Confirm(p)
  PROVE  LinkInv' /\ Final
<1>1. Works(p, sock[p], ConfirmAccept(sock[p])) /\ ConfirmAccept(sock[p]).ran = sock[p].ran
  BY IdleIs, ConfirmAcceptWorks DEF Confirm
<1> QED BY <1>1, UserKeeps DEF Confirm

LEMMA RejectKeeps ==
  ASSUME LinkInv, NEW p \in Port, Reject(p)
  PROVE  LinkInv' /\ Final
<1> DEFINE s == sock[p]
           t == [s EXCEPT !.state = "DR"]
           u == SendDisc(t, "DI")
<1>1. Whole(p, s) /\ s.call # "take" /\ s.state \notin {"FREE", "GONE"} /\ User(p, u)
  BY IdleIs DEF Reject
<1>2. "DR" \in Ended \ {"GONE"}
  BY DEF Ended
<1> HIDE DEF s
<1>3. Works(p, s, t) /\ t.ran = s.ran
  BY <1>1, <1>2, EndWorks
<1> HIDE DEF t
<1>4. Works(p, t, u) /\ Untouched(t, u)
  BY <1>3, SendDiscWorks DEF Works
<1>5. Works(p, s, u) /\ u.ran = s.ran
  BY <1>3, <1>4, WorksOn DEF Untouched
<1> QED BY <1>1, <1>5, UserKeeps DEF s

LEMMA ReadKeeps ==
  ASSUME LinkInv, NEW p \in Port, Read(p)
  PROVE  LinkInv' /\ Final
<1> DEFINE s == sock[p]
<1>1. Whole(p, s) /\ s.state = "RUN" /\ s.nsent + (IF s.pend THEN 1 ELSE 0) < MaxLink
  BY IdleIs DEF Read
<1>2. User(p, SchedulePending(s, TRUE))
  BY DEF Read
<1> HIDE DEF s
<1>3. s.ran /\ s.nsent \in 0 .. MaxLink
  BY <1>1, SockIs DEF Whole, Good
<1>4. s.nsent < MaxLink
  BY <1>1, <1>3, BoundAssumption
<1>5. LET t == SchedulePending(s, TRUE) IN Works(p, s, t) /\ t.ran = s.ran
  BY <1>1, <1>3, <1>4, ScheduleWorks
<1> QED BY <1>2, <1>5, UserKeeps DEF s

LEMMA ShutdownKeeps ==
  ASSUME LinkInv, NEW p \in Port, Shutdown(p)
  PROVE  LinkInv' /\ Final
<1>1. Whole(p, sock[p]) /\ sock[p].call # "take"
  BY LinkIs DEF Shutdown, Whole, Good
<1>2. LET t == DestroySock(sock[p]) IN Works(p, sock[p], t) /\ t.ran = sock[p].ran
  BY <1>1, DestroySockWorks
<1> QED BY <1>2, UserKeeps DEF Shutdown

LEMMA CloseKeeps ==
  ASSUME LinkInv, NEW p \in Port, Close(p)
  PROVE  LinkInv' /\ Final
<1> DEFINE s == sock[p]
           a == [s EXCEPT !.dead = TRUE, !.call = "none"]
<1>1. Whole(p, s) /\ s.call # "take" /\ User(p, DestroySock(a))
  BY LinkIs DEF Close
<1> HIDE DEF s
<1>2. s \in Sock
  BY <1>1 DEF Whole, Good
<1>3. /\ a \in Sock /\ a.state = s.state /\ a.rem = s.rem /\ a.tries = s.tries /\ a.count = s.count
      /\ a.loc = s.loc /\ a.ran = s.ran /\ a.hashed = s.hashed
      /\ a.nsent = s.nsent /\ a.nack = s.nack /\ a.pend = s.pend
      /\ a.persist = s.persist /\ a.fxn = s.fxn /\ a.call = "none" /\ a.out = s.out
  BY <1>2 DEF Sock
<1> HIDE DEF a
<1>4. Works(p, s, a)
  BY <1>1, <1>3, CallWorks
<1>5. LET t == DestroySock(a) IN Works(p, a, t) /\ t.ran = a.ran
  BY <1>3, <1>4, DestroySockWorks DEF Works
<1>6. LET t == DestroySock(a) IN Works(p, s, t) /\ t.ran = s.ran
  BY <1>3, <1>4, <1>5, WorksOn
<1> QED BY <1>1, <1>6, UserKeeps DEF s

-----------------------------------------------------------------------------
(* Timers *)

LEMMA TimerKeeps ==
  ASSUME LinkInv, NEW p \in Port, Timer(p)
  PROVE  LinkInv' /\ Final
<1> DEFINE s == sock[p]
<1>1. Whole(p, s)
  BY LinkIs
<1>2. ASSUME NEW quiet \in BOOLEAN, PersistTimer(p, quiet)
      PROVE  LinkInv' /\ Final
  <2>1. LET t == Expired(sock[p], quiet) IN Works(p, sock[p], t) /\ t.ran = sock[p].ran
    BY <1>1, <1>2, ExpiredWorks DEF PersistTimer
  <2> QED BY <1>2, <2>1, UserKeeps DEF PersistTimer
<1>3. ASSUME ConnTimer(p)
      PROVE  LinkInv' /\ Final
  <2> DEFINE a == [s EXCEPT !.conn = FALSE]
             c == [a EXCEPT !.state = "NC", !.sk = "CLOSE"]
  <2>1. s.conn /\ User(p, IF a.state = "CD" THEN c ELSE a)
    BY <1>3 DEF ConnTimer
  <2> HIDE DEF s
  <2>2. s \in Sock /\ s.call # "take" /\ (s.persist => s.fxn # "none")
    BY <1>1, <2>1 DEF Whole, Good
  <2>3. /\ a \in Sock /\ a.state = s.state /\ a.rem = s.rem /\ a.tries = s.tries /\ a.count = s.count
        /\ a.loc = s.loc /\ a.ran = s.ran /\ a.hashed = s.hashed
        /\ a.nsent = s.nsent /\ a.nack = s.nack /\ a.pend = s.pend
        /\ a.persist = s.persist /\ a.fxn = s.fxn /\ a.call = s.call /\ a.out = s.out
    BY <2>2 DEF Sock
  <2> HIDE DEF a
  <2>4. Works(p, s, a) /\ a.ran = s.ran
    BY <1>1, <2>2, <2>3, CallWorks
  <2>5. CASE a.state = "CD"
    <3>1. "NC" \in State /\ "NC" \in Ended \ {"GONE"}
      BY DEF State, Ended
    <3>2. /\ c \in Sock /\ c.state = "NC" /\ c.rem = a.rem
          /\ c.loc = a.loc /\ c.ran = a.ran /\ c.hashed = a.hashed
          /\ c.nsent = a.nsent /\ c.nack = a.nack /\ c.pend = a.pend
          /\ c.persist = a.persist /\ c.fxn = a.fxn /\ c.call = a.call /\ c.out = a.out
      BY <2>3, <3>1 DEF Sock
    <3> HIDE DEF c
    <3>3. Whole(p, a) /\ a.call # "take" /\ (a.persist => a.fxn # "none")
      BY <2>2, <2>3, <2>4 DEF Works
    <3>4. Works(p, a, c)
      BY <2>5, <3>1, <3>2, <3>3, TweakWorks
    <3>5. Works(p, s, c) /\ c.ran = s.ran
      BY <2>4, <3>2, <3>4, WorksOn
    <3> QED BY <2>1, <2>5, <3>5, UserKeeps DEF s
  <2>6. CASE a.state # "CD"
    BY <2>1, <2>4, <2>6, UserKeeps DEF s
  <2> QED BY <2>5, <2>6
<1>4. ASSUME Keepalive(p)
      PROVE  LinkInv' /\ Final
  <2>1. s.state = "RUN" /\ s.nsent = s.nack /\ s.nsent < MaxLink /\ User(p, SendLink(s))
    BY <1>4 DEF Keepalive
  <2>2. s.ran /\ ~s.pend
    BY <1>1, <2>1 DEF Whole, Good
  <2>3. LET t == SendLink(s) IN Works(p, s, t) /\ t.ran = s.ran
    BY <1>1, <2>1, <2>2, SendLinkWorks
  <2> QED BY <2>1, <2>3, UserKeeps
<1> QED BY <1>2, <1>3, <1>4 DEF Timer

-----------------------------------------------------------------------------
(* The listener *)

LEMMA QueueTail ==
  ASSUME LinkInv, queue # <<>>
  PROVE  /\ Head(queue).src \in Caller
         /\ Tail(queue) \in Seq(Packet)
         /\ \A i \in DOMAIN Tail(queue) : Tail(queue)[i].src \in Caller
<1>1. queue \in Seq(Packet) /\ \A i \in DOMAIN queue : queue[i].src \in Caller
  BY LinkIs
<1>2. DOMAIN queue = 1 .. Len(queue) /\ Len(queue) \in Nat \ {0} /\ Head(queue) = queue[1]
  BY <1>1
<1>3. Tail(queue) \in Seq(Packet) /\ Len(Tail(queue)) = Len(queue) - 1
  BY <1>1
<1>4. DOMAIN Tail(queue) = 1 .. (Len(queue) - 1)
  BY <1>3
<1>5. \A i \in 1 .. (Len(queue) - 1) : Tail(queue)[i] = queue[i + 1]
  BY <1>1
<1>6. \A i \in 1 .. (Len(queue) - 1) : i + 1 \in 1 .. Len(queue)
  BY <1>2
<1> QED BY <1>1, <1>2, <1>3, <1>4, <1>5, <1>6

\* The socket dn_accept allocates is not hashed until the rest of it runs.
LEMMA AcceptKeeps ==
  ASSUME LinkInv, Accept
  PROVE  LinkInv' /\ Final
<1>1. PICK p \in Callee : sock[p].state = "FREE" /\ AcceptTake(p)
  BY DEF Accept
<1>2. p \in Port
  BY Ports
<1> DEFINE n == New(p, "CR")
           m == Head(queue)
           r == m.src
           t == [n EXCEPT !.rem = r, !.sk = "LISTEN", !.call = "take"]
<1>3. /\ queue # <<>> /\ queue' = Tail(queue) /\ net' = net
      /\ listening' = listening /\ faults' = faults
      /\ sock' = sock \/ sock' = [sock EXCEPT ![p] = t]
  BY <1>1 DEF AcceptTake
<1>4. /\ listening' \in BOOLEAN /\ queue' \in Seq(Packet)
      /\ \A i \in DOMAIN queue' : queue'[i].src \in Caller
      /\ Counted(faults')
  BY <1>3, QueueTail, LinkIs
<1>5. CASE sock' = sock
  BY <1>3, <1>4, <1>5, NetKeeps, LinkIs
<1>6. CASE sock' = [sock EXCEPT ![p] = t]
  <2>1. "CR" \in State /\ "CR" \in Early /\ r \in Caller /\ r \in Port \cup {None}
    BY <1>3, QueueTail, Ports DEF State, Early
  <2>2. Fresh(n, p, "CR")
    BY <1>2, <2>1, NewIs
  <2> HIDE DEF n, r
  <2>3. /\ t \in Sock /\ t.rem = r /\ t.call = "take"
        /\ t.loc = n.loc /\ t.state = n.state /\ t.hashed = n.hashed
        /\ t.so = n.so /\ t.fxn = n.fxn /\ t.persist = n.persist /\ t.conn = n.conn
        /\ t.nsent = n.nsent /\ t.pend = n.pend /\ t.ran = n.ran /\ t.tries = n.tries
        /\ t.out = n.out
    <3>1. n \in Sock /\ r \in Port \cup {None}
      BY <2>1, <2>2 DEF Fresh
    <3> QED BY <3>1 DEF Sock
  <2> HIDE DEF t
  <2>4. Good(p, t)
    BY <1>2, <2>1, <2>2, <2>3, Ports DEF Good, Fresh
  <2>5. sock[p].state \in Early /\ sock[p].state \notin Ended /\ ~sock[p].ran
    <3>1. sock[p].state \in Early /\ sock[p].state \notin Ended
      BY <1>1 DEF Early, Ended
    <3> QED BY <1>2, <3>1, LinkIs DEF Whole, Good
  <2>6. Follows(sock[p], t) /\ Paired(p, t) /\ t.out = {} /\ t \in Sock
    BY <2>2, <2>3, <2>5 DEF Follows, Paired, Fresh
  <2>7. sock' \in [Port -> Sock] /\ sock'[p] = t /\ \A q \in Port : q # p => sock'[q] = sock[q]
    BY <1>2, <1>6, <2>6, LinkIs
  <2>8. ASSUME NEW q \in Port
        PROVE  /\ Good(q, sock'[q]) /\ Follows(sock[q], sock'[q]) /\ sock'[q].out = {}
               /\ q \in Callee => Paired(q, sock'[q])
    <3>1. CASE q = p
      BY <2>4, <2>6, <2>7, <3>1
    <3>2. CASE q # p
      BY <2>7, <3>2, LinkIs DEF Whole
    <3> QED BY <3>1, <3>2
  <2>9. \A x \in net' : Routed(x) /\ (x.src \in Port => Mine(sock[x.src], x) \/ Mine(sock'[x.src], x))
    BY <1>3, LinkIs DEF Comes
  <2> QED BY <1>4, <2>7, <2>8, <2>9, StepKeeps
<1> QED BY <1>3, <1>5, <1>6

LEMMA EmptyIs == <<>> \in Seq(Packet) /\ DOMAIN <<>> = {}
OBVIOUS

LEMMA CloseListenerKeeps ==
  ASSUME LinkInv, CloseListener
  PROVE  LinkInv' /\ Final
<1>1. /\ listening' \in BOOLEAN /\ queue' \in Seq(Packet)
      /\ \A i \in DOMAIN queue' : queue'[i].src \in Caller
      /\ Counted(faults') /\ sock' = sock /\ \A m \in net' : m \in net \/ Comes(m)
  BY LinkIs, EmptyIs DEF CloseListener
<1> QED BY <1>1, NetKeeps

-----------------------------------------------------------------------------
(* The network *)

LEMMA DeliverConnInitKeeps ==
  ASSUME LinkInv, NEW m, Comes(m), m.kind \in {"CI", "RCI"}, NEW old, DeliverConnInit(m, old),
         listening' = listening, Counted(faults')
  PROVE  LinkInv' /\ Final
<1>1. m \in Packet /\ m.src \in Port /\ m.src \in Caller
  <2>1. m \in Packet /\ m.src \in Port
    BY DEF Comes, Routed
  <2>2. Mine(sock[m.src], m) /\ sock[m.src].loc = m.src
    BY <2>1, LinkIs DEF Comes, Whole, Good
  <2> QED BY <2>1, <2>2 DEF Mine
<1>2. sock' = sock /\ listening' \in BOOLEAN
  BY LinkIs DEF DeliverConnInit
<1>3. CASE listening
  <2>1. (\A y \in net' : y \in net \/ Comes(y)) /\ (queue' = queue \/ queue' = Append(queue, m))
    BY <1>3 DEF DeliverConnInit
  <2>2. queue \in Seq(Packet) /\ \A i \in DOMAIN queue : queue[i].src \in Caller
    BY LinkIs
  <2>3. Append(queue, m) \in Seq(Packet) /\ \A i \in DOMAIN Append(queue, m) : Append(queue, m)[i].src \in Caller
    <3>1. /\ Append(queue, m) \in Seq(Packet)
          /\ DOMAIN queue = 1 .. Len(queue) /\ Len(queue) \in Nat
          /\ DOMAIN Append(queue, m) = 1 .. (Len(queue) + 1)
      BY <1>1, <2>2
    <3>2. \A i \in 1 .. (Len(queue) + 1) :
            Append(queue, m)[i] = IF i = Len(queue) + 1 THEN m ELSE queue[i]
      BY <1>1, <2>2
    <3>3. \A i \in 1 .. (Len(queue) + 1) : i = Len(queue) + 1 \/ i \in 1 .. Len(queue)
      BY <3>1
    <3> QED BY <1>1, <2>2, <3>1, <3>2, <3>3
  <2>4. queue' \in Seq(Packet) /\ \A i \in DOMAIN queue' : queue'[i].src \in Caller
    BY <2>1, <2>2, <2>3
  <2> QED BY <1>2, <2>1, <2>4, NetKeeps
<1>4. CASE ~listening
  <2> DEFINE x == [kind |-> "DI", src |-> None, dst |-> m.src, num |-> 0]
  <2>1. queue' = queue /\ net' = Carried((net \ old) \cup {x}, sock)
    BY <1>4 DEF DeliverConnInit
  <2>2. Comes(x)
    <3>1. "DI" \in Kind /\ 0 \in 0 .. MaxLink
      BY BoundAssumption DEF Kind
    <3>2. x \in Packet /\ x.kind = "DI" /\ x.src = None /\ x.dst = m.src
      BY <1>1, <3>1 DEF Packet
    <3> HIDE DEF x
    <3> QED BY <1>1, <3>2, Ports DEF Comes, Routed
  <2> HIDE DEF x
  <2>3. \A y \in net' : y \in net \/ Comes(y)
    BY <2>1, <2>2, CarriedIs
  <2>4. queue' \in Seq(Packet) /\ \A i \in DOMAIN queue' : queue'[i].src \in Caller
    BY <2>1, LinkIs
  <2> QED BY <1>2, <2>3, <2>4, NetKeeps
<1> QED BY <1>3, <1>4

LEMMA DeliverReturnedKeeps ==
  ASSUME LinkInv, NEW m, Comes(m), m.kind = "RTS", NEW old, DeliverReturned(m, old),
         listening' = listening, Counted(faults')
  PROVE  LinkInv' /\ Final
<1> DEFINE p == m.src
           s == sock[p]
           t == IF s.hashed /\ s.sk # "LISTEN" THEN ReturnedConnInit(s) ELSE s
<1>1. p \in Port /\ Whole(p, s) /\ Follows(s, s)
  BY LinkIs DEF Comes, Routed
<1>2. Update(p, t, old) /\ UNCHANGED <<listening, queue>>
  BY DEF DeliverReturned
<1>3. Works(p, s, t) /\ t.ran = s.ran
  <2> HIDE DEF s
  <2>1. CASE s.hashed /\ s.state = "CI"
    <3>1. s.call # "take"
      BY <1>1, <2>1 DEF Whole, Good
    <3>2. Works(p, s, GiveUp(s)) /\ GiveUp(s).ran = s.ran
      BY <1>1, <2>1, <3>1, GiveUpWorks
    <3> QED BY <1>1, <2>1, <3>2 DEF ReturnedConnInit, Works
  <2>2. CASE ~(s.hashed /\ s.state = "CI")
    <3>1. t = s
      BY <2>2 DEF ReturnedConnInit
    <3> QED BY <1>1, <3>1 DEF Works
  <2> QED BY <2>1, <2>2
<1>4. Paired(p, t)
  BY <1>3 DEF Paired
<1> HIDE DEF t
<1> QED BY <1>1, <1>2, <1>3, <1>4, UpdateKeeps

\* An accepted socket enters RUN by a message only its peer in RUN sends.
LEMMA DeliverToSocketKeeps ==
  ASSUME LinkInv, NEW m, Comes(m), m.kind \notin {"CI", "RCI", "RTS"}, NEW old, DeliverToSocket(m, old),
         listening' = listening, Counted(faults')
  PROVE  LinkInv' /\ Final
<1> DEFINE p == m.dst
           s == sock[p]
<1>1. p \in Port /\ Whole(p, s) /\ Routed(m) /\ queue' = queue
  BY LinkIs DEF Comes, Routed, DeliverToSocket
<1>2. CASE FindBySkb(s, m)
  <2> DEFINE t == Receive(s, m)
  <2>1. /\ Works(p, s, t)
        /\ p \in Callee /\ t.ran => s.ran \/ (m.kind \in {"LS", "ACK"} /\ t.rem = m.src)
    BY <1>1, <1>2, ReceiveWorks
  <2>2. Update(p, t, old)
    BY <1>2 DEF DeliverToSocket
  <2> HIDE DEF t
  <2>3. ASSUME p \in Callee
        PROVE  Paired(p, t)
    <3> SUFFICES ASSUME t.ran, ~s.ran
                 PROVE  t.rem \in Caller /\ sock[t.rem].ran /\ sock[t.rem].rem = p
      BY DEF Paired
    <3>1. m.kind \in {"LS", "ACK"} /\ t.rem = m.src
      BY <2>1, <2>3
    <3>2. t.rem \in Caller
      BY <1>1, <2>1, <2>3 DEF Works, Whole, Good
    <3>3. Mine(sock[m.src], m)
      BY <3>1, <3>2, Ports DEF Comes
    <3> QED BY <3>1, <3>2, <3>3 DEF Mine
  <2> QED BY <1>1, <2>1, <2>2, <2>3, UpdateKeeps
<1>3. CASE ~FindBySkb(s, m)
  <2> DEFINE x == [kind |-> "NL", src |-> m.dst, dst |-> m.src, num |-> 0]
             X == IF m.kind = "CC" THEN {x} ELSE {}
  <2>1. sock' = sock /\ net' = Carried((net \ old) \cup X, sock)
    BY <1>3 DEF DeliverToSocket
  <2>2. ASSUME m.kind = "CC"
        PROVE  Comes(x)
    <3>1. "NL" \in Kind /\ 0 \in 0 .. MaxLink /\ m.src \in Port
      BY <1>1, <2>2, BoundAssumption DEF Kind, Routed
    <3>2. x \in Packet /\ x.kind = "NL" /\ x.src = m.dst /\ x.dst = m.src
      BY <1>1, <3>1 DEF Packet
    <3> HIDE DEF x
    <3> QED BY <3>1, <3>2 DEF Comes, Routed, Mine
  <2> HIDE DEF x
  <2>3. \A y \in net' : y \in net \/ Comes(y)
    BY <2>1, <2>2, CarriedIs
  <2>4. /\ queue' \in Seq(Packet) /\ listening' \in BOOLEAN
        /\ \A i \in DOMAIN queue' : queue'[i].src \in Caller
    BY <1>1, LinkIs
  <2> QED BY <2>1, <2>3, <2>4, NetKeeps
<1> QED BY <1>2, <1>3

LEMMA RxKeeps ==
  ASSUME LinkInv, NEW m \in net, NEW old, Rx(m, old), Counted(faults')
  PROVE  LinkInv' /\ Final
<1>1. Comes(m) /\ listening' = listening
  BY LinkIs DEF Rx
<1>2. CASE m.kind \in {"CI", "RCI"}
  BY <1>1, <1>2, DeliverConnInitKeeps DEF Rx
<1>3. CASE m.kind = "RTS"
  <2>1. DeliverReturned(m, old)
    BY <1>3 DEF Rx
  <2> QED BY <1>1, <1>3, <2>1, DeliverReturnedKeeps
<1>4. CASE m.kind \notin {"CI", "RCI", "RTS"}
  <2>1. DeliverToSocket(m, old)
    BY <1>4 DEF Rx
  <2> QED BY <1>1, <1>4, <2>1, DeliverToSocketKeeps
<1> QED BY <1>2, <1>3, <1>4

\* One more of the faults
LEMMA CountedMore ==
  ASSUME LinkInv
  PROVE  /\ faults.loss < MaxLoss => Counted([faults EXCEPT !.loss = @ + 1])
         /\ faults.dup < MaxDup => Counted([faults EXCEPT !.dup = @ + 1])
         /\ faults.crash < MaxCrash => Counted([faults EXCEPT !.crash = @ + 1])
BY SMTT(30), LinkIs, BoundAssumption DEF Counted

LEMMA NetworkKeeps ==
  ASSUME LinkInv, Network
  PROVE  LinkInv' /\ Final
<1>1. PICK m \in net : Deliver(m) \/ Duplicate(m) \/ Lose(m) \/ ReturnToSender(m)
  BY DEF Network
<1>2. CASE Deliver(m)
  <2>1. Counted(faults')
    BY <1>2, LinkIs DEF Deliver
  <2> QED BY <1>2, <2>1, RxKeeps DEF Deliver
<1>3. CASE Duplicate(m)
  <2>1. Counted(faults')
    BY <1>3, CountedMore DEF Duplicate
  <2> QED BY <1>3, <2>1, RxKeeps DEF Duplicate
<1>4. /\ listening \in BOOLEAN /\ queue \in Seq(Packet)
      /\ \A i \in DOMAIN queue : queue[i].src \in Caller
  BY LinkIs
<1>5. CASE Lose(m)
  <2>1. Counted(faults') /\ (\A y \in net' : y \in net \/ Comes(y)) /\ UNCHANGED <<sock, listening, queue>>
    BY <1>5, CountedMore DEF Lose
  <2> QED BY <1>4, <2>1, NetKeeps
<1>6. CASE ReturnToSender(m)
  <2> DEFINE x == [m EXCEPT !.kind = "RTS"]
  <2>1. /\ Counted(faults') /\ net' \subseteq net \cup {x} /\ UNCHANGED <<sock, listening, queue>>
        /\ m.kind \in {"CI", "RCI"}
    BY <1>6, CountedMore DEF ReturnToSender
  <2>2. Comes(m)
    BY LinkIs
  <2>3. x \in Packet /\ x.kind = "RTS" /\ x.src = m.src
    <3>1. m \in Packet /\ "RTS" \in Kind
      BY <2>2 DEF Comes, Routed, Kind
    <3> QED BY <3>1 DEF Packet
  <2> HIDE DEF x
  <2>4. Comes(x)
    BY <2>1, <2>2, <2>3 DEF Comes, Routed, Mine
  <2>5. \A y \in net' : y \in net \/ Comes(y)
    BY <2>1, <2>4
  <2> QED BY <1>4, <2>1, <2>5, NetKeeps
<1> QED BY <1>1, <1>2, <1>3, <1>5, <1>6

LEMMA CrashKeeps ==
  ASSUME LinkInv, NEW ports, Crash(ports)
  PROVE  LinkInv' /\ Final
<1> DEFINE t(p) == IF p \in ports /\ sock[p].state # "FREE"
                   THEN Freed([sock[p] EXCEPT !.dead = TRUE]) ELSE sock[p]
<1>1. ASSUME NEW p \in Port
      PROVE  Works(p, sock[p], t(p)) /\ t(p).ran = sock[p].ran /\ t(p).out = {}
  <2> DEFINE s == sock[p]
             a == [s EXCEPT !.dead = TRUE]
  <2>1. Whole(p, s) /\ s.out = {} /\ Follows(s, s)
    BY LinkIs
  <2> HIDE DEF s
  <2>2. Works(p, s, a) /\ a.ran = s.ran /\ a.out = {}
    BY <2>1, DeadWorks
  <2> HIDE DEF a
  <2>3. Works(p, a, Freed(a)) /\ Freed(a).ran = s.ran
    BY <2>2, FreedWorks DEF Works
  <2>4. Freed(a).out = {}
    BY <2>2 DEF Freed, New
  <2>5. Works(p, s, Freed(a)) /\ Works(p, s, s)
    BY <2>1, <2>2, <2>3, WorksOn DEF Works
  <2>6. t(p) = Freed(a) \/ t(p) = s
    BY DEF a, s
  <2> HIDE DEF t
  <2> QED BY <2>1, <2>3, <2>4, <2>5, <2>6 DEF s
<1>2. sock' = [p \in Port |-> t(p)]
  BY DEF Crash
<1> HIDE DEF t
<1>3. \A p \in Port : sock'[p] = t(p) /\ t(p) \in Sock
  BY <1>1, <1>2 DEF Works, Whole, Good
<1>4. sock' \in [Port -> Sock]
  BY <1>2, <1>3
<1>5. \A q \in Port : /\ Good(q, sock'[q]) /\ Follows(sock[q], sock'[q]) /\ sock'[q].out = {}
                      /\ q \in Callee => Paired(q, sock'[q])
  BY <1>1, <1>3 DEF Works, Whole, Paired
<1>6. \A m \in net' : Routed(m) /\ (m.src \in Port => Mine(sock[m.src], m) \/ Mine(sock'[m.src], m))
  <2>1. net' \subseteq net
    BY CarriedIs DEF Crash
  <2> QED BY <2>1, LinkIs DEF Comes
<1>7. /\ listening' \in BOOLEAN /\ queue' \in Seq(Packet)
      /\ \A i \in DOMAIN queue' : queue'[i].src \in Caller
      /\ Counted(faults')
  BY LinkIs, CountedMore DEF Crash
<1> QED BY <1>4, <1>5, <1>6, <1>7, StepKeeps

-----------------------------------------------------------------------------
(* The theorems *)

LEMMA LinkInit == Init => LinkInv
<1> SUFFICES ASSUME Init
             PROVE  LinkInv
  OBVIOUS
<1>1. ASSUME NEW p \in Port
      PROVE  Good(p, sock[p]) /\ sock[p].out = {} /\ sock[p].ran = FALSE
  <2>1. CASE p \in Caller
    <3> DEFINE n == New(p, "O")
               t == [n EXCEPT !.hashed = TRUE]
    <3>1. "O" \in State /\ "O" \in Early
      BY DEF State, Early
    <3>2. sock[p] = t
      BY <2>1 DEF Init
    <3>3. Fresh(n, p, "O")
      BY <3>1, NewIs
    <3> HIDE DEF n
    <3>4. /\ t \in Sock /\ t.loc = n.loc /\ t.rem = n.rem /\ t.state = n.state
          /\ t.so = n.so /\ t.call = n.call /\ t.fxn = n.fxn
          /\ t.persist = n.persist /\ t.conn = n.conn /\ t.nsent = n.nsent /\ t.pend = n.pend
          /\ t.ran = n.ran /\ t.tries = n.tries /\ t.out = n.out
      <4>1. n \in Sock
        BY <3>3 DEF Fresh
      <4> QED BY <4>1 DEF Sock
    <3> HIDE DEF t
    <3> QED BY <2>1, <3>1, <3>2, <3>3, <3>4, Ports DEF Good, Fresh
  <2>2. CASE p \notin Caller
    <3>1. "FREE" \in State /\ "FREE" \in Early
      BY DEF State, Early
    <3>2. sock[p] = New(p, "FREE")
      BY <2>2 DEF Init
    <3>3. Fresh(New(p, "FREE"), p, "FREE")
      BY <3>1, NewIs
    <3> QED BY <2>2, <3>1, <3>2, <3>3, Ports DEF Good, Fresh
  <2> QED BY <2>1, <2>2
<1>2. sock \in [Port -> Sock]
  <2>1. \A p \in Port : sock[p] \in Sock
    BY <1>1 DEF Good
  <2>2. sock = [p \in Port |-> IF p \in Caller THEN [New(p, "O") EXCEPT !.hashed = TRUE]
                               ELSE New(p, "FREE")]
    BY DEF Init
  <2> QED BY <2>1, <2>2
<1>3. TypeOK
  BY <1>2, BoundAssumption DEF Init, TypeOK
<1>4. OneLinkPerConnect
  BY <1>1, Ports DEF OneLinkPerConnect
<1>5. net = {} /\ \A i \in DOMAIN queue : queue[i].src \in Caller
  BY EmptyIs DEF Init
<1> QED BY <1>1, <1>3, <1>4, <1>5 DEF LinkInv

LEMMA LinkNext == LinkInv /\ [Next]_vars => LinkInv' /\ Final
<1> SUFFICES ASSUME LinkInv, [Next]_vars
             PROVE  LinkInv' /\ Final
  OBVIOUS
<1>1. ASSUME NEW p \in Port, Call(p)
      PROVE  LinkInv' /\ Final
  <2>1. CASE Connect(p)
    BY <2>1, ConnectKeeps
  <2>2. CASE ConnectAgain(p)
    BY <2>2, ConnectAgainKeeps
  <2>3. CASE WaitRun(p)
    BY <2>3, WaitRunKeeps
  <2>4. CASE Return(p) \/ Interrupt(p)
    BY <2>4, LeaveKeeps
  <2>5. CASE AcceptHash(p)
    BY <2>5, AcceptHashKeeps
  <2>6. CASE Confirm(p)
    BY <2>6, ConfirmKeeps
  <2>7. CASE Reject(p)
    BY <2>7, RejectKeeps
  <2>8. CASE Read(p)
    BY <2>8, ReadKeeps
  <2>9. CASE Shutdown(p)
    BY <2>9, ShutdownKeeps
  <2>10. CASE Close(p)
    BY <2>10, CloseKeeps
  <2> QED BY <1>1, <2>1, <2>2, <2>3, <2>4, <2>5, <2>6, <2>7, <2>8, <2>9, <2>10 DEF Call
<1>2. ASSUME NEW p \in Port, Timer(p)
      PROVE  LinkInv' /\ Final
  BY <1>2, TimerKeeps
<1>3. CASE Accept
  BY <1>3, AcceptKeeps
<1>4. CASE CloseListener
  BY <1>4, CloseListenerKeeps
<1>5. CASE Network
  BY <1>5, NetworkKeeps
<1>6. CASE Crash(Caller) \/ Crash(Callee)
  BY <1>6, CrashKeeps
<1>7. CASE UNCHANGED vars
  <2>1. /\ sock' = sock /\ (\A y \in net' : y \in net \/ Comes(y)) /\ listening' \in BOOLEAN
        /\ queue' \in Seq(Packet) /\ Counted(faults')
        /\ \A i \in DOMAIN queue' : queue'[i].src \in Caller
    BY <1>7, LinkIs DEF vars
  <2> QED BY <2>1, NetKeeps
<1> QED BY <1>1, <1>2, <1>3, <1>4, <1>5, <1>6, <1>7 DEF Next

THEOREM LinkHolds == Spec => []LinkInv
BY LinkInit, LinkNext, PTL DEF Spec

\* The states of sockets, of the listener and of packets in flight are those
\* the code names, and the counters stay in their ranges.
THEOREM LinkTyped == Spec => []TypeOK
<1>1. LinkInv => TypeOK
  BY DEF LinkInv
<1> QED BY <1>1, LinkHolds, PTL

\* Of the sockets dn_accept makes for one connect, at most one enters RUN, and
\* only when the caller's socket has entered RUN with it.
THEOREM OneLink == Spec => []OneLinkPerConnect
<1>1. LinkInv => OneLinkPerConnect
  BY DEF LinkInv
<1> QED BY <1>1, LinkHolds, PTL

\* No packet, however late or often it comes, no timer and no call takes a
\* socket whose link has ended back to an earlier state.
THEOREM StaysEnded == Spec => EndIsFinal
<1>1. LinkInv /\ [Next]_vars => [\A p \in Port : sock[p].state \in Ended => sock'[p].state \in Ended]_vars
  BY LinkNext DEF Final
<1> QED BY <1>1, LinkHolds, PTL DEF Spec, EndIsFinal

=============================================================================

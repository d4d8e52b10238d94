-------------------------- MODULE FileAccess_proofs --------------------------
(***************************************************************************)
(* dncopy with -D never has a file removed that it has begun to store and  *)
(* not stored to its end, for every command, block and segment size, room  *)
(* in the queues, contents of the files, and whatever fails, is lost or is *)
(* killed.                                                                 *)
(*                                                                         *)
(* The argument.  Messages are held back, blocked together and queued, and *)
(* may be dropped when an end shuts down; for what the programs make of    *)
(* them only their order counts.  So a link Carries two sequences, what is *)
(* under way to either end, and each operation of Dap takes from the front *)
(* of one, adds to the end of one, or cuts the end off (Says, Took,        *)
(* Shrinks).  Of these sequences the invariant says, for each place where  *)
(* dncopy waits, what may be in them (InPhase): dncopy makes at most one   *)
(* request at a time and waits for the answer, hence the CLOSE that has    *)
(* fal delete the file is sent only while nothing is begun, and fal takes  *)
(* no file away otherwise.  A file that is begun exists because the ACK to *)
(* its ACCESS came last in the answer, after its NAME.                     *)
(***************************************************************************)
EXTENDS FileAccess, SequenceTheorems, WellFoundedInduction, TLAPS

-----------------------------------------------------------------------------
(***************************************************************************)
(* A link as the two sequences of messages that are under way: what an end *)
(* has still to take, of the block at hand, of the blocks in its queue,    *)
(* and, while it can hear, of what the other end keeps back.               *)
(***************************************************************************)
End(M) == [out : Seq(M), blocked : BOOLEAN, in : Seq(M), queue : Seq(Seq(M)),
           up : BOOLEAN, open : BOOLEAN]

EndOK(k, e) ==
  /\ ~k[e].up => k[e].queue = <<>>
  /\ ~k[e].open => ~k[e].up /\ k[e].in = <<>>
  /\ k[e].open /\ k[Peer(e)].up => k[e].up
  /\ ~k[e].blocked => k[e].out = <<>>
  /\ \A i \in DOMAIN k[e].queue : k[e].queue[i] # <<>>

\* a and then b
Cat(a, b) == a \o b

\* p is what the blocks q hold; t[i] is what is left of it after i blocks.
Flat(M, q, p) ==
  \E t \in [0..Len(q) -> Seq(M)] :
    /\ t[0] = p /\ t[Len(q)] = <<>>
    /\ \A i \in 1..Len(q) : t[i - 1] = Cat(q[i], t[i])

\* out, while there is someone to hear it
Kept(k, e) == IF k[e].up THEN k[Peer(e)].out ELSE <<>>
FlowTo(M, k, e, p) == \E q \in Seq(M) : Flat(M, k[e].queue, q) /\ p = Cat(Cat(k[e].in, q), Kept(k, e))

\* Link k carries f[e] to its end e.
Carries(M, k, f) ==
  /\ k \in [Side -> End(M)] /\ f \in [Side -> Seq(M)]
  /\ \A e \in Side : EndOK(k, e) /\ FlowTo(M, k, e, f[e])

\* End e of k says s, or goes on without being heard.
Said(k, f, e, s) == [f EXCEPT ![Peer(e)] = IF k[Peer(e)].up THEN Cat(@, s) ELSE @]
SameEnds(j, k) == \A e \in Side : j[e].open = k[e].open /\ j[e].up = k[e].up
Says(M, k, f, j, e, s) == Carries(M, j, Said(k, f, e, s)) /\ SameEnds(j, k)

-----------------------------------------------------------------------------
(* Blocks and messages *)

LEMMA Join ==
  ASSUME NEW M
  PROVE  /\ \A a, b \in Seq(M) : Cat(a, b) \in Seq(M)
         /\ \A a, b, d \in Seq(M) : Cat(Cat(a, b), d) = Cat(a, Cat(b, d))
         /\ \A a \in Seq(M) : Cat(a, <<>>) = a /\ Cat(<<>>, a) = a
         /\ \A a \in Seq(M) : \A m \in M : Append(a, m) = Cat(a, <<m>>) /\ <<m>> \in Seq(M)
         /\ <<>> \in Seq(M)
<1>1. \A a, b \in Seq(M) : Cat(a, b) \in Seq(M)
  BY DEF Cat
<1>2. ASSUME NEW a \in Seq(M), NEW b \in Seq(M), NEW d \in Seq(M)
      PROVE  Cat(Cat(a, b), d) = Cat(a, Cat(b, d))
  BY ConcatAssociative DEF Cat
<1>3. ASSUME NEW a \in Seq(M) PROVE Cat(a, <<>>) = a /\ Cat(<<>>, a) = a
  BY ConcatEmptySeq DEF Cat
<1>4. ASSUME NEW a \in Seq(M), NEW m \in M PROVE Append(a, m) = Cat(a, <<m>>) /\ <<m>> \in Seq(M)
  BY AppendIsConcat DEF Cat
<1> QED BY <1>1, <1>2, <1>3, <1>4

\* What is held back and what is sent, with what went before
LEMMA Regroup ==
  ASSUME NEW M, NEW a \in Seq(M), NEW q \in Seq(M), NEW w \in Seq(M), NEW s \in Seq(M)
  PROVE  /\ Cat(Cat(Cat(a, q), w), s) = Cat(Cat(a, q), Cat(w, s))
         /\ Cat(Cat(a, q), Cat(w, s)) = Cat(Cat(a, Cat(q, w)), s)
<1>1. /\ \A x, y \in Seq(M) : Cat(x, y) \in Seq(M)
      /\ \A x, y, z \in Seq(M) : Cat(Cat(x, y), z) = Cat(x, Cat(y, z))
  BY Join
<1>2. Cat(a, q) \in Seq(M)
  BY <1>1
<1>3. Cat(Cat(Cat(a, q), w), s) = Cat(Cat(a, q), Cat(w, s))
  BY <1>1, <1>2
<1>4. Cat(Cat(a, q), w) = Cat(a, Cat(q, w))
  BY <1>1
<1> QED BY <1>3, <1>4

LEMMA FlatNone ==
  ASSUME NEW M
  PROVE  Flat(M, <<>>, <<>>) /\ \A p \in Seq(M) : Flat(M, <<>>, p) => p = <<>>
<1>1. Flat(M, <<>>, <<>>)
  <2> DEFINE t == [i \in 0..0 |-> <<>>]
  <2>1. Len(<<>>) = 0 /\ t \in [0..0 -> Seq(M)] /\ t[0] = <<>>
    OBVIOUS
  <2> HIDE DEF t
  <2>2. \A i \in 1..0 : FALSE
    OBVIOUS
  <2> QED BY <2>1, <2>2, Zenon DEF Flat
<1> QED BY <1>1 DEF Flat

LEMMA FlatMore ==
  ASSUME NEW M, NEW q \in Seq(Seq(M)), NEW p \in Seq(M), Flat(M, q, p), NEW b \in Seq(M)
  PROVE  Flat(M, Append(q, b), Cat(p, b))
<1> DEFINE n == Len(q)
           r == Append(q, b)
<1>1. PICK t \in [0..n -> Seq(M)] :
        /\ t[0] = p /\ t[n] = <<>>
        /\ \A i \in 1..n : t[i - 1] = Cat(q[i], t[i])
  BY DEF Flat
<1>2. /\ n \in Nat /\ Len(r) = n + 1 /\ r[n + 1] = b
      /\ \A i \in 1..n : r[i] = q[i] /\ q[i] \in Seq(M)
  OBVIOUS
<1> HIDE DEF n, r
<1> DEFINE d == [i \in 0..(n + 1) |-> IF i = n + 1 THEN <<>> ELSE Cat(t[i], b)]
<1>3. \A i \in 0..n : t[i] \in Seq(M) /\ Cat(t[i], b) \in Seq(M) /\ d[i] = Cat(t[i], b)
  <2>1. \A i \in 0..n : d[i] = Cat(t[i], b) /\ t[i] \in Seq(M)
    BY <1>2
  <2>2. \A x \in Seq(M) : Cat(x, b) \in Seq(M)
    BY Join
  <2> HIDE DEF d
  <2> QED BY <2>1, <2>2
<1>4. d[n + 1] = <<>> /\ d[0] = Cat(p, b) /\ d[n] = b
  <2>1. d[n + 1] = <<>>
    BY <1>2
  <2>2. d[0] = Cat(t[0], b) /\ d[n] = Cat(t[n], b)
    BY <1>2, <1>3
  <2> QED BY <2>1, <2>2, <1>1, Join
<1>5. d \in [0..(n + 1) -> Seq(M)]
  <2>1. \A i \in 0..(n + 1) : (IF i = n + 1 THEN <<>> ELSE Cat(t[i], b)) \in Seq(M)
    <3>1. \A i \in 0..(n + 1) : i = n + 1 \/ i \in 0..n
      BY <1>2
    <3>2. <<>> \in Seq(M)
      OBVIOUS
    <3> QED BY <3>1, <3>2, <1>3
  <2> QED BY <2>1
<1> HIDE DEF d
<1>6. ASSUME NEW i \in 1..(n + 1) PROVE d[i - 1] = Cat(r[i], d[i])
  <2>1. CASE i = n + 1
    <3>1. i - 1 = n
      BY <2>1, <1>2
    <3>2. Cat(b, <<>>) = b
      BY Join
    <3> QED BY <3>1, <3>2, <2>1, <1>2, <1>4
  <2>2. CASE i \in 1..n
    <3>1. i \in 0..n /\ i - 1 \in 0..n
      BY <2>2, <1>2
    <3>2. d[i] = Cat(t[i], b) /\ d[i - 1] = Cat(t[i - 1], b) /\ t[i] \in Seq(M)
      BY <3>1, <1>3
    <3>3. Cat(Cat(q[i], t[i]), b) = Cat(q[i], Cat(t[i], b))
      <4>1. q[i] \in Seq(M)
        BY <2>2, <1>2
      <4>2. t[i] \in Seq(M)
        BY <3>2
      <4>3. \A a, c, e \in Seq(M) : Cat(Cat(a, c), e) = Cat(a, Cat(c, e))
        BY Join
      <4> QED BY <4>1, <4>2, <4>3
    <3> QED BY <3>2, <3>3, <2>2, <1>1, <1>2
  <2> QED BY <2>1, <2>2, <1>2
<1>7. Flat(M, r, Cat(p, b))
  BY <1>2, <1>4, <1>5, <1>6 DEF Flat
<1> QED BY <1>7 DEF r

LEMMA FlatRest ==
  ASSUME NEW M, NEW q \in Seq(Seq(M)), NEW p \in Seq(M), Flat(M, q, p), q # <<>>
  PROVE  \E r \in Seq(M) : Flat(M, Tail(q), r) /\ p = Cat(Head(q), r)
<1> DEFINE n == Len(q)
           s == Tail(q)
<1>1. PICK t \in [0..n -> Seq(M)] :
        /\ t[0] = p /\ t[n] = <<>>
        /\ \A i \in 1..n : t[i - 1] = Cat(q[i], t[i])
  BY DEF Flat
<1>2. /\ n \in Nat /\ n > 0 /\ Head(q) = q[1] /\ Len(s) = n - 1
      /\ \A i \in 1..(n - 1) : s[i] = q[i + 1]
  OBVIOUS
<1> HIDE DEF n, s
<1> DEFINE d == [i \in 0..(n - 1) |-> t[i + 1]]
<1>3. \A i \in 0..(n - 1) : d[i] = t[i + 1] /\ t[i + 1] \in Seq(M)
  BY <1>2
<1>4. d \in [0..(n - 1) -> Seq(M)]
  BY <1>3
<1>5. t[1] \in Seq(M) /\ p = Cat(q[1], t[1]) /\ d[0] = t[1] /\ d[n - 1] = <<>>
  <2>1. 1 \in 1..n /\ 1 - 1 = 0 /\ (n - 1) + 1 = n /\ 0 + 1 = 1 /\ 0 \in 0..(n - 1) /\ n - 1 \in 0..(n - 1)
    BY <1>2
  <2> QED BY <2>1, <1>1, <1>3
<1> HIDE DEF d
<1>6. ASSUME NEW i \in 1..(n - 1) PROVE d[i - 1] = Cat(s[i], d[i])
  <2>1. i + 1 \in 1..n /\ (i + 1) - 1 = i /\ i - 1 \in 0..(n - 1) /\ (i - 1) + 1 = i /\ i \in 0..(n - 1)
    BY <1>2
  <2>2. t[i] = Cat(q[i + 1], t[i + 1])
    BY <2>1, <1>1
  <2> QED BY <2>1, <2>2, <1>2, <1>3
<1>7. Flat(M, s, t[1])
  BY <1>2, <1>4, <1>5, <1>6 DEF Flat
<1> QED BY <1>2, <1>5, <1>7 DEF s

-----------------------------------------------------------------------------
(* The two ends of a link *)

LEMMA Ends ==
  ASSUME NEW M, NEW k \in [Side -> End(M)], NEW e \in Side
  PROVE  /\ Peer(e) \in Side /\ Peer(e) # e /\ Peer(Peer(e)) = e /\ \A d \in Side : d = e \/ d = Peer(e)
         /\ k[e] \in End(M)
         /\ k[e].out \in Seq(M) /\ k[e].in \in Seq(M) /\ k[e].queue \in Seq(Seq(M))
         /\ k[e].blocked \in BOOLEAN /\ k[e].up \in BOOLEAN /\ k[e].open \in BOOLEAN
  BY DEF Side, Peer, End

\* What differs at end e is what it holds back.
Differs(M, j, k, e, o, z) ==
  /\ j \in [Side -> End(M)] /\ j[Peer(e)] = k[Peer(e)]
  /\ j[e].out = o /\ j[e].blocked = z
  /\ j[e].in = k[e].in /\ j[e].queue = k[e].queue /\ j[e].up = k[e].up /\ j[e].open = k[e].open

LEMMA Held ==
  ASSUME NEW M, NEW k, NEW f, Carries(M, k, f), NEW e \in Side, k[e].open,
         NEW s \in Seq(M), NEW z \in BOOLEAN, ~z => Cat(k[e].out, s) = <<>>,
         NEW j, Differs(M, j, k, e, Cat(k[e].out, s), z)
  PROVE  Says(M, k, f, j, e, s)
<1> DEFINE d == Peer(e)
           g == Said(k, f, e, s)
<1>1. /\ k \in [Side -> End(M)] /\ j \in [Side -> End(M)] /\ f \in [Side -> Seq(M)]
      /\ EndOK(k, e) /\ EndOK(k, d) /\ FlowTo(M, k, e, f[e]) /\ FlowTo(M, k, d, f[d])
      /\ d \in Side /\ d # e /\ Peer(d) = e /\ \A x \in Side : x = e \/ x = d
  BY Ends DEF Carries, Differs
<1>2. /\ g \in [Side -> Seq(M)] /\ g[e] = f[e]
      /\ g[d] = IF k[d].up THEN Cat(f[d], s) ELSE f[d]
  <2>1. f[d] \in Seq(M) /\ Cat(f[d], s) \in Seq(M)
    BY <1>1, Join
  <2> QED BY <2>1, <1>1 DEF Said
<1>3. /\ j[d] = k[d] /\ j[e].out = Cat(k[e].out, s) /\ j[e].blocked = z
      /\ j[e].in = k[e].in /\ j[e].queue = k[e].queue /\ j[e].up = k[e].up /\ j[e].open = k[e].open
  BY DEF Differs
<1> HIDE DEF d, g
<1>4. EndOK(j, e) /\ EndOK(j, d)
  BY <1>1, <1>3 DEF EndOK, d
<1>5. SameEnds(j, k)
  BY <1>1, <1>3 DEF SameEnds
<1>6. FlowTo(M, j, e, g[e])
  BY <1>1, <1>2, <1>3 DEF FlowTo, Kept, d
<1>7. FlowTo(M, j, d, g[d])
  <2>1. CASE ~k[d].up
    BY <2>1, <1>1, <1>2, <1>3 DEF FlowTo, Kept
  <2>2. CASE k[d].up
    <3>1. PICK q \in Seq(M) : Flat(M, k[d].queue, q) /\ f[d] = Cat(Cat(k[d].in, q), Kept(k, d))
      BY <1>1 DEF FlowTo
    <3>2. Kept(k, d) = k[e].out /\ Kept(j, d) = Cat(k[e].out, s)
      BY <2>2, <1>1, <1>3 DEF Kept
    <3>3. k[d].in \in Seq(M) /\ k[e].out \in Seq(M)
      BY <1>1, Ends
    <3>4. Cat(Cat(Cat(k[d].in, q), k[e].out), s) = Cat(Cat(k[d].in, q), Cat(k[e].out, s))
      BY <3>3, Regroup
    <3> QED BY <2>2, <3>1, <3>2, <3>4, <1>2, <1>3 DEF FlowTo
  <2> QED BY <2>1, <2>2
<1>8. Carries(M, j, g)
  BY <1>1, <1>2, <1>4, <1>6, <1>7 DEF Carries
<1> QED BY <1>5, <1>8 DEF Says, g

LEMMA Sent ==
  ASSUME NEW M, NEW k, NEW f, Carries(M, k, f), NEW e \in Side, k[e].open,
         NEW b \in Seq(M), b # <<>>, NEW o \in Seq(M), NEW s \in Seq(M), Cat(k[e].out, s) = Cat(b, o),
         NEW z \in BOOLEAN, ~z => o = <<>>, NEW j, Differs(M, j, k, e, o, z)
  PROVE  Says(M, k, f, Send(j, e, b), e, s)
<1> DEFINE d == Peer(e)
           g == Said(k, f, e, s)
           i == Send(j, e, b)
<1>1. /\ k \in [Side -> End(M)] /\ j \in [Side -> End(M)] /\ f \in [Side -> Seq(M)]
      /\ EndOK(k, e) /\ EndOK(k, d) /\ FlowTo(M, k, e, f[e]) /\ FlowTo(M, k, d, f[d])
      /\ d \in Side /\ d # e /\ Peer(d) = e /\ \A x \in Side : x = e \/ x = d
  BY Ends DEF Carries, Differs
<1>2. /\ g \in [Side -> Seq(M)] /\ g[e] = f[e]
      /\ g[d] = IF k[d].up THEN Cat(f[d], s) ELSE f[d]
  <2>1. f[d] \in Seq(M) /\ Cat(f[d], s) \in Seq(M)
    BY <1>1, Join
  <2> QED BY <2>1, <1>1 DEF Said
<1>3. /\ j[d] = k[d] /\ j[e].out = o /\ j[e].blocked = z
      /\ j[e].in = k[e].in /\ j[e].queue = k[e].queue /\ j[e].up = k[e].up /\ j[e].open = k[e].open
  BY DEF Differs
<1>4. k[d].up => k[e].up
  BY <1>1 DEF EndOK, d
<1>5. /\ i \in [Side -> End(M)] /\ i[e] = j[e]
      /\ i[d].queue = IF k[d].up THEN Append(k[d].queue, b) ELSE k[d].queue
      /\ i[d].in = k[d].in /\ i[d].out = k[d].out /\ i[d].blocked = k[d].blocked
      /\ i[d].up = k[d].up /\ i[d].open = k[d].open
  <2>1. CASE ~k[d].up
    BY <2>1, <1>1, <1>3 DEF Send
  <2>2. CASE k[d].up
    <3>1. i = [j EXCEPT ![d] = [j[d] EXCEPT !.queue = Append(j[d].queue, b)]]
      BY <2>2, <1>1, <1>3, <1>4 DEF Send
    <3>2. j[d] \in End(M) /\ Append(j[d].queue, b) \in Seq(Seq(M))
      <4>1. j[d] \in End(M) /\ j[d].queue \in Seq(Seq(M))
        BY <1>1, Ends
      <4> QED BY <4>1
    <3>3. [j[d] EXCEPT !.queue = Append(j[d].queue, b)] \in End(M)
      BY <3>2 DEF End
    <3>4. i \in [Side -> End(M)] /\ i[e] = j[e] /\ i[d] = [j[d] EXCEPT !.queue = Append(j[d].queue, b)]
      BY <3>1, <3>3, <1>1
    <3> HIDE DEF i
    <3>5. /\ i[d].queue = Append(k[d].queue, b) /\ i[d].in = k[d].in /\ i[d].out = k[d].out
          /\ i[d].blocked = k[d].blocked /\ i[d].up = k[d].up /\ i[d].open = k[d].open
      BY <3>2, <3>4, <1>3 DEF End
    <3> QED BY <3>4, <3>5, <2>2
  <2> QED BY <2>1, <2>2
<1> HIDE DEF d, g, i
<1>6. EndOK(i, e) /\ EndOK(i, d)
  <2>1. \A x \in DOMAIN i[d].queue : i[d].queue[x] # <<>>
    <3>1. \A x \in DOMAIN k[d].queue : k[d].queue[x] # <<>>
      BY <1>1 DEF EndOK
    <3>2. k[d].queue \in Seq(Seq(M))
      BY <1>1, Ends
    <3> QED BY <3>1, <3>2, <1>5
  <2>2. i[d].up => k[d].up
    BY <1>5
  <2>3. EndOK(i, e)
    <3>1. /\ i[e].up = k[e].up /\ i[e].queue = k[e].queue /\ i[e].open = k[e].open /\ i[e].in = k[e].in
          /\ i[e].blocked = z /\ i[e].out = o /\ i[d].up = k[d].up
      BY <1>3, <1>5
    <3> QED BY <3>1, <1>1, <1>4 DEF EndOK, d
  <2>4. EndOK(i, d)
    <3>1. ~i[d].up => i[d].queue = <<>>
      BY <1>1, <1>5 DEF EndOK
    <3> QED BY <2>1, <3>1, <1>1, <1>3, <1>5 DEF EndOK
  <2> QED BY <2>3, <2>4
<1>7. SameEnds(i, k)
  BY <1>1, <1>3, <1>5 DEF SameEnds
<1>8. FlowTo(M, i, e, g[e])
  BY <1>1, <1>2, <1>3, <1>5 DEF FlowTo, Kept, d
<1>9. FlowTo(M, i, d, g[d])
  <2>1. CASE ~k[d].up
    BY <2>1, <1>1, <1>2, <1>5 DEF FlowTo, Kept
  <2>2. CASE k[d].up
    <3>1. PICK q \in Seq(M) : Flat(M, k[d].queue, q) /\ f[d] = Cat(Cat(k[d].in, q), Kept(k, d))
      BY <1>1 DEF FlowTo
    <3>2. Kept(k, d) = k[e].out /\ Kept(i, d) = o
      BY <2>2, <1>1, <1>3, <1>5 DEF Kept
    <3>3. k[d].in \in Seq(M) /\ k[d].queue \in Seq(Seq(M)) /\ k[e].out \in Seq(M)
      BY <1>1, Ends
    <3>4. Flat(M, i[d].queue, Cat(q, b)) /\ Cat(q, b) \in Seq(M)
      <4>1. Flat(M, Append(k[d].queue, b), Cat(q, b))
        BY <3>1, <3>3, FlatMore
      <4> QED BY <4>1, <2>2, <1>5, Join
    <3>5. g[d] = Cat(Cat(k[d].in, Cat(q, b)), o)
      <4>1. /\ Cat(Cat(Cat(k[d].in, q), k[e].out), s) = Cat(Cat(k[d].in, q), Cat(k[e].out, s))
            /\ Cat(Cat(k[d].in, q), Cat(b, o)) = Cat(Cat(k[d].in, Cat(q, b)), o)
        BY <3>3, Regroup
      <4> QED BY <4>1, <3>1, <3>2, <2>2, <1>2
    <3> QED BY <3>2, <3>4, <3>5, <1>5 DEF FlowTo
  <2> QED BY <2>1, <2>2
<1>10. Carries(M, i, g)
  BY <1>1, <1>2, <1>5, <1>6, <1>8, <1>9 DEF Carries
<1> QED BY <1>7, <1>10 DEF Says, g, i

-----------------------------------------------------------------------------
(* Writing *)

LEMMA ChangedEnd ==
  ASSUME NEW M, NEW k \in [Side -> End(M)], NEW e \in Side, NEW x \in End(M),
         x.in = k[e].in, x.queue = k[e].queue, x.up = k[e].up, x.open = k[e].open
  PROVE  Differs(M, [k EXCEPT ![e] = x], k, e, x.out, x.blocked)
<1>1. k[e] \in End(M) /\ Peer(e) \in Side /\ Peer(e) # e
  BY Ends
<1> QED BY <1>1 DEF Differs

LEMMA ChangedOut ==
  ASSUME NEW M, NEW k \in [Side -> End(M)], NEW e \in Side, NEW o \in Seq(M)
  PROVE  Differs(M, [k EXCEPT ![e].out = o], k, e, o, k[e].blocked)
<1> DEFINE x == [k[e] EXCEPT !.out = o]
<1>1. /\ x \in End(M) /\ x.in = k[e].in /\ x.queue = k[e].queue /\ x.up = k[e].up /\ x.open = k[e].open
      /\ x.out = o /\ x.blocked = k[e].blocked
  <2>1. k[e] \in End(M)
    OBVIOUS
  <2> QED BY <2>1 DEF End
<1>2. [k EXCEPT ![e].out = o] = [k EXCEPT ![e] = x]
  OBVIOUS
<1> HIDE DEF x
<1>3. Differs(M, [k EXCEPT ![e] = x], k, e, x.out, x.blocked)
  BY <1>1, ChangedEnd
<1> QED BY <1>1, <1>2, <1>3

LEMMA ChangedBlocked ==
  ASSUME NEW M, NEW k \in [Side -> End(M)], NEW e \in Side, NEW z \in BOOLEAN
  PROVE  Differs(M, [k EXCEPT ![e].blocked = z], k, e, k[e].out, z)
<1> DEFINE x == [k[e] EXCEPT !.blocked = z]
<1>1. /\ x \in End(M) /\ x.in = k[e].in /\ x.queue = k[e].queue /\ x.up = k[e].up /\ x.open = k[e].open
      /\ x.out = k[e].out /\ x.blocked = z
  <2>1. k[e] \in End(M)
    OBVIOUS
  <2> QED BY <2>1 DEF End
<1>2. [k EXCEPT ![e].blocked = z] = [k EXCEPT ![e] = x]
  OBVIOUS
<1> HIDE DEF x
<1>3. Differs(M, [k EXCEPT ![e] = x], k, e, x.out, x.blocked)
  BY <1>1, ChangedEnd
<1> QED BY <1>1, <1>2, <1>3

LEMMA ChangedBoth ==
  ASSUME NEW M, NEW k \in [Side -> End(M)], NEW e \in Side, NEW o \in Seq(M), NEW z \in BOOLEAN
  PROVE  Differs(M, [k EXCEPT ![e].blocked = z, ![e].out = o], k, e, o, z)
<1> DEFINE x == [[k[e] EXCEPT !.blocked = z] EXCEPT !.out = o]
<1>1. /\ x \in End(M) /\ x.in = k[e].in /\ x.queue = k[e].queue /\ x.up = k[e].up /\ x.open = k[e].open
      /\ x.out = o /\ x.blocked = z
  <2>1. k[e] \in End(M)
    OBVIOUS
  <2> QED BY <2>1 DEF End
<1>2. [k EXCEPT ![e].blocked = z, ![e].out = o] = [k EXCEPT ![e] = x]
  OBVIOUS
<1> HIDE DEF x
<1>3. Differs(M, [k EXCEPT ![e] = x], k, e, x.out, x.blocked)
  BY <1>1, ChangedEnd
<1> QED BY <1>1, <1>2, <1>3

LEMMA SaidNothing ==
  ASSUME NEW M, NEW k, NEW f \in [Side -> Seq(M)], NEW e \in Side
  PROVE  Said(k, f, e, <<>>) = f
<1>1. Peer(e) \in Side /\ f[Peer(e)] \in Seq(M)
  BY DEF Side, Peer
<1>2. Cat(f[Peer(e)], <<>>) = f[Peer(e)]
  BY <1>1, Join
<1> QED BY <1>1, <1>2 DEF Said

\* What is said and then more
LEMMA SaysMore ==
  ASSUME NEW M, NEW k, NEW f \in [Side -> Seq(M)], NEW e \in Side, NEW s \in Seq(M), NEW t \in Seq(M),
         NEW j, Says(M, k, f, j, e, s),
         NEW i, Says(M, j, Said(k, f, e, s), i, e, t)
  PROVE  Says(M, k, f, i, e, Cat(s, t))
<1>1. Peer(e) \in Side /\ f[Peer(e)] \in Seq(M)
  BY DEF Side, Peer
<1>2. SameEnds(i, k) /\ j[Peer(e)].up = k[Peer(e)].up
  BY <1>1 DEF Says, SameEnds
<1>3. Cat(Cat(f[Peer(e)], s), t) = Cat(f[Peer(e)], Cat(s, t))
  BY <1>1, Join
<1>4. Said(j, Said(k, f, e, s), e, t) = Said(k, f, e, Cat(s, t))
  BY <1>1, <1>2, <1>3 DEF Said
<1> QED BY <1>2, <1>4 DEF Says

LEMMA WriteSays ==
  ASSUME NEW M, NEW k, NEW f, Carries(M, k, f), NEW e \in Side, k[e].open, NEW m \in M
  PROVE  Says(M, k, f, Write(k, e, m), e, <<m>>)
<1>1. /\ k \in [Side -> End(M)] /\ EndOK(k, e)
      /\ k[e].out \in Seq(M) /\ k[e].blocked \in BOOLEAN
  BY Ends DEF Carries
<1>2. /\ <<>> \in Seq(M) /\ <<m>> \in Seq(M) /\ <<m>> # <<>>
      /\ Append(k[e].out, m) = Cat(k[e].out, <<m>>) /\ Append(k[e].out, m) \in Seq(M)
      /\ Append(k[e].out, m) # <<>> /\ Append(<<>>, m) = <<m>>
  <2>1. <<m>> \in Seq(M) /\ Append(k[e].out, m) = Cat(k[e].out, <<m>>)
    BY <1>1, Join
  <2>2. /\ Append(k[e].out, m) \in Seq(M) /\ Append(k[e].out, m) # <<>>
        /\ Append(<<>>, m) = <<m>> /\ <<>> \in Seq(M) /\ <<m>> # <<>>
    BY <1>1
  <2> QED BY <2>1, <2>2
<1>3. CASE ~k[e].blocked
  <2>1. k[e].out = <<>>
    BY <1>1, <1>3 DEF EndOK
  <2>2. Cat(k[e].out, <<m>>) = Cat(<<m>>, <<>>)
    BY <2>1, <1>2, Join
  <2>3. Differs(M, [k EXCEPT ![e].out = <<>>], k, e, <<>>, FALSE)
    <3>1. Differs(M, [k EXCEPT ![e].out = <<>>], k, e, <<>>, k[e].blocked)
      BY <1>1, <1>2, ChangedOut
    <3>2. k[e].blocked = FALSE
      BY <1>1, <1>3
    <3> QED BY <3>1, <3>2
  <2>4. Write(k, e, m) = Send([k EXCEPT ![e].out = <<>>], e, <<m>>)
    BY <2>1, <1>2, <1>3 DEF Write
  <2> QED BY <2>2, <2>3, <2>4, <1>2, Sent
<1>4. CASE k[e].blocked /\ (Len(k[e].out) + 1 < BlockSize \/ k[e].out = <<>>)
  <2>1. Write(k, e, m) = [k EXCEPT ![e].out = Cat(k[e].out, <<m>>)]
    BY <1>2, <1>4 DEF Write
  <2>2. Differs(M, Write(k, e, m), k, e, Cat(k[e].out, <<m>>), TRUE)
    <3>1. Cat(k[e].out, <<m>>) \in Seq(M) /\ k[e].blocked = TRUE
      BY <1>1, <1>2, <1>4
    <3>2. Differs(M, [k EXCEPT ![e].out = Cat(k[e].out, <<m>>)], k, e, Cat(k[e].out, <<m>>), k[e].blocked)
      BY <1>1, <3>1, ChangedOut
    <3> QED BY <2>1, <3>1, <3>2
  <2> QED BY <2>2, <1>2, Held
<1>5. CASE k[e].blocked /\ ~(Len(k[e].out) + 1 < BlockSize \/ k[e].out = <<>>)
  <2>1. Write(k, e, m) = Send([k EXCEPT ![e].out = <<m>>], e, k[e].out)
    BY <1>5 DEF Write
  <2>2. Differs(M, [k EXCEPT ![e].out = <<m>>], k, e, <<m>>, TRUE)
    BY <1>1, <1>2, <1>5, ChangedOut
  <2>3. k[e].out # <<>>
    BY <1>5
  <2>4. Cat(k[e].out, <<m>>) = Cat(k[e].out, <<m>>)
    OBVIOUS
  <2>5. Says(M, k, f, Send([k EXCEPT ![e].out = <<m>>], e, k[e].out), e, <<m>>)
    BY <2>2, <2>3, <2>4, <1>1, <1>2, Sent
  <2> QED BY <2>1, <2>5
<1> QED BY <1>3, <1>4, <1>5

LEMMA BlockSays ==
  ASSUME NEW M, NEW k, NEW f, Carries(M, k, f), NEW e \in Side, k[e].open
  PROVE  Says(M, k, f, Block(k, e), e, <<>>)
<1>1. k \in [Side -> End(M)] /\ k[e].out \in Seq(M)
  BY Ends DEF Carries
<1>2. Cat(k[e].out, <<>>) = k[e].out /\ <<>> \in Seq(M)
  BY <1>1, Join
<1>3. Differs(M, Block(k, e), k, e, Cat(k[e].out, <<>>), TRUE)
  BY <1>1, <1>2, ChangedBlocked DEF Block
<1> QED BY <1>2, <1>3, Held

LEMMA UnblockSays ==
  ASSUME NEW M, NEW k, NEW f, Carries(M, k, f), NEW e \in Side, k[e].open
  PROVE  Says(M, k, f, Unblock(k, e), e, <<>>) /\ Unblock(k, e)[e].out = <<>>
<1>1. k \in [Side -> End(M)] /\ k[e].out \in Seq(M) /\ EndOK(k, e) /\ k[e].blocked \in BOOLEAN
  BY Ends DEF Carries
<1>2. Cat(k[e].out, <<>>) = k[e].out /\ <<>> \in Seq(M)
  BY <1>1, Join
<1>3. CASE k[e].blocked /\ k[e].out # <<>>
  <2> DEFINE j == [k EXCEPT ![e].blocked = FALSE, ![e].out = <<>>]
  <2>1. Unblock(k, e) = Send(j, e, k[e].out)
    BY <1>3 DEF Unblock
  <2>2. Differs(M, j, k, e, <<>>, FALSE)
    BY <1>1, <1>2, ChangedBoth
  <2> HIDE DEF j
  <2>3. Says(M, k, f, Unblock(k, e), e, <<>>)
    BY <2>1, <2>2, <1>1, <1>2, <1>3, Sent
  <2>4. Send(j, e, k[e].out)[e].out = <<>>
    BY <2>2, Ends DEF Differs, Send
  <2> QED BY <2>1, <2>3, <2>4
<1>4. CASE ~(k[e].blocked /\ k[e].out # <<>>)
  <2>1. k[e].out = <<>>
    BY <1>1, <1>4 DEF EndOK
  <2>2. Differs(M, Unblock(k, e), k, e, Cat(k[e].out, <<>>), FALSE)
    <3>1. Unblock(k, e) = [k EXCEPT ![e].blocked = FALSE]
      BY <1>4 DEF Unblock
    <3>2. Differs(M, [k EXCEPT ![e].blocked = FALSE], k, e, k[e].out, FALSE)
      BY <1>1, ChangedBlocked
    <3> QED BY <3>1, <3>2, <1>2
  <2>3. Says(M, k, f, Unblock(k, e), e, <<>>)
    BY <2>1, <2>2, <1>2, Held
  <2> QED BY <2>1, <2>2, <2>3, <1>2 DEF Differs
<1> QED BY <1>3, <1>4

LEMMA ReplySays ==
  ASSUME NEW M, NEW k, NEW f, Carries(M, k, f), NEW e \in Side, k[e].open, NEW m \in M
  PROVE  Says(M, k, f, Reply(k, e, m), e, <<m>>)
<1>1. Says(M, k, f, Write(k, e, m), e, <<m>>)
  BY WriteSays
<1>2. Write(k, e, m)[e].open /\ Carries(M, Write(k, e, m), Said(k, f, e, <<m>>))
  BY <1>1 DEF Says, SameEnds
<1>3. Says(M, Write(k, e, m), Said(k, f, e, <<m>>), Reply(k, e, m), e, <<>>)
  BY <1>2, UnblockSays DEF Reply
<1>4. <<m>> \in Seq(M) /\ <<>> \in Seq(M) /\ Cat(<<m>>, <<>>) = <<m>> /\ f \in [Side -> Seq(M)]
  BY Join DEF Carries
<1>5. Says(M, k, f, Reply(k, e, m), e, Cat(<<m>>, <<>>))
  BY <1>1, <1>3, <1>4, SaysMore
<1> QED BY <1>4, <1>5

-----------------------------------------------------------------------------
(* Writing several messages *)

LEMMA NatUp ==
  ASSUME NEW T \in SUBSET Nat, 0 \in T, \A n \in T : n + 1 \in T
  PROVE  T = Nat
<1> SUFFICES ASSUME T # Nat PROVE FALSE
  OBVIOUS
<1> DEFINE U == Nat \ T
<1>1. PICK R : IsWellFoundedOn(R, Nat) /\ \A x, y \in Nat : <<y, x>> \in R <=> y < x
  <2> DEFINE R == OpToRel(<, Nat)
  <2>1. IsWellFoundedOn(R, Nat)
    BY NatLessThanWellFounded
  <2>2. \A x, y \in Nat : <<y, x>> \in R <=> y < x
    BY DEF OpToRel
  <2> HIDE DEF R
  <2> QED BY <2>1, <2>2
<1>2. U \subseteq Nat /\ U # {}
  OBVIOUS
<1>3. PICK x \in U : \A y \in U : ~(<<y, x>> \in R)
  <2> HIDE DEF U
  <2> QED BY <1>1, <1>2, WFMin
<1>4. x \in Nat /\ x # 0 /\ x - 1 \in Nat /\ (x - 1) + 1 = x /\ x - 1 < x
  OBVIOUS
<1>5. x - 1 \notin U
  BY <1>1, <1>3, <1>4
<1> QED BY <1>4, <1>5

LEMMA WriteAllSteps ==
  ASSUME NEW M, NEW k, NEW e, NEW ms \in Seq(M)
  PROVE  \E w : /\ w[0] = k /\ \A n \in 1..Len(ms) : w[n] = Write(w[n - 1], e, ms[n])
                /\ WriteAll(k, e, ms) = w[Len(ms)]
<1> DEFINE L == Len(ms)
           Steps(w, n) == w = [i \in 0..n |-> IF i = 0 THEN k ELSE Write(w[i - 1], e, ms[i])]
           T == {n \in Nat : \E w : Steps(w, n)}
<1>0. L \in Nat
  OBVIOUS
<1>1. 0 \in T
  <2>1. Steps([i \in 0..0 |-> k], 0)
    OBVIOUS
  <2> QED BY <2>1
<1>2. ASSUME NEW n \in T PROVE n + 1 \in T
  <2>1. n \in Nat /\ \E w : Steps(w, n)
    OBVIOUS
  <2>2. PICK w : Steps(w, n)
    BY <2>1
  <2> DEFINE v == [i \in 0..(n + 1) |-> IF i = n + 1 THEN Write(w[n], e, ms[n + 1]) ELSE w[i]]
  <2>3. \A i \in 0..n : w[i] = IF i = 0 THEN k ELSE Write(w[i - 1], e, ms[i])
    BY <2>2
  <2>4. \A i \in 0..n : v[i] = w[i]
    BY <2>1
  <2>5. v[n + 1] = Write(w[n], e, ms[n + 1])
    BY <2>1
  <2>6. v = [i \in 0..(n + 1) |-> v[i]]
    OBVIOUS
  <2> HIDE DEF v
  <2>7. ASSUME NEW i \in 0..(n + 1) PROVE v[i] = IF i = 0 THEN k ELSE Write(v[i - 1], e, ms[i])
    <3>1. CASE i = n + 1
      <4>1. i # 0 /\ i - 1 = n /\ n \in 0..n
        BY <2>1, <3>1
      <4> QED BY <4>1, <3>1, <2>4, <2>5
    <3>2. CASE i \in 0..n
      <4>1. i = 0 \/ i - 1 \in 0..n
        BY <2>1, <3>2
      <4> QED BY <4>1, <3>2, <2>3, <2>4
    <3> QED BY <3>1, <3>2, <2>1
  <2>8. Steps(v, n + 1)
    BY <2>6, <2>7
  <2> HIDE DEF Steps
  <2> QED BY <2>1, <2>8
<1>3. \E w : Steps(w, L)
  <2>1. T \in SUBSET Nat
    OBVIOUS
  <2>2. T = Nat
    <3> HIDE DEF T
    <3> QED BY <2>1, <1>1, <1>2, NatUp
  <2> QED BY <2>2, <1>0
<1> DEFINE w == CHOOSE w : Steps(w, L)
<1>4. Steps(w, L)
  <2> HIDE DEF Steps
  <2> QED BY <1>3
<1>5. WriteAll(k, e, ms) = w[L]
  BY DEF WriteAll
<1> HIDE DEF w
<1>6. w[0] = k /\ \A n \in 1..L : w[n] = Write(w[n - 1], e, ms[n])
  <2>1. \A n \in 0..L : w[n] = IF n = 0 THEN k ELSE Write(w[n - 1], e, ms[n])
    BY <1>4
  <2> QED BY <2>1, <1>0
<1> QED BY <1>5, <1>6

LEMMA WriteAllSays ==
  ASSUME NEW M, NEW k, NEW f, Carries(M, k, f), NEW e \in Side, k[e].open, NEW ms \in Seq(M)
  PROVE  Says(M, k, f, WriteAll(k, e, ms), e, ms)
<1> DEFINE L == Len(ms)
           S(n) == SubSeq(ms, 1, n)
<1>1. PICK w : /\ w[0] = k /\ \A n \in 1..L : w[n] = Write(w[n - 1], e, ms[n])
               /\ WriteAll(k, e, ms) = w[L]
  BY WriteAllSteps
<1>2. L \in Nat /\ S(0) = <<>> /\ S(L) = ms /\ \A n \in 1..L : ms[n] \in M
  OBVIOUS
<1>3. ASSUME NEW n \in Nat, n + 1 <= L
      PROVE  S(n) \in Seq(M) /\ <<ms[n + 1]>> \in Seq(M) /\ Cat(S(n), <<ms[n + 1]>>) = S(n + 1)
  <2>1. ms[n + 1] \in M
    BY <1>2, <1>3
  <2>2. S(n) \in Seq(M)
    BY <1>2, <1>3
  <2>3. S(n + 1) = Append(S(n), ms[n + 1])
    BY <1>2, <1>3
  <2> HIDE DEF L, S
  <2>4. \A a \in Seq(M) : \A m \in M : Append(a, m) = Cat(a, <<m>>) /\ <<m>> \in Seq(M)
    BY Join
  <2> QED BY <2>1, <2>2, <2>3, <2>4
<1> HIDE DEF L, S
<1> DEFINE T == {n \in Nat : n <= L => Says(M, k, f, w[n], e, S(n))}
<1>4. f \in [Side -> Seq(M)] /\ SameEnds(k, k)
  BY DEF Carries, SameEnds
<1>5. 0 \in T
  <2>1. Says(M, k, f, k, e, <<>>)
    BY <1>4, SaidNothing DEF Says
  <2> QED BY <2>1, <1>1, <1>2
<1>6. ASSUME NEW n \in T PROVE n + 1 \in T
  <2> SUFFICES ASSUME n + 1 <= L PROVE Says(M, k, f, w[n + 1], e, S(n + 1))
    OBVIOUS
  <2>1. n \in Nat /\ n + 1 \in 1..L /\ n <= L /\ (n + 1) - 1 = n
    BY <1>2
  <2>2. Says(M, k, f, w[n], e, S(n)) /\ w[n + 1] = Write(w[n], e, ms[n + 1])
    BY <2>1, <1>1
  <2>3. Carries(M, w[n], Said(k, f, e, S(n))) /\ w[n][e].open
    BY <2>2 DEF Says, SameEnds
  <2>4. Says(M, w[n], Said(k, f, e, S(n)), w[n + 1], e, <<ms[n + 1]>>)
    BY <2>1, <2>2, <2>3, <1>2, WriteSays
  <2> QED BY <2>1, <2>2, <2>4, <1>3, <1>4, SaysMore
<1>7. T = Nat
  <2>1. T \in SUBSET Nat
    OBVIOUS
  <2> HIDE DEF T
  <2> QED BY <2>1, <1>5, <1>6, NatUp
<1> QED BY <1>1, <1>2, <1>7

LEMMA SendBlockSays ==
  ASSUME NEW M, NEW k, NEW f, Carries(M, k, f), NEW e \in Side, k[e].open, NEW ms \in Seq(M)
  PROVE  Says(M, k, f, SendBlock(k, e, ms), e, ms)
<1>1. f \in [Side -> Seq(M)] /\ Cat(<<>>, ms) = ms /\ Cat(ms, <<>>) = ms /\ <<>> \in Seq(M)
  BY Join DEF Carries
<1> DEFINE j == Block(k, e)
           i == WriteAll(j, e, ms)
<1>2. Says(M, k, f, j, e, <<>>)
  BY BlockSays
<1>3. Carries(M, j, Said(k, f, e, <<>>)) /\ j[e].open
  BY <1>2 DEF Says, SameEnds
<1>4. Says(M, j, Said(k, f, e, <<>>), i, e, ms)
  BY <1>3, WriteAllSays
<1>5. Says(M, k, f, i, e, ms)
  BY <1>1, <1>2, <1>4, SaysMore
<1>6. Carries(M, i, Said(k, f, e, ms)) /\ i[e].open
  BY <1>5 DEF Says, SameEnds
<1>7. Says(M, i, Said(k, f, e, ms), SendBlock(k, e, ms), e, <<>>)
  BY <1>6, UnblockSays DEF SendBlock
<1>8. Says(M, k, f, SendBlock(k, e, ms), e, Cat(ms, <<>>))
  <2> HIDE DEF i, j
  <2> QED BY <1>1, <1>5, <1>7, SaysMore
<1> QED BY <1>1, <1>8

-----------------------------------------------------------------------------
(* Reading, and what is lost *)

LEMMA CarriesMore ==
  ASSUME NEW M, NEW N, M \subseteq N, NEW k, NEW f, Carries(M, k, f)
  PROVE  Carries(N, k, f)
<1>1. /\ \A s \in Seq(M) : s \in Seq(N)
      /\ \A q \in Seq(Seq(M)) : q \in Seq(Seq(N))
  <2>1. \A s \in Seq(M) : s \in Seq(N)
    BY SeqMonotonic
  <2>2. Seq(M) \subseteq Seq(N)
    BY <2>1
  <2>3. \A q \in Seq(Seq(M)) : q \in Seq(Seq(N))
    BY <2>2, SeqMonotonic
  <2> QED BY <2>1, <2>3
<1>2. /\ k \in [Side -> End(M)] /\ f \in [Side -> Seq(M)]
      /\ \A e \in Side : EndOK(k, e) /\ FlowTo(M, k, e, f[e])
  BY DEF Carries
<1>3. \A x \in End(M) : x \in End(N)
  BY <1>1 DEF End
<1>4. k \in [Side -> End(N)] /\ f \in [Side -> Seq(N)]
  BY <1>1, <1>2, <1>3
<1>5. ASSUME NEW e \in Side PROVE FlowTo(N, k, e, f[e])
  <2>1. PICK q \in Seq(M) : Flat(M, k[e].queue, q) /\ f[e] = Cat(Cat(k[e].in, q), Kept(k, e))
    BY <1>2 DEF FlowTo
  <2>2. PICK t \in [0..Len(k[e].queue) -> Seq(M)] :
          /\ t[0] = q /\ t[Len(k[e].queue)] = <<>>
          /\ \A i \in 1..Len(k[e].queue) : t[i - 1] = Cat(k[e].queue[i], t[i])
    BY <2>1 DEF Flat
  <2>3. t \in [0..Len(k[e].queue) -> Seq(N)]
    BY <1>1
  <2>4. Flat(N, k[e].queue, q)
    BY <2>2, <2>3 DEF Flat
  <2> QED BY <2>1, <2>4, <1>1 DEF FlowTo
<1> QED BY <1>2, <1>4, <1>5 DEF Carries

LEMMA HeadOf ==
  ASSUME NEW M, NEW a \in Seq(M), NEW s \in Seq(M), a # <<>>
  PROVE  /\ Cat(a, s) # <<>> /\ Head(Cat(a, s)) = Head(a) /\ Tail(Cat(a, s)) = Cat(Tail(a), s)
         /\ Tail(a) \in Seq(M) /\ Head(a) \in M
<1>1. /\ Len(a) \in Nat /\ Len(a) > 0 /\ Tail(a) \in Seq(M) /\ Head(a) \in M
      /\ Head(a) = a[1] /\ Len(Tail(a)) = Len(a) - 1 /\ \A i \in 1..(Len(a) - 1) : Tail(a)[i] = a[i + 1]
  OBVIOUS
<1>2. /\ a \o s \in Seq(M) /\ Len(a \o s) = Len(a) + Len(s) /\ Len(s) \in Nat
      /\ \A i \in 1..(Len(a) + Len(s)) : (a \o s)[i] = IF i <= Len(a) THEN a[i] ELSE s[i - Len(a)]
  BY ConcatProperties
<1>3. /\ Tail(a) \o s \in Seq(M) /\ Len(Tail(a) \o s) = Len(Tail(a)) + Len(s)
      /\ \A i \in 1..(Len(Tail(a)) + Len(s)) :
           (Tail(a) \o s)[i] = IF i <= Len(Tail(a)) THEN Tail(a)[i] ELSE s[i - Len(Tail(a))]
  BY <1>1, ConcatProperties
<1>4. a \o s # <<>> /\ Head(a \o s) = a[1]
  BY <1>1, <1>2
<1>5. /\ Tail(a \o s) \in Seq(M) /\ Len(Tail(a \o s)) = Len(a) + Len(s) - 1
      /\ \A i \in 1..(Len(a) + Len(s) - 1) : Tail(a \o s)[i] = (a \o s)[i + 1]
  BY <1>1, <1>2, <1>4
<1>6. Tail(a \o s) = Tail(a) \o s
  <2>1. ASSUME NEW i \in 1..(Len(a) + Len(s) - 1) PROVE Tail(a \o s)[i] = (Tail(a) \o s)[i]
    <3>1. i + 1 \in 1..(Len(a) + Len(s)) /\ i \in 1..(Len(Tail(a)) + Len(s))
      BY <1>1, <1>2
    <3>2. CASE i <= Len(a) - 1
      <4>1. i \in 1..(Len(a) - 1) /\ i + 1 <= Len(a) /\ i <= Len(Tail(a))
        BY <3>2, <1>1, <1>2
      <4> QED BY <4>1, <3>1, <1>1, <1>2, <1>3, <1>5
    <3>3. CASE ~(i <= Len(a) - 1)
      <4>1. ~(i + 1 <= Len(a)) /\ ~(i <= Len(Tail(a))) /\ (i + 1) - Len(a) = i - Len(Tail(a))
        BY <3>3, <1>1, <1>2
      <4> QED BY <4>1, <3>1, <1>1, <1>2, <1>3, <1>5
    <3> QED BY <3>2, <3>3
  <2>2. Len(Tail(a)) + Len(s) = Len(a) + Len(s) - 1
    BY <1>1, <1>2
  <2> QED BY <2>1, <2>2, <1>3, <1>5, SeqEqual
<1> QED BY <1>1, <1>4, <1>6 DEF Cat

\* There is a message to take.
LEMMA SomethingCame ==
  ASSUME NEW M, NEW k, NEW f, Carries(M, k, f), NEW e \in Side, CanRead(k, e)
  PROVE  f[e] # <<>> /\ NextMessage(k, e) = Head(f[e]) /\ NextMessage(k, e) \in M
<1>1. /\ k \in [Side -> End(M)] /\ EndOK(k, e) /\ FlowTo(M, k, e, f[e])
      /\ k[e].in \in Seq(M) /\ k[e].queue \in Seq(Seq(M)) /\ Kept(k, e) \in Seq(M)
  BY Ends, Join DEF Carries, Kept
<1>2. PICK q \in Seq(M) : Flat(M, k[e].queue, q) /\ f[e] = Cat(Cat(k[e].in, q), Kept(k, e))
  BY <1>1 DEF FlowTo
<1>3. CASE k[e].in # <<>>
  <2>1. Cat(k[e].in, q) \in Seq(M)
    BY <1>1, Join
  <2>2. Cat(k[e].in, q) # <<>> /\ Head(Cat(k[e].in, q)) = Head(k[e].in) /\ Head(k[e].in) \in M
    BY <1>1, <1>3, HeadOf
  <2>3. f[e] # <<>> /\ Head(f[e]) = Head(Cat(k[e].in, q))
    BY <2>1, <2>2, <1>1, <1>2, HeadOf
  <2> QED BY <2>2, <2>3, <1>3 DEF NextMessage
<1>4. CASE k[e].in = <<>>
  <2>1. k[e].queue # <<>>
    BY <1>4 DEF CanRead
  <2>2. Head(k[e].queue) \in Seq(M) /\ Head(k[e].queue) # <<>>
    BY <2>1, <1>1 DEF EndOK
  <2>3. PICK r \in Seq(M) : q = Cat(Head(k[e].queue), r)
    <3> DEFINE p == k[e].queue
    <3>1. p \in Seq(Seq(M)) /\ p # <<>> /\ q \in Seq(M) /\ Flat(M, p, q)
      BY <2>1, <1>1, <1>2
    <3> HIDE DEF p
    <3>2. \E r \in Seq(M) : q = Cat(Head(p), r)
      BY <3>1, FlatRest
    <3> QED BY <3>2 DEF p
  <2>4. q # <<>> /\ Head(q) = Head(Head(k[e].queue)) /\ Head(q) \in M
    BY <2>2, <2>3, HeadOf
  <2>5. f[e] = Cat(q, Kept(k, e))
    BY <1>2, <1>4, Join
  <2>6. f[e] # <<>> /\ Head(f[e]) = Head(q)
    BY <2>4, <2>5, <1>1, HeadOf
  <2> QED BY <2>4, <2>6, <1>4 DEF NextMessage
<1> QED BY <1>3, <1>4

LEMMA ReadTakes ==
  ASSUME NEW M, NEW k, NEW f, Carries(M, k, f), NEW e \in Side, CanRead(k, e)
  PROVE  /\ Carries(M, ReadMessage(k, e), [f EXCEPT ![e] = Tail(f[e])])
         /\ SameEnds(ReadMessage(k, e), k)
<1> DEFINE d == Peer(e)
           j == ReadMessage(k, e)
           g == [f EXCEPT ![e] = Tail(f[e])]
<1>1. /\ k \in [Side -> End(M)] /\ f \in [Side -> Seq(M)] /\ k[e] \in End(M)
      /\ EndOK(k, e) /\ EndOK(k, d) /\ FlowTo(M, k, e, f[e]) /\ FlowTo(M, k, d, f[d])
      /\ d \in Side /\ d # e /\ Peer(d) = e /\ \A x \in Side : x = e \/ x = d
      /\ k[e].in \in Seq(M) /\ k[e].queue \in Seq(Seq(M)) /\ Kept(k, e) \in Seq(M)
  BY Ends, Join DEF Carries, Kept
<1>2. f[e] # <<>>
  BY SomethingCame
<1>3. g \in [Side -> Seq(M)] /\ g[e] = Tail(f[e]) /\ g[d] = f[d]
  BY <1>1, <1>2
<1>4. PICK q \in Seq(M) : Flat(M, k[e].queue, q) /\ f[e] = Cat(Cat(k[e].in, q), Kept(k, e))
  BY <1>1 DEF FlowTo
<1>11. \A a, s \in Seq(M) : a # <<>> => Cat(a, s) # <<>> /\ Tail(Cat(a, s)) = Cat(Tail(a), s)
  BY HeadOf
<1>12. \A a, s \in Seq(M) : Cat(a, s) \in Seq(M)
  BY Join
<1>13. Kept(k, e) \in Seq(M)
  BY <1>1
<1>5. /\ j \in [Side -> End(M)] /\ j[d] = k[d]
      /\ j[e].out = k[e].out /\ j[e].blocked = k[e].blocked /\ j[e].up = k[e].up /\ j[e].open = k[e].open
      /\ \E p \in Seq(M) : Flat(M, j[e].queue, p) /\ Tail(f[e]) = Cat(Cat(j[e].in, p), Kept(k, e))
      /\ k[e].open /\ (k[e].queue = <<>> => j[e].queue = <<>>)
      /\ \A x \in DOMAIN j[e].queue : j[e].queue[x] # <<>>
  <2>1. CASE k[e].in # <<>>
    <3> DEFINE z == [k[e] EXCEPT !.in = Tail(k[e].in)]
    <3>1. Tail(k[e].in) \in Seq(M)
      BY <2>1, <1>1
    <3>2. /\ z \in End(M) /\ z.in = Tail(k[e].in) /\ z.queue = k[e].queue /\ z.out = k[e].out
          /\ z.blocked = k[e].blocked /\ z.up = k[e].up /\ z.open = k[e].open
      BY <3>1, <1>1 DEF End
    <3>3. j = [k EXCEPT ![e] = z]
      BY <2>1, <1>1 DEF ReadMessage
    <3> HIDE DEF z, j, d, g
    <3>4. j \in [Side -> End(M)] /\ j[d] = k[d] /\ j[e] = z
      BY <3>2, <3>3, <1>1
    <3>5. Tail(f[e]) = Cat(Cat(Tail(k[e].in), q), Kept(k, e))
      <4>1. /\ Cat(k[e].in, q) \in Seq(M) /\ Cat(k[e].in, q) # <<>>
            /\ Tail(Cat(k[e].in, q)) = Cat(Tail(k[e].in), q)
        BY <2>1, <1>1, <1>4, <1>11, <1>12
      <4>2. Tail(Cat(Cat(k[e].in, q), Kept(k, e))) = Cat(Tail(Cat(k[e].in, q)), Kept(k, e))
        <5> DEFINE a == Cat(k[e].in, q)
                   w == Kept(k, e)
        <5>1. a \in Seq(M) /\ a # <<>> /\ w \in Seq(M)
          BY <4>1, <1>13
        <5> HIDE DEF a, w
        <5>2. Tail(Cat(a, w)) = Cat(Tail(a), w)
          BY <5>1, <1>11
        <5> QED BY <5>2 DEF a, w
      <4> QED BY <4>1, <4>2, <1>4
    <3>6. k[e].open /\ \A x \in DOMAIN k[e].queue : k[e].queue[x] # <<>>
      BY <2>1, <1>1 DEF EndOK
    <3> QED BY <3>2, <3>4, <3>5, <3>6, <1>4
  <2>2. CASE k[e].in = <<>>
    <3> DEFINE b == Head(k[e].queue)
               z == [[k[e] EXCEPT !.in = Tail(b)] EXCEPT !.queue = Tail(k[e].queue)]
    <3>1. k[e].up /\ k[e].queue # <<>>
      BY <2>2 DEF CanRead
    <3>2. /\ b \in Seq(M) /\ b # <<>> /\ Tail(b) \in Seq(M) /\ Tail(k[e].queue) \in Seq(Seq(M))
          /\ \A x \in DOMAIN Tail(k[e].queue) : Tail(k[e].queue)[x] # <<>>
      <4>1. /\ b = k[e].queue[1] /\ 1 \in DOMAIN k[e].queue /\ b \in Seq(M)
            /\ Tail(k[e].queue) \in Seq(Seq(M))
            /\ \A x \in DOMAIN Tail(k[e].queue) :
                 Tail(k[e].queue)[x] = k[e].queue[x + 1] /\ x + 1 \in DOMAIN k[e].queue
        BY <3>1, <1>1
      <4>2. \A x \in DOMAIN k[e].queue : k[e].queue[x] # <<>>
        BY <1>1 DEF EndOK
      <4>3. b # <<>>
        BY <4>1, <4>2
      <4> QED BY <4>1, <4>2, <4>3
    <3>3. /\ z \in End(M) /\ z.in = Tail(b) /\ z.queue = Tail(k[e].queue) /\ z.out = k[e].out
          /\ z.blocked = k[e].blocked /\ z.up = k[e].up /\ z.open = k[e].open
      <4> HIDE DEF b
      <4> QED BY <3>2, <1>1 DEF End
    <3>4. j = [k EXCEPT ![e] = z]
      BY <2>2, <1>1 DEF ReadMessage
    <3>5. PICK p \in Seq(M) : Flat(M, Tail(k[e].queue), p) /\ q = Cat(b, p)
      BY <3>1, <1>1, <1>4, FlatRest
    <3>6. Tail(f[e]) = Cat(Cat(Tail(b), p), Kept(k, e))
      <4> HIDE DEF b
      <4>1. q # <<>> /\ Tail(q) = Cat(Tail(b), p)
        BY <3>2, <3>5, HeadOf
      <4>2. f[e] = Cat(q, Kept(k, e))
        BY <2>2, <1>4, Join
      <4>3. Tail(Cat(q, Kept(k, e))) = Cat(Tail(q), Kept(k, e))
        <5> DEFINE w == Kept(k, e)
        <5>1. w \in Seq(M)
          BY <1>13
        <5> HIDE DEF w
        <5>2. Tail(Cat(q, w)) = Cat(Tail(q), w)
          BY <4>1, <5>1, <1>11
        <5> QED BY <5>2 DEF w
      <4> QED BY <4>1, <4>2, <4>3
    <3>7. k[e].open
      BY <3>1, <1>1 DEF EndOK
    <3> HIDE DEF b, z, j, d, g
    <3>8. j \in [Side -> End(M)] /\ j[d] = k[d] /\ j[e] = z
      BY <3>3, <3>4, <1>1
    <3> QED BY <3>1, <3>2, <3>3, <3>5, <3>6, <3>7, <3>8
  <2> QED BY <2>1, <2>2
<1> HIDE DEF d, g, j
<1>6. SameEnds(j, k)
  BY <1>1, <1>5 DEF SameEnds
<1>7. EndOK(j, e) /\ EndOK(j, d)
  BY <1>1, <1>5 DEF EndOK, d
<1>8. FlowTo(M, j, e, g[e])
  BY <1>1, <1>3, <1>5 DEF FlowTo, Kept, d
<1>9. FlowTo(M, j, d, g[d])
  BY <1>1, <1>3, <1>5 DEF FlowTo, Kept
<1>10. Carries(M, j, g)
  BY <1>1, <1>3, <1>5, <1>7, <1>8, <1>9 DEF Carries
<1> QED BY <1>6, <1>10 DEF g, j

-----------------------------------------------------------------------------
(* What is lost *)

\* s begins with p.
Prefix(M, p, s) == p \in Seq(M) /\ \E b \in Seq(M) : s = Cat(p, b)

LEMMA PrefixSame ==
  ASSUME NEW M, NEW s \in Seq(M)
  PROVE  Prefix(M, s, s) /\ Prefix(M, <<>>, s)
<1>1. <<>> \in Seq(M) /\ Cat(s, <<>>) = s /\ Cat(<<>>, s) = s
  BY Join
<1> QED BY <1>1 DEF Prefix

LEMMA PrefixOfPrefix ==
  ASSUME NEW M, NEW p, NEW s, NEW t, Prefix(M, p, s), Prefix(M, s, t)
  PROVE  Prefix(M, p, t)
<1>1. PICK a \in Seq(M), b \in Seq(M) : p \in Seq(M) /\ s = Cat(p, a) /\ t = Cat(s, b)
  BY DEF Prefix
<1>2. Cat(a, b) \in Seq(M) /\ Cat(Cat(p, a), b) = Cat(p, Cat(a, b))
  BY <1>1, Join
<1> QED BY <1>1, <1>2 DEF Prefix

\* Everything to be taken at end e is still there, or the rest of it is gone.
Dropped(j, k, e) ==
  \/ j[e].in = k[e].in /\ j[e].queue = k[e].queue /\ Kept(j, e) \in {Kept(k, e), <<>>}
  \/ j[e].in \in {k[e].in, <<>>} /\ j[e].queue = <<>> /\ Kept(j, e) = <<>>

\* Link j carries what k did, up to some point.
Shrinks(M, k, f, j) == \E g : Carries(M, j, g) /\ \A e \in Side : Prefix(M, g[e], f[e])

LEMMA DroppedEnd ==
  ASSUME NEW M, NEW k, NEW f, Carries(M, k, f), NEW e \in Side, NEW j, Dropped(j, k, e)
  PROVE  \E p \in Seq(M) : FlowTo(M, j, e, p) /\ Prefix(M, p, f[e])
<1> DEFINE i == k[e].in
           w == Kept(k, e)
<1>1. i \in Seq(M) /\ w \in Seq(M) /\ f[e] \in Seq(M) /\ <<>> \in Seq(M)
  BY Ends, Join DEF Carries, Kept
<1>2. PICK q \in Seq(M) : Flat(M, k[e].queue, q) /\ f[e] = Cat(Cat(i, q), w)
  BY DEF Carries, FlowTo
<1> HIDE DEF i, w
<1>3. /\ \A a, b \in Seq(M) : Cat(a, b) \in Seq(M)
      /\ \A a, b, d \in Seq(M) : Cat(Cat(a, b), d) = Cat(a, Cat(b, d))
      /\ \A a \in Seq(M) : Cat(a, <<>>) = a /\ Cat(<<>>, a) = a
  BY Join
<1>4. Cat(i, q) \in Seq(M) /\ Cat(q, w) \in Seq(M) /\ Cat(Cat(i, q), <<>>) = Cat(i, q)
      /\ Cat(Cat(i, q), w) = Cat(i, Cat(q, w)) /\ Cat(i, <<>>) = i /\ Cat(<<>>, <<>>) = <<>>
  <2>1. Cat(i, q) \in Seq(M) /\ Cat(q, w) \in Seq(M)
    BY <1>1, <1>3
  <2>2. Cat(Cat(i, q), <<>>) = Cat(i, q)
    BY <2>1, <1>3
  <2>3. Cat(Cat(i, q), w) = Cat(i, Cat(q, w))
    BY <1>1, <1>3
  <2>4. Cat(i, <<>>) = i /\ Cat(<<>>, <<>>) = <<>>
    BY <1>1, <1>3
  <2> QED BY <2>1, <2>2, <2>3, <2>4
<1>5. Flat(M, <<>>, <<>>)
  BY FlatNone
<1>6. CASE j[e].in = i /\ j[e].queue = k[e].queue /\ Kept(j, e) = w
  <2>1. FlowTo(M, j, e, f[e])
    BY <1>2, <1>6 DEF FlowTo
  <2> QED BY <2>1, <1>1, PrefixSame
<1>7. CASE j[e].in = i /\ j[e].queue = k[e].queue /\ Kept(j, e) = <<>>
  <2>1. FlowTo(M, j, e, Cat(i, q))
    BY <1>2, <1>4, <1>7 DEF FlowTo
  <2>2. Prefix(M, Cat(i, q), f[e])
    BY <1>1, <1>2, <1>4 DEF Prefix
  <2> QED BY <2>1, <2>2, <1>4
<1>8. CASE j[e].in = i /\ j[e].queue = <<>> /\ Kept(j, e) = <<>>
  <2>1. FlowTo(M, j, e, i)
    BY <1>1, <1>4, <1>5, <1>8 DEF FlowTo
  <2>2. Prefix(M, i, f[e])
    BY <1>1, <1>2, <1>4 DEF Prefix
  <2> QED BY <2>1, <2>2, <1>1
<1>9. CASE j[e].in = <<>> /\ j[e].queue = <<>> /\ Kept(j, e) = <<>>
  <2>1. FlowTo(M, j, e, <<>>)
    BY <1>1, <1>4, <1>5, <1>9 DEF FlowTo
  <2>2. Prefix(M, <<>>, f[e])
    BY <1>1, PrefixSame
  <2> QED BY <2>1, <2>2, <1>1
<1> QED BY <1>6, <1>7, <1>8, <1>9 DEF Dropped, i, w

LEMMA DroppedLink ==
  ASSUME NEW M, NEW k, NEW f, Carries(M, k, f), NEW j \in [Side -> End(M)],
         \A e \in Side : EndOK(j, e) /\ Dropped(j, k, e)
  PROVE  Shrinks(M, k, f, j)
<1> DEFINE OK(e, p) == p \in Seq(M) /\ FlowTo(M, j, e, p) /\ Prefix(M, p, f[e])
           g == [e \in Side |-> CHOOSE p : OK(e, p)]
<1>1. \A e \in Side : \E p : OK(e, p)
  BY DroppedEnd
<1>2. \A e \in Side : OK(e, g[e])
  <2> HIDE DEF OK
  <2> QED BY <1>1
<1>3. g \in [Side -> Seq(M)]
  <2> DEFINE h == g
  <2>1. h = [e \in Side |-> h[e]]
    OBVIOUS
  <2>2. \A e \in Side : h[e] \in Seq(M)
    BY <1>2
  <2> HIDE DEF h
  <2>3. h \in [Side -> Seq(M)]
    BY <2>1, <2>2
  <2> QED BY <2>3 DEF h
<1> HIDE DEF g
<1>4. Carries(M, j, g)
  BY <1>2, <1>3 DEF Carries
<1> QED BY <1>2, <1>4 DEF Shrinks

LEMMA ClearDrops ==
  ASSUME NEW M, NEW k, NEW f, Carries(M, k, f), NEW e \in Side
  PROVE  Shrinks(M, k, f, ClearOutputBuffer(k, e)) /\ SameEnds(ClearOutputBuffer(k, e), k)
<1> DEFINE d == Peer(e)
           j == ClearOutputBuffer(k, e)
<1>1. /\ k \in [Side -> End(M)] /\ k[e] \in End(M) /\ EndOK(k, e) /\ EndOK(k, d)
      /\ d \in Side /\ d # e /\ Peer(d) = e /\ \A x \in Side : x = e \/ x = d
  BY Ends DEF Carries
<1>2. Differs(M, j, k, e, <<>>, k[e].blocked)
  <2>1. <<>> \in Seq(M)
    OBVIOUS
  <2> QED BY <2>1, <1>1, ChangedOut DEF ClearOutputBuffer
<1> HIDE DEF d, j
<1>3. /\ j \in [Side -> End(M)] /\ j[d] = k[d] /\ j[e].out = <<>> /\ j[e].blocked = k[e].blocked
      /\ j[e].in = k[e].in /\ j[e].queue = k[e].queue /\ j[e].up = k[e].up /\ j[e].open = k[e].open
  BY <1>2 DEF Differs, d
<1>4. EndOK(j, e) /\ EndOK(j, d)
  BY <1>1, <1>3 DEF EndOK, d
<1>5. Dropped(j, k, e) /\ Dropped(j, k, d)
  BY <1>1, <1>3 DEF Dropped, Kept, d
<1>6. SameEnds(j, k)
  BY <1>1, <1>3 DEF SameEnds
<1>7. Shrinks(M, k, f, j)
  BY <1>1, <1>3, <1>4, <1>5, DroppedLink
<1> QED BY <1>6, <1>7 DEF j

LEMMA ShrinksMore ==
  ASSUME NEW M, NEW k, NEW f, NEW j, NEW g, Carries(M, j, g), \A e \in Side : Prefix(M, g[e], f[e]),
         NEW i, Shrinks(M, j, g, i)
  PROVE  Shrinks(M, k, f, i)
<1>1. PICK h : Carries(M, i, h) /\ \A e \in Side : Prefix(M, h[e], g[e])
  BY DEF Shrinks
<1>2. \A e \in Side : Prefix(M, h[e], f[e])
  BY <1>1, PrefixOfPrefix
<1> QED BY <1>1, <1>2 DEF Shrinks

LEMMA CloseDrops ==
  ASSUME NEW M, NEW k, NEW f, Carries(M, k, f), NEW e \in Side, k[e].open
  PROVE  /\ Shrinks(M, k, f, Close(k, e))
         /\ ~Close(k, e)[e].open /\ Close(k, e)[Peer(e)].open = k[Peer(e)].open
<1> DEFINE d == Peer(e)
           i == Unblock(k, e)
           j == Close(k, e)
           z == [[[[i[e] EXCEPT !.in = <<>>] EXCEPT !.queue = <<>>] EXCEPT !.up = FALSE] EXCEPT !.open = FALSE]
<1>1. /\ Carries(M, i, f) /\ SameEnds(i, k) /\ i[e].out = <<>>
  <2>1. f \in [Side -> Seq(M)]
    BY DEF Carries
  <2>2. Says(M, k, f, i, e, <<>>) /\ i[e].out = <<>>
    BY UnblockSays
  <2> HIDE DEF i
  <2> QED BY <2>1, <2>2, SaidNothing DEF Says
<1>2. /\ i \in [Side -> End(M)] /\ i[e] \in End(M) /\ EndOK(i, e) /\ EndOK(i, d)
      /\ d \in Side /\ d # e /\ Peer(d) = e /\ \A x \in Side : x = e \/ x = d
  BY <1>1, Ends DEF Carries
<1>3. j = [i EXCEPT ![e] = z]
  BY <1>2 DEF Close
<1> HIDE DEF i
<1>4. /\ z \in End(M) /\ z.in = <<>> /\ z.queue = <<>> /\ z.up = FALSE /\ z.open = FALSE
      /\ z.out = i[e].out /\ z.blocked = i[e].blocked
  <2> DEFINE y == [[i[e] EXCEPT !.in = <<>>] EXCEPT !.queue = <<>>]
  <2>1. /\ y \in End(M) /\ y.in = <<>> /\ y.queue = <<>> /\ y.out = i[e].out /\ y.blocked = i[e].blocked
    <3>1. <<>> \in Seq(M) /\ <<>> \in Seq(Seq(M))
      OBVIOUS
    <3> QED BY <3>1, <1>2 DEF End
  <2>2. z = [[y EXCEPT !.up = FALSE] EXCEPT !.open = FALSE]
    OBVIOUS
  <2> HIDE DEF y, z
  <2> QED BY <2>1, <2>2 DEF End
<1> HIDE DEF z, j, d
<1>5. j \in [Side -> End(M)] /\ j[e] = z /\ j[d] = i[d]
  BY <1>2, <1>3, <1>4
<1>6. EndOK(j, e) /\ EndOK(j, d)
  BY <1>1, <1>2, <1>4, <1>5 DEF EndOK, d
<1>7. Dropped(j, i, e) /\ Dropped(j, i, d)
  BY <1>1, <1>2, <1>4, <1>5 DEF Dropped, Kept, d
<1>8. Shrinks(M, i, f, j)
  BY <1>1, <1>2, <1>5, <1>6, <1>7, DroppedLink
<1>9. Shrinks(M, k, f, j)
  BY <1>8 DEF Shrinks
<1>10. ~j[e].open /\ j[d].open = k[d].open
  BY <1>1, <1>2, <1>4, <1>5 DEF SameEnds
<1> QED BY <1>9, <1>10 DEF d, j

\* The disconnect arrives at e.
\* Link k when its end e knows that it is gone
Off(k, e) == [k EXCEPT ![e].up = FALSE, ![e].queue = <<>>]

LEMMA DisconnectDrops ==
  ASSUME NEW M, NEW k, NEW f, Carries(M, k, f), NEW e \in Side, ~k[Peer(e)].open,
         NEW j, j = Off(k, e)
  PROVE  Shrinks(M, k, f, j) /\ \A x \in Side : j[x].open = k[x].open
<1> DEFINE d == Peer(e)
           z == [[k[e] EXCEPT !.up = FALSE] EXCEPT !.queue = <<>>]
<1>1. /\ k \in [Side -> End(M)] /\ k[e] \in End(M) /\ EndOK(k, e) /\ EndOK(k, d)
      /\ d \in Side /\ d # e /\ Peer(d) = e /\ \A x \in Side : x = e \/ x = d
  BY Ends DEF Carries
<1>2. j = [k EXCEPT ![e] = z]
  BY <1>1 DEF Off
<1>3. /\ z \in End(M) /\ z.up = FALSE /\ z.queue = <<>> /\ z.in = k[e].in /\ z.open = k[e].open
      /\ z.out = k[e].out /\ z.blocked = k[e].blocked
  <2>1. <<>> \in Seq(Seq(M))
    OBVIOUS
  <2> QED BY <2>1, <1>1 DEF End
<1> HIDE DEF z, d
<1>4. j \in [Side -> End(M)] /\ j[e] = z /\ j[d] = k[d]
  BY <1>1, <1>2, <1>3
<1>5. EndOK(j, e) /\ EndOK(j, d)
  BY <1>1, <1>3, <1>4 DEF EndOK, d
<1>6. Dropped(j, k, e) /\ Dropped(j, k, d)
  BY <1>1, <1>3, <1>4 DEF Dropped, Kept, EndOK, d
<1>7. Shrinks(M, k, f, j)
  BY <1>1, <1>4, <1>5, <1>6, DroppedLink
<1>8. \A x \in Side : j[x].open = k[x].open
  BY <1>1, <1>3, <1>4
<1> QED BY <1>7, <1>8

\* Link k when it is lost
Lost(k) == [e \in Side |-> [k[e] EXCEPT !.up = FALSE, !.queue = <<>>]]

LEMMA LossDrops ==
  ASSUME NEW M, NEW k, NEW f, Carries(M, k, f)
  PROVE  Shrinks(M, k, f, Lost(k)) /\ \A x \in Side : Lost(k)[x].open = k[x].open
<1> DEFINE j == Lost(k)
<1>1. ASSUME NEW e \in Side
      PROVE  /\ j[e] \in End(M) /\ j[e].up = FALSE /\ j[e].queue = <<>> /\ j[e].in = k[e].in
             /\ j[e].open = k[e].open /\ j[e].out = k[e].out /\ j[e].blocked = k[e].blocked
  <2>1. k[e] \in End(M) /\ <<>> \in Seq(Seq(M))
    BY DEF Carries
  <2>2. j[e] = [[k[e] EXCEPT !.up = FALSE] EXCEPT !.queue = <<>>]
    BY DEF Lost
  <2> HIDE DEF j
  <2> QED BY <2>1, <2>2 DEF End
<1>2. j \in [Side -> End(M)]
  <2> DEFINE i == j
  <2>1. i = [e \in Side |-> i[e]] /\ \A e \in Side : i[e] \in End(M)
    BY <1>1 DEF Lost
  <2> HIDE DEF i
  <2>2. i \in [Side -> End(M)]
    BY <2>1
  <2> QED BY <2>2 DEF i
<1> HIDE DEF j
<1>3. ASSUME NEW e \in Side PROVE EndOK(j, e) /\ Dropped(j, k, e)
  <2>1. EndOK(k, e) /\ Peer(e) \in Side
    BY DEF Carries, Side, Peer
  <2>2. /\ j[e].up = FALSE /\ j[e].queue = <<>> /\ j[e].in = k[e].in /\ j[Peer(e)].up = FALSE
        /\ j[e].open = k[e].open /\ j[e].out = k[e].out /\ j[e].blocked = k[e].blocked
    BY <2>1, <1>1
  <2>3. EndOK(j, e)
    BY <2>1, <2>2 DEF EndOK
  <2>4. Dropped(j, k, e)
    BY <2>2 DEF Dropped, Kept
  <2> QED BY <2>3, <2>4
<1>4. Shrinks(M, k, f, j)
  BY <1>2, <1>3, DroppedLink
<1> QED BY <1>1, <1>4 DEF j

-----------------------------------------------------------------------------
(* Sequences over some of the messages *)

LEMMA OverSome ==
  ASSUME NEW M, NEW P \in SUBSET M, NEW s \in Seq(M), \A i \in 1..Len(s) : s[i] \in P
  PROVE  s \in Seq(P)
<1>1. Len(s) \in Nat /\ s \in [1..Len(s) -> M]
  BY LenProperties
<1>2. s \in [1..Len(s) -> P]
  BY <1>1
<1> QED BY <1>1, <1>2, SeqDef

LEMMA PrefixIn ==
  ASSUME NEW M, NEW P \in SUBSET M, NEW s \in Seq(P), NEW p, Prefix(M, p, s)
  PROVE  p \in Seq(P)
<1>1. PICK b \in Seq(M) : s = p \o b
  BY DEF Prefix, Cat
<1>2. p \in Seq(M) /\ Len(p) \in Nat /\ Len(b) \in Nat /\ Len(s) \in Nat
  BY <1>1 DEF Prefix
<1>3. /\ Len(s) = Len(p) + Len(b)
      /\ \A i \in 1..(Len(p) + Len(b)) : s[i] = IF i <= Len(p) THEN p[i] ELSE b[i - Len(p)]
  BY <1>1, <1>2, ConcatProperties
<1>4. ASSUME NEW i \in 1..Len(p) PROVE p[i] \in P
  <2>1. i \in 1..Len(s) /\ p[i] = s[i]
    BY <1>2, <1>3
  <2> QED BY <2>1
<1> QED BY <1>2, <1>4, OverSome

LEMMA PrefixLast ==
  ASSUME NEW M, NEW d \in Seq(M), NEW m \in M, NEW p, Prefix(M, p, Cat(d, <<m>>))
  PROVE  p = Cat(d, <<m>>) \/ Prefix(M, p, d)
<1> DEFINE s == d \o <<m>>
<1>1. PICK b \in Seq(M) : s = p \o b
  BY DEF Prefix, Cat
<1>2. p \in Seq(M) /\ Len(p) \in Nat /\ Len(b) \in Nat /\ Len(d) \in Nat /\ <<m>> \in Seq(M)
  BY <1>1 DEF Prefix
<1>3. /\ s \in Seq(M) /\ Len(s) = Len(d) + 1
      /\ \A i \in 1..(Len(d) + 1) : s[i] = IF i <= Len(d) THEN d[i] ELSE <<m>>[i - Len(d)]
  <2>1. Len(<<m>>) = 1
    OBVIOUS
  <2> QED BY <2>1, <1>2, ConcatProperties
<1>4. /\ Len(s) = Len(p) + Len(b)
      /\ \A i \in 1..(Len(p) + Len(b)) : s[i] = IF i <= Len(p) THEN p[i] ELSE b[i - Len(p)]
  BY <1>1, <1>2, ConcatProperties
<1> HIDE DEF s
<1>5. CASE b = <<>>
  <2>1. p \o <<>> = p
    BY <1>2, ConcatEmptySeq
  <2> QED BY <2>1, <1>1, <1>5 DEF Cat, s
<1>6. CASE b # <<>>
  <2>1. Len(b) > 0
    BY <1>2, <1>6
  <2>2. Len(p) <= Len(d)
    BY <2>1, <1>2, <1>3, <1>4
  <2>3. ASSUME NEW i \in 1..Len(p) PROVE p[i] = d[i]
    <3>1. i \in 1..(Len(d) + 1) /\ i \in 1..(Len(p) + Len(b)) /\ i <= Len(p) /\ i <= Len(d)
      BY <2>2, <1>2
    <3>2. s[i] = d[i]
      BY <3>1, <1>3
    <3>3. s[i] = p[i]
      BY <3>1, <1>4
    <3> QED BY <3>2, <3>3
  <2> DEFINE a == SubSeq(d, 1, Len(p))
             z == SubSeq(d, Len(p) + 1, Len(d))
  <2>4. a \o z = d
    <3>1. /\ Len(p) \in 0..Len(d) /\ Len(d) \in Len(p)..Len(d) /\ 1 \in 1..(Len(d) + 1)
          /\ Len(p) \in (1 - 1)..Len(d)
      BY <2>2, <1>2
    <3>2. a \o z = SubSeq(d, 1, Len(d))
      BY <3>1, ConcatAdjacentSubSeq
    <3> QED BY <3>2, SubSeqFull
  <2>5. a \in Seq(M) /\ z \in Seq(M) /\ Len(a) = Len(p) /\ \A i \in 1..Len(p) : a[i] = d[i]
    BY <2>2, <1>2
  <2> HIDE DEF a, z
  <2>6. a = p
    BY <2>3, <2>5, <1>2, SeqEqual
  <2> QED BY <2>4, <2>5, <2>6, <1>2 DEF Prefix, Cat
<1> QED BY <1>5, <1>6

LEMMA OnlyOne ==
  ASSUME NEW M, NEW d, d = <<>>, NEW m \in M
  PROVE  Head(Cat(d, <<m>>)) = m /\ Tail(Cat(d, <<m>>)) = <<>>
<1>1. <<m>> \in Seq(M) /\ Head(<<m>>) = m /\ Tail(<<m>>) = <<>>
  OBVIOUS
<1>2. Cat(d, <<m>>) = <<m>>
  BY <1>1, Join
<1> QED BY <1>1, <1>2

LEMMA TailOfLast ==
  ASSUME NEW M, NEW d \in Seq(M), NEW m \in M
  PROVE  /\ Cat(d, <<m>>) # <<>> /\ Cat(d, <<m>>) \in Seq(M)
         /\ d = <<>> => Head(Cat(d, <<m>>)) = m /\ Tail(Cat(d, <<m>>)) = <<>>
         /\ d # <<>> => Head(Cat(d, <<m>>)) = Head(d) /\ Tail(Cat(d, <<m>>)) = Cat(Tail(d), <<m>>)
<1>1. <<m>> \in Seq(M) /\ <<m>> # <<>> /\ Head(<<m>>) = m /\ Tail(<<m>>) = <<>>
  OBVIOUS
<1>2. CASE d = <<>>
  <2>1. Cat(<<>>, <<m>>) = <<m>>
    BY <1>1, Join
  <2> QED BY <2>1, <1>1, <1>2
<1>3. CASE d # <<>>
  <2>1. Cat(d, <<m>>) \in Seq(M)
    BY <1>1, Join
  <2>2. /\ Cat(d, <<m>>) # <<>> /\ Head(Cat(d, <<m>>)) = Head(d)
        /\ Tail(Cat(d, <<m>>)) = Cat(Tail(d), <<m>>)
    <3> DEFINE z == <<m>>
    <3>1. z \in Seq(M)
      BY <1>1
    <3> HIDE DEF z
    <3>2. /\ Cat(d, z) # <<>> /\ Head(Cat(d, z)) = Head(d) /\ Tail(Cat(d, z)) = Cat(Tail(d), z)
      BY <3>1, <1>3, HeadOf
    <3> QED BY <3>2 DEF z
  <2> QED BY ONLY <2>1, <2>2, <1>3
<1> QED BY <1>2, <1>3

-----------------------------------------------------------------------------
(***************************************************************************)
(* The messages while files are fetched: what dncopy sends that fal only   *)
(* notes or sends data for, the CONNECT, and what begins or ends a file;   *)
(* and what fal sends that is not about the file it opens.                 *)
(***************************************************************************)
Noise(m) == m.t \in {"CONFIG", "ATTRIB"} \/ (m.t = "CONTROL" /\ m.func = "get" /\ m.rac = "seqft")
Connect(m) == m.t = "CONTROL" /\ m.func = "connect"
Request(m) ==
  \/ m.t = "ACCESS" /\ m.func = "open" /\ "name" \in m.display
  \/ m.t = "ACCOMP" /\ m.func = "close"
Known(m) == Noise(m) \/ Connect(m) \/ Request(m)
Plain(m) == m.t \in {"CONFIG", "DATA", "STATUS"}

NoiseIn(M) == {m \in M : Noise(m)}
PlainIn(M) == {m \in M : Plain(m)}
\* Before the ACK of a file: its name is that of a file of f.
PartIn(M, f) ==
  {m \in M : \/ Plain(m) \/ m.t \in {"ATTRIB", "ACCOMP"}
             \/ m.t = "NAME" /\ m.file \in DOMAIN f}
Named(d) == \E i \in 1..Len(d) : d[i].t = "NAME"

\* The rest of what fal says to a request, n being the name that came last: the ACK is the last
\* message of it, and says that there is a file.
Answer(M, c, f, n) ==
  \/ c \in Seq(PartIn(M, f))
  \/ \E d \in Seq(PartIn(M, f)), a \in M :
       a.t = "ACK" /\ c = Cat(d, <<a>>) /\ (n \in DOMAIN f \/ Named(d))

\* r is what fal says to m, when it goes on as s and the files f become g.
ReplyTo(M, m, r, s, f, g) ==
  /\ r \in Seq(M)
  /\ Noise(m) => r \in Seq(PlainIn(M)) /\ g = f
  /\ Connect(m) => Len(r) <= 1 /\ g = f /\ s.st # "send"
  /\ Request(m) => (\A n : Answer(M, r, g, n)) /\ s.st # "send" /\ (m.t = "ACCESS" => g = f)

FalFields == {"st", "task", "glob", "stream", "ateof", "streaming", "display", "old"}
FalOK(s) ==
  /\ DOMAIN s = FalFields /\ s.task \in {"none", "open"}
  /\ s.task = "open" => "name" \in s.display

\* What fal makes of a message: o goes on, or is at its end.
Handles(M, k, f, files, m, o) ==
  \E N, r :
    /\ M \subseteq N /\ ReplyTo(N, m, r, o.s, files, o.f) /\ FalOK(o.s)
    /\ \/ o.s.st # "gone" /\ Says(N, k, f, o.k, "server", r)
       \/ o.s.st = "gone" /\ \E j : Says(N, k, f, j, "server", r) /\ o.k = Close(j, "server")

LEMMA FalsAreOK ==
  /\ FalOK(NewFal) /\ NewFal.st = "config"
  /\ FalOK([NewFal EXCEPT !.st = "gone"]) /\ [NewFal EXCEPT !.st = "gone"].st = "gone"
  /\ FalOK(Task("none")) /\ Task("none").st = "run"
  /\ DOMAIN Task("open") = FalFields /\ Task("open").st = "run" /\ Task("open").task = "open"
<1>1. /\ DOMAIN NewFal = FalFields /\ NewFal.st = "config" /\ NewFal.task = "none"
  BY DEF NewFal, FalFields
<1>2. \A x : /\ DOMAIN [NewFal EXCEPT !.st = x] = FalFields
             /\ [NewFal EXCEPT !.st = x].st = x /\ [NewFal EXCEPT !.st = x].task = "none"
  BY <1>1 DEF FalFields
<1>3. \A x : /\ DOMAIN Task(x) = FalFields /\ Task(x).st = "run" /\ Task(x).task = x
  BY <1>1 DEF FalFields, Task
<1> QED BY <1>1, <1>2, <1>3 DEF FalOK

LEMMA SaysMany ==
  ASSUME NEW M, NEW k, NEW f, Carries(M, k, f), NEW N, M \subseteq N
  PROVE  /\ Carries(N, k, f) /\ SameEnds(k, k) /\ <<>> \in Seq(N) /\ Says(N, k, f, k, "server", <<>>)
         /\ \A m \in N : <<m>> \in Seq(N)
<1>1. Carries(N, k, f) /\ f \in [Side -> Seq(N)]
  BY CarriesMore DEF Carries
<1>2. "server" \in Side
  BY DEF Side
<1>3. Says(N, k, f, k, "server", <<>>)
  BY <1>1, <1>2, SaidNothing DEF Says, SameEnds
<1>4. <<>> \in Seq(N) /\ \A m \in N : <<m>> \in Seq(N)
  BY Join
<1> QED BY <1>1, <1>3, <1>4 DEF SameEnds

\* One message, or none, as the answer to a request
LEMMA ShortAnswer ==
  ASSUME NEW N, NEW m \in N, NEW f, Plain(m) \/ m.t \in {"ATTRIB", "ACCOMP"}, NEW n
  PROVE  Answer(N, <<m>>, f, n) /\ Answer(N, <<>>, f, n) /\ (Plain(m) => <<m>> \in Seq(PlainIn(N)))
<1>1. m \in PartIn(N, f) /\ (Plain(m) => m \in PlainIn(N))
  BY DEF PartIn, PlainIn
<1>2. <<m>> \in Seq(PartIn(N, f)) /\ <<>> \in Seq(PartIn(N, f)) /\ (Plain(m) => <<m>> \in Seq(PlainIn(N)))
  BY <1>1, Join
<1> QED BY <1>2 DEF Answer

\* The answer is one message.
LEMMA ReplyHandles ==
  ASSUME NEW M, NEW k, NEW f, Carries(M, k, f), k["server"].open, NEW files, NEW m, Known(m),
         NEW g, NEW x, Plain(x) \/ x.t = "ACCOMP", Noise(m) => Plain(x),
         m.t # "ACCOMP" => g = files, NEW s, FalOK(s), s.st = "run",
         NEW j, j = Reply(k, "server", x) \/ j = Write(k, "server", x)
  PROVE  /\ Handles(M, k, f, files, m, Left(j, s, g))
         /\ g = files => Handles(M, k, f, files, m, Ended(j, g))
<1> DEFINE N == M \cup {x}
           z == [NewFal EXCEPT !.st = "gone"]
<1>1. /\ Carries(N, k, f) /\ x \in N /\ <<x>> \in Seq(N) /\ "server" \in Side
  BY SaysMany DEF Side
<1> HIDE DEF N
<1>2. Says(N, k, f, j, "server", <<x>>)
  <2>1. /\ Says(N, k, f, Reply(k, "server", x), "server", <<x>>)
        /\ Says(N, k, f, Write(k, "server", x), "server", <<x>>)
    BY <1>1, ReplySays, WriteSays
  <2> QED BY <2>1
<1>3. \A t : t.st # "send" => ReplyTo(N, m, <<x>>, t, files, g)
  <2>1. Len(<<x>>) = 1
    OBVIOUS
  <2>2. /\ \A n : Answer(N, <<x>>, g, n)
        /\ Plain(x) => <<x>> \in Seq(PlainIn(N))
    BY <1>1, ShortAnswer
  <2>3. Noise(m) \/ Connect(m) => m.t # "ACCOMP"
    BY DEF Noise, Connect
  <2> QED BY <2>1, <2>2, <2>3, <1>1 DEF ReplyTo
<1>4. M \subseteq N
  BY DEF N
<1>5. Handles(M, k, f, files, m, Left(j, s, g))
  <2>1. Left(j, s, g).k = j /\ Left(j, s, g).s = s /\ Left(j, s, g).f = g
    BY DEF Left
  <2> QED BY <2>1, <1>2, <1>3, <1>4 DEF Handles
<1>6. ASSUME g = files PROVE Handles(M, k, f, files, m, Ended(j, g))
  <2>1. /\ Ended(j, g).k = Close(j, "server") /\ Ended(j, g).s = z /\ Ended(j, g).f = g
    BY DEF Left, Ended
  <2>2. FalOK(z) /\ z.st = "gone"
    BY FalsAreOK
  <2> HIDE DEF z
  <2> QED BY <2>1, <2>2, <1>2, <1>3, <1>4 DEF Handles
<1> QED BY <1>5, <1>6

\* There is no answer.
LEMMA QuietHandles ==
  ASSUME NEW M, NEW k, NEW f, Carries(M, k, f), NEW files, NEW m, Known(m),
         NEW s, FalOK(s), s.st # "gone", Noise(m) \/ s.st # "send",
         NEW j, Says(M, k, f, j, "server", <<>>)
  PROVE  Handles(M, k, f, files, m, Left(j, s, files))
<1>1. <<>> \in Seq(M) /\ <<>> \in Seq(PlainIn(M)) /\ <<>> \in Seq(PartIn(M, files)) /\ Len(<<>>) = 0
  OBVIOUS
<1>2. \A n : Answer(M, <<>>, files, n)
  BY <1>1 DEF Answer
<1>3. ~Noise(m) \/ ~(Connect(m) \/ Request(m))
  BY DEF Noise, Connect, Request
<1>4. ReplyTo(M, m, <<>>, s, files, files)
  BY <1>1, <1>2, <1>3 DEF ReplyTo
<1>5. /\ Left(j, s, files).k = j /\ Left(j, s, files).s = s /\ Left(j, s, files).f = files
  BY DEF Left
<1> QED BY <1>4, <1>5 DEF Handles

LEMMA OpenFileHandles ==
  ASSUME NEW M, NEW k, NEW f, Carries(M, k, f), k["server"].open, NEW files, NEW m, Request(m),
         NEW g, m.t # "ACCOMP" => g = files,
         NEW s, FalOK(s), s.st = "run", s.task = "open"
  PROVE  Handles(M, k, f, files, m, OpenFile(k, s, g))
<1> DEFINE n == Head(s.glob)
<1>1. CASE n \notin DOMAIN g
  <2>1. OpenFile(k, s, g) = Left(Reply(k, "server", Status("error")), Task("none"), g)
    BY <1>1 DEF OpenFile, Failed, Completed, ReturnError
  <2>2. Plain(Status("error")) /\ Known(m)
    BY DEF Plain, Status, Known
  <2> QED BY <2>1, <2>2, FalsAreOK, ReplyHandles
<1>2. CASE n \in DOMAIN g
  <2> DEFINE N == M \cup {Attrib("var", FALSE), Attrib("stmlf", TRUE), NameIs("filename", n), Ack}
             P == PartIn(N, g)
             d == Attributes(n, s.display, g)
             r == Cat(d, <<Ack>>)
             z == [[s EXCEPT !.stream = g[n]] EXCEPT !.ateof = FALSE]
             o == OpenFile(k, s, g)
  <2>1. o = Left(SendBlock(k, "server", r), z, g)
    BY <1>2 DEF OpenFile, Cat
  <2>2. FalOK(z) /\ z.st = "run"
    BY DEF FalOK, FalFields
  <2>3. /\ Attrib("var", FALSE) \in P /\ Attrib("stmlf", TRUE) \in P /\ NameIs("filename", n) \in P
        /\ NameIs("filename", n).t = "NAME" /\ Ack \in N /\ Ack.t = "ACK"
    BY <1>2 DEF PartIn, Plain, Attrib, NameIs, Ack
  <2>4. M \subseteq N /\ P \subseteq N
    BY DEF PartIn
  <2>5. "name" \in s.display
    BY DEF FalOK
  <2> HIDE DEF P, z, N
  <2>6. d \in Seq(P) /\ Named(d)
    <3> DEFINE a == MainAttributes(n, s.display, g)
               x == NameIs("filename", n)
    <3>1. a \in Seq(P)
      <4>1. a = <<>> \/ a = <<Attrib("var", FALSE)>> \/ a = <<Attrib("stmlf", TRUE)>>
        BY DEF MainAttributes
      <4>2. <<>> \in Seq(P) /\ <<Attrib("var", FALSE)>> \in Seq(P) /\ <<Attrib("stmlf", TRUE)>> \in Seq(P)
        BY <2>3, Join
      <4> QED BY <4>1, <4>2
    <3>2. d = a \o <<x>>
      BY <2>5 DEF Attributes
    <3>3. x \in P /\ x.t = "NAME"
      BY <2>3
    <3> HIDE DEF a, x, d
    <3>4. d \in Seq(P) /\ Len(a) + 1 \in 1..Len(d) /\ d[Len(a) + 1] = x
      BY <3>1, <3>2, <3>3
    <3> QED BY <3>3, <3>4 DEF Named
  <2> HIDE DEF d
  <2>7. r \in Seq(N)
    <3>1. d \in Seq(N)
      BY <2>4, <2>6, SeqMonotonic
    <3> QED BY <3>1, <2>3, Join
  <2>8. \A y : Answer(N, r, g, y)
    BY <2>3, <2>6 DEF Answer, P
  <2>9. ~Noise(m) /\ ~Connect(m)
    BY DEF Noise, Connect, Request
  <2> HIDE DEF r, o
  <2>10. ReplyTo(N, m, r, z, files, g)
    BY <2>2, <2>7, <2>8, <2>9 DEF ReplyTo, Request
  <2>11. Says(N, k, f, SendBlock(k, "server", r), "server", r)
    <3>1. Carries(N, k, f) /\ "server" \in Side
      BY <2>4, CarriesMore DEF Side
    <3> QED BY <3>1, <2>7, SendBlockSays
  <2>12. o.k = SendBlock(k, "server", r) /\ o.s = z /\ o.f = g
    BY <2>1 DEF Left
  <2>13. Handles(M, k, f, files, m, o)
    BY <2>2, <2>4, <2>10, <2>11, <2>12 DEF Handles
  <2> QED BY <2>13 DEF o
<1> QED BY <1>1, <1>2

LEMMA AckHandles ==
  ASSUME NEW M, NEW k, NEW f, Carries(M, k, f), k["server"].open, NEW files, NEW m, Connect(m),
         NEW s, FalOK(s), s.st = "run"
  PROVE  Handles(M, k, f, files, m, Left(SendBlock(k, "server", <<Ack>>), s, files))
<1> DEFINE N == M \cup {Ack}
<1>1. Carries(N, k, f) /\ <<Ack>> \in Seq(N) /\ "server" \in Side /\ M \subseteq N
  BY SaysMany DEF Side
<1> HIDE DEF N
<1>2. Says(N, k, f, SendBlock(k, "server", <<Ack>>), "server", <<Ack>>)
  BY <1>1, SendBlockSays
<1>3. ~Noise(m) /\ ~Request(m) /\ Len(<<Ack>>) = 1
  BY DEF Noise, Connect, Request
<1>4. ReplyTo(N, m, <<Ack>>, s, files, files)
  BY <1>1, <1>3 DEF ReplyTo
<1>5. \A j : Left(j, s, files).k = j /\ Left(j, s, files).s = s /\ Left(j, s, files).f = files
  BY DEF Left
<1> QED BY <1>1, <1>2, <1>4, <1>5 DEF Handles

\* fal takes a message while it waits for one.
LEMMA MessageHandles ==
  ASSUME NEW M, NEW k, NEW f, Carries(M, k, f), k["server"].open, NEW files, NEW m, Known(m),
         NEW s, FalOK(s), s.st = "run"
  PROVE  Handles(M, k, f, files, m, ProcessMessage(k, m, s, files))
<1> DEFINE o == ProcessMessage(k, m, s, files)
           H(x) == Handles(M, k, f, files, m, x)
<1>1. Says(M, k, f, k, "server", <<>>) /\ Says(M, k, f, Block(k, "server"), "server", <<>>)
  <2>1. Says(M, k, f, k, "server", <<>>)
    BY SaysMany
  <2>2. Says(M, k, f, Block(k, "server"), "server", <<>>)
    BY BlockSays DEF Side
  <2> QED BY <2>1, <2>2
<1>2. \A t : FalOK(t) /\ t.st # "gone" /\ (Noise(m) \/ t.st # "send") => H(Left(k, t, files))
  BY <1>1, QuietHandles
<1>3. \A t : FalOK(t) /\ t.st # "gone" /\ Noise(m) => H(Left(Block(k, "server"), t, files))
  BY <1>1, QuietHandles
<1>4. \A x, g, t : /\ Plain(x) \/ x.t = "ACCOMP"
                   /\ Noise(m) => Plain(x)
                   /\ m.t # "ACCOMP" => g = files
                   /\ FalOK(t) /\ t.st = "run"
                   => /\ H(Left(Write(k, "server", x), t, g))
                      /\ g = files => H(Ended(Write(k, "server", x), g))
  BY ReplyHandles
<1>5. FalOK(Task("none")) /\ Task("none").st = "run"
  BY FalsAreOK
<1>6. /\ Plain(Config) /\ Plain(Status("unsupported")) /\ Accomp("response", {}).t = "ACCOMP"
  BY DEF Plain, Config, Status, Accomp
<1>7. CASE m.t = "ACCESS"
  <2> DEFINE t == [[Task("open") EXCEPT !.glob = GlobNoCheck(m.spec, files)] EXCEPT !.display = m.display]
  <2>1. Request(m) /\ m.func = "open" /\ "name" \in m.display
    BY <1>7 DEF Known, Noise, Connect, Request
  <2>2. o = OpenFile(k, t, files)
    BY <1>7, <2>1 DEF ProcessMessage, OnAccess, OnOpen
  <2>3. FalOK(t) /\ t.st = "run" /\ t.task = "open"
    <3>1. DOMAIN Task("open") = FalFields /\ Task("open").st = "run" /\ Task("open").task = "open"
      BY FalsAreOK
    <3> DEFINE y == Task("open")
    <3> HIDE DEF y
    <3>2. /\ DOMAIN t = FalFields /\ t.st = "run" /\ t.task = "open" /\ t.display = m.display
      BY <3>1 DEF FalFields, y
    <3> QED BY <3>2, <2>1 DEF FalOK
  <2> HIDE DEF t
  <2>4. H(OpenFile(k, t, files))
    BY <2>1, <2>3, OpenFileHandles
  <2> QED BY <2>2, <2>4
<1>8. CASE m.t # "ACCESS" /\ s.task = "none"
  <2>1. o = OnIdle(k, m, s, files)
    BY <1>8 DEF ProcessMessage
  <2>2. CASE m.t = "ATTRIB"
    <3>1. o = Left(k, s, files)
      BY <2>1, <2>2 DEF OnIdle
    <3>2. Noise(m)
      BY <2>2 DEF Noise
    <3> QED BY <3>1, <3>2, <1>2
  <2>3. CASE m.t = "CONFIG"
    <3>1. o = Left(Write(k, "server", Config), s, files)
      BY <2>1, <2>3 DEF OnIdle
    <3> QED BY <3>1, <1>4, <1>6
  <2>4. CASE m.t = "ACCOMP"
    <3>1. o = Left(Write(k, "server", Accomp("response", {})), s, files)
      BY <2>1, <2>4 DEF OnIdle, Respond
    <3>2. ~Noise(m)
      BY <2>4 DEF Noise
    <3> QED BY <3>1, <3>2, <1>4, <1>6
  <2>5. CASE ~(m.t \in {"ATTRIB", "CONFIG", "ACCOMP"})
    <3>1. o = Ended(Write(k, "server", Status("unsupported")), files)
      BY <2>1, <2>5 DEF OnIdle
    <3> QED BY <3>1, <1>4, <1>6
  <2> QED BY <2>2, <2>3, <2>4, <2>5
<1>9. CASE m.t # "ACCESS" /\ s.task = "open"
  <2>1. o = InOpen(k, m, s, files)
    BY <1>9 DEF ProcessMessage
  <2>2. CASE m.t = "CONTROL"
    <3> DEFINE t == [s EXCEPT !.streaming = s.streaming \/ m.rac = "seqft"]
               z == [t EXCEPT !.st = "send"]
    <3>1. o = OnControl(k, m, s, files)
      BY <2>1, <2>2 DEF InOpen
    <3>2. FalOK(t) /\ t.st = "run" /\ FalOK(z) /\ z.st = "send"
      BY DEF FalOK, FalFields
    <3>3. CASE m.func = "connect"
      <4>1. o = Left(SendBlock(k, "server", <<Ack>>), t, files)
        BY <3>1, <3>3 DEF OnControl
      <4>2. Connect(m)
        BY <2>2, <3>3 DEF Connect
      <4> HIDE DEF t
      <4> QED BY <4>1, <4>2, <3>2, AckHandles
    <3>4. CASE m.func # "connect"
      <4>1. Noise(m) /\ m.func = "get" /\ m.rac = "seqft"
        BY <2>2, <3>4 DEF Known, Noise, Connect, Request
      <4>2. o = OnGet(k, t, files)
        BY <3>1, <4>1 DEF OnControl
      <4>3. t.streaming
        BY <4>1 DEF FalOK, FalFields
      <4>4. o = Left(Block(k, "server"), z, files)
        <5> HIDE DEF t
        <5> QED BY <4>2, <4>3 DEF OnGet
      <4> HIDE DEF z
      <4> QED BY <4>1, <4>4, <3>2, <1>3
    <3> QED BY <3>3, <3>4
  <2>3. CASE m.t = "ACCOMP"
    <3> DEFINE g == Closed(s, m, files)
    <3>1. Request(m) /\ m.func = "close"
      BY <2>3 DEF Known, Noise, Connect, Request
    <3>2. o = OnClose(k, m, s, files)
      BY <2>1, <2>3, <3>1 DEF InOpen, OnAccomp
    <3>3. CASE HasNext(s)
      <4>1. o = OpenFile(k, NextPath(s), g)
        BY <3>2, <3>3 DEF OnClose
      <4>2. FalOK(NextPath(s)) /\ NextPath(s).st = "run" /\ NextPath(s).task = "open"
        BY <1>9 DEF FalOK, FalFields, NextPath
      <4>3. H(OpenFile(k, NextPath(s), g))
        BY <2>3, <3>1, <4>2, OpenFileHandles
      <4> QED BY <4>1, <4>3
    <3>4. CASE ~HasNext(s)
      <4>1. o = Left(Write(k, "server", Accomp("response", {})), Task("none"), g)
        BY <3>2, <3>4 DEF OnClose, Completed, Respond
      <4>2. ~Noise(m)
        BY <2>3 DEF Noise
      <4> HIDE DEF g
      <4> QED BY <4>1, <4>2, <2>3, <1>4, <1>5, <1>6
    <3> QED BY <3>3, <3>4
  <2>4. CASE m.t \in {"CONFIG", "ATTRIB"}
    <3>1. o = Left(k, Task("none"), files)
      BY <2>1, <2>4 DEF InOpen, Completed
    <3> QED BY <3>1, <1>2, <1>5
  <2> QED BY <2>2, <2>3, <2>4, <1>9 DEF Known, Noise, Connect, Request
<1>10. s.task \in {"none", "open"}
  BY DEF FalOK
<1> QED BY <1>7, <1>8, <1>9, <1>10, Zenon

-----------------------------------------------------------------------------
(***************************************************************************)
(* Where dncopy stands with the file at hand.  c and u are the messages on *)
(* their way to it and to fal, w and h its process and its files, s and g  *)
(* those of fal.                                                           *)
(***************************************************************************)
Begun(w, h) == DOMAIN h \ w.done
Fetched(w, h) == Begun(w, h) = {}

\* A request is the last thing dncopy has said.
Requested(M, u) ==
  \/ u \in Seq(NoiseIn(M))
  \/ \E d \in Seq(NoiseIn(M)), q \in M : Request(q) /\ u = Cat(d, <<q>>)

\* fal has the answer still to come, or has given it.
Asked(M, c, u) == c \in Seq(PlainIn(M)) /\ Requested(M, u)
Answered(M, c, u, w, s, g) == u = <<>> /\ s.st # "send" /\ Answer(M, c, g, w.file)

\* What may be left when dncopy is gone: nothing that removes a file it has not stored.
LeftIn(M, w, h) == {m \in M : Known(m) /\ (m.t = "ACCOMP" => Fetched(w, h))}

InPhase(M, c, u, w, h, s, g) ==
  \/ /\ w.pc = "config" /\ Fetched(w, h)
     /\ u \in Seq(NoiseIn(M)) /\ c \in Seq(PlainIn(M))
  \/ /\ w.pc = "entry" /\ Fetched(w, h)
     /\ Asked(M, c, u) \/ Answered(M, c, u, w, s, g)
  \/ /\ w.pc = "connect" /\ Fetched(w, h) /\ w.file \in DOMAIN g /\ s.st # "send"
     /\ u \in Seq({m \in M : Connect(m)}) /\ c \in Seq(M) /\ Len(u) + Len(c) <= 1
  \/ /\ w.pc = "read" /\ Begun(w, h) \subseteq {w.file} /\ w.file \in DOMAIN g
     /\ u \in Seq(NoiseIn(M)) /\ c \in Seq(PlainIn(M))
  \/ /\ w.pc = "exit" /\ Begun(w, h) \subseteq DOMAIN g
     /\ u \in Seq(LeftIn(M, w, h)) /\ c \in Seq(M)

LEMMA PrefixLen ==
  ASSUME NEW M, NEW s \in Seq(M), NEW p, Prefix(M, p, s)
  PROVE  p \in Seq(M) /\ Len(p) <= Len(s) /\ Len(p) \in Nat /\ Len(s) \in Nat
<1>1. PICK b \in Seq(M) : p \in Seq(M) /\ s = p \o b
  BY DEF Prefix, Cat
<1> QED BY <1>1, ConcatProperties

LEMMA RequestedCut ==
  ASSUME NEW M, NEW u, Requested(M, u), NEW b, Prefix(M, b, u)
  PROVE  Requested(M, b)
<1>1. NoiseIn(M) \in SUBSET M
  BY DEF NoiseIn
<1>2. CASE u \in Seq(NoiseIn(M))
  BY <1>1, <1>2, PrefixIn DEF Requested
<1>3. ASSUME NEW d \in Seq(NoiseIn(M)), NEW q \in M, Request(q), u = Cat(d, <<q>>)
      PROVE  Requested(M, b)
  <2>1. d \in Seq(M)
    BY <1>1, SeqMonotonic
  <2>2. b = u \/ Prefix(M, b, d)
    BY <2>1, <1>3, PrefixLast
  <2>3. Prefix(M, b, d) => b \in Seq(NoiseIn(M))
    BY <1>1, PrefixIn
  <2> QED BY <2>2, <2>3, <1>3 DEF Requested
<1> QED BY <1>2, <1>3 DEF Requested

LEMMA AnswerCut ==
  ASSUME NEW M, NEW c, NEW g, NEW n, Answer(M, c, g, n), NEW a, Prefix(M, a, c)
  PROVE  Answer(M, a, g, n)
<1>1. PartIn(M, g) \in SUBSET M
  BY DEF PartIn
<1>2. CASE c \in Seq(PartIn(M, g))
  BY <1>1, <1>2, PrefixIn DEF Answer
<1>3. ASSUME NEW d \in Seq(PartIn(M, g)), NEW q \in M, q.t = "ACK", c = Cat(d, <<q>>),
             n \in DOMAIN g \/ Named(d)
      PROVE  Answer(M, a, g, n)
  <2>1. d \in Seq(M)
    BY <1>1, SeqMonotonic
  <2>2. a = c \/ Prefix(M, a, d)
    BY <2>1, <1>3, PrefixLast
  <2>3. Prefix(M, a, d) => a \in Seq(PartIn(M, g))
    BY <1>1, PrefixIn
  <2> QED BY <2>2, <2>3, <1>3 DEF Answer
<1> QED BY <1>2, <1>3 DEF Answer

LEMMA PhaseCut ==
  ASSUME NEW M, NEW c, NEW u, NEW w, NEW h, NEW s, NEW g, InPhase(M, c, u, w, h, s, g),
         NEW a, Prefix(M, a, c), NEW b, Prefix(M, b, u)
  PROVE  InPhase(M, a, b, w, h, s, g)
<1>1. /\ NoiseIn(M) \in SUBSET M /\ PlainIn(M) \in SUBSET M /\ LeftIn(M, w, h) \in SUBSET M
      /\ {m \in M : Connect(m)} \in SUBSET M
  BY DEF NoiseIn, PlainIn, LeftIn
<1>2. /\ u \in Seq(NoiseIn(M)) => b \in Seq(NoiseIn(M))
      /\ u \in Seq(LeftIn(M, w, h)) => b \in Seq(LeftIn(M, w, h))
      /\ u \in Seq({m \in M : Connect(m)}) => b \in Seq({m \in M : Connect(m)})
      /\ c \in Seq(PlainIn(M)) => a \in Seq(PlainIn(M))
      /\ a \in Seq(M) /\ b \in Seq(M)
  BY <1>1, PrefixIn DEF Prefix
<1>3. Asked(M, c, u) => Asked(M, a, b)
  BY <1>2, RequestedCut DEF Asked
<1>4. Answered(M, c, u, w, s, g) => Answered(M, a, b, w, s, g)
  <2>1. ASSUME u = <<>> PROVE b = <<>>
    <3>1. <<>> \in Seq(M) /\ Prefix(M, b, <<>>) /\ Len(<<>>) = 0
      BY <2>1
    <3>2. Len(b) <= 0 /\ Len(b) \in Nat
      BY <3>1, PrefixLen
    <3> QED BY <3>2, <1>2
  <2> QED BY <2>1, AnswerCut DEF Answered
<1>5. ASSUME u \in Seq({m \in M : Connect(m)}), c \in Seq(M), Len(u) + Len(c) <= 1
      PROVE  Len(b) + Len(a) <= 1
  <2>1. u \in Seq(M)
    BY <1>1, <1>5, SeqMonotonic
  <2>2. Len(b) <= Len(u) /\ Len(b) \in Nat /\ Len(u) \in Nat
    BY <2>1, PrefixLen
  <2>3. Len(a) <= Len(c) /\ Len(a) \in Nat /\ Len(c) \in Nat
    BY <1>5, PrefixLen
  <2> QED BY <2>2, <2>3, <1>5
<1> QED BY <1>2, <1>3, <1>4, <1>5 DEF InPhase

LEMMA PhaseMore ==
  ASSUME NEW M, NEW N, M \subseteq N,
         NEW c, NEW u, NEW w, NEW h, NEW s, NEW g, InPhase(M, c, u, w, h, s, g)
  PROVE  InPhase(N, c, u, w, h, s, g)
<1>1. /\ NoiseIn(M) \subseteq NoiseIn(N) /\ PlainIn(M) \subseteq PlainIn(N)
      /\ LeftIn(M, w, h) \subseteq LeftIn(N, w, h) /\ PartIn(M, g) \subseteq PartIn(N, g)
      /\ {m \in M : Connect(m)} \subseteq {m \in N : Connect(m)}
  BY DEF NoiseIn, PlainIn, LeftIn, PartIn
<1>2. /\ \A x \in Seq(NoiseIn(M)) : x \in Seq(NoiseIn(N))
      /\ \A x \in Seq(PlainIn(M)) : x \in Seq(PlainIn(N))
      /\ \A x \in Seq(LeftIn(M, w, h)) : x \in Seq(LeftIn(N, w, h))
      /\ \A x \in Seq(PartIn(M, g)) : x \in Seq(PartIn(N, g))
      /\ \A x \in Seq({m \in M : Connect(m)}) : x \in Seq({m \in N : Connect(m)})
      /\ \A x \in Seq(M) : x \in Seq(N)
  BY <1>1, SeqMonotonic
<1>3. Asked(M, c, u) => Asked(N, c, u)
  BY <1>2 DEF Asked, Requested
<1>4. Answered(M, c, u, w, s, g) => Answered(N, c, u, w, s, g)
  BY <1>2 DEF Answered, Answer
<1> QED BY <1>2, <1>3, <1>4 DEF InPhase

-----------------------------------------------------------------------------
(***************************************************************************)
(* What a step of fal does to link k, that carries f: it says r, having    *)
(* dropped the end of what it had not sent, and                            *)
(*   - has taken a message, or                                             *)
(*   - has sent on from its file, when a message it took made no difference *)
(*     or ended that, or                                                   *)
(*   - is gone.                                                            *)
(***************************************************************************)
FalDid(M, k, f, s, files, o) ==
  \E N, h, p, r :
    /\ M \subseteq N /\ Carries(N, o.k, h) /\ r \in Seq(N)
    /\ Prefix(N, p, f["client"]) /\ Prefix(N, h["client"], Cat(p, r))
    /\ \/ /\ f["server"] # <<>> /\ Prefix(N, h["server"], Tail(f["server"]))
          /\ ReplyTo(N, Head(f["server"]), r, o.s, files, o.f)
       \/ /\ s.st = "send" /\ r \in Seq(PlainIn(N)) /\ o.f = files
          /\ \/ Prefix(N, h["server"], f["server"])
             \/ f["server"] # <<>> /\ Prefix(N, h["server"], Tail(f["server"]))
       \/ o.s.st = "gone" /\ r = <<>> /\ o.f = files /\ Prefix(N, h["server"], f["server"])
    /\ o.k["client"].open = k["client"].open
    /\ o.k["server"].open <=> o.s.st # "gone"
    /\ FalOK(o.s)

LEMMA AnswerAfter ==
  ASSUME NEW M, NEW c \in Seq(PlainIn(M)), NEW r, NEW g, NEW n, Answer(M, r, g, n)
  PROVE  Answer(M, Cat(c, r), g, n)
<1> DEFINE P == PartIn(M, g)
<1>1. P \subseteq M /\ PlainIn(M) \subseteq P
  BY DEF PartIn, PlainIn
<1>2. c \in Seq(P)
  BY <1>1, SeqMonotonic
<1>3. /\ \A x, y \in Seq(P) : Cat(x, y) \in Seq(P)
  BY Join
<1>4. CASE r \in Seq(P)
  BY <1>2, <1>3, <1>4 DEF Answer
<1>5. ASSUME NEW d \in Seq(P), NEW a \in M, a.t = "ACK", r = Cat(d, <<a>>), n \in DOMAIN g \/ Named(d)
      PROVE  Answer(M, Cat(c, r), g, n)
  <2>1. c \in Seq(M) /\ d \in Seq(M) /\ <<a>> \in Seq(M)
    <3> HIDE DEF P
    <3> QED BY <1>1, <1>2, <1>5, SeqMonotonic, Join
  <2>2. Cat(c, r) = Cat(Cat(c, d), <<a>>)
    <3>1. \A x, y, z \in Seq(M) : Cat(Cat(x, y), z) = Cat(x, Cat(y, z))
      BY Join
    <3>2. Cat(Cat(c, d), <<a>>) = Cat(c, Cat(d, <<a>>))
      BY <2>1, <3>1
    <3> QED BY <3>2, <1>5
  <2>3. Cat(c, d) \in Seq(P)
    BY <1>2, <1>3, <1>5
  <2>4. ASSUME Named(d) PROVE Named(Cat(c, d))
    <3>1. PICK i \in 1..Len(d) : d[i].t = "NAME"
      BY <2>4 DEF Named
    <3>2. /\ Len(c) \in Nat /\ Len(d) \in Nat /\ Len(c \o d) = Len(c) + Len(d)
          /\ \A j \in 1..(Len(c) + Len(d)) : (c \o d)[j] = IF j <= Len(c) THEN c[j] ELSE d[j - Len(c)]
      BY <2>1, ConcatProperties
    <3>3. /\ Len(c) + i \in 1..(Len(c) + Len(d)) /\ ~(Len(c) + i <= Len(c)) /\ (Len(c) + i) - Len(c) = i
      BY <3>1, <3>2
    <3>4. (c \o d)[Len(c) + i] = d[i]
      BY <3>2, <3>3
    <3> QED BY <3>1, <3>2, <3>3, <3>4 DEF Named, Cat
  <2> QED BY <2>2, <2>3, <2>4, <1>5 DEF Answer
<1> QED BY <1>4, <1>5 DEF Answer

\* fal takes a message of the phase and answers it.
LEMMA HeardPhase ==
  ASSUME NEW M, NEW c, NEW u, NEW w, NEW h, NEW s, NEW files, InPhase(M, c, u, w, h, s, files),
         u # <<>>, NEW r, NEW t, NEW g, ReplyTo(M, Head(u), r, t, files, g)
  PROVE  InPhase(M, Cat(c, r), Tail(u), w, h, t, g)
<1> DEFINE m == Head(u)
<1>1. /\ r \in Seq(M)
      /\ \A P : \A x, y \in Seq(P) : Cat(x, y) \in Seq(P)
      /\ \A P : u \in Seq(P) => m \in P /\ Tail(u) \in Seq(P)
  <2>1. r \in Seq(M)
    BY DEF ReplyTo
  <2>2. \A P : \A x, y \in Seq(P) : Cat(x, y) \in Seq(P)
    BY Join
  <2>3. \A P : u \in Seq(P) => m \in P /\ Tail(u) \in Seq(P)
    BY HeadTailProperties
  <2> QED BY <2>1, <2>2, <2>3
<1>2. u \in Seq(NoiseIn(M)) => Noise(m) /\ r \in Seq(PlainIn(M)) /\ g = files
  BY <1>1 DEF NoiseIn, ReplyTo
<1> HIDE DEF m
<1>3. CASE w.pc = "config" /\ Fetched(w, h) /\ u \in Seq(NoiseIn(M)) /\ c \in Seq(PlainIn(M))
  BY <1>1, <1>2, <1>3 DEF InPhase
<1>4. CASE /\ w.pc = "read" /\ Begun(w, h) \subseteq {w.file} /\ w.file \in DOMAIN files
           /\ u \in Seq(NoiseIn(M)) /\ c \in Seq(PlainIn(M))
  BY <1>1, <1>2, <1>4 DEF InPhase
<1>5. CASE w.pc = "entry" /\ Fetched(w, h) /\ Asked(M, c, u)
  <2>1. CASE u \in Seq(NoiseIn(M))
    BY <1>1, <1>2, <1>5, <2>1 DEF InPhase, Asked, Requested
  <2>2. ASSUME NEW d \in Seq(NoiseIn(M)), NEW q \in M, Request(q), u = Cat(d, <<q>>)
        PROVE  InPhase(M, Cat(c, r), Tail(u), w, h, t, g)
    <3>1. d \in Seq(M) /\ c \in Seq(PlainIn(M)) /\ c \in Seq(M)
      <4>1. NoiseIn(M) \subseteq M /\ PlainIn(M) \subseteq M
        BY DEF NoiseIn, PlainIn
      <4> QED BY <4>1, <1>5, SeqMonotonic DEF Asked
    <3>2. CASE d = <<>>
      <4>1. m = q /\ Tail(u) = <<>>
        <5>1. Head(Cat(d, <<q>>)) = q /\ Tail(Cat(d, <<q>>)) = <<>>
          BY <3>2, OnlyOne
        <5> QED BY <5>1, <2>2 DEF m
      <4>2. (\A n : Answer(M, r, g, n)) /\ t.st # "send"
        BY <4>1, <2>2 DEF ReplyTo, m
      <4>3. Answer(M, Cat(c, r), g, w.file)
        BY <4>2, <3>1, AnswerAfter
      <4> QED BY <4>1, <4>2, <4>3, <1>5 DEF InPhase, Answered
    <3>3. CASE d # <<>>
      <4>1. m = Head(d) /\ Tail(u) = Cat(Tail(d), <<q>>)
        BY <2>2, <3>1, <3>3, TailOfLast DEF m
      <4>2. m \in NoiseIn(M) /\ Tail(d) \in Seq(NoiseIn(M))
        BY <4>1, <2>2, <3>3, HeadTailProperties
      <4>3. r \in Seq(PlainIn(M)) /\ g = files
        BY <4>2 DEF ReplyTo, NoiseIn, m
      <4> QED BY <4>1, <4>2, <4>3, <3>1, <2>2, <1>1, <1>5 DEF InPhase, Asked, Requested
    <3> QED BY <3>2, <3>3
  <2> QED BY <2>1, <2>2, <1>5 DEF Asked, Requested
<1>6. CASE w.pc = "entry" /\ Answered(M, c, u, w, s, files)
  BY <1>6 DEF Answered
<1>7. CASE /\ w.pc = "connect" /\ Fetched(w, h) /\ w.file \in DOMAIN files /\ s.st # "send"
           /\ u \in Seq({x \in M : Connect(x)}) /\ c \in Seq(M) /\ Len(u) + Len(c) <= 1
  <2>1. Connect(m) /\ Tail(u) \in Seq({x \in M : Connect(x)})
    BY <1>1, <1>7
  <2>2. Len(r) <= 1 /\ g = files /\ t.st # "send"
    BY <2>1 DEF ReplyTo, m
  <2>3. Len(u) \in Nat /\ Len(u) > 0 /\ Len(c) \in Nat /\ Len(Tail(u)) = Len(u) - 1 /\ Len(r) \in Nat
    BY <1>1, <1>7
  <2>4. Len(c) = 0 /\ Len(Tail(u)) = 0
    BY <2>3, <1>7
  <2>5. Cat(c, r) = r
    <3>1. c = <<>>
      BY <2>4, <1>7
    <3> QED BY <3>1, <1>1, Join
  <2>6. Len(Tail(u)) + Len(Cat(c, r)) <= 1
    BY <2>2, <2>3, <2>4, <2>5
  <2> QED BY <2>1, <2>2, <2>5, <2>6, <1>1, <1>7 DEF InPhase
<1>8. CASE /\ w.pc = "exit" /\ Begun(w, h) \subseteq DOMAIN files
           /\ u \in Seq(LeftIn(M, w, h)) /\ c \in Seq(M)
  <2>1. m \in LeftIn(M, w, h) /\ Tail(u) \in Seq(LeftIn(M, w, h)) /\ Cat(c, r) \in Seq(M)
    BY <1>1, <1>8
  <2>2. Known(m) /\ (m.t = "ACCOMP" => Fetched(w, h))
    BY <2>1 DEF LeftIn
  <2>3. g = files \/ Fetched(w, h)
    BY <2>2 DEF ReplyTo, Known, Request, m
  <2>4. Begun(w, h) \subseteq DOMAIN g
    BY <2>3, <1>8 DEF Fetched
  <2> QED BY <2>1, <2>4, <1>8 DEF InPhase
<1> QED BY <1>3, <1>4, <1>5, <1>6, <1>7, <1>8 DEF InPhase

\* fal sends on from its file.
LEMMA SpokePhase ==
  ASSUME NEW M, NEW c, NEW u, NEW w, NEW h, NEW s, NEW files, InPhase(M, c, u, w, h, s, files),
         s.st = "send", NEW r \in Seq(PlainIn(M)), NEW v, v = u \/ (u # <<>> /\ v = Tail(u)), NEW t
  PROVE  InPhase(M, Cat(c, r), v, w, h, t, files)
<1>1. /\ \A P : \A x, y \in Seq(P) : Cat(x, y) \in Seq(P)
      /\ \A P : u \in Seq(P) => v \in Seq(P)
  <2>1. \A P : \A x, y \in Seq(P) : Cat(x, y) \in Seq(P)
    BY Join
  <2>2. \A P : u \in Seq(P) => v \in Seq(P)
    BY HeadTailProperties
  <2> QED BY <2>1, <2>2
<1>2. PlainIn(M) \subseteq M /\ NoiseIn(M) \subseteq M
  BY DEF PlainIn, NoiseIn
<1>3. r \in Seq(M)
  BY <1>2, SeqMonotonic
<1>4. CASE w.pc = "config" /\ Fetched(w, h) /\ u \in Seq(NoiseIn(M)) /\ c \in Seq(PlainIn(M))
  BY <1>1, <1>4 DEF InPhase
<1>5. CASE /\ w.pc = "read" /\ Begun(w, h) \subseteq {w.file} /\ w.file \in DOMAIN files
           /\ u \in Seq(NoiseIn(M)) /\ c \in Seq(PlainIn(M))
  BY <1>1, <1>5 DEF InPhase
<1>6. CASE w.pc = "entry" /\ Fetched(w, h) /\ Asked(M, c, u)
  <2>1. Requested(M, v)
    <3>1. CASE u \in Seq(NoiseIn(M))
      BY <1>1, <3>1 DEF Requested
    <3>2. ASSUME NEW d \in Seq(NoiseIn(M)), NEW q \in M, Request(q), u = Cat(d, <<q>>), v = Tail(u)
          PROVE  Requested(M, v)
      <4>1. d \in Seq(M)
        BY <1>2, SeqMonotonic
      <4>2. CASE d = <<>>
        <5>1. v = <<>>
          BY <4>1, <4>2, <3>2, TailOfLast
        <5>2. <<>> \in Seq(NoiseIn(M))
          BY Join
        <5> QED BY <5>1, <5>2 DEF Requested
      <4>3. CASE d # <<>>
        <5>1. v = Cat(Tail(d), <<q>>)
          BY <4>1, <4>3, <3>2, TailOfLast
        <5>2. Tail(d) \in Seq(NoiseIn(M))
          BY <4>3, <3>2, HeadTailProperties
        <5> QED BY <5>1, <5>2, <3>2 DEF Requested
      <4> QED BY <4>2, <4>3
    <3> QED BY <3>1, <3>2, <1>6 DEF Asked, Requested
  <2> QED BY <2>1, <1>1, <1>6 DEF InPhase, Asked
<1>7. CASE w.pc = "entry" /\ Answered(M, c, u, w, s, files)
  BY <1>7 DEF Answered
<1>8. CASE /\ w.pc = "exit" /\ Begun(w, h) \subseteq DOMAIN files
           /\ u \in Seq(LeftIn(M, w, h)) /\ c \in Seq(M)
  BY <1>1, <1>3, <1>8 DEF InPhase
<1> QED BY <1>4, <1>5, <1>6, <1>7, <1>8 DEF InPhase

LEMMA FalPhase ==
  ASSUME NEW M, NEW k, NEW f, Carries(M, k, f), NEW w, NEW h, NEW s, NEW files,
         InPhase(M, f["client"], f["server"], w, h, s, files),
         NEW o, FalDid(M, k, f, s, files, o)
  PROVE  \E N, g : Carries(N, o.k, g) /\ InPhase(N, g["client"], g["server"], w, h, o.s, o.f)
<1>1. PICK N, g, p, r :
        /\ M \subseteq N /\ Carries(N, o.k, g) /\ r \in Seq(N)
        /\ Prefix(N, p, f["client"]) /\ Prefix(N, g["client"], Cat(p, r))
        /\ \/ /\ f["server"] # <<>> /\ Prefix(N, g["server"], Tail(f["server"]))
              /\ ReplyTo(N, Head(f["server"]), r, o.s, files, o.f)
           \/ /\ s.st = "send" /\ r \in Seq(PlainIn(N)) /\ o.f = files
              /\ \/ Prefix(N, g["server"], f["server"])
                 \/ f["server"] # <<>> /\ Prefix(N, g["server"], Tail(f["server"]))
           \/ o.s.st = "gone" /\ r = <<>> /\ o.f = files /\ Prefix(N, g["server"], f["server"])
  BY DEF FalDid
<1>2. f["server"] \in Seq(N) /\ f["client"] \in Seq(N) /\ p \in Seq(N)
  <2>1. f["server"] \in Seq(M) /\ f["client"] \in Seq(M)
    BY DEF Carries, Side
  <2> QED BY <2>1, <1>1, SeqMonotonic DEF Prefix
<1>3. InPhase(N, p, f["server"], w, h, s, files)
  <2>1. InPhase(N, f["client"], f["server"], w, h, s, files)
    BY <1>1, PhaseMore
  <2>2. Prefix(N, f["server"], f["server"])
    BY <1>2, PrefixSame
  <2> QED BY <2>1, <2>2, <1>1, PhaseCut
<1>4. \E v : Prefix(N, g["server"], v) /\ InPhase(N, Cat(p, r), v, w, h, o.s, o.f)
  <2>1. CASE /\ f["server"] # <<>> /\ Prefix(N, g["server"], Tail(f["server"]))
             /\ ReplyTo(N, Head(f["server"]), r, o.s, files, o.f)
    BY <2>1, <1>3, HeardPhase
  <2>2. CASE /\ s.st = "send" /\ r \in Seq(PlainIn(N)) /\ o.f = files
             /\ \/ Prefix(N, g["server"], f["server"])
                \/ f["server"] # <<>> /\ Prefix(N, g["server"], Tail(f["server"]))
    BY <2>2, <1>3, SpokePhase
  <2>3. CASE o.s.st = "gone" /\ r = <<>> /\ o.f = files /\ Prefix(N, g["server"], f["server"])
    <3>1. Cat(p, r) = p
      BY <2>3, <1>2, Join
    <3>2. InPhase(N, p, f["server"], w, h, o.s, o.f)
      BY <2>3, <1>3 DEF InPhase, Answered
    <3> QED BY <3>1, <3>2, <2>3
  <2> QED BY <2>1, <2>2, <2>3, <1>1
<1>5. InPhase(N, g["client"], g["server"], w, h, o.s, o.f)
  BY <1>1, <1>4, PhaseCut
<1> QED BY <1>1, <1>5

-----------------------------------------------------------------------------
(* The steps of fal *)

LEMMA CloseServer ==
  ASSUME NEW M, NEW k, NEW f, Carries(M, k, f), k["server"].open
  PROVE  /\ Shrinks(M, k, f, Close(k, "server"))
         /\ ~Close(k, "server")["server"].open /\ Close(k, "server")["client"].open = k["client"].open
<1>1. "server" \in Side /\ Peer("server") = "client"
  BY DEF Side, Peer
<1> QED BY <1>1, CloseDrops

LEMMA SaidPrefix ==
  ASSUME NEW N, NEW k, NEW f \in [Side -> Seq(N)], NEW r \in Seq(N), NEW h, h = Said(k, f, "server", r)
  PROVE  /\ h["server"] = f["server"] /\ h["client"] \in Seq(N) /\ Prefix(N, h["client"], Cat(f["client"], r))
         /\ h["client"] = f["client"] \/ h["client"] = Cat(f["client"], r)
<1>1. Peer("server") = "client" /\ "server" \in Side /\ "client" \in Side /\ "server" # "client"
  BY DEF Peer, Side
<1>2. f["client"] \in Seq(N) /\ Cat(f["client"], r) \in Seq(N)
  BY <1>1, Join
<1>3. /\ h["server"] = f["server"]
      /\ h["client"] =
           IF k["client"].up THEN Cat(f["client"], r) ELSE f["client"]
  BY <1>1 DEF Said
<1>4. /\ Prefix(N, f["client"], Cat(f["client"], r))
      /\ Prefix(N, Cat(f["client"], r), Cat(f["client"], r))
  BY <1>2, PrefixSame DEF Prefix
<1> QED BY <1>2, <1>3, <1>4

LEMMA HandlesDid ==
  ASSUME NEW M, NEW k, NEW f, Carries(M, k, f), NEW s, NEW files, NEW o,
         k["server"].open, CanRead(k, "server"),
         Handles(M, ReadMessage(k, "server"), [f EXCEPT !["server"] = Tail(f["server"])], files,
                 NextMessage(k, "server"), o)
  PROVE  FalDid(M, k, f, s, files, o)
<1> DEFINE i == ReadMessage(k, "server")
           e == [f EXCEPT !["server"] = Tail(f["server"])]
           m == NextMessage(k, "server")
<1>1. /\ "server" \in Side /\ "client" \in Side /\ Peer("server") = "client" /\ "server" # "client"
      /\ f \in [Side -> Seq(M)]
  BY DEF Side, Peer, Carries
<1>2. f["server"] # <<>> /\ m = Head(f["server"])
  BY <1>1, SomethingCame
<1>3. Carries(M, i, e) /\ SameEnds(i, k)
  BY <1>1, ReadTakes
<1>4. e["server"] = Tail(f["server"]) /\ e["client"] = f["client"]
  BY <1>1
<1>5. PICK N, r :
        /\ M \subseteq N /\ ReplyTo(N, m, r, o.s, files, o.f) /\ FalOK(o.s)
        /\ \/ o.s.st # "gone" /\ Says(N, i, e, o.k, "server", r)
           \/ o.s.st = "gone" /\ \E j : Says(N, i, e, j, "server", r) /\ o.k = Close(j, "server")
  BY DEF Handles
<1> HIDE DEF i, e, m
<1>6. e \in [Side -> Seq(N)] /\ r \in Seq(N) /\ Prefix(N, f["client"], f["client"])
  <2>1. Carries(N, i, e)
    BY <1>3, <1>5, CarriesMore
  <2>2. e \in [Side -> Seq(N)] /\ r \in Seq(N)
    BY <2>1, <1>5 DEF Carries, ReplyTo
  <2>3. e["client"] \in Seq(N)
    BY <2>2, <1>1
  <2> QED BY <2>2, <2>3, <1>4, PrefixSame
<1> DEFINE h == Said(i, e, "server", r)
<1>7. /\ h["server"] = Tail(f["server"]) /\ h["client"] \in Seq(N)
      /\ Prefix(N, h["client"], Cat(f["client"], r))
  BY <1>4, <1>6, SaidPrefix
<1> HIDE DEF h
<1>8. ASSUME NEW g, Carries(N, o.k, g), \A x \in Side : Prefix(N, g[x], h[x]),
             o.k["client"].open = k["client"].open, o.k["server"].open <=> o.s.st # "gone"
      PROVE  FalDid(M, k, f, s, files, o)
  <2>1. Prefix(N, g["client"], h["client"]) /\ Prefix(N, g["server"], h["server"])
    BY <1>1, <1>8
  <2>2. Prefix(N, g["client"], Cat(f["client"], r))
    BY <2>1, <1>7, PrefixOfPrefix
  <2>3. Prefix(N, g["server"], Tail(f["server"]))
    BY <2>1, <1>7
  <2>4. ReplyTo(N, Head(f["server"]), r, o.s, files, o.f)
    BY <1>2, <1>5
  <2> QED BY <2>2, <2>3, <2>4, <1>2, <1>5, <1>6, <1>8 DEF FalDid
<1>9. CASE o.s.st # "gone" /\ Says(N, i, e, o.k, "server", r)
  <2>1. Carries(N, o.k, h) /\ SameEnds(o.k, i)
    BY <1>9 DEF Says, h
  <2>2. \A x \in Side : Prefix(N, h[x], h[x])
    <3>1. h \in [Side -> Seq(N)]
      BY <2>1 DEF Carries
    <3> QED BY <3>1, PrefixSame
  <2>3. o.k["client"].open = k["client"].open /\ o.k["server"].open = k["server"].open
    BY <2>1, <1>1, <1>3 DEF SameEnds
  <2> QED BY <2>1, <2>2, <2>3, <1>8, <1>9
<1>10. ASSUME o.s.st = "gone", NEW j, Says(N, i, e, j, "server", r), o.k = Close(j, "server")
       PROVE  FalDid(M, k, f, s, files, o)
  <2>1. Carries(N, j, h) /\ SameEnds(j, i)
    BY <1>10 DEF Says, h
  <2>2. j["client"].open = k["client"].open /\ j["server"].open = k["server"].open
    BY <2>1, <1>1, <1>3 DEF SameEnds
  <2>3. /\ Shrinks(N, j, h, o.k) /\ ~o.k["server"].open /\ o.k["client"].open = j["client"].open
    <3>1. j["server"].open
      BY <2>2
    <3>2. /\ Shrinks(N, j, h, Close(j, "server"))
          /\ ~Close(j, "server")["server"].open
          /\ Close(j, "server")["client"].open = j["client"].open
      BY <2>1, <3>1, CloseServer
    <3> QED BY <3>2, <1>10
  <2>4. PICK g : Carries(N, o.k, g) /\ \A x \in Side : Prefix(N, g[x], h[x])
    BY <2>3 DEF Shrinks
  <2> QED BY <2>2, <2>3, <2>4, <1>8, <1>10
<1> QED BY <1>5, <1>9, <1>10

LEMMA MessageDid ==
  ASSUME NEW M, NEW k, NEW f, Carries(M, k, f), NEW s, NEW files, FalOK(s), s.st = "run",
         k["server"].open, CanRead(k, "server"), Known(NextMessage(k, "server"))
  PROVE  FalDid(M, k, f, s, files,
                ProcessMessage(ReadMessage(k, "server"), NextMessage(k, "server"), s, files))
<1> DEFINE i == ReadMessage(k, "server")
           e == [f EXCEPT !["server"] = Tail(f["server"])]
           m == NextMessage(k, "server")
<1>1. Carries(M, i, e) /\ i["server"].open
  BY ReadTakes DEF Side, SameEnds
<1> HIDE DEF i, e, m
<1>2. Handles(M, i, e, files, m, ProcessMessage(i, m, s, files))
  BY <1>1, MessageHandles DEF m
<1> QED BY <1>2, HandlesDid DEF i, e, m

LEMMA ConfigDid ==
  ASSUME NEW M, NEW k, NEW f, Carries(M, k, f), NEW s, NEW files,
         k["server"].open, CanRead(k, "server"), Known(NextMessage(k, "server"))
  PROVE  /\ FalDid(M, k, f, s, files, Completed(ReadMessage(k, "server"), files))
         /\ FalDid(M, k, f, s, files, Ended(ReadMessage(k, "server"), files))
<1> DEFINE i == ReadMessage(k, "server")
           e == [f EXCEPT !["server"] = Tail(f["server"])]
           m == NextMessage(k, "server")
           z == [NewFal EXCEPT !.st = "gone"]
<1>1. Carries(M, i, e)
  BY ReadTakes DEF Side
<1> HIDE DEF i, e, m
<1>2. Says(M, i, e, i, "server", <<>>)
  BY <1>1, SaysMany
<1>3. Handles(M, i, e, files, m, Completed(i, files))
  <2>1. FalOK(Task("none")) /\ Task("none").st = "run"
    BY FalsAreOK
  <2>2. Handles(M, i, e, files, m, Left(i, Task("none"), files))
    BY <2>1, <1>1, <1>2, QuietHandles DEF m
  <2> QED BY <2>2 DEF Completed
<1>4. Handles(M, i, e, files, m, Ended(i, files))
  <2>1. FalOK(z) /\ z.st = "gone"
    BY FalsAreOK
  <2> HIDE DEF z
  <2>2. ReplyTo(M, m, <<>>, z, files, files)
    <3>1. <<>> \in Seq(M) /\ <<>> \in Seq(PlainIn(M)) /\ <<>> \in Seq(PartIn(M, files)) /\ Len(<<>>) = 0
      OBVIOUS
    <3> QED BY <2>1, <3>1 DEF ReplyTo, Answer
  <2>3. /\ Ended(i, files).k = Close(i, "server") /\ Ended(i, files).s = z /\ Ended(i, files).f = files
    BY DEF Left, Ended, z
  <2> QED BY <2>1, <2>2, <2>3, <1>2 DEF Handles
<1> QED BY <1>3, <1>4, HandlesDid DEF i, e, m

\* fal is gone, having dropped what it had not sent or not.
LEMMA EndedDid ==
  ASSUME NEW M, NEW k, NEW f, Carries(M, k, f), NEW s, NEW files, k["server"].open
  PROVE  /\ FalDid(M, k, f, s, files, Ended(k, files))
         /\ FalDid(M, k, f, s, files, Ended(ClearOutputBuffer(k, "server"), files))
<1> DEFINE z == [NewFal EXCEPT !.st = "gone"]
<1>1. /\ "server" \in Side /\ "client" \in Side /\ Peer("server") = "client"
      /\ f \in [Side -> Seq(M)] /\ <<>> \in Seq(M)
  BY DEF Side, Peer, Carries
<1>2. FalOK(z) /\ z.st = "gone"
  BY FalsAreOK
<1> HIDE DEF z
<1>3. /\ Prefix(M, f["client"], f["client"]) /\ Cat(f["client"], <<>>) = f["client"]
  BY <1>1, PrefixSame, Join
<1>4. ASSUME NEW j, NEW g, Carries(M, j, g), \A x \in Side : Prefix(M, g[x], f[x]),
             SameEnds(j, k)
      PROVE  FalDid(M, k, f, s, files, Ended(j, files))
  <2> DEFINE o == Ended(j, files)
  <2>1. o.k = Close(j, "server") /\ o.s = z /\ o.f = files
    BY DEF Left, Ended, z
  <2> HIDE DEF o
  <2>2. j["client"].open = k["client"].open /\ j["server"].open
    BY <1>1, <1>4 DEF SameEnds
  <2>3. Shrinks(M, j, g, o.k) /\ ~o.k["server"].open /\ o.k["client"].open = j["client"].open
    BY <2>1, <2>2, <1>4, CloseServer
  <2>4. Shrinks(M, k, f, o.k)
    BY <2>3, <1>4, ShrinksMore
  <2>5. PICK h : Carries(M, o.k, h) /\ \A x \in Side : Prefix(M, h[x], f[x])
    BY <2>4 DEF Shrinks
  <2>6. Prefix(M, h["client"], Cat(f["client"], <<>>)) /\ Prefix(M, h["server"], f["server"])
    BY <2>5, <1>1, <1>3
  <2>7. FalDid(M, k, f, s, files, o)
    BY <2>1, <2>2, <2>3, <2>5, <2>6, <1>1, <1>2, <1>3 DEF FalDid
  <2> QED BY <2>7 DEF o
<1>5. FalDid(M, k, f, s, files, Ended(k, files))
  <2>1. \A x \in Side : Prefix(M, f[x], f[x])
    BY <1>1, PrefixSame
  <2> QED BY <2>1, <1>4 DEF SameEnds
<1>6. FalDid(M, k, f, s, files, Ended(ClearOutputBuffer(k, "server"), files))
  <2>1. /\ Shrinks(M, k, f, ClearOutputBuffer(k, "server"))
        /\ SameEnds(ClearOutputBuffer(k, "server"), k)
    BY <1>1, ClearDrops
  <2> QED BY <2>1, <1>4 DEF Shrinks
<1> QED BY <1>5, <1>6

\* What FalSendRecord leaves
Sending(k, s, files) ==
  LET j == Write(k, "server", Data(NextRecord(s)))
      i == ReadMessage(j, "server")
  IN IF AtEnd(s) THEN Left(SendEof(k), PastEnd(s), files)
     ELSE IF WriteFails(k, "server") THEN Completed(k, files)
     ELSE IF ~CanRead(j, "server") THEN Left(j, PastRecord(s), files)
     ELSE IF NextMessage(j, "server").t = "STATUS" THEN Completed(i, files)
     ELSE IF NextMessage(j, "server").t = "ACCOMP"
       THEN Completed(Reply(ClearOutputBuffer(i, "server"), "server", Accomp("response", {})), files)
     ELSE Left(i, PastRecord(s), files)

LEMMA SendingDid ==
  ASSUME NEW M, NEW k, NEW f, Carries(M, k, f), NEW s, NEW files, FalOK(s), s.st = "send",
         k["server"].open
  PROVE  FalDid(M, k, f, s, files, Sending(k, s, files))
<1> DEFINE x == Data(NextRecord(s))
           eof == Status("eof")
           bye == Accomp("response", {})
           N == M \cup {x, eof, bye}
           c == f["client"]
           u == f["server"]
           j == Write(k, "server", x)
           i == ReadMessage(j, "server")
           D(o) == FalDid(M, k, f, s, files, o)
<1>1. /\ "server" \in Side /\ "client" \in Side /\ Peer("server") = "client" /\ "server" # "client"
      /\ \A y \in Side : y = "client" \/ y = "server"
  BY DEF Side, Peer
<1>2. M \subseteq N /\ x \in N /\ eof \in N /\ bye \in N
  OBVIOUS
<1>3. x \in PlainIn(N) /\ eof \in PlainIn(N) /\ PlainIn(N) \subseteq N /\ bye.t = "ACCOMP"
  BY <1>2 DEF PlainIn, Plain, Data, Status, Accomp
<1>4. /\ FalOK(PastRecord(s)) /\ PastRecord(s).st = "send"
      /\ FalOK(PastEnd(s)) /\ PastEnd(s).st = "run"
      /\ FalOK(Task("none")) /\ Task("none").st = "run"
  <2>1. FalOK(PastRecord(s)) /\ PastRecord(s).st = "send"
    BY DEF FalOK, FalFields, PastRecord
  <2>2. FalOK(PastEnd(s)) /\ PastEnd(s).st = "run"
    <3> DEFINE y == [[s EXCEPT !.stream = <<>>] EXCEPT !.ateof = TRUE]
    <3>1. FalOK(y)
      BY DEF FalOK, FalFields
    <3>2. PastEnd(s) = [y EXCEPT !.st = "run"]
      BY DEF PastEnd
    <3> HIDE DEF y
    <3> QED BY <3>1, <3>2 DEF FalOK, FalFields
  <2> QED BY <2>1, <2>2, FalsAreOK
<1>5. /\ Carries(N, k, f) /\ f \in [Side -> Seq(N)] /\ c \in Seq(N) /\ u \in Seq(N)
  <2>1. Carries(N, k, f)
    BY <1>2, CarriesMore
  <2> QED BY <2>1, <1>1 DEF Carries
<1>6. /\ \A m \in PlainIn(N) : <<m>> \in Seq(PlainIn(N)) /\ <<m>> \in Seq(N)
      /\ <<>> \in Seq(PlainIn(N)) /\ <<>> \in Seq(N)
      /\ Prefix(N, c, c) /\ Prefix(N, u, u)
  BY <1>3, <1>5, Join, PrefixSame
<1> HIDE DEF x, eof, bye, N, c, u
\* It says r, and may have taken a message, too.
<1>7. ASSUME NEW r \in Seq(PlainIn(N)), r \in Seq(N), NEW o, FalOK(o.s), o.s.st # "gone", o.f = files,
             NEW h, Carries(N, o.k, h), SameEnds(o.k, k), Prefix(N, h["client"], Cat(c, r)),
             h["server"] = u \/ (u # <<>> /\ h["server"] = Tail(u))
      PROVE  D(o)
  <2>1. o.k["client"].open = k["client"].open /\ o.k["server"].open
    BY <1>1, <1>7 DEF SameEnds
  <2>2. h["server"] \in Seq(N)
    BY <1>1, <1>7 DEF Carries
  <2>3. Prefix(N, h["server"], h["server"])
    BY <2>2, PrefixSame
  <2> QED BY <2>1, <2>3, <1>2, <1>6, <1>7 DEF FalDid, c, u
<1>8. Says(N, k, f, j, "server", <<x>>)
  BY <1>1, <1>3, <1>5, WriteSays
<1> DEFINE g == Said(k, f, "server", <<x>>)
<1>9. /\ g["server"] = u /\ g["client"] \in Seq(N) /\ Prefix(N, g["client"], Cat(c, <<x>>))
      /\ g["client"] = c \/ g["client"] = Cat(c, <<x>>)
      /\ Carries(N, j, g) /\ SameEnds(j, k) /\ j["server"].open
  <2>1. Carries(N, j, g) /\ SameEnds(j, k) /\ j["server"].open
    BY <1>1, <1>8 DEF Says, SameEnds
  <2> DEFINE r == <<x>>
  <2>2. r \in Seq(N) /\ g = Said(k, f, "server", r)
    BY <1>3, <1>6
  <2> HIDE DEF g, r
  <2>3. /\ g["server"] = f["server"] /\ g["client"] \in Seq(N) /\ Prefix(N, g["client"], Cat(f["client"], r))
        /\ g["client"] = f["client"] \/ g["client"] = Cat(f["client"], r)
    BY <2>2, <1>5, SaidPrefix
  <2> QED BY <2>1, <2>3 DEF c, u, r
<1> HIDE DEF g, j
<1> DEFINE e == [g EXCEPT !["server"] = Tail(g["server"])]
<1>10. ASSUME CanRead(j, "server")
       PROVE  /\ Carries(N, i, e) /\ SameEnds(i, k) /\ i["server"].open
              /\ u # <<>> /\ e["server"] = Tail(u) /\ e["client"] = g["client"]
              /\ NextMessage(j, "server") = Head(u)
  <2>1. Carries(N, i, e) /\ SameEnds(i, j)
    BY <1>1, <1>9, <1>10, ReadTakes
  <2>2. u # <<>> /\ NextMessage(j, "server") = Head(u)
    BY <1>1, <1>9, <1>10, SomethingCame
  <2>3. e["server"] = Tail(u) /\ e["client"] = g["client"]
    BY <1>1, <1>9 DEF Carries
  <2>4. SameEnds(i, k) /\ i["server"].open
    BY <2>1, <1>1, <1>9 DEF SameEnds
  <2> QED BY <2>1, <2>2, <2>3, <2>4
<1> HIDE DEF e, i
<1>11. D(Left(SendEof(k), PastEnd(s), files))
  <2> DEFINE o == Left(SendEof(k), PastEnd(s), files)
             h == Said(k, f, "server", <<eof>>)
  <2>1. o.k = Reply(k, "server", eof) /\ o.s = PastEnd(s) /\ o.f = files
    BY DEF Left, SendEof, eof
  <2> HIDE DEF o
  <2>2. Says(N, k, f, o.k, "server", <<eof>>)
    BY <2>1, <1>1, <1>3, <1>5, ReplySays
  <2>3. h["server"] = u /\ Prefix(N, h["client"], Cat(c, <<eof>>))
    <3> DEFINE r == <<eof>>
    <3>1. r \in Seq(N) /\ h = Said(k, f, "server", r)
      BY <1>3, <1>6
    <3> HIDE DEF h, r
    <3>2. h["server"] = f["server"] /\ Prefix(N, h["client"], Cat(f["client"], r))
      BY <3>1, <1>5, SaidPrefix
    <3> QED BY <3>2 DEF c, u, r
  <2>4. Carries(N, o.k, h) /\ SameEnds(o.k, k)
    BY <2>2 DEF Says
  <2> HIDE DEF h
  <2>5. D(o)
    BY <2>1, <2>3, <2>4, <1>3, <1>4, <1>6, <1>7
  <2> QED BY <2>5 DEF o
<1>12. D(Completed(k, files))
  <2> DEFINE o == Completed(k, files)
  <2>1. o.k = k /\ o.s = Task("none") /\ o.f = files
    BY DEF Left, Completed
  <2> HIDE DEF o
  <2>2. Prefix(N, f["client"], Cat(c, <<>>)) /\ f["server"] = u /\ SameEnds(o.k, k)
    BY <2>1, <1>5, <1>6, Join DEF c, u, SameEnds
  <2>3. D(o)
    BY <2>1, <2>2, <1>4, <1>5, <1>6, <1>7
  <2> QED BY <2>3 DEF o
<1>13. D(Left(j, PastRecord(s), files))
  <2> DEFINE o == Left(j, PastRecord(s), files)
  <2>1. o.k = j /\ o.s = PastRecord(s) /\ o.f = files
    BY DEF Left
  <2> HIDE DEF o
  <2>2. D(o)
    BY <2>1, <1>3, <1>4, <1>6, <1>7, <1>9
  <2> QED BY <2>2 DEF o
<1>14. ASSUME CanRead(j, "server"), NEW t, FalOK(t), t.st # "gone" PROVE D(Left(i, t, files))
  <2> DEFINE o == Left(i, t, files)
  <2>1. o.k = i /\ o.s = t /\ o.f = files
    BY DEF Left
  <2> HIDE DEF o
  <2>2. D(o)
    BY <2>1, <1>3, <1>6, <1>7, <1>9, <1>10, <1>14
  <2> QED BY <2>2 DEF o
<1>15. ASSUME CanRead(j, "server"), NextMessage(j, "server").t = "ACCOMP"
       PROVE  D(Completed(Reply(ClearOutputBuffer(i, "server"), "server", bye), files))
  <2> DEFINE q == ClearOutputBuffer(i, "server")
             o == Completed(Reply(q, "server", bye), files)
  <2>1. o.k = Reply(q, "server", bye) /\ o.s = Task("none") /\ o.f = files
    BY DEF Left, Completed
  <2> HIDE DEF o
  <2>2. Shrinks(N, i, e, q) /\ SameEnds(q, i)
    BY <1>1, <1>10, <1>15, ClearDrops
  <2> HIDE DEF q
  <2>3. PICK a : Carries(N, q, a) /\ \A y \in Side : Prefix(N, a[y], e[y])
    BY <2>2 DEF Shrinks
  <2>4. q["server"].open
    BY <2>2, <1>1, <1>10, <1>15 DEF SameEnds
  <2>5. bye \in N /\ <<bye>> \in Seq(N) /\ <<x>> \in Seq(N)
    BY <1>2, <1>3, <1>6, Join
  <2>6. Says(N, q, a, o.k, "server", <<bye>>)
    BY <2>1, <2>3, <2>4, <2>5, <1>1, ReplySays
  <2> DEFINE h == Said(q, a, "server", <<bye>>)
  <2>7. h["server"] = a["server"] /\ Prefix(N, h["client"], Cat(a["client"], <<bye>>))
    <3>1. a \in [Side -> Seq(N)]
      BY <2>3 DEF Carries
    <3> DEFINE r == <<bye>>
    <3>2. r \in Seq(N) /\ h = Said(q, a, "server", r)
      BY <2>5
    <3> HIDE DEF h, r
    <3>3. h["server"] = a["server"] /\ Prefix(N, h["client"], Cat(a["client"], r))
      BY <3>1, <3>2, SaidPrefix
    <3> QED BY <3>3 DEF r
  <2>8. Carries(N, o.k, h) /\ SameEnds(o.k, q)
    BY <2>6 DEF Says
  <2> HIDE DEF h
  <2>9. o.k["client"].open = k["client"].open /\ o.k["server"].open
    BY <2>2, <2>8, <1>1, <1>9, <1>10, <1>15 DEF SameEnds
  <2>10. Prefix(N, h["server"], Tail(u)) /\ u # <<>> /\ Head(u).t = "ACCOMP"
    BY <2>3, <2>7, <1>1, <1>10, <1>15
  <2>11. \A r \in Seq(PartIn(N, files)) : r \in Seq(N) /\ ReplyTo(N, Head(u), r, o.s, files, o.f)
    <3>1. \A r \in Seq(PartIn(N, files)) : r \in Seq(N)
      <4>1. PartIn(N, files) \subseteq N
        BY DEF PartIn
      <4> QED BY <4>1, SeqMonotonic
    <3>2. ~Noise(Head(u)) /\ ~Connect(Head(u))
      BY <2>10 DEF Noise, Connect
    <3> QED BY <3>1, <3>2, <2>1, <1>4 DEF ReplyTo, Answer
  <2>12. x \in PartIn(N, files) /\ bye \in PartIn(N, files)
    BY <1>2, <1>3 DEF PartIn, PlainIn
  <2>13. /\ <<bye>> \in Seq(PartIn(N, files)) /\ <<x>> \in Seq(PartIn(N, files))
         /\ Cat(<<x>>, <<bye>>) \in Seq(PartIn(N, files))
    <3>1. <<bye>> \in Seq(PartIn(N, files)) /\ <<x>> \in Seq(PartIn(N, files))
      BY <2>12, Join
    <3> QED BY <3>1, Join
  <2>14. \E p, r : /\ Prefix(N, p, c) /\ r \in Seq(PartIn(N, files))
                   /\ Prefix(N, h["client"], Cat(p, r))
    <3>1. Prefix(N, a["client"], g["client"])
      BY <2>3, <1>1, <1>10, <1>15
    <3>2. Prefix(N, a["client"], c) \/ a["client"] = Cat(c, <<x>>)
      BY <3>1, <1>2, <1>5, <1>9, PrefixLast
    <3>3. CASE Prefix(N, a["client"], c)
      BY <3>3, <2>7, <2>13
    <3>4. CASE a["client"] = Cat(c, <<x>>)
      <4>1. \A y, z, w \in Seq(N) : Cat(Cat(y, z), w) = Cat(y, Cat(z, w))
        BY Join
      <4>2. Cat(Cat(c, <<x>>), <<bye>>) = Cat(c, Cat(<<x>>, <<bye>>))
        BY <4>1, <2>5, <1>5
      <4> QED BY <4>2, <3>4, <2>7, <2>13, <1>6
    <3> QED BY <3>2, <3>3, <3>4
  <2>15. D(o)
    <3>1. PICK p, r : /\ Prefix(N, p, c) /\ r \in Seq(PartIn(N, files))
                      /\ Prefix(N, h["client"], Cat(p, r))
      BY <2>14
    <3>2. r \in Seq(N) /\ ReplyTo(N, Head(u), r, o.s, files, o.f)
      BY <3>1, <2>11
    <3>3. FalOK(o.s) /\ o.s.st # "gone"
      BY <2>1, <1>4
    <3> QED BY <3>1, <3>2, <3>3, <2>8, <2>9, <2>10, <1>2 DEF FalDid, c, u
  <2> QED BY <2>15 DEF o, q
<1>16. Sending(k, s, files) \in
         {Left(SendEof(k), PastEnd(s), files), Completed(k, files), Left(j, PastRecord(s), files)}
       \/ /\ CanRead(j, "server")
          /\ \/ Sending(k, s, files) = Completed(i, files)
             \/ Sending(k, s, files) = Left(i, PastRecord(s), files)
             \/ /\ NextMessage(j, "server").t = "ACCOMP"
                /\ Sending(k, s, files) =
                     Completed(Reply(ClearOutputBuffer(i, "server"), "server", bye), files)
  BY DEF Sending, j, i, x, bye
<1>17. CanRead(j, "server") => D(Completed(i, files)) /\ D(Left(i, PastRecord(s), files))
  <2>1. Completed(i, files) = Left(i, Task("none"), files)
    BY DEF Completed
  <2> QED BY <2>1, <1>4, <1>14
<1> HIDE DEF D
<1>18. D(Sending(k, s, files))
  BY <1>11, <1>12, <1>13, <1>15, <1>16, <1>17, Zenon
<1> QED BY <1>18 DEF D

-----------------------------------------------------------------------------
(***************************************************************************)
(* The steps of dncopy.                                                    *)
(***************************************************************************)

\* The link k is at some phase.
On(k, w, h, s, g) ==
  \E M, f : Carries(M, k, f) /\ InPhase(M, f["client"], f["server"], w, h, s, g)

LEMMA FlowsTyped ==
  ASSUME NEW M, NEW k, NEW f, Carries(M, k, f)
  PROVE  /\ f["client"] \in Seq(M) /\ f["server"] \in Seq(M) /\ f \in [Side -> Seq(M)]
         /\ "client" \in Side /\ "server" \in Side /\ Peer("client") = "server" /\ "client" # "server"
  BY DEF Carries, Side, Peer

\* dncopy says r.
LEMMA OnSaid ==
  ASSUME NEW M, NEW k, NEW f, Carries(M, k, f), NEW r \in Seq(M), NEW j, Says(M, k, f, j, "client", r),
         NEW w, NEW h, NEW s, NEW g, InPhase(M, f["client"], Cat(f["server"], r), w, h, s, g)
  PROVE  /\ On(j, w, h, s, g)
         /\ j["client"].open = k["client"].open /\ j["server"].open = k["server"].open
<1> DEFINE e == Said(k, f, "client", r)
<1>1. /\ f["client"] \in Seq(M) /\ f["server"] \in Seq(M) /\ f \in [Side -> Seq(M)]
      /\ "client" \in Side /\ "server" \in Side /\ Peer("client") = "server" /\ "client" # "server"
  BY FlowsTyped
<1>2. Carries(M, j, e) /\ SameEnds(j, k)
  BY DEF Says
<1>3. e["client"] = f["client"] /\ (e["server"] = Cat(f["server"], r) \/ e["server"] = f["server"])
  BY <1>1 DEF Said
<1> HIDE DEF e
<1>4. Cat(f["server"], r) \in Seq(M)
  BY <1>1, Join
<1>5. Prefix(M, e["client"], f["client"]) /\ Prefix(M, e["server"], Cat(f["server"], r))
  <2>1. Prefix(M, f["client"], f["client"]) /\ Prefix(M, Cat(f["server"], r), Cat(f["server"], r))
    BY <1>1, <1>4, PrefixSame
  <2>2. Prefix(M, f["server"], Cat(f["server"], r))
    BY <1>1 DEF Prefix
  <2> QED BY <2>1, <2>2, <1>3
<1>6. InPhase(M, e["client"], e["server"], w, h, s, g)
  BY <1>5, PhaseCut
<1>7. On(j, w, h, s, g)
  BY <1>2, <1>6 DEF On
<1> QED BY <1>1, <1>2, <1>7 DEF SameEnds

LEMMA OnShrunk ==
  ASSUME NEW M, NEW k, NEW f, NEW j, Shrinks(M, k, f, j),
         NEW w, NEW h, NEW s, NEW g, InPhase(M, f["client"], f["server"], w, h, s, g)
  PROVE  On(j, w, h, s, g)
<1>1. PICK e : Carries(M, j, e) /\ \A x \in Side : Prefix(M, e[x], f[x])
  BY DEF Shrinks
<1>2. Prefix(M, e["client"], f["client"]) /\ Prefix(M, e["server"], f["server"])
  BY <1>1 DEF Side
<1>3. InPhase(M, e["client"], e["server"], w, h, s, g)
  BY <1>2, PhaseCut
<1> QED BY <1>1, <1>3 DEF On

\* It goes as it is.
LEMMA PhaseExit ==
  ASSUME NEW M, NEW c \in Seq(M), NEW u \in Seq(M), NEW w, NEW h, NEW s, NEW g,
         InPhase(M, c, u, w, h, s, g), NEW v, v.pc = "exit", w.done \subseteq v.done
  PROVE  InPhase(M, c, u, v, h, s, g)
<1> DEFINE L == LeftIn(M, v, h)
<1>1. Begun(v, h) \subseteq Begun(w, h)
  BY DEF Begun
<1>2. \A x \in NoiseIn(M) : x \in L
  BY DEF LeftIn, NoiseIn, Known, Noise
<1>3. \A x \in Seq(NoiseIn(M)) : x \in Seq(L)
  <2> HIDE DEF L
  <2> QED BY <1>2, SeqMonotonic
<1>4. Begun(v, h) \subseteq DOMAIN g
  BY <1>1 DEF InPhase, Fetched
<1>5. CASE w.pc = "config" /\ u \in Seq(NoiseIn(M))
  BY <1>3, <1>4, <1>5 DEF InPhase
<1>6. CASE w.pc = "read" /\ u \in Seq(NoiseIn(M))
  BY <1>3, <1>4, <1>6 DEF InPhase
<1>7. CASE w.pc = "connect" /\ u \in Seq({m \in M : Connect(m)})
  <2>1. \A x \in {m \in M : Connect(m)} : x \in L
    BY DEF LeftIn, Known, Connect
  <2>2. u \in Seq(L)
    <3> HIDE DEF L
    <3> QED BY <2>1, <1>7, SeqMonotonic
  <2> QED BY <2>2, <1>4 DEF InPhase
<1>8. CASE w.pc = "entry" /\ Fetched(w, h) /\ Requested(M, u)
  <2>1. CASE u \in Seq(NoiseIn(M))
    BY <2>1, <1>3, <1>4 DEF InPhase
  <2>2. ASSUME NEW d \in Seq(NoiseIn(M)), NEW q \in M, Request(q), u = Cat(d, <<q>>)
        PROVE  u \in Seq(L)
    <3>1. q \in L
      BY <2>2, <1>1, <1>8 DEF LeftIn, Known, Fetched
    <3>2. d \in Seq(L)
      BY <1>3
    <3> HIDE DEF L
    <3> QED BY <3>1, <3>2, <2>2, TailOfLast
  <2> QED BY <2>1, <2>2, <1>4, <1>8 DEF InPhase, Requested
<1>9. CASE u = <<>>
  <2>1. <<>> \in Seq(L)
    BY Join
  <2> QED BY <2>1, <1>4, <1>9 DEF InPhase
<1>10. CASE w.pc = "exit" /\ u \in Seq(LeftIn(M, w, h))
  <2>1. \A x \in LeftIn(M, w, h) : x \in L
    BY <1>1 DEF LeftIn, Fetched
  <2>2. u \in Seq(L)
    <3> HIDE DEF L
    <3> QED BY <2>1, <1>10, SeqMonotonic
  <2> QED BY <2>2, <1>4 DEF InPhase
<1> QED BY <1>5, <1>6, <1>7, <1>8, <1>9, <1>10 DEF InPhase, Asked, Answered

LEMMA OnGone ==
  ASSUME NEW k, NEW w, NEW h, NEW s, NEW g, On(k, w, h, s, g), k["client"].open,
         NEW v, v.pc = "exit", w.done \subseteq v.done,
         NEW j, j = Close(ClearOutputBuffer(k, "client"), "client")
  PROVE  On(j, v, h, s, g) /\ ~j["client"].open /\ j["server"].open = k["server"].open
<1> DEFINE i == ClearOutputBuffer(k, "client")
<1>1. PICK M, f : Carries(M, k, f) /\ InPhase(M, f["client"], f["server"], w, h, s, g)
  BY DEF On
<1>2. /\ f["client"] \in Seq(M) /\ f["server"] \in Seq(M)
      /\ "client" \in Side /\ "server" \in Side /\ Peer("client") = "server"
  BY <1>1, FlowsTyped
<1>3. Shrinks(M, k, f, i) /\ SameEnds(i, k)
  BY <1>1, <1>2, ClearDrops
<1> HIDE DEF i
<1>4. i["client"].open /\ i["server"].open = k["server"].open
  BY <1>2, <1>3 DEF SameEnds
<1>5. PICK e : Carries(M, i, e) /\ \A x \in Side : Prefix(M, e[x], f[x])
  BY <1>3 DEF Shrinks
<1>6. /\ Shrinks(M, i, e, j) /\ ~j["client"].open /\ j["server"].open = i["server"].open
  <2>1. /\ Shrinks(M, i, e, Close(i, "client")) /\ ~Close(i, "client")["client"].open
        /\ Close(i, "client")[Peer("client")].open = i[Peer("client")].open
    BY <1>2, <1>4, <1>5, CloseDrops
  <2> QED BY <2>1, <1>2 DEF i
<1>7. Shrinks(M, k, f, j)
  BY <1>5, <1>6, ShrinksMore
<1>8. InPhase(M, f["client"], f["server"], v, h, s, g)
  BY <1>1, <1>2, PhaseExit
<1>9. On(j, v, h, s, g)
  BY <1>7, <1>8, OnShrunk
<1> QED BY <1>4, <1>6, <1>9

\* fal has never to do with a message of another kind.
LEMMA KnownHead ==
  ASSUME NEW M, NEW c, NEW u, NEW w, NEW h, NEW s, NEW g, InPhase(M, c, u, w, h, s, g), u # <<>>
  PROVE  Known(Head(u))
<1>1. \A P : u \in Seq(P) => Head(u) \in P
  OBVIOUS
<1>2. CASE u \in Seq(NoiseIn(M))
  BY <1>1, <1>2 DEF NoiseIn, Known
<1>3. CASE u \in Seq({m \in M : Connect(m)})
  BY <1>1, <1>3 DEF Known
<1>4. CASE u \in Seq(LeftIn(M, w, h))
  BY <1>1, <1>4 DEF LeftIn
<1>5. ASSUME NEW d \in Seq(NoiseIn(M)), NEW q \in M, Request(q), u = Cat(d, <<q>>)
      PROVE  Known(Head(u))
  <2>1. d \in Seq(M)
    <3>1. NoiseIn(M) \subseteq M
      BY DEF NoiseIn
    <3> QED BY <3>1, SeqMonotonic
  <2>2. Head(u) = q \/ (d # <<>> /\ Head(u) = Head(d))
    BY <2>1, <1>5, TailOfLast
  <2>3. d # <<>> => Head(d) \in NoiseIn(M)
    OBVIOUS
  <2> QED BY <2>2, <2>3, <1>5 DEF NoiseIn, Known
<1> QED BY <1>2, <1>3, <1>4, <1>5 DEF InPhase, Asked, Answered, Requested

\* Of what it had still to take, c, dncopy takes the message m; the link is i then, and carries e.
Took(M, k, c, u, m, i, e) ==
  /\ c \in Seq(M) /\ u \in Seq(M) /\ c # <<>> /\ m = Head(c) /\ Tail(c) \in Seq(M)
  /\ Carries(M, i, e) /\ e["client"] = Tail(c) /\ e["server"] = u
  /\ i["client"].open = k["client"].open /\ i["server"].open = k["server"].open

\* A message has come for dncopy; X are messages it may say next.
LEMMA ReadOn ==
  ASSUME NEW k, NEW w, NEW h, NEW s, NEW g, On(k, w, h, s, g), CanRead(k, "client"),
         NEW m, m = NextMessage(k, "client"), NEW i, i = ReadMessage(k, "client"), NEW X
  PROVE  \E M, c, u, e : X \subseteq M /\ InPhase(M, c, u, w, h, s, g) /\ Took(M, k, c, u, m, i, e)
<1>1. PICK L, f : Carries(L, k, f) /\ InPhase(L, f["client"], f["server"], w, h, s, g)
  BY DEF On
<1> DEFINE M == L \cup X
           e == [f EXCEPT !["client"] = Tail(f["client"])]
<1>2. L \subseteq M /\ X \subseteq M
  OBVIOUS
<1> HIDE DEF M
<1>3. Carries(M, k, f) /\ InPhase(M, f["client"], f["server"], w, h, s, g)
  BY <1>1, <1>2, CarriesMore, PhaseMore
<1>4. /\ f["client"] \in Seq(M) /\ f["server"] \in Seq(M) /\ f \in [Side -> Seq(M)]
      /\ "client" \in Side /\ "server" \in Side /\ "client" # "server"
  BY <1>3, FlowsTyped
<1>5. f["client"] # <<>> /\ m = Head(f["client"])
  BY <1>3, <1>4, SomethingCame
<1>6. Carries(M, i, e) /\ SameEnds(i, k)
  BY <1>3, <1>4, ReadTakes
<1>7. e["client"] = Tail(f["client"]) /\ e["server"] = f["server"]
  BY <1>4
<1> HIDE DEF e
<1>8. i["client"].open = k["client"].open /\ i["server"].open = k["server"].open
  BY <1>4, <1>6 DEF SameEnds
<1>9. Tail(f["client"]) \in Seq(M)
  BY <1>4, <1>5
<1>10. Took(M, k, f["client"], f["server"], m, i, e)
  BY <1>4, <1>5, <1>6, <1>7, <1>8, <1>9 DEF Took
<1> QED BY <1>2, <1>3, <1>10

LEMMA ReadOpen ==
  ASSUME NEW k, NEW w, NEW h, NEW s, NEW g, On(k, w, h, s, g), CanRead(k, "client"),
         NEW i, i = ReadMessage(k, "client")
  PROVE  i["client"].open = k["client"].open /\ i["server"].open = k["server"].open
<1> DEFINE m == NextMessage(k, "client")
<1> HIDE DEF m
<1>1. PICK M, c, u, e : {} \subseteq M /\ InPhase(M, c, u, w, h, s, g) /\ Took(M, k, c, u, m, i, e)
  BY ReadOn DEF m
<1> QED BY <1>1 DEF Took

\* What dncopy makes of a message of an answer
LEMMA InEntry ==
  ASSUME NEW M, NEW c \in Seq(M), NEW u \in Seq(M), NEW w, NEW h, NEW s, NEW g,
         InPhase(M, c, u, w, h, s, g), w.pc = "entry", c # <<>>, NEW m, m = Head(c)
  PROVE  /\ Fetched(w, h)
         /\ m.t = "ACK" => Tail(c) = <<>> /\ u = <<>> /\ w.file \in DOMAIN g /\ s.st # "send"
         /\ \A v : /\ EntryPart(m) /\ v.pc = "entry" /\ v.done = w.done
                   /\ IF m.t = "NAME" THEN v.file = m.file ELSE v.file = w.file
                   => InPhase(M, Tail(c), u, v, h, s, g)
<1>1. Fetched(w, h) /\ (Asked(M, c, u) \/ Answered(M, c, u, w, s, g))
  BY DEF InPhase
<1>2. \A P : c \in Seq(P) => m \in P /\ Tail(c) \in Seq(P)
  OBVIOUS
<1>3. CASE Asked(M, c, u)
  <2>1. m \in PlainIn(M)
    BY <1>2, <1>3 DEF Asked
  <2> QED BY <2>1, <1>1 DEF PlainIn, Plain, EntryPart
<1>4. CASE Answered(M, c, u, w, s, g) /\ c \in Seq(PartIn(M, g))
  <2>1. m \in PartIn(M, g) /\ Tail(c) \in Seq(PartIn(M, g))
    BY <1>2, <1>4
  <2>2. m.t # "ACK"
    BY <2>1 DEF PartIn, Plain
  <2>3. \A v : v.pc = "entry" /\ v.done = w.done => InPhase(M, Tail(c), u, v, h, s, g)
    BY <2>1, <1>1, <1>4 DEF InPhase, Answered, Answer, Fetched, Begun
  <2> QED BY <2>2, <2>3, <1>1
<1>5. ASSUME NEW d \in Seq(PartIn(M, g)), NEW a \in M, a.t = "ACK", c = Cat(d, <<a>>),
             w.file \in DOMAIN g \/ Named(d), u = <<>>, s.st # "send"
      PROVE  /\ m.t = "ACK" => Tail(c) = <<>> /\ u = <<>> /\ w.file \in DOMAIN g /\ s.st # "send"
             /\ \A v : /\ EntryPart(m) /\ v.pc = "entry" /\ v.done = w.done
                       /\ IF m.t = "NAME" THEN v.file = m.file ELSE v.file = w.file
                       => InPhase(M, Tail(c), u, v, h, s, g)
  <2>1. d \in Seq(M)
    <3>1. PartIn(M, g) \subseteq M
      BY DEF PartIn
    <3> QED BY <3>1, SeqMonotonic
  <2>2. CASE d = <<>>
    <3>1. Head(Cat(d, <<a>>)) = a /\ Tail(Cat(d, <<a>>)) = <<>>
      BY <2>2, OnlyOne
    <3>3. m = a /\ Tail(c) = <<>>
      BY <3>1, <1>5
    <3>2. ~Named(d)
      BY <2>2 DEF Named
    <3> QED BY <3>3, <3>2, <1>5 DEF EntryPart
  <2>3. CASE d # <<>>
    <3>1. m = Head(d) /\ Tail(c) = Cat(Tail(d), <<a>>)
      BY <2>1, <2>3, <1>5, TailOfLast
    <3>2. m \in PartIn(M, g) /\ Tail(d) \in Seq(PartIn(M, g))
      BY <3>1, <2>3
    <3>3. m.t # "ACK" /\ (m.t = "NAME" => m.file \in DOMAIN g)
      BY <3>2 DEF PartIn, Plain
    <3>4. Named(d) => m.t = "NAME" \/ Named(Tail(d))
      <4>1. ASSUME NEW i \in 1..Len(d), d[i].t = "NAME", i # 1 PROVE Named(Tail(d))
        <5>1. Len(d) \in Nat /\ Len(Tail(d)) = Len(d) - 1 /\ i - 1 \in 1..(Len(d) - 1)
          BY <2>3, <4>1
        <5>2. Tail(d)[i - 1] = d[i]
          BY <2>3, <4>1, <5>1
        <5> QED BY <5>1, <5>2, <4>1 DEF Named
      <4>2. Head(d) = d[1]
        BY <2>3
      <4> QED BY <4>1, <4>2, <3>1 DEF Named
    <3>5. ASSUME NEW v, v.pc = "entry", v.done = w.done,
                 IF m.t = "NAME" THEN v.file = m.file ELSE v.file = w.file
          PROVE  InPhase(M, Tail(c), u, v, h, s, g)
      <4>1. v.file \in DOMAIN g \/ Named(Tail(d))
        BY <3>3, <3>4, <3>5, <1>5
      <4>2. Answer(M, Tail(c), g, v.file)
        BY <4>1, <3>1, <3>2, <1>5 DEF Answer
      <4> QED BY <4>2, <3>5, <1>1, <1>5 DEF InPhase, Answered, Fetched, Begun
    <3> QED BY <3>3, <3>5
  <2> QED BY <2>2, <2>3
<1> QED BY <1>1, <1>3, <1>4, <1>5 DEF Answered, Answer

LEMMA OnFacts ==
  ASSUME NEW k, NEW w, NEW h, NEW s, NEW g, On(k, w, h, s, g)
  PROVE  /\ w.pc \in {"config", "entry", "connect", "read", "exit"}
         /\ w.pc \in {"config", "entry", "connect"} => Fetched(w, h)
         /\ w.pc = "read" => Begun(w, h) \subseteq {w.file}
         /\ Begun(w, h) \subseteq DOMAIN g
BY DEF On, InPhase, Fetched

\* The file is asked for.
LEMMA ConfigOn ==
  ASSUME NEW k, NEW w, NEW h, NEW s, NEW g, On(k, w, h, s, g), k["client"].open, CanRead(k, "client"),
         w.pc = "config", NEW a, Noise(a), NEW b, Request(b),
         NEW v, v.pc = "entry", v.done = w.done,
         NEW i, i = ReadMessage(k, "client"), NEW j, j = SendBlock(i, "client", <<a, b>>)
  PROVE  On(j, v, h, s, g) /\ j["client"].open /\ j["server"].open = k["server"].open
<1> DEFINE X == {a, b}
           r == <<a, b>>
           m == NextMessage(k, "client")
<1>1. a \in X /\ b \in X
  OBVIOUS
<1> HIDE DEF X, m
<1>2. PICK M, c, u, e : X \subseteq M /\ InPhase(M, c, u, w, h, s, g) /\ Took(M, k, c, u, m, i, e)
  BY ReadOn DEF m
<1>3. /\ Carries(M, i, e) /\ e["client"] = Tail(c) /\ e["server"] = u /\ c # <<>>
      /\ u \in Seq(M) /\ i["client"].open = k["client"].open /\ i["server"].open = k["server"].open
  BY <1>2 DEF Took
<1>4. a \in M /\ b \in M
  BY <1>1, <1>2
<1>5. r \in Seq(M) /\ Cat(u, r) = Cat(Cat(u, <<a>>), <<b>>)
  <2> DEFINE A == <<a>>
  <2>1. A \in Seq(M) /\ <<b>> \in Seq(M) /\ r \in Seq(M) /\ Len(A) = 1 /\ A[1] = a
    BY <1>4
  <2>2. Len(r) = 2 /\ r[1] = a /\ r[2] = b
    OBVIOUS
  <2> HIDE DEF A, r
  <2>5. /\ Append(A, b) \in Seq(M) /\ Len(Append(A, b)) = 2
        /\ Append(A, b)[1] = a /\ Append(A, b)[2] = b
    <3>2. A \in Seq(M) /\ b \in M
      BY <2>1, <1>4
    <3>1. /\ Append(A, b) \in Seq(M) /\ Len(Append(A, b)) = Len(A) + 1
          /\ \A x \in 1..Len(A) : Append(A, b)[x] = A[x]
          /\ Append(A, b)[Len(A) + 1] = b
      BY ONLY <3>2, AppendProperties
    <3> QED BY <3>1, <2>1
  <2>6. \A x \in 1..2 : Append(A, b)[x] = r[x]
    BY <2>2, <2>5
  <2>7. Append(A, b) = r
    BY <2>1, <2>2, <2>5, <2>6, SeqEqual
  <2>8. Append(A, b) = Cat(A, <<b>>)
    BY <2>1, <1>4, Join
  <2>3. \A x, y, z \in Seq(M) : Cat(Cat(x, y), z) = Cat(x, Cat(y, z))
    BY Join
  <2>4. Cat(Cat(u, <<a>>), <<b>>) = Cat(u, Cat(<<a>>, <<b>>))
    <3> DEFINE B == <<b>>
    <3>1. A \in Seq(M) /\ B \in Seq(M) /\ u \in Seq(M)
      BY <2>1, <1>3
    <3> HIDE DEF B
    <3>2. Cat(Cat(u, A), B) = Cat(u, Cat(A, B))
      BY ONLY <3>1, <2>3
    <3> QED BY <3>2 DEF A, B
  <2> QED BY <2>1, <2>4, <2>7, <2>8 DEF A
<1> HIDE DEF r
<1>6. Says(M, i, e, j, "client", r)
  <2>1. "client" \in Side
    BY DEF Side
  <2> QED BY <2>1, <1>3, <1>5, SendBlockSays DEF r
<1>7. w.pc = "config" /\ Fetched(w, h) /\ u \in Seq(NoiseIn(M)) /\ c \in Seq(PlainIn(M))
  BY <1>2 DEF InPhase
<1>8. Requested(M, Cat(u, r))
  <2>1. a \in NoiseIn(M)
    BY <1>4 DEF NoiseIn
  <2>2. Cat(u, <<a>>) \in Seq(NoiseIn(M))
    BY <2>1, <1>7, TailOfLast
  <2> QED BY <2>2, <1>4, <1>5 DEF Requested
<1>9. Tail(c) \in Seq(PlainIn(M))
  BY <1>7, <1>3
<1>10. InPhase(M, Tail(c), Cat(u, r), v, h, s, g)
  BY <1>7, <1>8, <1>9 DEF InPhase, Asked, Fetched, Begun
<1>11. InPhase(M, e["client"], Cat(e["server"], r), v, h, s, g)
  BY <1>3, <1>10
<1>12. On(j, v, h, s, g) /\ j["client"].open = i["client"].open /\ j["server"].open = i["server"].open
  <2>1. /\ Carries(M, i, e) /\ r \in Seq(M) /\ Says(M, i, e, j, "client", r)
        /\ InPhase(M, e["client"], Cat(e["server"], r), v, h, s, g)
    BY <1>3, <1>5, <1>6, <1>11
  <2> QED BY ONLY <2>1, OnSaid
<1> QED BY <1>3, <1>12

\* A part of the answer, and the ACK, after which the file is connected.
LEMMA EntryOn ==
  ASSUME NEW k, NEW w, NEW h, NEW s, NEW g, On(k, w, h, s, g), k["client"].open, CanRead(k, "client"),
         w.pc = "entry", NEW m, m = NextMessage(k, "client"), NEW i, i = ReadMessage(k, "client"),
         NEW v, v.done = w.done
  PROVE  /\ /\ EntryPart(m) /\ v.pc = "entry"
            /\ IF m.t = "NAME" THEN v.file = m.file ELSE v.file = w.file
            => On(i, v, h, s, g)
         /\ \A x : /\ m.t = "ACK" /\ v.pc = "connect" /\ v.file = w.file /\ Connect(x)
                   => On(Write(i, "client", x), v, h, s, g) /\ SameEnds(Write(i, "client", x), i)
         /\ i["client"].open /\ i["server"].open = k["server"].open
<1>1. ASSUME NEW X
      PROVE  \E M, c, u, e : X \subseteq M /\ InPhase(M, c, u, w, h, s, g) /\ Took(M, k, c, u, m, i, e)
  BY ReadOn
<1>2. PICK M, c, u, e : InPhase(M, c, u, w, h, s, g) /\ Took(M, k, c, u, m, i, e)
  BY <1>1
<1>3. i["client"].open /\ i["server"].open = k["server"].open
  BY <1>2 DEF Took
<1>4. ASSUME EntryPart(m), v.pc = "entry",
             IF m.t = "NAME" THEN v.file = m.file ELSE v.file = w.file
      PROVE  On(i, v, h, s, g)
  <2>1. c \in Seq(M) /\ u \in Seq(M) /\ c # <<>> /\ m = Head(c)
    BY <1>2 DEF Took
  <2>2. InPhase(M, Tail(c), u, v, h, s, g)
    BY <2>1, <1>2, <1>4, InEntry
  <2> QED BY <2>2, <1>2 DEF On, Took
<1>5. ASSUME NEW x, m.t = "ACK", v.pc = "connect", v.file = w.file, Connect(x)
      PROVE  On(Write(i, "client", x), v, h, s, g) /\ SameEnds(Write(i, "client", x), i)
  <2> DEFINE X == {x}
             j == Write(i, "client", x)
             r == <<x>>
  <2>1. x \in X
    OBVIOUS
  <2> HIDE DEF X
  <2>2. PICK N, d, y, z : X \subseteq N /\ InPhase(N, d, y, w, h, s, g) /\ Took(N, k, d, y, m, i, z)
    BY <1>1
  <2>3. /\ d \in Seq(N) /\ y \in Seq(N) /\ d # <<>> /\ m = Head(d)
        /\ Carries(N, i, z) /\ z["client"] = Tail(d) /\ z["server"] = y
    BY <2>2 DEF Took
  <2>4. Fetched(w, h) /\ Tail(d) = <<>> /\ y = <<>> /\ w.file \in DOMAIN g /\ s.st # "send"
    BY <2>2, <2>3, <1>5, InEntry
  <2>5. x \in N /\ <<>> \in Seq(N) /\ Cat(<<>>, r) = r /\ r \in Seq(N)
    <3>1. x \in N
      BY <2>1, <2>2
    <3>2. \A q \in Seq(N) : Cat(<<>>, q) = q
      BY Join
    <3>3. r \in Seq(N) /\ <<>> \in Seq(N)
      BY <3>1
    <3> QED BY <3>1, <3>2, <3>3
  <2>6. r \in Seq({q \in N : Connect(q)}) /\ Len(r) + Len(<<>>) <= 1
    BY <2>5, <1>5
  <2>7. Says(N, i, z, j, "client", r)
    <3>1. "client" \in Side
      BY DEF Side
    <3> QED BY <3>1, <2>3, <2>5, <1>3, WriteSays
  <2> HIDE DEF j, r
  <2>8. InPhase(N, <<>>, r, v, h, s, g)
    BY <2>4, <2>5, <2>6, <1>5 DEF InPhase, Fetched, Begun
  <2>9. InPhase(N, z["client"], Cat(z["server"], r), v, h, s, g)
    BY <2>3, <2>4, <2>5, <2>8
  <2>10. On(j, v, h, s, g)
    BY <2>3, <2>5, <2>7, <2>9, OnSaid
  <2>11. SameEnds(j, i)
    BY <2>7 DEF Says
  <2> QED BY <2>10, <2>11 DEF j
<1> QED BY <1>3, <1>4, <1>5

\* The CONNECT is answered: the records are asked for.
LEMMA ConnectOn ==
  ASSUME NEW k, NEW w, NEW h, NEW s, NEW g, On(k, w, h, s, g), k["client"].open, CanRead(k, "client"),
         w.pc = "connect", NEW i, i = ReadMessage(k, "client"), NEW x, Noise(x),
         NEW v, v.pc = "read", v.done = w.done, v.file = w.file,
         NEW l, DOMAIN l \subseteq DOMAIN h \cup {w.file}
  PROVE  On(Write(i, "client", x), v, l, s, g) /\ SameEnds(Write(i, "client", x), i)
<1> DEFINE X == {x}
           m == NextMessage(k, "client")
           j == Write(i, "client", x)
           r == <<x>>
<1>1. x \in X
  OBVIOUS
<1> HIDE DEF X, m
<1>2. PICK M, c, u, e : X \subseteq M /\ InPhase(M, c, u, w, h, s, g) /\ Took(M, k, c, u, m, i, e)
  BY ReadOn DEF m
<1>3. /\ c \in Seq(M) /\ u \in Seq(M) /\ c # <<>> /\ Carries(M, i, e) /\ e["client"] = Tail(c) /\ e["server"] = u
      /\ i["client"].open = k["client"].open /\ i["server"].open = k["server"].open
  BY <1>2 DEF Took
<1>4. /\ Fetched(w, h) /\ w.file \in DOMAIN g /\ Len(u) + Len(c) <= 1
  BY <1>2 DEF InPhase
<1>5. u = <<>> /\ Tail(c) = <<>>
  <2>1. Len(c) \in Nat /\ Len(u) \in Nat /\ Len(c) > 0 /\ Len(Tail(c)) = Len(c) - 1 /\ Tail(c) \in Seq(M)
    BY <1>3
  <2>2. Len(u) = 0 /\ Len(Tail(c)) = 0
    BY <2>1, <1>4
  <2> QED BY <2>1, <2>2, <1>3
<1>6. x \in M
  BY <1>1, <1>2
<1>7. r \in Seq(M) /\ r \in Seq(NoiseIn(M)) /\ Cat(<<>>, r) = r /\ <<>> \in Seq(PlainIn(M))
  <2>1. x \in NoiseIn(M)
    BY <1>6 DEF NoiseIn
  <2>2. \A q \in Seq(M) : Cat(<<>>, q) = q
    BY Join
  <2> QED BY <2>1, <2>2, <1>6
<1>8. Says(M, i, e, j, "client", r)
  <2>1. "client" \in Side
    BY DEF Side
  <2> QED BY <2>1, <1>3, <1>6, WriteSays
<1> HIDE DEF j, r
<1>9. Begun(v, l) \subseteq {v.file}
  BY <1>4 DEF Fetched, Begun
<1>10. InPhase(M, <<>>, r, v, l, s, g)
  BY <1>4, <1>7, <1>9 DEF InPhase
<1>11. InPhase(M, e["client"], Cat(e["server"], r), v, l, s, g)
  BY <1>3, <1>5, <1>7, <1>10
<1>12. On(j, v, l, s, g)
  BY <1>3, <1>7, <1>8, <1>11, OnSaid
<1>13. SameEnds(j, i)
  BY <1>8 DEF Says
<1> QED BY <1>12, <1>13 DEF j

\* A record is taken, or what says that there are more.
LEMMA RecordOn ==
  ASSUME NEW k, NEW w, NEW h, NEW s, NEW g, On(k, w, h, s, g), k["client"].open, CanRead(k, "client"),
         w.pc = "read", NEW i, i = ReadMessage(k, "client"), NEW l, DOMAIN l = DOMAIN h
  PROVE  On(i, w, l, s, g) /\ i["client"].open /\ i["server"].open = k["server"].open
<1> DEFINE m == NextMessage(k, "client")
<1> HIDE DEF m
<1>1. PICK M, c, u, e : {} \subseteq M /\ InPhase(M, c, u, w, h, s, g) /\ Took(M, k, c, u, m, i, e)
  BY ReadOn DEF m
<1>2. /\ c \in Seq(M) /\ u \in Seq(M) /\ c # <<>> /\ Carries(M, i, e) /\ e["client"] = Tail(c) /\ e["server"] = u
      /\ i["client"].open = k["client"].open /\ i["server"].open = k["server"].open
  BY <1>1 DEF Took
<1>3. /\ Begun(w, h) \subseteq {w.file} /\ w.file \in DOMAIN g
      /\ u \in Seq(NoiseIn(M)) /\ c \in Seq(PlainIn(M))
  BY <1>1 DEF InPhase
<1>4. Tail(c) \in Seq(PlainIn(M))
  BY <1>2, <1>3
<1>5. InPhase(M, e["client"], e["server"], w, l, s, g)
  BY <1>2, <1>3, <1>4 DEF InPhase, Begun
<1> QED BY <1>2, <1>5 DEF On

LEMMA MoreOn ==
  ASSUME NEW k, NEW w, NEW h, NEW s, NEW g, On(k, w, h, s, g), k["client"].open,
         w.pc = "read", NEW x, Noise(x)
  PROVE  On(Write(k, "client", x), w, h, s, g) /\ SameEnds(Write(k, "client", x), k)
<1>1. PICK L, f : Carries(L, k, f) /\ InPhase(L, f["client"], f["server"], w, h, s, g)
  BY DEF On
<1> DEFINE M == L \cup {x}
           j == Write(k, "client", x)
           r == <<x>>
<1>2. L \subseteq M /\ x \in M
  OBVIOUS
<1> HIDE DEF M
<1>3. Carries(M, k, f) /\ InPhase(M, f["client"], f["server"], w, h, s, g)
  BY <1>1, <1>2, CarriesMore, PhaseMore
<1>4. r \in Seq(M) /\ x \in NoiseIn(M) /\ "client" \in Side
  BY <1>2 DEF NoiseIn, Side
<1>5. Says(M, k, f, j, "client", r)
  BY <1>2, <1>3, <1>4, WriteSays
<1>6. /\ Begun(w, h) \subseteq {w.file} /\ w.file \in DOMAIN g
      /\ f["server"] \in Seq(NoiseIn(M)) /\ f["client"] \in Seq(PlainIn(M))
  BY <1>3 DEF InPhase
<1>7. Cat(f["server"], r) \in Seq(NoiseIn(M))
  BY <1>4, <1>6, TailOfLast
<1> HIDE DEF j, r
<1>8. InPhase(M, f["client"], Cat(f["server"], r), w, h, s, g)
  BY <1>6, <1>7 DEF InPhase
<1>9. On(j, w, h, s, g)
  BY <1>3, <1>4, <1>5, <1>8, OnSaid
<1>10. SameEnds(j, k)
  BY <1>5 DEF Says
<1> QED BY <1>9, <1>10 DEF j

\* The file is closed, and removed with -D: it is stored to its end, or was never begun.
LEMMA CloseOn ==
  ASSUME NEW k, NEW w, NEW h, NEW s, NEW g, On(k, w, h, s, g), k["client"].open,
         w.pc = "read", NEW x, Request(x), NEW v, v.pc = "entry", Fetched(v, h)
  PROVE  On(Reply(k, "client", x), v, h, s, g) /\ SameEnds(Reply(k, "client", x), k)
<1>1. PICK L, f : Carries(L, k, f) /\ InPhase(L, f["client"], f["server"], w, h, s, g)
  BY DEF On
<1> DEFINE M == L \cup {x}
           j == Reply(k, "client", x)
           r == <<x>>
<1>2. L \subseteq M /\ x \in M
  OBVIOUS
<1> HIDE DEF M
<1>3. Carries(M, k, f) /\ InPhase(M, f["client"], f["server"], w, h, s, g)
  BY <1>1, <1>2, CarriesMore, PhaseMore
<1>4. r \in Seq(M) /\ "client" \in Side
  BY <1>2 DEF Side
<1>5. Says(M, k, f, j, "client", r)
  BY <1>2, <1>3, <1>4, ReplySays
<1>6. f["server"] \in Seq(NoiseIn(M)) /\ f["client"] \in Seq(PlainIn(M))
  BY <1>3 DEF InPhase
<1>7. Requested(M, Cat(f["server"], r))
  BY <1>2, <1>6 DEF Requested
<1> HIDE DEF j, r
<1>8. InPhase(M, f["client"], Cat(f["server"], r), v, h, s, g)
  BY <1>6, <1>7 DEF InPhase, Asked
<1>9. On(j, v, h, s, g)
  BY <1>3, <1>4, <1>5, <1>8, OnSaid
<1>10. SameEnds(j, k)
  BY <1>5 DEF Says
<1> QED BY <1>9, <1>10 DEF j

-----------------------------------------------------------------------------
(***************************************************************************)
(* The invariant: while files are fetched the main link is the only one,   *)
(* and it is at the phase of dncopy; dncopy and fal are there as long as   *)
(* their ends are open.                                                    *)
(***************************************************************************)
UserFields == {"cmd", "pc", "todo", "file", "rest", "rfm", "cr", "opened", "refused", "done", "said",
               "ret", "code"}

GetLink(k, w, h, s, g) ==
  /\ On(k, w, h, s, g) /\ FalOK(s)
  /\ k["client"].open <=> w.pc # "exit"
  /\ k["server"].open <=> s.st # "gone"

Fetching ==
  /\ conn = [l \in Link |-> conn[l]] /\ srv = [l \in Link |-> srv[l]]
  /\ \A l \in Link \ {MainLink} : srv[l].st = "gone"
  /\ GetLink(conn[MainLink], user, local, srv[MainLink], fs)

\* A process of the user with its fields, which works on the files of its command
FAInv ==
  /\ DOMAIN user = UserFields
  /\ Prog({"get"}) /\ Undisturbed => Fetching

LEMMA GoesOn ==
  ASSUME Fetching, UNCHANGED falVars, NEW k, NEW v, Goes(MainLink, k, v),
         On(k, v, local', srv[MainLink], fs), v.pc # "exit",
         k["client"].open, k["server"].open = conn[MainLink]["server"].open
  PROVE  Fetching'
<1>1. conn' = [conn EXCEPT ![MainLink] = k] /\ user' = v /\ srv' = srv /\ fs' = fs
  BY DEF Goes, falVars
<1>2. conn'[MainLink] = k /\ conn' = [l \in Link |-> conn'[l]]
  BY <1>1, LinkAssumption DEF Fetching
<1>3. GetLink(k, v, local', srv[MainLink], fs)
  BY DEF Fetching, GetLink
<1> QED BY <1>1, <1>2, <1>3 DEF Fetching, GetLink, On

LEMMA ExitsThen ==
  ASSUME Fetching, UNCHANGED falVars, NEW c, NEW v, NEW code, Exits(c, v, code, FALSE),
         DOMAIN v = UserFields, NEW w, w.done \subseteq v.done,
         On(c[MainLink], w, local', srv[MainLink], fs), c[MainLink]["client"].open,
         c[MainLink]["server"].open = conn[MainLink]["server"].open
  PROVE  Fetching'
<1> DEFINE k == c[MainLink]
           j == Close(ClearOutputBuffer(k, "client"), "client")
           u == [v EXCEPT !.pc = "exit", !.code = code]
<1>1. user' = u /\ srv' = srv /\ fs' = fs
  BY DEF Exits, falVars
<1>2. conn' = [l \in Link |-> Close(ClearOutputBuffer(c[l], "client"), "client")]
  BY DEF Exits
<1>3. conn'[MainLink] = j /\ conn' = [l \in Link |-> conn'[l]]
  BY <1>2, LinkAssumption
<1>4. u.pc = "exit" /\ u.done = v.done
  BY DEF UserFields
<1> HIDE DEF j, u
<1>5. On(j, u, local', srv[MainLink], fs) /\ ~j["client"].open /\ j["server"].open = k["server"].open
  BY <1>4, OnGone DEF j
<1>6. GetLink(j, u, local', srv[MainLink], fs)
  BY <1>4, <1>5 DEF Fetching, GetLink
<1> QED BY <1>1, <1>3, <1>6 DEF Fetching, GetLink, On

LEMMA ReplyCame ==
  ASSUME TheReply(MainLink).t # "none"
  PROVE  /\ CanRead(conn[MainLink], "client")
         /\ TheReply(MainLink) = NextMessage(conn[MainLink], "client")
         /\ Got(MainLink) = ReadMessage(conn[MainLink], "client")
BY DEF TheReply, Got

LEMMA ConfigKeeps ==
  ASSUME Fetching, DOMAIN user = UserFields, GetConfig, UNCHANGED <<local, falVars>>
  PROVE  Fetching'
<1> DEFINE k == conn[MainLink]
           s == srv[MainLink]
           i == ReadMessage(k, "client")
           a == Attrib("var", FALSE)
           b == Access("open", user.cmd, {"main", "name"})
           j == SendBlock(i, "client", <<a, b>>)
           v == [user EXCEPT !.pc = "entry"]
<1>1. /\ On(k, user, local, s, fs) /\ user.pc = "config" /\ k["client"].open
      /\ k["client"].open <=> user.pc # "exit"
  BY DEF GetConfig, CopyReply, Fetching, GetLink
<1>2. CASE CopyMsg.t = "CONFIG"
  <2>1. CanRead(k, "client") /\ CopyGot = i
    BY <1>2, ReplyCame DEF CopyMsg, CopyGot
  <2>2. Goes(MainLink, j, v)
    BY <1>2, <2>1 DEF GetConfig, CopyGoes
  <2>3. Noise(a) /\ Request(b)
    BY DEF Noise, Request, Attrib, Access
  <2>4. v.pc = "entry" /\ v.done = user.done
    BY DEF UserFields
  <2> HIDE DEF k, s, i, a, b, j, v
  <2>5. On(j, v, local, s, fs) /\ j["client"].open /\ j["server"].open = k["server"].open
    BY <1>1, <2>1, <2>3, <2>4, ConfigOn DEF i, j
  <2> QED BY <2>2, <2>4, <2>5, GoesOn DEF k, s
<1>3. CASE CopyMsg.t # "CONFIG"
  <2> DEFINE u == Complains(user)
  <2>1. Exits(conn, u, 1, FALSE)
    BY <1>3 DEF GetConfig, CopyReturns
  <2>2. DOMAIN u = UserFields /\ u.done = user.done
    BY DEF Complains, UserFields
  <2> HIDE DEF u
  <2> QED BY <1>1, <2>1, <2>2, ExitsThen
<1> QED BY <1>2, <1>3

LEMMA EntryKeeps ==
  ASSUME Fetching, DOMAIN user = UserFields, GetEntry, UNCHANGED <<local, falVars>>
  PROVE  Fetching'
<1> DEFINE k == conn[MainLink]
           s == srv[MainLink]
           i == ReadMessage(k, "client")
           m == CopyMsg
<1>1. /\ On(k, user, local, s, fs) /\ user.pc = "entry" /\ k["client"].open
  BY DEF GetEntry, CopyReply, Fetching, GetLink
<1>2. CASE EntryPart(m)
  <2> DEFINE v == NoteEntry(user, m)
  <2>1. CanRead(k, "client") /\ m = NextMessage(k, "client") /\ CopyGot = i
    BY <1>2, ReplyCame DEF CopyMsg, CopyGot, EntryPart
  <2>2. Goes(MainLink, i, v)
    BY <1>2, <2>1 DEF GetEntry, CopyGoes
  <2>3. /\ v.pc = "entry" /\ v.done = user.done
        /\ IF m.t = "NAME" THEN v.file = m.file ELSE v.file = user.file
    <3>1. CASE m.t = "NAME"
      <4>1. v = [user EXCEPT !.file = m.file]
        BY <3>1 DEF NoteEntry
      <4> QED BY <4>1, <3>1, <1>1 DEF UserFields
    <3>2. CASE m.t = "ATTRIB"
      <4>1. v = [user EXCEPT !.rfm = m.rfm, !.cr = m.cr]
        BY <3>2 DEF NoteEntry
      <4> QED BY <4>1, <3>2, <1>1 DEF UserFields
    <3> QED BY <3>1, <3>2, <1>2 DEF EntryPart
  <2> HIDE DEF k, s, i, m, v
  <2>4. On(i, v, local, s, fs) /\ i["client"].open /\ i["server"].open = k["server"].open
    BY <1>1, <1>2, <2>1, <2>3, EntryOn DEF i
  <2> QED BY <2>2, <2>3, <2>4, GoesOn DEF k, s
<1>3. CASE m.t = "ACK"
  <2> DEFINE v == [user EXCEPT !.pc = "connect"]
             x == Control("connect", "none")
             j == Write(i, "client", x)
  <2>1. CanRead(k, "client") /\ m = NextMessage(k, "client") /\ CopyGot = i
    BY <1>3, ReplyCame DEF CopyMsg, CopyGot
  <2>2. Goes(MainLink, j, v)
    BY <1>3, <2>1 DEF GetEntry, CopyGoes, SendConnect, EntryPart
  <2>3. v.pc = "connect" /\ v.done = user.done /\ v.file = user.file /\ Connect(x)
    BY DEF UserFields, Connect, Control
  <2> HIDE DEF k, s, i, m, v, x, j
  <2>4. i["client"].open /\ i["server"].open = k["server"].open
    BY <1>1, <2>1, <2>3, EntryOn DEF i
  <2>5. On(j, v, local, s, fs) /\ SameEnds(j, i)
    BY <1>1, <1>3, <2>1, <2>3, EntryOn DEF i, j
  <2>6. j["client"].open /\ j["server"].open = k["server"].open
    BY <2>4, <2>5 DEF SameEnds, Side
  <2> QED BY <2>2, <2>3, <2>5, <2>6, GoesOn DEF k, s
<1>4. CASE ~EntryPart(m) /\ m.t # "ACK"
  <2>1. \/ Exits(conn, user, 0, FALSE)
        \/ \E code : Exits(conn, Complains(user), code, FALSE)
    BY <1>4 DEF GetEntry, CopyReturns
  <2>2. CASE Exits(conn, user, 0, FALSE)
    BY <1>1, <2>2, ExitsThen
  <2>3. ASSUME NEW code, Exits(conn, Complains(user), code, FALSE) PROVE Fetching'
    <3> DEFINE u == Complains(user)
    <3>1. DOMAIN u = UserFields /\ u.done = user.done /\ Exits(conn, u, code, FALSE)
      BY <2>3 DEF Complains, UserFields
    <3> HIDE DEF u
    <3> QED BY <1>1, <3>1, ExitsThen
  <2> QED BY <2>1, <2>2, <2>3
<1> QED BY <1>2, <1>3, <1>4

\* The link is at the beginning of the next file, if there is one.
LEMMA NextKeeps ==
  ASSUME Fetching, UNCHANGED falVars, NEW k, NEW u, DOMAIN u = UserFields, NextFile(k, u),
         \A v : v.pc = "entry" /\ v.done = u.done => On(k, v, local', srv[MainLink], fs),
         k["client"].open, k["server"].open = conn[MainLink]["server"].open
  PROVE  Fetching'
<1> DEFINE v == [u EXCEPT !.pc = "entry", !.opened = TRUE]
           c == [conn EXCEPT ![MainLink] = k]
<1>1. v.pc = "entry" /\ v.done = u.done
  BY DEF UserFields
<1>2. c[MainLink] = k
  BY LinkAssumption DEF Fetching
<1>3. Goes(MainLink, k, v) \/ Exits(c, u, 0, FALSE)
  BY DEF NextFile, CopyGoes
<1> HIDE DEF v, c
<1>4. On(k, v, local', srv[MainLink], fs)
  BY <1>1
<1>5. CASE Goes(MainLink, k, v)
  BY <1>1, <1>4, <1>5, GoesOn
<1>6. CASE Exits(c, u, 0, FALSE)
  BY <1>1, <1>2, <1>4, <1>6, ExitsThen
<1> QED BY <1>3, <1>5, <1>6

\* The file is closed, all that was begun being stored.
LEMMA CloseKeeps ==
  ASSUME Fetching, UNCHANGED <<local, falVars>>, user.pc # "exit",
         NEW k, NEW w, On(k, w, local, srv[MainLink], fs), w.pc = "read",
         k["client"].open, k["server"].open = conn[MainLink]["server"].open,
         NEW u, DOMAIN u = UserFields, Fetched(u, local)
  PROVE  /\ user.done \subseteq u.done /\ CloseInput(k, u) => Fetching'
         /\ \A x : Request(x) /\ NextFile(Reply(k, "client", x), u) => Fetching'
         /\ \A x, code : /\ Request(x)
                         /\ Exits([conn EXCEPT ![MainLink] = Reply(k, "client", x)], u, code, FALSE)
                         => Fetching'
<1>1. ASSUME NEW x, Request(x), NEW j, j = Reply(k, "client", x)
      PROVE  /\ \A v : v.pc = "entry" /\ v.done = u.done => On(j, v, local, srv[MainLink], fs)
             /\ j["client"].open /\ j["server"].open = conn[MainLink]["server"].open
  <2>1. ASSUME NEW v, v.pc = "entry", v.done = u.done
        PROVE  On(j, v, local, srv[MainLink], fs)
    <3>1. Fetched(v, local)
      BY <2>1 DEF Fetched, Begun
    <3> QED BY <3>1, <2>1, <1>1, CloseOn
  <2> DEFINE v == [pc |-> "entry", done |-> u.done]
  <2>2. v.pc = "entry" /\ Fetched(v, local)
    BY DEF Fetched, Begun
  <2> HIDE DEF v
  <2>3. SameEnds(j, k)
    BY <2>2, <1>1, CloseOn
  <2>4. j["client"].open /\ j["server"].open = conn[MainLink]["server"].open
    BY <2>3 DEF SameEnds, Side
  <2> QED BY <2>1, <2>4
<1>2. ASSUME NEW x, Request(x), NextFile(Reply(k, "client", x), u) PROVE Fetching'
  <2> DEFINE j == Reply(k, "client", x)
  <2>1. /\ \A v : v.pc = "entry" /\ v.done = u.done => On(j, v, local, srv[MainLink], fs)
        /\ j["client"].open /\ j["server"].open = conn[MainLink]["server"].open
    BY <1>1, <1>2
  <2>2. NextFile(j, u)
    BY <1>2
  <2> HIDE DEF j
  <2> QED BY <2>1, <2>2, NextKeeps
<1>3. ASSUME NEW x, NEW code, Request(x),
             Exits([conn EXCEPT ![MainLink] = Reply(k, "client", x)], u, code, FALSE)
      PROVE  Fetching'
  <2> DEFINE j == Reply(k, "client", x)
             v == [pc |-> "entry", done |-> u.done]
             c == [conn EXCEPT ![MainLink] = j]
  <2>1. v.pc = "entry" /\ v.done = u.done
    OBVIOUS
  <2>2. /\ \A q : q.pc = "entry" /\ q.done = u.done => On(j, q, local, srv[MainLink], fs)
        /\ j["client"].open /\ j["server"].open = conn[MainLink]["server"].open
    BY <1>1, <1>3
  <2>3. c[MainLink] = j
    BY LinkAssumption DEF Fetching
  <2>4. Exits(c, u, code, FALSE)
    BY <1>3
  <2> HIDE DEF j, v, c
  <2>5. On(j, v, local, srv[MainLink], fs)
    BY <2>1, <2>2
  <2> QED BY <2>1, <2>2, <2>3, <2>4, <2>5, ExitsThen
<1>4. ASSUME user.done \subseteq u.done, CloseInput(k, u) PROVE Fetching'
  <2>1. CASE WriteFails(k, "client")
    <3> DEFINE v == Complains(u)
    <3>1. DOMAIN v = UserFields /\ v.done = u.done
      BY DEF Complains, UserFields
    <3>2. Exits(conn, v, 3, FALSE)
      BY <2>1, <1>4 DEF CloseInput, CopyReturns
    <3>3. On(conn[MainLink], user, local, srv[MainLink], fs) /\ conn[MainLink]["client"].open
      BY DEF Fetching, GetLink
    <3> HIDE DEF v
    <3> QED BY <3>1, <3>2, <3>3, <1>4, ExitsThen
  <2>2. CASE ~WriteFails(k, "client")
    <3> DEFINE x == Accomp("close", user.cmd.fop)
    <3>1. Request(x)
      BY DEF Request, Accomp
    <3>2. NextFile(Reply(k, "client", x), u)
      BY <2>2, <1>4 DEF CloseInput, SendClose
    <3> HIDE DEF x
    <3> QED BY <3>1, <3>2, <1>2
  <2> QED BY <2>1, <2>2
<1> QED BY <1>2, <1>3, <1>4

\* The link as it is when the records are asked for, whether the file has been begun or not.
LEMMA ConnectedLink ==
  ASSUME Fetching, DOMAIN user = UserFields, CopyReply("get", "connect"), IsReply(CopyMsg),
         NEW k, k = Write(CopyGot, "client", Control("get", "seqft")),
         NEW w, w.pc = "read", w.done = user.done, w.file = user.file,
         NEW l, DOMAIN l \subseteq DOMAIN local \cup {user.file}
  PROVE  /\ On(k, w, l, srv[MainLink], fs)
         /\ k["client"].open /\ k["server"].open = conn[MainLink]["server"].open
<1> DEFINE q == conn[MainLink]
           i == ReadMessage(q, "client")
           x == Control("get", "seqft")
<1>1. On(q, user, local, srv[MainLink], fs) /\ user.pc = "connect" /\ q["client"].open
  BY DEF CopyReply, Fetching, GetLink
<1>2. CanRead(q, "client") /\ k = Write(i, "client", x)
  <2>1. CopyMsg.t # "none"
    BY DEF IsReply, Success
  <2> QED BY <2>1, ReplyCame DEF CopyMsg, CopyGot
<1>3. Noise(x)
  BY DEF Noise, Control
<1> HIDE DEF q, i, x
<1>4. On(Write(i, "client", x), w, l, srv[MainLink], fs) /\ SameEnds(Write(i, "client", x), i)
  <2> DEFINE u == user
             h == local
             s == srv[MainLink]
             g == fs
  <2>1. /\ On(q, u, h, s, g) /\ u.pc = "connect" /\ q["client"].open /\ CanRead(q, "client")
        /\ DOMAIN l \subseteq DOMAIN h \cup {u.file} /\ w.pc = "read" /\ w.done = u.done /\ w.file = u.file
        /\ i = ReadMessage(q, "client")
    BY <1>1, <1>2 DEF i
  <2> HIDE DEF u, h, s, g
  <2>2. On(Write(i, "client", x), w, l, s, g)
    BY ONLY <2>1, <1>3, ConnectOn
  <2>3. SameEnds(Write(i, "client", x), i)
    BY ONLY <2>1, <1>3, ConnectOn
  <2> QED BY <2>2, <2>3 DEF s, g
<1>5. i["client"].open = q["client"].open /\ i["server"].open = q["server"].open
  <2> DEFINE u == user
             h == local
             s == srv[MainLink]
             g == fs
  <2>1. On(q, u, h, s, g) /\ CanRead(q, "client") /\ i = ReadMessage(q, "client")
    BY <1>1, <1>2 DEF i
  <2> HIDE DEF u, h, s, g
  <2> QED BY ONLY <2>1, ReadOpen
<1> QED BY <1>1, <1>2, <1>4, <1>5 DEF SameEnds, Side, q

LEMMA ConnectedKeeps ==
  ASSUME Fetching, DOMAIN user = UserFields, GetConnected, UNCHANGED falVars
  PROVE  Fetching'
<1> DEFINE k == Write(CopyGot, "client", Control("get", "seqft"))
           v == [user EXCEPT !.pc = "read"]
           h == [n \in DOMAIN local \cup {user.file} |-> IF n = user.file THEN <<>> ELSE local[n]]
           u == [user EXCEPT !.refused = @ \cup {user.file}]
           e == Complains(user)
<1>1. /\ CopyReply("get", "connect") /\ user.pc # "exit"
      /\ On(conn[MainLink], user, local, srv[MainLink], fs) /\ conn[MainLink]["client"].open
  BY DEF GetConnected, CopyReply, Fetching, GetLink
<1>2. /\ v.pc = "read" /\ v.done = user.done /\ v.file = user.file
      /\ DOMAIN u = UserFields /\ u.done = user.done /\ DOMAIN e = UserFields /\ e.done = user.done
  BY DEF UserFields, Complains
<1>3. DOMAIN h \subseteq DOMAIN local \cup {user.file} /\ DOMAIN local \subseteq DOMAIN local \cup {user.file}
  OBVIOUS
<1>4. \/ Exits(conn, e, 1, FALSE) /\ local' = local
      \/ IsReply(CopyMsg) /\ Goes(MainLink, k, v) /\ local' = h
      \/ IsReply(CopyMsg) /\ CloseInput(k, u) /\ local' = local
  BY DEF GetConnected, CopyReturns, CopyGoes
<1> HIDE DEF k, v, h, u, e
<1>5. CASE Exits(conn, e, 1, FALSE) /\ local' = local
  BY <1>1, <1>2, <1>5, ExitsThen
<1>6. CASE IsReply(CopyMsg) /\ Goes(MainLink, k, v) /\ local' = h
  <2>1. /\ On(k, v, h, srv[MainLink], fs)
        /\ k["client"].open /\ k["server"].open = conn[MainLink]["server"].open
    BY <1>1, <1>2, <1>3, <1>6, ConnectedLink DEF k
  <2> QED BY <2>1, <1>2, <1>6, GoesOn
<1>7. CASE IsReply(CopyMsg) /\ CloseInput(k, u) /\ local' = local
  <2>1. /\ On(k, v, local, srv[MainLink], fs)
        /\ k["client"].open /\ k["server"].open = conn[MainLink]["server"].open
    BY <1>1, <1>2, <1>3, <1>7, ConnectedLink DEF k
  <2>2. Fetched(u, local)
    <3>1. Fetched(user, local)
      BY <1>1, OnFacts DEF CopyReply
    <3> QED BY <3>1, <1>2 DEF Fetched, Begun
  <2> QED BY <2>1, <2>2, <1>1, <1>2, <1>7, CloseKeeps
<1> QED BY <1>4, <1>5, <1>6, <1>7

LEMMA OpenFailsKeeps ==
  ASSUME Fetching, DOMAIN user = UserFields, GetOpenFails, UNCHANGED falVars
  PROVE  Fetching'
<1> DEFINE k == Write(CopyGot, "client", Control("get", "seqft"))
           x == Accomp("close", user.cmd.fop)
           v == [user EXCEPT !.pc = "read"]
           u == Complains(user)
<1>1. /\ CopyReply("get", "connect") /\ IsReply(CopyMsg) /\ user.pc # "exit" /\ local' = local
      /\ On(conn[MainLink], user, local, srv[MainLink], fs)
  BY DEF GetOpenFails, CopyReply, Fetching, GetLink
<1>2. /\ v.pc = "read" /\ v.done = user.done /\ v.file = user.file
      /\ DOMAIN u = UserFields /\ u.done = user.done /\ Request(x)
  BY DEF UserFields, Complains, Request, Accomp
<1>3. \/ NextFile(Reply(k, "client", x), u)
      \/ Exits([conn EXCEPT ![MainLink] = Reply(k, "client", x)], u, 1, FALSE)
  BY DEF GetOpenFails, SendClose
<1> HIDE DEF k, x, v, u
<1>4. /\ On(k, v, local, srv[MainLink], fs)
      /\ k["client"].open /\ k["server"].open = conn[MainLink]["server"].open
  <2>1. DOMAIN local \subseteq DOMAIN local \cup {user.file}
    OBVIOUS
  <2> QED BY <2>1, <1>1, <1>2, ConnectedLink DEF k
<1>5. Fetched(u, local)
  <2>1. Fetched(user, local)
    BY <1>1, OnFacts DEF CopyReply
  <2> QED BY <2>1, <1>2 DEF Fetched, Begun
<1> QED BY <1>1, <1>2, <1>3, <1>4, <1>5, CloseKeeps

LEMMA RecordKeeps ==
  ASSUME Fetching, DOMAIN user = UserFields, GetRecord, UNCHANGED falVars
  PROVE  Fetching'
<1> DEFINE k == conn[MainLink]
           i == ReadMessage(k, "client")
           x == Control("get", "seqft")
           u == [user EXCEPT !.done = @ \cup {user.file}]
           e == Complains(user)
<1>1. /\ On(k, user, local, srv[MainLink], fs) /\ user.pc = "read" /\ k["client"].open
  BY DEF GetRecord, CopyReply, Fetching, GetLink
<1>2. /\ DOMAIN u = UserFields /\ u.done = user.done \cup {user.file}
      /\ DOMAIN e = UserFields /\ e.done = user.done /\ Noise(x)
  BY DEF UserFields, Complains, Noise, Control
<1>3. \/ Exits(conn, e, 3, FALSE) /\ local' = local
      \/ /\ CopyMsg.t # "none"
         /\ \/ Goes(MainLink, CopyGot, user) /\ DOMAIN local' = DOMAIN local
            \/ Goes(MainLink, Write(CopyGot, "client", x), user) /\ local' = local
            \/ CloseInput(CopyGot, u) /\ local' = local
  <2>1. CASE CopyMsg.t = "DATA"
    BY <2>1 DEF GetRecord, CopyGoes
  <2>2. CASE CopyMsg.t # "DATA" /\ CopyMsg = Status("eof")
    BY <2>2 DEF GetRecord, Status, Success
  <2>3. CASE CopyMsg.t # "DATA" /\ CopyMsg # Status("eof") /\ Success(CopyMsg)
    BY <2>3 DEF GetRecord, Success, CopyGoes
  <2>4. CASE CopyMsg.t # "DATA" /\ CopyMsg # Status("eof") /\ ~Success(CopyMsg) /\ CopyMsg.t = "ACK"
    BY <2>4 DEF GetRecord, CopyGoes
  <2>5. CASE CopyMsg.t # "DATA" /\ CopyMsg # Status("eof") /\ ~Success(CopyMsg) /\ CopyMsg.t # "ACK"
    BY <2>5 DEF GetRecord, CopyReturns
  <2> QED BY <2>1, <2>2, <2>3, <2>4, <2>5
<1>4. CopyMsg.t # "none" => CanRead(k, "client") /\ CopyGot = i
  BY ReplyCame DEF CopyMsg, CopyGot
<1>5. ASSUME NEW l, DOMAIN l = DOMAIN local, CopyMsg.t # "none"
      PROVE  /\ On(i, user, l, srv[MainLink], fs)
             /\ i["client"].open /\ i["server"].open = k["server"].open
  <2> HIDE DEF k, i
  <2> QED BY <1>1, <1>4, <1>5, RecordOn DEF i
<1> HIDE DEF i, x, u, e
<1>6. CASE Exits(conn, e, 3, FALSE) /\ local' = local
  BY <1>1, <1>2, <1>6, ExitsThen
<1>7. CASE CopyMsg.t # "none" /\ Goes(MainLink, CopyGot, user) /\ DOMAIN local' = DOMAIN local
  BY <1>1, <1>4, <1>5, <1>7, GoesOn
<1>8. CASE CopyMsg.t # "none" /\ Goes(MainLink, Write(CopyGot, "client", x), user) /\ local' = local
  <2> DEFINE j == Write(i, "client", x)
  <2>1. On(j, user, local, srv[MainLink], fs) /\ SameEnds(j, i)
    BY <1>1, <1>2, <1>5, <1>8, MoreOn
  <2>2. j["client"].open /\ j["server"].open = k["server"].open
    BY <2>1, <1>5, <1>8 DEF SameEnds, Side
  <2>3. Goes(MainLink, j, user)
    BY <1>4, <1>8
  <2> HIDE DEF j
  <2> QED BY <2>1, <2>2, <2>3, <1>1, <1>8, GoesOn
<1>9. CASE CopyMsg.t # "none" /\ CloseInput(CopyGot, u) /\ local' = local
  <2>1. Fetched(u, local)
    <3>1. Begun(user, local) \subseteq {user.file}
      BY <1>1, OnFacts
    <3> QED BY <3>1, <1>2 DEF Fetched, Begun
  <2>2. CloseInput(i, u) /\ user.done \subseteq u.done
    BY <1>2, <1>4, <1>9
  <2>3. On(i, user, local, srv[MainLink], fs) /\ i["client"].open /\ i["server"].open = k["server"].open
    BY <1>5, <1>9
  <2> QED BY <2>1, <2>2, <2>3, <1>1, <1>2, <1>9, CloseKeeps
<1> QED BY <1>3, <1>6, <1>7, <1>8, <1>9

LEMMA KilledKeeps ==
  ASSUME Fetching, DOMAIN user = UserFields, UserKilled, UNCHANGED falVars
  PROVE  Fetching'
<1> DEFINE u == Complains(user)
<1>1. /\ On(conn[MainLink], user, local, srv[MainLink], fs) /\ conn[MainLink]["client"].open
      /\ Exits(conn, u, 137, FALSE) /\ local' = local
  BY DEF UserKilled, Fetching, GetLink
<1>2. DOMAIN u = UserFields /\ u.done = user.done
  BY DEF UserFields, Complains
<1> HIDE DEF u
<1> QED BY <1>1, <1>2, ExitsThen

-----------------------------------------------------------------------------
(***************************************************************************)
(* The steps of fal, of the link, and of the other programs.               *)
(***************************************************************************)
LEMMA KnownMessage ==
  ASSUME Fetching, CanRead(conn[MainLink], "server")
  PROVE  Known(NextMessage(conn[MainLink], "server"))
<1> DEFINE k == conn[MainLink]
           s == srv[MainLink]
<1>1. PICK M, f : Carries(M, k, f) /\ InPhase(M, f["client"], f["server"], user, local, s, fs)
  BY DEF Fetching, GetLink, On
<1> HIDE DEF k, s
<1>2. CanRead(k, "server")
  BY DEF k
<1>3. f["server"] # <<>> /\ NextMessage(k, "server") = Head(f["server"])
  BY <1>1, <1>2, SomethingCame DEF Side
<1>4. Known(Head(f["server"]))
  BY <1>1, <1>3, KnownHead
<1> QED BY <1>3, <1>4 DEF k

\* fal does what it may do on a link with f under way.
LEMMA FalGoesOn ==
  ASSUME Fetching, UNCHANGED <<user, local>>, NEW o, Leaves(MainLink, o),
         \A M, f : Carries(M, conn[MainLink], f) =>
                   FalDid(M, conn[MainLink], f, srv[MainLink], fs, o)
  PROVE  Fetching'
<1> DEFINE k == conn[MainLink]
           s == srv[MainLink]
<1>1. PICK M, f : Carries(M, k, f) /\ InPhase(M, f["client"], f["server"], user, local, s, fs)
  BY DEF Fetching, GetLink, On
<1>2. FalDid(M, k, f, s, fs, o)
  BY <1>1
<1> HIDE DEF k, s
<1>3. On(o.k, user, local, o.s, o.f)
  BY <1>1, <1>2, FalPhase DEF On
<1>4. /\ o.k["client"].open = k["client"].open
      /\ o.k["server"].open <=> o.s.st # "gone"
      /\ FalOK(o.s)
  BY <1>2 DEF FalDid
<1>5. conn' = [conn EXCEPT ![MainLink] = o.k] /\ srv' = [srv EXCEPT ![MainLink] = o.s] /\ fs' = o.f
  BY DEF Leaves
<1>6. /\ conn'[MainLink] = o.k /\ srv'[MainLink] = o.s
      /\ conn' = [l \in Link |-> conn'[l]] /\ srv' = [l \in Link |-> srv'[l]]
      /\ \A l \in Link \ {MainLink} : srv'[l] = srv[l]
  BY <1>5, LinkAssumption DEF Fetching
<1>7. k["client"].open <=> user.pc # "exit"
  BY DEF Fetching, GetLink, k
<1>8. GetLink(o.k, user, local, o.s, o.f)
  BY <1>3, <1>4, <1>7 DEF GetLink
<1>9. user' = user /\ local' = local
  OBVIOUS
<1>10. GetLink(conn[MainLink], user, local, srv[MainLink], fs)'
  BY <1>5, <1>6, <1>8, <1>9 DEF GetLink, On
<1>11. (\A l \in Link \ {MainLink} : srv[l].st = "gone")'
  BY <1>6 DEF Fetching
<1> QED BY <1>6, <1>10, <1>11 DEF Fetching

LEMMA FalKeeps ==
  ASSUME Fetching, UNCHANGED <<user, local>>, NEW l \in Link, FalStep(l) \/ FalFault(l)
  PROVE  Fetching'
<1> DEFINE k == conn[MainLink]
           s == srv[MainLink]
<1>1. l = MainLink
  <2>1. srv[l].st \in {"config", "run", "send"} \/ srv[l].st # "gone"
    BY DEF FalStep, FalFault, FalConfig, FalMessage, FalSendRecord, FalClosed, FalCreateFails,
           FalWriteFails, FalKilled, FalReads
  <2> QED BY <2>1 DEF Fetching
<1>2. FalOK(s) /\ (k["server"].open <=> s.st # "gone")
  BY DEF Fetching, GetLink
<1>3. CASE FalConfig(MainLink)
  <2>1. s.st = "config" /\ CanRead(k, "server") /\ k["server"].open
    BY <1>2, <1>3 DEF FalConfig, FalReads
  <2>2. PICK o : /\ Leaves(MainLink, o)
                 /\ o \in {Completed(ReadMessage(k, "server"), fs), Ended(ReadMessage(k, "server"), fs)}
    BY <1>3 DEF FalConfig, FalGot
  <2>3. Known(NextMessage(k, "server"))
    BY <2>1, KnownMessage
  <2> HIDE DEF k, s
  <2>4. ASSUME NEW M, NEW f, Carries(M, k, f) PROVE FalDid(M, k, f, s, fs, o)
    BY <2>1, <2>2, <2>3, <2>4, ConfigDid
  <2> QED BY <2>2, <2>4, FalGoesOn DEF k, s
<1>4. CASE FalMessage(MainLink)
  <2> DEFINE o == ProcessMessage(ReadMessage(k, "server"), NextMessage(k, "server"), s, fs)
  <2>1. s.st = "run" /\ CanRead(k, "server") /\ k["server"].open
    BY <1>2, <1>4 DEF FalMessage, FalReads
  <2>2. Leaves(MainLink, o)
    BY <1>4 DEF FalMessage, FalGot, FalMsg
  <2>3. Known(NextMessage(k, "server"))
    BY <2>1, KnownMessage
  <2> HIDE DEF k, s
  <2>4. ASSUME NEW M, NEW f, Carries(M, k, f) PROVE FalDid(M, k, f, s, fs, o)
    BY <2>1, <2>3, <2>4, <1>2, MessageDid
  <2> HIDE DEF o
  <2> QED BY <2>2, <2>4, FalGoesOn DEF k, s
<1>5. CASE FalSendRecord(MainLink)
  <2> DEFINE o == Sending(k, s, fs)
  <2>1. s.st = "send" /\ k["server"].open
    BY <1>2, <1>5 DEF FalSendRecord
  <2>2. Leaves(MainLink, o)
    BY <1>5 DEF FalSendRecord, Sending
  <2> HIDE DEF k, s
  <2>4. ASSUME NEW M, NEW f, Carries(M, k, f) PROVE FalDid(M, k, f, s, fs, o)
    BY <2>1, <2>4, <1>2, SendingDid
  <2> HIDE DEF o
  <2> QED BY <2>2, <2>4, FalGoesOn DEF k, s
<1>6. CASE FalClosed(MainLink)
  <2> DEFINE o == Ended(k, fs)
  <2>1. k["server"].open
    BY <1>2, <1>6 DEF FalClosed
  <2>2. Leaves(MainLink, o)
    BY <1>6 DEF FalClosed
  <2> HIDE DEF k, s
  <2>4. ASSUME NEW M, NEW f, Carries(M, k, f) PROVE FalDid(M, k, f, s, fs, o)
    BY <2>1, <2>4, EndedDid
  <2> HIDE DEF o
  <2> QED BY <2>2, <2>4, FalGoesOn DEF k, s
<1>7. CASE FalKilled(MainLink)
  <2> DEFINE o == Ended(ClearOutputBuffer(k, "server"), fs)
  <2>1. k["server"].open
    BY <1>2, <1>7 DEF FalKilled
  <2>2. Leaves(MainLink, o)
    BY <1>7 DEF FalKilled
  <2> HIDE DEF k, s
  <2>4. ASSUME NEW M, NEW f, Carries(M, k, f) PROVE FalDid(M, k, f, s, fs, o)
    BY <2>1, <2>4, EndedDid
  <2> HIDE DEF o
  <2> QED BY <2>2, <2>4, FalGoesOn DEF k, s
<1>8. ~FalCreateFails(MainLink) /\ ~FalWriteFails(MainLink)
  <2>1. CanRead(k, "server") => Known(NextMessage(k, "server"))
    BY KnownMessage
  <2> QED BY <2>1 DEF FalCreateFails, FalWriteFails, FalReads, FalMsg, Known, Noise, Connect, Request
<1> QED BY <1>1, <1>3, <1>4, <1>5, <1>6, <1>7, <1>8 DEF FalStep, FalFault

LEMMA LinkKeeps ==
  ASSUME Fetching, UNCHANGED <<srv, fs, user, local>>, NEW l \in Link,
         LinkStep(l) \/ LinkLost(l)
  PROVE  Fetching'
<1> DEFINE k == conn[MainLink]
           s == srv[MainLink]
<1>1. PICK M, f : Carries(M, k, f) /\ InPhase(M, f["client"], f["server"], user, local, s, fs)
  BY DEF Fetching, GetLink, On
<1>2. ASSUME NEW j, conn' = [conn EXCEPT ![l] = j],
             l = MainLink => Shrinks(M, k, f, j) /\ \A x \in Side : j[x].open = k[x].open
      PROVE  Fetching'
  <2>1. conn' = [i \in Link |-> conn'[i]]
    BY <1>2 DEF Fetching
  <2>2. CASE l # MainLink
    <3>1. conn'[MainLink] = conn[MainLink]
      BY <2>2, <1>2, LinkAssumption DEF Fetching
    <3> QED BY <2>1, <3>1 DEF Fetching, GetLink, On
  <2>3. CASE l = MainLink
    <3>1. conn'[MainLink] = j
      BY <2>3, <1>2, LinkAssumption DEF Fetching
    <3>2. j["client"].open = k["client"].open /\ j["server"].open = k["server"].open
      BY <2>3, <1>2 DEF Side
    <3>3. On(j, user, local, s, fs)
      <4> HIDE DEF k, s
      <4> QED BY <2>3, <1>1, <1>2, OnShrunk
    <3>4. GetLink(j, user, local, s, fs)
      BY <3>2, <3>3 DEF Fetching, GetLink
    <3> QED BY <2>1, <3>1, <3>4 DEF Fetching, GetLink, On
  <2> QED BY <2>2, <2>3
<1>3. CASE LinkStep(l)
  <2>1. PICK e \in Side : Disconnected(l, e)
    BY <1>3 DEF LinkStep
  <2> DEFINE q == conn[l]
             j == Off(q, e)
  <2>2. conn' = [conn EXCEPT ![l] = j] /\ ~conn[l][Peer(e)].open
    BY <2>1 DEF Disconnected, Fetching, Off
  <2>3. ASSUME l = MainLink PROVE Shrinks(M, k, f, j) /\ \A x \in Side : j[x].open = k[x].open
    <3>1. ~k[Peer(e)].open /\ j = Off(k, e)
      BY <2>2, <2>3
    <3> HIDE DEF k, q, j, s
    <3> QED BY <3>1, <1>1, <2>1, DisconnectDrops
  <2> HIDE DEF j
  <2> QED BY <2>2, <2>3, <1>2
<1>4. CASE LinkLost(l)
  <2> DEFINE q == conn[l]
             j == Lost(q)
  <2>2. conn' = [conn EXCEPT ![l] = j]
    BY <1>4 DEF LinkLost, Lost
  <2>3. ASSUME l = MainLink PROVE Shrinks(M, k, f, j) /\ \A x \in Side : j[x].open = k[x].open
    <3>1. q = k
      BY <2>3
    <3> HIDE DEF k, q
    <3> QED BY <3>1, <1>1, LossDrops
  <2> HIDE DEF j
  <2> QED BY <2>2, <2>3, <1>2
<1> QED BY <1>3, <1>4

\* Both ends have said CONFIG.
LEMMA NewLinkOn ==
  ASSUME NEW w, NEW h, NEW s, NEW g, w.pc = "config", Fetched(w, h)
  PROVE  On(NewLink, w, h, s, g) /\ NewLink["client"].open /\ NewLink["server"].open
<1> DEFINE M == {Config}
           b == <<Config>>
           k == [client |-> NewEnd, server |-> NewEnd]
           f == [e \in Side |-> <<>>]
           j == Send(k, "client", b)
<1>1. /\ "client" \in Side /\ "server" \in Side /\ Peer("client") = "server" /\ Peer("server") = "client"
      /\ \A e \in Side : k[e] = NewEnd
  BY DEF Side, Peer
<1>2. /\ NewEnd.out = <<>> /\ NewEnd.blocked = FALSE /\ NewEnd.in = <<>> /\ NewEnd.queue = <<>>
      /\ NewEnd.up = TRUE /\ NewEnd.open = TRUE
  BY DEF NewEnd
<1>3. k \in [Side -> End(M)]
  <2>1. <<>> \in Seq(M) /\ <<>> \in Seq(Seq(M))
    OBVIOUS
  <2>2. NewEnd \in End(M)
    BY <2>1 DEF NewEnd, End
  <2>3. k \in [Side -> {NewEnd}]
    BY DEF Side
  <2> HIDE DEF M, k
  <2> QED BY <2>2, <2>3
<1>4. b \in Seq(M) /\ b # <<>> /\ <<>> \in Seq(M) /\ Cat(<<>>, b) = b /\ Cat(b, <<>>) = b
  <2>1. b \in Seq(M) /\ b # <<>> /\ <<>> \in Seq(M)
    OBVIOUS
  <2> QED BY <2>1, Join
<1> HIDE DEF M, b
<1>5. Carries(M, k, f)
  <2>1. f \in [Side -> Seq(M)]
    BY <1>4
  <2>2. ASSUME NEW e \in Side PROVE EndOK(k, e) /\ FlowTo(M, k, e, f[e])
    <3>1. EndOK(k, e)
      BY <2>2, <1>1, <1>2 DEF EndOK
    <3>2. Peer(e) \in Side /\ k[e].in = <<>> /\ k[e].queue = <<>> /\ k[e].up /\ k[Peer(e)].out = <<>>
      BY <1>1, <1>2 DEF Side
    <3>3. Kept(k, e) = <<>> /\ Flat(M, k[e].queue, <<>>)
      BY <3>2, FlatNone DEF Kept
    <3>4. Cat(<<>>, <<>>) = <<>>
      BY <1>4, Join
    <3> HIDE DEF k
    <3>5. f[e] = Cat(Cat(k[e].in, <<>>), Kept(k, e))
      BY <3>2, <3>3, <3>4
    <3> QED BY <3>1, <3>3, <3>5, <1>4 DEF FlowTo
  <2> HIDE DEF k, f
  <2> QED BY <2>1, <2>2, <1>3 DEF Carries
<1>6. Says(M, k, f, j, "client", b)
  <2>1. Differs(M, k, k, "client", <<>>, FALSE) /\ k["client"].open /\ k["client"].out = <<>>
    BY <1>1, <1>2, <1>3 DEF Differs
  <2> HIDE DEF k, f
  <2> QED BY <2>1, <1>1, <1>4, <1>5, Sent
<1> DEFINE d == Said(k, f, "client", b)
<1>7. Carries(M, j, d) /\ SameEnds(j, k)
  BY <1>6 DEF Says
<1>8. j["server"].out = <<>> /\ j["server"].blocked = FALSE /\ j["server"].open /\ j["client"].open
  <2>1. j = [k EXCEPT !["server"].queue = Append(@, b)]
    BY <1>1, <1>2 DEF Send
  <2>2. j["server"] = [NewEnd EXCEPT !.queue = Append(@, b)]
    BY <2>1, <1>1
  <2>3. j["server"].out = <<>> /\ j["server"].blocked = FALSE
    BY <2>2, <1>2 DEF NewEnd
  <2>4. j["server"].open /\ j["client"].open
    BY <1>1, <1>2, <1>7 DEF SameEnds
  <2> QED BY <2>3, <2>4
<1>9. NewLink = Send(j, "server", b)
  BY DEF NewLink, b
<1> HIDE DEF j, d, k
<1>10. Says(M, j, d, NewLink, "server", b)
  <2>1. Differs(M, j, j, "server", <<>>, FALSE)
    BY <1>7, <1>8 DEF Differs, Carries
  <2> QED BY <2>1, <1>1, <1>4, <1>7, <1>8, <1>9, Sent
<1> DEFINE e == Said(j, d, "server", b)
<1>11. Carries(M, NewLink, e) /\ SameEnds(NewLink, j)
  BY <1>10 DEF Says
<1> HIDE DEF e
<1>12. e["client"] \in Seq(M) /\ e["server"] \in Seq(M)
  BY <1>11, FlowsTyped
<1>13. NoiseIn(M) = M /\ PlainIn(M) = M
  BY DEF M, Config, NoiseIn, PlainIn, Noise, Plain
<1>14. InPhase(M, e["client"], e["server"], w, h, s, g)
  BY <1>12, <1>13 DEF InPhase
<1> QED BY <1>1, <1>8, <1>11, <1>14 DEF On, SameEnds

LEMMA FetchingFirst ==
  ASSUME Init
  PROVE  FAInv
<1>1. PICK start \in Starts :
        /\ user = NewUser(start.cmd) /\ fs = start.fs
        /\ conn = [l \in Link |-> IF l \in LinksOf(start.cmd) THEN NewLink
                                  ELSE Close(Close(NewLink, "client"), "server")]
        /\ srv = [l \in Link |-> IF l \in LinksOf(start.cmd) THEN NewFal
                                 ELSE [NewFal EXCEPT !.st = "gone"]]
        /\ local = IF start.cmd.prog \in {"put", "write"} THEN Source ELSE <<>>
  BY DEF Init
<1>2. /\ DOMAIN user = UserFields /\ user.cmd = start.cmd /\ user.pc = "config" /\ user.done = {}
  BY <1>1 DEF NewUser, UserFields
<1>3. ASSUME Prog({"get"}) PROVE Fetching
  <2>1. start.cmd.prog = "get"
    BY <1>2, <1>3 DEF Prog
  <2>2. LinksOf(start.cmd) = {MainLink}
    BY <2>1 DEF LinksOf
  <2>3. local = <<>>
    BY <1>1, <2>1
  <2>4. Fetched(user, local)
    <3>1. DOMAIN <<>> = {}
      OBVIOUS
    <3> QED BY <3>1, <2>3 DEF Fetched, Begun
  <2>5. conn[MainLink] = NewLink /\ srv[MainLink] = NewFal
    BY <1>1, <2>2, LinkAssumption
  <2>6. FalOK(NewFal) /\ NewFal.st # "gone" /\ [NewFal EXCEPT !.st = "gone"].st = "gone"
    BY FalsAreOK
  <2>7. GetLink(conn[MainLink], user, local, srv[MainLink], fs)
    BY <1>2, <2>4, <2>5, <2>6, NewLinkOn DEF GetLink
  <2>8. /\ conn = [l \in Link |-> conn[l]] /\ srv = [l \in Link |-> srv[l]]
        /\ \A l \in Link \ {MainLink} : srv[l].st = "gone"
    BY <1>1, <2>2, <2>6
  <2> QED BY <2>7, <2>8 DEF Fetching
<1> QED BY <1>2, <1>3 DEF FAInv

\* The process works on the files of the same command.
Same(w, u) == u.cmd = w.cmd /\ DOMAIN u = UserFields

LEMMA StillSame ==
  ASSUME DOMAIN user = UserFields
  PROVE  /\ Same(user, user) /\ Same(user, Complains(user))
         /\ \A l, k, u : Goes(l, k, u) /\ Same(user, u) => Same(user, user')
         /\ \A c, u, code, flush : Exits(c, u, code, flush) /\ Same(user, u) => Same(user, user')
         /\ \A u, x : Same(user, u) => /\ Same(user, [u EXCEPT !.pc = x]) /\ Same(user, [u EXCEPT !.file = x])
                                       /\ Same(user, [u EXCEPT !.done = x]) /\ Same(user, [u EXCEPT !.rest = x])
                                       /\ Same(user, [u EXCEPT !.ret = x]) /\ Same(user, [u EXCEPT !.refused = x])
                                       /\ Same(user, Printed(u)) /\ Same(user, Complains(u))
<1>1. Same(user, user) /\ Same(user, Complains(user))
  BY DEF Same, Complains, UserFields
<1>2. ASSUME NEW l, NEW k, NEW u, Goes(l, k, u), Same(user, u) PROVE Same(user, user')
  BY <1>2 DEF Goes
<1>3. ASSUME NEW c, NEW u, NEW code, NEW flush, Exits(c, u, code, flush), Same(user, u)
      PROVE  Same(user, user')
  <2>1. user' = [u EXCEPT !.pc = "exit", !.code = code]
    BY <1>3 DEF Exits
  <2> QED BY <2>1, <1>3 DEF Same, UserFields
<1>4. ASSUME NEW u, NEW x, Same(user, u)
      PROVE  /\ Same(user, [u EXCEPT !.pc = x]) /\ Same(user, [u EXCEPT !.file = x])
             /\ Same(user, [u EXCEPT !.done = x]) /\ Same(user, [u EXCEPT !.rest = x])
             /\ Same(user, [u EXCEPT !.ret = x]) /\ Same(user, [u EXCEPT !.refused = x])
             /\ Same(user, Printed(u)) /\ Same(user, Complains(u))
  BY <1>4 DEF Same, UserFields, Printed, Complains
<1> QED BY <1>1, <1>2, <1>3, <1>4

LEMMA CopySame ==
  ASSUME DOMAIN user = UserFields, CopyStep \/ GetOpenFails \/ UserKilled
  PROVE  Same(user, user')
<1>1. ASSUME NEW k, NEW u, Same(user, u), NextFile(k, u) PROVE Same(user, user')
  <2>1. Same(user, [u EXCEPT !.pc = "entry", !.opened = TRUE])
    BY <1>1 DEF Same, UserFields
  <2> QED BY <2>1, <1>1, StillSame DEF NextFile, CopyGoes
<1>2. ASSUME NEW k, NEW u, Same(user, u), CloseInput(k, u) PROVE Same(user, user')
  BY <1>1, <1>2, StillSame DEF CloseInput, CopyReturns
<1>3. ASSUME NEW k, NEW u, NEW files, Same(user, u), PutNext(k, u, files) PROVE Same(user, user')
  <2>1. Same(user, [u EXCEPT !.pc = "entry", !.todo = files, !.rest = local[Head(files)]])
    BY <1>3 DEF Same, UserFields
  <2> QED BY <2>1, <1>3, StillSame DEF PutNext, CopyGoes
<1>4. ASSUME NEW m, EntryPart(m) PROVE Same(user, NoteEntry(user, m))
  BY <1>4 DEF EntryPart, NoteEntry, Same, UserFields
<1>5. ASSUME NEW u, u \in {[user EXCEPT !.done = @ \cup {user.file}], [user EXCEPT !.refused = @ \cup {user.file}]}
      PROVE  Same(user, u)
  BY <1>5 DEF Same, UserFields
<1>6. PutOpenFails => Same(user, user')
  BY <1>3, StillSame DEF PutOpenFails, CopyReturns
<1>7. GetConfig \/ GetEntry => Same(user, user')
  BY <1>4, StillSame DEF GetConfig, GetEntry, CopyGoes, CopyReturns
<1>8. GetConnected => Same(user, user')
  BY <1>2, <1>5, StillSame DEF GetConnected, CopyGoes, CopyReturns
<1>9. GetOpenFails => Same(user, user')
  BY <1>1, StillSame DEF GetOpenFails
<1>10. GetRecord => Same(user, user')
  BY <1>2, <1>5, StillSame DEF GetRecord, CopyGoes, CopyReturns
<1>11. PutConfig \/ PutEntry \/ PutConnected => Same(user, user')
  BY <1>3, <1>4, <1>6, StillSame DEF PutConfig, PutEntry, PutConnected, CopyGoes, CopyReturns
<1>12. PutRecord => Same(user, user')
  BY StillSame DEF PutRecord, CopyGoes, CopyReturns
<1>13. PutClose => Same(user, user')
  BY StillSame DEF PutClose, CopyGoes
<1>14. PutClosed => Same(user, user')
  <2>1. Same(user, [user EXCEPT !.done = @ \cup {Head(user.todo)}])
    BY StillSame
  <2> QED BY <2>1, <1>3, StillSame DEF PutClosed, CopyReturns
<1>15. UserKilled => Same(user, user')
  BY StillSame DEF UserKilled
<1> QED BY <1>7, <1>8, <1>9, <1>10, <1>11, <1>12, <1>13, <1>14, <1>15 DEF CopyStep, PutStep

LEMMA ToolSame ==
  ASSUME DOMAIN user = UserFields, DelStep \/ ToolStep
  PROVE  Same(user, user')
<1>1. ASSUME NEW k, NEW n, Delete(k, n) PROVE Same(user, user')
  BY <1>1 DEF Delete, Same, UserFields
<1>2. ASSUME NEW k, NEW n, NamedFile(k, n) PROVE Same(user, user')
  BY <1>1, <1>2, StillSame DEF NamedFile, Closes
<1>3. DelConfig => Same(user, user')
  BY StillSame DEF DelConfig, Closes
<1>4. DelSecondConfig => Same(user, user')
  <2>1. \/ Closes(Complains(user), 255)
        \/ user' = [user EXCEPT !.pc = "list"]
        \/ ~DelSecondConfig
    BY DEF DelSecondConfig
  <2>2. Same(user, [user EXCEPT !.pc = "list"])
    BY StillSame
  <2> QED BY <2>1, <2>2, StillSame DEF Closes
<1>5. DelList => Same(user, user')
  BY <1>2, StillSame DEF DelList, Closes
<1>6. DelAck => Same(user, user')
  <2>1. \A x, y : Same(user, [user EXCEPT !.pc = "list", !.done = x, !.said = y])
    BY DEF Same, UserFields
  <2> QED BY <2>1, StillSame DEF DelAck
<1>7. DirConfig => Same(user, user')
  BY StillSame DEF DirConfig, ToolExits, ToolGoes
<1>8. DirList => Same(user, user')
  BY StillSame DEF DirList, ToolExits, ToolGoes
<1>9. SubmitConfig => Same(user, user')
  BY StillSame DEF SubmitConfig, ToolExits, ToolGoes
<1>10. SubmitReply \/ PrintClosed => Same(user, user')
  BY StillSame DEF SubmitReply, PrintClosed, ToolExits, ToolGoes
<1> QED BY <1>3, <1>4, <1>5, <1>6, <1>7, <1>8, <1>9, <1>10 DEF DelStep, ToolStep

LEMMA RmsSame ==
  ASSUME DOMAIN user = UserFields, RmsStep \/ FsStep
  PROVE  Same(user, user')
<1>1. \A rec : TakeRecord(rec) => Same(user, user')
  BY StillSame DEF TakeRecord, RmsGoes
<1>2. RmsOpen \/ RmsOpened => Same(user, user')
  BY StillSame DEF RmsOpen, RmsOpened, RmsExits, RmsGoes
<1>3. RmsConnected => Same(user, user')
  <2>1. \A x : Same(user, [user EXCEPT !.pc = "call", !.file = RmsFile, !.rest = x])
    BY DEF Same, UserFields
  <2> QED BY <2>1, StillSame DEF RmsConnected, RmsExits
<1>4. \A x : Same(user, [Complains(user) EXCEPT !.pc = x])
  BY StillSame
<1>5. RmsRead => Same(user, user')
  BY <1>4, StillSame DEF RmsRead, RmsGoes
<1>6. RmsStatus => Same(user, user')
  BY <1>1, <1>4, StillSame DEF RmsStatus, RmsGoes
<1>7. RmsRecord => Same(user, user')
  BY <1>1, <1>4, StillSame DEF RmsRecord, RmsGoes
<1>8. RmsWrite \/ RmsClose => Same(user, user')
  BY <1>4, StillSame DEF RmsWrite, RmsClose, RmsGoes
<1>9. RmsWritten => Same(user, user')
  <2>1. Same(user, [user EXCEPT !.pc = "call", !.rest = Tail(@)])
    BY DEF Same, UserFields
  <2> QED BY <2>1, <1>4, StillSame DEF RmsWritten
<1>10. RmsClosed => Same(user, user')
  BY StillSame DEF RmsClosed, RmsExits
<1>11. ASSUME NEW k, NEW ret, Returns(k, ret) PROVE Same(user, user')
  <2>1. Same(user, [user EXCEPT !.pc = "idle", !.todo = Tail(@), !.ret = ret])
    BY DEF Same, UserFields
  <2> QED BY <2>1, <1>11, StillSame DEF Returns, FsGoes
<1>12. ASSUME NEW k, NEW ms, NEW u, Same(user, u), Asks(k, ms, u) PROVE Same(user, user')
  BY <1>11, <1>12, StillSame DEF Asks, FsGoes
<1>13. ASSUME NEW k, NEW n, NEW pc, GetAttr(k, n, pc) PROVE Same(user, user')
  <2>1. Same(user, [user EXCEPT !.pc = pc, !.ret = "ok"])
    BY DEF Same, UserFields
  <2> QED BY <2>1, <1>12, <1>13 DEF GetAttr
<1>14. ASSUME NEW k, NEW ret, user.pc \in {"getattr", "from", "fromdir"}, HasAttr(k, ret)
       PROVE  Same(user, user')
  <2>1. Same(user, [user EXCEPT !.pc = "rename"])
    BY StillSame
  <2> QED BY <2>1, <1>11, <1>12, <1>13, <1>14 DEF HasAttr
<1>15. FsConfig \/ Unmounted => Same(user, user')
  BY StillSame DEF FsConfig, Unmounted, FsGoes
<1>16. FsCalled => Same(user, user')
  <2>1. Same(user, [user EXCEPT !.pc = "unlink"])
    BY StillSame
  <2> QED BY <2>1, <1>12, <1>13 DEF FsCalled
<1>17. FsAttr => Same(user, user')
  <2> DEFINE refused == [user EXCEPT !.ret = "ENOENT", !.refused = @ \cup {FsCall.name}]
  <2>1. ASSUME FsAttr
        PROVE  \/ user.pc \in {"getattr", "from", "fromdir"} /\ HasAttr(FsGot, user.ret)
               \/ \E k, u : Goes(MainLink, k, u) /\ u \in {[user EXCEPT !.ret = "EIO"], refused, user}
    BY <2>1, Zenon DEF FsAttr, FsReply, FsGoes
  <2>2. \A u \in {[user EXCEPT !.ret = "EIO"], refused, user} : Same(user, u)
    BY DEF Same, UserFields
  <2> QED BY <2>1, <2>2, <1>14, StillSame
<1>18. FsDone => Same(user, user')
  BY <1>11, StillSame DEF FsDone, FsGoes
<1>19. Readdir \/ ReaddirList => Same(user, user')
  BY StillSame DEF Readdir, ReaddirList, FsGoes
<1>20. RmsStep => Same(user, user')
  BY <1>2, <1>3, <1>5, <1>6, <1>7, <1>8, <1>9, <1>10 DEF RmsStep
<1> QED BY <1>15, <1>16, <1>17, <1>18, <1>19, <1>20 DEF FsStep

\* What has gone wrong stays so.
LEMMA FaultsStay ==
  ASSUME Next
  PROVE  fault \subseteq fault'
<1>1. UserStep => UNCHANGED fault
  BY DEF UserStep, CopyStep, DelStep, ToolStep, RmsStep, FsStep
<1>2. \A l : ServerStep(l) \/ LinkStep(l) => UNCHANGED fault
  BY DEF ServerStep, LinkStep, FalStep, FalConfig, FalMessage, FalSendRecord, FalClosed, Disconnected
<1>3. Mishap => \E kind : Fault(kind)
  BY DEF Mishap, GetOpenFails, UserKilled, FalFault, FalCreateFails, FalWriteFails, FalKilled,
         FileVanishes, LinkLost
<1>4. \A kind : Fault(kind) => fault \subseteq fault'
  BY DEF Fault
<1> QED BY <1>1, <1>2, <1>3, <1>4 DEF Next

LEMMA UserStays ==
  ASSUME DOMAIN user = UserFields, Next
  PROVE  Same(user, user')
<1>1. UserStep => Same(user, user')
  BY CopySame, ToolSame, RmsSame DEF UserStep
<1>2. \A l : ServerStep(l) \/ LinkStep(l) => user' = user
  BY DEF ServerStep, LinkStep
<1>3. Mishap => GetOpenFails \/ UserKilled \/ user' = user
  BY DEF Mishap
<1>4. user' = user => Same(user, user')
  BY DEF Same
<1> QED BY <1>1, <1>2, <1>3, <1>4, CopySame DEF Next

LEMMA FetchingKept ==
  ASSUME FAInv, Next
  PROVE  FAInv'
<1>1. Same(user, user')
  BY UserStays DEF FAInv
<1>2. ASSUME Prog({"get"})', Undisturbed' PROVE Fetching'
  <2>1. DOMAIN user = UserFields /\ Fetching /\ user.cmd.prog = "get"
    BY <1>1, <1>2, FaultsStay DEF FAInv, Prog, Same, Undisturbed
  <2>2. CASE UserStep
    <3>1. \/ (GetConfig \/ GetEntry) /\ UNCHANGED <<local, falVars>>
          \/ (GetConnected \/ GetRecord) /\ UNCHANGED falVars
      <4>1. ~DelStep /\ ~ToolStep
        BY <2>1 DEF DelStep, DelConfig, DelSecondConfig, DelList, DelAck, DelReply,
                    ToolStep, DirConfig, DirList, SubmitConfig, SubmitReply, PrintClosed, ToolReply
      <4>2. ~RmsStep
        BY <2>1 DEF RmsStep, RmsOpen, RmsOpened, RmsConnected, RmsRead, RmsStatus, RmsRecord, RmsWrite,
                    RmsWritten, RmsClose, RmsClosed, RmsReply, RmsProgs
      <4>3. ~FsStep
        BY <2>1 DEF FsStep, FsConfig, FsCalled, Unmounted, FsAttr, FsDone, FsReply,
                    Readdir, ReaddirList, ReaddirReply
      <4>4. ~PutStep
        BY <2>1 DEF PutStep, PutConfig, PutEntry, PutConnected, PutRecord, PutClose, PutClosed, CopyReply
      <4> QED BY <4>1, <4>2, <4>3, <4>4, <2>2 DEF UserStep, CopyStep
    <3> QED BY <3>1, <2>1, ConfigKeeps, EntryKeeps, ConnectedKeeps, RecordKeeps
  <2>3. \A l \in Link : ServerStep(l) \/ (FalFault(l) /\ UNCHANGED <<user, local>>) => Fetching'
    BY <2>1, FalKeeps DEF ServerStep
  <2>4. \A l \in Link : LinkStep(l) \/ (LinkLost(l) /\ UNCHANGED <<srv, fs, user, local>>) => Fetching'
    BY <2>1, LinkKeeps DEF LinkStep
  <2>5. ~FileVanishes
    BY <1>2 DEF FileVanishes, Fault, Undisturbed
  <2>6. CASE Mishap
    BY <2>1, <2>3, <2>4, <2>5, <2>6, OpenFailsKeeps, KilledKeeps DEF Mishap
  <2>7. CASE \E l \in Link : ServerStep(l) \/ LinkStep(l)
    BY <2>3, <2>4, <2>7
  <2> QED BY <2>2, <2>6, <2>7 DEF Next
<1> QED BY <1>1, <1>2 DEF FAInv, Same

\* When dncopy with -D has begun to store a file and not stored it to its end, the file is still on
\* its node, unless somebody else removed it there: a CLOSE that asks fal to delete the file is
\* never on its way while a file is begun, whatever is lost or killed, and when.
THEOREM FetchedOnly == Spec => []OnlyFetchedRemoved
<1>1. Init => FAInv
  BY FetchingFirst
<1>2. FAInv /\ [Next]_vars => FAInv'
  <2>1. FAInv /\ UNCHANGED vars => FAInv'
    BY DEF vars, falVars, FAInv, Fetching, GetLink, On, Prog, Undisturbed
  <2> QED BY <2>1, FetchingKept
<1>3. FAInv => OnlyFetchedRemoved
  <2>1. Fetching => Begun(user, local) \subseteq DOMAIN fs
    BY OnFacts DEF Fetching, GetLink
  <2> QED BY <2>1 DEF FAInv, OnlyFetchedRemoved, Begun
<1> QED BY <1>1, <1>2, <1>3, PTL DEF Spec

=============================================================================

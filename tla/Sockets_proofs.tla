--------------------------- MODULE Sockets_proofs ---------------------------
(***************************************************************************)
(* Proofs about the sockets and about a program that lives on them.        *)
(* DnSock: the tables of sockets, for every number of sockets, ports,      *)
(* lists, objects and peers.  The inductive invariant adds to the          *)
(* properties that a socket with a port is filed under it, that one that   *)
(* is bound is filed, and that a listening one is filed under its object.  *)
(* Phone: for all users, plans and answers, a caller who waits for an      *)
(* answer has exactly one coming.                                          *)
(***************************************************************************)
EXTENDS DnSock, Phone, FiniteSetTheorems, SequenceTheorems, TLAPS

-----------------------------------------------------------------------------
(***************************************************************************)
(* The phone.  How many elements of a sequence are in a set, when one is   *)
(* written, read or handed over.                                           *)
(***************************************************************************)
LEMMA CountJoin ==
  ASSUME NEW M, NEW s \in Seq(M), NEW t \in Seq(M), NEW S
  PROVE  /\ Count(s, S) \in Nat /\ Count(t, S) \in Nat
         /\ Count(s \o t, S) = Count(s, S) + Count(t, S)
<1> DEFINE a == Len(s)
           b == Len(t)
           u == s \o t
<1>1. /\ a \in Nat /\ b \in Nat /\ DOMAIN s = 1..a /\ DOMAIN t = 1..b /\ DOMAIN u = 1..a + b
      /\ \A i \in 1..a + b : u[i] = IF i <= a THEN s[i] ELSE t[i - a]
  OBVIOUS
<1> HIDE DEF a, b, u
<1> DEFINE A == {i \in 1..a : s[i] \in S}
           B == {i \in 1..b : t[i] \in S}
           C == {i \in a + 1..a + b : t[i - a] \in S}
           U == {i \in 1..a + b : u[i] \in S}
           f == [i \in B |-> a + i]
<1>2. Count(s, S) = Cardinality(A) /\ Count(t, S) = Cardinality(B) /\ Count(u, S) = Cardinality(U)
  BY <1>1 DEF Count
<1>3. IsFiniteSet(A) /\ IsFiniteSet(B)
  <2>1. IsFiniteSet(1..a) /\ IsFiniteSet(1..b)
    BY <1>1, FS_Interval
  <2> QED BY <2>1, FS_Subset
<1>4. f \in Bijection(B, C)
  <2>1. f \in [B -> C]
    BY <1>1
  <2>2. \A x, y \in B : f[x] = f[y] => x = y
    BY <1>1
  <2>3. \A y \in C : \E x \in B : f[x] = y
    <3> SUFFICES ASSUME NEW y \in C PROVE \E x \in B : f[x] = y
      OBVIOUS
    <3>1. y - a \in B /\ a + (y - a) = y
      BY <1>1
    <3> QED BY <3>1
  <2> HIDE DEF f, B, C
  <2>4. f \in Injection(B, C)
    BY <2>1, <2>2 DEF Injection, IsInjective
  <2>5. f \in Surjection(B, C)
    BY <2>1, <2>3 DEF Surjection
  <2> QED BY <2>4, <2>5 DEF Bijection
<1>5. IsFiniteSet(C) /\ Cardinality(C) = Cardinality(B)
  <2> HIDE DEF f, B, C
  <2>1. ExistsBijection(B, C)
    BY <1>4 DEF ExistsBijection
  <2> QED BY <2>1, <1>3, FS_Bijection
<1>6. U = A \cup C
  <2>1. ASSUME NEW i \in U PROVE i \in A \cup C
    BY <1>1
  <2>2. ASSUME NEW i \in A PROVE i \in U
    BY <1>1
  <2>3. ASSUME NEW i \in C PROVE i \in U
    BY <1>1
  <2> HIDE DEF A, C, U
  <2> QED BY <2>1, <2>2, <2>3
<1>7. A \cap C = {}
  BY <1>1
<1> HIDE DEF A, B, C, U
<1>8. Cardinality(U) = Cardinality(A) + Cardinality(C) - 0
  BY <1>3, <1>5, <1>6, <1>7, FS_Union, FS_EmptySet
<1>9. Cardinality(A) \in Nat /\ Cardinality(B) \in Nat
  BY <1>3, FS_CardinalityType
<1> QED BY <1>2, <1>5, <1>8, <1>9 DEF u

LEMMA CountOne ==
  ASSUME NEW s, Len(s) = 1, DOMAIN s = 1..1, NEW S
  PROVE  /\ s[1] \in S => Count(s, S) = 1
         /\ s[1] \notin S => Count(s, S) = 0
<1> DEFINE A == {i \in DOMAIN s : s[i] \in S}
<1>1. s[1] \in S => A = {1}
  OBVIOUS
<1>2. s[1] \notin S => A = {}
  OBVIOUS
<1>3. Count(s, S) = Cardinality(A)
  BY DEF Count
<1> HIDE DEF A
<1> QED BY <1>1, <1>2, <1>3, FS_Singleton, FS_EmptySet

LEMMA CountNone ==
  ASSUME NEW s, NEW S, \A i \in DOMAIN s : s[i] \notin S
  PROVE  Count(s, S) = 0
<1>1. {i \in DOMAIN s : s[i] \in S} = {}
  OBVIOUS
<1> QED BY <1>1, FS_EmptySet DEF Count

LEMMA CountAppend ==
  ASSUME NEW M, NEW s \in Seq(M), NEW x \in M, NEW S
  PROVE  /\ Append(s, x) \in Seq(M) /\ Len(Append(s, x)) = Len(s) + 1
         /\ Count(s, S) \in Nat
         /\ x \in S => Count(Append(s, x), S) = Count(s, S) + 1
         /\ x \notin S => Count(Append(s, x), S) = Count(s, S)
<1> DEFINE t == <<x>>
<1>1. t \in Seq(M) /\ Len(t) = 1 /\ DOMAIN t = 1..1 /\ t[1] = x /\ Append(s, x) = s \o t
  OBVIOUS
<1>2. Append(s, x) \in Seq(M) /\ Len(Append(s, x)) = Len(s) + 1
  OBVIOUS
<1> HIDE DEF t
<1>3. Count(s \o t, S) = Count(s, S) + Count(t, S) /\ Count(s, S) \in Nat
  BY <1>1, CountJoin
<1>4. (x \in S => Count(t, S) = 1) /\ (x \notin S => Count(t, S) = 0)
  BY <1>1, CountOne
<1> QED BY <1>1, <1>2, <1>3, <1>4

LEMMA CountTail ==
  ASSUME NEW M, NEW s \in Seq(M), s # <<>>, NEW S
  PROVE  /\ Tail(s) \in Seq(M) /\ Len(Tail(s)) = Len(s) - 1 /\ Len(s) \in Nat /\ Len(s) > 0
         /\ Head(s) \in M /\ Head(s) = s[1]
         /\ \A i \in 1..Len(s) - 1 : Tail(s)[i] = s[i + 1]
         /\ Count(s, S) \in Nat /\ Count(Tail(s), S) \in Nat
         /\ Head(s) \in S => Count(Tail(s), S) = Count(s, S) - 1
         /\ Head(s) \notin S => Count(Tail(s), S) = Count(s, S)
<1> DEFINE t == <<Head(s)>>
           r == Tail(s)
           h == Head(s)
<1>1. /\ t \in Seq(M) /\ Len(t) = 1 /\ DOMAIN t = 1..1 /\ t[1] = h
      /\ r \in Seq(M) /\ Len(r) = Len(s) - 1 /\ Len(s) \in Nat /\ Len(s) > 0
      /\ h \in M /\ h = s[1]
  OBVIOUS
<1>2. \A i \in 1..Len(s) - 1 : r[i] = s[i + 1]
  OBVIOUS
<1>3. s = t \o r
  OBVIOUS
<1> HIDE DEF t, r, h
<1>4. Count(t \o r, S) = Count(t, S) + Count(r, S) /\ Count(t, S) \in Nat /\ Count(r, S) \in Nat
  BY ONLY <1>1, CountJoin
<1>5. (h \in S => Count(t, S) = 1) /\ (h \notin S => Count(t, S) = 0)
  BY ONLY <1>1, CountOne
<1>6. Count(s, S) = Count(t, S) + Count(r, S)
  BY <1>3, <1>4
<1> QED BY <1>1, <1>2, <1>4, <1>5, <1>6 DEF r, h

-----------------------------------------------------------------------------
(***************************************************************************)
(* What a link is like, and what its operations leave of what is asked and *)
(* answered on it: only a question adds to the one, only a reply to the    *)
(* other.  CONNECT is the first message of a link and is read by phoned.   *)
(***************************************************************************)
Reply == {"ok"} \cup UNION {Mood[u] : u \in User}
Request == {"connect", "dial", "hangup", "goodbye", "answer", "reject"}
Question == {"connect", "dial"}
LinkEnd(S) == [open : BOOLEAN, up : BOOLEAN, queue : Seq(S)]
Links == [from : User, to : User, near : LinkEnd(Reply), far : LinkEnd(Request),
          holder : {"phoned", "pipe", "client", "none", "dropped"}, named : BOOLEAN]

LinkOK(k) ==
  /\ k \in Links
  /\ k.holder \in {"none", "dropped"} => ~k.far.up
  /\ \A i \in DOMAIN k.far.queue :
       k.far.queue[i] = "connect" => i = 1 /\ k.holder = "phoned" /\ ~k.named

BothUp(k) == k.near.up /\ k.far.up
\* k has become j, and nobody has asked or answered anything on it.
Later(k, j) ==
  /\ j.from = k.from /\ j.to = k.to
  /\ k.holder # "phoned" => j.holder # "phoned"
  /\ BothUp(j) => /\ BothUp(k) /\ Len(j.near.queue) = Len(k.near.queue)
                  /\ Count(j.far.queue, Question) = Count(k.far.queue, Question)

LEMMA NewLinkIs ==
  ASSUME NEW u \in User, NEW v \in User
  PROVE  LET k == NewLink(u, v) IN
         /\ LinkOK(k) /\ k.from = u /\ k.to = v /\ k.holder = "phoned" /\ ~k.named
         /\ k.near.queue = <<>> /\ k.far.queue = <<>> /\ BothUp(k)
<1>1. NewEnd \in LinkEnd(Reply) /\ NewEnd \in LinkEnd(Request) /\ NewEnd.queue = <<>> /\ NewEnd.up
  BY DEF NewEnd, LinkEnd
<1> QED BY <1>1 DEF NewLink, LinkOK, Links, BothUp

LEMMA SendNear ==
  ASSUME NEW k, LinkOK(k), NEW m \in Request,
         m = "connect" => k.far.queue = <<>> /\ k.holder = "phoned" /\ ~k.named
  PROVE  LET j == Send(k, "near", m) IN
         /\ LinkOK(j) /\ j.near = k.near /\ j.far.up = k.far.up
         /\ j.from = k.from /\ j.to = k.to /\ j.holder = k.holder /\ j.named = k.named
         /\ m \notin Question => Later(k, j)
         /\ BothUp(k) /\ m \in Question =>
              Count(j.far.queue, Question) = Count(k.far.queue, Question) + 1
<1> DEFINE q == k.far.queue
           r == Append(q, m)
<1>1. k \in Links /\ k.far \in LinkEnd(Request) /\ q \in Seq(Request) /\ Len(q) \in Nat
  BY DEF LinkOK, Links, LinkEnd
<1>2. /\ r \in Seq(Request) /\ Count(q, Question) \in Nat
      /\ m \in Question => Count(r, Question) = Count(q, Question) + 1
      /\ m \notin Question => Count(r, Question) = Count(q, Question)
  <2> HIDE DEF q
  <2> QED BY <1>1, CountAppend
<1>3. \A i \in DOMAIN r : IF i = Len(q) + 1 THEN r[i] = m ELSE i \in DOMAIN q /\ r[i] = q[i]
  BY <1>1
<1>4. CASE ~BothUp(k)
  <2>1. Send(k, "near", m) = k
    BY <1>4 DEF Send, BothUp, Other
  <2>2. Later(k, k)
    BY DEF Later
  <2> QED BY <1>4, <2>1, <2>2
<1>5. CASE BothUp(k)
  <2> DEFINE j == [k EXCEPT !.far = [k.far EXCEPT !.queue = r]]
  <2>1. Send(k, "near", m) = j
    BY <1>1, <1>5 DEF Send, BothUp, Other, Links
  <2> HIDE DEF r
  <2>2. [k.far EXCEPT !.queue = r] \in LinkEnd(Request)
    BY <1>1, <1>2 DEF LinkEnd
  <2>3. /\ j \in Links /\ j.near = k.near /\ j.far.up = k.far.up /\ j.far.queue = r
        /\ j.from = k.from /\ j.to = k.to /\ j.holder = k.holder /\ j.named = k.named
    BY <1>1, <2>2 DEF Links, LinkEnd
  <2> HIDE DEF j
  <2>4. ASSUME NEW i \in DOMAIN r, r[i] = "connect"
        PROVE  i = 1 /\ j.holder = "phoned" /\ ~j.named
    <3>1. CASE i = Len(q) + 1
      <4>1. m = "connect"
        BY <1>3, <2>4, <3>1
      <4>2. Len(q) = 0
        BY <4>1
      <4> QED BY <2>3, <3>1, <4>1, <4>2
    <3>2. CASE i # Len(q) + 1
      BY <1>3, <2>3, <2>4, <3>2 DEF LinkOK
    <3> QED BY <3>1, <3>2
  <2>5. LinkOK(j)
    BY <2>3, <2>4 DEF LinkOK
  <2>6. m \notin Question => Later(k, j)
    BY <1>2, <1>5, <2>3 DEF Later, BothUp
  <2> QED BY <1>2, <2>1, <2>3, <2>5, <2>6
<1> QED BY <1>4, <1>5

LEMMA SendFar ==
  ASSUME NEW k, LinkOK(k), NEW m \in Reply
  PROVE  LET j == Send(k, "far", m) IN
         /\ LinkOK(j) /\ j.far = k.far /\ j.near.up = k.near.up
         /\ j.from = k.from /\ j.to = k.to /\ j.holder = k.holder /\ j.named = k.named
         /\ BothUp(k) => Len(j.near.queue) = Len(k.near.queue) + 1
<1> DEFINE r == Append(k.near.queue, m)
<1>1. k \in Links /\ k.near \in LinkEnd(Reply) /\ k.near.queue \in Seq(Reply)
  BY DEF LinkOK, Links, LinkEnd
<1>2. r \in Seq(Reply) /\ Len(r) = Len(k.near.queue) + 1
  BY <1>1
<1>3. CASE ~BothUp(k)
  BY <1>3 DEF Send, BothUp, Other
<1>4. CASE BothUp(k)
  <2> DEFINE j == [k EXCEPT !.near = [k.near EXCEPT !.queue = r]]
  <2>1. Send(k, "far", m) = j
    BY <1>1, <1>4 DEF Send, BothUp, Other, Links
  <2> HIDE DEF r
  <2>2. [k.near EXCEPT !.queue = r] \in LinkEnd(Reply)
    BY <1>1, <1>2 DEF LinkEnd
  <2>3. /\ j \in Links /\ j.far = k.far /\ j.near.up = k.near.up /\ j.near.queue = r
        /\ j.from = k.from /\ j.to = k.to /\ j.holder = k.holder /\ j.named = k.named
    BY <1>1, <2>2 DEF Links, LinkEnd
  <2> HIDE DEF j
  <2>4. LinkOK(j)
    BY <2>3 DEF LinkOK
  <2> QED BY <1>2, <2>1, <2>3, <2>4
<1> QED BY <1>3, <1>4

LEMMA ShutIs ==
  ASSUME NEW k, LinkOK(k), NEW e \in End
  PROVE  LET j == Shut(k, e) IN
         LinkOK(j) /\ Later(k, j) /\ ~j[e].up /\ j.from = k.from /\ j.to = k.to
<1> DEFINE z == [open |-> FALSE, up |-> FALSE, queue |-> <<>>]
           j == Shut(k, e)
<1>1. k \in Links /\ z \in LinkEnd(Reply) /\ z \in LinkEnd(Request) /\ ~z.up /\ DOMAIN z.queue = {}
  BY DEF LinkOK, LinkEnd
<1> HIDE DEF z
<1>2. CASE e = "near"
  <2>1. j = [k EXCEPT !.near = z]
    BY <1>1, <1>2 DEF Shut, Links, z
  <2>2. /\ j \in Links /\ j.near = z /\ j.far = k.far /\ j.from = k.from /\ j.to = k.to
        /\ j.holder = k.holder /\ j.named = k.named
    BY <1>1, <2>1 DEF Links
  <2> HIDE DEF j
  <2> QED BY <1>1, <1>2, <2>2 DEF LinkOK, Later, BothUp, j
<1>3. CASE e = "far"
  <2>1. j = [k EXCEPT !.far = z, !.holder = "none", !.named = FALSE]
    BY <1>1, <1>3 DEF Shut, Links, z
  <2>2. /\ j \in Links /\ j.near = k.near /\ j.far = z /\ j.from = k.from /\ j.to = k.to
        /\ j.holder = "none"
    BY <1>1, <2>1 DEF Links
  <2> HIDE DEF j
  <2> QED BY <1>1, <1>3, <2>2 DEF LinkOK, Later, BothUp, j
<1> QED BY <1>2, <1>3 DEF End

\* phoned closes a link, and holder says why.
LEMMA ClosesIs ==
  ASSUME NEW k, LinkOK(k), NEW h \in {"none", "dropped"}
  PROVE  LET j == [Shut(k, "far") EXCEPT !.holder = h] IN
         LinkOK(j) /\ Later(k, j) /\ ~j.far.up /\ j.from = k.from /\ j.to = k.to
<1> DEFINE s == Shut(k, "far")
           j == [s EXCEPT !.holder = h]
<1>1. LinkOK(s) /\ Later(k, s) /\ ~s.far.up /\ s.from = k.from /\ s.to = k.to
  <2>1. "far" \in End
    BY DEF End
  <2> QED BY <2>1, ShutIs
<1>2. \A i \in DOMAIN s.far.queue : s.far.queue[i] # "connect"
  <2>1. s.far.queue = <<>>
    BY DEF Shut, LinkOK, Links
  <2> QED BY <2>1
<1> HIDE DEF s
<1>3. /\ j \in Links /\ j.near = s.near /\ j.far = s.far /\ j.from = s.from /\ j.to = s.to
      /\ j.holder = h /\ j.named = s.named
  BY <1>1 DEF LinkOK, Links
<1> HIDE DEF j
<1> QED BY <1>1, <1>2, <1>3 DEF LinkOK, Later, BothUp, j, s

LEMMA ReadFar ==
  ASSUME NEW k, LinkOK(k), HasMessage(k, "far")
  PROVE  LET j == Read(k, "far")
             m == Head(k.far.queue) IN
         /\ LinkOK(j) /\ j.near = k.near /\ j.far.up = k.far.up /\ m \in Request
         /\ j.from = k.from /\ j.to = k.to /\ j.holder = k.holder /\ j.named = k.named
         /\ \A i \in DOMAIN j.far.queue : j.far.queue[i] # "connect"
         /\ m = "connect" => k.holder = "phoned" /\ ~k.named
         /\ Count(k.far.queue, Question) \in Nat
         /\ m \in Question => Count(j.far.queue, Question) = Count(k.far.queue, Question) - 1
         /\ m \notin Question => Later(k, j)
<1> DEFINE q == k.far.queue
           r == Tail(q)
           m == Head(q)
<1>1. k \in Links /\ k.far \in LinkEnd(Request) /\ q \in Seq(Request) /\ q # <<>>
  BY DEF LinkOK, Links, LinkEnd, HasMessage
<1>2. /\ r \in Seq(Request) /\ Len(r) = Len(q) - 1 /\ Len(q) \in Nat /\ Len(q) > 0
      /\ m \in Request /\ m = q[1] /\ \A i \in 1..Len(q) - 1 : r[i] = q[i + 1]
      /\ Count(q, Question) \in Nat
      /\ m \in Question => Count(r, Question) = Count(q, Question) - 1
      /\ m \notin Question => Count(r, Question) = Count(q, Question)
  <2> HIDE DEF q
  <2> QED BY <1>1, CountTail
<1> DEFINE j == [k EXCEPT !.far = [k.far EXCEPT !.queue = r]]
<1>3. Read(k, "far") = j
  BY <1>1 DEF Read, Links
<1> HIDE DEF r
<1>4. [k.far EXCEPT !.queue = r] \in LinkEnd(Request)
  BY <1>1, <1>2 DEF LinkEnd
<1>5. /\ j \in Links /\ j.near = k.near /\ j.far.up = k.far.up /\ j.far.queue = r
      /\ j.from = k.from /\ j.to = k.to /\ j.holder = k.holder /\ j.named = k.named
  BY <1>1, <1>4 DEF Links, LinkEnd
<1> HIDE DEF j, m
<1>6. ASSUME NEW i \in DOMAIN r PROVE r[i] # "connect"
  <2>1. i \in 1..Len(q) - 1 /\ i + 1 \in DOMAIN q /\ i + 1 # 1
    BY <1>1, <1>2
  <2>2. q[i + 1] # "connect"
    BY <2>1 DEF LinkOK
  <2> QED BY <1>2, <2>1, <2>2
<1>7. m = "connect" => k.holder = "phoned" /\ ~k.named
  <2>1. 1 \in DOMAIN q
    BY <1>1, <1>2
  <2> QED BY <1>2, <2>1 DEF LinkOK
<1>8. LinkOK(j)
  BY <1>5, <1>6 DEF LinkOK
<1>9. m \notin Question => Later(k, j)
  BY <1>2, <1>5 DEF Later, BothUp
<1> QED BY <1>2, <1>3, <1>5, <1>6, <1>7, <1>8, <1>9 DEF m

LEMMA ReadNear ==
  ASSUME NEW k, LinkOK(k), HasMessage(k, "near")
  PROVE  LET j == Read(k, "near") IN
         /\ LinkOK(j) /\ j.far = k.far /\ j.near.up = k.near.up
         /\ j.from = k.from /\ j.to = k.to /\ j.holder = k.holder /\ j.named = k.named
         /\ Len(k.near.queue) \in Nat /\ Len(k.near.queue) > 0
         /\ Len(j.near.queue) = Len(k.near.queue) - 1
<1> DEFINE q == k.near.queue
           r == Tail(q)
<1>1. k \in Links /\ k.near \in LinkEnd(Reply) /\ q \in Seq(Reply) /\ q # <<>>
  BY DEF LinkOK, Links, LinkEnd, HasMessage
<1>2. r \in Seq(Reply) /\ Len(r) = Len(q) - 1 /\ Len(q) \in Nat /\ Len(q) > 0
  BY <1>1
<1> DEFINE j == [k EXCEPT !.near = [k.near EXCEPT !.queue = r]]
<1>3. Read(k, "near") = j
  BY <1>1 DEF Read, Links
<1> HIDE DEF r
<1>4. [k.near EXCEPT !.queue = r] \in LinkEnd(Reply)
  BY <1>1, <1>2 DEF LinkEnd
<1>5. /\ j \in Links /\ j.far = k.far /\ j.near.up = k.near.up /\ j.near.queue = r
      /\ j.from = k.from /\ j.to = k.to /\ j.holder = k.holder /\ j.named = k.named
  BY <1>1, <1>4 DEF Links, LinkEnd
<1> HIDE DEF j
<1>6. LinkOK(j)
  BY <1>5 DEF LinkOK
<1> QED BY <1>2, <1>3, <1>5, <1>6

-----------------------------------------------------------------------------
(***************************************************************************)
(* All the links.  After(ks, ls): ks have become ls and on none of them    *)
(* has anything been asked or answered; this is what closing links,        *)
(* deleting entries and calling back do.                                   *)
(***************************************************************************)
AllOK(ks) == ks \in Seq(Links) /\ \A l \in 1..Len(ks) : LinkOK(ks[l])
After(ks, ls) == AllOK(ls) /\ Len(ks) <= Len(ls) /\ \A l \in 1..Len(ks) : Later(ks[l], ls[l])

LEMMA AfterSelf ==
  ASSUME NEW ks, AllOK(ks)
  PROVE  After(ks, ks) /\ Len(ks) \in Nat
BY DEF After, AllOK, Later

LEMMA AfterAgain ==
  ASSUME NEW ks, AllOK(ks), NEW ls, After(ks, ls), NEW ms, After(ls, ms)
  PROVE  After(ks, ms)
<1>1. Len(ks) \in Nat /\ Len(ls) \in Nat /\ Len(ms) \in Nat /\ Len(ks) <= Len(ls) /\ Len(ls) <= Len(ms)
  BY DEF After, AllOK
<1>2. ASSUME NEW l \in 1..Len(ks) PROVE Later(ks[l], ms[l])
  <2>1. l \in 1..Len(ls)
    BY <1>1
  <2>2. Later(ks[l], ls[l]) /\ Later(ls[l], ms[l])
    BY <2>1 DEF After
  <2> QED BY <2>2 DEF Later
<1> QED BY <1>1, <1>2 DEF After

\* One link changes.
LEMMA OneChanged ==
  ASSUME NEW ks, AllOK(ks), NEW l \in 1..Len(ks), NEW j, LinkOK(j)
  PROVE  LET ls == [ks EXCEPT ![l] = j] IN
         /\ AllOK(ls) /\ Len(ls) = Len(ks) /\ ls[l] = j
         /\ \A i \in 1..Len(ks) : i # l => ls[i] = ks[i]
         /\ Later(ks[l], j) => After(ks, ls)
<1> DEFINE ls == [ks EXCEPT ![l] = j]
<1>1. ks \in Seq(Links) /\ j \in Links /\ Len(ks) \in Nat /\ \A i \in 1..Len(ks) : LinkOK(ks[i])
  BY DEF AllOK, LinkOK
<1>2. /\ ls \in Seq(Links) /\ Len(ls) = Len(ks) /\ ls[l] = j
      /\ \A i \in 1..Len(ks) : i # l => ls[i] = ks[i]
  <2>1. ls \in Seq(Links) /\ Len(ls) = Len(ks)
    BY <1>1, ExceptSeq
  <2> QED BY <1>1, <2>1
<1> HIDE DEF ls
<1>3. AllOK(ls)
  BY <1>1, <1>2 DEF AllOK
<1>4. Later(ks[l], j) => After(ks, ls)
  BY <1>1, <1>2, <1>3 DEF After, Later
<1> QED BY <1>2, <1>3, <1>4 DEF ls

LEMMA CloseOnIs ==
  ASSUME NEW ks, AllOK(ks), NEW l, NEW e \in End
  PROVE  LET ls == CloseOn(ks, l, e) IN
         /\ After(ks, ls) /\ Len(ls) = Len(ks)
         /\ l \in 1..Len(ks) /\ l # None => ~ls[l][e].up
<1>1. ks \in Seq(Links) /\ DOMAIN ks = 1..Len(ks) /\ ks = [i \in 1..Len(ks) |-> ks[i]]
  BY DEF AllOK
<1>2. CASE l = None
  BY <1>2, AfterSelf DEF CloseOn, On
<1>3. CASE l # None /\ l \in 1..Len(ks)
  <2> DEFINE j == Shut(ks[l], e)
  <2>1. LinkOK(j) /\ Later(ks[l], j) /\ ~j[e].up
    <3>1. LinkOK(ks[l])
      BY <1>3 DEF AllOK
    <3> QED BY <3>1, ShutIs
  <2> DEFINE ls == [ks EXCEPT ![l] = j]
  <2>2. CloseOn(ks, l, e) = ls
    BY <1>3 DEF CloseOn, On
  <2> HIDE DEF j
  <2>3. After(ks, ls) /\ Len(ls) = Len(ks) /\ ls[l] = j
    BY <1>3, <2>1, OneChanged
  <2> HIDE DEF ls
  <2> QED BY <2>1, <2>2, <2>3
<1>4. CASE l # None /\ l \notin 1..Len(ks)
  <2>1. CloseOn(ks, l, e) = ks
    BY <1>1, <1>4 DEF CloseOn, On
  <2> QED BY <1>4, <2>1, AfterSelf
<1> QED BY <1>2, <1>3, <1>4

LEMMA SendOnIs ==
  ASSUME NEW ks, AllOK(ks), NEW l, NEW m \in Request \ {"connect", "dial"}
  PROVE  LET ls == SendOn(ks, l, "near", m) IN After(ks, ls) /\ Len(ls) = Len(ks)
<1>1. ks \in Seq(Links) /\ DOMAIN ks = 1..Len(ks) /\ ks = [i \in 1..Len(ks) |-> ks[i]]
  BY DEF AllOK
<1>2. CASE l = None
  BY <1>2, AfterSelf DEF SendOn, On
<1>3. CASE l # None /\ l \in 1..Len(ks)
  <2> DEFINE j == Send(ks[l], "near", m)
  <2>1. LinkOK(j) /\ Later(ks[l], j)
    <3>1. LinkOK(ks[l]) /\ m \in Request /\ m # "connect" /\ m \notin Question
      BY <1>3 DEF AllOK, Question
    <3> QED BY <3>1, SendNear
  <2> DEFINE ls == [ks EXCEPT ![l] = j]
  <2>2. SendOn(ks, l, "near", m) = ls
    BY <1>3 DEF SendOn, On
  <2> HIDE DEF j
  <2>3. After(ks, ls) /\ Len(ls) = Len(ks)
    BY <1>3, <2>1, OneChanged
  <2> HIDE DEF ls
  <2> QED BY <2>2, <2>3
<1>4. CASE l # None /\ l \notin 1..Len(ks)
  <2>1. SendOn(ks, l, "near", m) = ks
    BY <1>1, <1>4 DEF SendOn, On
  <2> QED BY <1>4, <2>1, AfterSelf
<1> QED BY <1>2, <1>3, <1>4

LEMMA CloseConnectionIs ==
  ASSUME NEW ks, AllOK(ks), NEW l
  PROVE  After(ks, CloseConnection(ks, l)) /\ Len(CloseConnection(ks, l)) = Len(ks)
<1> DEFINE ls == SendOn(ks, l, "near", "hangup")
           ms == SendOn(ls, l, "near", "goodbye")
<1>1. /\ "hangup" \in Request \ {"connect", "dial"}
      /\ "goodbye" \in Request \ {"connect", "dial"}
  BY DEF Request
<1>2. After(ks, ls) /\ Len(ls) = Len(ks)
  BY <1>1, SendOnIs
<1> HIDE DEF ls
<1>3. AllOK(ls)
  BY <1>2 DEF After
<1>4. After(ls, ms) /\ Len(ms) = Len(ls)
  BY <1>1, <1>3, SendOnIs
<1> HIDE DEF ms
<1>5. After(ks, ms)
  BY <1>2, <1>4, AfterAgain
<1> QED BY <1>2, <1>4, <1>5 DEF CloseConnection, ls, ms

LEMMA HangUpIs ==
  ASSUME NEW ks, AllOK(ks), NEW e
  PROVE  After(ks, HangUp(ks, e)) /\ Len(HangUp(ks, e)) = Len(ks)
<1> DEFINE ls == CloseOn(ks, e.in, "far")
           ms == CloseOn(ls, e.out, "near")
<1>1. "far" \in End /\ "near" \in End
  BY DEF End
<1>2. After(ks, ls) /\ Len(ls) = Len(ks)
  BY <1>1, CloseOnIs
<1> HIDE DEF ls
<1>3. AllOK(ls)
  BY <1>2 DEF After
<1>4. After(ls, ms) /\ Len(ms) = Len(ls)
  BY <1>1, <1>3, CloseOnIs
<1> HIDE DEF ms
<1>5. After(ks, ms)
  BY <1>2, <1>4, AfterAgain
<1> QED BY <1>2, <1>4, <1>5 DEF HangUp, ls, ms

LEMMA OneMore ==
  ASSUME NEW ks, AllOK(ks), NEW j, LinkOK(j)
  PROVE  LET ls == Append(ks, j) IN
         /\ After(ks, ls) /\ Len(ls) = Len(ks) + 1 /\ ls[Len(ks) + 1] = j
         /\ \A i \in 1..Len(ks) : ls[i] = ks[i]
<1> DEFINE ls == Append(ks, j)
<1>1. ks \in Seq(Links) /\ j \in Links /\ Len(ks) \in Nat /\ \A i \in 1..Len(ks) : LinkOK(ks[i])
  BY DEF AllOK, LinkOK
<1>2. /\ ls \in Seq(Links) /\ Len(ls) = Len(ks) + 1 /\ ls[Len(ks) + 1] = j
      /\ \A i \in 1..Len(ks) : ls[i] = ks[i]
  BY <1>1
<1> HIDE DEF ls
<1>3. AllOK(ls)
  <2>1. \A i \in 1..Len(ls) : i = Len(ks) + 1 \/ i \in 1..Len(ks)
    BY <1>1, <1>2
  <2> QED BY <1>1, <1>2, <2>1 DEF AllOK
<1>4. After(ks, ls)
  BY <1>1, <1>2, <1>3 DEF After, Later
<1> QED BY <1>2, <1>4 DEF ls

-----------------------------------------------------------------------------
Ent(G) == [in : G, out : Nat \cup {None}]
Ents(G) == Seq(Ent(G))
\* Links and entries after ks, when the links G are with a phone.
Since(ks, G) == {s \in [ks : Seq(Links), ents : Ents(G)] : After(ks, s.ks)}

LEMMA DeleteIs ==
  ASSUME NEW ks, AllOK(ks), NEW G, NEW s \in Since(ks, G), NEW x
  PROVE  Delete(s, x) \in Since(ks, G)
<1> DEFINE found == Found(s.ents, x)
           i == First(found)
           ls == HangUp(s.ks, s.ents[i])
           es == DeleteCaller(s.ents, i)
<1>1. CASE found = {}
  BY <1>1 DEF Delete
<1>2. CASE found # {}
  <2>1. Delete(s, x) = [ks |-> ls, ents |-> es]
    BY <1>2 DEF Delete
  <2>2. s.ents \in Ents(G) /\ Len(s.ents) \in Nat /\ Len(s.ents) > 0 /\ AllOK(s.ks) /\ After(ks, s.ks)
    BY <1>2 DEF Since, Ents, After, Found
  <2>3. es \in Ents(G)
    <3> HIDE DEF i
    <3> DEFINE n == Len(s.ents) - 1
    <3>1. n \in Nat /\ \A j \in 1..n : j \in DOMAIN s.ents /\ Len(s.ents) \in DOMAIN s.ents
      BY <2>2 DEF Ents
    <3>2. es = [j \in 1..n |-> IF j < i THEN s.ents[j] ELSE s.ents[Len(s.ents)]]
      BY DEF DeleteCaller
    <3>3. \A j \in DOMAIN s.ents : s.ents[j] \in Ent(G)
      BY <2>2 DEF Ents
    <3> HIDE DEF es, n
    <3> QED BY <3>1, <3>2, <3>3 DEF Ents
  <2>4. After(s.ks, ls) /\ Len(ls) = Len(s.ks)
    <3> HIDE DEF i
    <3> QED BY <2>2, HangUpIs
  <2> HIDE DEF ls, es
  <2>5. After(ks, ls) /\ ls \in Seq(Links)
    BY <2>2, <2>4, AfterAgain DEF After, AllOK
  <2> QED BY <2>1, <2>3, <2>5 DEF Since
<1> QED BY <1>1, <1>2

\* The links G among ks are with a phone.
LEMMA AnswerOneIs ==
  ASSUME NEW ks, AllOK(ks), link \in Seq(Links), NEW G, G \subseteq 1..Len(link),
         NEW s \in Since(ks, G), NEW u \in User, NEW e \in Ent(G),
         NEW reject \in BOOLEAN
  PROVE  AnswerOne(s, u, e, reject) \in Since(ks, G)
<1> DEFINE v == link[e.in].from
           m == IF reject THEN "reject" ELSE "answer"
           a == Send(NewLink(u, v), "near", "connect")
           back == Send(a, "near", m)
           opened == Append(s.ks, back)
           shut == Shut(back, "near")
           first == First(Found(s.ents, e.in))
           es == [s.ents EXCEPT ![first].out = Len(opened)]
           d == Delete(s, e.in)
<1>1. v \in User
  <2> DEFINE l == e.in
  <2>0. l \in 1..Len(link)
    BY DEF Ent
  <2> HIDE DEF l
  <2>1. link[l] \in Links
    BY <2>0
  <2> QED BY <2>1 DEF Links, l
<1> HIDE DEF v
<1>2. LinkOK(a)
  <2>1. "connect" \in Request
    BY DEF Request
  <2> QED BY <1>1, <2>1, NewLinkIs, SendNear
<1> HIDE DEF a
<1>3. LinkOK(back)
  <2>1. m \in Request /\ m # "connect"
    BY DEF Request
  <2> HIDE DEF m
  <2> QED BY <1>2, <2>1, SendNear
<1> HIDE DEF back
<1>4. LinkOK(shut)
  <2>1. "near" \in End
    BY DEF End
  <2> QED BY <1>3, <2>1, ShutIs
<1> HIDE DEF shut
<1>5. /\ s \in [ks : Seq(Links), ents : Ents(G)] /\ AllOK(s.ks) /\ After(ks, s.ks)
      /\ s.ents \in Ents(G)
  BY DEF Since, After
<1>6. d \in Since(ks, G)
  BY DeleteIs
<1>7. d \in [ks : Seq(Links), ents : Ents(G)] /\ AllOK(d.ks) /\ After(ks, d.ks)
  BY <1>6 DEF Since, After
<1>8. AnswerOne(s, u, e, reject) =
        IF ~Reached(s, e) THEN d
        ELSE IF reject THEN [d EXCEPT !.ks = Append(d.ks, shut)]
        ELSE [ks |-> opened, ents |-> es]
  BY DEF AnswerOne, v, a, back, shut
<1> HIDE DEF d
<1>9. [d EXCEPT !.ks = Append(d.ks, shut)] \in Since(ks, G)
  <2>1. After(d.ks, Append(d.ks, shut))
    BY <1>4, <1>7, OneMore
  <2>2. After(ks, Append(d.ks, shut)) /\ Append(d.ks, shut) \in Seq(Links)
    BY <1>7, <2>1, AfterAgain DEF After, AllOK
  <2> QED BY <1>7, <2>2 DEF Since
<1>10. [ks |-> opened, ents |-> es] \in Since(ks, G)
  <2> HIDE DEF first
  <2>1. After(s.ks, opened) /\ Len(opened) = Len(s.ks) + 1 /\ Len(s.ks) \in Nat
    BY <1>3, <1>5, OneMore DEF AllOK
  <2>2. Len(opened) \in Nat
    BY <2>1
  <2> HIDE DEF opened
  <2>3. After(ks, opened) /\ opened \in Seq(Links)
    BY <1>5, <2>1, AfterAgain DEF After, AllOK
  <2>4. es \in Ents(G)
    <3> DEFINE n == Len(s.ents)
    <3>1. n \in Nat /\ DOMAIN s.ents = 1..n
      BY <1>5 DEF Ents
    <3>2. ASSUME NEW i \in DOMAIN s.ents PROVE es[i] \in Ent(G)
      <4>1. s.ents[i] \in Ent(G)
        BY <1>5 DEF Ents
      <4> QED BY <2>2, <4>1 DEF Ent
    <3>3. es = [i \in 1..n |-> es[i]]
      BY <3>1
    <3> HIDE DEF es, n
    <3>4. es \in [1..n -> Ent(G)]
      BY <3>1, <3>2, <3>3
    <3> QED BY <3>1, <3>4, SeqDef DEF Ents
  <2> QED BY <2>3, <2>4 DEF Since
<1> QED BY <1>6, <1>8, <1>9, <1>10

-----------------------------------------------------------------------------
(***************************************************************************)
(* The inductive invariant, of any links ks, phones ph and pipes pi.  A    *)
(* phone waits for a link it opened itself, and in "connect" for nothing   *)
(* else; only links that have left phoned are in an entry or in a pipe, a  *)
(* pipe's are its user's; and each link has the answers due that its       *)
(* opener waits for.                                                       *)
(***************************************************************************)
WithPhone(ks) == {l \in 1..Len(ks) : ks[l].holder # "phoned"}
Passed(G) == [link : G, ack : BOOLEAN]
Asked(l) == {[link |-> l, ack |-> TRUE]}

PhoneOK(p, u, ks) ==
  /\ p \in [pc : {"off", "idle", "connect", "dial", "over"}, dial : 1..Len(ks) \cup {None},
            wait : 1..Len(ks) \cup {None}, ents : Ents(WithPhone(ks))]
  /\ p.wait # None => ks[p.wait].from = u
  /\ p.dial # None => ks[p.dial].from = u
  /\ p.pc = "connect" <=> p.wait # None
  /\ p.pc = "connect" => p.dial = None
  /\ p.pc = "dial" => p.dial # None
PipeOK(q, u, ks) ==
  /\ q \in Seq(Passed(WithPhone(ks)))
  /\ \A i \in DOMAIN q : ks[q[i].link].to = u
ReplyOK(k, p, q, l) ==
  BothUp(k) /\ l \in {p.wait, p.dial} =>
    Count(k.far.queue, Question) + Len(k.near.queue) + Count(q, Asked(l))
      = IF Waits(p, l) THEN 1 ELSE 0
PInv(ks, ph, pi) ==
  /\ AllOK(ks)
  /\ ph = [u \in User |-> ph[u]] /\ pi = [u \in User |-> pi[u]]
  /\ \A u \in User : PhoneOK(ph[u], u, ks) /\ PipeOK(pi[u], u, ks)
  /\ \A l \in 1..Len(ks) : ReplyOK(ks[l], ph[ks[l].from], pi[ks[l].to], l)

Grown(ks, ls) ==
  /\ AllOK(ls) /\ Len(ks) <= Len(ls)
  /\ \A l \in 1..Len(ks) : /\ ls[l].from = ks[l].from /\ ls[l].to = ks[l].to
                           /\ ks[l].holder # "phoned" => ls[l].holder # "phoned"

LEMMA AfterGrown ==
  ASSUME NEW ks, NEW ls, After(ks, ls)
  PROVE  Grown(ks, ls)
BY DEF After, Grown, Later

LEMMA MoreSeq ==
  ASSUME NEW S, NEW T, S \subseteq T, NEW s \in Seq(S)
  PROVE  s \in Seq(T)
<1>1. Len(s) \in Nat /\ s \in [1..Len(s) -> S]
  BY SeqDef, LenProperties
<1>2. s \in [1..Len(s) -> T]
  BY <1>1
<1> QED BY <1>1, <1>2, SeqDef

LEMMA GrownSets ==
  ASSUME NEW ks, AllOK(ks), NEW ls, Grown(ks, ls)
  PROVE  /\ Len(ks) \in Nat /\ Len(ls) \in Nat /\ Len(ks) <= Len(ls) /\ 1..Len(ks) \subseteq 1..Len(ls)
         /\ WithPhone(ks) \subseteq WithPhone(ls)
         /\ Ents(WithPhone(ks)) \subseteq Ents(WithPhone(ls))
         /\ Seq(Passed(WithPhone(ks))) \subseteq Seq(Passed(WithPhone(ls)))
<1>1. Len(ks) \in Nat /\ Len(ls) \in Nat /\ Len(ks) <= Len(ls)
  BY DEF AllOK, Grown
<1>2. WithPhone(ks) \subseteq WithPhone(ls)
  BY <1>1 DEF Grown, WithPhone
<1>3. Ent(WithPhone(ks)) \subseteq Ent(WithPhone(ls)) /\ Passed(WithPhone(ks)) \subseteq Passed(WithPhone(ls))
  BY <1>2 DEF Ent, Passed
<1>4. Ents(WithPhone(ks)) \subseteq Ents(WithPhone(ls))
  BY <1>3, MoreSeq DEF Ents
<1>5. Seq(Passed(WithPhone(ks))) \subseteq Seq(Passed(WithPhone(ls)))
  BY <1>3, MoreSeq
<1> QED BY <1>1, <1>2, <1>4, <1>5

LEMMA PhoneGrown ==
  ASSUME NEW ks, AllOK(ks), NEW ls, Grown(ks, ls), NEW p, NEW u, PhoneOK(p, u, ks), None \notin Nat
  PROVE  PhoneOK(p, u, ls)
<1>1. /\ 1..Len(ks) \subseteq 1..Len(ls) /\ Ents(WithPhone(ks)) \subseteq Ents(WithPhone(ls))
  BY GrownSets
<1>2. /\ p.wait # None => p.wait \in 1..Len(ks)
      /\ p.dial # None => p.dial \in 1..Len(ks)
  BY DEF PhoneOK
<1>3. /\ p.wait # None => ls[p.wait].from = u
      /\ p.dial # None => ls[p.dial].from = u
  BY <1>2 DEF PhoneOK, Grown
<1>4. p \in [pc : {"off", "idle", "connect", "dial", "over"}, dial : 1..Len(ls) \cup {None},
            wait : 1..Len(ls) \cup {None}, ents : Ents(WithPhone(ls))]
  BY <1>1 DEF PhoneOK
<1> QED BY <1>3, <1>4 DEF PhoneOK

LEMMA PipeGrown ==
  ASSUME NEW ks, AllOK(ks), NEW ls, Grown(ks, ls), NEW q, NEW u, PipeOK(q, u, ks)
  PROVE  PipeOK(q, u, ls)
<1>1. q \in Seq(Passed(WithPhone(ls)))
  BY GrownSets DEF PipeOK
<1>2. ASSUME NEW i \in DOMAIN q PROVE ls[q[i].link].to = u
  <2>1. q[i] \in Passed(WithPhone(ks))
    BY DEF PipeOK
  <2>2. q[i].link \in 1..Len(ks)
    BY <2>1 DEF Passed, WithPhone
  <2>3. ks[q[i].link].to = u
    BY DEF PipeOK
  <2> QED BY <2>2, <2>3 DEF Grown
<1> QED BY <1>1, <1>2 DEF PipeOK

\* Of the links but m nothing is asked and nothing answered; what u, whose phone o becomes p, waits
\* for is what he waited for, and his pipe, r and then q, says the same.
OthersLater(ks, ls, m) == \A l \in 1..Len(ks) : l # m => Later(ks[l], ls[l])
WaitsSame(ks, ls, m, u, o, p) ==
  \A l \in 1..Len(ls) :
    l # m /\ ls[l].from = u /\ BothUp(ls[l]) /\ l \in {p.wait, p.dial} =>
      /\ l <= Len(ks) /\ l \in {o.wait, o.dial}
      /\ Waits(p, l) <=> Waits(o, l)
AsksSame(ks, ls, m, u, r, q) ==
  \A l \in 1..Len(ks) :
    l # m /\ ls[l].to = u /\ BothUp(ls[l]) => Count(q, Asked(l)) = Count(r, Asked(l))
ReplyTo(ls, m, ph, pi) == m \in 1..Len(ls) => ReplyOK(ls[m], ph[ls[m].from], pi[ls[m].to], m)

\* A step of user u, in which link m is asked or answered.
LEMMA StepIs ==
  ASSUME NEW ks, NEW ph, NEW pi, PInv(ks, ph, pi), NEW ls, Grown(ks, ls),
         NEW m, NEW u \in User, NEW p, NEW q, None \notin Nat,
         OthersLater(ks, ls, m), PhoneOK(p, u, ls), PipeOK(q, u, ls),
         WaitsSame(ks, ls, m, u, ph[u], p), AsksSame(ks, ls, m, u, pi[u], q),
         ReplyTo(ls, m, [ph EXCEPT ![u] = p], [pi EXCEPT ![u] = q])
  PROVE  PInv(ls, [ph EXCEPT ![u] = p], [pi EXCEPT ![u] = q])
<1> DEFINE ph2 == [ph EXCEPT ![u] = p]
           pi2 == [pi EXCEPT ![u] = q]
<1>1. /\ ph2 = [v \in User |-> ph2[v]] /\ pi2 = [v \in User |-> pi2[v]]
      /\ \A v \in User : ph2[v] = IF v = u THEN p ELSE ph[v]
      /\ \A v \in User : pi2[v] = IF v = u THEN q ELSE pi[v]
  BY DEF PInv
<1> HIDE DEF ph2, pi2
<1>2. ASSUME NEW v \in User PROVE PhoneOK(ph2[v], v, ls) /\ PipeOK(pi2[v], v, ls)
  <2>1. AllOK(ks) /\ PhoneOK(ph[v], v, ks) /\ PipeOK(pi[v], v, ks)
    BY DEF PInv
  <2>2. PhoneOK(ph[v], v, ls) /\ PipeOK(pi[v], v, ls)
    BY <2>1, PhoneGrown, PipeGrown
  <2> QED BY <1>1, <2>2
<1>3. ASSUME NEW l \in 1..Len(ls)
      PROVE  ReplyOK(ls[l], ph2[ls[l].from], pi2[ls[l].to], l)
  <2>0. AllOK(ls) /\ Len(ks) \in Nat /\ Len(ls) \in Nat /\ Len(ks) <= Len(ls)
    BY DEF Grown, PInv, AllOK
  <2> DEFINE v == ls[l].from
             w == ls[l].to
  <2>1. v \in User /\ w \in User
    BY <2>0 DEF AllOK, LinkOK, Links
  <2>2. CASE l = m
    BY <2>2 DEF ph2, pi2, ReplyTo
  <2>3. CASE l # m
    <3> SUFFICES ASSUME BothUp(ls[l]), l \in {ph2[v].wait, ph2[v].dial}
                 PROVE  Count(ls[l].far.queue, Question) + Len(ls[l].near.queue) + Count(pi2[w], Asked(l))
                          = IF Waits(ph2[v], l) THEN 1 ELSE 0
      BY DEF ReplyOK
    <3>1. /\ l \in 1..Len(ks) /\ l \in {ph[v].wait, ph[v].dial}
          /\ Waits(ph2[v], l) <=> Waits(ph[v], l)
      <4>1. CASE v = u
        <5>1. ph2[v] = p
          BY <1>1, <2>1, <4>1
        <5> QED BY <2>0, <2>3, <4>1, <5>1 DEF WaitsSame
      <4>2. CASE v # u
        <5>1. ph2[v] = ph[v]
          BY <1>1, <2>1, <4>2
        <5>2. PhoneOK(ph[v], v, ks)
          BY <2>1 DEF PInv
        <5>3. l \in 1..Len(ks)
          BY <2>0, <5>1, <5>2 DEF PhoneOK
        <5> QED BY <5>1, <5>3
      <4> QED BY <4>1, <4>2
    <3>2. Later(ks[l], ls[l])
      BY <2>3, <3>1 DEF OthersLater
    <3>3. /\ ks[l].from = v /\ ks[l].to = w /\ BothUp(ks[l])
          /\ Len(ls[l].near.queue) = Len(ks[l].near.queue)
          /\ Count(ls[l].far.queue, Question) = Count(ks[l].far.queue, Question)
      BY <3>2 DEF Later
    <3>4. Count(pi2[w], Asked(l)) = Count(pi[w], Asked(l))
      BY <1>1, <2>1, <2>3, <3>1 DEF AsksSame
    <3>5. ReplyOK(ks[l], ph[v], pi[w], l)
      BY <3>1, <3>3 DEF PInv
    <3> HIDE DEF v, w
    <3>6. Count(ks[l].far.queue, Question) + Len(ks[l].near.queue) + Count(pi[w], Asked(l))
            = IF Waits(ph[v], l) THEN 1 ELSE 0
      BY <3>1, <3>3, <3>5 DEF ReplyOK
    <3> QED BY <3>1, <3>3, <3>4, <3>6
  <2> QED BY <2>2, <2>3
<1> QED BY <1>1, <1>2, <1>3 DEF PInv, Grown, ph2, pi2

\* A step of user u, in which no link is.
LEMMA QuietIs ==
  ASSUME NEW ks, NEW ph, NEW pi, PInv(ks, ph, pi), NEW ls, After(ks, ls),
         NEW u \in User, NEW p, None \notin Nat, PhoneOK(p, u, ls),
         WaitsSame(ks, ls, 0, u, ph[u], p)
  PROVE  PInv(ls, [ph EXCEPT ![u] = p], pi)
<1> DEFINE q == pi[u]
<1>1. Grown(ks, ls) /\ \A l \in 1..Len(ks) : Later(ks[l], ls[l])
  BY AfterGrown DEF After
<1>2. PipeOK(q, u, ls)
  <2>1. AllOK(ks) /\ PipeOK(q, u, ks)
    BY DEF PInv
  <2> QED BY <1>1, <2>1, PipeGrown
<1>3. [pi EXCEPT ![u] = q] = pi
  BY DEF PInv
<1>4. 0 \notin 1..Len(ls)
  <2>1. Len(ls) \in Nat
    BY <1>1 DEF Grown, AllOK
  <2> QED BY <2>1
<1> HIDE DEF q
<1>5. OthersLater(ks, ls, 0) /\ AsksSame(ks, ls, 0, u, pi[u], q)
      /\ ReplyTo(ls, 0, [ph EXCEPT ![u] = p], [pi EXCEPT ![u] = q])
  BY <1>1, <1>4 DEF OthersLater, AsksSame, ReplyTo, q
<1>6. PInv(ls, [ph EXCEPT ![u] = p], [pi EXCEPT ![u] = q])
  BY <1>1, <1>2, <1>5, StepIs
<1> QED BY <1>3, <1>6

LEMMA SamePhones ==
  ASSUME NEW ks, NEW ph, NEW pi, PInv(ks, ph, pi), NEW ls, After(ks, ls), NEW u \in User, None \notin Nat
  PROVE  PInv(ls, ph, pi)
<1>1. PhoneOK(ph[u], u, ls)
  BY AfterGrown, PhoneGrown DEF PInv
<1>2. [ph EXCEPT ![u] = ph[u]] = ph
  BY DEF PInv
<1>3. \A l \in {ph[u].wait, ph[u].dial} : l # None => l <= Len(ks) /\ l \in 1..Len(ks)
  <2>1. PhoneOK(ph[u], u, ks) /\ Len(ks) \in Nat
    BY DEF PInv, AllOK
  <2> QED BY <2>1 DEF PhoneOK
<1>4. PInv(ls, [ph EXCEPT ![u] = ph[u]], pi)
  <2>1. \A l \in 1..Len(ls) : l # None
    <3>1. Len(ls) \in Nat
      BY DEF After, AllOK
    <3> QED BY <3>1
  <2> QED BY <1>1, <1>3, <2>1, QuietIs DEF WaitsSame
<1> QED BY <1>2, <1>4

-----------------------------------------------------------------------------
(***************************************************************************)
(* One lemma for each action; first those in which nothing is asked.       *)
(***************************************************************************)
PhoneIInv == PInv(link, phone, pipe)

Pcs == {"off", "idle", "connect", "dial", "over"}
LEMMA Facts ==
  ASSUME PhoneIInv, NEW u \in User
  PROVE  LET p == phone[u] IN
         /\ AllOK(link) /\ After(link, link) /\ Len(link) \in Nat /\ DOMAIN link = 1..Len(link)
         /\ link \in Seq(Links) /\ \A l \in 1..Len(link) : LinkOK(link[l])
         /\ None \notin Nat /\ PhoneOK(p, u, link) /\ PipeOK(pipe[u], u, link)
         /\ phone = [v \in User |-> phone[v]] /\ pipe = [v \in User |-> pipe[v]]
         /\ p \in [pc : Pcs, dial : 1..Len(link) \cup {None}, wait : 1..Len(link) \cup {None},
                   ents : Ents(WithPhone(link))]
         /\ p.wait # None => p.wait \in 1..Len(link) /\ link[p.wait].from = u
         /\ p.dial # None => p.dial \in 1..Len(link) /\ link[p.dial].from = u
         /\ p.pc = "connect" <=> p.wait # None
         /\ p.pc = "connect" => p.dial = None
         /\ p.pc = "dial" => p.dial # None
<1>1. AllOK(link) /\ PhoneOK(phone[u], u, link)
  BY DEF PhoneIInv, PInv
<1>2. After(link, link) /\ Len(link) \in Nat
  BY <1>1, AfterSelf
<1> QED BY <1>1, <1>2, PhoneAssumption DEF PhoneIInv, PInv, AllOK, PhoneOK, Pcs

LEMMA PhoneLater ==
  ASSUME NEW ks, AllOK(ks), NEW ls, After(ks, ls), NEW p, NEW u, PhoneOK(p, u, ks)
  PROVE  PhoneOK(p, u, ls)
BY AfterGrown, PhoneGrown, PhoneAssumption

LEMMA DownIs ==
  ASSUME NEW S, NEW y \in LinkEnd(S)
  PROVE  LET z == [[y EXCEPT !.up = FALSE] EXCEPT !.queue = <<>>] IN
         z \in LinkEnd(S) /\ ~z.up /\ DOMAIN z.queue = {}
<1> DEFINE w == [y EXCEPT !.up = FALSE]
           z == [w EXCEPT !.queue = <<>>]
<1>1. y.open \in BOOLEAN /\ <<>> \in Seq(S)
  BY DEF LinkEnd
<1>2. w \in LinkEnd(S) /\ ~w.up
  BY DEF LinkEnd
<1> HIDE DEF w
<1>4. z \in LinkEnd(S) /\ ~z.up /\ z.queue = <<>>
  BY <1>1, <1>2 DEF LinkEnd
<1> QED BY <1>4 DEF z, w

LEMMA PDisconnected ==
  ASSUME PhoneIInv, NEW l \in DOMAIN link, NEW e \in End, Disconnected(l, e)
  PROVE  PhoneIInv'
<1> DEFINE k == link[l]
           z == [[k[e] EXCEPT !.up = FALSE] EXCEPT !.queue = <<>>]
           j == [k EXCEPT ![e] = z]
<1>1. AllOK(link) /\ l \in 1..Len(link) /\ LinkOK(k) /\ k \in Links /\ k.from \in User
  BY DEF PhoneIInv, PInv, AllOK, LinkOK, Links
<1>2. link' = [link EXCEPT ![l] = j]
  <2>1. DOMAIN k = {"from", "to", "near", "far", "holder", "named"} /\ e \in DOMAIN k
    BY <1>1 DEF Links, End
  <2> QED BY <1>1, <2>1 DEF Disconnected
<1>3. LinkOK(j) /\ Later(k, j)
  <2>1. CASE e = "near"
    <3>1. z \in LinkEnd(Reply) /\ ~z.up
      <4> DEFINE y == k.near
      <4>1. y \in LinkEnd(Reply) /\ z = [[y EXCEPT !.up = FALSE] EXCEPT !.queue = <<>>]
        BY <1>1, <2>1 DEF Links
      <4> HIDE DEF y, z
      <4> QED BY <4>1, DownIs
    <3> HIDE DEF z
    <3>2. j = [k EXCEPT !.near = z]
      BY <2>1
    <3>3. /\ j \in Links /\ j.near = z /\ j.far = k.far /\ j.from = k.from /\ j.to = k.to
          /\ j.holder = k.holder /\ j.named = k.named
      BY <1>1, <3>1, <3>2 DEF Links
    <3> HIDE DEF j
    <3> QED BY <1>1, <3>1, <3>3 DEF LinkOK, Later, BothUp
  <2>2. CASE e = "far"
    <3>1. z \in LinkEnd(Request) /\ ~z.up /\ DOMAIN z.queue = {}
      <4> DEFINE y == k.far
      <4>1. y \in LinkEnd(Request) /\ z = [[y EXCEPT !.up = FALSE] EXCEPT !.queue = <<>>]
        BY <1>1, <2>2 DEF Links
      <4> HIDE DEF y, z
      <4> QED BY <4>1, DownIs
    <3> HIDE DEF z
    <3>2. j = [k EXCEPT !.far = z]
      BY <2>2
    <3>3. /\ j \in Links /\ j.near = k.near /\ j.far = z /\ j.from = k.from /\ j.to = k.to
          /\ j.holder = k.holder /\ j.named = k.named
      BY <1>1, <3>1, <3>2 DEF Links
    <3> HIDE DEF j
    <3> QED BY <1>1, <3>1, <3>3 DEF LinkOK, Later, BothUp
  <2> QED BY <2>1, <2>2 DEF End
<1> HIDE DEF j
<1>4. After(link, link')
  BY <1>1, <1>2, <1>3, OneChanged
<1>5. phone' = phone /\ pipe' = pipe
  BY DEF Disconnected
<1> QED BY <1>1, <1>4, <1>5, SamePhones, PhoneAssumption DEF PhoneIInv

LEMMA PStart ==
  ASSUME PhoneIInv, NEW u \in User, Start(u)
  PROVE  PhoneIInv'
<1> DEFINE p == [phone[u] EXCEPT !.pc = "idle"]
<1>1. link' = link /\ phone' = [phone EXCEPT ![u] = p] /\ pipe' = pipe /\ phone[u].pc = "off"
  BY DEF Start, Becomes
<1>2. PhoneOK(p, u, link)
  BY <1>1, Facts DEF PhoneOK, Pcs
<1>3. WaitsSame(link, link, 0, u, phone[u], p)
  BY <1>1, Facts DEF WaitsSame, Waits, Pcs
<1>4. After(link, link) /\ None \notin Nat
  BY Facts
<1> HIDE DEF p
<1> QED BY <1>1, <1>2, <1>3, <1>4, QuietIs DEF PhoneIInv

\* The key that ends the ringing
LEMMA Cancelled ==
  ASSUME PhoneIInv, NEW u \in User, Idle(u)
  PROVE  /\ After(link, CancelDial(u)) /\ Len(CancelDial(u)) = Len(link)
         /\ Keyed(u).pc = "idle" /\ Keyed(u).dial = None /\ Keyed(u).wait = None
         /\ Keyed(u).ents = phone[u].ents
         /\ PhoneOK(Keyed(u), u, CancelDial(u))
<1>1. After(link, CancelDial(u)) /\ Len(CancelDial(u)) = Len(link)
  BY Facts, CloseOnIs DEF CancelDial, End
<1>2. /\ Keyed(u).pc = "idle" /\ Keyed(u).dial = None /\ Keyed(u).wait = None
      /\ Keyed(u).ents = phone[u].ents
  BY Facts DEF Keyed, Idle
<1>3. PhoneOK(Keyed(u), u, link)
  BY <1>2, Facts DEF PhoneOK, Keyed, Pcs
<1> QED BY <1>1, <1>2, <1>3, Facts, PhoneLater

\* He waits for nothing, and no link is being set up.
LEMMA Unwaiting ==
  ASSUME PhoneIInv, NEW u \in User, NEW ls, After(link, ls), NEW p, PhoneOK(p, u, ls),
         p.wait = None, p.dial = None
  PROVE  PInv(ls, [phone EXCEPT ![u] = p], pipe)
<1>1. None \notin 1..Len(ls)
  BY PhoneAssumption DEF After, AllOK
<1>2. WaitsSame(link, ls, 0, u, phone[u], p)
  BY <1>1 DEF WaitsSame
<1> QED BY <1>2, QuietIs, PhoneAssumption DEF PhoneIInv

LEMMA PCancelKey ==
  ASSUME PhoneIInv, NEW u \in User, CancelKey(u)
  PROVE  PhoneIInv'
<1>1. /\ link' = CancelDial(u) /\ phone' = [phone EXCEPT ![u] = Keyed(u)] /\ pipe' = pipe
      /\ Idle(u)
  BY DEF CancelKey, Becomes
<1>2. PInv(CancelDial(u), [phone EXCEPT ![u] = Keyed(u)], pipe)
  BY <1>1, Cancelled, Unwaiting
<1> QED BY <1>1, <1>2 DEF PhoneIInv

LEMMA PDial ==
  ASSUME PhoneIInv, NEW u \in User, NEW v \in User, Dial(u, v)
  PROVE  PhoneIInv'
<1>0. Idle(u) /\ pipe' = pipe
  BY DEF Dial
<1>1. CASE link' = CancelDial(u) /\ phone' = [phone EXCEPT ![u] = Keyed(u)]
  <2>1. PInv(CancelDial(u), [phone EXCEPT ![u] = Keyed(u)], pipe)
    BY <1>0, Cancelled, Unwaiting
  <2> QED BY <1>0, <1>1, <2>1 DEF PhoneIInv
<1> DEFINE n == Len(link) + 1
           ks == CancelDial(u)
           k == Send(NewLink(u, v), "near", "connect")
           ls == Append(ks, k)
           p == [Keyed(u) EXCEPT !.pc = "connect", !.wait = n]
<1>2. CASE link' = ls /\ phone' = [phone EXCEPT ![u] = p]
  <2>1. /\ LinkOK(k) /\ k.from = u /\ k.to = v
        /\ Count(k.far.queue, Question) = 1 /\ Len(k.near.queue) = 0
    <3> DEFINE a == NewLink(u, v)
    <3>1. /\ LinkOK(a) /\ a.from = u /\ a.to = v /\ a.holder = "phoned" /\ ~a.named
          /\ a.near.queue = <<>> /\ a.far.queue = <<>> /\ BothUp(a)
      BY NewLinkIs
    <3> HIDE DEF a
    <3>2. "connect" \in Request /\ "connect" \in Question
      BY DEF Request, Question
    <3>3. Count(<<>>, Question) = 0
      BY CountNone
    <3> DEFINE b == Send(a, "near", "connect")
    <3>4. /\ LinkOK(b) /\ b.near = a.near /\ b.from = a.from /\ b.to = a.to
          /\ Count(b.far.queue, Question) = Count(a.far.queue, Question) + 1
      BY <3>1, <3>2, SendNear
    <3> HIDE DEF b
    <3>5. k = b
      BY DEF a, b
    <3> HIDE DEF k
    <3> QED BY <3>1, <3>3, <3>4, <3>5
  <2> HIDE DEF k
  <2>2. /\ AllOK(ks) /\ After(link, ks) /\ Len(ks) = Len(link) /\ Len(link) \in Nat
        /\ Keyed(u).ents = phone[u].ents /\ Keyed(u).dial = None
    BY <1>0, Cancelled, Facts DEF After
  <2> HIDE DEF ks
  <2>3. After(ks, ls) /\ Len(ls) = n /\ ls[n] = k /\ \A i \in 1..Len(ks) : ls[i] = ks[i]
    BY <2>1, <2>2, OneMore
  <2> HIDE DEF ls
  <2>4. After(link, ls) /\ Grown(link, ls)
    <3>1. After(link, ls)
      BY <2>2, <2>3, Facts, AfterAgain
    <3> QED BY <3>1, AfterGrown
  <2>5. p.pc = "connect" /\ p.wait = n /\ p.dial = None /\ p.ents = phone[u].ents
        /\ DOMAIN p = {"pc", "dial", "wait", "ents"}
    BY <2>2, Facts DEF Keyed
  <2>6. PhoneOK(p, u, ls)
    <3>1. phone[u].ents \in Ents(WithPhone(ls))
      BY <2>4, Facts, GrownSets
    <3>2. p \in [pc : Pcs, dial : 1..Len(ls) \cup {None}, wait : 1..Len(ls) \cup {None},
                 ents : Ents(WithPhone(ls))]
      <4>1. n \in 1..Len(ls)
        BY <2>2, <2>3
      <4> HIDE DEF n
      <4>2. p = [pc |-> "connect", dial |-> None, wait |-> n, ents |-> phone[u].ents]
        <5> DEFINE o == phone[u]
        <5>1. o \in [pc : Pcs, dial : 1..Len(link) \cup {None}, wait : 1..Len(link) \cup {None},
                     ents : Ents(WithPhone(link))]
          BY Facts
        <5>2. p = [[o EXCEPT !.dial = None] EXCEPT !.pc = "connect", !.wait = n]
          BY DEF Keyed
        <5> HIDE DEF o, p
        <5>3. p = [pc |-> "connect", dial |-> None, wait |-> n, ents |-> o.ents]
          BY <5>1, <5>2
        <5> QED BY <5>3 DEF o
      <4> HIDE DEF p
      <4> QED BY <3>1, <4>1, <4>2 DEF Pcs
    <3>3. n # None
      BY <2>2, PhoneAssumption
    <3> HIDE DEF p, n
    <3> QED BY <2>1, <2>3, <2>5, <3>2, <3>3 DEF PhoneOK, Pcs
  <2>7. WaitsSame(link, ls, n, u, phone[u], p)
    <3>1. None \notin 1..Len(ls)
      BY <2>3, <2>2, PhoneAssumption
    <3> QED BY <2>5, <3>1 DEF WaitsSame
  <2>8. OthersLater(link, ls, n) /\ AsksSame(link, ls, n, u, pipe[u], pipe[u])
    BY <2>4 DEF OthersLater, AsksSame, After
  <2>9. PipeOK(pipe[u], u, ls)
    BY <2>4, Facts, PipeGrown
  <2>10. Count(pipe[v], Asked(n)) = 0
    <3>1. PipeOK(pipe[v], v, link)
      BY Facts
    <3>2. ASSUME NEW i \in DOMAIN pipe[v] PROVE pipe[v][i] \notin Asked(n)
      <4>1. pipe[v][i] \in Passed(WithPhone(link))
        BY <3>1 DEF PipeOK
      <4>2. pipe[v][i].link \in 1..Len(link)
        BY <4>1 DEF Passed, WithPhone
      <4>3. n \notin 1..Len(link)
        BY <2>2
      <4> QED BY <4>2, <4>3 DEF Asked
    <3> QED BY <3>2, CountNone
  <2>11. [pipe EXCEPT ![u] = pipe[u]] = pipe /\ [phone EXCEPT ![u] = p][u] = p
    BY Facts
  <2>12. ReplyTo(ls, n, [phone EXCEPT ![u] = p], [pipe EXCEPT ![u] = pipe[u]])
    <3> HIDE DEF n, p
    <3>1. ReplyOK(k, p, pipe[v], n)
      BY <2>1, <2>5, <2>10 DEF ReplyOK, Waits
    <3> QED BY <2>1, <2>3, <2>11, <3>1 DEF ReplyTo
  <2> HIDE DEF p, n
  <2>13. PInv(ls, [phone EXCEPT ![u] = p], [pipe EXCEPT ![u] = pipe[u]])
    BY <2>4, <2>6, <2>7, <2>8, <2>9, <2>12, StepIs, PhoneAssumption DEF PhoneIInv
  <2> QED BY <1>0, <1>2, <2>11, <2>13 DEF PhoneIInv
<1> QED BY <1>1, <1>2 DEF Dial, Becomes

-----------------------------------------------------------------------------
(***************************************************************************)
(* What is said on one link: by its opener,                                *)
(***************************************************************************)
LEMMA CountNat ==
  ASSUME NEW M, NEW s \in Seq(M), NEW S
  PROVE  Count(s, S) \in Nat
<1>1. <<>> \in Seq(M)
  OBVIOUS
<1> QED BY <1>1, CountJoin

\* What is due on link l
LEMMA Due ==
  ASSUME PhoneIInv, NEW l \in 1..Len(link)
  PROVE  LET k == link[l] IN
         /\ LinkOK(k) /\ k.from \in User /\ k.to \in User
         /\ Count(k.far.queue, Question) \in Nat /\ Len(k.near.queue) \in Nat
         /\ Count(pipe[k.to], Asked(l)) \in Nat
         /\ ReplyOK(k, phone[k.from], pipe[k.to], l)
<1> DEFINE k == link[l]
<1>1. LinkOK(k) /\ k.from \in User /\ k.to \in User /\ ReplyOK(k, phone[k.from], pipe[k.to], l)
  BY DEF PhoneIInv, PInv, AllOK, LinkOK, Links
<1>2. k.far.queue \in Seq(Request) /\ k.near.queue \in Seq(Reply)
  BY <1>1 DEF LinkOK, Links, LinkEnd
<1>3. PipeOK(pipe[k.to], k.to, link)
  BY <1>1 DEF PhoneIInv, PInv
<1> HIDE DEF k
<1>4. Count(k.far.queue, Question) \in Nat /\ Count(pipe[k.to], Asked(l)) \in Nat
  BY <1>2, <1>3, CountNat DEF PipeOK
<1>5. Len(k.near.queue) \in Nat
  BY <1>2
<1> QED BY <1>1, <1>4, <1>5 DEF k

\* A step of user u on link l, which becomes j
LEMMA OneTouched ==
  ASSUME PhoneIInv, NEW u \in User, NEW l \in 1..Len(link), NEW j, LinkOK(j), NEW ls,
         ls = [link EXCEPT ![l] = j],
         j.from = link[l].from, j.to = link[l].to, link[l].holder # "phoned" => j.holder # "phoned",
         NEW p, PhoneOK(p, u, ls), WaitsSame(link, ls, l, u, phone[u], p),
         NEW q, PipeOK(q, u, ls), AsksSame(link, ls, l, u, pipe[u], q),
         ReplyOK(j, [phone EXCEPT ![u] = p][j.from], [pipe EXCEPT ![u] = q][j.to], l)
  PROVE  PInv(ls, [phone EXCEPT ![u] = p], [pipe EXCEPT ![u] = q])
<1>1. AllOK(link) /\ Len(link) \in Nat /\ None \notin Nat
  BY Facts
<1> DEFINE es == [link EXCEPT ![l] = j]
<1>0. /\ AllOK(es) /\ Len(es) = Len(link) /\ es[l] = j
      /\ \A i \in 1..Len(link) : i # l => es[i] = link[i]
  <2>1. AllOK(link) /\ l \in 1..Len(link) /\ LinkOK(j)
    BY <1>1
  <2> QED BY ONLY <2>1, OneChanged
<1>2. /\ AllOK(ls) /\ Len(ls) = Len(link) /\ ls[l] = j
      /\ \A i \in 1..Len(link) : i # l => ls[i] = link[i]
  <2>1. ls = es
    OBVIOUS
  <2> HIDE DEF es
  <2> QED BY <1>0, <2>1
<1>3. Grown(link, ls) /\ OthersLater(link, ls, l)
  BY <1>1, <1>2 DEF Grown, OthersLater, Later
<1>4. ReplyTo(ls, l, [phone EXCEPT ![u] = p], [pipe EXCEPT ![u] = q])
  BY <1>2 DEF ReplyTo
<1> QED BY <1>1, <1>3, <1>4, StepIs DEF PhoneIInv

\* and what phoned passes on to him is not touched.
LEMMA OneSaid ==
  ASSUME PhoneIInv, NEW u \in User, NEW l \in 1..Len(link), NEW j, LinkOK(j),
         j.from = link[l].from, j.to = link[l].to, j.holder = link[l].holder,
         NEW p, PhoneOK(p, u, link), WaitsSame(link, [link EXCEPT ![l] = j], l, u, phone[u], p),
         ReplyOK(j, [phone EXCEPT ![u] = p][j.from], pipe[j.to], l)
  PROVE  PInv([link EXCEPT ![l] = j], [phone EXCEPT ![u] = p], pipe)
<1> DEFINE ls == [link EXCEPT ![l] = j]
           q == pipe[u]
<1>1. AllOK(link) /\ Len(link) \in Nat /\ None \notin Nat /\ PipeOK(q, u, link)
      /\ [pipe EXCEPT ![u] = q] = pipe
  BY Facts
<1>2. /\ AllOK(ls) /\ Len(ls) = Len(link) /\ ls[l] = j
      /\ \A i \in 1..Len(link) : i # l => ls[i] = link[i]
  BY <1>1, OneChanged
<1>3. Grown(link, ls)
  BY <1>1, <1>2 DEF Grown
<1>4. PhoneOK(p, u, ls) /\ PipeOK(q, u, ls)
  BY <1>1, <1>3, PhoneGrown, PipeGrown
<1>5. AsksSame(link, ls, l, u, pipe[u], q)
  BY DEF AsksSame
<1>6. ReplyOK(j, [phone EXCEPT ![u] = p][j.from], [pipe EXCEPT ![u] = q][j.to], l)
  BY <1>1
<1>7. WaitsSame(link, ls, l, u, phone[u], p) /\ ls = [link EXCEPT ![l] = j]
  OBVIOUS
<1> HIDE DEF ls, q
<1>8. PInv(ls, [phone EXCEPT ![u] = p], [pipe EXCEPT ![u] = q])
  BY <1>4, <1>5, <1>6, <1>7, OneTouched
<1> QED BY <1>1, <1>8 DEF ls

LEMMA PConnected ==
  ASSUME PhoneIInv, NEW u \in User, Connected(u)
  PROVE  PhoneIInv'
<1> DEFINE l == phone[u].wait
           k == link[l]
           p == [phone[u] EXCEPT !.wait = None]
<1>1. phone[u].pc = "connect" /\ pipe' = pipe
  BY DEF Connected
<1>2. l # None /\ l \in 1..Len(link) /\ k.from = u /\ phone[u].dial = None /\ None \notin Nat
  BY <1>1, Facts
<1>3. CASE /\ HasMessage(k, "near")
           /\ Becomes(u, [link EXCEPT ![l] = Send(Read(@, "near"), "near", "dial")],
                      [p EXCEPT !.pc = "dial", !.dial = l])
  <2> DEFINE j0 == Read(k, "near")
             j == Send(j0, "near", "dial")
             p2 == [p EXCEPT !.pc = "dial", !.dial = l]
  <2>1. link' = [link EXCEPT ![l] = j] /\ phone' = [phone EXCEPT ![u] = p2]
    BY <1>3 DEF Becomes
  <2>2. LinkOK(k) /\ HasMessage(k, "near")
    BY <1>2, <1>3, Due
  <2> HIDE DEF k, l
  <2>3. /\ LinkOK(j0) /\ j0.far = k.far /\ j0.near.up = k.near.up
        /\ j0.from = k.from /\ j0.to = k.to /\ j0.holder = k.holder
        /\ Len(k.near.queue) \in Nat /\ Len(j0.near.queue) = Len(k.near.queue) - 1
    BY <2>2, ReadNear
  <2> HIDE DEF j0
  <2>4. "dial" \in Request /\ "dial" \in Question /\ "dial" # "connect"
    BY DEF Request, Question
  <2>5. /\ LinkOK(j) /\ j.near = j0.near /\ j.far.up = j0.far.up
        /\ j.from = j0.from /\ j.to = j0.to /\ j.holder = j0.holder
        /\ BothUp(j0) => Count(j.far.queue, Question) = Count(j0.far.queue, Question) + 1
    BY <2>3, <2>4, SendNear
  <2> HIDE DEF j
  <2>6. p2.pc = "dial" /\ p2.dial = l /\ p2.wait = None
    BY Facts DEF l
  <2>7. PhoneOK(p2, u, link)
    BY <1>2, <2>6, Facts DEF PhoneOK, Pcs, k, l
  <2>8. WaitsSame(link, [link EXCEPT ![l] = j], l, u, phone[u], p2)
    <3>1. None \notin 1..Len([link EXCEPT ![l] = j])
      <4>1. Len([link EXCEPT ![l] = j]) = Len(link) /\ Len(link) \in Nat
        BY <1>2, <2>5, Facts, OneChanged DEF l
      <4> QED BY <1>2, <4>1
    <3> QED BY <2>6, <3>1 DEF WaitsSame
  <2> HIDE DEF p2
  <2>9. ReplyOK(j, p2, pipe[j.to], l)
    <3>1. /\ Count(k.far.queue, Question) \in Nat /\ Count(pipe[k.to], Asked(l)) \in Nat
          /\ ReplyOK(k, phone[u], pipe[k.to], l)
      BY <1>2, Due DEF k, l
    <3>2. Waits(phone[u], l) /\ Waits(p2, l)
      BY <1>1, <2>6 DEF Waits, l
    <3>3. BothUp(j) => BothUp(k) /\ BothUp(j0)
      BY <2>3, <2>5 DEF BothUp
    <3>4. BothUp(k) => Count(k.far.queue, Question) + Len(k.near.queue) + Count(pipe[k.to], Asked(l)) = 1
      BY <3>1, <3>2 DEF ReplyOK, l
    <3>5. BothUp(j) => Count(j.far.queue, Question) + Len(j.near.queue) + Count(pipe[j.to], Asked(l)) = 1
      <4>1. BothUp(j) => /\ Count(j.far.queue, Question) = Count(k.far.queue, Question) + 1
                         /\ Len(j.near.queue) = Len(k.near.queue) - 1 /\ j.to = k.to
        BY <2>3, <2>5, <3>3
      <4> QED BY <2>3, <3>1, <3>3, <3>4, <4>1
    <3> QED BY <3>2, <3>5 DEF ReplyOK
  <2>10. [phone EXCEPT ![u] = p2][j.from] = p2
    BY <1>2, <2>3, <2>5, Facts DEF k, l
  <2>11. l \in 1..Len(link) /\ j.from = link[l].from /\ j.to = link[l].to /\ j.holder = link[l].holder
    BY <1>2, <2>3, <2>5 DEF k, l
  <2>12. PInv([link EXCEPT ![l] = j], [phone EXCEPT ![u] = p2], pipe)
    BY <2>5, <2>7, <2>8, <2>9, <2>10, <2>11, OneSaid
  <2> QED BY <1>1, <2>1, <2>12 DEF PhoneIInv
<1>4. CASE Becomes(u, CloseOn(link, l, "near"), [p EXCEPT !.pc = "idle"])
  <2> DEFINE p2 == [p EXCEPT !.pc = "idle"]
             ls == CloseOn(link, l, "near")
  <2>1. link' = ls /\ phone' = [phone EXCEPT ![u] = p2]
    BY <1>4 DEF Becomes
  <2>2. After(link, ls)
    BY Facts, CloseOnIs DEF End
  <2>3. p2.wait = None /\ p2.dial = None
    BY <1>2, Facts
  <2>4. PhoneOK(p2, u, link)
    BY <2>3, Facts DEF PhoneOK, Pcs
  <2> HIDE DEF p2, ls
  <2>5. PhoneOK(p2, u, ls)
    BY <2>2, <2>4, Facts, PhoneLater
  <2>6. PInv(ls, [phone EXCEPT ![u] = p2], pipe)
    BY <2>2, <2>3, <2>5, Unwaiting
  <2> QED BY <1>1, <2>1, <2>6 DEF PhoneIInv
<1> QED BY <1>3, <1>4 DEF Connected

LEMMA PRing ==
  ASSUME PhoneIInv, NEW u \in User, Ring(u)
  PROVE  PhoneIInv'
<1> DEFINE l == phone[u].dial
           k == link[l]
           p == [phone[u] EXCEPT !.pc = "dial"]
           j == Send(k, "near", "dial")
<1>1. Idle(u) /\ l # None /\ pipe' = pipe /\ phone' = [phone EXCEPT ![u] = p]
      /\ link' = [link EXCEPT ![l] = j]
  BY DEF Ring, Becomes, SendOn, On
<1>2. /\ l \in 1..Len(link) /\ k.from = u /\ phone[u].wait = None /\ None \notin Nat
      /\ LinkOK(k) /\ phone[u].pc = "idle"
  BY <1>1, Facts DEF Idle
<1> HIDE DEF k, l
<1>3. "dial" \in Request /\ "dial" \in Question /\ "dial" # "connect"
  BY DEF Request, Question
<1>4. /\ LinkOK(j) /\ j.near = k.near /\ j.far.up = k.far.up
      /\ j.from = k.from /\ j.to = k.to /\ j.holder = k.holder
      /\ BothUp(k) => Count(j.far.queue, Question) = Count(k.far.queue, Question) + 1
  BY <1>2, <1>3, SendNear
<1> HIDE DEF j
<1>5. p.pc = "dial" /\ p.dial = l /\ p.wait = None
  BY <1>2, Facts DEF l
<1>6. PhoneOK(p, u, link)
  BY <1>1, <1>2, <1>5, Facts DEF PhoneOK, Pcs, k, l
<1> HIDE DEF p
<1>7. WaitsSame(link, [link EXCEPT ![l] = j], l, u, phone[u], p)
  <2>1. None \notin 1..Len([link EXCEPT ![l] = j])
    <3>1. Len([link EXCEPT ![l] = j]) = Len(link) /\ Len(link) \in Nat
      BY <1>2, <1>4, Facts, OneChanged DEF l
    <3> QED BY <1>2, <3>1
  <2> QED BY <1>5, <2>1 DEF WaitsSame
<1>8. ReplyOK(j, p, pipe[j.to], l)
  <2>1. /\ Count(k.far.queue, Question) \in Nat /\ Count(pipe[k.to], Asked(l)) \in Nat
        /\ Len(k.near.queue) \in Nat /\ ReplyOK(k, phone[u], pipe[k.to], l)
    BY <1>2, Due DEF k, l
  <2>2. ~Waits(phone[u], l) /\ Waits(p, l)
    BY <1>2, <1>5 DEF Waits
  <2>3. BothUp(j) => BothUp(k)
    BY <1>4 DEF BothUp
  <2>4. BothUp(k) => Count(k.far.queue, Question) + Len(k.near.queue) + Count(pipe[k.to], Asked(l)) = 0
    BY <2>1, <2>2 DEF ReplyOK, l
  <2>5. BothUp(j) => Count(j.far.queue, Question) + Len(j.near.queue) + Count(pipe[j.to], Asked(l)) = 1
    BY <1>4, <2>1, <2>3, <2>4
  <2> QED BY <2>2, <2>5 DEF ReplyOK
<1>9. [phone EXCEPT ![u] = p][j.from] = p
  BY <1>2, <1>4, Facts
<1>10. l \in 1..Len(link) /\ j.from = link[l].from /\ j.to = link[l].to /\ j.holder = link[l].holder
  BY <1>2, <1>4 DEF k
<1>11. PInv([link EXCEPT ![l] = j], [phone EXCEPT ![u] = p], pipe)
  BY <1>4, <1>6, <1>7, <1>8, <1>9, <1>10, OneSaid
<1> QED BY <1>1, <1>11 DEF PhoneIInv

LEMMA PRung ==
  ASSUME PhoneIInv, NEW u \in User, Rung(u)
  PROVE  PhoneIInv'
<1> DEFINE l == phone[u].dial
           k == link[l]
           p == [phone[u] EXCEPT !.pc = "idle"]
<1>1. phone[u].pc = "dial" /\ pipe' = pipe
  BY DEF Rung
<1>2. /\ l # None /\ l \in 1..Len(link) /\ k.from = u /\ phone[u].wait = None /\ None \notin Nat
      /\ LinkOK(k)
  BY <1>1, Facts
<1>3. p.pc = "idle" /\ p.dial = l /\ p.wait = None
  BY <1>2, Facts
<1>4. PhoneOK(p, u, link)
  BY <1>2, <1>3, Facts DEF PhoneOK, Pcs
<1>5. None \notin 1..Len(link)
  BY <1>2, Facts
<1>6. CASE Gone(k) /\ Becomes(u, link, p)
  <2>1. ~BothUp(link[l])
    BY <1>6 DEF Gone, AtEnd, BothUp
  <2>2. WaitsSame(link, link, 0, u, phone[u], p)
    BY <1>3, <1>5, <2>1 DEF WaitsSame
  <2>3. link' = link /\ phone' = [phone EXCEPT ![u] = p]
    BY <1>6 DEF Becomes
  <2>4. After(link, link)
    BY Facts
  <2> HIDE DEF p
  <2>5. PInv(link, [phone EXCEPT ![u] = p], pipe)
    BY <1>2, <1>4, <2>2, <2>4, QuietIs DEF PhoneIInv
  <2> QED BY <1>1, <2>3, <2>5 DEF PhoneIInv
<1>7. CASE Becomes(u, CloseOn(link, l, "near"), [p EXCEPT !.dial = None])
  <2> DEFINE p2 == [p EXCEPT !.dial = None]
             ls == CloseOn(link, l, "near")
  <2>1. link' = ls /\ phone' = [phone EXCEPT ![u] = p2]
    BY <1>7 DEF Becomes
  <2>2. After(link, ls)
    BY Facts, CloseOnIs DEF End
  <2>3. p2.wait = None /\ p2.dial = None
    BY <1>2, Facts
  <2>4. PhoneOK(p2, u, link)
    BY <2>3, Facts DEF PhoneOK, Pcs
  <2> HIDE DEF p2, ls
  <2>5. PhoneOK(p2, u, ls)
    BY <2>2, <2>4, Facts, PhoneLater
  <2>6. PInv(ls, [phone EXCEPT ![u] = p2], pipe)
    BY <2>2, <2>3, <2>5, Unwaiting
  <2> QED BY <1>1, <2>1, <2>6 DEF PhoneIInv
<1>8. CASE HasMessage(k, "near") /\ Becomes(u, [link EXCEPT ![l] = Read(@, "near")], p)
  <2> DEFINE j == Read(k, "near")
  <2>1. link' = [link EXCEPT ![l] = j] /\ phone' = [phone EXCEPT ![u] = p]
    BY <1>8 DEF Becomes
  <2>2. HasMessage(k, "near")
    BY <1>8
  <2> HIDE DEF k, l
  <2>3. /\ LinkOK(j) /\ j.far = k.far /\ j.near.up = k.near.up
        /\ j.from = k.from /\ j.to = k.to /\ j.holder = k.holder
        /\ Len(k.near.queue) \in Nat /\ Len(j.near.queue) = Len(k.near.queue) - 1
    BY <1>2, <2>2, ReadNear
  <2> HIDE DEF j, p
  <2>4. WaitsSame(link, [link EXCEPT ![l] = j], l, u, phone[u], p)
    <3>1. None \notin 1..Len([link EXCEPT ![l] = j])
      <4>1. Len([link EXCEPT ![l] = j]) = Len(link) /\ Len(link) \in Nat
        BY <1>2, <2>3, Facts, OneChanged DEF l
      <4> QED BY <1>2, <4>1
    <3> QED BY <1>3, <3>1 DEF WaitsSame
  <2>5. ReplyOK(j, p, pipe[j.to], l)
    <3>1. /\ Count(k.far.queue, Question) \in Nat /\ Count(pipe[k.to], Asked(l)) \in Nat
          /\ ReplyOK(k, phone[u], pipe[k.to], l)
      BY <1>2, Due DEF k, l
    <3>2. Waits(phone[u], l) /\ ~Waits(p, l)
      BY <1>1, <1>3 DEF Waits, l
    <3>3. BothUp(j) => BothUp(k)
      BY <2>3 DEF BothUp
    <3>4. BothUp(k) => Count(k.far.queue, Question) + Len(k.near.queue) + Count(pipe[k.to], Asked(l)) = 1
      BY <3>1, <3>2 DEF ReplyOK, l
    <3>5. BothUp(j) => Count(j.far.queue, Question) + Len(j.near.queue) + Count(pipe[j.to], Asked(l)) = 0
      <4>1. j.far = k.far /\ j.to = k.to /\ Len(j.near.queue) = Len(k.near.queue) - 1
        BY <2>3
      <4> QED BY <2>3, <3>1, <3>3, <3>4, <4>1
    <3> QED BY <3>2, <3>5 DEF ReplyOK
  <2>6. [phone EXCEPT ![u] = p][j.from] = p
    BY <1>2, <2>3, Facts DEF k, l
  <2>7. l \in 1..Len(link) /\ j.from = link[l].from /\ j.to = link[l].to /\ j.holder = link[l].holder
    BY <1>2, <2>3 DEF k, l
  <2>8. PInv([link EXCEPT ![l] = j], [phone EXCEPT ![u] = p], pipe)
    BY <1>4, <2>3, <2>4, <2>5, <2>6, <2>7, OneSaid
  <2> QED BY <1>1, <2>1, <2>8 DEF PhoneIInv
<1> QED BY <1>6, <1>7, <1>8 DEF Rung

-----------------------------------------------------------------------------
(* by the phone that has its far end, *)

LEMMA EntIs ==
  ASSUME PhoneIInv, NEW u \in User, NEW i \in DOMAIN phone[u].ents
  PROVE  LET e == phone[u].ents[i]  l == e.in IN
         /\ e \in Ent(WithPhone(link)) /\ phone[u].ents \in Ents(WithPhone(link))
         /\ l \in 1..Len(link) /\ LinkOK(link[l]) /\ link[l].holder # "phoned"
<1>1. phone[u].ents \in Ents(WithPhone(link))
  BY Facts
<1>2. phone[u].ents[i] \in Ent(WithPhone(link))
  BY <1>1 DEF Ents
<1>3. phone[u].ents[i].in \in WithPhone(link)
  BY <1>2 DEF Ent
<1> QED BY <1>1, <1>2, <1>3, Facts DEF WithPhone

\* Only the entries and links that nobody waits on have changed.
LEMMA NewEntries ==
  ASSUME PhoneIInv, NEW u \in User, NEW ls, After(link, ls), NEW es \in Ents(WithPhone(link))
  PROVE  PInv(ls, [phone EXCEPT ![u] = [phone[u] EXCEPT !.ents = es]], pipe)
<1> DEFINE p == [phone[u] EXCEPT !.ents = es]
<1>1. /\ p.pc = phone[u].pc /\ p.dial = phone[u].dial /\ p.wait = phone[u].wait /\ p.ents = es
      /\ p \in [pc : Pcs, dial : 1..Len(link) \cup {None}, wait : 1..Len(link) \cup {None},
                ents : Ents(WithPhone(link))]
  BY Facts
<1>2. PhoneOK(p, u, link)
  BY <1>1, Facts DEF PhoneOK, Pcs
<1> HIDE DEF p
<1>3. PhoneOK(p, u, ls)
  BY <1>2, Facts, PhoneLater
<1>4. WaitsSame(link, ls, 0, u, phone[u], p)
  <2>1. None \notin 1..Len(ls)
    BY PhoneAssumption DEF After, AllOK
  <2>2. \A l \in {p.wait, p.dial} : l # None => l \in 1..Len(link) /\ l <= Len(link)
    <3>1. Len(link) \in Nat
      BY Facts
    <3> QED BY <1>1, <3>1
  <2> QED BY <1>1, <2>1, <2>2 DEF WaitsSame, Waits
<1>5. PInv(ls, [phone EXCEPT ![u] = p], pipe)
  BY <1>3, <1>4, QuietIs, PhoneAssumption DEF PhoneIInv
<1> QED BY <1>5 DEF p

\* What is said on link l by the one who has its far end
LEMMA FarSaid ==
  ASSUME PhoneIInv, NEW l \in 1..Len(link), NEW j, LinkOK(j),
         j.from = link[l].from, j.to = link[l].to, j.holder = link[l].holder,
         BothUp(j) => /\ BothUp(link[l])
                      /\ Count(j.far.queue, Question) + Len(j.near.queue)
                           = Count(link[l].far.queue, Question) + Len(link[l].near.queue)
  PROVE  PInv([link EXCEPT ![l] = j], phone, pipe)
<1> DEFINE k == link[l]
           u == k.from
           p == phone[u]
<1>1. /\ LinkOK(k) /\ u \in User /\ ReplyOK(k, p, pipe[k.to], l)
      /\ Count(k.far.queue, Question) \in Nat /\ Len(k.near.queue) \in Nat
      /\ Count(pipe[k.to], Asked(l)) \in Nat
  BY Due
<1>2. /\ [phone EXCEPT ![u] = p] = phone /\ PhoneOK(p, u, link) /\ p.wait # None => p.wait \in 1..Len(link)
      /\ p.dial # None => p.dial \in 1..Len(link)
  BY <1>1, Facts
<1>3. WaitsSame(link, [link EXCEPT ![l] = j], l, u, phone[u], p)
  <2>1. Len([link EXCEPT ![l] = j]) = Len(link) /\ Len(link) \in Nat
    BY Facts, OneChanged
  <2> HIDE DEF k, u, p
  <2> QED BY <2>1 DEF WaitsSame, p
<1>4. ReplyOK(j, p, pipe[j.to], l)
  <2> HIDE DEF p, u
  <2> QED BY <1>1 DEF ReplyOK
<1>5. [phone EXCEPT ![u] = p][j.from] = p
  <2>1. j.from \in User /\ j.from = u
    BY <1>1
  <2> HIDE DEF u, p
  <2> QED BY <2>1, Facts
<1>6. /\ PhoneIInv /\ l \in 1..Len(link) /\ LinkOK(j)
      /\ j.from = link[l].from /\ j.to = link[l].to /\ j.holder = link[l].holder
  OBVIOUS
<1>7. phone = [v \in User |-> phone[v]]
  BY <1>1, Facts
<1>8. u \in User /\ PhoneOK(p, u, link)
  <2>1. u \in User
    BY <1>1
  <2> HIDE DEF u
  <2> QED BY <2>1, Facts
<1> HIDE DEF k, u, p
<1>9. PInv([link EXCEPT ![l] = j], [phone EXCEPT ![u] = p], pipe)
  BY ONLY <1>3, <1>4, <1>5, <1>6, <1>8, OneSaid
<1> DEFINE ph == [phone EXCEPT ![u] = p]
<1>10. ph = phone
  BY ONLY <1>7 DEF p
<1>11. PInv([link EXCEPT ![l] = j], ph, pipe)
  BY ONLY <1>9
<1> HIDE DEF ph
<1> QED BY ONLY <1>10, <1>11

LEMMA DeletedIs ==
  ASSUME PhoneIInv, NEW u \in User, NEW ls, After(link, ls), NEW x
  PROVE  LET s == Delete([ks |-> ls, ents |-> phone[u].ents], x) IN
         PInv(s.ks, [phone EXCEPT ![u] = [phone[u] EXCEPT !.ents = s.ents]], pipe)
<1> DEFINE t == [ks |-> ls, ents |-> phone[u].ents]
           s == Delete(t, x)
           G == WithPhone(link)
<1>1. t \in Since(link, G)
  BY Facts DEF Since, After, AllOK
<1> HIDE DEF t, G
<1>2. s \in Since(link, G)
  BY <1>1, Facts, DeleteIs
<1> HIDE DEF s
<1>3. After(link, s.ks) /\ s.ents \in Ents(WithPhone(link))
  BY <1>2 DEF Since, G
<1>4. PInv(s.ks, [phone EXCEPT ![u] = [phone[u] EXCEPT !.ents = s.ents]], pipe)
  BY <1>3, NewEntries
<1> QED BY <1>4 DEF s, t

LEMMA PCallback ==
  ASSUME PhoneIInv, NEW u \in User, NEW i \in DOMAIN phone[u].ents, Callback(u, i)
  PROVE  PhoneIInv'
<1> DEFINE p == phone[u]
           l == p.ents[i].in
           k == link[l]
           j == Read(k, "far")
           read == [link EXCEPT ![l] = j]
           m == Head(k.far.queue)
           Deleted(ks) == LET s == Delete([ks |-> ks, ents |-> p.ents], l) IN
                          Becomes(u, s.ks, [p EXCEPT !.ents = s.ents])
<1>1. /\ Idle(u) /\ pipe' = pipe
      /\ \/ Deleted(link)
         \/ /\ HasMessage(k, "far")
            /\ \/ m = "goodbye" /\ Deleted(read)
               \/ m = "dial" /\ Becomes(u, SendOn(read, l, "far", "ok"), p)
               \/ m = "reject" /\ Becomes(u, CloseOn(read, p.dial, "near"), [p EXCEPT !.dial = None])
               \/ m = "answer" /\ Becomes(u, read, [p EXCEPT !.ents[i].out = p.dial, !.dial = None])
               \/ /\ m \in {"connect", "hangup", "answer"}
                  /\ Becomes(u, read, p)
  BY DEF Callback
<1>2. /\ l \in 1..Len(link) /\ LinkOK(k) /\ k.holder # "phoned" /\ l # None
      /\ p.ents[i] \in Ent(WithPhone(link)) /\ p.ents \in Ents(WithPhone(link))
  BY EntIs, Facts
<1>3. /\ p.pc = "idle" /\ p.wait = None
      /\ p \in [pc : Pcs, dial : 1..Len(link) \cup {None}, wait : 1..Len(link) \cup {None},
                ents : Ents(WithPhone(link))]
      /\ [phone EXCEPT ![u] = p] = phone /\ After(link, link) /\ AllOK(link)
      /\ p.dial # None => p.dial \in 1..Len(link)
      /\ PhoneOK(p, u, link)
  BY <1>1, Facts DEF Idle
<1>4. ASSUME NEW ks, After(link, ks), Deleted(ks)
      PROVE  PhoneIInv'
  <2> DEFINE s == Delete([ks |-> ks, ents |-> phone[u].ents], l)
  <2>1. link' = s.ks /\ phone' = [phone EXCEPT ![u] = [phone[u] EXCEPT !.ents = s.ents]]
    BY <1>4 DEF Becomes
  <2> HIDE DEF l
  <2>2. PInv(s.ks, [phone EXCEPT ![u] = [phone[u] EXCEPT !.ents = s.ents]], pipe)
    BY <1>4, DeletedIs
  <2> QED BY <1>1, <2>1, <2>2 DEF PhoneIInv
<1>5. CASE Deleted(link)
  BY <1>3, <1>4, <1>5
<1>6. HasMessage(k, "far") =>
        /\ LinkOK(j) /\ j.near = k.near /\ j.far.up = k.far.up /\ m \in Request
        /\ j.from = k.from /\ j.to = k.to /\ j.holder = k.holder
        /\ m = "connect" => k.holder = "phoned"
        /\ Count(k.far.queue, Question) \in Nat
        /\ m \in Question => Count(j.far.queue, Question) = Count(k.far.queue, Question) - 1
        /\ m \notin Question => Later(k, j)
  <2> HIDE DEF k
  <2> QED BY <1>2, ReadFar
<1>7. HasMessage(k, "far") /\ m # "dial" => After(link, read)
  <2> SUFFICES ASSUME HasMessage(k, "far"), m # "dial" PROVE After(link, read)
    OBVIOUS
  <2>1. Later(link[l], j) /\ LinkOK(j)
    BY <1>2, <1>6 DEF Question
  <2> HIDE DEF k, l, j
  <2> QED BY <1>2, <1>3, <2>1, OneChanged
<1>8. CASE HasMessage(k, "far") /\ m = "goodbye" /\ Deleted(read)
  <2>1. After(link, read)
    BY <1>7, <1>8
  <2> HIDE DEF read
  <2> QED BY <1>4, <1>8, <2>1
<1>9. CASE HasMessage(k, "far") /\ m = "dial" /\ Becomes(u, SendOn(read, l, "far", "ok"), p)
  <2> DEFINE j2 == Send(j, "far", "ok")
  <2>1. link' = [link EXCEPT ![l] = j2] /\ phone' = phone
    <3>1. read[l] = j /\ SendOn(read, l, "far", "ok") = [read EXCEPT ![l] = Send(@, "far", "ok")]
      BY <1>2, <1>3 DEF AllOK, SendOn, On
    <3>2. link' = [link EXCEPT ![l] = j2]
      BY <1>2, <1>3, <1>9, <3>1 DEF Becomes, AllOK
    <3> QED BY <1>3, <1>9, <3>2 DEF Becomes
  <2>2. "ok" \in Reply /\ "dial" \in Question
    BY DEF Reply, Question
  <2>3. Len(k.near.queue) \in Nat /\ Count(k.far.queue, Question) \in Nat
    BY <1>2, Due
  <2>4. /\ LinkOK(j) /\ j.near = k.near /\ j.far.up = k.far.up
        /\ j.from = k.from /\ j.to = k.to /\ j.holder = k.holder
        /\ Count(j.far.queue, Question) = Count(k.far.queue, Question) - 1
    BY <1>6, <1>9, <2>2
  <2> HIDE DEF j
  <2>5. /\ LinkOK(j2) /\ j2.far = j.far /\ j2.near.up = j.near.up
        /\ j2.from = j.from /\ j2.to = j.to /\ j2.holder = j.holder
        /\ BothUp(j) => Len(j2.near.queue) = Len(j.near.queue) + 1
    BY <2>2, <2>4, SendFar
  <2> HIDE DEF j2
  <2>6. BothUp(j2) => BothUp(k) /\ BothUp(j)
    BY <2>4, <2>5 DEF BothUp
  <2> HIDE DEF k
  <2>7. BothUp(j2) =>
          Count(j2.far.queue, Question) + Len(j2.near.queue)
            = Count(k.far.queue, Question) + Len(k.near.queue)
    <3> SUFFICES ASSUME BothUp(j2)
                 PROVE  Count(j2.far.queue, Question) + Len(j2.near.queue)
                          = Count(k.far.queue, Question) + Len(k.near.queue)
      OBVIOUS
    <3>1. Len(j2.near.queue) = Len(k.near.queue) + 1
      BY <2>4, <2>5, <2>6
    <3>2. Count(j2.far.queue, Question) = Count(k.far.queue, Question) - 1
      BY <2>4, <2>5
    <3> QED BY ONLY <2>3, <3>1, <3>2
  <2>8. j2.from = k.from /\ j2.to = k.to /\ j2.holder = k.holder
    BY <2>4, <2>5
  <2> HIDE DEF l
  <2>9. PInv([link EXCEPT ![l] = j2], phone, pipe)
    BY <1>2, <2>5, <2>6, <2>7, <2>8, FarSaid DEF k
  <2> QED BY <1>1, <2>1, <2>9 DEF PhoneIInv
<1>10. CASE /\ HasMessage(k, "far") /\ m = "reject"
            /\ Becomes(u, CloseOn(read, p.dial, "near"), [p EXCEPT !.dial = None])
  <2> DEFINE p2 == [p EXCEPT !.dial = None]
             ls == CloseOn(read, p.dial, "near")
  <2>1. link' = ls /\ phone' = [phone EXCEPT ![u] = p2]
    BY <1>10 DEF Becomes
  <2>2. After(link, read) /\ AllOK(read)
    BY <1>7, <1>10 DEF After
  <2> HIDE DEF read
  <2>3. After(read, ls)
    BY <2>2, CloseOnIs DEF End
  <2> HIDE DEF ls
  <2>4. After(link, ls)
    BY <1>3, <2>2, <2>3, AfterAgain
  <2>5. p2.wait = None /\ p2.dial = None /\ PhoneOK(p2, u, link)
    BY <1>3 DEF PhoneOK, Pcs
  <2> HIDE DEF p2
  <2>6. PhoneOK(p2, u, ls)
    BY <1>3, <2>4, <2>5, PhoneLater
  <2>7. PInv(ls, [phone EXCEPT ![u] = p2], pipe)
    BY <2>4, <2>5, <2>6, Unwaiting
  <2> QED BY <1>1, <2>1, <2>7 DEF PhoneIInv
<1>11. CASE /\ HasMessage(k, "far") /\ m = "answer"
            /\ Becomes(u, read, [p EXCEPT !.ents[i].out = p.dial, !.dial = None])
  <2> DEFINE e == [p.ents[i] EXCEPT !.out = p.dial]
             es == [p.ents EXCEPT ![i] = e]
             p2 == [[p EXCEPT !.ents = es] EXCEPT !.dial = None]
  <2>1. link' = read /\ phone' = [phone EXCEPT ![u] = p2]
    BY <1>11 DEF Becomes
  <2>2. After(link, read)
    BY <1>7, <1>11
  <2> HIDE DEF read
  <2>3. e \in Ent(WithPhone(link))
    <3>1. p.dial \in Nat \cup {None}
      BY <1>3, Facts
    <3> QED BY <1>2, <3>1 DEF Ent
  <2> HIDE DEF e
  <2>4. es \in Ents(WithPhone(link))
    BY <1>2, <2>3, ExceptSeq DEF Ents
  <2> HIDE DEF es
  <2>5. p2.wait = None /\ p2.dial = None /\ PhoneOK(p2, u, link)
    BY <1>3, <2>4 DEF PhoneOK, Pcs
  <2> HIDE DEF p2
  <2>6. PhoneOK(p2, u, read)
    BY <1>3, <2>2, <2>5, PhoneLater
  <2>7. PInv(read, [phone EXCEPT ![u] = p2], pipe)
    BY <2>2, <2>5, <2>6, Unwaiting
  <2> QED BY <1>1, <2>1, <2>7 DEF PhoneIInv
<1>12. CASE HasMessage(k, "far") /\ m \in {"connect", "hangup", "answer"} /\ Becomes(u, read, p)
  <2>1. After(link, read)
    BY <1>7, <1>12
  <2>2. link' = read /\ phone' = phone
    BY <1>3, <1>12 DEF Becomes
  <2> HIDE DEF read
  <2> QED BY <1>1, <2>1, <2>2, SamePhones, PhoneAssumption DEF PhoneIInv
<1> QED BY <1>1, <1>5, <1>8, <1>9, <1>10, <1>11, <1>12

-----------------------------------------------------------------------------
(* by a phone that gets it from phoned, *)

LEMMA OneGrown ==
  ASSUME PhoneIInv, NEW l \in 1..Len(link), NEW j, LinkOK(j),
         j.from = link[l].from, j.to = link[l].to, link[l].holder # "phoned" => j.holder # "phoned"
  PROVE  LET ls == [link EXCEPT ![l] = j] IN
         /\ Grown(link, ls) /\ Len(ls) = Len(link) /\ AllOK(ls)
         /\ ls[l] = j /\ \A i \in 1..Len(link) : i # l => ls[i] = link[i]
<1> DEFINE ls == [link EXCEPT ![l] = j]
<1>1. AllOK(link) /\ Len(link) \in Nat
  BY Facts, OneChanged DEF PhoneIInv, PInv, AllOK
<1>2. /\ AllOK(ls) /\ Len(ls) = Len(link) /\ ls[l] = j
      /\ \A i \in 1..Len(link) : i # l => ls[i] = link[i]
  BY <1>1, OneChanged
<1> HIDE DEF ls
<1>3. Grown(link, ls)
  BY <1>1, <1>2 DEF Grown
<1> QED BY <1>2, <1>3 DEF ls

\* He waits for what he waited for.
LEMMA SameWaits ==
  ASSUME PhoneIInv, NEW u \in User, NEW p, p.pc = phone[u].pc, p.dial = phone[u].dial, p.wait = phone[u].wait,
         NEW ls, Len(ls) = Len(link), NEW m
  PROVE  WaitsSame(link, ls, m, u, phone[u], p)
<1>1. Len(link) \in Nat
  BY Facts
<1> QED BY <1>1 DEF WaitsSame, Waits

LEMMA Shifted ==
  ASSUME NEW a \in Nat, NEW b \in Nat, NEW c \in Nat, NEW x, NEW y, NEW z,
         x = a, (y = b + 1 /\ z = c - 1) \/ (y = b /\ z = c)
  PROVE  x + y + z = a + b + c
<1>1. CASE y = b + 1 /\ z = c - 1
  <2>1. x \in Int /\ y \in Int /\ z \in Int
    BY <1>1
  <2> QED BY <1>1, <2>1
<1>2. CASE y = b /\ z = c
  BY <1>2
<1> QED BY <1>1, <1>2

LEMMA PNewCaller ==
  ASSUME PhoneIInv, NEW u \in User, NewCaller(u)
  PROVE  PhoneIInv'
<1> DEFINE o == pipe[u]
           given == Head(o)
           l == given.link
           k == link[l]
           k1 == IF given.ack THEN Send(k, "far", "ok") ELSE k
           j == [k1 EXCEPT !.holder = "client"]
           es == Append(phone[u].ents, Entry(l, None))
           p == [phone[u] EXCEPT !.ents = es]
           q == Tail(o)
           ls == [link EXCEPT ![l] = j]
           G == WithPhone(link)
<1>1. /\ phone' = [phone EXCEPT ![u] = p] /\ pipe' = [pipe EXCEPT ![u] = q]
      /\ link' = [(IF given.ack THEN SendOn(link, l, "far", "ok") ELSE link) EXCEPT ![l].holder = "client"]
      /\ o # <<>>
  BY DEF NewCaller, Becomes
<1>2. PipeOK(o, u, link) /\ o \in Seq(Passed(G)) /\ 1 \in DOMAIN o
  <2>1. PipeOK(o, u, link)
    BY Facts
  <2> HIDE DEF o
  <2> QED BY <1>1, <2>1 DEF PipeOK
<1>3. /\ q \in Seq(Passed(G)) /\ Len(q) = Len(o) - 1 /\ Len(o) \in Nat
      /\ given \in Passed(G) /\ given = o[1] /\ \A i \in 1..Len(o) - 1 : q[i] = o[i + 1]
      /\ \A S : /\ Count(o, S) \in Nat /\ Count(q, S) \in Nat
                /\ given \in S => Count(q, S) = Count(o, S) - 1
                /\ given \notin S => Count(q, S) = Count(o, S)
  <2> HIDE DEF o, G
  <2> QED BY <1>1, <1>2, CountTail
<1>4. /\ l \in 1..Len(link) /\ l \in G /\ k.holder # "phoned" /\ given.ack \in BOOLEAN
      /\ given = [link |-> l, ack |-> given.ack] /\ k.to = u /\ l # None
      /\ LinkOK(k) /\ AllOK(link) /\ Len(link) \in Nat
  <2>1. given = o[1]
    BY <1>3
  <2> HIDE DEF q, o
  <2>2. l \in G /\ given.ack \in BOOLEAN /\ given = [link |-> l, ack |-> given.ack]
    BY <1>3 DEF Passed
  <2>3. link[o[1].link].to = u
    BY <1>2 DEF PipeOK
  <2> HIDE DEF given
  <2>4. l \in 1..Len(link) /\ k.holder # "phoned"
    BY <2>2 DEF WithPhone
  <2> QED BY <2>1, <2>2, <2>3, <2>4, Facts
<1> HIDE DEF given, q, o
<1>5. link' = ls
  <2>1. DOMAIN link = 1..Len(link) /\ link = [i \in 1..Len(link) |-> link[i]]
    BY Facts
  <2>2. CASE given.ack
    <3> DEFINE ms == [link EXCEPT ![l] = Send(k, "far", "ok")]
    <3>1. SendOn(link, l, "far", "ok") = ms
      BY <1>4 DEF SendOn, On
    <3>2. link' = [ms EXCEPT ![l].holder = "client"]
      BY <1>1, <2>2, <3>1
    <3> QED BY <1>4, <2>1, <2>2, <3>2
  <2>3. CASE ~given.ack
    BY <1>1, <1>4, <2>1, <2>3
  <2> QED BY <2>2, <2>3
<1> HIDE DEF k, l
<1>6. /\ LinkOK(k1) /\ k1.far = k.far /\ k1.near.up = k.near.up
      /\ k1.from = k.from /\ k1.to = k.to /\ k1.holder = k.holder
      /\ BothUp(k) => Len(k1.near.queue) = Len(k.near.queue) + IF given.ack THEN 1 ELSE 0
      /\ Len(k.near.queue) \in Nat
  <2>1. "ok" \in Reply
    BY DEF Reply
  <2>2. Len(k.near.queue) \in Nat
    BY <1>4, Due DEF k
  <2>3. CASE given.ack
    <3> DEFINE t == Send(k, "far", "ok")
    <3>1. /\ LinkOK(t) /\ t.far = k.far /\ t.near.up = k.near.up
          /\ t.from = k.from /\ t.to = k.to /\ t.holder = k.holder
          /\ BothUp(k) => Len(t.near.queue) = Len(k.near.queue) + 1
      BY <1>4, <2>1, SendFar
    <3>2. k1 = t
      BY <2>3
    <3> HIDE DEF t, k1
    <3> QED BY <2>2, <2>3, <3>1, <3>2
  <2>4. CASE ~given.ack
    BY <1>4, <2>2, <2>4
  <2> QED BY <2>3, <2>4
<1> HIDE DEF k1
<1>7. /\ LinkOK(j) /\ j.near = k1.near /\ j.far = k1.far /\ j.from = k1.from /\ j.to = k1.to
      /\ j.holder = "client"
  <2>1. /\ j \in Links /\ j.near = k1.near /\ j.far = k1.far /\ j.from = k1.from /\ j.to = k1.to
        /\ j.holder = "client"
    BY <1>6 DEF LinkOK, Links
  <2> HIDE DEF j
  <2> QED BY <1>4, <1>6, <2>1 DEF LinkOK
<1> HIDE DEF j
<1>8. /\ l \in 1..Len(link) /\ j.from = link[l].from /\ j.to = link[l].to
      /\ link[l].holder # "phoned" => j.holder # "phoned"
  BY <1>4, <1>6, <1>7 DEF k
<1>9. /\ Grown(link, ls) /\ Len(ls) = Len(link)
  BY <1>7, <1>8, OneGrown
<1>10. /\ p.pc = phone[u].pc /\ p.dial = phone[u].dial /\ p.wait = phone[u].wait
       /\ PhoneOK(p, u, ls)
  <2>1. es \in Ents(G)
    <3>1. Entry(l, None) \in Ent(G)
      BY <1>4 DEF Entry, Ent
    <3>2. phone[u].ents \in Ents(G)
      BY Facts
    <3> HIDE DEF G
    <3> QED BY <3>1, <3>2 DEF Ents
  <2> HIDE DEF es, ls
  <2>2. /\ p.pc = phone[u].pc /\ p.dial = phone[u].dial /\ p.wait = phone[u].wait
        /\ p \in [pc : Pcs, dial : 1..Len(link) \cup {None}, wait : 1..Len(link) \cup {None},
                  ents : Ents(WithPhone(link))]
    BY <2>1, Facts
  <2>3. PhoneOK(p, u, link)
    BY <2>2, Facts DEF PhoneOK, Pcs
  <2> HIDE DEF p
  <2> QED BY <1>4, <1>9, <2>2, <2>3, PhoneGrown, PhoneAssumption
<1> HIDE DEF p
<1>11. PipeOK(q, u, ls)
  <2>1. PipeOK(q, u, link)
    <3>1. \A i \in DOMAIN q : i \in 1..Len(o) - 1 /\ i + 1 \in DOMAIN o
      BY <1>2, <1>3
    <3>2. \A i \in DOMAIN q : q[i] = o[i + 1] /\ link[o[i + 1].link].to = u
      BY <1>2, <1>3, <3>1 DEF PipeOK
    <3> QED BY <1>3, <3>2 DEF PipeOK
  <2> HIDE DEF ls
  <2> QED BY <1>4, <1>9, <2>1, PipeGrown
<1>12. AsksSame(link, ls, l, u, pipe[u], q)
  <2>1. ASSUME NEW i, i # l PROVE Count(q, Asked(i)) = Count(o, Asked(i))
    <3>1. given \notin Asked(i)
      BY <1>4, <2>1 DEF Asked
    <3> QED BY <1>3, <3>1
  <2> HIDE DEF ls
  <2> QED BY <2>1 DEF AsksSame, o
<1>13. ReplyOK(j, [phone EXCEPT ![u] = p][j.from], [pipe EXCEPT ![u] = q][j.to], l)
  <2> DEFINE pp == [phone EXCEPT ![u] = p][j.from]
             v == k.from
  <2>1. /\ ReplyOK(k, phone[v], o, l) /\ v \in User
        /\ Count(k.far.queue, Question) \in Nat /\ Len(k.near.queue) \in Nat
        /\ Count(o, Asked(l)) \in Nat
    BY <1>4, Due DEF k, o
  <2>2. [pipe EXCEPT ![u] = q][j.to] = q
    BY <1>4, <1>6, <1>7, Facts
  <2>3. pp.pc = phone[v].pc /\ pp.dial = phone[v].dial /\ pp.wait = phone[v].wait
    BY <1>6, <1>7, <1>10, <2>1, Facts
  <2> HIDE DEF pp, v
  <2>4. Count(q, Asked(l)) = Count(o, Asked(l)) - IF given.ack THEN 1 ELSE 0
    <3>1. given \in Asked(l) <=> given.ack
      BY <1>4 DEF Asked
    <3> QED BY <1>3, <2>1, <3>1
  <2>5. BothUp(j) => BothUp(k)
    BY <1>6, <1>7 DEF BothUp
  <2>6. BothUp(j) =>
          Count(j.far.queue, Question) + Len(j.near.queue) + Count(q, Asked(l))
            = Count(k.far.queue, Question) + Len(k.near.queue) + Count(o, Asked(l))
    <3> SUFFICES ASSUME BothUp(j)
                 PROVE  Count(j.far.queue, Question) + Len(j.near.queue) + Count(q, Asked(l))
                          = Count(k.far.queue, Question) + Len(k.near.queue) + Count(o, Asked(l))
      OBVIOUS
    <3> DEFINE a == Count(k.far.queue, Question)
               b == Len(k.near.queue)
               c == Count(o, Asked(l))
               x == Count(j.far.queue, Question)
               y == Len(j.near.queue)
               z == Count(q, Asked(l))
    <3>1. x = a /\ a \in Nat /\ b \in Nat /\ c \in Nat
      BY <1>6, <1>7, <2>1
    <3>2. (y = b + 1 /\ z = c - 1) \/ (y = b /\ z = c)
      <4>1. y = b + IF given.ack THEN 1 ELSE 0
        BY <1>6, <1>7, <2>5
      <4>2. z = c - IF given.ack THEN 1 ELSE 0
        BY <2>4
      <4> HIDE DEF b, c, y, z
      <4> QED BY <3>1, <4>1, <4>2
    <3> HIDE DEF a, b, c, x, y, z
    <3>3. x + y + z = a + b + c
      BY <3>1, <3>2, Shifted
    <3> QED BY <3>3 DEF a, b, c, x, y, z
  <2>7. ReplyOK(j, pp, q, l)
    BY <2>1, <2>3, <2>5, <2>6 DEF ReplyOK, Waits
  <2> QED BY <2>2, <2>7 DEF pp
<1>14. WaitsSame(link, ls, l, u, phone[u], p)
  <2> HIDE DEF ls
  <2> QED BY <1>9, <1>10, SameWaits
<1>15. ls = [link EXCEPT ![l] = j]
  OBVIOUS
<1> HIDE DEF ls
<1>16. PInv(ls, [phone EXCEPT ![u] = p], [pipe EXCEPT ![u] = q])
  BY <1>7, <1>8, <1>10, <1>11, <1>12, <1>13, <1>14, <1>15, OneTouched
<1> QED BY <1>1, <1>5, <1>16 DEF PhoneIInv

-----------------------------------------------------------------------------
(* and by phoned, which hands it over, dies, or answers itself. *)

\* phoned closes of the links ks the ones in H.
LEMMA AllShut ==
  ASSUME NEW os, AllOK(os), NEW ks, AllOK(ks), Len(ks) = Len(os), NEW H, NEW h \in {"none", "dropped"},
         \A i \in 1..Len(os) : IF i \in H THEN ks[i].from = os[i].from /\ ks[i].to = os[i].to
                               ELSE Later(os[i], ks[i]),
         \A i \in 1..Len(os) : os[i].holder # "phoned" => ks[i].holder # "phoned"
  PROVE  After(os, Closes(ks, H, h))
<1> DEFINE n == Len(os)
           y(i) == [Shut(ks[i], "far") EXCEPT !.holder = h]
           x(i) == IF i \in H THEN y(i) ELSE ks[i]
           ls == [i \in 1..n |-> x(i)]
<1>1. n \in Nat /\ DOMAIN ks = 1..n /\ \A i \in 1..n : LinkOK(ks[i])
  BY DEF AllOK
<1>0. Closes(ks, H, h) = ls
  BY <1>1 DEF Closes
<1> HIDE DEF y
<1>2. ASSUME NEW i \in 1..n PROVE LinkOK(x(i)) /\ Later(os[i], x(i))
  <2>1. CASE i \in H
    <3> DEFINE k == ks[i]
               j == [Shut(k, "far") EXCEPT !.holder = h]
    <3>1. LinkOK(k)
      BY <1>1
    <3> HIDE DEF k
    <3>2. LinkOK(j) /\ Later(k, j) /\ ~j.far.up /\ j.from = k.from /\ j.to = k.to
      BY <3>1, ClosesIs
    <3> HIDE DEF j
    <3>3. k.from = os[i].from /\ k.to = os[i].to
      BY <2>1 DEF k
    <3>4. os[i].holder # "phoned" => k.holder # "phoned"
      BY DEF k
    <3>5. Later(os[i], j)
      BY <3>2, <3>3, <3>4 DEF Later, BothUp
    <3>6. x(i) = j
      BY <2>1 DEF j, k, y
    <3> QED BY <3>2, <3>5, <3>6
  <2>2. CASE i \notin H
    BY <1>1, <2>2
  <2> QED BY <2>1, <2>2
<1> HIDE DEF x
<1>3. ls \in Seq(Links) /\ Len(ls) = n /\ \A i \in 1..n : ls[i] = x(i)
  <2>1. \A i \in 1..n : x(i) \in Links
    BY <1>2 DEF LinkOK
  <2> HIDE DEF n
  <2> QED BY <1>1, <2>1
<1> HIDE DEF ls
<1>4. After(os, ls)
  BY <1>1, <1>2, <1>3 DEF After, AllOK
<1> QED BY <1>0, <1>4

\* What phoned writes on the links W, which the phone of v gets
ForPhone(v, ls, W) ==
  Grown(link, ls) /\ IsFiniteSet(W) /\ W \subseteq WithPhone(ls) /\ \A l \in W : ls[l].to = v
HasGot(v, ls, q, new) ==
  /\ PipeOK(q, v, ls)
  /\ \A l : /\ Count(pipe[v], Asked(l)) \in Nat
            /\ Count(q, Asked(l)) = Count(pipe[v], Asked(l)) + Count(new, Asked(l))
OnlyFor(new, l) == \A i : Count(new, Asked(i)) = IF i = l THEN 1 ELSE 0
LEMMA HandedOver ==
  ASSUME PhoneIInv, NEW v \in User, NEW ls, NEW W, ForPhone(v, ls, W), NEW ack \in BOOLEAN,
         NEW new \in PassedOn(W, ack)
  PROVE  /\ HasGot(v, ls, pipe[v] \o new, new)
         /\ ack = FALSE => \A l : Count(new, Asked(l)) = 0
         /\ ack = TRUE => \A l : W = {l} => OnlyFor(new, l)
<1> DEFINE n == Cardinality(W)
           M == Passed(WithPhone(ls))
           o == pipe[v]
           T == {Passing(l, ack) : l \in W}
<1>0. /\ Grown(link, ls) /\ W \subseteq WithPhone(ls) /\ IsFiniteSet(W)
      /\ \A l \in W : ls[l].to = v
  BY DEF ForPhone
<1>1. n \in Nat /\ new \in [1..n -> T] /\ (\A l : W = {l} => n = 1)
  BY <1>0, FS_CardinalityType, FS_Singleton DEF PassedOn
<1>2. AllOK(link) /\ PipeOK(o, v, ls)
  <2>1. PipeOK(o, v, link) /\ AllOK(link)
    BY Facts
  <2> HIDE DEF o
  <2> QED BY <1>0, <2>1, PipeGrown
<1>3. \A t \in T : \E l \in W : t = [link |-> l, ack |-> ack]
  BY DEF Passing
<1> HIDE DEF T
<1>4. \A t \in T : t \in M /\ ls[t.link].to = v
  BY <1>0, <1>3 DEF Passed
<1>5. new \in Seq(M) /\ Len(new) = n /\ DOMAIN new = 1..n /\ \A i \in DOMAIN new : new[i] \in T
  <2> HIDE DEF n, M
  <2>1. new \in [1..n -> M]
    BY <1>1, <1>4
  <2> QED BY <1>1, <2>1
<1>6. o \in Seq(M) /\ \A i \in DOMAIN o : ls[o[i].link].to = v
  BY <1>2 DEF PipeOK
<1> HIDE DEF n, M, o
<1>7. o \o new \in Seq(M) /\ \A i \in DOMAIN (o \o new) : ls[(o \o new)[i].link].to = v
  <2> DEFINE q == o \o new
             a == Len(o)
  <2>1. /\ q \in Seq(M) /\ a \in Nat /\ DOMAIN o = 1..a /\ DOMAIN q = 1..(a + n)
        /\ \A i \in 1..(a + n) : q[i] = IF i <= a THEN o[i] ELSE new[i - a]
    BY <1>1, <1>5, <1>6
  <2> HIDE DEF q, a
  <2>2. ASSUME NEW i \in DOMAIN q PROVE ls[q[i].link].to = v
    <3>1. CASE i \in 1..a
      <4>1. q[i] = o[i] /\ i \in DOMAIN o
        BY <1>1, <2>1, <3>1
      <4> QED BY <1>6, <4>1
    <3>2. CASE i \notin 1..a
      <4>1. q[i] = new[i - a] /\ i - a \in DOMAIN new
        BY <1>1, <1>5, <2>1, <3>2
      <4> QED BY <1>4, <1>5, <4>1
    <3> QED BY <3>1, <3>2
  <2> QED BY <2>1, <2>2 DEF q
<1>8. \A S : /\ Count(o, S) \in Nat /\ Count(o \o new, S) = Count(o, S) + Count(new, S)
  BY <1>5, <1>6, CountJoin
<1>9. ack = FALSE => \A l : Count(new, Asked(l)) = 0
  <2> SUFFICES ASSUME ack = FALSE, NEW l PROVE Count(new, Asked(l)) = 0
    OBVIOUS
  <2>1. \A t \in T : t \notin Asked(l)
    BY <1>3 DEF Asked
  <2> QED BY <1>5, <2>1, CountNone
<1>10. ASSUME NEW l, ack = TRUE, W = {l}, NEW i
       PROVE  Count(new, Asked(i)) = IF i = l THEN 1 ELSE 0
  <2>1. Len(new) = 1 /\ DOMAIN new = 1..1 /\ new[1] \in T
    BY <1>1, <1>5, <1>10
  <2>2. new[1] = [link |-> l, ack |-> TRUE]
    BY <1>3, <1>10, <2>1
  <2>3. new[1] \in Asked(i) <=> i = l
    <3>1. new[1].link = l /\ (i = l => new[1] = [link |-> i, ack |-> TRUE])
      <4>1. new[1].link = l
        BY <2>2
      <4>2. i = l => new[1] = [link |-> i, ack |-> TRUE]
        BY ONLY <2>2, Zenon
      <4> QED BY <4>1, <4>2
    <3>2. new[1] = [link |-> i, ack |-> TRUE] => new[1].link = i
      OBVIOUS
    <3>3. new[1] \in Asked(i) <=> new[1] = [link |-> i, ack |-> TRUE]
      BY Zenon DEF Asked
    <3> QED BY ONLY <3>1, <3>2, <3>3, Zenon
  <2> QED BY <2>1, <2>3, CountOne
<1>11. PipeOK(o \o new, v, ls)
  BY <1>7 DEF PipeOK, M
<1>12. ack = TRUE => \A l : W = {l} => OnlyFor(new, l)
  BY <1>10 DEF OnlyFor
<1> QED BY <1>8, <1>9, <1>11, <1>12 DEF HasGot, o

LEMMA PReadUnix ==
  ASSUME PhoneIInv, NEW v \in User, ReadUnix(v)
  PROVE  PhoneIInv'
<1> DEFINE W == Waiting(v)
           H == Held(v)
           o == pipe[v]
<1>1. /\ phone' = phone /\ AllOK(link) /\ After(link, link) /\ Len(link) \in Nat
      /\ DOMAIN link = 1..Len(link) /\ \A l \in 1..Len(link) : LinkOK(link[l])
      /\ link = [l \in 1..Len(link) |-> link[l]]
  BY Facts DEF ReadUnix
<1>2. CASE link' = link /\ pipe' = pipe
  BY <1>1, <1>2 DEF PhoneIInv
<1>3. CASE /\ link' = Closes(link, H, "none")
           /\ pipe' = pipe
  <2>1. \A i \in 1..Len(link) : Later(link[i], link[i])
    BY DEF Later
  <2> HIDE DEF H
  <2>2. After(link, link')
    BY <1>1, <1>3, <2>1, AllShut
  <2> QED BY <1>1, <1>3, <2>2, SamePhones, PhoneAssumption DEF PhoneIInv
<1>4. ASSUME link' = [l \in DOMAIN link |-> IF l \in W THEN [link[l] EXCEPT !.holder = "pipe"] ELSE link[l]],
             NEW new \in PassedOn(W, FALSE), pipe' = [pipe EXCEPT ![v] = o \o new]
      PROVE  PhoneIInv'
  <2> DEFINE n == Len(link)
             x(i) == IF i \in W THEN [link[i] EXCEPT !.holder = "pipe"] ELSE link[i]
             ls == [i \in 1..n |-> x(i)]
             q == o \o new
             p == phone[v]
  <2>1. W \subseteq 1..n /\ \A l \in W : link[l].holder = "phoned" /\ link[l].to = v /\ link[l].named
    BY <1>1 DEF Waiting, Held
  <2> HIDE DEF W
  <2>2. ASSUME NEW i \in 1..n
        PROVE  LinkOK(x(i)) /\ Later(link[i], x(i)) /\ (i \in W => x(i).holder = "pipe")
    <3>1. CASE i \in W
      <4> DEFINE k == link[i]
                 j == [k EXCEPT !.holder = "pipe"]
      <4>1. LinkOK(k) /\ k.named
        BY <1>1, <2>1, <3>1
      <4> HIDE DEF k
      <4>2. /\ j \in Links /\ j.from = k.from /\ j.to = k.to /\ j.near = k.near /\ j.far = k.far
            /\ j.holder = "pipe"
        BY <4>1 DEF LinkOK, Links
      <4> HIDE DEF j
      <4>3. LinkOK(j) /\ Later(k, j)
        BY <4>1, <4>2 DEF LinkOK, Later, BothUp
      <4> QED BY <3>1, <4>2, <4>3 DEF j, k
    <3>2. CASE i \notin W
      BY <1>1, <3>2 DEF Later
    <3> QED BY <3>1, <3>2
  <2> HIDE DEF x
  <2>3. ls \in Seq(Links) /\ Len(ls) = n /\ \A i \in 1..n : ls[i] = x(i)
    <3>1. \A i \in 1..n : x(i) \in Links
      BY <2>2 DEF LinkOK
    <3>2. n \in Nat
      BY <1>1
    <3> HIDE DEF n
    <3> QED BY <3>1, <3>2
  <2>4. link' = ls
    BY <1>1, <1>4 DEF x
  <2> HIDE DEF ls
  <2>5. After(link, ls) /\ Grown(link, ls)
    <3>1. After(link, ls)
      BY <1>1, <2>2, <2>3 DEF After, AllOK
    <3> QED BY <3>1, AfterGrown
  <2>6. W \subseteq WithPhone(ls) /\ (\A l \in W : ls[l].to = v) /\ IsFiniteSet(W)
    <3>1. IsFiniteSet(1..n)
      <4>1. 1 \in Int /\ n \in Int
        BY <1>1
      <4> HIDE DEF n
      <4> QED BY ONLY <4>1, FS_Interval
    <3>2. IsFiniteSet(W)
      BY <2>1, <3>1, FS_Subset
    <3>3. ASSUME NEW l \in W PROVE l \in WithPhone(ls) /\ ls[l].to = v
      <4>1. l \in 1..n /\ ls[l] = x(l) /\ x(l).holder = "pipe" /\ Later(link[l], x(l)) /\ link[l].to = v
        BY <2>1, <2>2, <2>3
      <4> QED BY <2>3, <4>1 DEF WithPhone, Later
    <3> QED BY <3>2, <3>3
  <2>7. PipeOK(q, v, ls) /\ \A l : Count(q, Asked(l)) = Count(o, Asked(l))
    <3>1. HasGot(v, ls, o \o new, new) /\ \A l : Count(new, Asked(l)) = 0
      <4>1. ForPhone(v, ls, W) /\ FALSE \in BOOLEAN
        BY <2>5, <2>6 DEF ForPhone
      <4> HIDE DEF H, n, p, q
      <4> QED BY <4>1, HandedOver
    <3> HIDE DEF q, o
    <3>2. ASSUME NEW l PROVE Count(q, Asked(l)) = Count(o, Asked(l))
      <4>1. Count(o, Asked(l)) \in Nat /\ Count(q, Asked(l)) = Count(o, Asked(l)) + 0
        BY <3>1 DEF HasGot, o, q
      <4> QED BY <4>1
    <3> QED BY <3>1, <3>2 DEF HasGot, q
  <2>8. PhoneOK(p, v, ls)
    BY <2>5, Facts, PhoneGrown
  <2>9. WaitsSame(link, ls, 0, v, phone[v], p)
    <3>1. Len(ls) = Len(link)
      BY <2>3
    <3> QED BY <3>1, SameWaits
  <2>10. /\ OthersLater(link, ls, 0) /\ AsksSame(link, ls, 0, v, pipe[v], q)
         /\ ReplyTo(ls, 0, [phone EXCEPT ![v] = p], [pipe EXCEPT ![v] = q])
    <3>1. 0 \notin 1..Len(ls)
      BY <1>1, <2>3
    <3>2. \A l \in 1..Len(link) : Later(link[l], ls[l])
      BY <2>5 DEF After
    <3> HIDE DEF q
    <3> QED BY <2>7, <3>1, <3>2 DEF OthersLater, AsksSame, ReplyTo
  <2> HIDE DEF q, o
  <2>11. PInv(ls, [phone EXCEPT ![v] = p], [pipe EXCEPT ![v] = q])
    BY <2>5, <2>7, <2>8, <2>9, <2>10, StepIs, PhoneAssumption DEF PhoneIInv
  <2>12. phone' = [phone EXCEPT ![v] = p]
    BY <1>1, Facts
  <2> HIDE DEF p
  <2>13. pipe' = [pipe EXCEPT ![v] = q]
    BY <1>4 DEF q
  <2> QED BY <2>4, <2>11, <2>12, <2>13 DEF PhoneIInv
<1>5. ASSUME NEW after \in SUBSET {}
      PROVE  \A l \in DOMAIN link : Closes(link, after, "dropped")[l] = link[l]
  BY DEF Closes
<1>6. ASSUME NEW after \in SUBSET {},
             link' = [l \in DOMAIN link |-> IF l \in W THEN [link[l] EXCEPT !.holder = "pipe"]
                                            ELSE Closes(link, after, "dropped")[l]],
             NEW new \in PassedOn(W, FALSE), pipe' = [pipe EXCEPT ![v] = o \o new]
      PROVE  PhoneIInv'
  <2>1. link' = [l \in DOMAIN link |-> IF l \in W THEN [link[l] EXCEPT !.holder = "pipe"] ELSE link[l]]
    <3> HIDE DEF W
    <3> QED BY ONLY <1>5, <1>6
  <2> QED BY <1>4, <1>6, <2>1
<1> QED BY <1>2, <1>3, <1>6 DEF ReadUnix, SendToClient

\* The link whose first message phoned has read
LEMMA PhonedReads ==
  ASSUME PhoneIInv, NEW l \in 1..Len(link), link[l].holder = "phoned", HasMessage(link[l], "far")
  PROVE  LET k == link[l]
             m == Head(k.far.queue)
             j == [Read(k, "far") EXCEPT !.named = @ \/ m = "connect"] IN
         /\ LinkOK(j) /\ j.near = k.near /\ j.far.up = k.far.up /\ m \in Request
         /\ j.from = k.from /\ j.to = k.to /\ j.holder = "phoned"
         /\ \A i \in DOMAIN j.far.queue : j.far.queue[i] # "connect"
         /\ Count(k.far.queue, Question) \in Nat /\ Len(k.near.queue) \in Nat
         /\ m \in Question => Count(j.far.queue, Question) = Count(k.far.queue, Question) - 1
         /\ m \notin Question => Later(k, j)
<1> DEFINE k == link[l]
           m == Head(k.far.queue)
           r == Read(k, "far")
           x == r.named \/ m = "connect"
           j == [r EXCEPT !.named = x]
<1>1. LinkOK(k) /\ HasMessage(k, "far") /\ k.holder = "phoned" /\ Len(k.near.queue) \in Nat
  BY Due
<1> HIDE DEF k
<1>2. /\ LinkOK(r) /\ r.near = k.near /\ r.far.up = k.far.up /\ m \in Request
      /\ r.from = k.from /\ r.to = k.to /\ r.holder = k.holder
      /\ \A i \in DOMAIN r.far.queue : r.far.queue[i] # "connect"
      /\ Count(k.far.queue, Question) \in Nat
      /\ m \in Question => Count(r.far.queue, Question) = Count(k.far.queue, Question) - 1
      /\ m \notin Question => Later(k, r)
  BY <1>1, ReadFar
<1>3. x \in BOOLEAN
  OBVIOUS
<1> HIDE DEF r, x, m
<1>4. /\ j \in Links /\ j.near = r.near /\ j.far = r.far /\ j.from = r.from /\ j.to = r.to
      /\ j.holder = r.holder
  BY <1>2, <1>3 DEF LinkOK, Links
<1> HIDE DEF j
<1>5. LinkOK(j)
  BY <1>1, <1>2, <1>4 DEF LinkOK
<1>6. m \notin Question => Later(k, j)
  BY <1>2, <1>4 DEF Later, BothUp
<1> QED BY <1>1, <1>2, <1>4, <1>5, <1>6 DEF j, k, r, x, m

LEMMA PRemoveEntry ==
  ASSUME PhoneIInv, NEW l \in 1..Len(link), RemoveEntry(l), phone' = phone
  PROVE  PhoneIInv'
<1> DEFINE j == Shut(link[l], "far")
<1>1. LinkOK(link[l]) /\ "far" \in End /\ AllOK(link) /\ link[l].from \in User
  BY Due, Facts DEF End, PhoneIInv, PInv
<1>2. LinkOK(j) /\ Later(link[l], j)
  BY <1>1, ShutIs
<1>3. link' = [link EXCEPT ![l] = j] /\ pipe' = pipe
  BY DEF RemoveEntry
<1> HIDE DEF j
<1>4. After(link, link')
  BY <1>1, <1>2, <1>3, OneChanged
<1> QED BY <1>1, <1>3, <1>4, SamePhones, PhoneAssumption DEF PhoneIInv

\* A question for a user with a phone is passed on.
LEMMA PPassed ==
  ASSUME PhoneIInv, NEW l \in 1..Len(link), link[l].holder = "phoned", HasMessage(link[l], "far"),
         Head(link[l].far.queue) \in Question, phone' = phone,
         LET k == link[l]  m == Head(k.far.queue) IN
         SendToClient(k.to, {l}, TRUE,
                      [link EXCEPT ![l] = [Read(k, "far") EXCEPT !.named = @ \/ m = "connect"]])
  PROVE  PhoneIInv'
<1> DEFINE k == link[l]
           v == k.to
           m == Head(k.far.queue)
           j == [Read(k, "far") EXCEPT !.named = @ \/ m = "connect"]
           read == [link EXCEPT ![l] = j]
           H == Held(v)
           o == pipe[v]
           p == phone[v]
<1>1. SendToClient(v, {l}, TRUE, read)
  OBVIOUS
<1>2. /\ LinkOK(j) /\ j.near = k.near /\ j.far.up = k.far.up
      /\ j.from = k.from /\ j.to = k.to /\ j.holder = "phoned"
      /\ \A i \in DOMAIN j.far.queue : j.far.queue[i] # "connect"
      /\ Count(k.far.queue, Question) \in Nat /\ Len(k.near.queue) \in Nat
      /\ Count(j.far.queue, Question) = Count(k.far.queue, Question) - 1
  BY PhonedReads
<1>3. /\ k.from \in User /\ v \in User /\ Count(o, Asked(l)) \in Nat /\ ReplyOK(k, phone[k.from], o, l)
      /\ AllOK(link) /\ Len(link) \in Nat /\ DOMAIN link = 1..Len(link)
      /\ link = [i \in 1..Len(link) |-> link[i]] /\ l \in H
  <2>1. /\ k.from \in User /\ v \in User /\ Count(o, Asked(l)) \in Nat
        /\ ReplyOK(k, phone[k.from], o, l)
    BY Due
  <2>2. /\ AllOK(link) /\ Len(link) \in Nat /\ DOMAIN link = 1..Len(link)
        /\ link = [i \in 1..Len(link) |-> link[i]]
    <3>1. AllOK(link)
      BY DEF PhoneIInv, PInv
    <3> QED BY <3>1 DEF AllOK
  <2>3. l \in H
    BY <2>2 DEF Held
  <2> HIDE DEF j, H, o, p
  <2> QED BY <2>1, <2>2, <2>3
<1> HIDE DEF j
<1>4. /\ AllOK(read) /\ Len(read) = Len(link) /\ read[l] = j /\ DOMAIN read = 1..Len(link)
      /\ \A i \in 1..Len(link) : i # l => read[i] = link[i]
  <2>1. /\ AllOK(read) /\ Len(read) = Len(link) /\ read[l] = j
        /\ \A i \in 1..Len(link) : i # l => read[i] = link[i]
    <3> HIDE DEF k
    <3> QED BY <1>2, <1>3, OneChanged
  <2> QED BY <1>3, <2>1
<1> HIDE DEF read
<1>5. CASE /\ link' = Closes(read, H, "none")
           /\ pipe' = pipe
  <2>1. \A i \in 1..Len(link) : IF i \in H THEN read[i].from = link[i].from /\ read[i].to = link[i].to
                                ELSE Later(link[i], read[i])
    <3> SUFFICES ASSUME NEW i \in 1..Len(link)
                 PROVE  IF i \in H THEN read[i].from = link[i].from /\ read[i].to = link[i].to
                        ELSE Later(link[i], read[i])
      OBVIOUS
    <3>1. CASE i = l
      BY <1>2, <1>3, <1>4, <3>1
    <3>2. CASE i # l
      BY <1>4, <3>2 DEF Later
    <3> QED BY <3>1, <3>2
  <2>2. \A i \in 1..Len(link) : link[i].holder # "phoned" => read[i].holder # "phoned"
    BY <1>2, <1>4
  <2> HIDE DEF H
  <2>3. After(link, link')
    BY <1>3, <1>4, <1>5, <2>1, <2>2, AllShut
  <2> QED BY <1>3, <1>5, <2>3, SamePhones, PhoneAssumption DEF PhoneIInv
<1> DEFINE given == [j EXCEPT !.holder = "pipe"]
           over == [link EXCEPT ![l] = given]
<1>6. ASSUME NEW new \in PassedOn({l}, TRUE), pipe' = [pipe EXCEPT ![v] = o \o new]
      PROVE  PInv(over, phone, pipe')
  <2> DEFINE g == [j EXCEPT !.holder = "pipe"]
             ls == [link EXCEPT ![l] = g]
             q == o \o new
  <2>1. over = ls
    OBVIOUS
  <2> HIDE DEF over, given
  <2>2. LinkOK(g) /\ g.from = k.from /\ g.to = v /\ g.near = k.near /\ g.far = j.far /\ g.holder = "pipe"
    <3>1. /\ g \in Links /\ g.from = k.from /\ g.to = v /\ g.near = k.near /\ g.far = j.far
          /\ g.holder = "pipe"
      BY <1>2 DEF LinkOK, Links
    <3> HIDE DEF g
    <3> QED BY <1>2, <3>1 DEF LinkOK
  <2> HIDE DEF g
  <2>3. Grown(link, ls) /\ Len(ls) = Len(link) /\ ls[l] = g
    BY <2>2, OneGrown
  <2>4. ls = [link EXCEPT ![l] = g]
    OBVIOUS
  <2> HIDE DEF ls
  <2>5. ForPhone(v, ls, {l})
    <3>1. IsFiniteSet({l})
      BY FS_Singleton
    <3>2. l \in WithPhone(ls) /\ ls[l].to = v
      BY <2>2, <2>3 DEF WithPhone
    <3> QED BY <2>3, <3>1, <3>2 DEF ForPhone
  <2>6. HasGot(v, ls, q, new) /\ \A i : Count(new, Asked(i)) = IF i = l THEN 1 ELSE 0
    <3>1. TRUE \in BOOLEAN /\ v \in User /\ PhoneIInv /\ {l} = {l} /\ TRUE = TRUE
      BY <1>3
    <3>2. new \in PassedOn({l}, TRUE)
      BY <1>6
    <3> HIDE DEF v, k, H, p, m, q
    <3>3. HasGot(v, ls, pipe[v] \o new, new)
      BY ONLY <2>5, <3>1, <3>2, HandedOver
    <3> DEFINE W == {l}
    <3>4. ForPhone(v, ls, W) /\ new \in PassedOn(W, TRUE) /\ W = {l}
      BY <2>5, <3>2
    <3> HIDE DEF W
    <3>5. OnlyFor(new, l)
      BY ONLY <3>1, <3>4, HandedOver
    <3> QED BY <3>3, <3>5 DEF q, o, OnlyFor
  <2>7. \A i : i # l => Count(q, Asked(i)) = Count(o, Asked(i))
    <3> SUFFICES ASSUME NEW i, i # l PROVE Count(q, Asked(i)) = Count(o, Asked(i))
      OBVIOUS
    <3>1. Count(o, Asked(i)) \in Nat /\ Count(q, Asked(i)) = Count(o, Asked(i)) + 0
      BY <2>6 DEF HasGot
    <3> QED BY <3>1
  <2>8. Count(q, Asked(l)) = Count(o, Asked(l)) + 1
    BY <2>6 DEF HasGot
  <2>9. PipeOK(q, v, ls)
    BY <2>6 DEF HasGot
  <2> HIDE DEF q
  <2>10. PhoneOK(p, v, ls)
    BY <1>3, <2>3, Facts, PhoneGrown
  <2>11. WaitsSame(link, ls, l, v, phone[v], p)
    <3>1. p.pc = phone[v].pc /\ p.dial = phone[v].dial /\ p.wait = phone[v].wait
      OBVIOUS
    <3> HIDE DEF p, v, k
    <3> QED BY <1>3, <2>3, <3>1, SameWaits
  <2>12. AsksSame(link, ls, l, v, pipe[v], q)
    BY <2>7 DEF AsksSame
  <2>13. ReplyOK(g, phone[k.from], q, l)
    <3> SUFFICES ASSUME BothUp(g), l \in {phone[k.from].wait, phone[k.from].dial}
                 PROVE  Count(g.far.queue, Question) + Len(g.near.queue) + Count(q, Asked(l))
                          = IF Waits(phone[k.from], l) THEN 1 ELSE 0
      BY DEF ReplyOK
    <3> DEFINE a == Count(k.far.queue, Question)
               b == Len(k.near.queue)
               c == Count(o, Asked(l))
               e == IF Waits(phone[k.from], l) THEN 1 ELSE 0
    <3>1. BothUp(k)
      BY <1>2, <2>2 DEF BothUp
    <3>2. a + b + c = e
      BY <1>3, <3>1 DEF ReplyOK
    <3>3. a \in Nat /\ b \in Nat /\ c \in Nat
      BY <1>2, <1>3
    <3>4. Count(g.far.queue, Question) = a - 1 /\ Len(g.near.queue) = b /\ Count(q, Asked(l)) = c + 1
      BY <1>2, <2>2, <2>8
    <3> HIDE DEF a, b, c
    <3>5. (a - 1) + b + (c + 1) = a + b + c
      BY <3>3
    <3> QED BY <3>2, <3>4, <3>5
  <2>14. phone = [u \in User |-> phone[u]] /\ pipe = [u \in User |-> pipe[u]]
    BY <1>3, Facts
  <2>15. [phone EXCEPT ![v] = p] = phone /\ [pipe EXCEPT ![v] = q][g.to] = q
    BY <1>3, <2>2, <2>14
  <2>16. [phone EXCEPT ![v] = p][g.from] = phone[k.from]
    BY <1>3, <2>2, <2>14
  <2>17. /\ l \in 1..Len(link) /\ LinkOK(g) /\ g.from = link[l].from /\ g.to = link[l].to
         /\ link[l].holder # "phoned" => g.holder # "phoned"
    BY <2>2
  <2>18. v \in User /\ PhoneIInv
    BY <1>3
  <2> HIDE DEF v, k, o
  <2>19. ReplyOK(g, [phone EXCEPT ![v] = p][g.from], [pipe EXCEPT ![v] = q][g.to], l)
    BY <2>13, <2>15, <2>16
  <2> DEFINE ph == [phone EXCEPT ![v] = p]
  <2>20. phone = ph
    BY <2>15
  <2> HIDE DEF p
  <2>21. PInv(ls, ph, [pipe EXCEPT ![v] = q])
    BY <2>4, <2>9, <2>10, <2>11, <2>12, <2>17, <2>18, <2>19, OneTouched
  <2>22. pipe' = [pipe EXCEPT ![v] = q]
    BY <1>6 DEF q, o, v
  <2> HIDE DEF ph
  <2> QED BY <2>1, <2>20, <2>21, <2>22
<1>7. ASSUME NEW after \in SUBSET (Nameless(v) \ {l}),
             link' = [i \in DOMAIN read |-> IF i \in {l} THEN [read[i] EXCEPT !.holder = "pipe"]
                                            ELSE Closes(read, after, "dropped")[i]],
             NEW new \in PassedOn({l}, TRUE), pipe' = [pipe EXCEPT ![v] = o \o new]
      PROVE  PhoneIInv'
  <2>1. PInv(over, phone, pipe')
    BY <1>6, <1>7
  <2>2. /\ DOMAIN over = 1..Len(link) /\ over[l] = given
        /\ \A i \in 1..Len(link) : i # l => over[i] = link[i]
    BY <1>3
  <2>3. AllOK(over) /\ Len(over) = Len(link)
    <3>1. AllOK(over)
      BY <2>1 DEF PInv
    <3>2. Len(over) \in Nat /\ DOMAIN over = 1..Len(over)
      BY <3>1 DEF AllOK
    <3> HIDE DEF over
    <3> QED BY <1>3, <2>2, <3>1, <3>2
  <2> HIDE DEF over
  <2>4. link' = Closes(over, after, "dropped")
    <3> DEFINE c == Closes(read, after, "dropped")
               d == Closes(over, after, "dropped")
    <3>1. /\ d = [i \in 1..Len(link) |-> d[i]]
          /\ \A i \in 1..Len(link) : d[i] = IF i = l THEN given ELSE c[i]
      BY <1>4, <1>7, <2>2 DEF Closes
    <3>2. link' = [i \in 1..Len(link) |-> IF i = l THEN given ELSE c[i]]
      BY <1>4, <1>7
    <3> HIDE DEF c, d, given
    <3>3. link' = d
      BY ONLY <3>1, <3>2
    <3> QED BY <3>3 DEF d
  <2>5. After(over, Closes(over, after, "dropped"))
    <3>1. \A i \in 1..Len(over) : Later(over[i], over[i])
      BY DEF Later
    <3> QED BY <2>3, <3>1, AllShut
  <2>6. PInv(link', phone, pipe')
    BY <1>3, <2>1, <2>4, <2>5, SamePhones, PhoneAssumption
  <2> QED BY <2>6 DEF PhoneIInv
<1> QED BY <1>1, <1>5, <1>7 DEF SendToClient

LEMMA PDialUser ==
  ASSUME PhoneIInv, NEW l \in 1..Len(link), link[l].holder = "phoned", HasMessage(link[l], "far"),
         Head(link[l].far.queue) \in Question, phone' = phone,
         LET k == link[l]  m == Head(k.far.queue) IN
         DialUser(l, [link EXCEPT ![l] = [Read(k, "far") EXCEPT !.named = @ \/ m = "connect"]])
  PROVE  PhoneIInv'
<1> DEFINE k == link[l]
           m == Head(k.far.queue)
           j == [Read(k, "far") EXCEPT !.named = @ \/ m = "connect"]
           read == [link EXCEPT ![l] = j]
<1>1. DialUser(l, read)
  OBVIOUS
<1>2. /\ LinkOK(j) /\ j.near = k.near /\ j.far.up = k.far.up
      /\ j.from = k.from /\ j.to = k.to /\ j.holder = "phoned"
      /\ \A i \in DOMAIN j.far.queue : j.far.queue[i] # "connect"
      /\ Count(k.far.queue, Question) \in Nat /\ Len(k.near.queue) \in Nat
      /\ Count(j.far.queue, Question) = Count(k.far.queue, Question) - 1
  BY PhonedReads
<1>3. k.from \in User /\ k.to \in User /\ AllOK(link) /\ k.holder = "phoned"
  <2>1. k.from \in User /\ k.to \in User
    BY Due
  <2>2. AllOK(link)
    BY DEF PhoneIInv, PInv
  <2> QED BY <2>1, <2>2
<1> HIDE DEF j
<1>4. read[l] = j /\ pipe' = pipe
  BY <1>1, <1>3 DEF AllOK, DialUser
<1>5. PICK mood \in Mood[read[l].to] :
        link' = [read EXCEPT ![l] = LET t == Send(read[l], "far", mood) IN
                                    IF mood = "hangup" THEN Shut(t, "far") ELSE t]
  BY <1>1 DEF DialUser
<1> DEFINE t == Send(j, "far", mood)
           z == Shut(t, "far")
           g == IF mood = "hangup" THEN z ELSE t
<1>6. link' = [link EXCEPT ![l] = g]
  BY <1>3, <1>4, <1>5 DEF AllOK
<1>7. mood \in Reply
  <2>1. mood \in Mood[k.to]
    BY <1>2, <1>4
  <2> QED BY <1>3, <2>1 DEF Reply
<1>8. /\ LinkOK(t) /\ t.far = j.far /\ t.near.up = j.near.up
      /\ t.from = k.from /\ t.to = k.to /\ t.holder = "phoned"
      /\ BothUp(j) => Len(t.near.queue) = Len(j.near.queue) + 1
  BY <1>2, <1>7, SendFar
<1>9. LinkOK(z) /\ ~z.far.up /\ z.from = t.from /\ z.to = t.to
  <2>1. "far" \in End
    BY DEF End
  <2> HIDE DEF t
  <2> QED BY <1>8, <2>1, ShutIs
<1> HIDE DEF t, z
<1>10. CASE mood = "hangup"
  <2>1. Later(k, z) /\ link' = [link EXCEPT ![l] = z]
    BY <1>3, <1>6, <1>8, <1>9, <1>10 DEF Later, BothUp
  <2>2. After(link, link')
    BY <1>3, <1>9, <2>1, OneChanged
  <2> HIDE DEF k
  <2> QED BY <1>3, <1>4, <2>2, SamePhones, PhoneAssumption DEF PhoneIInv
<1>11. CASE mood # "hangup"
  <2>1. link' = [link EXCEPT ![l] = t]
    BY <1>6, <1>11
  <2>2. BothUp(t) => BothUp(k) /\ BothUp(j)
    BY <1>2, <1>8 DEF BothUp
  <2>3. BothUp(t) => Count(t.far.queue, Question) + Len(t.near.queue)
                       = Count(k.far.queue, Question) + Len(k.near.queue)
    <3> SUFFICES ASSUME BothUp(t)
                 PROVE  Count(t.far.queue, Question) + Len(t.near.queue)
                          = Count(k.far.queue, Question) + Len(k.near.queue)
      OBVIOUS
    <3>1. Len(t.near.queue) = Len(k.near.queue) + 1
      BY <1>2, <1>8, <2>2
    <3>2. Count(t.far.queue, Question) = Count(k.far.queue, Question) - 1
      BY <1>2, <1>8
    <3>3. Count(k.far.queue, Question) \in Nat /\ Len(k.near.queue) \in Nat
      BY <1>2
    <3> HIDE DEF k, m, read, g
    <3> QED BY ONLY <3>1, <3>2, <3>3
  <2>4. t.from = k.from /\ t.to = k.to /\ t.holder = k.holder
    BY <1>3, <1>8
  <2>5. PInv([link EXCEPT ![l] = t], phone, pipe)
    BY <1>8, <2>2, <2>3, <2>4, FarSaid
  <2> QED BY <1>4, <2>1, <2>5 DEF PhoneIInv
<1> QED BY <1>10, <1>11

LEMMA PReadDecnet ==
  ASSUME PhoneIInv, NEW l \in DOMAIN link, ReadDecnet(l)
  PROVE  PhoneIInv'
<1> DEFINE k == link[l]
           m == Head(k.far.queue)
           j == [Read(k, "far") EXCEPT !.named = @ \/ m = "connect"]
           read == [link EXCEPT ![l] = j]
<1>1. /\ l \in 1..Len(link) /\ k.holder = "phoned" /\ phone' = phone /\ AllOK(link)
      /\ k.from \in User
  <2>1. AllOK(link)
    BY DEF PhoneIInv, PInv
  <2>2. l \in 1..Len(link)
    BY <2>1 DEF AllOK
  <2> QED BY <2>1, <2>2, Due DEF ReadDecnet
<1>2. CASE RemoveEntry(l)
  BY <1>1, <1>2, PRemoveEntry
<1>3. CASE HasMessage(k, "far") /\ m \in {"connect", "dial"} /\ SendToClient(k.to, {l}, TRUE, read)
  <2>1. m \in Question
    BY <1>3 DEF Question
  <2> QED BY <1>1, <1>3, <2>1, PPassed
<1>4. CASE HasMessage(k, "far") /\ m \in {"connect", "dial"} /\ DialUser(l, read)
  <2>1. m \in Question
    BY <1>4 DEF Question
  <2> QED BY <1>1, <1>4, <2>1, PDialUser
<1>5. CASE HasMessage(k, "far") /\ m \notin {"connect", "dial"} /\ link' = read /\ pipe' = pipe
  <2>1. Later(k, j) /\ LinkOK(j)
    <3>1. m \notin Question
      BY <1>5 DEF Question
    <3> QED BY <1>1, <1>5, <3>1, PhonedReads
  <2> HIDE DEF j
  <2>2. After(link, read)
    BY <1>1, <2>1, OneChanged
  <2> HIDE DEF read, k
  <2> QED BY <1>1, <1>5, <2>2, SamePhones, PhoneAssumption DEF PhoneIInv
<1> QED BY <1>2, <1>3, <1>4, <1>5 DEF ReadDecnet

-----------------------------------------------------------------------------
(***************************************************************************)
(* What is done for every entry.  Steps of f in D from a: f[n] is the step *)
(* for the nth entry.                                                      *)
(***************************************************************************)
LEMMA NatUp ==
  ASSUME NEW T \in SUBSET Nat, 0 \in T, \A n \in T : n + 1 \in T
  PROVE  T = Nat
<1> SUFFICES ASSUME T # Nat PROVE FALSE
  OBVIOUS
<1> DEFINE U == Nat \ T
<1>1. PICK R : IsWellFoundedOn(R, Nat) /\ \A x, y \in Nat : <<y, x>> \in R <=> y < x
  <2> DEFINE R == OpToRel(<, Nat)
  <2>1. IsWellFoundedOn(R, Nat)
    BY NatLessThanWellFounded
  <2>2. \A x, y \in Nat : <<y, x>> \in R <=> y < x
    BY DEF OpToRel
  <2> HIDE DEF R
  <2> QED BY <2>1, <2>2
<1>2. U \subseteq Nat /\ U # {}
  OBVIOUS
<1>3. PICK x \in U : \A y \in U : ~(<<y, x>> \in R)
  <2> HIDE DEF U
  <2> QED BY <1>1, <1>2, WFMin
<1>4. x \in Nat /\ x # 0 /\ x - 1 \in Nat /\ (x - 1) + 1 = x /\ x - 1 < x
  OBVIOUS
<1>5. x - 1 \notin U
  BY <1>1, <1>3, <1>4
<1> QED BY <1>4, <1>5

Runs(w, D, L, f, a) ==
  w \in [0..L -> D] /\ w[0] = a /\ \A n \in 1..L : w[n] = f[n][w[n - 1]]

LEMMA Recursion ==
  ASSUME NEW D, NEW L \in Nat, NEW f \in [1..L -> [D -> D]], NEW a \in D
  PROVE  \E w : Runs(w, D, L, f, a)
<1> DEFINE Steps(w, n) == /\ w \in [0..n -> D] /\ w[0] = a
                          /\ \A i \in 1..n : w[i] = f[i][w[i - 1]]
           T == {n \in Nat : n <= L => \E w : Steps(w, n)}
<1>1. 0 \in T
  <2>1. Steps([i \in 0..0 |-> a], 0)
    OBVIOUS
  <2> QED BY <2>1
<1>2. ASSUME NEW n \in T PROVE n + 1 \in T
  <2> SUFFICES ASSUME n + 1 <= L PROVE \E w : Steps(w, n + 1)
    OBVIOUS
  <2>1. n \in Nat /\ n + 1 \in 1..L /\ n <= L
    OBVIOUS
  <2>2. PICK w : Steps(w, n)
    BY <2>1
  <2> DEFINE x == f[n + 1][w[n]]
             v == [i \in 0..(n + 1) |-> IF i = n + 1 THEN x ELSE w[i]]
  <2>3. x \in D
    <3>1. w[n] \in D
      BY <2>1, <2>2
    <3>2. f[n + 1] \in [D -> D]
      BY <2>1
    <3> QED BY <3>1, <3>2
  <2>4. \A i \in 0..n : v[i] = w[i] /\ w[i] \in D
    BY <2>1, <2>2
  <2>5. v[n + 1] = x
    BY <2>1
  <2>6. v = [i \in 0..(n + 1) |-> v[i]]
    OBVIOUS
  <2> HIDE DEF v
  <2>7. v \in [0..(n + 1) -> D]
    <3>1. \A i \in 0..(n + 1) : i \in 0..n \/ i = n + 1
      BY <2>1
    <3>2. \A i \in 0..(n + 1) : v[i] \in D
      BY <3>1, <2>3, <2>4, <2>5
    <3> QED BY <2>6, <3>2
  <2>8. ASSUME NEW i \in 1..(n + 1) PROVE v[i] = f[i][v[i - 1]]
    <3>1. i - 1 \in 0..n
      BY <2>1
    <3>2. CASE i = n + 1
      <4>1. i - 1 = n
        BY <3>2, <2>1
      <4> QED BY <4>1, <3>1, <3>2, <2>4, <2>5
    <3>3. CASE i \in 1..n
      <4>1. i \in 0..n
        BY <3>3
      <4> QED BY <4>1, <3>1, <3>3, <2>2, <2>4
    <3> QED BY <3>2, <3>3, <2>1
  <2>9. v[0] = a
    BY <2>1, <2>2, <2>4
  <2> QED BY <2>7, <2>8, <2>9
<1>3. \E w : Steps(w, L)
  <2>1. T \in SUBSET Nat
    OBVIOUS
  <2>2. T = Nat
    <3> HIDE DEF T
    <3> QED BY <2>1, <1>1, <1>2, NatUp
  <2> QED BY <2>2
<1> QED BY <1>3 DEF Runs

LEMMA Kept ==
  ASSUME NEW D, NEW L \in Nat, NEW g, g[0] \in D, \A n \in 1..L : g[n - 1] \in D => g[n] \in D
  PROVE  g[L] \in D
<1> DEFINE T == {n \in Nat : n <= L => g[n] \in D}
<1>1. ASSUME NEW n \in T PROVE n + 1 \in T
  <2>1. n \in Nat /\ (n + 1) - 1 = n /\ (n + 1 <= L => n + 1 \in 1..L /\ n <= L)
    OBVIOUS
  <2> QED BY <2>1
<1>2. T \in SUBSET Nat /\ 0 \in T
  OBVIOUS
<1>3. T = Nat
  <2> HIDE DEF T
  <2> QED BY <1>1, <1>2, NatUp
<1> QED BY <1>3

-----------------------------------------------------------------------------
LEMMA CallsBegin ==
  ASSUME PhoneIInv, NEW u \in User, Idle(u)
  PROVE  /\ [ks |-> CancelDial(u), ents |-> phone[u].ents] \in Since(link, WithPhone(link))
         /\ Len(phone[u].ents) \in Nat
         /\ \A n \in 1..Len(phone[u].ents) : phone[u].ents[n] \in Ent(WithPhone(link))
<1>1. After(link, CancelDial(u)) /\ phone[u].ents \in Ents(WithPhone(link))
  BY Cancelled, Facts
<1>2. CancelDial(u) \in Seq(Links)
  BY <1>1 DEF After, AllOK
<1> QED BY <1>1, <1>2 DEF Since, Ents

LEMMA AnsweredIs ==
  ASSUME PhoneIInv, NEW u \in User, Idle(u), NEW reject \in BOOLEAN
  PROVE  Answered(u, reject) \in Since(link, WithPhone(link))
<1> DEFINE G == WithPhone(link)
           S == Since(link, G)
           D == [s : S, todo : SUBSET Nat]
           ents == phone[u].ents
           L == Len(ents)
           b == [ks |-> CancelDial(u), ents |-> ents]
           a == [s |-> b, todo |-> Unanswered(phone[u])]
           Step(n, t) == IF n \notin t.todo THEN t
                         ELSE [s |-> AnswerOne(t.s, u, ents[n], reject),
                               todo |-> IF Reached(t.s, ents[n]) THEN t.todo ELSE {}]
           f == [n \in 1..L |-> [t \in D |-> Step(n, t)]]
<1>0. b \in S /\ L \in Nat /\ \A n \in 1..L : ents[n] \in Ent(G)
  BY CallsBegin
<1>1. a \in D /\ L \in Nat
  <2>1. Unanswered(phone[u]) \in SUBSET Nat
    <3>1. Unanswered(phone[u]) \subseteq DOMAIN ents /\ ents \in Seq(Ent(G))
      BY Facts DEF Unanswered, Ents
    <3> HIDE DEF ents, G
    <3> QED BY <3>1
  <2> HIDE DEF b, S
  <2> QED BY <1>0, <2>1
<1>2. ASSUME NEW n \in 1..L, NEW t \in D PROVE Step(n, t) \in D
  <2>1. AllOK(link) /\ link \in Seq(Links) /\ G \subseteq 1..Len(link)
    <3>1. AllOK(link) /\ link \in Seq(Links)
      BY DEF PhoneIInv, PInv, AllOK
    <3> QED BY <3>1 DEF WithPhone
  <2> DEFINE e == ents[n]
  <2>2. e \in Ent(G)
    BY <1>0
  <2>3. t.s \in S /\ t.todo \in SUBSET Nat /\ t = [s |-> t.s, todo |-> t.todo]
    <3> HIDE DEF S
    <3> QED OBVIOUS
  <2> HIDE DEF e, G
  <2>4. AnswerOne(t.s, u, e, reject) \in S
    BY <2>1, <2>2, <2>3, AnswerOneIs
  <2> HIDE DEF S
  <2> QED BY <2>3, <2>4 DEF e
<1>3. f \in [1..L -> [D -> D]]
  <2> HIDE DEF D, L, Step
  <2> QED BY <1>2
<1>4. PICK w \in [0..L -> D] : w[0] = a /\ \A n \in 1..L : w[n] = f[n][w[n - 1]]
  <2> HIDE DEF f, L, a, D
  <2>1. \E w : Runs(w, D, L, f, a)
    BY ONLY <1>1, <1>3, Recursion
  <2> QED BY ONLY <2>1 DEF Runs
<1>5. \A n \in 1..L : w[n] = Step(n, w[n - 1])
  <2> SUFFICES ASSUME NEW n \in 1..L PROVE w[n] = Step(n, w[n - 1])
    OBVIOUS
  <2>1. n - 1 \in 0..L
    BY <1>1
  <2> HIDE DEF L, D, Step
  <2>2. w[n - 1] \in D
    BY <2>1
  <2> QED BY <2>2, <1>4
<1> DEFINE Is(g) == g = [n \in 0..L |-> IF n = 0 THEN a ELSE Step(n, g[n - 1])]
           done == CHOOSE g : Is(g)
<1>6. Is(w)
  <2>1. w = [n \in 0..L |-> w[n]]
    <3> HIDE DEF L, D
    <3> QED OBVIOUS
  <2>2. \A n \in 0..L : n = 0 \/ n \in 1..L
    BY <1>1
  <2> HIDE DEF L, D, a, f, ents, Step
  <2> QED BY <2>1, <2>2, <1>4, <1>5
<1>7. Is(done)
  <2> HIDE DEF Is
  <2> QED BY <1>6
<1>8. done[0] = a /\ \A n \in 1..L : done[n] = Step(n, done[n - 1])
  <2>1. 0 \in 0..L /\ \A n \in 1..L : n \in 0..L /\ n # 0
    BY <1>1
  <2> HIDE DEF done, L, a, ents, Step
  <2> QED BY <1>7, <2>1
<1>9. done[L] \in D
  <2> HIDE DEF done, L, a, D, Step
  <2>1. done[0] \in D /\ \A n \in 1..L : done[n - 1] \in D => done[n] \in D
    BY <1>1, <1>2, <1>8
  <2> QED BY ONLY <1>1, <2>1, Kept
<1>10. Answered(u, reject) = done[L].s
  BY DEF Answered
<1>11. done[L].s \in S
  <2> HIDE DEF done, S, L
  <2> QED BY <1>9
<1> QED BY <1>10, <1>11

LEMMA HungUpIs ==
  ASSUME PhoneIInv, NEW u \in User, Idle(u)
  PROVE  HungUp(u) \in Since(link, WithPhone(link))
<1> DEFINE G == WithPhone(link)
           D == Since(link, G)
           ents == phone[u].ents
           L == Len(ents)
           a == [ks |-> CancelDial(u), ents |-> ents]
           Step(n, s) == Delete([ks |-> CloseConnection(s.ks, ents[n].out), ents |-> s.ents], ents[n].in)
           f == [n \in 1..L |-> [s \in D |-> Step(n, s)]]
<1>1. a \in D /\ L \in Nat /\ \A n \in 1..L : ents[n] \in Ent(G)
  BY CallsBegin
<1>2. ASSUME NEW n \in 1..L, NEW s \in D PROVE Step(n, s) \in D
  <2>1. AllOK(link)
    BY DEF PhoneIInv, PInv
  <2> DEFINE ls == CloseConnection(s.ks, ents[n].out)
             t == [ks |-> ls, ents |-> s.ents]
  <2>2. After(link, s.ks) /\ AllOK(s.ks) /\ s.ents \in Ents(G)
    BY DEF Since, After
  <2> HIDE DEF ents, G
  <2>3. After(s.ks, ls)
    BY <2>2, CloseConnectionIs
  <2> HIDE DEF ls
  <2>4. After(link, ls)
    BY <2>1, <2>2, <2>3, AfterAgain
  <2>5. t \in D
    BY <2>2, <2>4 DEF Since, After, AllOK
  <2> HIDE DEF t
  <2>6. Delete(t, ents[n].in) \in D
    BY <2>1, <2>5, DeleteIs
  <2> QED BY <2>6 DEF t, ls
<1>3. f \in [1..L -> [D -> D]]
  <2> HIDE DEF D, L, Step
  <2> QED BY <1>2
<1>4. PICK w \in [0..L -> D] : w[0] = a /\ \A n \in 1..L : w[n] = f[n][w[n - 1]]
  <2> HIDE DEF f, L, a, D
  <2>1. \E w : Runs(w, D, L, f, a)
    BY ONLY <1>1, <1>3, Recursion
  <2> QED BY ONLY <2>1 DEF Runs
<1>5. \A n \in 1..L : w[n] = Step(n, w[n - 1])
  <2> SUFFICES ASSUME NEW n \in 1..L PROVE w[n] = Step(n, w[n - 1])
    OBVIOUS
  <2>1. n - 1 \in 0..L
    BY <1>1
  <2> HIDE DEF L, D, Step
  <2>2. w[n - 1] \in D
    BY <2>1
  <2> QED BY <2>2, <1>4
<1> DEFINE Is(g) == g = [n \in 0..L |-> IF n = 0 THEN a
                                        ELSE Delete([ks |-> CloseConnection(g[n - 1].ks, ents[n].out),
                                                     ents |-> g[n - 1].ents], ents[n].in)]
           done == CHOOSE g : Is(g)
<1>6. Is(w)
  <2>1. w = [n \in 0..L |-> w[n]]
    <3> HIDE DEF L, D
    <3> QED OBVIOUS
  <2>2. \A n \in 0..L : n = 0 \/ n \in 1..L
    BY <1>1
  <2> HIDE DEF L, D, a, f, ents
  <2> QED BY <2>1, <2>2, <1>4, <1>5
<1>7. Is(done)
  <2> HIDE DEF Is
  <2> QED BY <1>6
<1>8. done[0] = a /\ \A n \in 1..L : done[n] = Step(n, done[n - 1])
  <2>1. 0 \in 0..L /\ \A n \in 1..L : n \in 0..L /\ n # 0
    BY <1>1
  <2> HIDE DEF done, L, a, ents
  <2> QED BY <1>7, <2>1
<1>9. done[L] \in D
  <2> HIDE DEF done, L, a, D, Step
  <2>1. done[0] \in D /\ \A n \in 1..L : done[n - 1] \in D => done[n] \in D
    BY <1>1, <1>2, <1>8
  <2> QED BY ONLY <1>1, <2>1, Kept
<1>10. HungUp(u) = done[L]
  BY DEF HungUp
<1> QED BY <1>9, <1>10

LEMMA GoodbyeIs ==
  ASSUME PhoneIInv, NEW u \in User
  PROVE  After(link, SaidGoodbye(u)) /\ Len(SaidGoodbye(u)) = Len(link)
<1> DEFINE D == {ks \in Seq(Links) : After(link, ks) /\ Len(ks) = Len(link)}
           ents == phone[u].ents
           L == Len(ents)
           Step(n, ks) == CloseConnection(ks, ents[n].out)
           f == [n \in 1..L |-> [ks \in D |-> Step(n, ks)]]
<1>1. link \in D /\ L \in Nat
  <2>1. link \in Seq(Links) /\ After(link, link) /\ ents \in Ents(WithPhone(link))
    BY Facts
  <2> QED BY <2>1 DEF Ents
<1>2. ASSUME NEW n \in 1..L, NEW ks \in D PROVE Step(n, ks) \in D
  <2>1. AllOK(link) /\ After(link, ks) /\ AllOK(ks) /\ Len(ks) = Len(link)
    BY DEF PhoneIInv, PInv, After
  <2> DEFINE ls == CloseConnection(ks, ents[n].out)
  <2> HIDE DEF ents
  <2>2. After(ks, ls) /\ Len(ls) = Len(ks)
    BY <2>1, CloseConnectionIs
  <2> HIDE DEF ls
  <2>3. After(link, ls)
    BY <2>1, <2>2, AfterAgain
  <2>4. ls \in D
    BY <2>1, <2>2, <2>3 DEF After, AllOK
  <2> QED BY <2>4 DEF ls
<1>3. f \in [1..L -> [D -> D]]
  <2> HIDE DEF D, L, Step
  <2> QED BY <1>2
<1>4. PICK w \in [0..L -> D] : w[0] = link /\ \A n \in 1..L : w[n] = f[n][w[n - 1]]
  <2> HIDE DEF f, L, D
  <2>1. \E w : Runs(w, D, L, f, link)
    BY ONLY <1>1, <1>3, Recursion
  <2> QED BY ONLY <2>1 DEF Runs
<1>5. \A n \in 1..L : w[n] = Step(n, w[n - 1])
  <2> SUFFICES ASSUME NEW n \in 1..L PROVE w[n] = Step(n, w[n - 1])
    OBVIOUS
  <2>1. n - 1 \in 0..L
    BY <1>1
  <2> HIDE DEF L, D, Step
  <2>2. w[n - 1] \in D
    BY <2>1
  <2> QED BY <2>2, <1>4
<1> DEFINE Is(g) == g = [n \in 0..L |-> IF n = 0 THEN link ELSE CloseConnection(g[n - 1], ents[n].out)]
           told == CHOOSE g : Is(g)
<1>6. Is(w)
  <2>1. w = [n \in 0..L |-> w[n]]
    <3> HIDE DEF L, D
    <3> QED OBVIOUS
  <2>2. \A n \in 0..L : n = 0 \/ n \in 1..L
    BY <1>1
  <2> HIDE DEF L, D, f, ents
  <2> QED BY <2>1, <2>2, <1>4, <1>5
<1>7. Is(told)
  <2> HIDE DEF Is
  <2> QED BY <1>6
<1>8. told[0] = link /\ \A n \in 1..L : told[n] = Step(n, told[n - 1])
  <2>1. 0 \in 0..L /\ \A n \in 1..L : n \in 0..L /\ n # 0
    BY <1>1
  <2> HIDE DEF told, L, ents
  <2> QED BY <1>7, <2>1
<1>9. told[L] \in D
  <2> HIDE DEF told, L, D, Step
  <2>1. told[0] \in D /\ \A n \in 1..L : told[n - 1] \in D => told[n] \in D
    BY <1>1, <1>2, <1>8
  <2> QED BY ONLY <1>1, <2>1, Kept
<1>10. SaidGoodbye(u) = told[L]
  BY DEF SaidGoodbye
<1> HIDE DEF told, L
<1> QED BY <1>9, <1>10

\* A step of user u after the key that ends the ringing
LEMMA CallsEnd ==
  ASSUME PhoneIInv, NEW u \in User, Idle(u), NEW s \in Since(link, WithPhone(link))
  PROVE  PInv(s.ks, [phone EXCEPT ![u] = [Keyed(u) EXCEPT !.ents = s.ents]], pipe)
<1> DEFINE p == [Keyed(u) EXCEPT !.ents = s.ents]
           ls == s.ks
<1>1. After(link, ls) /\ s.ents \in Ents(WithPhone(link)) /\ AllOK(link)
  BY DEF Since, PhoneIInv, PInv
<1>2. p.wait = None /\ p.dial = None /\ PhoneOK(p, u, link)
  BY <1>1, Cancelled, Facts DEF PhoneOK, Keyed, Idle, Pcs
<1> HIDE DEF p, ls
<1>3. PhoneOK(p, u, ls)
  BY <1>1, <1>2, PhoneLater
<1>4. PInv(ls, [phone EXCEPT ![u] = p], pipe)
  BY <1>1, <1>2, <1>3, Unwaiting
<1> QED BY <1>4 DEF p, ls

LEMMA PAnswer ==
  ASSUME PhoneIInv, NEW u \in User, NEW reject \in BOOLEAN, Answer(u, reject)
  PROVE  PhoneIInv'
<1> DEFINE s == Answered(u, reject)
<1>1. /\ link' = s.ks /\ phone' = [phone EXCEPT ![u] = [Keyed(u) EXCEPT !.ents = s.ents]]
      /\ pipe' = pipe /\ Idle(u)
  BY DEF Answer, Becomes
<1>2. s \in Since(link, WithPhone(link))
  BY <1>1, AnsweredIs
<1> HIDE DEF s
<1>3. PInv(s.ks, [phone EXCEPT ![u] = [Keyed(u) EXCEPT !.ents = s.ents]], pipe)
  BY <1>1, <1>2, CallsEnd
<1> QED BY <1>1, <1>3 DEF PhoneIInv

LEMMA PDoHangup ==
  ASSUME PhoneIInv, NEW u \in User, DoHangup(u)
  PROVE  PhoneIInv'
<1> DEFINE s == HungUp(u)
<1>1. /\ link' = s.ks /\ phone' = [phone EXCEPT ![u] = [Keyed(u) EXCEPT !.ents = s.ents]]
      /\ pipe' = pipe /\ Idle(u)
  BY DEF DoHangup, Becomes
<1>2. s \in Since(link, WithPhone(link))
  BY <1>1, HungUpIs
<1> HIDE DEF s
<1>3. PInv(s.ks, [phone EXCEPT ![u] = [Keyed(u) EXCEPT !.ents = s.ents]], pipe)
  BY <1>1, <1>2, CallsEnd
<1> QED BY <1>1, <1>3 DEF PhoneIInv

LEMMA ClosedIs ==
  ASSUME NEW u, NEW k, LinkOK(k), NEW l
  PROVE  LET j == Closed(u, k, l) IN
         /\ LinkOK(j) /\ Later(k, j)
         /\ link[l].to = u /\ link[l].holder \in {"pipe", "client"} => ~j.far.up
<1> DEFINE n == IF link[l].from = u THEN Shut(k, "near") ELSE k
           j == IF link[l].to = u /\ link[l].holder \in {"pipe", "client"} THEN Shut(n, "far") ELSE n
<1>1. "near" \in End /\ "far" \in End
  BY DEF End
<1>2. LinkOK(n) /\ Later(k, n)
  <2>1. LinkOK(Shut(k, "near")) /\ Later(k, Shut(k, "near"))
    BY <1>1, ShutIs
  <2>2. Later(k, k)
    BY DEF Later
  <2> QED BY <2>1, <2>2
<1> HIDE DEF n
<1>3. LinkOK(Shut(n, "far")) /\ Later(n, Shut(n, "far")) /\ ~Shut(n, "far").far.up
  BY <1>1, <1>2, ShutIs
<1> DEFINE z == Shut(n, "far")
<1>4. Later(k, z)
  <2> HIDE DEF z
  <2>1. Later(n, z)
    BY <1>3 DEF z
  <2> QED BY <1>2, <2>1 DEF Later
<1>5. /\ LinkOK(j) /\ Later(k, j)
      /\ link[l].to = u /\ link[l].holder \in {"pipe", "client"} => ~j.far.up
  BY <1>2, <1>3, <1>4
<1> QED BY <1>5 DEF Closed, n

LEMMA PEnds ==
  ASSUME PhoneIInv, NEW u \in User, NEW polite \in BOOLEAN, Ends(u, polite)
  PROVE  PhoneIInv'
<1> DEFINE said == IF polite THEN SaidGoodbye(u) ELSE link
           N == Len(link)
           x(l) == Closed(u, said[l], l)
           ls == [l \in 1..N |-> x(l)]
           p == [NewPhone EXCEPT !.pc = "over"]
           o == pipe[u]
           e == <<>>
<1>1. /\ phone' = [phone EXCEPT ![u] = p] /\ pipe' = [pipe EXCEPT ![u] = e]
      /\ link' = [l \in DOMAIN said |-> x(l)]
  BY DEF Ends, Becomes
<1>2. After(link, said) /\ Len(said) = N /\ N \in Nat /\ DOMAIN said = 1..N /\ AllOK(said) /\ AllOK(link)
      /\ None \notin Nat
  <2>1. After(link, said) /\ Len(said) = N
    BY GoodbyeIs, Facts
  <2> HIDE DEF said
  <2>2. AllOK(said) /\ AllOK(link) /\ N \in Nat
    BY <2>1, Facts DEF After, PhoneIInv, PInv
  <2> QED BY <2>1, <2>2, PhoneAssumption DEF AllOK
<1>3. link' = ls
  BY <1>1, <1>2
<1> HIDE DEF said
<1>4. ASSUME NEW l \in 1..N
      PROVE  /\ LinkOK(x(l)) /\ Later(link[l], x(l))
             /\ link[l].to = u /\ link[l].holder \in {"pipe", "client"} => ~x(l).far.up
  <2> DEFINE k == said[l]
             j == Closed(u, k, l)
  <2>1. LinkOK(k) /\ Later(link[l], k)
    BY <1>2 DEF AllOK, After
  <2> HIDE DEF k
  <2>2. /\ LinkOK(j) /\ Later(k, j)
        /\ link[l].to = u /\ link[l].holder \in {"pipe", "client"} => ~j.far.up
    BY <2>1, ClosedIs
  <2> HIDE DEF j
  <2>3. Later(link[l], j)
    BY <2>1, <2>2 DEF Later
  <2> QED BY <2>2, <2>3 DEF j, k
<1> HIDE DEF x
<1>5. ls \in Seq(Links) /\ Len(ls) = N /\ \A l \in 1..N : ls[l] = x(l)
  <2>1. \A l \in 1..N : x(l) \in Links
    BY <1>4 DEF LinkOK
  <2> HIDE DEF N
  <2> QED BY <1>2, <2>1
<1> HIDE DEF ls
<1>6. After(link, ls) /\ Grown(link, ls)
  <2>1. After(link, ls)
    BY <1>2, <1>4, <1>5 DEF After, AllOK
  <2> QED BY <2>1, AfterGrown
<1>7. p.wait = None /\ p.dial = None /\ PhoneOK(p, u, ls) /\ PipeOK(e, u, ls)
  <2>1. <<>> \in Ents(WithPhone(ls)) /\ <<>> \in Seq(Passed(WithPhone(ls))) /\ DOMAIN <<>> = {}
    BY DEF Ents
  <2>2. p = [pc |-> "over", dial |-> None, wait |-> None, ents |-> <<>>]
    BY DEF NewPhone
  <2> HIDE DEF p
  <2> QED BY <2>1, <2>2 DEF PhoneOK, PipeOK
<1>8. WaitsSame(link, ls, 0, u, phone[u], p)
  <2>1. None \notin 1..Len(ls)
    BY <1>2, <1>5
  <2> HIDE DEF p
  <2> QED BY <1>7, <2>1 DEF WaitsSame
<1>9. AsksSame(link, ls, 0, u, pipe[u], e)
  <2> SUFFICES ASSUME NEW l \in 1..N, ls[l].to = u, BothUp(ls[l])
               PROVE  Count(e, Asked(l)) = Count(o, Asked(l))
    BY DEF AsksSame
  <2>1. Later(link[l], ls[l]) /\ LinkOK(link[l])
    BY <1>2, <1>4, <1>5 DEF AllOK
  <2>2. link[l].to = u /\ BothUp(link[l])
    BY <2>1 DEF Later
  <2>3. link[l].holder = "phoned"
    <3>1. link[l].holder \in {"phoned", "pipe", "client", "none", "dropped"}
      BY <2>1 DEF LinkOK, Links
    <3>2. link[l].holder \notin {"none", "dropped"}
      BY <2>1, <2>2 DEF LinkOK, BothUp
    <3>3. link[l].holder \notin {"pipe", "client"}
      BY <1>4, <1>5, <2>2 DEF BothUp
    <3> QED BY <3>1, <3>2, <3>3
  <2>4. ASSUME NEW i \in DOMAIN o PROVE o[i] \notin Asked(l)
    <3>1. PipeOK(o, u, link)
      BY Facts
    <3> HIDE DEF o
    <3>2. o[i] \in Passed(WithPhone(link))
      BY <3>1 DEF PipeOK
    <3>3. link[o[i].link].holder # "phoned"
      BY <3>2 DEF Passed, WithPhone
    <3>4. o[i].link # l
      BY <2>3, <3>3
    <3> QED BY <3>4 DEF Asked
  <2>5. Count(o, Asked(l)) = 0
    <3> HIDE DEF o
    <3> QED BY <2>4, CountNone
  <2>6. Count(e, Asked(l)) = 0
    BY CountNone
  <2> QED BY <2>5, <2>6
<1>10. /\ OthersLater(link, ls, 0)
       /\ ReplyTo(ls, 0, [phone EXCEPT ![u] = p], [pipe EXCEPT ![u] = e])
  <2>1. 0 \notin 1..Len(ls)
    BY <1>2, <1>5
  <2>2. \A l \in 1..Len(link) : Later(link[l], ls[l])
    BY <1>6 DEF After
  <2> HIDE DEF p, e
  <2> QED BY <2>1, <2>2 DEF OthersLater, ReplyTo
<1> HIDE DEF p, e, o
<1>11. PInv(ls, [phone EXCEPT ![u] = p], [pipe EXCEPT ![u] = e])
  BY <1>2, <1>6, <1>7, <1>8, <1>9, <1>10, StepIs DEF PhoneIInv
<1> QED BY <1>1, <1>3, <1>11 DEF PhoneIInv

-----------------------------------------------------------------------------
LEMMA PhoneBegins ==
  ASSUME PhoneInit
  PROVE  PhoneIInv
<1>1. /\ link = <<>> /\ phone = [u \in User |-> NewPhone] /\ pipe = [u \in User |-> <<>>]
      /\ AllOK(link) /\ 1..Len(link) = {}
  BY DEF PhoneInit, AllOK
<1>2. ASSUME NEW u \in User PROVE PhoneOK(phone[u], u, link) /\ PipeOK(pipe[u], u, link)
  <2>1. <<>> \in Ents(WithPhone(link)) /\ <<>> \in Seq(Passed(WithPhone(link))) /\ DOMAIN <<>> = {}
    BY DEF Ents
  <2>2. phone[u] = [pc |-> "off", dial |-> None, wait |-> None, ents |-> <<>>] /\ pipe[u] = <<>>
    BY <1>1 DEF NewPhone
  <2> QED BY <2>1, <2>2 DEF PhoneOK, PipeOK
<1> QED BY <1>1, <1>2 DEF PhoneIInv, PInv

LEMMA PhoneKeeps ==
  ASSUME PhoneIInv, [PhoneNext]_phoneVars
  PROVE  PhoneIInv'
<1>1. CASE UNCHANGED phoneVars
  BY <1>1 DEF phoneVars, PhoneIInv
<1>2. ASSUME NEW l \in 1..MaxLink, PhonedStep(l) PROVE PhoneIInv'
  BY <1>2, PReadDecnet DEF PhonedStep
<1>3. ASSUME NEW l \in 1..MaxLink, Heard(l) PROVE PhoneIInv'
  BY <1>3, PCallback DEF Heard
<1>4. ASSUME NEW l \in 1..MaxLink, LinkStep(l) PROVE PhoneIInv'
  BY <1>4, PDisconnected DEF LinkStep
<1>5. ASSUME NEW u \in User, ReadUnix(u) \/ Start(u) \/ NewCaller(u) \/ Told(u) \/ Ring(u) PROVE PhoneIInv'
  BY <1>5, PReadUnix, PStart, PNewCaller, PConnected, PRung, PRing DEF Told
<1>6. ASSUME NEW u \in User, Key(u) PROVE PhoneIInv'
  <2>1. ASSUME NEW v \in User, Dial(u, v) PROVE PhoneIInv'
    BY <2>1, PDial
  <2>2. ASSUME NEW reject \in BOOLEAN, Answer(u, reject) PROVE PhoneIInv'
    BY <2>2, PAnswer
  <2>3. CASE CancelKey(u) \/ DoHangup(u)
    BY <2>3, PCancelKey, PDoHangup
  <2> QED BY <1>6, <2>1, <2>2, <2>3 DEF Key
<1>7. ASSUME NEW u \in User, NEW polite \in BOOLEAN, Ends(u, polite) PROVE PhoneIInv'
  BY <1>7, PEnds
<1> QED BY <1>1, <1>2, <1>3, <1>4, <1>5, <1>6, <1>7 DEF PhoneNext

LEMMA PhoneMatches ==
  ASSUME PhoneIInv
  PROVE  OneReply
<1> SUFFICES ASSUME NEW l \in DOMAIN link,
                    link[l].near.up, link[l].far.up,
                    l \in {phone[link[l].from].wait, phone[link[l].from].dial}
             PROVE  Coming(l) = IF Waits(phone[link[l].from], l) THEN 1 ELSE 0
  BY DEF OneReply
<1>1. l \in 1..Len(link)
  <2>1. AllOK(link)
    BY DEF PhoneIInv, PInv
  <2> QED BY <2>1 DEF AllOK
<1>2. ReplyOK(link[l], phone[link[l].from], pipe[link[l].to], l)
  BY <1>1, Due
<1>3. BothUp(link[l])
  BY DEF BothUp
<1> QED BY <1>2, <1>3 DEF ReplyOK, Coming, Question, Asked

\* A caller who waits for an answer has exactly one coming, and one who does not wait has none, for
\* all users, plans, moods and numbers of links.
THEOREM RepliesMatched == PhoneSpec => []OneReply
<1>1. PhoneInit => PhoneIInv
  BY PhoneBegins
<1>2. PhoneIInv /\ [PhoneNext]_phoneVars => PhoneIInv'
  BY PhoneKeeps
<1>3. PhoneIInv => OneReply
  BY PhoneMatches
<1> QED BY <1>1, <1>2, <1>3, PTL DEF PhoneSpec

-----------------------------------------------------------------------------
(***************************************************************************)
(* The tables of sockets.                                                  *)
(***************************************************************************)
Filed(r) == r.hashed /\ ~r.wild

\* A socket in a list and with a port is in the list of that port.
Placed == \A s \in Sk : Filed(sock[s]) /\ sock[s].loc # 0
                        => sock[s].at = sock[s].loc % HashSize

\* Bound means in a table, until the link is closed.
Open == {"O", "CI", "CR", "CC", "RUN"}
BoundFiled == \A s \in Sk : sock[s].state \in Open /\ ~sock[s].zapped => sock[s].hashed

\* A listening socket is where dn_sklist_find_listener looks for it.
ListenPlaced ==
  \A s \in Sk : sock[s].state = "O" /\ sock[s].sk = "LISTEN" =>
    /\ sock[s].hashed
    /\ ~sock[s].wild => sock[s].at = ListenHash[sock[s].obj]

\* A socket that is not bound has a port only if it kept one.
KeptPort == \A s \in Sk : sock[s].zapped => sock[s].kept = (sock[s].loc # 0)

\* A socket with a link is not wild, and once bound has a port.
Link == {"CR", "CC", "RUN"}
OwnPort == \A s \in Sk : sock[s].state \in Link =>
             ~sock[s].wild /\ (sock[s].zapped \/ sock[s].loc # 0)

IInv == TypeOK /\ OwnPort /\ KeptPort /\ HashedOnce /\ Placed /\ BoundFiled /\ ListenPlaced /\ PortsApart

USE PortsAssumption, ObjectAssumption, PeerAssumption, BacklogAssumption

-----------------------------------------------------------------------------

\* dn_alloc_sock returns a socket.
LEMMA NewTyped ==
  ASSUME NEW st \in State PROVE New(st) \in Sock
  BY DEF New, Sock, ConnInit

LEMMA PacketTyped ==
  ASSUME NEW m \in Packet PROVE m.src \in Peer /\ m.sport \in Remote /\ m.dst \in 1 .. (Ports - 1)
  BY DEF Packet

LEMMA ConnInitTyped ==
  ASSUME NEW m \in ConnInit PROVE m.src \in Peer /\ m.sport \in Remote /\ m.obj \in Object
  BY DEF ConnInit

LEMMA ListInRange ==
  ASSUME NEW p \in Nat PROVE p % HashSize \in 0 .. (HashSize - 1)
  OBVIOUS

\* r in the list b with port p
FiledAs(r, p, b) == [r EXCEPT !.loc = p, !.hashed = TRUE, !.at = b]

\* What dn_hash_sock makes of a socket is one.
LEMMA FiledTyped ==
  ASSUME NEW r \in Sock, NEW p \in 0 .. (Ports - 1), NEW b \in 0 .. (HashSize - 1)
  PROVE  /\ FiledAs(r, p, b) \in Sock
         /\ FiledAs(r, p, b).hashed = TRUE /\ FiledAs(r, p, b).loc = p
         /\ FiledAs(r, p, b).at = b /\ FiledAs(r, p, b).state = r.state
         /\ FiledAs(r, p, b).sk = r.sk /\ FiledAs(r, p, b).zapped = r.zapped
         /\ FiledAs(r, p, b).kept = r.kept /\ FiledAs(r, p, b).wild = r.wild
  BY DEF Sock, FiledAs

LEMMA RehashTyped ==
  ASSUME NEW r \in Sock, NEW b \in 0 .. (HashSize - 1)
  PROVE  [r EXCEPT !.hashed = TRUE, !.loc = 0, !.at = b] \in Sock
<1>1. 0 \in 0 .. (Ports - 1)
  OBVIOUS
<1> QED
  BY <1>1 DEF Sock

LEMMA KeptTyped ==
  ASSUME NEW r \in Sock, NEW p \in 0 .. (Ports - 1)
  PROVE  LET q == [r EXCEPT !.loc = p, !.kept = TRUE]
         IN  /\ q \in Sock /\ q.kept = TRUE /\ q.loc = p /\ q.hashed = r.hashed
             /\ q.state = r.state /\ q.sk = r.sk /\ q.zapped = r.zapped
  BY DEF Sock

\* Where and as what a socket is filed
SamePlace(r, q) == /\ r.hashed = q.hashed /\ r.wild = q.wild /\ r.loc = q.loc
                   /\ r.at = q.at /\ r.obj = q.obj /\ r.kept = q.kept
                   /\ r.zapped = q.zapped

\* A step that leaves a socket where it is, and does not make it one that is
\* bound or listens, keeps the tables.
LEMMA KeepsTables ==
  ASSUME IInv, NEW s \in Sk, NEW r \in Sock, Set(s, r), port' = port,
         SamePlace(r, sock[s]), r.state # "FREE",
         r.state \in Open => sock[s].state \in Open,
         r.state \in Link => sock[s].state \in Link \/ (~r.wild /\ r.loc # 0),
         r.state = "O" => sock[s].state = "O",
         r.state = "O" /\ r.sk = "LISTEN" => sock[s].sk = "LISTEN"
  PROVE  IInv'
<1>1. sock' = [sock EXCEPT ![s] = r] /\ sock \in [Sk -> Sock] /\ sock'[s] = r
      /\ \A t \in Sk : t # s => sock'[t] = sock[t]
  BY DEF Set, IInv, TypeOK
<1>2. TypeOK'
  BY <1>1 DEF IInv, TypeOK
<1>3. HashedOnce' /\ KeptPort'
  BY <1>1 DEF IInv, HashedOnce, KeptPort, SamePlace
<1>4. Placed' /\ OwnPort'
  BY <1>1 DEF IInv, Placed, OwnPort, SamePlace, Filed
<1>5. BoundFiled'
  BY <1>1 DEF IInv, Open, BoundFiled, SamePlace
<1>6. ListenPlaced'
  BY <1>1 DEF IInv, ListenPlaced, SamePlace
<1>7. PortsApart'
  BY <1>1 DEF IInv, PortsApart, SamePlace
<1> QED
  BY <1>2, <1>3, <1>4, <1>5, <1>6, <1>7 DEF IInv

\* A socket that is in no table takes part in none of the invariants.
LEMMA TakesOut ==
  ASSUME IInv, NEW s \in Sk, NEW r \in Sock, Set(s, r), port' = port,
         ~r.hashed, r.zapped => r.kept = (r.loc # 0),
         r.state \in Open => r.zapped, r.state \in Link => ~r.wild, ~(r.state = "O" /\ r.sk = "LISTEN")
  PROVE  IInv'
<1>1. sock' = [sock EXCEPT ![s] = r] /\ sock \in [Sk -> Sock] /\ sock'[s] = r
      /\ \A t \in Sk : t # s => sock'[t] = sock[t]
  BY DEF Set, IInv, TypeOK
<1>2. TypeOK'
  BY <1>1 DEF IInv, TypeOK
<1>3. HashedOnce' /\ KeptPort' /\ Placed' /\ BoundFiled' /\ ListenPlaced'
  BY <1>1 DEF IInv, HashedOnce, KeptPort, Placed, Filed, Open, BoundFiled, ListenPlaced
<1>4. PortsApart' /\ OwnPort'
  BY <1>1 DEF IInv, PortsApart, OwnPort, Link, Open
<1> QED
  BY <1>2, <1>3, <1>4 DEF IInv

\* dn_hash_sock files a socket under a port that no other has, unless it had
\* kept the port, and fails without a trace in the tables.
LEMMA HashKeeps ==
  ASSUME IInv, NEW s \in Sk, NEW r \in Sock, NEW no \in Sock, HashSock(s, r, no),
         r.state # "FREE", ~r.zapped, r.state = "O" => r.sk # "LISTEN",
         r.kept = (r.loc # 0), no.loc = r.loc, no.kept = r.kept,
         r.state \in Link => ~r.wild, no.state \notin Link,
         ~no.hashed, no.state \in Open => no.zapped /\ no.sk # "LISTEN"
  PROVE  IInv'
<1>1. sock \in [Sk -> Sock] /\ port \in 0 .. (Ports - 1)
  BY DEF IInv, TypeOK
<1>2. CASE /\ r.loc = 0 /\ NextPort = {}
           /\ Set(s, no) /\ UNCHANGED port
  BY <1>2, TakesOut DEF Open, Link
<1>3. ASSUME NEW p \in IF r.loc = 0 THEN NextPort ELSE {r.loc},
             port' = IF r.loc = 0 THEN p ELSE port,
             Set(s, IF r.wild /\ \E t \in Sk : InWild(t)
                    THEN [no EXCEPT !.loc = p, !.kept = TRUE]
                    ELSE [r EXCEPT !.loc = p, !.hashed = TRUE, !.at = p % HashSize])
      PROVE IInv'
  <2>1. p \in 1 .. (Ports - 1) /\ (r.loc = 0 => ~InUse(p))
    BY SMTT(30), <1>3 DEF NextPort, Sock
  <2>5. p \in 0 .. (Ports - 1) /\ p # 0 /\ p % HashSize \in 0 .. (HashSize - 1)
    BY <2>1, ListInRange
  <2>2. port' \in 0 .. (Ports - 1)
    BY <1>1, <1>3, <2>1
  <2>3. CASE r.wild /\ \E t \in Sk : InWild(t)
    <3> DEFINE q == [no EXCEPT !.loc = p, !.kept = TRUE]
    <3>1. q \in Sock /\ ~q.hashed /\ q.state = no.state /\ q.sk = no.sk /\ q.zapped = no.zapped
          /\ q.kept = TRUE /\ q.loc # 0
      BY ZenonT(40), <2>5, KeptTyped
    <3>2. sock' = [sock EXCEPT ![s] = q]
      BY <1>3, <2>3 DEF Set
    <3> HIDE DEF q
    <3>3. sock'[s] = q /\ sock' \in [Sk -> Sock] /\ \A t \in Sk : t # s => sock'[t] = sock[t]
      BY <1>1, <3>1, <3>2
    <3>4. TypeOK'
      BY <2>2, <3>3 DEF TypeOK
    <3>5. HashedOnce' /\ Placed' /\ BoundFiled' /\ ListenPlaced'
      BY <3>1, <3>3 DEF IInv, HashedOnce, Placed, Filed, Open, BoundFiled, ListenPlaced
    <3>7. KeptPort' /\ OwnPort'
      BY ZenonT(40), <3>1, <3>3 DEF IInv, KeptPort, OwnPort
    <3>6. PortsApart'
      BY <3>1, <3>3 DEF IInv, PortsApart
    <3> QED
      BY <3>4, <3>5, <3>6, <3>7 DEF IInv
  <2>4. CASE ~(r.wild /\ \E t \in Sk : InWild(t))
    <3>0. PICK b \in 0 .. (HashSize - 1) : b = p % HashSize
      BY <2>5
    <3>8. b \in 0 .. (HashSize - 1)
      BY <3>0
    <3>9. p \in 0 .. (Ports - 1)
      BY <2>5
    <3> DEFINE q == FiledAs(r, p, b)
    <3>11. r \in Sock
      OBVIOUS
    <3>1. q \in Sock /\ q.hashed = TRUE /\ q.loc = p /\ q.at = b
          /\ q.state = r.state /\ q.sk = r.sk /\ q.zapped = r.zapped /\ q.kept = r.kept
          /\ q.wild = r.wild
      <4>1. q \in Sock
        BY <3>11, <3>8, <3>9, FiledTyped
      <4>2. q.hashed = TRUE /\ q.loc = p /\ q.at = b
        BY <3>11 DEF FiledAs, Sock
      <4>3. q.state = r.state /\ q.sk = r.sk
        BY <3>11 DEF FiledAs, Sock
      <4>4. q.zapped = r.zapped /\ q.kept = r.kept /\ q.wild = r.wild
        BY <3>11 DEF FiledAs, Sock
      <4> QED
        BY <4>1, <4>2, <4>3, <4>4
    <3>2. sock' = [sock EXCEPT ![s] = q]
      BY <1>3, <2>4, <3>0 DEF Set, FiledAs
    <3> HIDE DEF q
    <3>3. sock'[s] = q /\ sock' \in [Sk -> Sock] /\ \A t \in Sk : t # s => sock'[t] = sock[t]
      BY <1>1, <3>1, <3>2
    <3>4. TypeOK'
      BY <2>2, <3>3 DEF TypeOK
    <3>5. HashedOnce' /\ KeptPort' /\ Placed' /\ BoundFiled' /\ ListenPlaced'
      BY <3>0, <3>1, <3>3 DEF IInv, HashedOnce, KeptPort, Placed, Filed, Open, BoundFiled, ListenPlaced
    <3>10. OwnPort'
      BY <2>5, <3>1, <3>3 DEF IInv, OwnPort
    <3>6. \A t \in Sk : t # s /\ Filed(sock[t]) /\ sock[t].loc = p => r.loc # 0
      <4> SUFFICES ASSUME NEW t \in Sk, t # s, Filed(sock[t]), sock[t].loc = p, r.loc = 0
                   PROVE FALSE
        BY <1>1 DEF Sock
      <4>1. sock[t].at = p % HashSize
        BY <2>1 DEF IInv, Placed
      <4> QED
        BY <2>1, <4>1 DEF InUse, InList, Filed
    <3>7. PortsApart'
      <4> SUFFICES ASSUME NEW t \in Sk, NEW u \in Sk, t # u,
                          Filed(sock'[t]), Filed(sock'[u]), sock'[t].loc = sock'[u].loc
                   PROVE sock'[t].loc = 0 \/ sock'[t].kept \/ sock'[u].kept
        BY DEF PortsApart, Filed
      <4>1. CASE t = s
        BY <4>1, <3>1, <3>3, <3>6
      <4>2. CASE u = s
        BY <4>2, <3>1, <3>3, <3>6
      <4>3. CASE t # s /\ u # s
        BY <4>3, <3>3 DEF IInv, PortsApart, Filed
      <4> QED
        BY <4>1, <4>2, <4>3
    <3> QED
      BY <3>4, <3>5, <3>7, <3>10 DEF IInv
  <2> QED
    BY <2>3, <2>4
<1> QED
  BY <1>2, <1>3 DEF HashSock

-----------------------------------------------------------------------------
(* Each action keeps the tables *)

LEMMA InitTables == Init => IInv
<1> SUFFICES ASSUME Init PROVE IInv
  OBVIOUS
<1>1. \A s \in Sk : /\ ~sock[s].hashed /\ sock[s].state = "FREE"
                    /\ sock[s].kept = FALSE /\ sock[s].loc = 0
  BY DEF Init, New
<1>2. TypeOK
  BY NewTyped DEF Init, TypeOK, State
<1> QED
  BY <1>1, <1>2 DEF IInv, OwnPort, Link, KeptPort, HashedOnce, Placed, Filed, Open, BoundFiled, ListenPlaced,
                    PortsApart

\* A socket is freed: by close, or by its timer.
LEMMA FreeKeeps ==
  ASSUME IInv, NEW s \in Sk, NEW st \in State, Set(s, New(st)), port' = port
  PROVE  IInv'
<1>1. New(st) \in Sock
  BY NewTyped
<1>2. /\ ~New(st).hashed /\ New(st).kept = FALSE /\ New(st).loc = 0
      /\ New(st).zapped /\ New(st).sk = "CLOSE" /\ ~New(st).wild
  BY DEF New
<1> HIDE DEF New
<1> QED
  BY <1>1, <1>2, TakesOut

LEMMA BindKeeps == ASSUME IInv, NEW s \in Sk, Bind(s) PROVE IInv'
<1>1. PICK o \in Object, w \in BOOLEAN :
        LET r == [sock[s] EXCEPT !.obj = o, !.wild = w]
        IN  HashSock(s, [r EXCEPT !.zapped = FALSE], r)
  BY DEF Bind
<1> DEFINE no == [sock[s] EXCEPT !.obj = o, !.wild = w]
           r == [no EXCEPT !.zapped = FALSE]
<1>2. sock[s] \in Sock /\ sock[s].zapped /\ sock[s].state = "O" /\ ~sock[s].hashed
      /\ sock[s].kept = (sock[s].loc # 0) /\ sock[s].sk # "LISTEN"
  BY DEF Bind, IInv, TypeOK, KeptPort, HashedOnce, ListenPlaced
<1>3. /\ no \in Sock /\ no.loc = sock[s].loc /\ no.kept = sock[s].kept
      /\ no.hashed = sock[s].hashed /\ no.state = sock[s].state
      /\ no.zapped = sock[s].zapped /\ no.sk = sock[s].sk
  BY <1>1, <1>2 DEF Sock
<1>4. /\ r \in Sock /\ r.loc = sock[s].loc /\ r.kept = sock[s].kept
      /\ r.state = sock[s].state /\ r.zapped = FALSE /\ r.sk = sock[s].sk
  BY <1>1, <1>2 DEF Sock
<1>5. HashSock(s, r, no)
  BY <1>1
<1> HIDE DEF r, no
<1> QED
  BY <1>2, <1>3, <1>4, <1>5, HashKeeps DEF Open, Link

LEMMA ListenKeeps == ASSUME IInv, NEW s \in Sk, Listen(s) PROVE IInv'
<1> DEFINE l == [sock[s] EXCEPT !.sk = "LISTEN"]
           r == Rehashed(l)
<1>1. sock \in [Sk -> Sock] /\ sock[s] \in Sock /\ sock[s].hashed /\ sock[s].state = "O"
      /\ ~sock[s].zapped
  BY DEF Listen, IInv, TypeOK, Open, BoundFiled
<1>2. CASE sock[s].wild
  <2>1. r = l
    BY <1>1, <1>2 DEF Rehashed
  <2>2. /\ r \in Sock /\ r.hashed /\ r.wild /\ r.state = "O" /\ ~r.zapped
    BY <1>1, <1>2, <2>1 DEF Sock
  <2>3. sock' = [sock EXCEPT ![s] = r] /\ port' = port
    BY DEF Listen, Set
  <2> HIDE DEF r
  <2>4. sock'[s] = r /\ \A t \in Sk : t # s => sock'[t] = sock[t]
    BY <1>1, <2>3
  <2>5. TypeOK'
    BY <1>1, <2>2, <2>3 DEF IInv, TypeOK
  <2> QED
    BY <2>2, <2>4, <2>5 DEF IInv, OwnPort, Link, KeptPort, HashedOnce, Placed, Filed, Open, BoundFiled,
                            ListenPlaced, PortsApart
<1>3. CASE ~sock[s].wild
  <2>1. r = [l EXCEPT !.hashed = TRUE, !.loc = 0, !.at = ListenHash[l.obj]]
    BY <1>1, <1>3 DEF Rehashed
  <2>2. /\ r \in Sock /\ r.hashed = TRUE /\ ~r.wild /\ r.state = "O" /\ ~r.zapped
        /\ r.loc = 0 /\ r.at = ListenHash[r.obj]
    <3>1. l.obj = sock[s].obj /\ sock[s].obj \in Object
      BY <1>1 DEF Sock
    <3>2. ListenHash[sock[s].obj] \in 0 .. (HashSize - 1)
      BY <3>1
    <3>3. r \in Sock
      <4>1. l \in Sock
        BY <1>1 DEF Sock
      <4> HIDE DEF l
      <4> QED
        BY <2>1, <3>1, <3>2, <4>1, RehashTyped
    <3>4. r.hashed = TRUE /\ r.loc = 0 /\ r.at = ListenHash[sock[s].obj]
          /\ r.obj = sock[s].obj
      BY <1>1, <2>1, <3>1 DEF Sock
    <3>5. ~r.wild /\ r.state = "O" /\ ~r.zapped
      BY <1>1, <1>3, <2>1 DEF Sock
    <3> QED
      BY <3>3, <3>4, <3>5
  <2>3. sock' = [sock EXCEPT ![s] = r] /\ port' = port
    BY DEF Listen, Set
  <2> HIDE DEF r
  <2>4. sock'[s] = r /\ \A t \in Sk : t # s => sock'[t] = sock[t]
    BY <1>1, <2>3
  <2>5. TypeOK'
    BY <1>1, <2>2, <2>3 DEF IInv, TypeOK
  <2> QED
    BY <2>2, <2>4, <2>5 DEF IInv, OwnPort, Link, KeptPort, HashedOnce, Placed, Filed, Open, BoundFiled,
                            ListenPlaced, PortsApart
<1> QED
  BY <1>2, <1>3

LEMMA ConnectKeeps == ASSUME IInv, NEW s \in Sk, NEW n \in Peer, Connect(s, n) PROVE IInv'
<1>1. PICK st \in {"CI", "O"} :
        LET r == [sock[s] EXCEPT !.peer = n, !.state = st]
            b == [sock[s] EXCEPT !.wild = FALSE, !.obj = Account]
        IN  IF sock[s].zapped
            THEN HashSock(s, [b EXCEPT !.peer = n, !.state = st, !.zapped = FALSE], b)
            ELSE Set(s, r) /\ UNCHANGED port
  BY DEF Connect
<1>2. sock[s] \in Sock /\ sock[s].state = "O" /\ st \in State /\ st # "FREE"
  BY <1>1 DEF Connect, IInv, TypeOK, State
<1>3. CASE sock[s].zapped
  <2> DEFINE b == [sock[s] EXCEPT !.wild = FALSE, !.obj = Account]
             r == [b EXCEPT !.peer = n, !.state = st, !.zapped = FALSE]
  <2>1. /\ ~sock[s].hashed /\ sock[s].kept = (sock[s].loc # 0) /\ sock[s].sk # "LISTEN"
    BY <1>2, <1>3 DEF IInv, OwnPort, Link, KeptPort, HashedOnce, ListenPlaced
  <2>2. /\ b \in Sock /\ b.loc = sock[s].loc /\ b.kept = sock[s].kept
        /\ b.hashed = sock[s].hashed /\ b.state = sock[s].state
        /\ b.zapped = sock[s].zapped /\ b.sk = sock[s].sk
    BY <1>2 DEF Sock
  <2>3. /\ r \in Sock /\ r.loc = sock[s].loc /\ r.kept = sock[s].kept
        /\ r.state = st /\ r.zapped = FALSE /\ r.sk = sock[s].sk
    BY <1>2 DEF Sock
  <2>4. HashSock(s, r, b)
    BY <1>1, <1>3
  <2> HIDE DEF r, b
  <2> QED
    BY <1>2, <1>3, <2>1, <2>2, <2>3, <2>4, HashKeeps DEF Open, Link
<1>4. CASE ~sock[s].zapped
  <2> DEFINE r == [sock[s] EXCEPT !.peer = n, !.state = st]
  <2>1. r \in Sock /\ SamePlace(r, sock[s]) /\ r.state = st /\ r.sk = sock[s].sk
    BY <1>2 DEF Sock, SamePlace
  <2>2. Set(s, r) /\ port' = port
    BY <1>1, <1>4
  <2> HIDE DEF r
  <2> QED
    BY <1>2, <2>1, <2>2, KeepsTables DEF Open, Link
<1> QED
  BY <1>3, <1>4

LEMMA AcceptTakeKeeps ==
  ASSUME IInv, NEW t \in Sk, NEW s \in Sk, AcceptTake(t, s) PROVE IInv'
<1> DEFINE m == Head(sock[t].queue)
           rest == [sock[t] EXCEPT !.queue = Tail(@)]
           new == [New("CR") EXCEPT !.sk = "LISTEN", !.rem = m.sport,
                                    !.peer = m.src, !.obj = m.obj]
<1>1. /\ sock \in [Sk -> Sock] /\ sock[t] \in Sock /\ sock[t].queue # <<>>
      /\ sock[t].state = "O" /\ sock[s].state = "FREE" /\ s # t /\ port' = port
  BY DEF AcceptTake, IInv, TypeOK
<1>2. m \in ConnInit /\ Tail(sock[t].queue) \in Seq(ConnInit)
  BY <1>1 DEF Sock
<1>3. rest \in Sock /\ SamePlace(rest, sock[t]) /\ rest.state = "O" /\ rest.sk = sock[t].sk
  BY <1>1, <1>2 DEF Sock, SamePlace
<1>4. /\ new \in Sock /\ new.hashed = FALSE /\ new.kept = FALSE /\ new.loc = 0
      /\ new.zapped = TRUE /\ new.state = "CR" /\ new.wild = FALSE
  <2>1. New("CR") \in Sock
    BY NewTyped DEF State
  <2>2. m.src \in Peer /\ m.sport \in Remote /\ m.obj \in Object
    BY <1>2, ConnInitTyped
  <2>3. /\ New("CR").hashed = FALSE /\ New("CR").kept = FALSE /\ New("CR").loc = 0
        /\ New("CR").zapped = TRUE /\ New("CR").state = "CR" /\ New("CR").wild = FALSE
    BY DEF New
  <2> HIDE DEF New, m
  <2> QED
    BY <2>1, <2>2, <2>3 DEF Sock
<1>5. \/ Set(t, rest)
      \/ sock' = [sock EXCEPT ![t] = rest, ![s] = new]
  BY DEF AcceptTake, Set
<1> HIDE DEF rest, new, m
<1>6. CASE Set(t, rest)
  BY <1>1, <1>3, <1>6, KeepsTables DEF Open, Link
<1>7. CASE sock' = [sock EXCEPT ![t] = rest, ![s] = new]
  <2>1. /\ sock'[t] = rest /\ sock'[s] = new
        /\ \A u \in Sk : u # s /\ u # t => sock'[u] = sock[u]
    BY <1>1, <1>7
  <2>2. TypeOK'
    BY <1>1, <1>3, <1>4, <1>7 DEF IInv, TypeOK
  <2>3. HashedOnce'
    BY <1>1, <1>3, <1>4, <2>1 DEF IInv, HashedOnce, SamePlace
  <2>8. OwnPort'
    BY <1>1, <1>3, <1>4, <2>1 DEF IInv, OwnPort, Link, SamePlace
  <2>7. KeptPort'
    <3> SUFFICES ASSUME NEW u \in Sk, sock'[u].zapped
                 PROVE  sock'[u].kept = (sock'[u].loc # 0)
      BY DEF KeptPort
    <3>1. CASE u = s
      BY <3>1, <1>4, <2>1
    <3>2. CASE u = t
      BY <3>2, <1>1, <1>3, <2>1 DEF IInv, KeptPort, SamePlace
    <3>3. CASE u # s /\ u # t
      BY <3>3, <2>1 DEF IInv, KeptPort
    <3> QED
      BY <3>1, <3>2, <3>3
  <2>4. Placed' /\ BoundFiled'
    BY <1>1, <1>3, <1>4, <2>1 DEF IInv, Placed, Filed, Open, BoundFiled, SamePlace
  <2>5. ListenPlaced'
    BY <1>1, <1>3, <1>4, <2>1 DEF IInv, ListenPlaced, SamePlace
  <2>6. PortsApart'
    BY <1>1, <1>3, <1>4, <2>1 DEF IInv, PortsApart, SamePlace
  <2> QED
    BY <2>2, <2>3, <2>4, <2>5, <2>6, <2>7, <2>8 DEF IInv
<1> QED
  BY <1>5, <1>6, <1>7

LEMMA AcceptHashKeeps == ASSUME IInv, NEW s \in Sk, AcceptHash(s) PROVE IInv'
<1> DEFINE r == [sock[s] EXCEPT !.zapped = FALSE]
           no == [sock[s] EXCEPT !.state = "END", !.sk = "CLOSE", !.dead = TRUE]
<1>1. /\ sock[s] \in Sock /\ sock[s].zapped /\ sock[s].state = "CR" /\ ~sock[s].hashed
      /\ sock[s].kept = (sock[s].loc # 0) /\ ~sock[s].wild
  BY DEF AcceptHash, IInv, OwnPort, Link, TypeOK, KeptPort, HashedOnce
<1>2. /\ no \in Sock /\ no.loc = sock[s].loc /\ no.kept = sock[s].kept
      /\ no.hashed = sock[s].hashed /\ no.state = "END"
  BY <1>1 DEF Sock, State
<1>3. /\ r \in Sock /\ r.loc = sock[s].loc /\ r.kept = sock[s].kept
      /\ r.state = "CR" /\ r.zapped = FALSE /\ r.wild = sock[s].wild
  BY <1>1 DEF Sock
<1>4. HashSock(s, r, no)
  BY DEF AcceptHash
<1> HIDE DEF r, no
<1> QED
  BY <1>1, <1>2, <1>3, <1>4, HashKeeps DEF Open, Link

\* The actions of a link and its user leave the tables alone.
LEMMA LinkKeeps ==
  ASSUME IInv, NEW s \in Sk, Confirm(s) \/ Reject(s) \/ GiveUp(s) PROVE IInv'
<1>1. sock[s] \in Sock
  BY DEF IInv, TypeOK
<1>2. CASE Confirm(s)
  <2> DEFINE r == [sock[s] EXCEPT !.state = "CC"]
  <2>1. r \in Sock /\ SamePlace(r, sock[s]) /\ r.state \notin {"O", "FREE"}
        /\ (r.state \in Open => sock[s].state \in Open)
        /\ (r.state \in Link => sock[s].state \in Link)
    BY <1>1, <1>2 DEF Confirm, Open, Link, Sock, State, SamePlace
  <2>2. Set(s, r) /\ port' = port
    BY <1>2 DEF Confirm
  <2> HIDE DEF r
  <2> QED
    BY <2>1, <2>2, KeepsTables DEF Open, Link
<1>3. CASE Reject(s)
  <2> DEFINE r == [sock[s] EXCEPT !.state = "END"]
  <2>1. r \in Sock /\ SamePlace(r, sock[s]) /\ r.state \notin {"O", "FREE"}
        /\ (r.state \in Open => sock[s].state \in Open)
        /\ (r.state \in Link => sock[s].state \in Link)
    BY <1>1, <1>3 DEF Reject, Open, Link, Sock, State, SamePlace
  <2>2. Set(s, r) /\ port' = port
    BY <1>3 DEF Reject
  <2> HIDE DEF r
  <2> QED
    BY <2>1, <2>2, KeepsTables DEF Open, Link
<1>4. CASE GiveUp(s)
  <2> DEFINE r == [sock[s] EXCEPT !.state = "END", !.sk = "CLOSE"]
  <2>1. r \in Sock /\ SamePlace(r, sock[s]) /\ r.state \notin {"O", "FREE"}
        /\ (r.state \in Open => sock[s].state \in Open)
        /\ (r.state \in Link => sock[s].state \in Link)
    BY <1>1, <1>4 DEF GiveUp, Open, Link, Sock, State, SamePlace
  <2>2. Set(s, r) /\ port' = port
    BY <1>4 DEF GiveUp
  <2> HIDE DEF r
  <2> QED
    BY <2>1, <2>2, KeepsTables DEF Open, Link
<1> QED
  BY <1>2, <1>3, <1>4

LEMMA CloseKeeps ==
  ASSUME IInv, NEW s \in Sk, Shutdown(s) \/ Close(s) \/ DestroyTimer(s) PROVE IInv'
<1>1. sock[s] \in Sock /\ "FREE" \in State /\ port' = port
  BY DEF IInv, TypeOK, State, Shutdown, Close, DestroyTimer
<1>2. CASE Set(s, New("FREE"))
  BY <1>1, <1>2, FreeKeeps
<1> DEFINE z == IF sock[s].state = "CI" THEN "CI" ELSE "END"
<1>7. z \in State /\ z \in {sock[s].state, "END"} /\ z \notin Link
  BY DEF State, Link
<1>3. CASE Shutdown(s)
  <2> DEFINE r == [sock[s] EXCEPT !.state = z, !.sk = "CLOSE"]
  <2>1. r \in Sock /\ SamePlace(r, sock[s]) /\ r.state = z
    BY <1>1, <1>7 DEF Sock, SamePlace
  <2>2. Set(s, r) /\ port' = port
    BY <1>3 DEF Shutdown, Destroyed
  <2> HIDE DEF r
  <2> QED
    BY <1>7, <2>1, <2>2, KeepsTables DEF Open, Link
<1>4. CASE Close(s) /\ sock[s].state \notin {"O", "CC"}
  <2> DEFINE d == [sock[s] EXCEPT !.state = z, !.sk = "CLOSE"]
             r == [d EXCEPT !.dead = TRUE, !.queue = <<>>]
  <2>1. d \in Sock /\ SamePlace(d, sock[s]) /\ d.state = z
    BY <1>1, <1>7 DEF Sock, SamePlace
  <2>2. Set(s, r)
    BY <1>4 DEF Close, Destroyed
  <2> HIDE DEF d
  <2>5. <<>> \in Seq(ConnInit)
    OBVIOUS
  <2>3. r \in Sock /\ SamePlace(r, d) /\ r.state = d.state
    <3> DEFINE e == [d EXCEPT !.dead = TRUE]
    <3>1. e \in Sock /\ SamePlace(e, d) /\ e.state = d.state
      BY <2>1 DEF Sock, SamePlace
    <3>2. r = [e EXCEPT !.queue = <<>>]
      OBVIOUS
    <3> HIDE DEF e, r
    <3>3. r \in Sock /\ SamePlace(r, e) /\ r.state = e.state
      BY <2>5, <3>1, <3>2 DEF Sock, SamePlace
    <3> QED
      BY <3>1, <3>3 DEF SamePlace
  <2> HIDE DEF r
  <2>4. SamePlace(r, sock[s]) /\ r.state = z
    BY <2>1, <2>3 DEF SamePlace
  <2> QED
    BY <1>1, <1>7, <2>2, <2>3, <2>4, KeepsTables DEF Open, Link
<1>5. CASE Close(s) /\ sock[s].state \in {"O", "CC"}
  BY <1>2, <1>5 DEF Close
<1>6. CASE DestroyTimer(s)
  BY <1>2, <1>6 DEF DestroyTimer
<1> QED
  BY <1>3, <1>4, <1>5, <1>6

LEMMA CreateKeeps == ASSUME IInv, NEW s \in Sk, Create(s) PROVE IInv'
  BY FreeKeeps DEF Create, State

LEMMA ConnInitKeeps == ASSUME IInv, NEW m \in ConnInit, RecvConnInit(m) PROVE IInv'
<1>1. PICK s \in FindListener(m.obj) :
        Set(s, [sock[s] EXCEPT !.queue = Append(@, m)]) /\ port' = port
  BY DEF RecvConnInit
<1>2. s \in Sk /\ sock[s] \in Sock /\ sock[s].hashed
  BY <1>1 DEF FindListener, InList, InWild, IInv, TypeOK
<1>3. sock[s].state # "FREE"
  BY <1>2 DEF IInv, HashedOnce
<1> DEFINE r == [sock[s] EXCEPT !.queue = Append(@, m)]
<1>4. /\ r \in Sock /\ SamePlace(r, sock[s]) /\ r.state = sock[s].state
      /\ r.sk = sock[s].sk
  <2>1. PICK q : q = Append(sock[s].queue, m)
    OBVIOUS
  <2>2. sock[s].queue \in Seq(ConnInit)
    BY <1>2 DEF Sock
  <2>3. q \in Seq(ConnInit)
    BY <2>1, <2>2
  <2>4. r = [sock[s] EXCEPT !.queue = q]
    BY <2>1
  <2> HIDE DEF r
  <2> QED
    BY <1>2, <2>3, <2>4 DEF Sock, SamePlace
<1>5. Set(s, r)
  BY <1>1
<1> HIDE DEF r
<1> QED
  BY <1>1, <1>2, <1>3, <1>4, <1>5, KeepsTables DEF Open, Link

LEMMA PacketKeeps ==
  ASSUME IInv, NEW m \in Packet, RecvUp(m) \/ RecvDisc(m) PROVE IInv'
<1>1. PICK s \in FindBySkb(m) : /\ port' = port
         /\ \/ sock[s].state \in Open /\ Set(s, [sock[s] EXCEPT !.state = "RUN", !.sk = "ESTABLISHED",
                          !.rem = IF sock[s].state = "CI" THEN m.sport ELSE @])
            \/ Set(s, [sock[s] EXCEPT !.sk = "CLOSE", !.rem = m.sport,
                          !.state = IF @ \in {"CI", "RUN"} THEN "END" ELSE @])
  BY DEF RecvUp, RecvDisc, Open
<1>2. s \in Sk /\ sock[s] \in Sock /\ sock[s].hashed /\ m.sport \in Remote
     /\ ~sock[s].wild /\ sock[s].loc # 0
  BY <1>1, PacketTyped DEF FindBySkb, InList, IInv, TypeOK
<1>3. sock[s].state # "FREE"
  BY <1>2 DEF IInv, HashedOnce
<1>4. CASE sock[s].state \in Open /\ Set(s, [sock[s] EXCEPT !.state = "RUN", !.sk = "ESTABLISHED",
                     !.rem = IF sock[s].state = "CI" THEN m.sport ELSE @])
  <2> DEFINE r == [sock[s] EXCEPT !.state = "RUN", !.sk = "ESTABLISHED",
                     !.rem = IF sock[s].state = "CI" THEN m.sport ELSE @]
  <2>1. r \in Sock /\ SamePlace(r, sock[s]) /\ r.state = "RUN"
        /\ r.wild = sock[s].wild /\ r.loc = sock[s].loc
    BY <1>2 DEF Sock, State, SamePlace
  <2>2. Set(s, r)
    BY <1>4
  <2> HIDE DEF r
  <2> QED
    BY <1>1, <1>2, <1>4, <2>1, <2>2, KeepsTables DEF Open, Link
<1>5. CASE Set(s, [sock[s] EXCEPT !.sk = "CLOSE", !.rem = m.sport,
                     !.state = IF @ \in {"CI", "RUN"} THEN "END" ELSE @])
  <2> DEFINE r == [sock[s] EXCEPT !.sk = "CLOSE", !.rem = m.sport,
                     !.state = IF @ \in {"CI", "RUN"} THEN "END" ELSE @]
  <2>1. /\ r \in Sock /\ SamePlace(r, sock[s]) /\ r.sk = "CLOSE"
        /\ r.state = "END" \/ r.state = sock[s].state
    BY <1>2 DEF Sock, State, SamePlace
  <2>2. Set(s, r)
    BY <1>5
  <2> HIDE DEF r
  <2> QED
    BY <1>1, <1>2, <1>3, <2>1, <2>2, KeepsTables DEF Open, Link
<1> QED
  BY <1>1, <1>4, <1>5

LEMMA ReturnedKeeps ==
  ASSUME IInv, NEW p \in 1 .. (Ports - 1), RecvReturned(p) PROVE IInv'
<1>1. PICK s \in Returned(p) :
        Set(s, [sock[s] EXCEPT !.state = "END", !.sk = "CLOSE"]) /\ port' = port
  BY DEF RecvReturned
<1>2. s \in Sk /\ sock[s] \in Sock
  BY <1>1 DEF Returned, IInv, TypeOK
<1> DEFINE r == [sock[s] EXCEPT !.state = "END", !.sk = "CLOSE"]
<1>3. r \in Sock /\ SamePlace(r, sock[s]) /\ r.state = "END"
  BY <1>2 DEF Sock, State, SamePlace
<1>4. Set(s, r)
  BY <1>1
<1> HIDE DEF r
<1> QED
  BY <1>1, <1>2, <1>3, <1>4, KeepsTables DEF Open, Link

LEMMA NextTables == IInv /\ [Next]_vars => IInv'
<1> SUFFICES ASSUME IInv, [Next]_vars PROVE IInv'
  OBVIOUS
<1>1. CASE UNCHANGED vars
  BY <1>1 DEF vars, IInv, TypeOK, OwnPort, KeptPort, HashedOnce, Placed, Filed, Open, BoundFiled,
              ListenPlaced, PortsApart
<1>2. ASSUME NEW s \in Sk,
             \/ Create(s) \/ Bind(s) \/ Listen(s) \/ AcceptHash(s)
             \/ Confirm(s) \/ Reject(s) \/ Shutdown(s) \/ Close(s)
             \/ GiveUp(s) \/ DestroyTimer(s)
      PROVE IInv'
  BY <1>2, CreateKeeps, BindKeeps, ListenKeeps, AcceptHashKeeps, LinkKeeps, CloseKeeps
<1>3. ASSUME NEW s \in Sk, NEW n \in Peer, Connect(s, n) PROVE IInv'
  BY <1>3, ConnectKeeps
<1>4. ASSUME NEW s \in Sk, NEW t \in Sk, AcceptTake(t, s) PROVE IInv'
  BY <1>4, AcceptTakeKeeps
<1>5. ASSUME NEW m \in ConnInit, RecvConnInit(m) PROVE IInv'
  BY <1>5, ConnInitKeeps
<1>6. ASSUME NEW m \in Packet, RecvUp(m) \/ RecvDisc(m) PROVE IInv'
  BY <1>6, PacketKeeps
<1>7. ASSUME NEW p \in 1 .. (Ports - 1), RecvReturned(p) PROVE IInv'
  BY <1>7, ReturnedKeeps
<1> QED
  BY <1>1, <1>2, <1>3, <1>4, <1>5, <1>6, <1>7 DEF Next

\* The tables are consistent in every reachable state.
LEMMA Tables == Spec => []IInv
  BY InitTables, NextTables, PTL DEF Spec

\* af_decnet.c: sockets keep their types, ports are 16 bits wide and lists are
\* of the table, for every size of both.
THEOREM SocketsTyped == Spec => []TypeOK
<1>1. IInv => TypeOK
  BY DEF IInv
<1> QED
  BY <1>1, Tables, PTL

\* port_alloc never gives out a port that another socket in the lists has.
THEOREM PortsDiffer == Spec => []PortsApart
<1>1. IInv => PortsApart
  BY DEF IInv
<1> QED
  BY <1>1, Tables, PTL

\* dn_hash_sock never meets its BUG_ON, and no freed socket is in a table.
THEOREM NeverTwice == Spec => []HashedOnce
<1>1. IInv => HashedOnce
  BY DEF IInv
<1> QED
  BY <1>1, Tables, PTL

\* dn_find_by_skb finds the socket of the link that a packet is of.
THEOREM OwnSocket == Spec => []LinkFound
<1>1. IInv => LinkFound
  <2> SUFFICES ASSUME IInv, NEW s \in Sk, Linked(s), NEW p \in Remote, sock[s].rem \in {0, p}
               PROVE  FindBySkb([src |-> sock[s].peer, sport |-> p, dst |-> sock[s].loc]) = {s}
    BY DEF LinkFound
  <2> DEFINE m == [src |-> sock[s].peer, sport |-> p, dst |-> sock[s].loc]
  <2>1. sock[s].hashed
    BY DEF Linked, IInv, Open, BoundFiled, HashedOnce
  <2>4. ~sock[s].wild /\ sock[s].loc # 0
    BY DEF Linked, IInv, OwnPort, Link
  <2>2. s \in FindBySkb(m)
    BY <2>1, <2>4 DEF IInv, Placed, Filed, FindBySkb, InList
  <2>3. \A t \in FindBySkb(m) : t = s
    BY <2>1, <2>4 DEF Linked, IInv, PortsApart, FindBySkb, InList
  <2> QED
    BY <2>2, <2>3
<1> QED
  BY <1>1, Tables, PTL

\* dn_sklist_find_listener finds a socket while one listens.
THEOREM ListenerKept == Spec => []NoListenerLost
<1>1. IInv => NoListenerLost
  <2> SUFFICES ASSUME IInv, NEW s \in Sk, sock[s].state = "O", sock[s].sk = "LISTEN",
                      NEW o \in Object, sock[s].wild \/ sock[s].obj = o
               PROVE  FindListener(o) # {}
    BY DEF NoListenerLost
  <2>1. CASE sock[s].wild
    BY <2>1 DEF IInv, ListenPlaced, FindListener, InWild
  <2>2. CASE ~sock[s].wild
    BY <2>2 DEF IInv, ListenPlaced, FindListener, InList
  <2> QED
    BY <2>1, <2>2
<1> QED
  BY <1>1, Tables, PTL

=============================================================================

-------------------------- MODULE Terminal_proofs --------------------------
(***************************************************************************)
(* Proofs about the programs when the program is a terminal session: the   *)
(* line of a terminal is what the keys typed for it make of it, for all    *)
(* hosts, reads and keys; and login is given the keys that were typed,     *)
(* each once and in order.                                                 *)
(***************************************************************************)
EXTENDS Programs, FiniteSetTheorems, SequenceTheorems, TLAPS
LOCAL SeqX == INSTANCE SequencesExt

-----------------------------------------------------------------------------
(***************************************************************************)
(* What is defined by recursion over a sequence.  Steps of f in D from a:  *)
(* f[n] is the step for the nth element, so that one lemma serves them     *)
(* all.                                                                    *)
(***************************************************************************)
LEMMA NatUp ==
  ASSUME NEW T \in SUBSET Nat, 0 \in T, \A n \in T : n + 1 \in T
  PROVE  T = Nat
<1> SUFFICES ASSUME T # Nat PROVE FALSE
  OBVIOUS
<1> DEFINE U == Nat \ T
<1>1. PICK R : IsWellFoundedOn(R, Nat) /\ \A x, y \in Nat : <<y, x>> \in R <=> y < x
  <2> DEFINE R == OpToRel(<, Nat)
  <2>1. IsWellFoundedOn(R, Nat)
    BY NatLessThanWellFounded
  <2>2. \A x, y \in Nat : <<y, x>> \in R <=> y < x
    BY DEF OpToRel
  <2> HIDE DEF R
  <2> QED BY <2>1, <2>2
<1>2. U \subseteq Nat /\ U # {}
  OBVIOUS
<1>3. PICK x \in U : \A y \in U : ~(<<y, x>> \in R)
  <2> HIDE DEF U
  <2> QED BY <1>1, <1>2, WFMin
<1>4. x \in Nat /\ x # 0 /\ x - 1 \in Nat /\ (x - 1) + 1 = x /\ x - 1 < x
  OBVIOUS
<1>5. x - 1 \notin U
  BY <1>1, <1>3, <1>4
<1> QED BY <1>4, <1>5

Runs(w, D, L, f, a) ==
  w \in [0..L -> D] /\ w[0] = a /\ \A n \in 1..L : w[n] = f[n][w[n - 1]]

LEMMA Recursion ==
  ASSUME NEW D, NEW L \in Nat, NEW f \in [1..L -> [D -> D]], NEW a \in D
  PROVE  \E w : Runs(w, D, L, f, a)
<1> DEFINE Steps(w, n) == /\ w \in [0..n -> D] /\ w[0] = a
                          /\ \A i \in 1..n : w[i] = f[i][w[i - 1]]
           T == {n \in Nat : n <= L => \E w : Steps(w, n)}
<1>1. 0 \in T
  <2>1. Steps([i \in 0..0 |-> a], 0)
    OBVIOUS
  <2> QED BY <2>1
<1>2. ASSUME NEW n \in T PROVE n + 1 \in T
  <2> SUFFICES ASSUME n + 1 <= L PROVE \E w : Steps(w, n + 1)
    OBVIOUS
  <2>1. n \in Nat /\ n + 1 \in 1..L /\ n <= L
    OBVIOUS
  <2>2. PICK w : Steps(w, n)
    BY <2>1
  <2> DEFINE x == f[n + 1][w[n]]
             v == [i \in 0..(n + 1) |-> IF i = n + 1 THEN x ELSE w[i]]
  <2>3. x \in D
    <3>1. w[n] \in D
      BY <2>1, <2>2
    <3>2. f[n + 1] \in [D -> D]
      BY <2>1
    <3> QED BY <3>1, <3>2
  <2>4. \A i \in 0..n : v[i] = w[i] /\ w[i] \in D
    BY <2>1, <2>2
  <2>5. v[n + 1] = x
    BY <2>1
  <2>6. v = [i \in 0..(n + 1) |-> v[i]]
    OBVIOUS
  <2> HIDE DEF v
  <2>7. v \in [0..(n + 1) -> D]
    <3>1. \A i \in 0..(n + 1) : i \in 0..n \/ i = n + 1
      BY <2>1
    <3>2. \A i \in 0..(n + 1) : v[i] \in D
      BY <3>1, <2>3, <2>4, <2>5
    <3> QED BY <2>6, <3>2
  <2>8. ASSUME NEW i \in 1..(n + 1) PROVE v[i] = f[i][v[i - 1]]
    <3>1. i - 1 \in 0..n
      BY <2>1
    <3>2. CASE i = n + 1
      <4>1. i - 1 = n
        BY <3>2, <2>1
      <4> QED BY <4>1, <3>1, <3>2, <2>4, <2>5
    <3>3. CASE i \in 1..n
      <4>1. i \in 0..n
        BY <3>3
      <4> QED BY <4>1, <3>1, <3>3, <2>2, <2>4
    <3> QED BY <3>2, <3>3, <2>1
  <2>9. v[0] = a
    BY <2>1, <2>2, <2>4
  <2> QED BY <2>7, <2>8, <2>9
<1>3. \E w : Steps(w, L)
  <2>1. T \in SUBSET Nat
    OBVIOUS
  <2>2. T = Nat
    <3> HIDE DEF T
    <3> QED BY <2>1, <1>1, <1>2, NatUp
  <2> QED BY <2>2
<1> QED BY <1>3 DEF Runs

\* Two recursions that take the same steps agree.
LEMMA Agree ==
  ASSUME NEW L \in Nat, NEW v, NEW w, v[0] = w[0],
         \A n \in 1..L : v[n - 1] = w[n - 1] => v[n] = w[n]
  PROVE  v[L] = w[L]
<1> DEFINE T == {n \in Nat : n <= L => v[n] = w[n]}
<1>1. ASSUME NEW n \in T PROVE n + 1 \in T
  <2>1. n \in Nat /\ (n + 1) - 1 = n /\ (n + 1 <= L => n + 1 \in 1..L /\ n <= L)
    OBVIOUS
  <2> QED BY <2>1
<1>2. T \in SUBSET Nat /\ 0 \in T
  OBVIOUS
<1>3. T = Nat
  <2> HIDE DEF T
  <2> QED BY <1>1, <1>2, NatUp
<1> QED BY <1>3

-----------------------------------------------------------------------------
(* Sequences *)

LEMMA SameSeq ==
  ASSUME NEW M, NEW N, NEW s \in Seq(M), NEW t \in Seq(N), Len(s) = Len(t),
         \A i \in 1..Len(s) : s[i] = t[i]
  PROVE  s = t
<1>1. /\ s = [i \in 1..Len(s) |-> s[i]] /\ t = [i \in 1..Len(t) |-> t[i]]
  BY SeqDef, LenProperties
<1> QED BY <1>1

LEMMA JoinIs ==
  ASSUME NEW M, NEW b \in Seq(M), NEW a \in Seq(M), NEW r \in Seq(M), Len(r) = Len(b) + Len(a),
         \A i \in 1..Len(b) : r[i] = b[i],
         \A i \in 1..Len(a) : r[Len(b) + i] = a[i]
  PROVE  r = b \o a
<1>1. /\ b \o a \in Seq(M) /\ Len(b \o a) = Len(b) + Len(a)
      /\ Len(b) \in Nat /\ Len(a) \in Nat /\ Len(r) \in Nat
  OBVIOUS
<1>2. \A i \in 1..Len(b) : (b \o a)[i] = b[i]
  OBVIOUS
<1>3. \A i \in 1..Len(a) : (b \o a)[Len(b) + i] = a[i]
  OBVIOUS
<1> DEFINE c == b \o a
           m == Len(b)
           n == Len(a)
<1> HIDE DEF c, m, n
<1>4. ASSUME NEW i \in 1..Len(r) PROVE r[i] = c[i]
  <2>1. CASE i \in 1..m
    BY <2>1, <1>2 DEF m, c
  <2>2. CASE i \notin 1..m
    <3>1. Len(r) = m + n /\ m \in Nat /\ n \in Nat
      BY <1>1 DEF m, n
    <3>2. i - m \in 1..n /\ m + (i - m) = i
      BY ONLY <3>1, <2>2, i \in 1..Len(r)
    <3>3. r[m + (i - m)] = a[i - m] /\ c[m + (i - m)] = a[i - m]
      BY <3>2, <1>3 DEF m, n, c
    <3> QED BY <3>2, <3>3
  <2> QED BY <2>1, <2>2
<1> QED BY <1>1, <1>4, SameSeq DEF c

LEMMA JoinAgain ==
  ASSUME NEW M, NEW b \in Seq(M), NEW a \in Seq(M), NEW x \in M
  PROVE  /\ Append(b, x) \o a = b \o (<<x>> \o a)
         /\ Append(b, x) \in Seq(M) /\ <<x>> \o a \in Seq(M)
         /\ Len(Append(b, x)) = Len(b) + 1 /\ Append(b, x) = b \o <<x>>
<1> DEFINE c == <<x>> \o a
           d == Append(b, x)
           r == d \o a
           m == Len(b)
           n == Len(a)
<1>1. /\ d \in Seq(M) /\ Len(d) = m + 1 /\ d[m + 1] = x /\ \A i \in 1..m : d[i] = b[i]
      /\ m \in Nat /\ n \in Nat
  OBVIOUS
<1>2. /\ c \in Seq(M) /\ Len(c) = n + 1 /\ c[1] = x /\ \A i \in 1..n : c[i + 1] = a[i]
  OBVIOUS
<1> HIDE DEF c, d
<1>3. /\ r \in Seq(M) /\ Len(r) = m + (n + 1)
      /\ \A i \in 1..(m + 1) : r[i] = d[i]
      /\ \A i \in 1..n : r[(m + 1) + i] = a[i]
  BY <1>1
<1> HIDE DEF r, m, n
<1>4. \A i \in 1..m : r[i] = b[i]
  <2>1. \A i \in 1..m : i \in 1..(m + 1)
    BY <1>1
  <2> QED BY <2>1, <1>1, <1>3
<1>5. ASSUME NEW i \in 1..(n + 1) PROVE r[m + i] = c[i]
  <2>1. CASE i = 1
    <3>1. m + 1 \in 1..(m + 1)
      BY <1>1
    <3> QED BY <2>1, <3>1, <1>1, <1>2, <1>3
  <2>2. CASE i # 1
    <3>1. i - 1 \in 1..n /\ (m + 1) + (i - 1) = m + i /\ (i - 1) + 1 = i
      BY ONLY <2>2, <1>1, i \in 1..(n + 1)
    <3> QED BY <3>1, <1>2, <1>3
  <2> QED BY <2>1, <2>2
<1>6. r = b \o c
  BY ONLY <1>2, <1>3, <1>4, <1>5, b \in Seq(M), JoinIs DEF m
<1>7. Append(b, x) = b \o <<x>>
  OBVIOUS
<1> QED BY <1>1, <1>2, <1>6, <1>7 DEF c, d, r, m

\* A line that is cut after b
LEMMA CutAt ==
  ASSUME NEW M, NEW b \in Seq(M), NEW a \in Seq(M)
  PROVE  /\ Len(b) \in Nat /\ Len(b \o a) = Len(b) + Len(a) /\ b \o a \in Seq(M)
         /\ SubSeq(b \o a, 1, Len(b)) = b
         /\ SubSeq(b \o a, Len(b) + 1, Len(b \o a)) = a
<1>1. /\ Len(b) \in Nat /\ Len(a) \in Nat /\ b \o a \in Seq(M) /\ Len(b \o a) = Len(b) + Len(a)
      /\ \A i \in 1..Len(b) : (b \o a)[i] = b[i]
      /\ \A i \in 1..Len(a) : (b \o a)[Len(b) + i] = a[i]
  OBVIOUS
<1> DEFINE c == b \o a
<1> HIDE DEF c
<1>2. SubSeq(c, 1, Len(b)) = b
  <2>1. /\ SubSeq(c, 1, Len(b)) \in Seq(M) /\ Len(SubSeq(c, 1, Len(b))) = Len(b)
        /\ \A i \in 1..Len(b) : SubSeq(c, 1, Len(b))[i] = c[i]
    BY <1>1 DEF c
  <2> HIDE DEF c
  <2> QED BY <2>1, <1>1, SameSeq DEF c
<1>3. SubSeq(c, Len(b) + 1, Len(c)) = a
  <2>1. /\ SubSeq(c, Len(b) + 1, Len(c)) \in Seq(M)
        /\ Len(SubSeq(c, Len(b) + 1, Len(c))) = Len(a)
        /\ \A i \in 1..Len(a) : SubSeq(c, Len(b) + 1, Len(c))[i] = c[Len(b) + i]
    BY <1>1 DEF c
  <2> QED BY <2>1, <1>1, SameSeq DEF c
<1> QED BY <1>1, <1>2, <1>3 DEF c

-----------------------------------------------------------------------------
(* The line as an editor keeps it *)
Line == Seq(AnyKey)
Editor == [before : Line, after : Line, insert : BOOLEAN]
Since == [line : Line, insert : BOOLEAN, keys : Seq(AnyKey \cup Moves)]
Began(since) == [before |-> since.line, after |-> <<>>, insert |-> since.insert]

LEMMA NotType == \A b \in BOOLEAN : (~b) \in BOOLEAN
OBVIOUS

Cleared(e) == [e EXCEPT !.before = <<>>, !.after = <<>>]
CursorLeft(e) == [e EXCEPT !.before = SeqX!Front(@), !.after = <<SeqX!Last(e.before)>> \o @]
CursorRight(e) == [e EXCEPT !.before = Append(@, Head(e.after)), !.after = Tail(@)]
Ignored == ControlKeys \ {"^X", "^U", "^H", "^E", "^A", "DEL"}

\* What a key does to the line, case by case
LEMMA MovesIs ==
  ASSUME NEW e, NEW edit
  PROVE  /\ EditKey(e, "DISCARD", edit) = Cleared(e)
         /\ EditKey(e, "LEFT", edit) = IF e.before = <<>> THEN e ELSE CursorLeft(e)
         /\ EditKey(e, "RIGHT", edit) = IF e.after = <<>> THEN e ELSE CursorRight(e)
BY KeysAssumption DEF EditKey, Moves, ControlKeys, Cleared, CursorLeft, CursorRight

LEMMA EditsIs ==
  ASSUME NEW e
  PROVE  /\ \A k \in {"^X", "^U"} : EditKey(e, k, TRUE) = Cleared(e)
         /\ EditKey(e, "^H", TRUE) = [e EXCEPT !.before = <<>>, !.after = e.before \o @]
         /\ EditKey(e, "^E", TRUE) = [e EXCEPT !.before = @ \o e.after, !.after = <<>>]
         /\ EditKey(e, "^A", TRUE) = [e EXCEPT !.insert = ~@]
         /\ EditKey(e, "DEL", TRUE) =
              [e EXCEPT !.before = IF @ = <<>> THEN @ ELSE SeqX!Front(@)]
         /\ \A k \in Ignored : EditKey(e, k, TRUE) = e
BY KeysAssumption DEF EditKey, Moves, ControlKeys, Cleared, Ignored

LEMMA TextsIs ==
  ASSUME NEW e, NEW k \in AnyKey, NEW edit, k \in Plain \/ ~edit
  PROVE  EditKey(e, k, edit) = [e EXCEPT !.before = Append(@, k),
                                        !.after = IF e.insert \/ @ = <<>> THEN @ ELSE Tail(@)]
BY KeysAssumption DEF EditKey, Moves, ControlKeys, AnyKey

LEMMA AnyKeyIs == \A k \in AnyKey \cup Moves :
  /\ k \in Plain \/ k \in Ignored \/ k \in {"^X", "^U", "^H", "^E", "^A", "DEL"}
     \/ k \in {"LEFT", "RIGHT", "DISCARD"}
  /\ k \in AnyKey => k \notin Moves
BY KeysAssumption DEF AnyKey, Moves, Ignored, ControlKeys

LEMMA EditKeyType ==
  ASSUME NEW e \in Editor, NEW k \in AnyKey \cup Moves, NEW edit \in BOOLEAN
  PROVE  EditKey(e, k, edit) \in Editor
<1> DEFINE r == EditKey(e, k, edit)
<1>1. /\ e.before \in Line /\ e.after \in Line /\ e.insert \in BOOLEAN /\ <<>> \in Line
      /\ e.after \o e.before \in Line /\ e.before \o e.after \in Line
      /\ k \in AnyKey => Append(e.before, k) \in Line
  BY DEF Editor, Line
<1>2. ASSUME e.before # <<>>
      PROVE  SeqX!Front(e.before) \in Line /\ <<SeqX!Last(e.before)>> \o e.after \in Line
  BY <1>1, <1>2 DEF Line, SeqX!Front, SeqX!Last
<1>3. ASSUME e.after # <<>>
      PROVE  Tail(e.after) \in Line /\ Append(e.before, Head(e.after)) \in Line
  BY <1>1, <1>3 DEF Line
<1>4. (~e.insert) \in BOOLEAN
  BY <1>1, NotType
<1>5. ASSUME NEW b \in Line, NEW a \in Line, NEW i \in BOOLEAN
      PROVE  /\ [e EXCEPT !.before = b, !.after = a] \in Editor
             /\ [e EXCEPT !.before = b] \in Editor
             /\ [e EXCEPT !.insert = i] \in Editor
  BY <1>1 DEF Editor
<1>6. ASSUME k \in AnyKey, k \in Plain \/ ~edit PROVE r \in Editor
  <2> DEFINE a == IF e.insert \/ e.after = <<>> THEN e.after ELSE Tail(e.after)
  <2>1. r = [e EXCEPT !.before = Append(e.before, k), !.after = a]
    BY ONLY <1>6, TextsIs
  <2>2. a \in Line
    BY <1>1, <1>3
  <2> HIDE DEF r, a
  <2> QED BY ONLY <2>1, <2>2, <1>1, <1>5, <1>6
<1>7. ASSUME k \in AnyKey, edit PROVE r \in Editor
  <2>1. CASE k \in {"^X", "^U"}
    <3>1. r = Cleared(e)
      BY ONLY <2>1, <1>7, EditsIs
    <3>2. Cleared(e) \in Editor
      BY <1>1, <1>5 DEF Cleared
    <3> QED BY <3>1, <3>2
  <2>2. CASE k = "^H"
    <3>1. r = [e EXCEPT !.before = <<>>, !.after = e.before \o e.after]
      BY ONLY <2>2, <1>7, EditsIs
    <3> QED BY <3>1, <1>1, <1>5
  <2>3. CASE k = "^E"
    <3>1. r = [e EXCEPT !.before = e.before \o e.after, !.after = <<>>]
      BY ONLY <2>3, <1>7, EditsIs
    <3> QED BY <3>1, <1>1, <1>5
  <2>4. CASE k = "^A"
    BY ONLY <2>4, <1>7, <1>1, <1>4, <1>5, EditsIs
  <2>5. CASE k = "DEL"
    <3> DEFINE b == IF e.before = <<>> THEN e.before ELSE SeqX!Front(e.before)
    <3>1. r = [e EXCEPT !.before = b]
      BY ONLY <2>5, <1>7, EditsIs
    <3>2. b \in Line
      BY <1>1, <1>2
    <3> HIDE DEF b
    <3> QED BY <3>1, <3>2, <1>1, <1>5
  <2>6. CASE k \in Ignored
    BY ONLY <2>6, <1>7, e \in Editor, EditsIs
  <2> QED BY <1>6, <1>7, AnyKeyIs, <2>1, <2>2, <2>3, <2>4, <2>5, <2>6 DEF Moves
<1>8. CASE k = "LEFT"
  <2>1. ASSUME e.before # <<>> PROVE CursorLeft(e) \in Editor
    BY ONLY <2>1, <1>2, <1>5 DEF CursorLeft
  <2>2. r = IF e.before = <<>> THEN e ELSE CursorLeft(e)
    BY ONLY <1>8, MovesIs
  <2> QED BY <2>1, <2>2
<1>9. CASE k = "RIGHT"
  <2>1. ASSUME e.after # <<>> PROVE CursorRight(e) \in Editor
    BY ONLY <2>1, <1>3, <1>5 DEF CursorRight
  <2>2. r = IF e.after = <<>> THEN e ELSE CursorRight(e)
    BY ONLY <1>9, MovesIs
  <2> QED BY <2>1, <2>2
<1>10. CASE k = "DISCARD"
  <2>1. r = Cleared(e)
    BY ONLY <1>10, MovesIs
  <2>2. Cleared(e) \in Editor
    BY <1>1, <1>5 DEF Cleared
  <2> QED BY <2>1, <2>2
<1> QED BY <1>6, <1>7, <1>8, <1>9, <1>10 DEF Moves

\* The history of the line, one state for every key
LEMMA EditedSteps ==
  ASSUME NEW s \in Since, NEW edit \in BOOLEAN
  PROVE  \E w \in [0..Len(s.keys) -> Editor] :
           /\ w[0] = Began(s)
           /\ \A n \in 1..Len(s.keys) : w[n] = EditKey(w[n - 1], s.keys[n], edit)
           /\ Edited(s, edit) = w[Len(s.keys)]
<1> DEFINE L == Len(s.keys)
           f == [n \in 1..L |-> [e \in Editor |-> EditKey(e, s.keys[n], edit)]]
<1>1. L \in Nat /\ \A n \in 1..L : s.keys[n] \in AnyKey \cup Moves
  BY DEF Since
<1>2. Began(s) \in Editor
  BY DEF Began, Editor, Since, Line
<1>3. f \in [1..L -> [Editor -> Editor]]
  BY <1>1, EditKeyType
<1>4. PICK w \in [0..L -> Editor] : w[0] = Began(s) /\ \A n \in 1..L : w[n] = f[n][w[n - 1]]
  <2> DEFINE a == Began(s)
             D == Editor
  <2>1. L \in Nat /\ f \in [1..L -> [D -> D]] /\ a \in D
    BY <1>1, <1>2, <1>3
  <2> HIDE DEF f, L, a, D
  <2>2. \E w : Runs(w, D, L, f, a)
    BY ONLY <2>1, Recursion
  <2> QED BY ONLY <2>2 DEF D, a, Runs
<1>5. \A n \in 1..L : w[n] = EditKey(w[n - 1], s.keys[n], edit)
  <2> SUFFICES ASSUME NEW n \in 1..L PROVE w[n] = EditKey(w[n - 1], s.keys[n], edit)
    OBVIOUS
  <2>1. w[n - 1] \in Editor
    BY <1>1
  <2> QED BY <2>1, <1>4
<1> DEFINE Is(g) == g = [n \in 0..L |-> IF n = 0 THEN Began(s)
                                        ELSE EditKey(g[n - 1], s.keys[n], edit)]
           after == CHOOSE g : Is(g)
<1>6. Is(w)
  <2>1. w = [n \in 0..L |-> w[n]]
    OBVIOUS
  <2>2. \A n \in 0..L : n = 0 \/ n \in 1..L
    BY <1>1
  <2> QED BY <2>1, <2>2, <1>4, <1>5
<1>7. Is(after)
  <2> HIDE DEF Is
  <2> QED BY <1>6
<1>8. after[0] = w[0] /\ \A n \in 1..L : after[n] = EditKey(after[n - 1], s.keys[n], edit)
  <2> HIDE DEF after
  <2>1. 0 \in 0..L /\ \A n \in 1..L : n \in 0..L /\ n # 0
    BY <1>1
  <2> QED BY <1>4, <1>7, <2>1
<1>9. after[L] = w[L]
  <2>1. after[0] = w[0] /\ \A n \in 1..L : after[n - 1] = w[n - 1] => after[n] = w[n]
    BY <1>5, <1>8
  <2> HIDE DEF after, L
  <2> QED BY ONLY <1>1, <2>1, Agree
<1>10. Edited(s, edit) = after[L]
  BY DEF Edited, Began
<1> QED BY <1>4, <1>5, <1>9, <1>10

LEMMA EditedBegin ==
  ASSUME NEW s \in Since, NEW edit \in BOOLEAN, s.keys = <<>>
  PROVE  Edited(s, edit) = Began(s)
BY EditedSteps

FedWith(s, k) == [s EXCEPT !.keys = Append(@, k)]
LEMMA EditedOne ==
  ASSUME NEW s \in Since, NEW edit \in BOOLEAN, NEW k \in AnyKey \cup Moves
  PROVE  /\ Edited(s, edit) \in Editor
         /\ FedWith(s, k) \in Since
         /\ Edited(FedWith(s, k), edit) = EditKey(Edited(s, edit), k, edit)
<1> DEFINE u == FedWith(s, k)
           L == Len(s.keys)
<1>1. s.keys \in Seq(AnyKey \cup Moves) /\ L \in Nat
  BY DEF Since
<1>2. u \in Since /\ u.keys = Append(s.keys, k) /\ u.line = s.line /\ u.insert = s.insert
  BY <1>1 DEF FedWith, Since
<1>3. Len(u.keys) = L + 1 /\ u.keys[L + 1] = k /\ \A n \in 1..L : u.keys[n] = s.keys[n]
  BY <1>1, <1>2
<1>4. Began(u) = Began(s)
  BY <1>2 DEF Began
<1> HIDE DEF u
<1>5. PICK v \in [0..L -> Editor] :
        /\ v[0] = Began(s)
        /\ \A n \in 1..L : v[n] = EditKey(v[n - 1], s.keys[n], edit)
        /\ Edited(s, edit) = v[L]
  BY EditedSteps
<1>6. PICK w \in [0..(L + 1) -> Editor] :
        /\ w[0] = Began(u)
        /\ \A n \in 1..(L + 1) : w[n] = EditKey(w[n - 1], u.keys[n], edit)
        /\ Edited(u, edit) = w[L + 1]
  <2> DEFINE M == Len(u.keys)
  <2>1. \E w \in [0..M -> Editor] :
        /\ w[0] = Began(u)
        /\ \A n \in 1..M : w[n] = EditKey(w[n - 1], u.keys[n], edit)
        /\ Edited(u, edit) = w[M]
    BY ONLY EditedSteps, <1>2, edit \in BOOLEAN
  <2> QED BY <2>1, <1>3
<1> HIDE DEF L
<1>7. v[L] = w[L]
  <2>1. \A n \in 1..L : n \in 1..(L + 1)
    BY <1>1
  <2>2. \A n \in 1..L : v[n - 1] = w[n - 1] => v[n] = w[n]
    BY <2>1, <1>3, <1>5, <1>6
  <2>3. v[0] = w[0]
    BY <1>4, <1>5, <1>6
  <2> QED BY <2>2, <2>3, <1>1, Agree
<1>8. L + 1 \in 1..(L + 1) /\ (L + 1) - 1 = L /\ L \in 0..L
  BY <1>1
<1>9. v[L] \in Editor
  BY <1>5, <1>8
<1> QED BY <1>2, <1>3, <1>5, <1>6, <1>7, <1>8, <1>9 DEF u

-----------------------------------------------------------------------------
(* input_buf and input_pos, the line and the cursor in it *)
Shows(line, pos, e) == line = e.before \o e.after /\ pos = Len(e.before)

LEMMA ShownIs ==
  ASSUME NEW e \in Editor, NEW line, NEW pos, Shows(line, pos, e)
  PROVE  /\ line \in Line /\ pos \in 0..Len(line) /\ e.before \in Line /\ e.after \in Line
         /\ pos \in Nat /\ Len(line) = pos + Len(e.after) /\ pos = Len(e.before)
         /\ pos = 0 <=> e.before = <<>>
         /\ pos = Len(line) <=> e.after = <<>>
         /\ pos < Len(line) <=> e.after # <<>>
<1>1. /\ e.before \in Line /\ e.after \in Line /\ line = e.before \o e.after /\ pos = Len(e.before)
      /\ Len(e.before) \in Nat /\ Len(e.after) \in Nat
  BY DEF Editor, Shows, Line
<1>2. line \in Line /\ Len(line) = pos + Len(e.after)
  BY <1>1 DEF Line
<1>3. /\ Len(e.before) = 0 <=> e.before = <<>>
      /\ Len(e.after) = 0 <=> e.after = <<>>
  BY <1>1 DEF Line
<1> DEFINE m == Len(e.before)
           n == Len(e.after)
<1>4. m \in Nat /\ n \in Nat /\ pos = m /\ Len(line) = m + n
  BY <1>1, <1>2
<1> HIDE DEF m, n
<1>5. pos \in 0..Len(line) /\ (pos = Len(line) <=> n = 0) /\ (pos < Len(line) <=> n # 0)
  BY ONLY <1>4
<1> QED BY <1>1, <1>2, <1>3, <1>5 DEF n

LEMMA ShownAt ==
  ASSUME NEW e \in Editor, NEW line, NEW pos, Shows(line, pos, e)
  PROVE  /\ \A i \in 1..pos : line[i] = e.before[i]
         /\ \A i \in 1..Len(e.after) : line[pos + i] = e.after[i]
BY DEF Editor, Shows, Line

LEMMA ShownCut ==
  ASSUME NEW e \in Editor, NEW line, NEW pos, Shows(line, pos, e)
  PROVE  SubSeq(line, 1, pos) = e.before /\ SubSeq(line, pos + 1, Len(line)) = e.after
<1>1. e.before \in Seq(AnyKey) /\ e.after \in Seq(AnyKey)
  BY DEF Editor, Line
<1>2. line = e.before \o e.after /\ pos = Len(e.before)
  BY DEF Shows
<1> DEFINE b == e.before
           a == e.after
<1>3. SubSeq(b \o a, 1, Len(b)) = b /\ SubSeq(b \o a, Len(b) + 1, Len(b \o a)) = a
  <2> HIDE DEF b, a
  <2>1. b \in Seq(AnyKey) /\ a \in Seq(AnyKey)
    BY <1>1 DEF b, a
  <2> QED BY ONLY <2>1, CutAt
<1> QED BY ONLY <1>2, <1>3

LEMMA ClearShown ==
  ASSUME NEW e \in Editor PROVE Shows(<<>>, 0, Cleared(e)) /\ Cleared(e).insert = e.insert
BY DEF Shows, Cleared, Editor, Line

LEMMA HomeShown ==
  ASSUME NEW e \in Editor, NEW line, NEW pos, Shows(line, pos, e),
         NEW g, g = [e EXCEPT !.before = <<>>, !.after = e.before \o e.after]
  PROVE  Shows(line, 0, g) /\ g.insert = e.insert
<1>1. g.before = <<>> /\ g.after = e.before \o e.after /\ g.insert = e.insert
  BY DEF Editor
<1>2. line \in Seq(AnyKey) /\ line = e.before \o e.after
  BY ShownIs DEF Shows, Line
<1>3. <<>> \o line = line /\ Len(<<>>) = 0
  BY ONLY <1>2
<1>4. line = g.before \o g.after /\ Len(g.before) = 0
  BY ONLY <1>1, <1>2, <1>3
<1> QED BY ONLY <1>1, <1>4 DEF Shows

LEMMA EndShown ==
  ASSUME NEW e \in Editor, NEW line, NEW pos, Shows(line, pos, e),
         NEW g, g = [e EXCEPT !.before = e.before \o e.after, !.after = <<>>]
  PROVE  Shows(line, Len(line), g) /\ g.insert = e.insert
<1>1. g.after = <<>> /\ g.before = e.before \o e.after /\ g.insert = e.insert
  BY DEF Editor
<1>2. line \in Seq(AnyKey) /\ line = e.before \o e.after
  BY ShownIs DEF Shows, Line
<1>3. line \o <<>> = line
  BY ONLY <1>2
<1>4. line = g.before \o g.after /\ Len(line) = Len(g.before)
  BY ONLY <1>1, <1>2, <1>3
<1> QED BY ONLY <1>1, <1>4 DEF Shows

LEMMA DeleteShown ==
  ASSUME NEW e \in Editor, NEW line, NEW pos, Shows(line, pos, e), pos # 0
  PROVE  Shows(SeqX!RemoveAt(line, pos), pos - 1, [e EXCEPT !.before = SeqX!Front(@)])
<1> DEFINE b == SeqX!Front(e.before)
           c == SubSeq(line, 1, pos - 1)
<1>1. line \in Line /\ e.before \in Line /\ pos = Len(e.before) /\ pos \in Nat /\ Len(line) >= pos
  BY ShownIs
<1>2. \A i \in 1..pos : line[i] = e.before[i]
  BY ShownAt
<1>3. b \in Line /\ Len(b) = pos - 1 /\ \A i \in 1..(pos - 1) : b[i] = e.before[i]
  BY <1>1 DEF SeqX!Front, Line
<1>4. c \in Line /\ Len(c) = pos - 1 /\ \A i \in 1..(pos - 1) : c[i] = line[i]
  BY <1>1 DEF Line
<1> HIDE DEF b, c
<1>5. c = b
  <2>1. \A i \in 1..Len(c) : i \in 1..pos /\ i \in 1..(pos - 1)
    BY ONLY <1>1, <1>4
  <2>2. \A i \in 1..Len(c) : c[i] = b[i]
    BY ONLY <2>1, <1>2, <1>3, <1>4
  <2> QED BY ONLY <2>2, <1>3, <1>4, SameSeq DEF Line
<1>6. SeqX!RemoveAt(line, pos) = b \o e.after
  BY <1>5, ShownCut DEF SeqX!RemoveAt, c
<1>7. /\ [e EXCEPT !.before = b].before = b /\ [e EXCEPT !.before = b].after = e.after
  BY DEF Editor
<1> QED BY <1>3, <1>6, <1>7 DEF Shows, b

LEMMA LeftShown ==
  ASSUME NEW e \in Editor, NEW line, NEW pos, Shows(line, pos, e), pos # 0
  PROVE  Shows(line, pos - 1, CursorLeft(e)) /\ CursorLeft(e).insert = e.insert
<1> DEFINE b == SeqX!Front(e.before)
           x == SeqX!Last(e.before)
<1>1. e.before \in Line /\ e.after \in Line /\ pos = Len(e.before) /\ pos \in Nat \ {0}
  BY ShownIs
<1>2. /\ b \in Line /\ Len(b) = pos - 1 /\ x \in AnyKey
      /\ e.before = Append(b, x)
  BY <1>1 DEF SeqX!Front, SeqX!Last, Line
<1> DEFINE a == e.after
<1> HIDE DEF b, x, a
<1>3. Append(b, x) \o a = b \o (<<x>> \o a)
  <2>1. b \in Seq(AnyKey) /\ a \in Seq(AnyKey) /\ x \in AnyKey
    BY <1>1, <1>2 DEF Line, a
  <2> QED BY ONLY <2>1, JoinAgain
<1>4. /\ CursorLeft(e).before = b /\ CursorLeft(e).after = <<x>> \o a
      /\ CursorLeft(e).insert = e.insert
  BY DEF Editor, CursorLeft, b, x, a
<1> QED BY <1>2, <1>3, <1>4 DEF Shows, a

LEMMA RightShown ==
  ASSUME NEW e \in Editor, NEW line, NEW pos, Shows(line, pos, e), pos < Len(line)
  PROVE  Shows(line, pos + 1, CursorRight(e)) /\ CursorRight(e).insert = e.insert
<1> DEFINE a == Tail(e.after)
           x == Head(e.after)
<1>1. e.before \in Line /\ e.after \in Line /\ pos = Len(e.before) /\ pos \in Nat /\ e.after # <<>>
  BY ShownIs
<1>2. a \in Line /\ x \in AnyKey /\ e.after = <<x>> \o a
  BY <1>1 DEF Line
<1> DEFINE b == e.before
<1> HIDE DEF a, x, b
<1>3. Append(b, x) \o a = b \o (<<x>> \o a) /\ Len(Append(b, x)) = pos + 1
  <2>1. b \in Seq(AnyKey) /\ a \in Seq(AnyKey) /\ x \in AnyKey /\ pos = Len(b)
    BY <1>1, <1>2 DEF Line, b
  <2> QED BY ONLY <2>1, JoinAgain
<1>4. /\ CursorRight(e).before = Append(b, x) /\ CursorRight(e).after = a
      /\ CursorRight(e).insert = e.insert
  BY DEF Editor, CursorRight, a, x, b
<1> QED BY <1>2, <1>3, <1>4 DEF Shows, b

\* TextKey
LineWith(line, pos, insert, k) ==
  IF pos = Len(line) THEN Append(line, k)
  ELSE IF insert THEN SeqX!InsertAt(line, pos + 1, k)
  ELSE [line EXCEPT ![pos + 1] = k]
TextTyped(e, k) == [e EXCEPT !.before = Append(@, k),
                             !.after = IF e.insert \/ @ = <<>> THEN @ ELSE Tail(@)]
LEMMA TextShown ==
  ASSUME NEW e \in Editor, NEW line, NEW pos, Shows(line, pos, e), NEW k \in AnyKey
  PROVE  /\ LineWith(line, pos, e.insert, k) \in Line
         /\ Shows(LineWith(line, pos, e.insert, k), pos + 1, TextTyped(e, k))
         /\ TextTyped(e, k).insert = e.insert
<1> DEFINE b == Append(e.before, k)
           a == IF e.insert \/ e.after = <<>> THEN e.after ELSE Tail(e.after)
           r == LineWith(line, pos, e.insert, k)
<1>1. /\ line \in Line /\ pos \in 0..Len(line) /\ e.before \in Line /\ e.after \in Line
      /\ pos \in Nat /\ Len(line) = pos + Len(e.after) /\ pos = Len(e.before)
      /\ pos = Len(line) <=> e.after = <<>>
      /\ line = e.before \o e.after
  BY ShownIs DEF Shows
<1>2. b \in Line /\ Len(b) = pos + 1 /\ a \in Line
  BY <1>1 DEF Line
<1>3. /\ TextTyped(e, k).before = b /\ TextTyped(e, k).after = a
      /\ TextTyped(e, k).insert = e.insert
  BY DEF Editor, TextTyped
<1> HIDE DEF b, a
<1>4. r = b \o a
  <2>1. CASE pos = Len(line)
    <3>1. e.after = <<>> /\ a = <<>> /\ r = Append(line, k)
      BY <2>1, <1>1 DEF LineWith, a
    <3> QED BY <3>1, <1>1, <1>2 DEF b, Line
  <2>2. CASE pos # Len(line) /\ e.insert
    <3>1. r = SubSeq(line, 1, pos) \o <<k>> \o SubSeq(line, pos + 1, Len(line)) /\ a = e.after
      <4>1. (pos + 1) - 1 = pos
        BY <1>1
      <4>2. r = SeqX!InsertAt(line, pos + 1, k) /\ a = e.after
        BY <2>2 DEF LineWith, a
      <4> QED BY ONLY <4>1, <4>2 DEF SeqX!InsertAt
    <3>2. SubSeq(line, 1, pos) = e.before /\ SubSeq(line, pos + 1, Len(line)) = e.after
      BY ShownCut
    <3>3. b = e.before \o <<k>>
      BY <1>1 DEF b, Line
    <3> QED BY <3>1, <3>2, <3>3
  <2>3. CASE pos # Len(line) /\ ~e.insert
    <3>1. e.after # <<>> /\ r = [line EXCEPT ![pos + 1] = k] /\ a = Tail(e.after)
      BY <2>3, <1>1 DEF LineWith, a
    <3> DEFINE n == Len(e.after)
    <3>2. /\ n \in Nat \ {0} /\ Len(a) = n - 1 /\ Len(line) = pos + n /\ pos \in Nat
          /\ Len(b) = pos + 1 /\ Len(a) \in Nat /\ Len(line) \in Nat
      <4>1. e.after \in Seq(AnyKey) /\ e.after # <<>>
        BY <3>1, <1>1 DEF Line
      <4>2. n \in Nat \ {0} /\ Len(Tail(e.after)) = n - 1
        BY ONLY <4>1
      <4>3. pos \in Nat /\ Len(line) = pos + n /\ Len(b) = pos + 1 /\ a = Tail(e.after)
        BY <3>1, <1>1, <1>2
      <4> HIDE DEF n, r
      <4> QED BY ONLY <4>2, <4>3
    <3>3. \A i \in 1..Len(a) : a[i] = e.after[i + 1]
      BY <3>1, <1>1 DEF Line
    <3>4. pos + 1 \in 1..Len(line)
      BY ONLY <3>2
    <3>5. /\ r \in Line /\ Len(r) = Len(line) /\ r[pos + 1] = k
          /\ \A i \in 1..Len(line) : i # pos + 1 => r[i] = line[i]
      <4> HIDE DEF r
      <4>1. line \in Seq(AnyKey) /\ r = [line EXCEPT ![pos + 1] = k] /\ k \in AnyKey
        BY <3>1, <1>1 DEF Line
      <4> QED BY ONLY <4>1, <3>4 DEF Line
    <3>6. /\ \A i \in 1..pos : line[i] = e.before[i]
          /\ \A i \in 1..n : line[pos + i] = e.after[i]
      <4> HIDE DEF r
      <4> QED BY ShownAt
    <3>7. \A i \in 1..n : line[pos + i] = e.after[i]
      BY <3>6
    <3>8. /\ \A i \in 1..pos : b[i] = e.before[i]
          /\ b[pos + 1] = k
      BY <1>1 DEF b, Line
    <3> HIDE DEF n, r
    <3>9. ASSUME NEW i \in 1..Len(b) PROVE r[i] = b[i]
      <4>1. i = pos + 1 \/ (i \in 1..pos /\ i \in 1..Len(line) /\ i # pos + 1)
        BY ONLY <3>2, i \in 1..Len(b)
      <4> QED BY <4>1, <3>5, <3>6, <3>8
    <3>10. ASSUME NEW i \in 1..Len(a) PROVE r[Len(b) + i] = a[i]
      <4>1. /\ Len(b) + i = pos + (i + 1) /\ i + 1 \in 1..n
            /\ pos + (i + 1) \in 1..Len(line) /\ pos + (i + 1) # pos + 1
        BY ONLY <3>2, i \in 1..Len(a)
      <4> QED BY <4>1, <3>3, <3>5, <3>7
    <3>11. Len(r) = Len(b) + Len(a)
      BY ONLY <3>2, <3>5
    <3> QED BY ONLY <3>5, <3>9, <3>10, <3>11, <1>2, JoinIs DEF Line
  <2> QED BY <2>1, <2>2, <2>3
<1>5. b \o a \in Line
  BY <1>2 DEF Line
<1> QED BY <1>2, <1>3, <1>4, <1>5 DEF Shows

-----------------------------------------------------------------------------
(* The terminal, and that its line is what was typed for it *)
Why == {"terminator", "full", "escape", "timeout", "unread"}
Said ==
  {BindAccept, NoMode, Initiate, InputState, WriteComplete}
  \cup [t : {"READ_DATA"}, data : Line, why : Why]
  \cup [t : {"OOB"}, data : Line] \cup [t : {"INPUT_COUNT"}, n : Nat]
Tty ==
  [pending : BOOLEAN, ahead : Line, line : Line, pos : Nat, esc : Line, escState : Nat,
   terms : SUBSET AnyKey, recognize : BOOLEAN, edit : BOOLEAN, insert : BOOLEAN, max : Nat,
   timed : BOOLEAN, escapes : BOOLEAN, states : BOOLEAN, oob : SUBSET AnyKey,
   flush : SUBSET AnyKey, out : Seq(Said), finished : BOOLEAN, since : Since]
InStep(t) ==
  t.pending => /\ Shows(t.line, t.pos, Edited(t.since, t.edit))
               /\ Edited(t.since, t.edit).insert = t.insert
Kept == {t \in Tty : InStep(t)}

LEMMA KeptIdle == ASSUME NEW u \in Tty, ~u.pending PROVE u \in Kept
BY DEF Kept, InStep

LEMMA KeptSame ==
  ASSUME NEW t \in Kept, NEW u \in Tty, u.pending = t.pending, u.line = t.line, u.pos = t.pos,
         u.insert = t.insert, u.edit = t.edit, u.since = t.since
  PROVE  u \in Kept
BY DEF Kept, InStep

\* A key more for the line, when u is the terminal with it
LEMMA KeptFed ==
  ASSUME NEW t \in Kept, NEW k \in AnyKey \cup Moves, NEW u \in Tty,
         u.pending = t.pending, u.edit = t.edit, u.since = FedWith(t.since, k),
         NEW e, e = Edited(t.since, t.edit),
         t.pending => /\ Shows(u.line, u.pos, EditKey(e, k, t.edit))
                      /\ EditKey(e, k, t.edit).insert = u.insert
  PROVE  u \in Kept
<1>1. t \in Tty /\ t.since \in Since /\ t.edit \in BOOLEAN
  BY DEF Kept, Tty
<1>2. Edited(u.since, u.edit) = EditKey(e, k, t.edit)
  BY <1>1, EditedOne
<1> QED BY <1>2 DEF Kept, InStep

LEMMA LineOf ==
  ASSUME NEW t \in Kept
  PROVE  /\ t \in Tty /\ t.since \in Since /\ t.edit \in BOOLEAN /\ t.insert \in BOOLEAN
         /\ Edited(t.since, t.edit) \in Editor
         /\ t.pending => /\ Shows(t.line, t.pos, Edited(t.since, t.edit))
                         /\ Edited(t.since, t.edit).insert = t.insert
<1>1. t \in Tty /\ t.since \in Since /\ t.edit \in BOOLEAN /\ t.insert \in BOOLEAN
  BY DEF Kept, Tty
<1>2. "LEFT" \in AnyKey \cup Moves
  BY DEF Moves
<1>3. Edited(t.since, t.edit) \in Editor
  BY <1>1, <1>2, EditedOne
<1> QED BY <1>1, <1>3 DEF Kept, InStep

LEMMA SaidIs ==
  /\ \A k \in AnyKey : OutOfBand(k) \in Said
  /\ \A data \in Line, why \in Why : ReadData(data, why) \in Said
  /\ \A n \in Nat : InputCount(n) \in Said
  /\ {BindAccept, NoMode, Initiate, InputState, WriteComplete} \subseteq Said
BY DEF Said, OutOfBand, ReadData, InputCount, Line

LEMMA SayKept ==
  ASSUME NEW t \in Kept, NEW m \in Said
  PROVE  /\ Say(t, m) \in Kept /\ Say(t, m).pending = t.pending /\ Say(t, m).line = t.line
         /\ Say(t, m).pos = t.pos /\ Say(t, m).insert = t.insert /\ Say(t, m).edit = t.edit
         /\ Say(t, m).since = t.since /\ Say(t, m).ahead = t.ahead
<1>1. t \in Tty
  BY DEF Kept
<1> HIDE DEF Kept
<1>2. Append(t.out, m) \in Seq(Said)
  BY <1>1 DEF Tty
<1>3. Say(t, m) = [t EXCEPT !.out = Append(t.out, m)]
  BY DEF Say
<1> DEFINE o == Append(t.out, m)
<1> HIDE DEF o
<1>4. [t EXCEPT !.out = o] \in Tty
  BY <1>1, <1>2 DEF Tty, o
<1>5. Say(t, m) \in Tty
  BY <1>3, <1>4 DEF o
<1>6. /\ Say(t, m).pending = t.pending /\ Say(t, m).line = t.line
      /\ Say(t, m).pos = t.pos /\ Say(t, m).insert = t.insert /\ Say(t, m).edit = t.edit
      /\ Say(t, m).since = t.since /\ Say(t, m).ahead = t.ahead
  BY <1>1, <1>3 DEF Tty
<1> QED BY <1>5, <1>6, KeptSame

LEMMA SendInputBufferKept ==
  ASSUME NEW t \in Tty, NEW why \in Why
  PROVE  SendInputBuffer(t, why) \in Kept /\ ~SendInputBuffer(t, why).pending
<1>1. /\ t.line \in Line /\ ReadData(t.line, why) \in Said /\ <<>> \in Line
  BY SaidIs DEF Tty, Line
<1> DEFINE o == Append(t.out, ReadData(t.line, why))
<1>2. o \in Seq(Said)
  BY <1>1 DEF Tty
<1> DEFINE u == [t EXCEPT !.out = o, !.pending = FALSE, !.line = <<>>, !.pos = 0,
                          !.recognize = FALSE]
<1>3. SendInputBuffer(t, why) = u
  BY DEF SendInputBuffer, SendInput, Say, Tty
<1> HIDE DEF o
<1>4. u \in Tty /\ ~u.pending
  BY <1>1, <1>2 DEF Tty
<1> HIDE DEF u
<1> QED BY <1>3, <1>4, KeptIdle

\* u is the terminal t with k in the history of its line, and a line, cursor and mode
IsFed(t, k, u, line, pos, insert) ==
  /\ u \in Tty /\ u.pending = t.pending /\ u.edit = t.edit /\ u.since = FedWith(t.since, k)
  /\ u.line = line /\ u.pos = pos /\ u.insert = insert

LEMMA FedIs ==
  ASSUME NEW t \in Tty, NEW k \in AnyKey \cup Moves, NEW line \in Line, NEW pos \in Nat,
         NEW insert \in BOOLEAN
  PROVE  /\ IsFed(t, k, Fed(t, k), t.line, t.pos, t.insert)
         /\ IsFed(t, k, [Fed(t, k) EXCEPT !.line = line, !.pos = pos], line, pos, t.insert)
         /\ IsFed(t, k, [Fed(t, k) EXCEPT !.pos = pos], t.line, pos, t.insert)
         /\ IsFed(t, k, [Fed(t, k) EXCEPT !.insert = insert], t.line, t.pos, insert)
<1> DEFINE s == FedWith(t.since, k)
           f == [t EXCEPT !.since = s]
<1>1. t.since \in Since /\ t.edit \in BOOLEAN
  BY DEF Tty
<1>2. s \in Since
  BY <1>1, EditedOne
<1>3. Fed(t, k) = [t EXCEPT !.since = s]
  BY DEF Fed, FedWith
<1> HIDE DEF s
<1>4. /\ f \in Tty /\ f.pending = t.pending /\ f.edit = t.edit /\ f.since = s
      /\ f.line = t.line /\ f.pos = t.pos /\ f.insert = t.insert
  BY <1>2 DEF Tty
<1> HIDE DEF f
<1>5. IsFed(t, k, f, t.line, t.pos, t.insert)
  BY <1>4 DEF IsFed, s
<1>6. IsFed(t, k, [f EXCEPT !.line = line, !.pos = pos], line, pos, t.insert)
  BY <1>4 DEF IsFed, s, Tty
<1>7. IsFed(t, k, [f EXCEPT !.pos = pos], t.line, pos, t.insert)
  BY <1>4 DEF IsFed, s, Tty
<1>8. IsFed(t, k, [f EXCEPT !.insert = insert], t.line, t.pos, insert)
  BY <1>4 DEF IsFed, s, Tty
<1> QED BY <1>3, <1>5, <1>6, <1>7, <1>8 DEF f

LEMMA IsFedKept ==
  ASSUME NEW t \in Kept, NEW k \in AnyKey \cup Moves, NEW u, NEW line, NEW pos, NEW insert,
         IsFed(t, k, u, line, pos, insert), NEW e, e = Edited(t.since, t.edit),
         t.pending => /\ Shows(line, pos, EditKey(e, k, t.edit))
                      /\ EditKey(e, k, t.edit).insert = insert
  PROVE  u \in Kept
BY KeptFed DEF IsFed

LEMMA WithLine ==
  ASSUME NEW t \in Tty, NEW k \in AnyKey
  PROVE  /\ [t EXCEPT !.line = Append(@, k)] \in Tty
         /\ [t EXCEPT !.esc = <<k>>] \in Tty
         /\ [t EXCEPT !.esc = Append(@, k)] \in Tty
         /\ [t EXCEPT !.ahead = Append(@, k)] \in Tty
<1> DEFINE l == Append(t.line, k)
           a == Append(t.ahead, k)
           s == Append(t.esc, k)
           o == <<k>>
<1>1. l \in Line /\ a \in Line /\ s \in Line /\ o \in Line
  BY DEF Tty, Line
<1> HIDE DEF l, a, s, o
<1>2. /\ [t EXCEPT !.line = l] \in Tty /\ [t EXCEPT !.esc = o] \in Tty
      /\ [t EXCEPT !.esc = s] \in Tty /\ [t EXCEPT !.ahead = a] \in Tty
  BY <1>1 DEF Tty
<1> QED BY <1>2 DEF l, a, s, o

LEMMA FedKept ==
  ASSUME NEW t \in Kept, NEW k \in AnyKey, ~t.pending \/ (t.edit /\ k \in Ignored)
  PROVE  Fed(t, k) \in Kept
<1> DEFINE e == Edited(t.since, t.edit)
           f == Fed(t, k)
<1>1. t \in Tty /\ k \in AnyKey \cup Moves /\ t.edit \in BOOLEAN
  BY DEF Kept, Tty
<1>2. t.pending => Shows(t.line, t.pos, e) /\ e.insert = t.insert
  BY LineOf
<1>3. t.pending => EditKey(e, k, t.edit) = e
  <2> HIDE DEF e
  <2>1. CASE ~t.pending
    BY <2>1
  <2>2. CASE t.edit /\ k \in Ignored
    <3>1. t.edit = TRUE
      BY <1>1, <2>2
    <3> QED BY <2>2, <3>1, EditsIs
  <2> QED BY <2>1, <2>2
<1>4. IsFed(t, k, f, t.line, t.pos, t.insert)
  <2>1. t.line \in Line /\ t.pos \in Nat /\ t.insert \in BOOLEAN
    BY DEF Kept, Tty
  <2> QED BY <1>1, <2>1, FedIs
<1> HIDE DEF e, f
<1>5. f \in Kept
  BY <1>1, <1>2, <1>3, <1>4, IsFedKept DEF e
<1> QED BY <1>5 DEF f

LEMMA ControlKept ==
  ASSUME NEW t \in Kept, t.pending, t.edit, NEW k \in AnyKey, k \notin Plain
  PROVE  ControlKey(Fed(t, k), k) \in Kept
<1> DEFINE e == Edited(t.since, t.edit)
           f == Fed(t, k)
           g == EditKey(e, k, t.edit)
           c == ControlKey(f, k)
<1> SUFFICES c \in Kept
  OBVIOUS
<1>1. /\ t \in Tty /\ t.line \in Line /\ t.pos \in Nat /\ t.insert \in BOOLEAN /\ <<>> \in Line
      /\ k \in AnyKey \cup Moves /\ (~t.insert) \in BOOLEAN /\ Len(t.line) \in Nat
      /\ t.edit = TRUE
  BY NotType DEF Kept, Tty, Line
<1>2. Shows(t.line, t.pos, e) /\ e.insert = t.insert /\ e \in Editor
  BY LineOf
<1>3. IsFed(t, k, f, t.line, t.pos, t.insert)
  BY <1>1, FedIs
<1>4. f.line = t.line /\ f.pos = t.pos /\ f.insert = t.insert
  BY <1>3 DEF IsFed
<1>5. k \in Ignored \/ k \in {"^X", "^U", "^H", "^E", "^A", "DEL"}
  BY AnyKeyIs, KeysAssumption DEF Moves
<1>6. ASSUME NEW line, NEW pos, NEW insert, IsFed(t, k, c, line, pos, insert),
             Shows(line, pos, g), g.insert = insert
      PROVE  c \in Kept
  <2> HIDE DEF g, c, e
  <2> QED BY <1>1, <1>6, IsFedKept DEF g, e
<1>7. ASSUME NEW line \in Line, NEW pos \in Nat
      PROVE  IsFed(t, k, [f EXCEPT !.line = line, !.pos = pos], line, pos, t.insert)
  BY <1>1, FedIs
<1>8. ASSUME NEW pos \in Nat PROVE IsFed(t, k, [f EXCEPT !.pos = pos], t.line, pos, t.insert)
  BY <1>1, FedIs
<1>9. IsFed(t, k, [f EXCEPT !.insert = ~t.insert], t.line, t.pos, ~t.insert)
  BY <1>1, FedIs
<1> HIDE DEF e, f
<1>10. CASE k \in {"^X", "^U"}
  <2>1. c = [f EXCEPT !.line = <<>>, !.pos = 0]
    BY <1>10 DEF ControlKey
  <2>2. IsFed(t, k, c, <<>>, 0, t.insert)
    BY <2>1, <1>1, <1>7
  <2>3. g = Cleared(e)
    BY <1>1, <1>10, EditsIs
  <2>4. Shows(<<>>, 0, g) /\ g.insert = t.insert
    BY <2>3, <1>2, ClearShown
  <2> HIDE DEF c, g
  <2> QED BY <2>2, <2>4, <1>6
<1>11. CASE k = "^H"
  <2>1. c = [f EXCEPT !.pos = 0]
    BY <1>11 DEF ControlKey
  <2>2. IsFed(t, k, c, t.line, 0, t.insert)
    BY <2>1, <1>1, <1>8
  <2>3. g = [e EXCEPT !.before = <<>>, !.after = e.before \o e.after]
    BY <1>1, <1>11, EditsIs
  <2> HIDE DEF c, g
  <2>4. Shows(t.line, 0, g) /\ g.insert = t.insert
    BY <2>3, <1>2, HomeShown
  <2> QED BY <2>2, <2>4, <1>6
<1>12. CASE k = "^E"
  <2>1. c = [f EXCEPT !.pos = Len(t.line)]
    BY <1>4, <1>12 DEF ControlKey
  <2>2. IsFed(t, k, c, t.line, Len(t.line), t.insert)
    BY <2>1, <1>1, <1>8
  <2>3. g = [e EXCEPT !.before = e.before \o e.after, !.after = <<>>]
    BY <1>1, <1>12, EditsIs
  <2> HIDE DEF c, g
  <2>4. Shows(t.line, Len(t.line), g) /\ g.insert = t.insert
    BY <2>3, <1>2, EndShown
  <2> QED BY <2>2, <2>4, <1>6
<1>13. CASE k = "^A"
  <2>1. c = [f EXCEPT !.insert = ~t.insert]
    BY <1>4, <1>13 DEF ControlKey
  <2>2. IsFed(t, k, c, t.line, t.pos, ~t.insert)
    BY <2>1, <1>9
  <2>3. g = [e EXCEPT !.insert = ~e.insert]
    BY <1>1, <1>13, EditsIs
  <2> HIDE DEF c, g
  <2>4. Shows(t.line, t.pos, g) /\ g.insert = ~t.insert
    BY <2>3, <1>2 DEF Editor, Shows
  <2> QED BY <2>2, <2>4, <1>6
<1>14. CASE k = "DEL"
  <2>1. c = DeleteKey(f)
    BY <1>14 DEF ControlKey
  <2>2. g = [e EXCEPT !.before = IF e.before = <<>> THEN e.before ELSE SeqX!Front(e.before)]
    BY <1>1, <1>14, EditsIs
  <2>3. t.pos = 0 <=> e.before = <<>>
    BY <1>2, ShownIs
  <2>4. CASE t.pos = 0
    <3>1. c = f /\ g = e
      BY <2>1, <2>2, <2>3, <2>4, <1>2, <1>4 DEF DeleteKey, Editor
    <3> HIDE DEF c, g
    <3> QED BY <3>1, <1>2, <1>3, <1>6
  <2>5. CASE t.pos # 0
    <3> DEFINE r == SeqX!RemoveAt(t.line, t.pos)
               p == t.pos - 1
    <3>1. c = [f EXCEPT !.line = r, !.pos = p]
      BY <2>1, <2>5, <1>4 DEF DeleteKey
    <3>2. g = [e EXCEPT !.before = SeqX!Front(e.before)]
      BY <2>2, <2>3, <2>5
    <3>3. Shows(r, p, g)
      BY <3>2, <2>5, <1>2, DeleteShown
    <3>4. g.insert = t.insert
      BY <3>2, <1>2 DEF Editor
    <3>5. g \in Editor
      BY <1>1, <1>2, EditKeyType
    <3>6. p \in Nat
      BY <1>1, <2>5
    <3> HIDE DEF c, g, r, p
    <3>7. r \in Line
      BY <3>3, <3>5, ShownIs
    <3>8. IsFed(t, k, c, r, p, t.insert)
      BY <3>1, <3>6, <3>7, <1>7
    <3> QED BY <3>3, <3>4, <3>8, <1>6
  <2> QED BY <2>4, <2>5
<1>15. CASE k \in Ignored
  <2>1. f \in Kept
    BY <1>15, FedKept DEF f
  <2>2. CASE k = "CR"
    <3> DEFINE u == [f EXCEPT !.line = Append(f.line, k)]
    <3>1. c = SendInputBuffer(u, "terminator")
      BY <2>2 DEF ControlKey
    <3>2. u \in Tty
      <4>1. f \in Tty
        BY <2>1 DEF Kept
      <4> QED BY <4>1, WithLine
    <3> HIDE DEF u, c
    <3> QED BY <3>1, <3>2, SendInputBufferKept DEF Why
  <2>3. CASE k # "CR"
    <3>1. c = f
      BY <2>3, <1>15 DEF ControlKey, Ignored, ControlKeys
    <3> QED BY <2>1, <3>1
  <2> QED BY <2>2, <2>3
<1> HIDE DEF c
<1> QED BY <1>5, <1>10, <1>11, <1>12, <1>13, <1>14, <1>15

LEMMA TextKept ==
  ASSUME NEW t \in Kept, t.pending, NEW k \in AnyKey, k \in Plain \/ ~t.edit
  PROVE  TextKey(Fed(t, k), k) \in Kept
<1> DEFINE e == Edited(t.since, t.edit)
           f == Fed(t, k)
           g == EditKey(e, k, t.edit)
           l == LineWith(t.line, t.pos, t.insert, k)
           p == t.pos + 1
           u == [f EXCEPT !.line = l, !.pos = p]
<1>1. /\ t \in Tty /\ t.line \in Line /\ t.pos \in Nat /\ t.insert \in BOOLEAN
      /\ k \in AnyKey \cup Moves
  BY DEF Kept, Tty
<1>2. Shows(t.line, t.pos, e) /\ e.insert = t.insert /\ e \in Editor
  BY LineOf
<1>3. g = TextTyped(e, k)
  BY TextsIs DEF TextTyped
<1>4. /\ l \in Line /\ Shows(l, p, g) /\ g.insert = t.insert
  <2> HIDE DEF e, g
  <2> QED BY <1>2, <1>3, TextShown
<1>5. p \in Nat
  BY <1>1
<1>6. IsFed(t, k, f, t.line, t.pos, t.insert)
  BY <1>1, FedIs
<1>7. f.line = t.line /\ f.pos = t.pos /\ f.insert = t.insert
  BY <1>6 DEF IsFed
<1>8. TextKey(f, k) = IF Len(l) >= f.max THEN SendInputBuffer(u, "full") ELSE u
  <2> HIDE DEF f
  <2> QED BY <1>7 DEF TextKey, LineWith
<1> HIDE DEF l, p
<1>9. IsFed(t, k, u, l, p, t.insert)
  BY <1>1, <1>4, <1>5, FedIs
<1> HIDE DEF e, f, g, u
<1>10. u \in Kept
  BY <1>1, <1>4, <1>9, IsFedKept DEF e, g
<1>11. u \in Tty /\ "full" \in Why
  BY <1>10 DEF Kept, Why
<1>12. SendInputBuffer(u, "full") \in Kept
  BY <1>11, SendInputBufferKept
<1>13. TextKey(f, k) \in Kept
  BY <1>8, <1>10, <1>12
<1> QED BY <1>13 DEF f

LEMMA ParseType ==
  ASSUME NEW s \in Nat, NEW c
  PROVE  ParseEscape(s, c).state \in Nat
<1>1. CASE c \notin Plain
  BY <1>1 DEF ParseEscape
<1>2. CASE c \in Plain /\ s \in {0, 10}
  BY <1>2 DEF ParseEscape, Spacing
<1>3. CASE c \in Plain /\ s \in {15, 20}
  BY <1>3 DEF ParseEscape, Spacing, Digits
<1>4. CASE c \in Plain /\ s \notin {0, 10, 15, 20}
  BY <1>4 DEF ParseEscape
<1> QED BY <1>1, <1>2, <1>3, <1>4

\* An arrow key, when u is the terminal after the escape sequence
LEMMA ArrowKept ==
  ASSUME NEW u \in Kept
  PROVE  /\ Fed([u EXCEPT !.pos = IF @ < Len(u.line) THEN @ + 1 ELSE @], "RIGHT") \in Tty
         /\ Fed([u EXCEPT !.pos = IF @ > 0 THEN @ - 1 ELSE @], "LEFT") \in Tty
         /\ u.pending =>
              /\ Fed([u EXCEPT !.pos = IF @ < Len(u.line) THEN @ + 1 ELSE @], "RIGHT") \in Kept
              /\ Fed([u EXCEPT !.pos = IF @ > 0 THEN @ - 1 ELSE @], "LEFT") \in Kept
<1> DEFINE e == Edited(u.since, u.edit)
           right == IF u.pos < Len(u.line) THEN u.pos + 1 ELSE u.pos
           left == IF u.pos > 0 THEN u.pos - 1 ELSE u.pos
           R == EditKey(e, "RIGHT", u.edit)
           L == EditKey(e, "LEFT", u.edit)
           fr == Fed([u EXCEPT !.pos = right], "RIGHT")
           fl == Fed([u EXCEPT !.pos = left], "LEFT")
<1>1. /\ u \in Tty /\ u.line \in Line /\ u.pos \in Nat /\ u.insert \in BOOLEAN
      /\ "RIGHT" \in AnyKey \cup Moves /\ "LEFT" \in AnyKey \cup Moves
  BY DEF Kept, Tty, Moves
<1>2. right \in Nat /\ left \in Nat
  BY <1>1
<1>3. ASSUME NEW p \in Nat, NEW k \in AnyKey \cup Moves
      PROVE  IsFed(u, k, Fed([u EXCEPT !.pos = p], k), u.line, p, u.insert)
  <2> DEFINE v == [u EXCEPT !.pos = p]
  <2>1. /\ v \in Tty /\ v.line = u.line /\ v.pos = p /\ v.insert = u.insert
        /\ v.since = u.since /\ v.edit = u.edit /\ v.pending = u.pending
    BY <1>1 DEF Tty
  <2> HIDE DEF v
  <2>2. IsFed(v, k, Fed(v, k), v.line, v.pos, v.insert)
    BY <1>1, <2>1, FedIs
  <2> QED BY <2>1, <2>2 DEF IsFed, v
<1>4. IsFed(u, "RIGHT", fr, u.line, right, u.insert) /\ IsFed(u, "LEFT", fl, u.line, left, u.insert)
  <2> HIDE DEF right, left
  <2> QED BY <1>1, <1>2, <1>3
<1>5. fr \in Tty /\ fl \in Tty
  BY <1>4 DEF IsFed
<1>6. ASSUME u.pending PROVE fr \in Kept /\ fl \in Kept
  <2>1. Shows(u.line, u.pos, e) /\ e.insert = u.insert /\ e \in Editor
    BY <1>6, LineOf
  <2> HIDE DEF e
  <2>2. Shows(u.line, right, R) /\ R.insert = u.insert
    <3>1. u.pos < Len(u.line) <=> e.after # <<>>
      BY <2>1, ShownIs
    <3>2. R = IF e.after = <<>> THEN e ELSE CursorRight(e)
      BY MovesIs
    <3> HIDE DEF R
    <3>3. CASE u.pos < Len(u.line)
      BY <3>1, <3>2, <3>3, <2>1, RightShown
    <3>4. CASE ~(u.pos < Len(u.line))
      BY <3>1, <3>2, <3>4, <2>1
    <3> QED BY <3>3, <3>4
  <2>3. Shows(u.line, left, L) /\ L.insert = u.insert
    <3>1. u.pos = 0 <=> e.before = <<>>
      BY <2>1, ShownIs
    <3>2. L = IF e.before = <<>> THEN e ELSE CursorLeft(e)
      BY MovesIs
    <3> HIDE DEF L
    <3>3. CASE u.pos # 0
      <4>1. left = u.pos - 1
        BY <3>3, <1>1
      <4> QED BY <4>1, <3>1, <3>2, <3>3, <2>1, LeftShown
    <3>4. CASE u.pos = 0
      BY <3>1, <3>2, <3>4, <2>1
    <3> QED BY <3>3, <3>4
  <2> HIDE DEF right, left, R, L, fr, fl
  <2> QED BY <2>2, <2>3, <1>1, <1>4, IsFedKept DEF R, L, e
<1> QED BY <1>5, <1>6

LEMMA SendInputKept ==
  ASSUME NEW t \in Tty, NEW data \in Line, NEW why \in Why
  PROVE  SendInput(t, data, why) \in Kept /\ ~SendInput(t, data, why).pending
<1> DEFINE o == Append(t.out, ReadData(data, why))
           u == [t EXCEPT !.out = o, !.pending = FALSE]
<1>1. ReadData(data, why) \in Said
  BY SaidIs
<1>2. o \in Seq(Said)
  BY <1>1 DEF Tty
<1>3. SendInput(t, data, why) = u
  BY DEF SendInput, Say, Tty
<1> HIDE DEF o
<1>4. u \in Tty /\ ~u.pending
  BY <1>2 DEF Tty
<1> HIDE DEF u
<1> QED BY <1>3, <1>4, KeptIdle

LEMMA EscapeKept ==
  ASSUME NEW t \in Kept, t.pending, NEW k \in AnyKey
  PROVE  EscapeKey(t, k) \in Kept
<1> DEFINE esc == Append(t.esc, k)
           p == ParseEscape(t.escState, k)
           x == IF p.last THEN <<>> ELSE esc
           u == [t EXCEPT !.esc = x, !.escState = p.state]
           fr == Fed([u EXCEPT !.pos = IF @ < Len(u.line) THEN @ + 1 ELSE @], "RIGHT")
           fl == Fed([u EXCEPT !.pos = IF @ > 0 THEN @ - 1 ELSE @], "LEFT")
<1>1. t \in Tty /\ t.escState \in Nat /\ t.esc \in Line /\ t.line \in Line
  BY DEF Kept, Tty
<1>2. esc \in Line /\ t.line \o esc \in Line /\ x \in Line
  BY <1>1 DEF Line
<1>3. p.state \in Nat
  BY <1>1, ParseType
<1> HIDE DEF p, esc, x
<1>4. /\ u \in Tty /\ u.pending = t.pending /\ u.line = t.line /\ u.pos = t.pos
      /\ u.insert = t.insert /\ u.edit = t.edit /\ u.since = t.since
  BY <1>1, <1>2, <1>3 DEF Tty
<1>5. \/ EscapeKey(t, k) = u \/ EscapeKey(t, k) = fr \/ EscapeKey(t, k) = fl
      \/ EscapeKey(t, k) = SendInput(u, t.line \o esc, "escape")
  BY <1>4 DEF EscapeKey, p, esc, x
<1> HIDE DEF u
<1>6. u \in Kept
  BY <1>4, KeptSame
<1>7. fr \in Kept /\ fl \in Kept
  BY <1>4, <1>6, ArrowKept
<1>8. SendInput(u, t.line \o esc, "escape") \in Kept
  BY <1>2, <1>4, SendInputKept DEF Why
<1> HIDE DEF fr, fl
<1> QED BY <1>5, <1>6, <1>7, <1>8

LEMMA AheadKept ==
  ASSUME NEW t \in Kept, NEW k \in AnyKey
  PROVE  Ahead(t, k) \in Kept
<1> DEFINE u == IF t.ahead = <<>> /\ t.states THEN Say(t, InputState) ELSE t
           v == [u EXCEPT !.ahead = Append(@, k)]
<1>1. u \in Kept /\ u \in Tty
  BY SayKept, SaidIs DEF Kept
<1>2. Ahead(t, k) \in {u, v}
  BY DEF Ahead
<1> HIDE DEF u
<1>3. v \in Tty
  BY <1>1, WithLine
<1>4. /\ v.pending = u.pending /\ v.line = u.line /\ v.pos = u.pos /\ v.insert = u.insert
      /\ v.edit = u.edit /\ v.since = u.since
  BY <1>1 DEF Tty
<1> HIDE DEF v
<1>5. v \in Kept
  BY <1>1, <1>3, <1>4, KeptSame
<1> QED BY <1>1, <1>2, <1>5

LEMMA DiscardKept ==
  ASSUME NEW t \in Kept
  PROVE  Fed([t EXCEPT !.line = <<>>, !.pos = 0], "DISCARD") \in Kept
<1> DEFINE v == [t EXCEPT !.line = <<>>, !.pos = 0]
           e == Edited(t.since, t.edit)
           f == Fed(v, "DISCARD")
<1>1. t \in Tty /\ <<>> \in Line /\ "DISCARD" \in AnyKey \cup Moves /\ e \in Editor
  BY LineOf DEF Line, Moves
<1>2. /\ v \in Tty /\ v.line = <<>> /\ v.pos = 0 /\ v.insert = t.insert
      /\ v.since = t.since /\ v.edit = t.edit /\ v.pending = t.pending
  BY <1>1 DEF Tty
<1> HIDE DEF v, e
<1>3. v.line \in Line /\ v.pos \in Nat /\ v.insert \in BOOLEAN
  BY <1>2 DEF Tty
<1>4. IsFed(v, "DISCARD", f, <<>>, 0, t.insert)
  BY <1>1, <1>2, <1>3, FedIs
<1>5. IsFed(t, "DISCARD", f, <<>>, 0, t.insert)
  BY <1>2, <1>4 DEF IsFed
<1>6. EditKey(e, "DISCARD", t.edit) = Cleared(e)
  BY MovesIs
<1>7. t.pending => e.insert = t.insert
  BY LineOf DEF e
<1>8. Shows(<<>>, 0, Cleared(e)) /\ Cleared(e).insert = e.insert
  BY <1>1, ClearShown
<1> HIDE DEF f
<1>9. f \in Kept
  BY <1>1, <1>5, <1>6, <1>7, <1>8, IsFedKept DEF e
<1> QED BY <1>9 DEF f, v

\* tty_process_terminal, one character
LEMMA KeyKept ==
  ASSUME NEW t \in Kept, NEW key \in AnyKey \cup {Exit}
  PROVE  Key(t, key) \in Kept
<1> DEFINE k == Converted(t, key)
           u == Say(t, OutOfBand(k))
           v == [t EXCEPT !.esc = <<k>>]
           w == [t EXCEPT !.line = Append(@, k)]
           x == Fed([u EXCEPT !.line = <<>>, !.pos = 0], "DISCARD")
           y == [t EXCEPT !.finished = TRUE]
<1>1. t \in Tty
  BY DEF Kept
<1>2. CASE t.finished
  <2>1. Key(t, key) = t
    BY <1>2 DEF Key
  <2> QED BY <2>1
<1>3. CASE ~t.finished /\ key = Exit
  <2>1. Key(t, key) = y
    BY <1>3 DEF Key
  <2>2. /\ y \in Tty /\ y.pending = t.pending /\ y.line = t.line /\ y.pos = t.pos
        /\ y.insert = t.insert /\ y.edit = t.edit /\ y.since = t.since
    BY <1>1 DEF Tty
  <2> HIDE DEF y
  <2>3. y \in Kept
    BY <2>2, KeptSame
  <2> QED BY <2>1, <2>3
<1>4. CASE ~t.finished /\ key # Exit
  <2>1. k \in AnyKey
    BY <1>4 DEF Converted, AnyKey, ControlKeys
  <2>2. k \notin Plain \/ k \in Plain
    OBVIOUS
  <2>3. \/ Key(t, key) = u \/ Key(t, key) = x
        \/ Key(t, key) = Ahead(t, k)
        \/ Key(t, key) = v
        \/ Key(t, key) = SendInputBuffer(w, "terminator")
        \/ t.pending /\ Key(t, key) = EscapeKey(t, k)
        \/ t.pending /\ k \notin Plain /\ t.edit /\ Key(t, key) = ControlKey(Fed(t, k), k)
        \/ t.pending /\ (k \in Plain \/ ~t.edit) /\ Key(t, key) = TextKey(Fed(t, k), k)
    BY <1>4 DEF Key
  <2> HIDE DEF k
  <2>4. u \in Kept
    BY <2>1, SaidIs, SayKept
  <2>5. x \in Kept
    <3> HIDE DEF u
    <3> QED BY <2>4, DiscardKept
  <2>6. v \in Kept
    <3>1. v \in Tty
      BY <1>1, <2>1, WithLine
    <3>2. /\ v.pending = t.pending /\ v.line = t.line /\ v.pos = t.pos
          /\ v.insert = t.insert /\ v.edit = t.edit /\ v.since = t.since
      BY <1>1 DEF Tty
    <3> HIDE DEF v
    <3> QED BY <3>1, <3>2, KeptSame
  <2>7. SendInputBuffer(w, "terminator") \in Kept
    <3>1. w \in Tty /\ "terminator" \in Why
      BY <1>1, <2>1, WithLine DEF Why
    <3> HIDE DEF w
    <3> QED BY <3>1, SendInputBufferKept
  <2>8. Ahead(t, k) \in Kept
    BY <2>1, AheadKept
  <2>9. t.pending => EscapeKey(t, k) \in Kept
    BY <2>1, EscapeKept
  <2>10. t.pending /\ k \notin Plain /\ t.edit => ControlKey(Fed(t, k), k) \in Kept
    BY <2>1, ControlKept
  <2>11. t.pending /\ (k \in Plain \/ ~t.edit) => TextKey(Fed(t, k), k) \in Kept
    BY <2>1, TextKept
  <2> HIDE DEF u, v, w, x
  <2> QED BY <2>3, <2>4, <2>5, <2>6, <2>7, <2>8, <2>9, <2>10, <2>11
<1> QED BY <1>2, <1>3, <1>4

\* tty_process_terminal, all that is read
Typed(w, D, t, keys) ==
  /\ w \in [0..Len(keys) -> D] /\ w[0] = t
  /\ \A n \in 1..Len(keys) : w[n] = Key(w[n - 1], keys[n])
  /\ ProcessTerminal(t, keys) = w[Len(keys)]

LEMMA ProcessSteps ==
  ASSUME NEW D, NEW t \in D, NEW keys \in Seq(AnyKey),
         \A u \in D, k \in AnyKey : Key(u, k) \in D
  PROVE  \E w : Typed(w, D, t, keys)
<1> DEFINE L == Len(keys)
           f == [n \in 1..L |-> [u \in D |-> Key(u, keys[n])]]
<1>1. L \in Nat /\ \A n \in 1..L : keys[n] \in AnyKey
  OBVIOUS
<1>2. f \in [1..L -> [D -> D]]
  BY <1>1
<1>3. PICK w \in [0..L -> D] : w[0] = t /\ \A n \in 1..L : w[n] = f[n][w[n - 1]]
  <2> HIDE DEF f, L
  <2>1. \E w : Runs(w, D, L, f, t)
    BY ONLY <1>1, <1>2, t \in D, Recursion
  <2> QED BY ONLY <2>1 DEF Runs
<1>4. \A n \in 1..L : w[n] = Key(w[n - 1], keys[n])
  <2> SUFFICES ASSUME NEW n \in 1..L PROVE w[n] = Key(w[n - 1], keys[n])
    OBVIOUS
  <2>1. w[n - 1] \in D
    BY <1>1
  <2> QED BY <2>1, <1>3
<1> DEFINE Is(g) == g = [n \in 0..L |-> IF n = 0 THEN t ELSE Key(g[n - 1], keys[n])]
           after == CHOOSE g : Is(g)
<1>5. Is(w)
  <2>1. w = [n \in 0..L |-> w[n]]
    OBVIOUS
  <2>2. \A n \in 0..L : n = 0 \/ n \in 1..L
    BY <1>1
  <2> QED BY <2>1, <2>2, <1>3, <1>4
<1>6. Is(after)
  <2> HIDE DEF Is
  <2> QED BY <1>5
<1>7. after[0] = w[0] /\ \A n \in 1..L : after[n] = Key(after[n - 1], keys[n])
  <2> HIDE DEF after
  <2>1. 0 \in 0..L /\ \A n \in 1..L : n \in 0..L /\ n # 0
    BY <1>1
  <2> QED BY <1>3, <1>6, <2>1
<1>8. after[L] = w[L]
  <2>1. after[0] = w[0] /\ \A n \in 1..L : after[n - 1] = w[n - 1] => after[n] = w[n]
    BY <1>4, <1>7
  <2> HIDE DEF after, L
  <2> QED BY ONLY <1>1, <2>1, Agree
<1>9. ProcessTerminal(t, keys) = after[L]
  BY DEF ProcessTerminal
<1>10. Typed(w, D, t, keys)
  BY <1>3, <1>4, <1>8, <1>9 DEF Typed
<1> QED BY <1>10

LEMMA ProcessKept ==
  ASSUME NEW t \in Kept, NEW keys \in Seq(AnyKey)
  PROVE  ProcessTerminal(t, keys) \in Kept
<1>1. \A u \in Kept, k \in AnyKey : Key(u, k) \in Kept
  BY KeyKept
<1>2. PICK w \in [0..Len(keys) -> Kept] : ProcessTerminal(t, keys) = w[Len(keys)]
  BY <1>1, ProcessSteps DEF Typed
<1>3. Len(keys) \in 0..Len(keys)
  OBVIOUS
<1> QED BY <1>2, <1>3

-----------------------------------------------------------------------------
(* The link of a terminal, on which each end writes messages of its own *)
EndOf(M) == [up : BOOLEAN, open : BOOLEAN, queue : Seq(M)]
LinkOf(C, S) == [client : EndOf(C), server : EndOf(S)]

LEMMA EndsOf ==
  ASSUME NEW C, NEW S, NEW k \in LinkOf(C, S)
  PROVE  /\ k["client"].queue \in Seq(C) /\ k["server"].queue \in Seq(S)
         /\ \A e \in Ends : k[e].up \in BOOLEAN /\ k[e].open \in BOOLEAN
BY DEF LinkOf, EndOf, Ends

LEMMA LinkPut ==
  ASSUME NEW C, NEW S, NEW k \in LinkOf(C, S)
  PROVE  /\ \A ms \in Seq(S) :
              /\ PutAll(k, "client", ms) \in LinkOf(C, S)
              /\ PutAll(k, "client", ms)["client"] = k["client"]
              /\ PutAll(k, "client", ms)["server"].up = k["server"].up
              /\ PutAll(k, "client", ms)["server"].queue =
                   IF k["client"].up /\ k["server"].up THEN k["server"].queue \o ms
                   ELSE k["server"].queue
         /\ \A ms \in Seq(C) :
              /\ PutAll(k, "server", ms) \in LinkOf(C, S)
              /\ PutAll(k, "server", ms)["server"] = k["server"]
              /\ PutAll(k, "server", ms)["client"].up = k["client"].up
<1>1. ASSUME NEW ms \in Seq(S)
      PROVE  /\ PutAll(k, "client", ms) \in LinkOf(C, S)
             /\ PutAll(k, "client", ms)["client"] = k["client"]
             /\ PutAll(k, "client", ms)["server"].up = k["server"].up
             /\ PutAll(k, "client", ms)["server"].queue =
                  IF k["client"].up /\ k["server"].up THEN k["server"].queue \o ms
                  ELSE k["server"].queue
  <2> DEFINE q == k["server"].queue \o ms
             j == [k EXCEPT !["server"].queue = q]
  <2>1. q \in Seq(S)
    BY EndsOf
  <2>2. PutAll(k, "client", ms) = IF k["client"].up /\ k["server"].up THEN j ELSE k
    BY DEF PutAll, FarOf
  <2> HIDE DEF q
  <2>3. /\ j \in LinkOf(C, S) /\ j["client"] = k["client"] /\ j["server"].up = k["server"].up
        /\ j["server"].queue = q
    BY <2>1 DEF LinkOf, EndOf
  <2> HIDE DEF j
  <2> QED BY <2>2, <2>3 DEF q
<1>2. ASSUME NEW ms \in Seq(C)
      PROVE  /\ PutAll(k, "server", ms) \in LinkOf(C, S)
             /\ PutAll(k, "server", ms)["server"] = k["server"]
             /\ PutAll(k, "server", ms)["client"].up = k["client"].up
  <2> DEFINE q == k["client"].queue \o ms
             j == [k EXCEPT !["client"].queue = q]
  <2>1. q \in Seq(C)
    BY EndsOf
  <2>2. PutAll(k, "server", ms) = IF k["server"].up /\ k["client"].up THEN j ELSE k
    BY DEF PutAll, FarOf
  <2> HIDE DEF q
  <2>3. j \in LinkOf(C, S) /\ j["server"] = k["server"] /\ j["client"].up = k["client"].up
    BY <2>1 DEF LinkOf, EndOf
  <2> HIDE DEF j
  <2> QED BY <2>2, <2>3
<1> QED BY <1>1, <1>2

LEMMA LinkTaken ==
  ASSUME NEW C, NEW S, NEW k \in LinkOf(C, S), NEW e \in Ends, Waiting(k, e)
  PROVE  /\ Taken(k, e) \in LinkOf(C, S)
         /\ Taken(k, e)[FarOf(e)] = k[FarOf(e)] /\ Taken(k, e)[e].up = k[e].up
         /\ Taken(k, e)[e].queue = Tail(k[e].queue)
         /\ e = "client" => Foremost(k, e) \in C
         /\ e = "server" => Foremost(k, e) \in S
<1> DEFINE q == Tail(k[e].queue)
<1>1. /\ e = "client" => q \in Seq(C) /\ Foremost(k, e) \in C
      /\ e = "server" => q \in Seq(S) /\ Foremost(k, e) \in S
  BY EndsOf DEF Waiting, Foremost
<1> HIDE DEF q
<1>2. Taken(k, e) = [k EXCEPT ![e].queue = q]
  BY DEF Taken, q
<1>3. /\ Taken(k, e) \in LinkOf(C, S)
      /\ Taken(k, e)[FarOf(e)] = k[FarOf(e)] /\ Taken(k, e)[e].up = k[e].up
      /\ Taken(k, e)[e].queue = q
  <2>1. CASE e = "client"
    <3> DEFINE j == [k EXCEPT !["client"].queue = q]
    <3>1. q \in Seq(C) /\ Taken(k, e) = j /\ FarOf(e) = "server"
      BY <2>1, <1>1, <1>2 DEF FarOf
    <3>2. /\ j \in LinkOf(C, S) /\ j["server"] = k["server"]
          /\ j["client"].up = k["client"].up /\ j["client"].queue = q
      BY <3>1 DEF LinkOf, EndOf
    <3> HIDE DEF j
    <3> QED BY ONLY <2>1, <3>1, <3>2
  <2>2. CASE e = "server"
    <3> DEFINE j == [k EXCEPT !["server"].queue = q]
    <3>1. q \in Seq(S) /\ Taken(k, e) = j /\ FarOf(e) = "client"
      BY <2>2, <1>1, <1>2 DEF FarOf
    <3>2. /\ j \in LinkOf(C, S) /\ j["client"] = k["client"]
          /\ j["server"].up = k["server"].up /\ j["server"].queue = q
      BY <3>1 DEF LinkOf, EndOf
    <3> HIDE DEF j
    <3> QED BY ONLY <2>2, <3>1, <3>2
  <2> QED BY <2>1, <2>2 DEF Ends
<1> QED BY <1>1, <1>3 DEF q

LEMMA LinkShut ==
  ASSUME NEW C, NEW S, NEW k \in LinkOf(C, S), NEW e \in Ends
  PROVE  /\ Shut(k, e) \in LinkOf(C, S) /\ Shut(k, e)[FarOf(e)] = k[FarOf(e)] /\ ~Shut(k, e)[e].up
         /\ Cut(k, e) \in LinkOf(C, S) /\ Cut(k, e)[FarOf(e)] = k[FarOf(e)] /\ ~Cut(k, e)[e].up
<1>1. <<>> \in Seq(C) /\ <<>> \in Seq(S)
  OBVIOUS
<1>2. /\ Shut(k, e) \in LinkOf(C, S) /\ Shut(k, e)[FarOf(e)] = k[FarOf(e)] /\ ~Shut(k, e)[e].up
  BY <1>1 DEF Shut, ShutEnd, FarOf, Ends, LinkOf, EndOf
<1>3. /\ Cut(k, e) \in LinkOf(C, S) /\ Cut(k, e)[FarOf(e)] = k[FarOf(e)] /\ ~Cut(k, e)[e].up
  BY <1>1 DEF Cut, FarOf, Ends, LinkOf, EndOf
<1> QED BY <1>2, <1>3

-----------------------------------------------------------------------------
(* What a host says, and what the terminal does with it *)
ReadOf ==
  [t : {"START_READ"}, clear : BOOLEAN, terms : SUBSET AnyKey, recognize : {"host", "yes", "no"},
   edit : BOOLEAN, max : Nat, timed : BOOLEAN, line : Line]
CharOf ==
  [t : {"CHARACTERISTICS"}, oob : SUBSET AnyKey, flush : SUBSET AnyKey, escapes : BOOLEAN,
   states : BOOLEAN]
FromHost == ReadOf \cup CharOf \cup [t : {"WRITE"}, complete : BOOLEAN]
            \cup {Bind, EnterMode, Initiate, Unbind, Unread, CheckInput}

LEMMA HostSaysIs ==
  /\ Reads \subseteq ReadOf /\ CtermRead \in ReadOf /\ SetChar \in CharOf
  /\ Characteristics({"^C"}, {"^C"}, TRUE, FALSE) \in CharOf
  /\ Write \in FromHost /\ [Write EXCEPT !.complete = TRUE] \in FromHost
  /\ {Bind, EnterMode, Initiate, Unbind, Unread, CheckInput} \subseteq FromHost
  /\ ReadOf \subseteq FromHost /\ CharOf \subseteq FromHost
<1>1. Reads \subseteq ReadOf
  BY ReadsAssumption DEF ReadOf, Line
<1>2. CtermRead \in ReadOf
  <2>1. <<>> \in Line
    BY DEF Line
  <2> QED BY <2>1 DEF CtermRead, StartRead, ReadOf
<1>3. SetChar \in CharOf
  BY DEF SetChar, Characteristics, CharOf
<1>4. Characteristics({"^C"}, {"^C"}, TRUE, FALSE) \in CharOf
  BY DEF Characteristics, CharOf, AnyKey, ControlKeys
<1>5. Write \in FromHost /\ [Write EXCEPT !.complete = TRUE] \in FromHost
  BY DEF Write, FromHost
<1> QED BY <1>1, <1>2, <1>3, <1>4, <1>5 DEF FromHost

\* cterm_process_start_read up to where the typeahead is typed
Beginning(t, m) ==
  [t EXCEPT !.terms = IF m.terms = {} THEN @ ELSE m.terms,
            !.recognize = IF m.recognize = "host" THEN t.escapes ELSE m.recognize = "yes",
            !.edit = m.edit, !.max = m.max, !.timed = m.timed,
            !.line = m.line, !.pos = Len(m.line), !.pending = TRUE, !.ahead = <<>>,
            !.since = [line |-> m.line, insert |-> t.insert, keys |-> <<>>]]

LEMMA BeginningIs ==
  ASSUME NEW t \in Tty, NEW m \in ReadOf
  PROVE  /\ Beginning(t, m) \in Tty
         /\ Beginning(t, m).edit = m.edit /\ Beginning(t, m).line = m.line
         /\ Beginning(t, m).pos = Len(m.line) /\ Beginning(t, m).insert = t.insert
         /\ Beginning(t, m).since = [line |-> m.line, insert |-> t.insert, keys |-> <<>>]
         /\ Beginning(t, m).terms = (IF m.terms = {} THEN t.terms ELSE m.terms)
         /\ Beginning(t, m).pending /\ Beginning(t, m).ahead = <<>>
         /\ Beginning(t, m).timed = m.timed /\ Beginning(t, m).esc = t.esc
         /\ Beginning(t, m).oob = t.oob /\ Beginning(t, m).out = t.out
         /\ Beginning(t, m).finished = t.finished
<1> DEFINE terms == IF m.terms = {} THEN t.terms ELSE m.terms
           rec == IF m.recognize = "host" THEN t.escapes ELSE m.recognize = "yes"
           p == Len(m.line)
           s == [line |-> m.line, insert |-> t.insert, keys |-> <<>>]
<1>1. terms \in SUBSET AnyKey
  BY DEF Tty, ReadOf
<1>2. rec \in BOOLEAN
  BY DEF Tty
<1>3. p \in Nat /\ <<>> \in Line
  BY DEF ReadOf, Line
<1>4. s \in Since
  <2>1. <<>> \in Seq(AnyKey \cup Moves)
    OBVIOUS
  <2> QED BY <2>1 DEF Since, Tty, ReadOf
<1>5. m.edit \in BOOLEAN /\ m.max \in Nat /\ m.timed \in BOOLEAN /\ m.line \in Line
  BY DEF ReadOf
<1> HIDE DEF terms, rec, p, s
<1>6. Beginning(t, m) =
        [t EXCEPT !.terms = terms, !.recognize = rec, !.edit = m.edit, !.max = m.max,
                  !.timed = m.timed, !.line = m.line, !.pos = p, !.pending = TRUE,
                  !.ahead = <<>>, !.since = s]
  BY DEF Beginning, terms, rec, p, s
<1>7. Beginning(t, m) \in Tty
  BY <1>1, <1>2, <1>3, <1>4, <1>5, <1>6 DEF Tty
<1>8. /\ Beginning(t, m).edit = m.edit /\ Beginning(t, m).line = m.line
      /\ Beginning(t, m).pos = p /\ Beginning(t, m).insert = t.insert
      /\ Beginning(t, m).since = s /\ Beginning(t, m).terms = terms
      /\ Beginning(t, m).pending /\ Beginning(t, m).ahead = <<>>
      /\ Beginning(t, m).timed = m.timed /\ Beginning(t, m).esc = t.esc
      /\ Beginning(t, m).oob = t.oob /\ Beginning(t, m).out = t.out
      /\ Beginning(t, m).finished = t.finished
  BY <1>6 DEF Tty
<1> QED BY <1>7, <1>8 DEF terms, p, s

LEMMA BeginReadKept ==
  ASSUME NEW t \in Tty, NEW m \in ReadOf
  PROVE  BeginRead(t, m) \in Kept
<1> DEFINE u == Beginning(t, m)
           keys == IF m.clear THEN <<>> ELSE t.ahead
<1>1. /\ u \in Tty /\ u.edit = m.edit /\ u.line = m.line /\ u.pos = Len(m.line)
      /\ u.insert = t.insert /\ u.since = [line |-> m.line, insert |-> t.insert, keys |-> <<>>]
  BY BeginningIs
<1>2. keys \in Seq(AnyKey)
  BY DEF Tty, Line
<1>3. BeginRead(t, m) = ProcessTerminal(u, keys)
  BY DEF BeginRead, Beginning
<1> HIDE DEF u, keys
<1>4. u.since \in Since /\ u.edit \in BOOLEAN /\ u.since.keys = <<>> /\ u.since.line = m.line
      /\ u.since.insert = t.insert /\ m.line \in Line
  BY <1>1 DEF Tty, ReadOf
<1>5. Edited(u.since, u.edit) = Began(u.since)
  BY <1>4, EditedBegin
<1>6. Began(u.since) = [before |-> m.line, after |-> <<>>, insert |-> t.insert]
  BY <1>4 DEF Began
<1>7. Shows(u.line, u.pos, Began(u.since)) /\ Began(u.since).insert = u.insert
  <2>1. m.line \o <<>> = m.line
    BY <1>4 DEF Line
  <2> DEFINE b == Began(u.since)
  <2>2. b.before = m.line /\ b.after = <<>> /\ b.insert = t.insert
    BY <1>6
  <2> HIDE DEF b
  <2>3. u.line = b.before \o b.after /\ u.pos = Len(b.before) /\ b.insert = u.insert
    BY ONLY <1>1, <2>1, <2>2
  <2> QED BY <2>3 DEF Shows, b
<1>8. u \in Kept
  BY <1>1, <1>5, <1>7 DEF Kept, InStep
<1> QED BY <1>2, <1>3, <1>8, ProcessKept

LEMMA ReceiveKept ==
  ASSUME NEW t \in Kept, NEW m \in FromHost
  PROVE  Receive(t, m) \in Kept
<1> DEFINE c == [t EXCEPT !.oob = m.oob, !.flush = m.flush, !.escapes = m.escapes,
                          !.states = m.states, !.recognize = m.escapes]
           f == [t EXCEPT !.finished = TRUE]
           n == Len(t.line) + Len(t.ahead)
<1>1. t \in Tty
  BY DEF Kept
<1>2. CASE m \in ReadOf
  <2>1. Receive(t, m) = BeginRead(t, m)
    BY <1>2 DEF Receive, ReadOf
  <2> QED BY <1>1, <1>2, <2>1, BeginReadKept
<1>3. CASE m \in CharOf
  <2>1. Receive(t, m) = c
    BY <1>3 DEF Receive, CharOf
  <2>2. /\ c \in Tty /\ c.pending = t.pending /\ c.line = t.line /\ c.pos = t.pos
        /\ c.insert = t.insert /\ c.edit = t.edit /\ c.since = t.since
    BY <1>1, <1>3 DEF Tty, CharOf
  <2> HIDE DEF c
  <2>3. c \in Kept
    BY <2>2, KeptSame
  <2> QED BY <2>1, <2>3
<1>4. CASE m \in [t : {"WRITE"}, complete : BOOLEAN]
  <2>1. Receive(t, m) \in {Say(t, WriteComplete), t}
    BY <1>4 DEF Receive
  <2> QED BY <2>1, SaidIs, SayKept
<1>5. CASE m \in {Bind, EnterMode, Initiate}
  <2>1. m = Bind => Receive(t, m) = Say(t, BindAccept)
    BY DEF Receive, Bind
  <2>2. m = EnterMode => Receive(t, m) = Say(t, NoMode)
    BY DEF Receive, EnterMode
  <2>3. m = Initiate => Receive(t, m) = Say(t, Initiate)
    BY DEF Receive, Initiate
  <2> QED BY <1>5, <2>1, <2>2, <2>3, SaidIs, SayKept
<1>6. CASE m = Unbind
  <2>1. Receive(t, m) = f
    BY <1>6 DEF Receive, Unbind
  <2>2. /\ f \in Tty /\ f.pending = t.pending /\ f.line = t.line /\ f.pos = t.pos
        /\ f.insert = t.insert /\ f.edit = t.edit /\ f.since = t.since
    BY <1>1 DEF Tty
  <2> HIDE DEF f
  <2>3. f \in Kept
    BY <2>2, KeptSame
  <2> QED BY <2>1, <2>3
<1>7. CASE m = Unread
  <2>1. Receive(t, m) = SendInputBuffer(t, "unread") /\ "unread" \in Why
    BY <1>7 DEF Receive, Unread, Why
  <2> QED BY <1>1, <2>1, SendInputBufferKept
<1>8. CASE m = CheckInput
  <2>1. Receive(t, m) = Say(t, InputCount(n))
    BY <1>8 DEF Receive, CheckInput
  <2>2. n \in Nat
    BY <1>1 DEF Tty, Line
  <2> HIDE DEF n
  <2> QED BY <2>1, <2>2, SaidIs, SayKept
<1> QED BY <1>2, <1>3, <1>4, <1>5, <1>6, <1>7, <1>8 DEF FromHost

LEMMA TimeoutKept ==
  ASSUME NEW t \in Tty PROVE Timeout(t) \in Kept
<1> DEFINE s == SendInputBuffer(t, "timeout")
           u == [s EXCEPT !.timed = FALSE]
<1>1. s \in Kept /\ ~s.pending
  BY SendInputBufferKept DEF Why
<1>2. s \in Tty
  BY <1>1 DEF Kept
<1> HIDE DEF s
<1>3. u \in Tty /\ ~u.pending
  BY <1>1, <1>2 DEF Tty
<1>4. Timeout(t) = u
  BY DEF Timeout, s
<1> HIDE DEF u
<1> QED BY <1>3, <1>4, KeptIdle

-----------------------------------------------------------------------------
(* Every step of a session keeps the line in step. *)
TermOK == tty \in Kept /\ typist.keys \in Seq(AnyKey \cup {Exit}) /\ wire \in LinkOf(FromHost, Said)

LEMMA Emptied ==
  ASSUME NEW t \in Kept
  PROVE  [t EXCEPT !.out = <<>>] \in Kept /\ t.out \in Seq(Said)
<1> DEFINE u == [t EXCEPT !.out = <<>>]
<1>1. t \in Tty /\ <<>> \in Seq(Said)
  BY DEF Kept
<1>2. /\ u \in Tty /\ u.pending = t.pending /\ u.line = t.line /\ u.pos = t.pos
      /\ u.insert = t.insert /\ u.edit = t.edit /\ u.since = t.since
  BY <1>1 DEF Tty
<1>3. t.out \in Seq(Said)
  BY <1>1 DEF Tty
<1> HIDE DEF u
<1>4. u \in Kept
  BY <1>2, KeptSame
<1> QED BY <1>3, <1>4 DEF u

LEMMA BecomesOK ==
  ASSUME NEW t \in Kept, NEW k \in LinkOf(FromHost, Said), Becomes(t, k)
  PROVE  tty' \in Kept /\ wire' \in LinkOf(FromHost, Said) /\ host' = host
<1> DEFINE sent == PutAll(k, "client", t.out)
<1>1. tty' = [t EXCEPT !.out = <<>>] /\ host' = host
  BY DEF Becomes
<1>2. tty' \in Kept /\ t.out \in Seq(Said)
  BY <1>1, Emptied
<1>3. sent \in LinkOf(FromHost, Said)
  BY <1>2, LinkPut
<1>4. wire' = IF t.finished THEN Shut(sent, "client") ELSE sent
  BY DEF Becomes
<1> HIDE DEF sent
<1>5. Shut(sent, "client") \in LinkOf(FromHost, Said)
  BY <1>3, LinkShut DEF Ends
<1> QED BY <1>1, <1>2, <1>3, <1>4, <1>5

LEMMA TypeOK == ASSUME TermOK, Type PROVE TermOK'
<1> DEFINE k == Head(typist.keys)
<1>1. /\ tty \in Kept /\ wire \in LinkOf(FromHost, Said)
      /\ k \in AnyKey \cup {Exit} /\ Tail(typist.keys) \in Seq(AnyKey \cup {Exit})
  BY DEF TermOK, Type
<1>2. Becomes(Key(tty, k), wire) /\ typist'.keys = Tail(typist.keys)
  BY DEF Type
<1> HIDE DEF k
<1>3. Key(tty, k) \in Kept
  BY <1>1, KeyKept
<1>4. tty' \in Kept /\ wire' \in LinkOf(FromHost, Said)
  BY ONLY <1>1, <1>2, <1>3, BecomesOK
<1> QED BY <1>1, <1>2, <1>4 DEF TermOK

LEMMA FoundReadOK == ASSUME TermOK, FoundRead PROVE TermOK'
<1> DEFINE m == Foremost(wire, "client")
           k == Taken(wire, "client")
<1>1. /\ tty \in Kept /\ wire \in LinkOf(FromHost, Said) /\ "client" \in Ends
      /\ Waiting(wire, "client") /\ Becomes(Receive(tty, m), k) /\ typist' = typist
  BY DEF TermOK, FoundRead, Ends
<1>2. m \in FromHost /\ k \in LinkOf(FromHost, Said)
  BY <1>1, LinkTaken
<1> HIDE DEF m, k
<1>3. Receive(tty, m) \in Kept
  BY <1>1, <1>2, ReceiveKept
<1>4. tty' \in Kept /\ wire' \in LinkOf(FromHost, Said)
  BY ONLY <1>1, <1>2, <1>3, BecomesOK
<1> QED BY <1>1, <1>4 DEF TermOK

LEMMA LinkGoneOK == ASSUME TermOK, LinkGone PROVE TermOK'
<1> DEFINE u == [tty EXCEPT !.finished = TRUE]
<1>1. /\ tty \in Kept /\ wire \in LinkOf(FromHost, Said) /\ Becomes(u, wire) /\ typist' = typist
  BY DEF TermOK, LinkGone
<1>2. tty \in Tty
  BY <1>1 DEF Kept
<1>3. /\ u \in Tty /\ u.pending = tty.pending /\ u.line = tty.line /\ u.pos = tty.pos
      /\ u.insert = tty.insert /\ u.edit = tty.edit /\ u.since = tty.since
  BY <1>2 DEF Tty
<1> HIDE DEF u
<1>4. u \in Kept
  BY <1>1, <1>3, KeptSame
<1>5. tty' \in Kept /\ wire' \in LinkOf(FromHost, Said)
  BY ONLY <1>1, <1>4, BecomesOK
<1> QED BY <1>1, <1>5 DEF TermOK

LEMMA TimedOutOK == ASSUME TermOK, TimedOut PROVE TermOK'
<1>1. /\ tty \in Kept /\ wire \in LinkOf(FromHost, Said) /\ Becomes(Timeout(tty), wire)
      /\ typist' = typist
  BY DEF TermOK, TimedOut
<1>2. Timeout(tty) \in Kept
  BY <1>1, TimeoutKept DEF Kept
<1>3. tty' \in Kept /\ wire' \in LinkOf(FromHost, Said)
  BY ONLY <1>1, <1>2, BecomesOK
<1> QED BY <1>1, <1>3 DEF TermOK

\* A host writes, after it may have read a message, or ends.
LEMMA HostWrites ==
  ASSUME NEW k \in LinkOf(FromHost, Said), NEW ms \in Seq(FromHost)
  PROVE  /\ PutAll(k, "server", ms) \in LinkOf(FromHost, Said)
         /\ Shut(k, "server") \in LinkOf(FromHost, Said)
         /\ Waiting(k, "server") => Taken(k, "server") \in LinkOf(FromHost, Said)
BY LinkPut, LinkShut, LinkTaken DEF Ends

LEMMA HostStepOK == ASSUME TermOK, HostStep PROVE TermOK'
<1> DEFINE L == LinkOf(FromHost, Said)
           rest == Taken(wire, "server")
<1>1. wire \in L /\ (Waiting(wire, "server") => rest \in L)
  <2>1. <<>> \in Seq(FromHost)
    OBVIOUS
  <2> QED BY <2>1, HostWrites DEF TermOK
<1>2. /\ <<Bind>> \in Seq(FromHost) /\ <<Initiate>> \in Seq(FromHost) /\ <<Write>> \in Seq(FromHost)
      /\ <<SetChar, Write, CtermRead>> \in Seq(FromHost) /\ <<CtermRead>> \in Seq(FromHost)
      /\ <<EnterMode, Initiate>> \in Seq(FromHost) /\ <<Unbind>> \in Seq(FromHost)
      /\ <<Characteristics({"^C"}, {"^C"}, TRUE, FALSE)>> \in Seq(FromHost)
      /\ \A m \in Reads : <<m>> \in Seq(FromHost)
      /\ \A m \in {[Write EXCEPT !.complete = TRUE], CheckInput, Unread} : <<m>> \in Seq(FromHost)
  <2>1. /\ {Bind, EnterMode, Initiate, Unbind, Unread, CheckInput} \subseteq FromHost
        /\ CtermRead \in FromHost /\ SetChar \in FromHost /\ Reads \subseteq FromHost
        /\ Characteristics({"^C"}, {"^C"}, TRUE, FALSE) \in FromHost
        /\ Write \in FromHost /\ [Write EXCEPT !.complete = TRUE] \in FromHost
    BY HostSaysIs
  <2>2. \A m \in FromHost : <<m>> \in Seq(FromHost)
    OBVIOUS
  <2>3. \A m, n \in FromHost : <<m, n>> \in Seq(FromHost)
    OBVIOUS
  <2>4. \A m, n, o \in FromHost : <<m, n, o>> \in Seq(FromHost)
    OBVIOUS
  <2> QED BY <2>1, <2>2, <2>3, <2>4
<1>3. ASSUME NEW k \in L, NEW ms \in Seq(FromHost)
      PROVE  PutAll(k, "server", ms) \in L /\ Shut(k, "server") \in L
  BY HostWrites
<1> HIDE DEF L, rest
<1>4. tty' = tty /\ typist' = typist
  BY DEF HostStep, HostIs, CtermBind, CtermBound, CtermStarted, CtermOutput, CtermInput, CtermReset,
         VmsInput, VmsAsk, VmsTalk
<1>5. wire' \in L
  <2>1. CASE CtermBind
    BY <2>1, <1>1, <1>2, <1>3 DEF CtermBind, HostSays
  <2>2. CASE CtermBound
    BY <2>2, <1>1, <1>2, <1>3 DEF CtermBound, HostSays, rest
  <2>3. CASE CtermStarted
    BY <2>3, <1>1, <1>2, <1>3 DEF CtermStarted, HostSays, Put, rest
  <2>4. CASE CtermOutput
    BY <2>4, <1>1, <1>2, <1>3 DEF CtermOutput, HostSays
  <2>5. CASE CtermInput
    BY <2>5, <1>1, <1>2, <1>3 DEF CtermInput, HostSays, NextRead, rest
  <2>6. CASE CtermReset
    BY <2>6, <1>1, <1>2, <1>3 DEF CtermReset, Put
  <2>7. CASE VmsInput
    BY <2>7, <1>1, <1>2, <1>3 DEF VmsInput, HostSays, rest
  <2>8. CASE VmsAsk
    BY <2>8, <1>1, <1>2, <1>3 DEF VmsAsk, HostSays
  <2>9. CASE VmsTalk
    BY <2>9, <1>1, <1>2, <1>3 DEF VmsTalk, HostSays
  <2> QED BY <2>1, <2>2, <2>3, <2>4, <2>5, <2>6, <2>7, <2>8, <2>9 DEF HostStep
<1> QED BY <1>4, <1>5 DEF TermOK, L

LEMMA TermStep == ASSUME TermOK, TermNext PROVE TermOK'
<1>1. CASE TtyStep
  BY <1>1, TypeOK, FoundReadOK, LinkGoneOK, TimedOutOK DEF TtyStep
<1>2. CASE TermLink
  <2>1. PICK e \in Ends : wire' = Cut(wire, e) /\ UNCHANGED <<tty, typist>>
    BY <1>2 DEF TermLink, LinkCut
  <2>2. wire' \in LinkOf(FromHost, Said)
    BY <2>1, LinkShut DEF TermOK
  <2> QED BY <2>1, <2>2 DEF TermOK
<1> QED BY <1>1, <1>2, HostStepOK DEF TermNext

LEMMA NewKept ==
  /\ NewTerminal \in Kept /\ [NewTerminal EXCEPT !.finished = TRUE] \in Kept
  /\ OpenLink \in LinkOf(FromHost, Said)
<1>1. <<>> \in Line /\ <<>> \in Seq(Said) /\ <<>> \in Seq(AnyKey \cup Moves) /\ <<>> \in Seq(FromHost)
  BY DEF Line
<1>2. [line |-> <<>>, insert |-> FALSE, keys |-> <<>>] \in Since
  BY <1>1 DEF Since
<1>3. NewTerminal \in Tty
  <2> DEFINE s == [line |-> <<>>, insert |-> FALSE, keys |-> <<>>]
             z == <<>>
             n == [pending |-> FALSE, ahead |-> z, line |-> z, pos |-> 0,
                   esc |-> z, escState |-> 0, terms |-> {}, recognize |-> FALSE, edit |-> FALSE,
                   insert |-> FALSE, max |-> 1024, timed |-> FALSE,
                   escapes |-> TRUE, states |-> TRUE, oob |-> {}, flush |-> {}, out |-> z,
                   finished |-> FALSE, since |-> s]
  <2>1. NewTerminal = n
    BY DEF NewTerminal
  <2>2. z \in Line /\ z \in Seq(Said) /\ s \in Since
    BY <1>1, <1>2
  <2> HIDE DEF s, z
  <2>3. n \in Tty
    BY <2>2 DEF Tty
  <2> QED BY <2>1, <2>3
<1>4. [NewTerminal EXCEPT !.finished = TRUE] \in Tty
  <2> HIDE DEF NewTerminal
  <2> QED BY <1>3 DEF Tty
<1>5. ~NewTerminal.pending /\ ~[NewTerminal EXCEPT !.finished = TRUE].pending
  BY DEF NewTerminal
<1>6. OpenLink \in LinkOf(FromHost, Said)
  BY <1>1 DEF OpenLink, OpenEnd, LinkOf, EndOf
<1> HIDE DEF NewTerminal
<1> QED BY <1>3, <1>4, <1>5, <1>6, KeptIdle

TermScene == IF scene = "terminal" THEN TermOK ELSE tty \in Kept

(***************************************************************************)
(* The line of a read is what the keys typed for it make of it, for all    *)
(* hosts, reads and keys, at every step: input_buf, input_len and          *)
(* input_pos stay in step (tty_process_terminal, tty_start_read,           *)
(* cterm_process_network).                                                 *)
(***************************************************************************)
THEOREM LinesKept == Spec => []LineAsEdited
<1>1. Init => TermScene
  <2> SUFFICES ASSUME Init PROVE TermScene
    OBVIOUS
  <2>1. CASE scene = "terminal"
    <3>1. wire = OpenLink /\ \E s \in Sessions : TermBegin(s)
      BY <2>1 DEF Init
    <3>2. tty = NewTerminal /\ typist.keys \in Seq(AnyKey \cup {Exit})
      BY <3>1, SessionsAssumption DEF TermBegin
    <3> QED BY <2>1, <3>1, <3>2, NewKept DEF TermScene, TermOK
  <2>2. CASE scene # "terminal"
    <3>1. tty = [NewTerminal EXCEPT !.finished = TRUE]
      BY <2>2 DEF Init, TermIdle
    <3> QED BY <2>2, <3>1, NewKept DEF TermScene
  <2> QED BY <2>1, <2>2
<1>2. TermScene /\ [Next]_vars => TermScene'
  <2> SUFFICES ASSUME TermScene, [Next]_vars PROVE TermScene'
    OBVIOUS
  <2>1. ASSUME scene = "terminal", TermNext, scene' = scene PROVE TermScene'
    BY <2>1, TermStep DEF TermScene
  <2>2. ASSUME scene # "terminal", UNCHANGED termOwn, scene' = scene PROVE TermScene'
    BY <2>2 DEF TermScene, termOwn
  <2>3. ASSUME UNCHANGED vars PROVE TermScene'
    <3>1. scene' = scene /\ wire' = wire /\ tty' = tty /\ typist' = typist
      BY <2>3 DEF vars, termOwn
    <3> QED BY <3>1 DEF TermScene, TermOK
  <2> QED BY <2>1, <2>2, <2>3 DEF Next
<1>3. TermScene => LineAsEdited
  <2>1. tty \in Kept => LineAsEdited
    BY DEF Kept, InStep, Shows, LineAsEdited
  <2> QED BY <2>1 DEF TermScene, TermOK
<1> QED BY <1>1, <1>2, <1>3, PTL DEF Spec

-----------------------------------------------------------------------------
(***************************************************************************)
(* Keys in order.  What login has been given, what is on its way and what  *)
(* dnlogin holds are, one after the other, the keys that were typed.       *)
(***************************************************************************)
\* A set of sequences that has the empty one and is kept by Append has them all.
LEMMA SeqUp ==
  ASSUME NEW M, NEW T \in SUBSET Seq(M), <<>> \in T, \A s \in T, x \in M : Append(s, x) \in T
  PROVE  T = Seq(M)
<1> DEFINE N == {n \in Nat : \A s \in Seq(M) : Len(s) = n => s \in T}
<1>1. N \in SUBSET Nat /\ 0 \in N
  <2>1. \A s \in Seq(M) : Len(s) = 0 => s = <<>>
    OBVIOUS
  <2> QED BY <2>1
<1>2. ASSUME NEW n \in N PROVE n + 1 \in N
  <2> SUFFICES ASSUME NEW s \in Seq(M), Len(s) = n + 1 PROVE s \in T
    OBVIOUS
  <2>1. s # <<>> /\ n \in Nat
    OBVIOUS
  <2>2. PICK r \in Seq(M), x \in M : s = Append(r, x)
    BY <2>1, SequenceEmptyOrAppend
  <2>3. Len(r) = n
    BY <2>1, <2>2
  <2>4. r \in T
    BY <2>3
  <2> QED BY <2>2, <2>4
<1>3. N = Nat
  <2> HIDE DEF N
  <2> QED BY <1>1, <1>2, NatUp
<1>4. \A s \in Seq(M) : Len(s) \in N
  BY <1>3
<1> QED BY <1>4

\* Keys that dnlogin holds or has sent: a line feed and an interrupt are converted.
Clean == AnyKey \ {"LF", "^C"}
Keys == Seq(Clean)
Presser == [keys : Line, half : BOOLEAN]
NoPress == [keys |-> <<>>, half |-> FALSE]
PressState(data) ==
  LET after[n \in 0..Len(data)] ==
        IF n = 0 THEN [keys |-> <<>>, half |-> FALSE] ELSE Pressed(after[n - 1], data[n])
  IN  after[Len(data)]

LEMMA PressesIs == \A data : Presses(data) = PressState(data).keys
BY DEF Presses, PressState

LEMMA PressedType ==
  ASSUME NEW p \in Presser, NEW k \in AnyKey
  PROVE  Pressed(p, k) \in Presser
<1>1. p.keys \in Line /\ "^Y" \in AnyKey
  BY DEF Presser, AnyKey, ControlKeys
<1> DEFINE a == Append(p.keys, k)
           b == IF p.half THEN p.keys ELSE Append(p.keys, "^Y")
           h == ~p.half
<1>2. a \in Line /\ b \in Line
  BY <1>1 DEF Line
<1>3. h \in BOOLEAN
  BY NotType DEF Presser
<1>4. Pressed(p, k) = IF k # "^C" THEN [p EXCEPT !.keys = a] ELSE [keys |-> b, half |-> h]
  BY DEF Pressed
<1> HIDE DEF a, b, h
<1>5. [p EXCEPT !.keys = a] \in Presser
  BY <1>2 DEF Presser
<1>6. [keys |-> b, half |-> h] \in Presser
  BY <1>2, <1>3 DEF Presser
<1> QED BY <1>4, <1>5, <1>6

\* An interrupt is two of them.
LEMMA PressedTwice ==
  ASSUME NEW p \in Presser, ~p.half
  PROVE  /\ Pressed(p, "^C").keys = Append(p.keys, "^Y") /\ Pressed(p, "^C").half
         /\ Pressed(Pressed(p, "^C"), "^C").keys = Append(p.keys, "^Y")
         /\ ~Pressed(Pressed(p, "^C"), "^C").half
<1> DEFINE b == Append(p.keys, "^Y")
           q == Pressed(p, "^C")
           r == Pressed(q, "^C")
<1>1. p.half = FALSE
  BY DEF Presser
<1>2. q = [keys |-> b, half |-> TRUE]
  BY <1>1 DEF Pressed
<1> HIDE DEF b, q
<1>3. Pressed([keys |-> b, half |-> TRUE], "^C") = [keys |-> b, half |-> FALSE]
  BY DEF Pressed
<1>4. r = [keys |-> b, half |-> FALSE]
  BY <1>2, <1>3
<1> HIDE DEF r
<1>5. q.keys = b /\ q.half /\ r.keys = b /\ ~r.half
  BY <1>2, <1>4
<1> QED BY <1>5 DEF b, q, r

LEMMA AppendJoin ==
  ASSUME NEW M, NEW b \in Seq(M), NEW a \in Seq(M), NEW x \in M
  PROVE  b \o Append(a, x) = Append(b \o a, x) /\ Append(a, x) \in Seq(M) /\ b \o a \in Seq(M)
<1>1. /\ <<x>> \in Seq(M) /\ b \o a \in Seq(M) /\ Append(a, x) = a \o <<x>>
      /\ Append(a, x) \in Seq(M)
  OBVIOUS
<1> DEFINE c == b \o a
<1> HIDE DEF c
<1>2. Append(c, x) = c \o <<x>>
  BY <1>1 DEF c
<1>3. (b \o a) \o <<x>> = b \o (a \o <<x>>)
  BY ONLY <1>1, b \in Seq(M), a \in Seq(M), ConcatAssociative
<1> QED BY <1>1, <1>2, <1>3 DEF c

LEMMA PressSteps ==
  ASSUME NEW d \in Line
  PROVE  \E w \in [0..Len(d) -> Presser] :
           /\ w[0] = NoPress
           /\ \A n \in 1..Len(d) : w[n] = Pressed(w[n - 1], d[n])
           /\ PressState(d) = w[Len(d)]
<1> DEFINE L == Len(d)
           f == [n \in 1..L |-> [p \in Presser |-> Pressed(p, d[n])]]
<1>1. L \in Nat /\ \A n \in 1..L : d[n] \in AnyKey
  BY DEF Line
<1>2. f \in [1..L -> [Presser -> Presser]]
  BY <1>1, PressedType
<1>3. NoPress \in Presser
  BY DEF NoPress, Presser, Line
<1>4. PICK w \in [0..L -> Presser] : w[0] = NoPress /\ \A n \in 1..L : w[n] = f[n][w[n - 1]]
  <2> DEFINE D == Presser
             a == NoPress
  <2>1. L \in Nat /\ f \in [1..L -> [D -> D]] /\ a \in D
    BY <1>1, <1>2, <1>3
  <2> HIDE DEF f, L, D, a
  <2>2. \E w : Runs(w, D, L, f, a)
    BY ONLY <2>1, Recursion
  <2> QED BY ONLY <2>2 DEF Runs, D, a
<1>5. \A n \in 1..L : w[n] = Pressed(w[n - 1], d[n])
  <2> SUFFICES ASSUME NEW n \in 1..L PROVE w[n] = Pressed(w[n - 1], d[n])
    OBVIOUS
  <2>1. w[n - 1] \in Presser
    BY <1>1
  <2> QED BY <2>1, <1>4
<1> DEFINE Is(g) == g = [n \in 0..L |-> IF n = 0 THEN [keys |-> <<>>, half |-> FALSE]
                                        ELSE Pressed(g[n - 1], d[n])]
           after == CHOOSE g : Is(g)
<1>6. Is(w)
  <2>1. w = [n \in 0..L |-> w[n]]
    OBVIOUS
  <2>2. \A n \in 0..L : n = 0 \/ n \in 1..L
    BY <1>1
  <2> QED BY <2>1, <2>2, <1>4, <1>5 DEF NoPress
<1>7. Is(after)
  <2> HIDE DEF Is
  <2> QED BY <1>6
<1>8. after[0] = w[0] /\ \A n \in 1..L : after[n] = Pressed(after[n - 1], d[n])
  <2> HIDE DEF after
  <2>1. 0 \in 0..L /\ \A n \in 1..L : n \in 0..L /\ n # 0
    BY <1>1
  <2> QED BY <1>4, <1>7, <2>1 DEF NoPress
<1>9. after[L] = w[L]
  <2>1. after[0] = w[0] /\ \A n \in 1..L : after[n - 1] = w[n - 1] => after[n] = w[n]
    BY <1>5, <1>8
  <2> HIDE DEF after, L
  <2> QED BY ONLY <1>1, <2>1, Agree
<1>10. PressState(d) = after[L]
  BY DEF PressState
<1> QED BY <1>4, <1>5, <1>9, <1>10

LEMMA PressOne ==
  ASSUME NEW d \in Line, NEW k \in AnyKey
  PROVE  /\ PressState(d) \in Presser /\ Append(d, k) \in Line
         /\ PressState(Append(d, k)) = Pressed(PressState(d), k)
<1> DEFINE u == Append(d, k)
           L == Len(d)
<1>1. /\ d \in Seq(AnyKey) /\ L \in Nat /\ u \in Line /\ Len(u) = L + 1 /\ u[L + 1] = k
      /\ \A n \in 1..L : u[n] = d[n]
  BY DEF Line
<1> HIDE DEF u
<1>2. PICK v \in [0..L -> Presser] :
        /\ v[0] = NoPress
        /\ \A n \in 1..L : v[n] = Pressed(v[n - 1], d[n])
        /\ PressState(d) = v[L]
  BY PressSteps
<1>3. PICK w \in [0..(L + 1) -> Presser] :
        /\ w[0] = NoPress
        /\ \A n \in 1..(L + 1) : w[n] = Pressed(w[n - 1], u[n])
        /\ PressState(u) = w[L + 1]
  <2> DEFINE M == Len(u)
  <2>1. \E w \in [0..M -> Presser] :
          /\ w[0] = NoPress
          /\ \A n \in 1..M : w[n] = Pressed(w[n - 1], u[n])
          /\ PressState(u) = w[M]
    BY ONLY <1>1, PressSteps
  <2> QED BY <2>1, <1>1
<1> HIDE DEF L
<1>4. v[L] = w[L]
  <2>1. \A n \in 1..L : n \in 1..(L + 1)
    BY <1>1
  <2>2. \A n \in 1..L : v[n - 1] = w[n - 1] => v[n] = w[n]
    BY <2>1, <1>1, <1>2, <1>3
  <2>3. v[0] = w[0]
    BY <1>2, <1>3
  <2> QED BY ONLY <2>2, <2>3, <1>1, Agree
<1>5. L + 1 \in 1..(L + 1) /\ (L + 1) - 1 = L /\ L \in 0..L
  BY <1>1
<1>6. v[L] \in Presser
  BY <1>2, <1>5
<1> QED BY <1>1, <1>2, <1>3, <1>4, <1>5, <1>6 DEF u

\* What is no interrupt is pressed as it is.
LEMMA PressText ==
  ASSUME NEW d \in Line, ~PressState(d).half, NEW x \in Keys
  PROVE  /\ d \o x \in Line /\ PressState(d \o x).keys = PressState(d).keys \o x
         /\ ~PressState(d \o x).half
<1> DEFINE p == PressState(d)
           Is(s) == /\ d \o s \in Line /\ PressState(d \o s).keys = p.keys \o s
                    /\ ~PressState(d \o s).half
           T == {s \in Keys : Is(s)}
<1>1. p \in Presser /\ p.keys \in Line
  <2>1. "^Y" \in AnyKey
    BY DEF AnyKey, ControlKeys
  <2> QED BY <2>1, PressOne DEF Presser
<1> HIDE DEF p
<1>2. <<>> \in T
  <2>1. d \o <<>> = d /\ p.keys \o <<>> = p.keys /\ <<>> \in Keys
    BY <1>1 DEF Line, Keys
  <2> QED BY <2>1 DEF p
<1>3. ASSUME NEW s \in T, NEW k \in Clean PROVE Append(s, k) \in T
  <2>1. s \in Keys /\ s \in Line /\ k \in AnyKey /\ k # "^C" /\ Append(s, k) \in Keys
    BY DEF Keys, Line, Clean
  <2>2. /\ d \o Append(s, k) = Append(d \o s, k)
        /\ p.keys \o Append(s, k) = Append(p.keys \o s, k)
    <3>1. d \in Seq(AnyKey) /\ s \in Seq(AnyKey) /\ p.keys \in Seq(AnyKey)
      BY <1>1, <2>1 DEF Line
    <3> DEFINE a == p.keys
    <3>2. d \o Append(s, k) = Append(d \o s, k)
      BY ONLY <3>1, <2>1, AppendJoin
    <3>3. a \in Seq(AnyKey)
      BY <3>1
    <3> HIDE DEF a
    <3>4. a \o Append(s, k) = Append(a \o s, k)
      BY ONLY <3>1, <3>3, <2>1, AppendJoin
    <3> QED BY <3>2, <3>4 DEF a
  <2>3. d \o s \in Line /\ PressState(d \o s) \in Presser /\ Append(d \o s, k) \in Line
        /\ PressState(Append(d \o s, k)) = Pressed(PressState(d \o s), k)
    <3>1. d \o s \in Line
      OBVIOUS
    <3> HIDE DEF T
    <3> QED BY <3>1, <2>1, PressOne
  <2> DEFINE q == PressState(d \o s)
  <2>4. q.keys = p.keys \o s /\ ~q.half
    OBVIOUS
  <2> HIDE DEF q
  <2>5. Pressed(q, k) = [q EXCEPT !.keys = Append(q.keys, k)]
    BY <2>1 DEF Pressed
  <2>6. Pressed(q, k).keys = Append(p.keys \o s, k) /\ ~Pressed(q, k).half
    BY <2>3, <2>4, <2>5 DEF q, Presser
  <2>7. Is(Append(s, k))
    BY <2>2, <2>3, <2>6 DEF q
  <2> QED BY <2>1, <2>7
<1>4. T = Seq(Clean)
  <2>1. T \in SUBSET Seq(Clean)
    BY DEF Keys
  <2> HIDE DEF T
  <2> QED BY <2>1, <1>2, <1>3, SeqUp
<1>5. x \in T
  BY <1>4 DEF Keys
<1> QED BY <1>5 DEF p

\* ForLogin: the two ^C that stand for an interrupt are one key.
LEMMA PressLogin ==
  ASSUME NEW d \in Line, ~PressState(d).half, NEW x \in Keys, x # <<>>
  PROVE  /\ d \o ForLogin(x) \in Line /\ PressState(d \o ForLogin(x)).keys = PressState(d).keys \o x
         /\ ~PressState(d \o ForLogin(x)).half
<1> DEFINE p == PressState(d)
           t == Tail(x)
           e == Append(d, "^C")
           f == Append(e, "^C")
<1>1. /\ Head(x) \in Clean /\ t \in Keys /\ x = <<Head(x)>> \o t
      /\ "^C" \in AnyKey /\ "^Y" \in AnyKey
  BY DEF Keys, AnyKey, ControlKeys
<1>2. CASE Head(x) # "^Y"
  <2>1. ForLogin(x) = x
    BY <1>1, <1>2 DEF ForLogin, Clean
  <2> QED BY <2>1, PressText
<1>3. CASE Head(x) = "^Y"
  <2>1. ForLogin(x) = <<"^C", "^C">> \o t
    BY <1>3 DEF ForLogin
  <2>2. /\ p \in Presser /\ e \in Line /\ PressState(e) = Pressed(p, "^C")
        /\ f \in Line /\ PressState(f) = Pressed(PressState(e), "^C")
    BY <1>1, PressOne
  <2>3. p.keys \in Line /\ Append(p.keys, "^Y") \in Line
    BY <1>1, <2>2 DEF Presser, Line
  <2>4. PressState(f).keys = Append(p.keys, "^Y") /\ ~PressState(f).half
    <3> HIDE DEF p, f, e
    <3> QED BY <2>2, PressedTwice DEF p
  <2>6. d \o ForLogin(x) = f \o t
    <3>1. f = d \o <<"^C", "^C">> /\ t \in Line /\ <<"^C", "^C">> \in Line /\ d \in Seq(AnyKey)
      BY <1>1 DEF Line, Keys, Clean
    <3> HIDE DEF f, t
    <3>2. (d \o <<"^C", "^C">>) \o t = d \o (<<"^C", "^C">> \o t)
      BY <3>1, ConcatAssociative DEF Line
    <3> QED BY <2>1, <3>1, <3>2
  <2>7. Append(p.keys, "^Y") \o t = p.keys \o x
    <3>1. t \in Seq(AnyKey) /\ p.keys \in Seq(AnyKey)
      BY <1>1, <2>3 DEF Keys, Line, Clean
    <3> DEFINE a == p.keys
    <3>2. a \in Seq(AnyKey)
      BY <3>1
    <3> HIDE DEF p, t, a
    <3>3. Append(a, "^Y") \o t = a \o (<<"^Y">> \o t)
      BY <3>1, <3>2, <1>1, JoinAgain
    <3> QED BY <1>1, <1>3, <3>3 DEF a
  <2> HIDE DEF p, e, f, t
  <2>8. /\ f \o t \in Line /\ PressState(f \o t).keys = PressState(f).keys \o t
        /\ ~PressState(f \o t).half
    BY <2>2, <2>4, <1>1, PressText
  <2> QED BY <2>4, <2>6, <2>7, <2>8 DEF p
<1> QED BY <1>2, <1>3
-----------------------------------------------------------------------------
(* What dnlogin tells ctermd, and the keys in it *)
Greeting == {BindAccept, Initiate, InputState}
Told == Greeting \cup [t : {"READ_DATA"}, data : Keys \ {<<>>}, why : Why]

LEMMA DataIs ==
  /\ Greeting \subseteq Told /\ Told \subseteq Said
  /\ \A m \in Told : DataOf(m) \in Keys
  /\ \A m \in Greeting : DataOf(m) = <<>>
  /\ \A m \in Told : m.t = "READ_DATA" => m.data = DataOf(m) /\ m.data # <<>>
  /\ \A m \in Told : m.t # "READ_DATA" => m.t # "OOB" /\ DataOf(m) = <<>>
<1>1. <<>> \in Keys /\ Keys \subseteq Line
  <2>1. \A s \in Seq(Clean) : s \in Seq(AnyKey)
    BY DEF Clean
  <2> QED BY <2>1 DEF Keys, Line
<1>2. \A m \in Greeting : DataOf(m) = <<>> /\ m.t # "READ_DATA" /\ m.t # "OOB"
  BY DEF Greeting, DataOf, BindAccept, Initiate, InputState
<1>3. \A m \in [t : {"READ_DATA"}, data : Keys \ {<<>>}, why : Why] :
        /\ m.t = "READ_DATA" /\ DataOf(m) = m.data /\ m.data \in Keys /\ m.data # <<>> /\ m \in Said
  BY <1>1 DEF DataOf, Said
<1>4. Greeting \subseteq Said
  BY DEF Greeting, Said
<1> QED BY <1>1, <1>2, <1>3, <1>4 DEF Told

LEMMA JoinKeys == \A x, y \in Keys : x \o y \in Keys
BY DEF Keys

LEMMA FlightSteps ==
  ASSUME NEW q \in Seq(Told)
  PROVE  \E w \in [0..Len(q) -> Keys] :
           /\ w[0] = <<>>
           /\ \A n \in 1..Len(q) : w[n] = w[n - 1] \o DataOf(q[n])
           /\ InFlight(q) = w[Len(q)]
<1> DEFINE L == Len(q)
           f == [n \in 1..L |-> [x \in Keys |-> x \o DataOf(q[n])]]
<1>1. L \in Nat /\ \A n \in 1..L : q[n] \in Told
  OBVIOUS
<1>2. f \in [1..L -> [Keys -> Keys]]
  <2>1. \A n \in 1..L : DataOf(q[n]) \in Keys
    BY <1>1, DataIs
  <2>2. \A n \in 1..L : \A x \in Keys : x \o DataOf(q[n]) \in Keys
    BY <2>1, JoinKeys
  <2> QED BY <2>2
<1>3. <<>> \in Keys
  BY DEF Keys
<1>4. PICK w \in [0..L -> Keys] : w[0] = <<>> /\ \A n \in 1..L : w[n] = f[n][w[n - 1]]
  <2> DEFINE D == Keys
             a == <<>>
  <2>1. L \in Nat /\ f \in [1..L -> [D -> D]] /\ a \in D
    BY <1>1, <1>2, <1>3
  <2> HIDE DEF f, L, D, a
  <2>2. \E w : Runs(w, D, L, f, a)
    BY ONLY <2>1, Recursion
  <2> QED BY ONLY <2>2 DEF Runs, D, a
<1>5. \A n \in 1..L : w[n] = w[n - 1] \o DataOf(q[n])
  <2> SUFFICES ASSUME NEW n \in 1..L PROVE w[n] = w[n - 1] \o DataOf(q[n])
    OBVIOUS
  <2>1. w[n - 1] \in Keys
    BY <1>1
  <2> QED BY <2>1, <1>4
<1> DEFINE Is(g) == g = [n \in 0..L |-> IF n = 0 THEN <<>> ELSE g[n - 1] \o DataOf(q[n])]
           data == CHOOSE g : Is(g)
<1>6. Is(w)
  <2>1. w = [n \in 0..L |-> w[n]]
    OBVIOUS
  <2>2. \A n \in 0..L : n = 0 \/ n \in 1..L
    BY <1>1
  <2> QED BY <2>1, <2>2, <1>4, <1>5
<1>7. Is(data)
  <2> HIDE DEF Is
  <2> QED BY <1>6
<1>8. data[0] = w[0] /\ \A n \in 1..L : data[n] = data[n - 1] \o DataOf(q[n])
  <2> HIDE DEF data
  <2>1. 0 \in 0..L /\ \A n \in 1..L : n \in 0..L /\ n # 0
    BY <1>1
  <2> QED BY <1>4, <1>7, <2>1
<1>9. data[L] = w[L]
  <2>1. data[0] = w[0] /\ \A n \in 1..L : data[n - 1] = w[n - 1] => data[n] = w[n]
    BY <1>5, <1>8
  <2> HIDE DEF data, L
  <2> QED BY ONLY <1>1, <2>1, Agree
<1>10. InFlight(q) = data[L]
  BY DEF InFlight
<1> QED BY <1>4, <1>5, <1>9, <1>10

LEMMA FlightOne ==
  ASSUME NEW q \in Seq(Told), NEW m \in Told
  PROVE  /\ InFlight(q) \in Keys
         /\ InFlight(Append(q, m)) = InFlight(q) \o DataOf(m)
<1> DEFINE u == Append(q, m)
           L == Len(q)
<1>1. /\ L \in Nat /\ u \in Seq(Told) /\ Len(u) = L + 1 /\ u[L + 1] = m
      /\ \A n \in 1..L : u[n] = q[n]
  OBVIOUS
<1> HIDE DEF u
<1>2. PICK v \in [0..L -> Keys] :
        /\ v[0] = <<>>
        /\ \A n \in 1..L : v[n] = v[n - 1] \o DataOf(q[n])
        /\ InFlight(q) = v[L]
  BY FlightSteps
<1>3. PICK w \in [0..(L + 1) -> Keys] :
        /\ w[0] = <<>>
        /\ \A n \in 1..(L + 1) : w[n] = w[n - 1] \o DataOf(u[n])
        /\ InFlight(u) = w[L + 1]
  <2> DEFINE M == Len(u)
  <2>1. \E w \in [0..M -> Keys] :
          /\ w[0] = <<>>
          /\ \A n \in 1..M : w[n] = w[n - 1] \o DataOf(u[n])
          /\ InFlight(u) = w[M]
    BY ONLY <1>1, FlightSteps
  <2> QED BY <2>1, <1>1
<1> HIDE DEF L
<1>4. v[L] = w[L]
  <2>1. \A n \in 1..L : n \in 1..(L + 1)
    BY <1>1
  <2>2. \A n \in 1..L : v[n - 1] = w[n - 1] => v[n] = w[n]
    BY <2>1, <1>1, <1>2, <1>3
  <2>3. v[0] = w[0]
    BY <1>2, <1>3
  <2> QED BY ONLY <2>2, <2>3, <1>1, Agree
<1>5. L + 1 \in 1..(L + 1) /\ (L + 1) - 1 = L /\ L \in 0..L
  BY <1>1
<1>6. v[L] \in Keys
  BY <1>2, <1>5
<1> QED BY <1>1, <1>2, <1>3, <1>4, <1>5, <1>6 DEF u

LEMMA FlightNone == InFlight(<<>>) = <<>>
<1>1. <<>> \in Seq(Told)
  OBVIOUS
<1> QED BY <1>1, FlightSteps

\* \o on keys, as it is cited by name
Joined(x, y) == x \o y
Anys == Seq(AnyKey)

LEMMA JoinFacts ==
  /\ \A x, y \in Anys : Joined(x, y) \in Anys
  /\ \A x, y, z \in Anys : Joined(Joined(x, y), z) = Joined(x, Joined(y, z))
  /\ \A x \in Anys : Joined(x, <<>>) = x
<1>1. \A x, y \in Anys : Joined(x, y) \in Anys
  BY DEF Joined, Anys
<1>2. \A x, y, z \in Anys : Joined(Joined(x, y), z) = Joined(x, Joined(y, z))
  BY ConcatAssociative DEF Joined, Anys
<1>3. \A x \in Anys : Joined(x, <<>>) = x
  BY DEF Joined, Anys
<1> QED BY <1>1, <1>2, <1>3

LEMMA AnysAre == (\A x \in Line : x \in Anys) /\ (\A x \in Keys : x \in Anys)
BY DEF Line, Keys, Anys, Clean

\* Messages that follow others
LEMMA FlightJoin ==
  ASSUME NEW q \in Seq(Told), NEW ms \in Seq(Told)
  PROVE  InFlight(q \o ms) = InFlight(q) \o InFlight(ms)
<1> DEFINE T == {s \in Seq(Told) : InFlight(q \o s) = InFlight(q) \o InFlight(s)}
           i == InFlight(q)
<1>1. \A s \in Seq(Told) : InFlight(s) \in Keys
  BY FlightOne, DataIs DEF Greeting
<1>2. <<>> \in T
  <2>1. i \in Keys /\ q \o <<>> = q
    BY <1>1
  <2> HIDE DEF i
  <2>2. i \o <<>> = i
    BY <2>1 DEF Keys
  <2>3. i \o InFlight(<<>>) = i
    BY <2>2, FlightNone
  <2>4. InFlight(q \o <<>>) = InFlight(q) \o InFlight(<<>>) /\ <<>> \in Seq(Told)
    BY <2>1, <2>3 DEF i
  <2> QED BY <2>4
<1>3. ASSUME NEW s \in T, NEW m \in Told PROVE Append(s, m) \in T
  <2> DEFINE j == InFlight(s)
             d == DataOf(m)
  <2>1. s \in Seq(Told) /\ InFlight(q \o s) = i \o j
    OBVIOUS
  <2>2. i \in Keys /\ j \in Keys /\ d \in Keys
    BY <1>1, <2>1, DataIs
  <2>3. q \o Append(s, m) = Append(q \o s, m) /\ Append(s, m) \in Seq(Told) /\ q \o s \in Seq(Told)
    BY ONLY <2>1, q \in Seq(Told), m \in Told, AppendJoin
  <2>4. InFlight(Append(q \o s, m)) = InFlight(q \o s) \o d /\ InFlight(Append(s, m)) = j \o d
    BY <2>1, <2>3, FlightOne
  <2> HIDE DEF i, j, d
  <2>5. (i \o j) \o d = i \o (j \o d)
    <3>1. Joined(Joined(i, j), d) = Joined(i, Joined(j, d))
      BY ONLY <2>2, AnysAre, JoinFacts
    <3> QED BY ONLY <3>1 DEF Joined
  <2> QED BY <2>1, <2>3, <2>4, <2>5 DEF i
<1>4. T = Seq(Told)
  <2>1. T \in SUBSET Seq(Told)
    OBVIOUS
  <2> HIDE DEF T
  <2> QED BY <2>1, <1>2, <1>3, SeqUp
<1>5. ms \in T
  BY <1>4
<1> QED BY <1>5

LEMMA FlightTaken ==
  ASSUME NEW q \in Seq(Told), q # <<>>
  PROVE  /\ Head(q) \in Told /\ Tail(q) \in Seq(Told)
         /\ InFlight(q) = DataOf(Head(q)) \o InFlight(Tail(q))
<1> DEFINE m == Head(q)
           r == Tail(q)
<1>1. m \in Told /\ r \in Seq(Told) /\ <<m>> \in Seq(Told) /\ q = <<m>> \o r
  OBVIOUS
<1>2. InFlight(<<m>>) = DataOf(m)
  <2>1. <<>> \in Seq(Told) /\ Append(<<>>, m) = <<m>>
    OBVIOUS
  <2>2. InFlight(Append(<<>>, m)) = <<>> \o DataOf(m)
    BY <1>1, <2>1, FlightNone, FlightOne
  <2> DEFINE d == DataOf(m)
  <2>3. d \in Seq(Clean)
    BY <1>1, DataIs DEF Keys
  <2> HIDE DEF d
  <2>4. <<>> \o d = d
    BY <2>3
  <2> QED BY <2>1, <2>2, <2>4 DEF d
<1> HIDE DEF m, r
<1>3. InFlight(<<m>> \o r) = InFlight(<<m>>) \o InFlight(r)
  BY <1>1, FlightJoin
<1> QED BY <1>1, <1>2, <1>3 DEF m, r
-----------------------------------------------------------------------------
(***************************************************************************)
(* The terminal of a session with ctermd.  It holds keys in esc while a    *)
(* read is pending and in ahead while none is, and none in line, for a     *)
(* read of ctermd ends with every key that is not in an escape sequence.   *)
(***************************************************************************)
CtOK(t) ==
  /\ t.line = <<>> /\ t.oob = {} /\ ~t.timed /\ ~t.edit
  /\ t.esc \in Keys /\ t.ahead \in Keys /\ Len(t.ahead) <= AheadSize /\ t.out \in Seq(Told)
  /\ t.pending => (t.terms = AnyKey /\ t.ahead = <<>>)
  /\ ~t.pending => t.esc = <<>>
CtTty == {t \in Tty : CtOK(t)}

\* All else that CtOK looks at is the same.
Same(t, u) ==
  /\ u.oob = t.oob /\ u.timed = t.timed /\ u.edit = t.edit /\ u.terms = t.terms
  /\ u.finished = t.finished
HeldBy(t) == t.esc \o t.ahead
KeysOf(t) == InFlight(t.out) \o HeldBy(t)

\* What t had, and x, is what u has sent and what it holds, but for what it does
\* not send any more.
Moved(t, u, x) ==
  \E X \in Keys : /\ InFlight(u.out) \o X = KeysOf(t) \o x
                  /\ ~u.finished => X = HeldBy(u)

LEMMA KeysAre ==
  ASSUME NEW t \in CtTty
  PROVE  InFlight(t.out) \in Keys /\ HeldBy(t) \in Keys /\ KeysOf(t) \in Keys
<1>1. t.out \in Seq(Told) /\ t.esc \in Keys /\ t.ahead \in Keys
  BY DEF CtTty, CtOK
<1>2. InFlight(t.out) \in Keys
  BY <1>1, FlightOne, DataIs DEF Greeting
<1> QED BY <1>1, <1>2, JoinKeys DEF HeldBy, KeysOf

LEMMA KeysJoin ==
  ASSUME NEW i \in Keys, NEW e \in Keys, NEW k \in Clean
  PROVE  /\ <<>> \in Keys /\ <<k>> \in Keys /\ Append(e, k) \in Keys
         /\ i \o (<<>> \o Append(e, k)) = (i \o (<<>> \o e)) \o <<k>>
         /\ i \o (Append(e, k) \o <<>>) = (i \o (e \o <<>>)) \o <<k>>
         /\ (i \o Append(e, k)) \o (<<>> \o <<>>) = (i \o (e \o <<>>)) \o <<k>>
<1> DEFINE a == Append(e, k)
<1>1. i \in Seq(Clean) /\ e \in Seq(Clean) /\ a \in Seq(Clean) /\ i \o e \in Seq(Clean)
      /\ i \o a \in Seq(Clean)
  BY DEF Keys
<1>2. i \o a = Append(i \o e, k)
  BY <1>1, AppendJoin
<1>3. Append(i \o e, k) = (i \o e) \o <<k>>
  BY <1>1, AppendIsConcat
<1> HIDE DEF a
<1>4. /\ <<>> \o a = a /\ a \o <<>> = a /\ <<>> \o e = e /\ e \o <<>> = e /\ <<>> \o <<>> = <<>>
      /\ (i \o a) \o <<>> = i \o a /\ <<>> \in Seq(Clean) /\ <<k>> \in Seq(Clean)
  BY <1>1
<1> QED BY <1>1, <1>2, <1>3, <1>4 DEF Keys, a

LEMMA ConvertedIs ==
  ASSUME NEW t \in CtTty, NEW k \in AnyKey
  PROVE  Converted(t, k) \in Clean /\ Converted(t, k) \notin t.oob /\ (k \in Clean => Converted(t, k) = k)
BY DEF CtTty, CtOK, Converted, Clean, AnyKey, ControlKeys

LEMMA SentIs ==
  ASSUME NEW t \in Tty, NEW data \in Line, NEW why \in Why, NEW r, r = SendInput(t, data, why)
  PROVE  /\ r \in Tty /\ ~r.pending /\ r.out = Append(t.out, ReadData(data, why)) /\ Same(t, r)
         /\ r.line = t.line /\ r.esc = t.esc /\ r.ahead = t.ahead
<1> DEFINE o == Append(t.out, ReadData(data, why))
<1>1. ReadData(data, why) \in Said
  BY SaidIs
<1>2. o \in Seq(Said)
  BY <1>1 DEF Tty
<1>3. r = [t EXCEPT !.out = o, !.pending = FALSE]
  BY DEF SendInput, Say, Tty
<1> HIDE DEF o
<1>4. r \in Tty /\ ~r.pending /\ r.out = o /\ r.line = t.line /\ r.esc = t.esc /\ r.ahead = t.ahead
  BY <1>2, <1>3 DEF Tty
<1>5. Same(t, r)
  BY <1>3 DEF Tty, Same
<1> QED BY <1>4, <1>5 DEF o

LEMMA SentBufferIs ==
  ASSUME NEW t \in Tty, NEW why \in Why, NEW r, r = SendInputBuffer(t, why)
  PROVE  /\ r \in Tty /\ ~r.pending /\ r.out = Append(t.out, ReadData(t.line, why)) /\ Same(t, r)
         /\ r.line = <<>> /\ r.esc = t.esc /\ r.ahead = t.ahead
<1> DEFINE s == SendInput(t, t.line, why)
<1>1. t.line \in Line /\ <<>> \in Line
  BY DEF Tty, Line
<1>2. /\ s \in Tty /\ ~s.pending /\ s.out = Append(t.out, ReadData(t.line, why)) /\ Same(t, s)
      /\ s.esc = t.esc /\ s.ahead = t.ahead
  BY <1>1, SentIs
<1>3. r = [s EXCEPT !.line = <<>>, !.pos = 0, !.recognize = FALSE]
  BY DEF SendInputBuffer
<1> HIDE DEF s
<1>4. /\ r \in Tty /\ r.pending = s.pending /\ r.out = s.out /\ r.line = <<>>
      /\ r.esc = s.esc /\ r.ahead = s.ahead
  <2>1. s \in Tty /\ <<>> \in Line
    BY <1>1, <1>2
  <2>2. r \in Tty
    BY ONLY <2>1, <1>3 DEF Tty
  <2>3. /\ r.pending = s.pending /\ r.out = s.out /\ r.line = <<>>
        /\ r.esc = s.esc /\ r.ahead = s.ahead
    BY ONLY <2>1, <1>3 DEF Tty
  <2> QED BY <2>2, <2>3
<1>5. Same(s, r)
  BY <1>2, <1>3 DEF Tty, Same
<1> QED BY <1>2, <1>4, <1>5 DEF Same

\* What Key does for a key that is not exit_char
KeyMoves(t, u, k) ==
  /\ u \in CtTty /\ ~u.finished /\ Len(u.ahead) <= Len(t.ahead) + 1
  /\ KeysOf(u) = IF t.pending \/ Len(t.ahead) < AheadSize THEN KeysOf(t) \o <<k>> ELSE KeysOf(t)
  /\ ~t.pending => ~u.pending /\ u.out \in {t.out, Append(t.out, InputState)}

LEMMA SaysNothing ==
  ASSUME NEW t \in CtTty, NEW m \in Greeting
  PROVE  /\ Append(t.out, m) \in Seq(Told) /\ InFlight(Append(t.out, m)) = InFlight(t.out)
<1>1. t.out \in Seq(Told) /\ m \in Told /\ DataOf(m) = <<>>
  BY DataIs DEF CtTty, CtOK
<1> DEFINE i == InFlight(t.out)
<1>2. InFlight(Append(t.out, m)) = i \o <<>> /\ i \in Keys
  BY <1>1, FlightOne
<1> HIDE DEF i
<1>3. i \o <<>> = i
  BY <1>2 DEF Keys
<1> QED BY <1>1, <1>2, <1>3 DEF i

LEMMA AheadMoves ==
  ASSUME NEW t \in CtTty, ~t.finished, ~t.pending, NEW k \in Clean
  PROVE  KeyMoves(t, Ahead(t, k), k)
<1> DEFINE v == IF t.ahead = <<>> /\ t.states THEN Say(t, InputState) ELSE t
           o == IF t.ahead = <<>> /\ t.states THEN Append(t.out, InputState) ELSE t.out
           u == Ahead(t, k)
           a == IF Len(t.ahead) < AheadSize THEN Append(t.ahead, k) ELSE t.ahead
           i == InFlight(t.out)
<1>1. /\ t \in Tty /\ t.esc = <<>> /\ t.ahead \in Keys /\ Len(t.ahead) <= AheadSize
      /\ t.out \in Seq(Told) /\ Len(t.ahead) \in Nat /\ AheadSize \in Nat
  BY AheadAssumption DEF CtTty, CtOK, Keys
<1>2. o \in Seq(Told) /\ InFlight(o) = i
  BY <1>1, SaysNothing DEF Greeting
<1>3. /\ a \in Keys /\ Len(a) <= Len(t.ahead) + 1 /\ Len(a) <= AheadSize
  BY <1>1 DEF Keys
<1>4. v = [t EXCEPT !.out = o]
  <2>1. t = [t EXCEPT !.out = t.out]
    BY <1>1 DEF Tty
  <2> QED BY <2>1 DEF Say
<1>5. u = IF Len(t.ahead) < AheadSize THEN [v EXCEPT !.ahead = Append(t.ahead, k)] ELSE v
  <2>1. Say(t, InputState).ahead = t.ahead
    BY <1>1 DEF Say, Tty
  <2>2. v.ahead = t.ahead
    BY <2>1
  <2> QED BY <2>2 DEF Ahead
<1> HIDE DEF v, o
<1>6. u = [[t EXCEPT !.out = o] EXCEPT !.ahead = a]
  <2>1. [t EXCEPT !.out = o] = [[t EXCEPT !.out = o] EXCEPT !.ahead = t.ahead]
    BY <1>1 DEF Tty
  <2> QED BY <2>1, <1>4, <1>5
<1>7. o \in Seq(Said) /\ a \in Line
  <2>1. \A s \in Seq(Told) : s \in Seq(Said)
    BY DataIs
  <2>2. \A s \in Seq(Clean) : s \in Seq(AnyKey)
    BY DEF Clean
  <2> HIDE DEF a
  <2> QED BY <2>1, <2>2, <1>2, <1>3 DEF Keys, Line
<1> HIDE DEF a
<1>8. /\ u \in Tty /\ u.out = o /\ u.ahead = a /\ u.esc = t.esc /\ u.line = t.line
      /\ u.pending = t.pending /\ u.finished = t.finished
      /\ u.oob = t.oob /\ u.timed = t.timed /\ u.edit = t.edit
  BY <1>1, <1>6, <1>7 DEF Tty
<1> HIDE DEF u
<1>9. u \in CtTty
  BY <1>1, <1>2, <1>3, <1>8 DEF CtTty, CtOK
<1>10. KeysOf(u) = i \o (<<>> \o a) /\ KeysOf(t) = i \o (<<>> \o t.ahead)
  BY <1>1, <1>2, <1>8 DEF KeysOf, HeldBy
<1>11. KeysOf(u) = IF Len(t.ahead) < AheadSize THEN KeysOf(t) \o <<k>> ELSE KeysOf(t)
  <2>1. i \o (<<>> \o Append(t.ahead, k)) = (i \o (<<>> \o t.ahead)) \o <<k>>
    BY <1>1, KeysAre, KeysJoin
  <2> HIDE DEF i
  <2> QED BY <2>1, <1>10 DEF a
<1> QED BY <1>3, <1>8, <1>9, <1>11 DEF KeyMoves, u, o
\* A key while a read is pending
LEMMA ReadMoves ==
  ASSUME NEW t \in CtTty, t.pending, NEW u \in Tty, ~u.finished,
         u.line = <<>>, u.oob = {}, ~u.timed, ~u.edit, u.ahead = <<>>, u.terms = AnyKey,
         u.esc \in Keys, u.out \in Seq(Told), u.pending \/ u.esc = <<>>, NEW k \in Clean,
         InFlight(u.out) \o (u.esc \o <<>>) = (InFlight(t.out) \o (t.esc \o <<>>)) \o <<k>>
  PROVE  KeyMoves(t, u, k)
<1>1. t.ahead = <<>> /\ Len(<<>>) = 0 /\ 0 <= 0 + 1 /\ AheadSize \in Nat /\ 0 <= AheadSize
      /\ <<>> \in Keys
  BY AheadAssumption DEF CtTty, CtOK, Keys
<1>2. CtOK(u)
  BY <1>1 DEF CtOK
<1>3. KeysOf(u) = KeysOf(t) \o <<k>>
  BY <1>1 DEF KeysOf, HeldBy
<1> QED BY <1>1, <1>2, <1>3 DEF KeyMoves, CtTty

LEMMA ToldIs ==
  ASSUME NEW data \in Keys, data # <<>>, NEW why \in Why, NEW o \in Seq(Told)
  PROVE  /\ data \in Line /\ Append(o, ReadData(data, why)) \in Seq(Told)
         /\ InFlight(Append(o, ReadData(data, why))) = InFlight(o) \o data
<1>1. ReadData(data, why) \in Told /\ DataOf(ReadData(data, why)) = data
  BY DEF Told, ReadData, DataOf
<1>2. data \in Line
  <2>1. \A s \in Seq(Clean) : s \in Seq(AnyKey)
    BY DEF Clean
  <2> QED BY <2>1 DEF Keys, Line
<1>3. \A m \in Told : Append(o, m) \in Seq(Told)
  OBVIOUS
<1> QED BY <1>1, <1>2, <1>3, FlightOne

LEMMA EscapeMoves ==
  ASSUME NEW t \in CtTty, ~t.finished, t.pending, NEW k \in Clean
  PROVE  KeyMoves(t, EscapeKey(t, k), k)
<1> DEFINE esc == Append(t.esc, k)
           p == ParseEscape(t.escState, k)
           x == IF p.last THEN <<>> ELSE esc
           u == [t EXCEPT !.esc = x, !.escState = p.state]
           i == InFlight(t.out)
           r == SendInput(u, esc, "escape")
<1>1. /\ t \in Tty /\ t.esc \in Keys /\ t.line = <<>> /\ ~t.edit /\ t.oob = {} /\ ~t.timed
      /\ t.ahead = <<>> /\ t.terms = AnyKey /\ t.out \in Seq(Told) /\ t.escState \in Nat
  BY DEF CtTty, CtOK, Tty
<1>2. /\ esc \in Keys /\ esc # <<>> /\ <<>> \o esc = esc /\ <<>> \in Keys /\ x \in Keys
  <2>1. t.esc \in Seq(Clean) /\ esc \in Seq(Clean) /\ esc # <<>>
    BY <1>1 DEF Keys
  <2> HIDE DEF esc
  <2> QED BY <2>1 DEF Keys
<1>3. p.state \in Nat
  BY <1>1, ParseType
<1>4. \A s \in Keys : s \in Line
  <2>1. \A s \in Seq(Clean) : s \in Seq(AnyKey)
    BY DEF Clean
  <2> QED BY <2>1 DEF Keys, Line
<1>5. EscapeKey(t, k) = IF ~p.last THEN u ELSE r
  BY <1>1, <1>2 DEF EscapeKey
<1>6. /\ i \o (esc \o <<>>) = (i \o (t.esc \o <<>>)) \o <<k>>
      /\ (i \o esc) \o (<<>> \o <<>>) = (i \o (t.esc \o <<>>)) \o <<k>>
  <2> DEFINE e == t.esc
  <2>1. i \in Keys /\ e \in Keys
    BY <1>1, KeysAre
  <2> HIDE DEF i, e
  <2>2. /\ i \o (Append(e, k) \o <<>>) = (i \o (e \o <<>>)) \o <<k>>
        /\ (i \o Append(e, k)) \o (<<>> \o <<>>) = (i \o (e \o <<>>)) \o <<k>>
    BY ONLY <2>1, k \in Clean, KeysJoin
  <2> QED BY <2>2 DEF e
<1>8. esc \in Line /\ x \in Line
  BY <1>2, <1>4
<1> HIDE DEF p, esc, x
<1>9. /\ u \in Tty /\ u.line = <<>> /\ u.oob = {} /\ ~u.timed /\ ~u.edit /\ u.ahead = <<>>
      /\ u.terms = AnyKey /\ u.esc = x /\ u.out = t.out /\ u.pending /\ u.finished = t.finished
  BY <1>1, <1>3, <1>8 DEF Tty
<1> HIDE DEF u
<1>10. CASE ~p.last
  <2>1. x = esc
    BY <1>10 DEF x
  <2>2. KeyMoves(t, u, k)
    <3> HIDE DEF i
    <3> QED BY <2>1, <1>1, <1>2, <1>6, <1>9, ReadMoves DEF i
  <2> QED BY <2>2, <1>5, <1>10
<1>11. CASE p.last
  <2>1. x = <<>> /\ "escape" \in Why
    BY <1>11 DEF x, Why
  <2>2. /\ r \in Tty /\ ~r.pending /\ r.out = Append(u.out, ReadData(esc, "escape")) /\ Same(u, r)
        /\ r.line = u.line /\ r.esc = u.esc /\ r.ahead = u.ahead
    BY <2>1, <1>8, <1>9, SentIs
  <2>3. r.out \in Seq(Told) /\ InFlight(r.out) = i \o esc
    <3> DEFINE o == t.out
    <3>1. o \in Seq(Told) /\ r.out = Append(o, ReadData(esc, "escape"))
      BY <1>1, <1>9, <2>2
    <3> HIDE DEF o, r
    <3>2. /\ Append(o, ReadData(esc, "escape")) \in Seq(Told)
          /\ InFlight(Append(o, ReadData(esc, "escape"))) = InFlight(o) \o esc
      BY ONLY <3>1, <2>1, <1>2, ToldIs
    <3> QED BY <3>1, <3>2 DEF o
  <2> HIDE DEF r, i
  <2>4. InFlight(r.out) \o (r.esc \o <<>>) = (i \o (t.esc \o <<>>)) \o <<k>>
    BY <2>1, <2>2, <2>3, <1>6, <1>9
  <2>5. KeyMoves(t, r, k)
    BY <2>1, <2>2, <2>3, <2>4, <1>1, <1>2, <1>9, ReadMoves DEF i, Same
  <2> QED BY <2>5, <1>5, <1>11
<1> QED BY <1>10, <1>11

\* tty_process_terminal, one character, for a read of ctermd or none
LEMMA KeyPasses ==
  ASSUME NEW t \in CtTty, ~t.finished, NEW key \in AnyKey, key # Exit
  PROVE  KeyMoves(t, Key(t, key), Converted(t, key))
<1> DEFINE k == Converted(t, key)
           v == [t EXCEPT !.esc = <<k>>]
           w == [t EXCEPT !.line = Append(@, k)]
           r == SendInputBuffer(w, "terminator")
           i == InFlight(t.out)
<1>1. k \in Clean /\ k \notin t.oob /\ k \in AnyKey
  BY ConvertedIs DEF Clean
<1>2. /\ t \in Tty /\ t.line = <<>> /\ ~t.edit /\ t.oob = {} /\ ~t.timed /\ t.out \in Seq(Told)
      /\ t.pending => t.ahead = <<>> /\ t.terms = AnyKey
  BY DEF CtTty, CtOK
<1> HIDE DEF k
<1>3. Key(t, key) = IF ~t.pending THEN Ahead(t, k)
                    ELSE IF k = "ESC" /\ t.esc = <<>> /\ t.recognize THEN v
                    ELSE IF t.esc = <<>> THEN r ELSE EscapeKey(t, k)
  BY <1>1, <1>2 DEF Key, k
<1>4. /\ <<>> \in Keys /\ <<k>> \in Keys /\ <<k>> # <<>> /\ <<k>> \in Line
      /\ Append(<<>>, k) = <<k>>
  BY <1>1 DEF Keys, Line
<1>5. /\ i \o (<<k>> \o <<>>) = (i \o (<<>> \o <<>>)) \o <<k>>
      /\ (i \o <<k>>) \o (<<>> \o <<>>) = (i \o (<<>> \o <<>>)) \o <<k>>
  <2>1. i \in Keys
    BY KeysAre
  <2> HIDE DEF i
  <2> QED BY <2>1, <1>1, <1>4, KeysJoin
<1>6. CASE ~t.pending
  BY <1>1, <1>3, <1>6, AheadMoves DEF k
<1>7. CASE t.pending /\ t.esc = <<>> /\ Key(t, key) = v
  <2>1. v \in Tty
    BY <1>1, <1>2, WithLine
  <2>2. /\ v.line = <<>> /\ v.oob = {} /\ ~v.timed /\ ~v.edit /\ v.ahead = <<>>
        /\ v.terms = AnyKey /\ v.esc = <<k>> /\ v.out = t.out /\ v.pending /\ ~v.finished
    BY <1>2, <1>7 DEF Tty
  <2> HIDE DEF v, i
  <2>3. KeyMoves(t, v, k)
    BY <2>1, <2>2, <1>1, <1>2, <1>4, <1>5, <1>7, ReadMoves DEF i
  <2> QED BY <2>3, <1>7 DEF k
<1>8. CASE t.pending /\ t.esc = <<>> /\ Key(t, key) = r
  <2>1. w \in Tty
    BY <1>1, <1>2, WithLine
  <2>2. /\ w.line = <<k>> /\ w.oob = {} /\ ~w.timed /\ ~w.edit /\ w.ahead = <<>>
        /\ w.terms = AnyKey /\ w.esc = <<>> /\ w.out = t.out /\ ~w.finished
    BY <1>2, <1>4, <1>8 DEF Tty
  <2> HIDE DEF w
  <2>3. "terminator" \in Why
    BY DEF Why
  <2>4. /\ r \in Tty /\ ~r.pending /\ r.out = Append(w.out, ReadData(w.line, "terminator"))
        /\ Same(w, r) /\ r.line = <<>> /\ r.esc = w.esc /\ r.ahead = w.ahead
    BY <2>1, <2>3, SentBufferIs
  <2>5. r.out \in Seq(Told) /\ InFlight(r.out) = i \o <<k>>
    <3> DEFINE o == t.out
               d == <<k>>
    <3>1. o \in Seq(Told) /\ r.out = Append(o, ReadData(d, "terminator"))
      BY <1>2, <2>2, <2>4
    <3>2. d \in Keys /\ d # <<>>
      BY <1>4
    <3> HIDE DEF o, r, d
    <3>3. /\ Append(o, ReadData(d, "terminator")) \in Seq(Told)
          /\ InFlight(Append(o, ReadData(d, "terminator"))) = InFlight(o) \o d
      BY ONLY <3>1, <3>2, <2>3, ToldIs
    <3> QED BY <3>1, <3>3 DEF o, d
  <2> HIDE DEF r, i
  <2>6. KeyMoves(t, r, k)
    BY <2>2, <2>4, <2>5, <1>1, <1>2, <1>4, <1>5, <1>8, ReadMoves DEF i, Same
  <2> QED BY <2>6, <1>8 DEF k
<1>9. CASE t.pending /\ Key(t, key) = EscapeKey(t, k)
  BY <1>1, <1>9, EscapeMoves DEF k
<1> QED BY <1>3, <1>6, <1>7, <1>8, <1>9
\* A key that is exit_char, or that comes after it
LEMMA KeyEnds ==
  ASSUME NEW t \in CtTty, NEW key \in AnyKey \cup {Exit}, t.finished \/ key = Exit
  PROVE  /\ Key(t, key) \in CtTty /\ Key(t, key).finished /\ Key(t, key).out = t.out
         /\ Key(t, key).pending = t.pending /\ HeldBy(Key(t, key)) = HeldBy(t)
<1> DEFINE v == [t EXCEPT !.finished = TRUE]
<1>1. t \in Tty
  BY DEF CtTty
<1>2. CASE t.finished
  <2>1. Key(t, key) = t
    BY <1>2 DEF Key
  <2> QED BY <2>1, <1>2
<1>3. CASE ~t.finished
  <2>1. Key(t, key) = v
    BY <1>3 DEF Key
  <2>2. /\ v \in Tty /\ v.line = t.line /\ v.oob = t.oob /\ v.timed = t.timed /\ v.edit = t.edit
        /\ v.esc = t.esc /\ v.ahead = t.ahead /\ v.out = t.out /\ v.pending = t.pending
        /\ v.terms = t.terms /\ v.finished
    BY <1>1 DEF Tty
  <2> HIDE DEF v
  <2>3. v \in CtTty /\ HeldBy(v) = HeldBy(t)
    BY <2>2 DEF CtTty, CtOK, HeldBy
  <2> QED BY <2>1, <2>2, <2>3
<1> QED BY <1>2, <1>3

LEMMA KeyStays ==
  ASSUME NEW t \in CtTty, NEW key \in AnyKey \cup {Exit}
  PROVE  Key(t, key) \in CtTty
BY KeyEnds, KeyPasses DEF KeyMoves

\* One key more of those typed ahead
LEMMA MovedOn ==
  ASSUME NEW b \in CtTty, NEW v \in CtTty, NEW x \in Keys, NEW k \in Clean, Moved(b, v, x),
         v.finished \/ Len(v.ahead) < AheadSize
  PROVE  Moved(b, Key(v, k), Append(x, k))
<1> DEFINE B == KeysOf(b)
           u == Key(v, k)
<1>1. PICK X \in Keys : InFlight(v.out) \o X = B \o x /\ (~v.finished => X = HeldBy(v))
  BY DEF Moved
<1>2. /\ B \in Keys /\ InFlight(v.out) \in Keys /\ k \in AnyKey
  BY KeysAre DEF Clean
<1> HIDE DEF B
<1>3. B \o Append(x, k) = Append(B \o x, k) /\ Append(x, k) \in Keys
  BY <1>2, AppendJoin DEF Keys
<1>4. CASE v.finished \/ k = Exit
  <2>1. u.finished /\ u.out = v.out
    BY <1>2, <1>4, KeyEnds
  <2> DEFINE i == InFlight(v.out)
  <2>2. i \in Keys
    BY <1>2
  <2> HIDE DEF u, i
  <2>3. i \o Append(X, k) = Append(i \o X, k) /\ Append(X, k) \in Keys
    BY <2>2, AppendJoin DEF Keys
  <2>4. InFlight(u.out) \o Append(X, k) = B \o Append(x, k)
    BY <2>1, <2>3, <1>1, <1>3 DEF i
  <2> QED BY <2>1, <2>3, <2>4 DEF Moved, B, u
<1>5. CASE ~v.finished /\ k # Exit
  <2>1. KeyMoves(v, u, k)
    BY <1>2, <1>5, KeyPasses, ConvertedIs
  <2> HIDE DEF u
  <2>2. u \in CtTty /\ KeysOf(u) = KeysOf(v) \o <<k>> /\ KeysOf(v) = B \o x
    BY <2>1, <1>1, <1>5 DEF KeyMoves, KeysOf
  <2>3. B \o x \in Seq(Clean)
    BY <1>2, JoinKeys DEF Keys
  <2>4. (B \o x) \o <<k>> = Append(B \o x, k)
    BY ONLY <2>3, k \in Clean, AppendIsConcat
  <2>5. HeldBy(u) \in Keys /\ InFlight(u.out) \o HeldBy(u) = B \o Append(x, k)
    BY <2>2, <2>4, <1>3, KeysAre DEF KeysOf
  <2> QED BY <2>5 DEF Moved, B, u
<1> QED BY <1>4, <1>5

LEMMA ProcessPasses ==
  ASSUME NEW b \in CtTty, ~b.finished, b.ahead = <<>>, NEW keys \in Keys, Len(keys) <= AheadSize
  PROVE  ProcessTerminal(b, keys) \in CtTty /\ Moved(b, ProcessTerminal(b, keys), keys)
<1> DEFINE L == Len(keys)
<1>1. /\ keys \in Seq(AnyKey) /\ keys \in Seq(Clean) /\ L \in Nat /\ AheadSize \in Nat
      /\ \A n \in 1..L : keys[n] \in Clean /\ keys[n] \in AnyKey
  <2>1. \A s \in Seq(Clean) : s \in Seq(AnyKey)
    BY DEF Clean
  <2> QED BY <2>1, AheadAssumption DEF Keys, Clean
<1>2. PICK w \in [0..L -> CtTty] :
        /\ w[0] = b
        /\ \A n \in 1..L : w[n] = Key(w[n - 1], keys[n])
        /\ ProcessTerminal(b, keys) = w[L]
  <2>1. \A u \in CtTty, k \in AnyKey : Key(u, k) \in CtTty
    BY KeyStays
  <2> DEFINE D == CtTty
  <2>2. b \in D /\ \A u \in D, k \in AnyKey : Key(u, k) \in D
    BY <2>1
  <2> HIDE DEF D
  <2>3. \E w : Typed(w, D, b, keys)
    BY ONLY <2>2, <1>1, ProcessSteps
  <2> QED BY ONLY <2>3 DEF D, Typed
<1> DEFINE At(n) == Moved(b, w[n], SubSeq(keys, 1, n)) /\ (w[n].finished \/ Len(w[n].ahead) <= n)
           T == {n \in Nat : n <= L => At(n)}
<1>3. 0 \in T
  <2>1. SubSeq(keys, 1, 0) = <<>> /\ Len(<<>>) = 0 /\ <<>> \in Keys
    BY <1>1 DEF Keys
  <2>2. Moved(b, b, <<>>)
    <3> DEFINE B == KeysOf(b)
    <3>1. B \in Keys /\ HeldBy(b) \in Keys
      BY KeysAre
    <3> HIDE DEF B
    <3>2. B \o <<>> = B
      BY <3>1 DEF Keys
    <3> QED BY <3>1, <3>2 DEF Moved, KeysOf, B
  <2>3. Len(w[0].ahead) <= 0
    BY <2>1, <1>2
  <2>4. Moved(b, w[0], SubSeq(keys, 1, 0))
    BY ONLY <2>1, <2>2, <1>2
  <2>5. At(0)
    BY <2>3, <2>4
  <2> QED BY <2>5
<1>4. ASSUME NEW n \in T PROVE n + 1 \in T
  <2> SUFFICES ASSUME n + 1 <= L PROVE At(n + 1)
    OBVIOUS
  <2> DEFINE k == keys[n + 1]
             v == w[n]
             x == SubSeq(keys, 1, n)
  <2>1. n \in Nat /\ n <= L /\ n + 1 \in 1..L /\ (n + 1) - 1 = n /\ n < AheadSize /\ n \in 0..L
    BY <1>1
  <2>2. v \in CtTty /\ Moved(b, v, x) /\ (v.finished \/ Len(v.ahead) <= n) /\ k \in Clean
        /\ w[n + 1] = Key(v, k) /\ k \in AnyKey
    BY <2>1, <1>1, <1>2
  <2>3. x \in Keys /\ SubSeq(keys, 1, n + 1) = Append(x, k)
    BY <2>1, <1>1 DEF Keys
  <2> HIDE DEF k, v, x
  <2>4. Len(v.ahead) \in Nat
    BY <2>2 DEF CtTty, CtOK, Keys
  <2>5. v.finished \/ Len(v.ahead) < AheadSize
    BY ONLY <2>1, <2>2, <2>4, <1>1
  <2>6. Moved(b, Key(v, k), Append(x, k))
    BY <2>2, <2>3, <2>5, MovedOn
  <2>7. CASE v.finished \/ k = Exit
    <3>1. Key(v, k).finished
      BY <2>2, <2>7, KeyEnds
    <3> QED BY <3>1, <2>2, <2>3, <2>6
  <2>8. CASE ~v.finished /\ k # Exit
    <3>1. Len(Key(v, k).ahead) <= Len(v.ahead) + 1 /\ Len(Key(v, k).ahead) \in Nat
      <4>1. KeyMoves(v, Key(v, k), Converted(v, k))
        BY ONLY <2>2, <2>8, KeyPasses
      <4>2. Len(Key(v, k).ahead) <= Len(v.ahead) + 1 /\ Key(v, k) \in CtTty
        BY ONLY <4>1 DEF KeyMoves
      <4>3. Key(v, k).ahead \in Keys
        BY ONLY <4>2 DEF CtTty, CtOK
      <4> QED BY <4>2, <4>3 DEF Keys
    <3>2. Len(Key(v, k).ahead) <= n + 1
      BY ONLY <3>1, <2>1, <2>2, <2>4, <2>8
    <3> QED BY <3>2, <2>2, <2>3, <2>6
  <2> QED BY <2>7, <2>8
<1>5. T = Nat
  <2>1. T \in SUBSET Nat
    OBVIOUS
  <2> HIDE DEF T
  <2> QED BY <2>1, <1>3, <1>4, NatUp
<1>6. L \in T /\ L \in 0..L /\ SubSeq(keys, 1, L) = keys
  <2> HIDE DEF T
  <2> QED BY <1>1, <1>5
<1>7. Moved(b, w[L], keys)
  BY <1>1, <1>6
<1> QED BY <1>2, <1>6, <1>7
-----------------------------------------------------------------------------
(* What ctermd says, and what the terminal does with it *)
FromCterm == {Bind, Initiate, SetChar, Write, CtermRead, Unbind}

LEMMA MovedSame ==
  ASSUME NEW t \in CtTty, NEW u \in CtTty, InFlight(u.out) = InFlight(t.out), HeldBy(u) = HeldBy(t)
  PROVE  Moved(t, u, <<>>)
<1> DEFINE B == KeysOf(t)
<1>1. B \in Keys /\ HeldBy(u) \in Keys /\ InFlight(u.out) \o HeldBy(u) = B
  BY KeysAre DEF KeysOf
<1> HIDE DEF B
<1>2. B \o <<>> = B
  BY <1>1 DEF Keys
<1> QED BY <1>1, <1>2 DEF Moved, B

LEMMA SayPasses ==
  ASSUME NEW t \in CtTty, NEW m \in Greeting
  PROVE  /\ Say(t, m) \in CtTty /\ Moved(t, Say(t, m), <<>>)
         /\ Say(t, m).pending = t.pending /\ Say(t, m).out = Append(t.out, m)
<1> DEFINE o == Append(t.out, m)
           u == Say(t, m)
<1>1. t \in Tty /\ o \in Seq(Told) /\ InFlight(o) = InFlight(t.out)
  BY SaysNothing DEF CtTty
<1>2. o \in Seq(Said)
  <2>1. \A s \in Seq(Told) : s \in Seq(Said)
    BY DataIs
  <2> QED BY <1>1, <2>1
<1>3. u = [t EXCEPT !.out = o]
  BY DEF Say
<1> HIDE DEF o
<1>4. /\ u \in Tty /\ u.out = o /\ u.pending = t.pending /\ u.line = t.line /\ u.oob = t.oob
      /\ u.timed = t.timed /\ u.edit = t.edit /\ u.esc = t.esc /\ u.ahead = t.ahead
      /\ u.terms = t.terms
  BY <1>1, <1>2, <1>3 DEF Tty
<1> HIDE DEF u
<1>5. u \in CtTty /\ HeldBy(u) = HeldBy(t)
  BY <1>1, <1>4 DEF CtTty, CtOK, HeldBy
<1>6. Moved(t, u, <<>>)
  BY <1>1, <1>4, <1>5, MovedSame
<1> QED BY <1>4, <1>5, <1>6 DEF u, o

LEMMA BeginPasses ==
  ASSUME NEW t \in CtTty, ~t.finished
  PROVE  BeginRead(t, CtermRead) \in CtTty /\ Moved(t, BeginRead(t, CtermRead), <<>>)
<1> DEFINE m == CtermRead
           b == Beginning(t, m)
           u == BeginRead(t, m)
<1>1. /\ m \in ReadOf /\ m.edit = FALSE /\ m.line = <<>> /\ m.terms = AnyKey /\ m.timed = FALSE
      /\ m.clear = FALSE
  BY HostSaysIs DEF CtermRead, StartRead
<1>2. AnyKey # {}
  BY DEF AnyKey, ControlKeys
<1>3. /\ t \in Tty /\ CtOK(t)
  BY DEF CtTty
<1> HIDE DEF m
<1>4. /\ b \in Tty /\ b.edit = m.edit /\ b.line = m.line
      /\ b.terms = (IF m.terms = {} THEN t.terms ELSE m.terms) /\ b.pending /\ b.ahead = <<>>
      /\ b.timed = m.timed /\ b.esc = t.esc /\ b.oob = t.oob /\ b.out = t.out
      /\ b.finished = t.finished
  BY <1>1, <1>3, BeginningIs
<1>5. u = ProcessTerminal(b, t.ahead)
  BY <1>1 DEF BeginRead, Beginning
<1> HIDE DEF b, u
<1>6. <<>> \in Keys /\ Len(<<>>) <= AheadSize
  BY AheadAssumption DEF Keys
<1>7. CtOK(b)
  BY <1>1, <1>2, <1>3, <1>4, <1>6 DEF CtOK
<1>8. t.ahead \in Keys /\ Len(t.ahead) <= AheadSize /\ t.esc \in Keys
  BY <1>3 DEF CtOK
<1>9. u \in CtTty /\ Moved(b, u, t.ahead)
  BY <1>4, <1>5, <1>7, <1>8, ProcessPasses DEF CtTty
<1>10. KeysOf(b) \o t.ahead = KeysOf(t) \o <<>>
  <2> DEFINE i == InFlight(t.out)
             e == t.esc
             a == t.ahead
  <2>1. i \in Seq(Clean) /\ e \in Seq(Clean) /\ a \in Seq(Clean)
    BY <1>8, KeysAre DEF Keys
  <2>2. KeysOf(b) = i \o (e \o <<>>) /\ KeysOf(t) = i \o (e \o a)
    BY <1>4 DEF KeysOf, HeldBy
  <2> HIDE DEF i, e, a
  <2>3. e \o <<>> = e /\ e \o a \in Seq(Clean)
    BY <2>1
  <2>4. (i \o e) \o a = i \o (e \o a)
    BY <2>1, ConcatAssociative
  <2> DEFINE j == i \o (e \o a)
  <2>5. j \in Seq(Clean)
    BY <2>1, <2>3
  <2> HIDE DEF j
  <2>6. j \o <<>> = j
    BY <2>5
  <2> QED BY <2>2, <2>3, <2>4, <2>6 DEF j, a
<1>11. Moved(t, u, <<>>)
  BY <1>9, <1>10 DEF Moved
<1> QED BY <1>9, <1>11 DEF u, m

LEMMA ReceivePasses ==
  ASSUME NEW t \in CtTty, ~t.finished, NEW m \in FromCterm
  PROVE  /\ Receive(t, m) \in CtTty /\ Moved(t, Receive(t, m), <<>>)
         /\ m \in {Bind, Initiate} =>
              /\ Receive(t, m).pending = t.pending
              /\ Receive(t, m).out \in {Append(t.out, BindAccept), Append(t.out, Initiate)}
<1> DEFINE c == [t EXCEPT !.oob = {}, !.flush = {}, !.escapes = TRUE, !.states = TRUE,
                          !.recognize = TRUE]
           f == [t EXCEPT !.finished = TRUE]
<1>1. t \in Tty /\ CtOK(t) /\ t.oob = {}
  BY DEF CtTty, CtOK
<1>2. CASE m \in {Bind, Initiate}
  <2>1. m = Bind => Receive(t, m) = Say(t, BindAccept)
    BY DEF Receive, Bind
  <2>2. m = Initiate => Receive(t, m) = Say(t, Initiate)
    BY DEF Receive, Initiate
  <2>3. BindAccept \in Greeting /\ Initiate \in Greeting
    BY DEF Greeting
  <2> QED BY <1>2, <2>1, <2>2, <2>3, SayPasses
<1>3. CASE m \notin {Bind, Initiate}
  <2>1. CASE m = SetChar
    <3>1. Receive(t, m) = c
      BY <2>1 DEF Receive, SetChar, Characteristics
    <3>2. /\ c \in Tty /\ c.pending = t.pending /\ c.line = t.line /\ c.oob = {}
          /\ c.timed = t.timed /\ c.edit = t.edit /\ c.esc = t.esc /\ c.ahead = t.ahead
          /\ c.terms = t.terms /\ c.out = t.out
      BY <1>1 DEF Tty
    <3> HIDE DEF c
    <3>3. c \in CtTty /\ HeldBy(c) = HeldBy(t)
      BY <1>1, <3>2 DEF CtTty, CtOK, HeldBy
    <3> QED BY <1>3, <3>1, <3>2, <3>3, MovedSame
  <2>2. CASE m = Write
    <3>1. Receive(t, m) = t
      BY <2>2 DEF Receive, Write
    <3> QED BY <1>3, <3>1, MovedSame
  <2>3. CASE m = CtermRead
    <3>1. Receive(t, m) = BeginRead(t, CtermRead)
      BY <2>3 DEF Receive, CtermRead, StartRead
    <3> QED BY <1>3, <3>1, BeginPasses
  <2>4. CASE m = Unbind
    <3>1. Receive(t, m) = f
      BY <2>4 DEF Receive, Unbind
    <3>2. /\ f \in Tty /\ f.pending = t.pending /\ f.line = t.line /\ f.oob = t.oob
          /\ f.timed = t.timed /\ f.edit = t.edit /\ f.esc = t.esc /\ f.ahead = t.ahead
          /\ f.terms = t.terms /\ f.out = t.out
      BY <1>1 DEF Tty
    <3> HIDE DEF f
    <3>3. f \in CtTty /\ HeldBy(f) = HeldBy(t)
      BY <1>1, <3>2 DEF CtTty, CtOK, HeldBy
    <3> QED BY <1>3, <3>1, <3>2, <3>3, MovedSame
  <2> QED BY <1>3, <2>1, <2>2, <2>3, <2>4 DEF FromCterm
<1> QED BY <1>2, <1>3
-----------------------------------------------------------------------------
(* The invariant of a session with ctermd *)
Early == {"start", "bind", "init"}
CtHost == [kind : {"ctermd"}, st : Early \cup {"run", "gone"}, given : Line, asked : BOOLEAN,
           asks : Nat, talk : Nat]
Typist == [keys : Seq(AnyKey \cup {Exit}), typed : Keys]
ToClient(st) == IF st \in Early THEN {Bind, Initiate} ELSE FromCterm
ToServer(st) == IF st \in Early THEN Greeting ELSE Told
CtLink(st) == LinkOf(ToClient(st), ToServer(st))
BothUp(k) == k["server"].up /\ k["client"].up

\* login has given; k carries to it what the far end has sent; X is what the
\* terminal still holds, while it can be heard.
Streams(t, p, h, k) ==
  \E X \in Keys :
    /\ (PressState(h.given).keys \o InFlight(k["server"].queue)) \o X = p.typed
    /\ (BothUp(k) /\ ~t.finished) => X = HeldBy(t)

CtermOK(t, p, h, k) ==
  /\ t \in CtTty /\ t.out = <<>> /\ p \in Typist /\ h \in CtHost /\ k \in CtLink(h.st)
  /\ h.st \in Early => ~t.pending
  /\ h.st = "gone" => ~k["server"].up
  /\ ~PressState(h.given).half
  /\ Streams(t, p, h, k)
CtermInv == CtermOK(tty, typist, host, wire)

LEMMA LinkWider ==
  ASSUME NEW st, NEW k \in CtLink(st), NEW C, C = ToClient(st), NEW S, S = ToServer(st)
  PROVE  /\ k \in LinkOf(C, S) /\ k \in CtLink("run") /\ k["server"].queue \in Seq(Told)
         /\ S \subseteq Told /\ C \subseteq FromCterm /\ k["server"].queue \in Seq(S)
<1>1. S \subseteq Told /\ C \subseteq FromCterm
  BY DataIs DEF ToClient, ToServer, FromCterm
<1>2. k \in LinkOf(C, S)
  BY DEF CtLink
<1>3. /\ \A s \in Seq(C) : s \in Seq(FromCterm)
      /\ \A s \in Seq(S) : s \in Seq(Told)
  BY <1>1
<1>4. k \in LinkOf(FromCterm, Told)
  BY <1>2, <1>3 DEF LinkOf, EndOf
<1>5. k \in CtLink("run")
  BY <1>4 DEF CtLink, ToClient, ToServer, Early
<1>6. k["server"].queue \in Seq(S)
  BY <1>2, EndsOf
<1> QED BY <1>1, <1>2, <1>3, <1>5, <1>6

LEMMA StreamOn ==
  ASSUME NEW P \in Line, NEW I \in Keys, NEW O \in Keys, NEW Y \in Keys, NEW H \in Keys,
         NEW d \in Keys, Joined(O, Y) = Joined(H, d)
  PROVE  Joined(Joined(P, Joined(I, O)), Y) = Joined(Joined(Joined(P, I), H), d)
<1>1. /\ P \in Anys /\ I \in Anys /\ O \in Anys /\ Y \in Anys /\ H \in Anys /\ d \in Anys
      /\ Joined(P, I) \in Anys /\ Joined(I, O) \in Anys
  BY AnysAre, JoinFacts
<1>2. Joined(Joined(P, Joined(I, O)), Y) = Joined(P, Joined(Joined(I, O), Y))
  BY <1>1, JoinFacts
<1>3. Joined(Joined(I, O), Y) = Joined(I, Joined(O, Y))
  BY <1>1, JoinFacts
<1>4. Joined(Joined(Joined(P, I), H), d) = Joined(Joined(P, I), Joined(H, d))
  BY <1>1, JoinFacts
<1>5. Joined(Joined(P, I), Joined(H, d)) = Joined(P, Joined(I, Joined(H, d)))
  <2>1. Joined(H, d) \in Anys
    BY <1>1, JoinFacts
  <2> QED BY <1>1, <2>1, JoinFacts
<1> QED BY <1>2, <1>3, <1>4, <1>5

LEMMA StreamAdd ==
  ASSUME NEW a \in Line, NEW x \in Keys, NEW d \in Keys
  PROVE  a \o (x \o d) = (a \o x) \o d
<1>1. Joined(a, Joined(x, d)) = Joined(Joined(a, x), d)
  BY AnysAre, JoinFacts
<1> QED BY <1>1 DEF Joined

LEMMA JoinLine ==
  ASSUME NEW P \in Line, NEW I \in Keys
  PROVE  P \o I \in Line /\ P \o <<>> = P
BY DEF Line, Keys, Clean

LEMMA InvParts ==
  ASSUME NEW t, NEW p, NEW h, NEW k, CtermOK(t, p, h, k)
  PROVE  /\ t \in CtTty /\ t.out = <<>> /\ p \in Typist /\ h \in CtHost /\ k \in CtLink(h.st)
         /\ h.given \in Line /\ PressState(h.given).keys \in Line /\ p.typed \in Keys
         /\ k["server"].queue \in Seq(Told) /\ InFlight(k["server"].queue) \in Keys
         /\ HeldBy(t) \in Keys /\ KeysOf(t) = HeldBy(t)
<1>1. /\ t \in CtTty /\ t.out = <<>> /\ p \in Typist /\ h \in CtHost /\ k \in CtLink(h.st)
  BY DEF CtermOK
<1>2. h.given \in Line /\ p.typed \in Keys
  BY <1>1 DEF CtHost, Typist
<1>3. PressState(h.given).keys \in Line
  <2>1. "^Y" \in AnyKey
    BY DEF AnyKey, ControlKeys
  <2>2. PressState(h.given) \in Presser
    BY <1>2, <2>1, PressOne
  <2> QED BY <2>2 DEF Presser
<1>4. k["server"].queue \in Seq(Told)
  BY <1>1, LinkWider
<1>5. InFlight(k["server"].queue) \in Keys
  BY <1>4, FlightOne, DataIs DEF Greeting
<1>6. HeldBy(t) \in Keys /\ KeysOf(t) = HeldBy(t)
  <2> DEFINE H == HeldBy(t)
  <2>1. H \in Keys /\ KeysOf(t) = <<>> \o H
    BY <1>1, KeysAre, FlightNone DEF KeysOf
  <2> HIDE DEF H
  <2>2. <<>> \o H = H
    BY <2>1 DEF Keys
  <2> QED BY <2>1, <2>2 DEF H
<1> QED BY <1>1, <1>2, <1>3, <1>4, <1>5, <1>6

\* A step of the terminal: it becomes u, having taken d from the keyboard.
LEMMA BecomesCt ==
  ASSUME CtermInv, ~tty.finished, NEW u \in CtTty, NEW k \in CtLink(host.st), Becomes(u, k),
         k["server"] = wire["server"], k["client"].up = wire["client"].up,
         NEW d \in Keys, Moved(tty, u, d), typist' \in Typist, typist'.typed = typist.typed \o d,
         host.st \in Early => (~u.pending /\ u.out \in Seq(Greeting))
  PROVE  CtermInv'
<1> DEFINE sent == PutAll(k, "client", u.out)
           C == ToClient(host.st)
           S == ToServer(host.st)
           P == PressState(host.given).keys
           I == InFlight(wire["server"].queue)
           O == InFlight(u.out)
           H == HeldBy(tty)
           v == [u EXCEPT !.out = <<>>]
<1>1. /\ tty \in CtTty /\ typist \in Typist /\ host \in CtHost
      /\ P \in Line /\ I \in Keys /\ H \in Keys /\ KeysOf(tty) = H
      /\ wire["server"].queue \in Seq(Told) /\ u.out \in Seq(Told) /\ O \in Keys
      /\ typist.typed \in Keys
  <2>1. u.out \in Seq(Told)
    BY DEF CtTty, CtOK
  <2> QED BY <2>1, InvParts, KeysAre DEF CtermInv
<1>2. tty' = v /\ host' = host /\ wire' = IF u.finished THEN Shut(sent, "client") ELSE sent
  BY DEF Becomes
<1>3. /\ v \in CtTty /\ v.out = <<>> /\ HeldBy(v) = HeldBy(u) /\ v.finished = u.finished
      /\ v.pending = u.pending
  <2>1. u \in Tty /\ CtOK(u) /\ <<>> \in Seq(Said) /\ <<>> \in Seq(Told)
    BY DEF CtTty
  <2>2. /\ v \in Tty /\ v.pending = u.pending /\ v.line = u.line /\ v.oob = u.oob
        /\ v.timed = u.timed /\ v.edit = u.edit /\ v.esc = u.esc /\ v.ahead = u.ahead
        /\ v.terms = u.terms /\ v.out = <<>> /\ v.finished = u.finished
    BY <2>1 DEF Tty
  <2> HIDE DEF v
  <2> QED BY <2>1, <2>2 DEF CtTty, CtOK, HeldBy
<1>4. u.out \in Seq(S) /\ k \in LinkOf(C, S)
  BY <1>1 DEF ToServer, CtLink
<1>5. /\ sent \in LinkOf(C, S) /\ sent["client"] = k["client"]
      /\ sent["server"].up = wire["server"].up
      /\ sent["server"].queue = IF BothUp(wire) THEN wire["server"].queue \o u.out
                                ELSE wire["server"].queue
  <2> HIDE DEF C, S
  <2> QED BY <1>4, LinkPut DEF BothUp
<1> HIDE DEF sent
<1>6. /\ wire' \in LinkOf(C, S) /\ wire'["server"] = sent["server"]
      /\ wire'["client"].up => wire["client"].up
  <2> HIDE DEF C, S
  <2>1. /\ Shut(sent, "client") \in LinkOf(C, S) /\ Shut(sent, "client")["server"] = sent["server"]
        /\ ~Shut(sent, "client")["client"].up
    <3>1. "client" \in Ends /\ FarOf("client") = "server"
      BY DEF Ends, FarOf
    <3> QED BY <3>1, <1>5, LinkShut
  <2> QED BY <2>1, <1>2, <1>5
<1>7. PICK X \in Keys : /\ (P \o I) \o X = typist.typed
                        /\ (BothUp(wire) /\ ~tty.finished) => X = H
  BY DEF CtermInv, CtermOK, Streams
<1>8. PICK Y \in Keys : O \o Y = H \o d /\ (~u.finished => Y = HeldBy(u))
  BY <1>1 DEF Moved
<1> HIDE DEF P, I, O, H, v, C, S
<1>9. CASE BothUp(wire)
  <2>1. wire'["server"].queue = wire["server"].queue \o u.out
    BY <1>5, <1>6, <1>9
  <2>2. InFlight(wire'["server"].queue) = I \o O
    BY <2>1, <1>1, FlightJoin DEF I, O
  <2>3. (P \o (I \o O)) \o Y = ((P \o I) \o H) \o d
    <3>1. P \in Line /\ I \in Keys /\ O \in Keys /\ Y \in Keys /\ H \in Keys /\ d \in Keys
      BY <1>1, <1>8
    <3>2. Joined(O, Y) = Joined(H, d)
      BY <1>8 DEF Joined
    <3>3. Joined(Joined(P, Joined(I, O)), Y) = Joined(Joined(Joined(P, I), H), d)
      BY ONLY <3>1, <3>2, StreamOn
    <3> QED BY ONLY <3>3 DEF Joined
  <2>4. (P \o (I \o O)) \o Y = typist'.typed
    BY <2>3, <1>7, <1>9
  <2>5. Streams(v, typist', host', wire')
    BY <2>2, <2>4, <1>2, <1>3, <1>8 DEF Streams, P
  <2> QED BY <2>5, <1>1, <1>2, <1>3, <1>5, <1>6 DEF CtermInv, CtermOK, CtLink, C, S
<1>10. CASE ~BothUp(wire)
  <2>1. wire'["server"].queue = wire["server"].queue /\ ~BothUp(wire')
    BY <1>5, <1>6, <1>10 DEF BothUp
  <2>2. (P \o I) \o (X \o d) = typist'.typed /\ X \o d \in Keys
    <3>1. P \in Line /\ I \in Keys /\ X \in Keys /\ d \in Keys /\ (P \o I) \o X = typist.typed
      BY <1>1, <1>7
    <3>2. (P \o I) \o (X \o d) = ((P \o I) \o X) \o d
      <4>1. P \o I \in Line
        BY ONLY <3>1, JoinLine
      <4> DEFINE a == P \o I
      <4> HIDE DEF a
      <4>2. a \o (X \o d) = (a \o X) \o d
        BY <4>1, <3>1, StreamAdd DEF a
      <4> QED BY <4>2 DEF a
    <3>3. X \o d \in Keys
      BY ONLY <3>1, JoinKeys
    <3> QED BY <3>1, <3>2, <3>3
  <2>3. Streams(v, typist', host', wire')
    BY <2>1, <2>2, <1>2 DEF Streams, P, I
  <2> QED BY <2>3, <1>1, <1>2, <1>3, <1>5, <1>6 DEF CtermInv, CtermOK, CtLink, C, S
<1> QED BY <1>9, <1>10

\* A key is typed.
LEMMA TypeCt == ASSUME CtermInv, Type PROVE CtermInv'
<1> DEFINE k == Head(typist.keys)
           u == Key(tty, k)
           c == Converted(tty, k)
<1>1. /\ tty \in CtTty /\ tty.out = <<>> /\ typist \in Typist /\ wire \in CtLink(host.st)
      /\ HeldBy(tty) \in Keys /\ KeysOf(tty) \in Keys /\ ~tty.finished /\ tty.oob = {}
      /\ host.st \in Early => ~tty.pending
  BY InvParts, KeysAre DEF CtermInv, CtermOK, Type, CtTty, CtOK
<1>2. k \in AnyKey \cup {Exit} /\ Tail(typist.keys) \in Seq(AnyKey \cup {Exit})
  BY <1>1 DEF Type, Typist
<1>3. /\ Becomes(u, wire)
      /\ typist' = [keys |-> Tail(typist.keys),
                    typed |-> IF HasRoom(k) /\ k # Exit THEN Append(typist.typed, c) ELSE typist.typed]
  BY DEF Type
<1>4. u \in CtTty
  BY <1>1, <1>2, KeyStays
<1>5. typist.typed \in Keys
  BY <1>1 DEF Typist
<1>6. /\ <<>> \in Seq(Greeting) /\ Append(<<>>, InputState) \in Seq(Greeting)
      /\ <<>> \in Keys
  BY DEF Greeting, Keys
<1>7. CASE k = Exit
  <2>1. /\ u.out = tty.out /\ u.pending = tty.pending /\ HeldBy(u) = HeldBy(tty)
    BY <1>1, <1>2, <1>7, KeyEnds
  <2> HIDE DEF u, k
  <2>2. Moved(tty, u, <<>>)
    BY <1>1, <1>4, <2>1, MovedSame
  <2>3. typist' = [keys |-> Tail(typist.keys), typed |-> typist.typed]
    BY <1>3, <1>7
  <2>4. typist.typed = typist.typed \o <<>>
    BY <1>5 DEF Keys
  <2>5. typist' \in Typist /\ typist'.typed = typist.typed \o <<>>
    BY <2>3, <2>4, <1>2, <1>5 DEF Typist
  <2>6. wire["server"] = wire["server"] /\ wire["client"].up = wire["client"].up
    OBVIOUS
  <2>7. host.st \in Early => (~u.pending /\ u.out \in Seq(Greeting))
    BY <1>1, <1>6, <2>1
  <2> QED BY <1>1, <1>3, <1>4, <1>6, <2>2, <2>5, <2>6, <2>7, BecomesCt
<1>8. CASE k # Exit
  <2> DEFINE room == tty.pending \/ Len(tty.ahead) < AheadSize
             d == IF room THEN <<c>> ELSE <<>>
  <2>1. k \in AnyKey /\ c \in Clean /\ c \notin tty.oob
    BY <1>1, <1>2, <1>8, ConvertedIs
  <2>2. KeyMoves(tty, u, c)
    BY <1>1, <2>1, <1>8, KeyPasses
  <2>3. HasRoom(k) <=> room
    BY <2>1 DEF HasRoom
  <2>4. d \in Keys
    BY <2>1, <1>6 DEF Keys
  <2>5. typist' = [keys |-> Tail(typist.keys),
                   typed |-> IF room THEN Append(typist.typed, c) ELSE typist.typed]
    BY <1>3, <1>8, <2>3
  <2>6. typist.typed \o d = IF room THEN Append(typist.typed, c) ELSE typist.typed
    <3>1. typist.typed \o <<>> = typist.typed
      BY <1>5 DEF Keys
    <3>2. typist.typed \o <<c>> = Append(typist.typed, c)
      <4> HIDE DEF c
      <4>1. typist.typed \in Seq(Clean) /\ c \in Clean
        BY <1>5, <2>1 DEF Keys
      <4> QED BY <4>1, AppendIsConcat
    <3> HIDE DEF c, room
    <3> QED BY <3>1, <3>2
  <2> HIDE DEF u, k, c
  <2>7. KeysOf(u) = KeysOf(tty) \o d
    <3>1. KeysOf(tty) \o <<>> = KeysOf(tty)
      BY <1>1 DEF Keys
    <3> QED BY <2>2, <3>1 DEF KeyMoves
  <2> HIDE DEF room, d
  <2>8. Moved(tty, u, d)
    <3>1. HeldBy(u) \in Keys /\ InFlight(u.out) \o HeldBy(u) = KeysOf(tty) \o d
      BY <1>4, <2>7, KeysAre DEF KeysOf
    <3> QED BY <3>1 DEF Moved
  <2>9. typist' \in Typist /\ typist'.typed = typist.typed \o d
    <3>1. typist.typed \o d \in Keys
      BY <1>5, <2>4, JoinKeys
    <3>2. typist' = [keys |-> Tail(typist.keys), typed |-> typist.typed \o d]
      BY <2>5, <2>6
    <3> QED BY <3>1, <3>2, <1>2 DEF Typist
  <2>10. host.st \in Early => (~u.pending /\ u.out \in Seq(Greeting))
    BY <1>1, <1>6, <2>2 DEF KeyMoves
  <2>11. wire["server"] = wire["server"] /\ wire["client"].up = wire["client"].up
    OBVIOUS
  <2> QED BY <1>1, <1>3, <1>4, <2>4, <2>8, <2>9, <2>10, <2>11, BecomesCt
<1> QED BY <1>7, <1>8

LEMMA FoundReadCt == ASSUME CtermInv, FoundRead PROVE CtermInv'
<1> DEFINE m == Foremost(wire, "client")
           u == Receive(tty, m)
           k == Taken(wire, "client")
<1>1. /\ tty \in CtTty /\ tty.out = <<>> /\ typist \in Typist /\ wire \in CtLink(host.st)
      /\ typist.typed \in Keys /\ ~tty.finished /\ Waiting(wire, "client") /\ Becomes(u, k)
      /\ typist' = typist /\ (host.st \in Early => ~tty.pending)
  BY InvParts DEF CtermInv, CtermOK, FoundRead
<1>2. wire \in LinkOf(ToClient(host.st), ToServer(host.st)) /\ ToClient(host.st) \subseteq FromCterm
  BY <1>1, LinkWider
<1>3. /\ k \in CtLink(host.st) /\ k["server"] = wire["server"] /\ k["client"].up = wire["client"].up
      /\ m \in ToClient(host.st)
  <2>1. "client" \in Ends /\ FarOf("client") = "server"
    BY DEF Ends, FarOf
  <2> QED BY <1>1, <1>2, <2>1, LinkTaken DEF CtLink
<1> HIDE DEF k, m
<1>4. /\ u \in CtTty /\ Moved(tty, u, <<>>)
      /\ m \in {Bind, Initiate} =>
           u.pending = tty.pending /\ u.out \in {Append(tty.out, BindAccept), Append(tty.out, Initiate)}
  BY <1>1, <1>2, <1>3, ReceivePasses
<1> HIDE DEF u
<1>5. host.st \in Early => (~u.pending /\ u.out \in Seq(Greeting))
  <2>1. Append(<<>>, BindAccept) \in Seq(Greeting) /\ Append(<<>>, Initiate) \in Seq(Greeting)
    BY DEF Greeting
  <2> QED BY <1>1, <1>3, <1>4, <2>1 DEF ToClient
<1>6. <<>> \in Keys /\ typist' \in Typist /\ typist'.typed = typist.typed \o <<>>
  BY <1>1 DEF Keys
<1> QED BY <1>1, <1>3, <1>4, <1>5, <1>6, BecomesCt

LEMMA LinkGoneCt == ASSUME CtermInv, LinkGone PROVE CtermInv'
<1> DEFINE u == [tty EXCEPT !.finished = TRUE]
<1>1. /\ tty \in CtTty /\ tty.out = <<>> /\ typist \in Typist /\ wire \in CtLink(host.st)
      /\ typist.typed \in Keys /\ ~tty.finished /\ Becomes(u, wire)
      /\ typist' = typist /\ (host.st \in Early => ~tty.pending)
  BY InvParts DEF CtermInv, CtermOK, LinkGone
<1>2. /\ u \in Tty /\ u.pending = tty.pending /\ u.line = tty.line /\ u.oob = tty.oob
      /\ u.timed = tty.timed /\ u.edit = tty.edit /\ u.esc = tty.esc /\ u.ahead = tty.ahead
      /\ u.terms = tty.terms /\ u.out = tty.out
  BY <1>1 DEF CtTty, Tty
<1> HIDE DEF u
<1>3. u \in CtTty /\ HeldBy(u) = HeldBy(tty)
  BY <1>1, <1>2 DEF CtTty, CtOK, HeldBy
<1>4. Moved(tty, u, <<>>)
  BY <1>1, <1>2, <1>3, MovedSame
<1>5. host.st \in Early => (~u.pending /\ u.out \in Seq(Greeting))
  <2>1. <<>> \in Seq(Greeting)
    OBVIOUS
  <2> QED BY <1>1, <1>2, <2>1
<1>6. <<>> \in Keys /\ typist' \in Typist /\ typist'.typed = typist.typed \o <<>>
  BY <1>1 DEF Keys
<1>7. wire["server"] = wire["server"] /\ wire["client"].up = wire["client"].up
  OBVIOUS
<1> QED BY <1>1, <1>3, <1>4, <1>5, <1>6, <1>7, BecomesCt

-----------------------------------------------------------------------------
(* Steps of ctermd, and of the link: the terminal does nothing. *)
LEMMA CtLinks ==
  ASSUME NEW st, NEW k \in CtLink(st)
  PROVE  /\ \A s : s \notin Early => k \in CtLink(s)
         /\ st \in Early => \A s \in Early : k \in CtLink(s)
<1>1. k \in CtLink("run")
  BY LinkWider
<1>2. \A s : s \notin Early => CtLink(s) = CtLink("run")
  BY DEF CtLink, ToClient, ToServer, Early
<1>3. st \in Early => \A s \in Early : CtLink(s) = CtLink(st)
  BY DEF CtLink, ToClient, ToServer
<1> QED BY <1>1, <1>2, <1>3

LEMMA QueueGone ==
  ASSUME NEW C, NEW S, NEW k \in LinkOf(C, S)
  PROVE  Shut(k, "server")["server"].queue = <<>> /\ Cut(k, "server")["server"].queue = <<>>
BY DEF LinkOf, EndOf, Shut, ShutEnd, Cut

LEMMA HostMoves ==
  ASSUME CtermInv, UNCHANGED <<tty, typist>>, host' \in CtHost, wire' \in CtLink(host'.st),
         host'.st \in Early => host.st \in Early, host'.st = "gone" => ~wire'["server"].up,
         ~PressState(host'.given).half, Streams(tty, typist, host', wire')
  PROVE  CtermInv'
BY DEF CtermInv, CtermOK

\* No key is taken from the link.
LEMMA StreamsOn ==
  ASSUME CtermInv, NEW h, NEW k, BothUp(k) => BothUp(wire),
         PressState(h.given).keys \o InFlight(k["server"].queue) =
           PressState(host.given).keys \o InFlight(wire["server"].queue)
  PROVE  Streams(tty, typist, h, k)
<1>1. Streams(tty, typist, host, wire)
  BY DEF CtermInv, CtermOK
<1> QED BY <1>1 DEF Streams

\* What is under way is lost with the link.
LEMMA StreamsCut ==
  ASSUME CtermInv, NEW h, h.given = host.given, NEW k, ~BothUp(k), k["server"].queue = <<>>
  PROVE  Streams(tty, typist, h, k)
<1> DEFINE P == PressState(host.given).keys
           I == InFlight(wire["server"].queue)
<1>1. P \in Line /\ I \in Keys
  BY InvParts DEF CtermInv
<1>2. PICK X \in Keys : (P \o I) \o X = typist.typed
  BY DEF CtermInv, CtermOK, Streams
<1>3. InFlight(k["server"].queue) = <<>> /\ PressState(h.given).keys = P
  BY FlightNone
<1> HIDE DEF P, I
<1>4. I \o X \in Keys
  BY <1>1, <1>2, JoinKeys
<1>5. P \o <<>> = P
  BY <1>1, JoinLine
<1>6. (P \o <<>>) \o (I \o X) = typist.typed
  <2>1. P \o (I \o X) = (P \o I) \o X
    BY ONLY <1>1, <1>2, StreamAdd
  <2> QED BY ONLY <2>1, <1>2, <1>5
<1> QED BY <1>3, <1>4, <1>6 DEF Streams

\* The messages ms of a host on link k
LEMMA HostPuts ==
  ASSUME NEW st, NEW k \in CtLink(st), NEW ms \in Seq(ToClient(st)), NEW r,
         r = PutAll(k, "server", ms)
  PROVE  r \in CtLink(st) /\ r["server"] = k["server"] /\ r["client"].up = k["client"].up
<1> DEFINE C == ToClient(st)
           S == ToServer(st)
<1>1. k \in LinkOf(C, S) /\ ms \in Seq(C)
  BY DEF CtLink
<1> HIDE DEF C, S
<1>2. r \in LinkOf(C, S) /\ r["server"] = k["server"] /\ r["client"].up = k["client"].up
  BY <1>1, LinkPut
<1> QED BY <1>2 DEF CtLink, C, S

LEMMA HostParts ==
  ASSUME CtermInv
  PROVE  /\ host \in CtHost /\ wire \in CtLink(host.st) /\ ~PressState(host.given).half
         /\ wire["server"].queue \in Seq(Told) /\ PressState(host.given).keys \in Line
         /\ wire \in LinkOf(ToClient(host.st), ToServer(host.st))
<1>1. wire \in CtLink(host.st)
  BY DEF CtermInv, CtermOK
<1> QED BY <1>1, InvParts, LinkWider DEF CtermInv, CtermOK

\* The first message taken
LEMMA HostTakes ==
  ASSUME CtermInv, Waiting(wire, "server"), NEW k, k = Taken(wire, "server"),
         NEW m, m = Foremost(wire, "server")
  PROVE  /\ k \in CtLink(host.st) /\ k["client"] = wire["client"] /\ k["server"].up = wire["server"].up
         /\ m \in ToServer(host.st) /\ m \in Told /\ k["server"].queue \in Seq(Told)
         /\ InFlight(wire["server"].queue) = DataOf(m) \o InFlight(k["server"].queue)
         /\ InFlight(k["server"].queue) \in Keys /\ DataOf(m) \in Keys
<1> DEFINE q == wire["server"].queue
<1>1. /\ wire \in LinkOf(ToClient(host.st), ToServer(host.st)) /\ q \in Seq(Told) /\ q # <<>>
      /\ m = Head(q)
  BY HostParts DEF Waiting, Foremost
<1>2. /\ k \in CtLink(host.st) /\ k["client"] = wire["client"] /\ k["server"].up = wire["server"].up
      /\ k["server"].queue = Tail(q) /\ m \in ToServer(host.st)
  <2>1. "server" \in Ends /\ FarOf("server") = "client"
    BY DEF Ends, FarOf
  <2> QED BY <1>1, <2>1, LinkTaken DEF CtLink
<1> HIDE DEF q
<1>3. m \in Told /\ Tail(q) \in Seq(Told) /\ InFlight(q) = DataOf(m) \o InFlight(Tail(q))
  BY <1>1, FlightTaken
<1>4. InFlight(Tail(q)) \in Keys /\ DataOf(m) \in Keys
  BY <1>3, DataIs, FlightOne DEF Greeting
<1> QED BY <1>2, <1>3, <1>4 DEF q

LEMMA CtermBindCt == ASSUME CtermInv, CtermBind PROVE CtermInv'
<1> DEFINE ms == <<Bind>>
<1>1. /\ host \in CtHost /\ wire \in CtLink(host.st) /\ ~PressState(host.given).half
      /\ wire \in LinkOf(ToClient(host.st), ToServer(host.st))
      /\ host.st = "start" /\ wire' = PutAll(wire, "server", ms)
      /\ host' = [host EXCEPT !.st = "bind"] /\ UNCHANGED <<tty, typist>>
  BY HostParts DEF CtermBind, HostSays, HostIs
<1>2. host' \in CtHost /\ host'.given = host.given /\ host'.st = "bind"
  BY <1>1 DEF CtHost, Early
<1>3. ms \in Seq(ToClient(host.st)) /\ host.st \in Early /\ "bind" \in Early
  BY <1>1 DEF ToClient, Early
<1>4. /\ wire' \in CtLink(host.st) /\ wire'["server"] = wire["server"]
      /\ wire'["client"].up = wire["client"].up
  <2> HIDE DEF ms
  <2> QED BY ONLY <1>1, <1>3, HostPuts
<1>5. wire' \in CtLink("bind")
  BY <1>3, <1>4, CtLinks
<1>6. Streams(tty, typist, host', wire')
  BY <1>2, <1>4, StreamsOn DEF BothUp
<1> QED BY <1>1, <1>2, <1>3, <1>5, <1>6, HostMoves

LEMMA CtermOutputCt == ASSUME CtermInv, CtermOutput PROVE CtermInv'
<1> DEFINE ms == <<Write>>
<1>1. /\ host \in CtHost /\ wire \in CtLink(host.st) /\ ~PressState(host.given).half
      /\ wire \in LinkOf(ToClient(host.st), ToServer(host.st))
      /\ host.st = "run" /\ wire' = PutAll(wire, "server", ms)
      /\ host' = [host EXCEPT !.talk = @ + 1] /\ UNCHANGED <<tty, typist>>
  BY HostParts DEF CtermOutput, HostSays, HostIs
<1>2. host' \in CtHost /\ host'.given = host.given /\ host'.st = "run"
  BY <1>1 DEF CtHost
<1>3. ms \in Seq(ToClient(host.st))
  BY <1>1 DEF ToClient, Early, FromCterm
<1>4. /\ wire' \in CtLink(host.st) /\ wire'["server"] = wire["server"]
      /\ wire'["client"].up = wire["client"].up
  <2> HIDE DEF ms
  <2> QED BY ONLY <1>1, <1>3, HostPuts
<1>5. Streams(tty, typist, host', wire')
  BY <1>2, <1>4, StreamsOn DEF BothUp
<1> QED BY <1>1, <1>2, <1>4, <1>5, HostMoves

\* ctermd, or the link, is over at the server's end.
LEMMA HostEnds ==
  ASSUME CtermInv, NEW st \in {"run", "gone"} \cup Early, NEW k \in CtLink(st),
         UNCHANGED <<tty, typist>>, wire' = Shut(k, "server"), host' = [host EXCEPT !.st = "gone"]
  PROVE  CtermInv'
<1>1. host \in CtHost /\ ~PressState(host.given).half
  BY HostParts
<1>2. host' \in CtHost /\ host'.given = host.given /\ host'.st = "gone" /\ "gone" \notin Early
  BY <1>1 DEF CtHost, Early
<1>3. wire' \in CtLink(st) /\ ~wire'["server"].up /\ wire'["server"].queue = <<>>
  <2> DEFINE C == ToClient(st)
             S == ToServer(st)
  <2>1. k \in LinkOf(C, S)
    BY DEF CtLink
  <2>2. "server" \in Ends
    BY DEF Ends
  <2> HIDE DEF C, S
  <2>3. wire' \in LinkOf(C, S) /\ ~wire'["server"].up /\ wire'["server"].queue = <<>>
    BY <2>1, <2>2, LinkShut, QueueGone
  <2> QED BY <2>3 DEF CtLink, C, S
<1>4. wire' \in CtLink("gone")
  BY <1>2, <1>3, CtLinks
<1>5. Streams(tty, typist, host', wire')
  BY <1>2, <1>3, StreamsCut DEF BothUp
<1> QED BY <1>1, <1>2, <1>3, <1>4, <1>5, HostMoves

\* A message that has no keys is taken.
LEMMA StreamsTake ==
  ASSUME CtermInv, Waiting(wire, "server"), NEW k \in CtLink(host.st), k = Taken(wire, "server"),
         NEW m, m = Foremost(wire, "server"), DataOf(m) = <<>>, NEW h, h.given = host.given,
         NEW w, w["server"] = k["server"], w["client"].up = k["client"].up
  PROVE  Streams(tty, typist, h, w)
<1>1. /\ k["client"] = wire["client"] /\ k["server"].up = wire["server"].up
      /\ InFlight(wire["server"].queue) = DataOf(m) \o InFlight(k["server"].queue)
      /\ InFlight(k["server"].queue) \in Keys
  BY HostTakes
<1>2. InFlight(wire["server"].queue) = InFlight(w["server"].queue)
  BY <1>1 DEF Keys
<1>3. BothUp(w) => BothUp(wire)
  BY <1>1 DEF BothUp
<1> QED BY <1>2, <1>3, StreamsOn

LEMMA CtermBoundCt == ASSUME CtermInv, CtermBound PROVE CtermInv'
<1> DEFINE k == Taken(wire, "server")
           m == Foremost(wire, "server")
           ms == <<Initiate>>
<1>1. /\ host \in CtHost /\ wire \in CtLink(host.st) /\ ~PressState(host.given).half
      /\ host.st = "bind" /\ Waiting(wire, "server") /\ UNCHANGED <<tty, typist>>
      /\ \/ wire' = PutAll(k, "server", ms) /\ host' = [host EXCEPT !.st = "init"]
         \/ wire' = Shut(wire, "server") /\ host' = [host EXCEPT !.st = "gone"]
  BY HostParts DEF CtermBound, HostSays, HostIs
<1>2. k \in CtLink(host.st) /\ m \in ToServer(host.st)
  BY <1>1, HostTakes
<1>3. "bind" \in Early /\ "init" \in Early
  BY DEF Early
<1>4. CASE wire' = PutAll(k, "server", ms) /\ host' = [host EXCEPT !.st = "init"]
  <2>1. host' \in CtHost /\ host'.given = host.given /\ host'.st = "init"
    BY <1>1, <1>4 DEF CtHost, Early
  <2>2. ms \in Seq(ToClient(host.st))
    BY <1>1 DEF ToClient, Early
  <2>3. DataOf(m) = <<>>
    BY <1>1, <1>2, <1>3, DataIs DEF ToServer
  <2> HIDE DEF ms, k, m
  <2>4. /\ wire' \in CtLink(host.st) /\ wire'["server"] = k["server"]
        /\ wire'["client"].up = k["client"].up
    BY ONLY <1>2, <1>4, <2>2, HostPuts
  <2>5. wire' \in CtLink("init")
    BY <1>1, <1>3, <2>4, CtLinks
  <2>6. Streams(tty, typist, host', wire')
    BY <1>1, <1>2, <2>1, <2>3, <2>4, StreamsTake DEF k, m
  <2> QED BY <1>1, <1>3, <2>1, <2>5, <2>6, HostMoves
<1>5. CASE wire' = Shut(wire, "server") /\ host' = [host EXCEPT !.st = "gone"]
  <2>1. host.st \in {"run", "gone"} \cup Early
    BY <1>1, <1>3
  <2> QED BY <1>1, <1>5, <2>1, HostEnds
<1> QED BY <1>1, <1>4, <1>5

LEMMA CtermStartedCt == ASSUME CtermInv, CtermStarted PROVE CtermInv'
<1> DEFINE k == Taken(wire, "server")
           m == Foremost(wire, "server")
           ms == <<SetChar, Write, CtermRead>>
           one == <<Write>>
<1>1. /\ host \in CtHost /\ wire \in CtLink(host.st) /\ ~PressState(host.given).half
      /\ host.st = "init" /\ Waiting(wire, "server") /\ UNCHANGED <<tty, typist>>
      /\ \/ wire' = PutAll(k, "server", ms) /\ host' = [host EXCEPT !.st = "run"]
         \/ /\ wire' = Shut(PutAll(k, "server", one), "server")
            /\ host' = [host EXCEPT !.st = "gone"]
  BY HostParts DEF CtermStarted, HostSays, HostIs, Put
<1>2. k \in CtLink(host.st) /\ m \in ToServer(host.st)
  BY <1>1, HostTakes
<1>3. "init" \in Early /\ "run" \notin Early
  BY DEF Early
<1>4. k \in CtLink("run") /\ ms \in Seq(ToClient("run")) /\ one \in Seq(ToClient("run"))
  BY <1>2, <1>3, CtLinks DEF ToClient, FromCterm
<1>5. CASE wire' = PutAll(k, "server", ms) /\ host' = [host EXCEPT !.st = "run"]
  <2>1. host' \in CtHost /\ host'.given = host.given /\ host'.st = "run"
    BY <1>1, <1>5 DEF CtHost
  <2>2. DataOf(m) = <<>>
    BY <1>1, <1>2, <1>3, DataIs DEF ToServer
  <2> HIDE DEF ms, k, m
  <2>3. /\ wire' \in CtLink("run") /\ wire'["server"] = k["server"]
        /\ wire'["client"].up = k["client"].up
    BY ONLY <1>4, <1>5, HostPuts
  <2>4. Streams(tty, typist, host', wire')
    BY <1>1, <1>2, <2>1, <2>2, <2>3, StreamsTake DEF k, m
  <2> QED BY <1>1, <1>3, <2>1, <2>3, <2>4, HostMoves
<1>6. CASE /\ wire' = Shut(PutAll(k, "server", one), "server")
           /\ host' = [host EXCEPT !.st = "gone"]
  <2> DEFINE w == PutAll(k, "server", one)
  <2> HIDE DEF k, one
  <2>1. w \in CtLink("run")
    BY ONLY <1>4, HostPuts
  <2> QED BY <1>1, <1>6, <2>1, HostEnds
<1> QED BY <1>1, <1>5, <1>6

LEMMA CtermInputCt == ASSUME CtermInv, CtermInput PROVE CtermInv'
<1> DEFINE k == Taken(wire, "server")
           m == Foremost(wire, "server")
           ms == <<CtermRead>>
           P == PressState(host.given).keys
           I == InFlight(k["server"].queue)
<1>1. /\ host \in CtHost /\ ~PressState(host.given).half /\ P \in Line
      /\ host.st = "run" /\ Waiting(wire, "server") /\ UNCHANGED <<tty, typist>>
      /\ IF m.t \in {"READ_DATA", "OOB"}
           THEN /\ wire' = PutAll(k, "server", ms)
                /\ host' = [host EXCEPT !.given = host.given \o ForLogin(m.data)]
           ELSE wire' = k /\ host' = host
  BY HostParts DEF CtermInput, HostSays, HostIs, NextRead
<1>2. /\ k \in CtLink("run") /\ k["client"] = wire["client"] /\ k["server"].up = wire["server"].up
      /\ m \in Told /\ I \in Keys /\ DataOf(m) \in Keys
      /\ InFlight(wire["server"].queue) = DataOf(m) \o I
  BY <1>1, HostTakes
<1>3. "run" \notin Early
  BY DEF Early
<1>4. CASE m.t = "READ_DATA"
  <2> DEFINE g == host.given \o ForLogin(m.data)
             d == DataOf(m)
  <2>1. d = m.data /\ m.data # <<>> /\ d \in Keys
    BY <1>2, <1>4, DataIs
  <2>2. g \in Line /\ PressState(g).keys = P \o d /\ ~PressState(g).half
    <3>1. host.given \in Line /\ d # <<>>
      BY <1>1, <2>1 DEF CtHost
    <3> HIDE DEF d
    <3> QED BY <1>1, <2>1, <3>1, PressLogin
  <2>3. wire' = PutAll(k, "server", ms) /\ host' = [host EXCEPT !.given = g]
    BY <1>1, <1>4
  <2>4. ms \in Seq(ToClient("run"))
    BY <1>3 DEF ToClient, FromCterm
  <2> HIDE DEF ms, k, m, g, d
  <2>5. host' \in CtHost /\ host'.given = g /\ host'.st = "run"
    BY <1>1, <2>2, <2>3 DEF CtHost
  <2>6. /\ wire' \in CtLink("run") /\ wire'["server"] = k["server"]
        /\ wire'["client"].up = k["client"].up
    BY ONLY <1>2, <2>3, <2>4, HostPuts
  <2>7. (P \o d) \o I = P \o (d \o I)
    <3> HIDE DEF P, I
    <3>1. P \in Line /\ d \in Keys /\ I \in Keys
      BY <1>1, <1>2, <2>1
    <3> QED BY ONLY <3>1, StreamAdd
  <2>8. PressState(host'.given).keys \o InFlight(wire'["server"].queue) =
          P \o InFlight(wire["server"].queue)
    BY <1>2, <2>2, <2>5, <2>6, <2>7 DEF d
  <2>9. BothUp(wire') => BothUp(wire)
    BY <1>2, <2>6 DEF BothUp
  <2>10. Streams(tty, typist, host', wire')
    BY <2>8, <2>9, StreamsOn
  <2> QED BY <1>1, <1>3, <2>2, <2>5, <2>6, <2>10, HostMoves
<1>5. CASE m.t # "READ_DATA"
  <2>1. DataOf(m) = <<>> /\ wire' = k /\ host' = host
    BY <1>1, <1>2, <1>5, DataIs
  <2>2. Streams(tty, typist, host', wire')
    BY <1>1, <1>2, <2>1, StreamsTake
  <2> QED BY <1>1, <1>2, <1>3, <2>1, <2>2, HostMoves
<1> QED BY <1>4, <1>5

LEMMA CtermResetCt == ASSUME CtermInv, CtermReset PROVE CtermInv'
<1> DEFINE one == <<Unbind>>
<1>1. /\ host \in CtHost /\ wire \in CtLink(host.st) /\ UNCHANGED <<tty, typist>>
      /\ wire' = Shut(IF host.st = "run" THEN PutAll(wire, "server", one) ELSE wire, "server")
      /\ host' = [host EXCEPT !.st = "gone"]
  BY HostParts DEF CtermReset, HostIs, Put
<1>2. host.st \in {"run", "gone"} \cup Early
  BY <1>1 DEF CtHost
<1>3. CASE host.st = "run"
  <2> DEFINE w == PutAll(wire, "server", one)
  <2>1. one \in Seq(ToClient(host.st))
    BY <1>3 DEF ToClient, Early, FromCterm
  <2> HIDE DEF one
  <2>2. w \in CtLink(host.st)
    BY ONLY <1>1, <2>1, HostPuts
  <2> QED BY <1>1, <1>2, <1>3, <2>2, HostEnds
<1>4. CASE host.st # "run"
  BY <1>1, <1>2, <1>4, HostEnds
<1> QED BY <1>3, <1>4

LEMMA TermLinkCt == ASSUME CtermInv, TermLink PROVE CtermInv'
<1> DEFINE C == ToClient(host.st)
           S == ToServer(host.st)
<1>1. PICK e \in Ends : wire' = Cut(wire, e) /\ UNCHANGED <<tty, typist, host>>
  BY DEF TermLink, LinkCut
<1>2. /\ host \in CtHost /\ ~PressState(host.given).half /\ wire \in LinkOf(C, S)
      /\ host.st = "gone" => ~wire["server"].up
  BY HostParts DEF CtermInv, CtermOK
<1>3. wire' \in CtLink(host.st) /\ wire'[FarOf(e)] = wire[FarOf(e)] /\ ~wire'[e].up
  <2> HIDE DEF C, S
  <2>1. wire' \in LinkOf(C, S) /\ wire'[FarOf(e)] = wire[FarOf(e)] /\ ~wire'[e].up
    BY <1>1, <1>2, LinkShut
  <2> QED BY <2>1 DEF CtLink, C, S
<1>4. CASE e = "client"
  <2>1. wire'["server"] = wire["server"] /\ ~BothUp(wire')
    BY <1>3, <1>4 DEF FarOf, BothUp
  <2>2. Streams(tty, typist, host', wire')
    BY <1>1, <2>1, StreamsOn
  <2> QED BY <1>1, <1>2, <1>3, <2>1, <2>2, HostMoves
<1>5. CASE e = "server"
  <2>1. wire'["server"].queue = <<>> /\ ~BothUp(wire') /\ ~wire'["server"].up
    <3>1. wire'["server"].queue = <<>>
      <4> HIDE DEF C, S
      <4> QED BY <1>1, <1>2, <1>5, QueueGone
    <3> QED BY <3>1, <1>3, <1>5 DEF BothUp
  <2>2. Streams(tty, typist, host', wire')
    BY <1>1, <2>1, StreamsCut
  <2> QED BY <1>1, <1>2, <1>3, <2>1, <2>2, HostMoves
<1> QED BY <1>4, <1>5 DEF Ends

-----------------------------------------------------------------------------
\* A host stays what it is.
LEMMA KindKept ==
  ASSUME "kind" \in DOMAIN host, TermNext
  PROVE  "kind" \in DOMAIN host' /\ host'.kind = host.kind
<1>1. \/ host' = host
      \/ \E v : host' = [host EXCEPT !.st = v]
      \/ \E v : host' = [host EXCEPT !.talk = v]
      \/ \E v : host' = [host EXCEPT !.given = v]
      \/ \E v : host' = [host EXCEPT !.asked = v]
      \/ \E v, x : host' = [host EXCEPT !.asked = v, !.asks = x]
  <2>1. CASE TtyStep
    BY <2>1 DEF TtyStep, Type, FoundRead, LinkGone, TimedOut, Becomes
  <2>2. CASE TermLink
    BY <2>2 DEF TermLink
  <2>3. CASE CtermBind \/ CtermBound \/ CtermStarted
    BY <2>3 DEF CtermBind, CtermBound, CtermStarted, HostIs
  <2>4. CASE CtermOutput \/ CtermInput \/ CtermReset
    BY <2>4 DEF CtermOutput, CtermInput, CtermReset, HostIs
  <2>5. CASE VmsInput
    BY <2>5 DEF VmsInput, HostIs
  <2>6. CASE VmsAsk \/ VmsTalk
    BY <2>6 DEF VmsAsk, VmsTalk, HostIs
  <2> QED BY <2>1, <2>2, <2>3, <2>4, <2>5, <2>6 DEF TermNext, HostStep
<1> QED BY <1>1

LEMMA TermCt ==
  ASSUME Ctermd, CtermInv, TermNext
  PROVE  CtermInv'
<1>1. ~VmsInput /\ ~VmsAsk /\ ~VmsTalk
  BY DEF Ctermd, VmsInput, VmsAsk, VmsTalk, Vms
<1>2. ~TimedOut
  <2>1. tty \in CtTty
    BY DEF CtermInv, CtermOK
  <2> QED BY <2>1 DEF CtTty, CtOK, TimedOut
<1>3. CASE TtyStep
  BY <1>2, <1>3, TypeCt, FoundReadCt, LinkGoneCt DEF TtyStep
<1>4. CASE HostStep
  BY <1>1, <1>4, CtermBindCt, CtermBoundCt, CtermStartedCt, CtermOutputCt, CtermInputCt, CtermResetCt
  DEF HostStep
<1> QED BY <1>3, <1>4, TermLinkCt DEF TermNext

LEMMA CtStart ==
  ASSUME NEW s \in Sessions, TermBegin(s), Ctermd, wire = OpenLink
  PROVE  CtermInv
<1>1. /\ tty = NewTerminal /\ typist = [keys |-> s.keys, typed |-> <<>>]
      /\ host = [kind |-> "ctermd", st |-> "start", given |-> <<>>, asked |-> FALSE, asks |-> 0,
                 talk |-> 0]
  BY DEF TermBegin, NewHost, Ctermd
<1>2. <<>> \in Line /\ <<>> \in Keys /\ <<>> \in Seq(Told)
  BY DEF Line, Keys
<1>3. /\ tty \in CtTty /\ tty.out = <<>> /\ HeldBy(tty) = <<>> /\ ~tty.pending
  <2>1. NewTerminal \in Tty
    BY NewKept DEF Kept
  <2>2. /\ ~NewTerminal.pending /\ NewTerminal.line = <<>> /\ NewTerminal.oob = {}
        /\ ~NewTerminal.timed /\ ~NewTerminal.edit /\ NewTerminal.esc = <<>>
        /\ NewTerminal.ahead = <<>> /\ NewTerminal.out = <<>>
    BY DEF NewTerminal
  <2>3. Len(<<>>) <= AheadSize /\ <<>> \o <<>> = <<>>
    BY AheadAssumption
  <2> HIDE DEF NewTerminal
  <2> QED BY <1>1, <1>2, <2>1, <2>2, <2>3 DEF CtTty, CtOK, HeldBy
<1>4. typist \in Typist /\ typist.typed = <<>>
  BY <1>1, <1>2, SessionsAssumption DEF Typist
<1>5. host \in CtHost /\ host.given = <<>> /\ host.st = "start" /\ host.st \in Early
  BY <1>1, <1>2 DEF CtHost, Early
<1>6. wire \in CtLink(host.st) /\ wire["server"].queue = <<>>
  BY <1>5 DEF CtLink, OpenLink, OpenEnd, LinkOf, EndOf
<1>7. PressState(<<>>) = NoPress
  <2>1. Len(<<>>) = 0 /\ 0 \in Nat
    OBVIOUS
  <2>2. PICK w \in [0..Len(<<>>) -> Presser] :
          /\ w[0] = NoPress /\ PressState(<<>>) = w[Len(<<>>)]
    BY <1>2, PressSteps
  <2> QED BY <2>1, <2>2
<1>8. Streams(tty, typist, host, wire)
  <2>1. PressState(host.given).keys = <<>> /\ InFlight(wire["server"].queue) = <<>>
    BY <1>5, <1>6, <1>7, FlightNone DEF NoPress
  <2>2. (<<>> \o <<>>) \o <<>> = <<>>
    OBVIOUS
  <2>3. (PressState(host.given).keys \o InFlight(wire["server"].queue)) \o <<>> = typist.typed
    BY ONLY <2>1, <2>2, <1>4
  <2> QED BY <1>2, <1>3, <2>3 DEF Streams
<1> QED BY <1>3, <1>4, <1>5, <1>6, <1>7, <1>8 DEF CtermInv, CtermOK, NoPress

\* What the property says follows from the streams.
LEMMA InOrder == ASSUME CtermInv PROVE KeysInOrder
<1> DEFINE P == PressState(host.given).keys
           I == InFlight(wire["server"].queue)
           H == HeldBy(tty)
<1>1. P \in Line /\ I \in Keys /\ H \in Keys /\ typist.typed \in Keys
  BY InvParts DEF CtermInv
<1>2. PICK X \in Keys : /\ (P \o I) \o X = typist.typed
                        /\ (BothUp(wire) /\ ~tty.finished) => X = H
  BY DEF CtermInv, CtermOK, Streams
<1>3. Presses(host.given) = P
  BY PressesIs
<1>4. Held = H
  <2>1. tty.line = <<>> /\ tty.esc \in Keys
    BY DEF CtermInv, CtermOK, CtTty, CtOK
  <2>2. <<>> \o tty.esc = tty.esc
    BY <2>1 DEF Keys
  <2> QED BY <2>1, <2>2 DEF Held, HeldBy
<1> HIDE DEF P, I, H
<1>5. SeqX!IsPrefix(P, typist.typed)
  <2>1. P \o (I \o X) = (P \o I) \o X /\ I \o X \in Keys
    BY ONLY <1>1, <1>2, StreamAdd, JoinKeys
  <2> DEFINE Y == I \o X
             a == typist.typed
  <2>2. a = P \o Y /\ Y \in Keys
    BY <1>2, <2>1
  <2> HIDE DEF Y, a
  <2>3. P \in Seq(AnyKey) /\ Y \in Seq(AnyKey)
    BY <1>1, <2>2 DEF Line, Keys, Clean
  <2>4. Len(P) <= Len(a) /\ P = SubSeq(a, 1, Len(P))
    BY <2>2, <2>3
  <2> QED BY <2>4 DEF SeqX!IsPrefix, a
<1>6. ASSUME wire["server"].up, ~tty.finished, wire["client"].up
      PROVE  Presses(host.given) \o InFlight(wire["server"].queue) \o Held = typist.typed
  <2>1. X = H
    BY <1>2, <1>6 DEF BothUp
  <2> QED BY <1>2, <1>3, <1>4, <2>1 DEF I
<1> QED BY <1>3, <1>5, <1>6 DEF KeysInOrder

KeysScene ==
  IF scene = "terminal" THEN "kind" \in DOMAIN host /\ (Ctermd => CtermInv) ELSE ~Ctermd

(***************************************************************************)
(* The login that ctermd runs is given the keys that were typed, each once *)
(* and in their order, and none is lost while both ends are up, for every  *)
(* sequence of keys, any room to type ahead and any interleaving           *)
(* (tty_process_terminal, rahead_buf, cterm_read, cterm_purge).            *)
(***************************************************************************)
THEOREM KeysKept == Spec => []KeysInOrder
<1>1. Init => KeysScene
  <2> SUFFICES ASSUME Init PROVE KeysScene
    OBVIOUS
  <2>1. CASE scene = "terminal"
    <3>1. wire = OpenLink
      BY <2>1 DEF Init
    <3>2. PICK s \in Sessions : TermBegin(s)
      BY <2>1 DEF Init
    <3>3. "kind" \in DOMAIN host
      BY <3>2 DEF TermBegin, NewHost
    <3> QED BY <2>1, <3>1, <3>2, <3>3, CtStart DEF KeysScene
  <2>2. CASE scene # "terminal"
    <3>1. host = NoHost
      BY <2>2 DEF Init, TermIdle
    <3>2. NoHost.kind = "none"
      BY DEF NoHost, NewHost
    <3> QED BY <2>2, <3>1, <3>2 DEF KeysScene, Ctermd
  <2> QED BY <2>1, <2>2
<1>2. KeysScene /\ [Next]_vars => KeysScene'
  <2> SUFFICES ASSUME KeysScene, [Next]_vars PROVE KeysScene'
    OBVIOUS
  <2>1. ASSUME scene = "terminal", TermNext, scene' = scene PROVE KeysScene'
    <3>1. "kind" \in DOMAIN host' /\ host'.kind = host.kind
      BY <2>1, KindKept DEF KeysScene
    <3>2. Ctermd => CtermInv'
      BY <2>1, TermCt DEF KeysScene
    <3> QED BY <2>1, <3>1, <3>2 DEF KeysScene, Ctermd
  <2>2. ASSUME scene # "terminal", UNCHANGED termOwn, scene' = scene PROVE KeysScene'
    BY <2>2 DEF KeysScene, termOwn, Ctermd
  <2>3. ASSUME UNCHANGED vars PROVE KeysScene'
    <3>1. scene' = scene /\ wire' = wire /\ tty' = tty /\ typist' = typist /\ host' = host
      BY <2>3 DEF vars, termOwn
    <3> QED BY <3>1 DEF KeysScene, Ctermd, CtermInv
  <2> QED BY <2>1, <2>2, <2>3 DEF Next
<1>3. KeysScene => KeysInOrder
  <2>1. ~Ctermd => KeysInOrder
    BY DEF KeysInOrder
  <2> QED BY <2>1, InOrder DEF KeysScene
<1> QED BY <1>1, <1>2, <1>3, PTL DEF Spec

=============================================================================

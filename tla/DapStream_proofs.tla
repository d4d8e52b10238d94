-------------------------- MODULE DapStream_proofs --------------------------
(***************************************************************************)
(* Proofs about DapStream: for every set of messages and every block size, *)
(* the records of a connection hold whole messages, and the header of a    *)
(* data message holds its length.                                          *)
(***************************************************************************)
EXTENDS DapStream, SequenceTheorems, TLAPS
LOCAL INSTANCE FiniteSetsExt

-----------------------------------------------------------------------------
(***************************************************************************)
(* The length of a data message, whose items are the recnum with its count *)
(* and the data: the reader gets it back from whichever form was written.  *)
(***************************************************************************)
\* The one byte of the short header holds the length of every message that
\* write_with_len gives that header, and the two of the long header the rest.
THEOREM LengthKept ==
  ASSUME NEW recnum \in Nat, NEW datalen \in Nat, recnum + datalen + 1 < 65536
  PROVE  LET len == recnum + datalen + 1 IN
         /\ ~long_data(recnum, datalen) => len % Byte = len
         /\ (len % Byte) + Byte * (len \div Byte) = len
BY DEF long_data, Byte

-----------------------------------------------------------------------------
(***************************************************************************)
(* The inductive invariant.  The messages end one after the other, the     *)
(* last at the end of what was put, where the next one will start; what    *)
(* was sent ends with a record; and what was not sent is less than a       *)
(* block, or is one message.                                               *)
(***************************************************************************)
OutOK == /\ put \in Seq(0..(Byte - 1))
         /\ out \in [sent : Nat, last : Nat, blocked : BOOLEAN, allowed : BOOLEAN, toggles : Nat]
         /\ out.sent <= Len(put) /\ out.last = Len(put)
         /\ ~out.blocked => out.sent = Len(put)
EndsOK == /\ ends \in Seq(Nat)
          /\ \A i \in DOMAIN ends : ends[i] \in 1..Len(put)
          /\ \A i, j \in DOMAIN ends : i < j => ends[i] < ends[j]
          /\ Len(put) = 0 \/ EndsWith(Len(put))
CutsOK == /\ cuts \subseteq 1..out.sent
          /\ out.sent = 0 \/ out.sent \in cuts
          /\ FitsBlock(out.sent, Len(put))
SInv == OutOK /\ EndsOK /\ CutsOK /\ WholeMessages

LEMMA Remainder ==
  ASSUME NEW x \in Int, NEW m \in Nat, m > 0
  PROVE  x % m \in 0..(m - 1)
OBVIOUS

\* A length taken modulo the bytes it has fits in them.
LEMMA InBytes ==
  ASSUME NEW x \in Int
  PROVE  /\ x % 256 \in 0..255
         /\ (x % 65536) % 256 \in 0..255 /\ (x % 65536) \div 256 \in 0..255
<1>1. x % 256 \in 0..255
  OBVIOUS
<1>2. \E y \in Nat : y < 65536 /\ y = x % 65536
  <2>1. ASSUME NEW m \in Nat, m > 0 PROVE \E y \in Nat : y < m /\ y = x % m
    BY <2>1, Remainder
  <2> QED BY <2>1
<1>3. ASSUME NEW y \in Nat, y < 65536
      PROVE  y % 256 \in 0..255 /\ y \div 256 \in 0..255
  <2>1. y % 256 \in 0..255
    OBVIOUS
  <2>2. y = (y % 256) + 256 * (y \div 256)
    OBVIOUS
  <2>3. PICK q \in Int : q = y \div 256
    OBVIOUS
  <2>4. PICK r \in 0..255 : r = y % 256
    BY <2>1
  <2>5. y = r + 256 * q
    BY <2>2, <2>3, <2>4
  <2>6. r \in Int /\ 0 <= r /\ r < 256
    BY <2>4
  <2>7. 0 <= q
    BY <2>5, <2>6
  <2>8. q <= 255
    BY <2>5, <2>6, <1>3
  <2> QED BY <2>1, <2>3, <2>7, <2>8
<1>4. PICK y \in Nat : y < 65536 /\ y = x % 65536
  BY <1>2
<1> QED BY <1>1, <1>3, <1>4

\* Patching the length into a buffer changes no other byte and no position.
LEMMA SetLengthKeeps ==
  ASSUME NEW b \in Seq(0..(Byte - 1)), NEW n \in Nat
  PROVE  SetLength(b, n) \in Seq(0..(Byte - 1)) /\ Len(SetLength(b, n)) = Len(b)
<1>1. ASSUME NEW s \in Seq(0..255), NEW i \in Int, NEW v \in 0..255
      PROVE  [s EXCEPT ![i] = v] \in Seq(0..255) /\ Len([s EXCEPT ![i] = v]) = Len(s)
  <2>1. CASE i \in 1..Len(s)
    BY <2>1, ExceptSeq
  <2>2. CASE i \notin 1..Len(s)
    <3>1. s \in [1..Len(s) -> 0..255]
      BY LenProperties
    <3>2. [s EXCEPT ![i] = v] = s
      BY <2>2, <3>1
    <3> QED BY <3>2
  <2> QED BY <2>1, <2>2
<1>a. Len(b) \in Nat
  BY LenProperties
<1>2. CASE ~BitOf(b[n + 2], 1)
  BY <1>2 DEF SetLength
<1>3. CASE BitOf(b[n + 2], 1) /\ ~BitOf(b[n + 2], 2)
  <2>1. (Len(b) - n - 3) % 256 \in 0..255
    <3>1. PICK x \in Int : x = Len(b) - n - 3
      <4>1. Len(b) - n - 3 \in Int
        BY <1>a
      <4> QED BY <4>1
    <3>2. x % 256 \in 0..255 /\ (x % 65536) % 256 \in 0..255 /\ (x % 65536) \div 256 \in 0..255
      BY InBytes
    <3> QED BY <3>1, <3>2
  <2> QED BY <1>1, <1>3, <2>1 DEF SetLength, Byte
<1>4. CASE BitOf(b[n + 2], 1) /\ BitOf(b[n + 2], 2)
  <2> DEFINE len == (Len(b) - n - 4) % 65536
  <2>1. len % 256 \in 0..255 /\ len \div 256 \in 0..255
    <3>1. PICK x \in Int : x = Len(b) - n - 4
      <4>1. Len(b) - n - 4 \in Int
        BY <1>a
      <4> QED BY <4>1
    <3>2. x % 256 \in 0..255 /\ (x % 65536) % 256 \in 0..255 /\ (x % 65536) \div 256 \in 0..255
      BY InBytes
    <3> QED BY <3>1, <3>2
  <2>2. SetLength(b, n) = [[b EXCEPT ![n + 3] = len % 256] EXCEPT ![n + 4] = len \div 256]
    BY <1>4 DEF SetLength, Byte
  <2> HIDE DEF len
  <2>3. b \in Seq(0..255)
    BY DEF Byte
  <2>4. /\ [b EXCEPT ![n + 3] = len % 256] \in Seq(0..255)
        /\ Len([b EXCEPT ![n + 3] = len % 256]) = Len(b)
    BY <1>1, <2>1, <2>3
  <2> QED BY <1>1, <2>1, <2>2, <2>4 DEF Byte
<1> QED BY <1>2, <1>3, <1>4

LEMMA StreamInit == Init => SInv
BY StreamAssumption
   DEF Init, SInv, OutOK, EndsOK, CutsOK, WholeMessages, FitsBlock, EndsWith, IsRecord

\* A record is added that ends at c, after those there are.
LEMMA OneMoreRecord ==
  ASSUME SInv, NEW e, e \in Seq(Nat), NEW c \in Nat,
         Len(e) >= Len(ends), \A i \in DOMAIN ends : e[i] = ends[i],
         \A i \in DOMAIN e : i > Len(ends) => e[i] >= Len(put),
         c >= out.sent,
         c > out.sent => /\ \E i \in DOMAIN e : e[i] = c
                         /\ c - out.sent <= BlockSize
                              \/ \A i \in DOMAIN e : e[i] <= out.sent \/ e[i] >= c,
         ends' = e, cuts' = cuts \cup Record(out.sent, c)
  PROVE  WholeMessages'
<1>1. cuts' = IF c > out.sent THEN cuts \cup {c} ELSE cuts
  BY DEF Record
<1>2. \A x \in cuts : x \in Nat /\ x <= out.sent /\ out.sent \in Nat
  BY DEF SInv, CutsOK, OutOK
<1>3. \A x \in cuts' : EndsWith(x)'
  <2>1. \A x \in cuts : EndsWith(x)'
    BY DEF SInv, WholeMessages, EndsWith, EndsOK
  <2> QED BY <1>1, <2>1 DEF EndsWith
<1>4. ASSUME NEW x \in cuts', NEW s \in cuts' \cup {0}, IsRecord(s, x)'
      PROVE  FitsBlock(s, x)'
  <2>1. CASE x \in cuts
    <3>1. s \in cuts \cup {0}
      BY <1>1, <1>2, <1>4, <2>1 DEF IsRecord
    <3>2. IsRecord(s, x)
      BY <1>1, <1>4 DEF IsRecord
    <3>3. FitsBlock(s, x)
      BY <2>1, <3>1, <3>2 DEF SInv, WholeMessages
    <3>4. x <= Len(put) /\ Len(put) \in Nat
      BY <1>2, <2>1 DEF SInv, OutOK
    <3>5. x \in Nat /\ s \in Nat /\ s < x
      BY <1>2, <1>4, <2>1, <3>1, <3>2 DEF IsRecord
    <3>6. \A i \in DOMAIN ends : ends[i] \in Nat
      BY DEF SInv, EndsOK
    <3>7. \A i \in DOMAIN e : e[i] \in Nat /\ i \in Nat
      OBVIOUS
    <3>8. ASSUME NEW i \in DOMAIN e, \A j \in DOMAIN ends : ends[j] <= s \/ ends[j] >= x
          PROVE  e[i] <= s \/ e[i] >= x
      <4>1. CASE i > Len(ends)
        BY <3>4, <3>5, <3>7, <4>1
      <4>2. CASE ~(i > Len(ends))
        BY <3>7, <3>8, <4>2 DEF SInv, EndsOK
      <4> QED BY <4>1, <4>2
    <3>9. ends' = e
      OBVIOUS
    <3> QED BY <3>3, <3>8, <3>9 DEF FitsBlock
  <2>2. CASE x \notin cuts
    <3>1. x = c /\ c > out.sent
      BY <1>1, <2>2
    <3>2. s \in cuts \cup {0} /\ s \in Nat /\ s <= out.sent
      BY <1>1, <1>2, <1>4, <3>1 DEF IsRecord, SInv, OutOK
    <3>3. s = out.sent
      <4>1. out.sent = 0 \/ out.sent \in cuts'
        BY <1>1 DEF SInv, CutsOK
      <4> QED BY <1>4, <3>1, <3>2, <4>1 DEF IsRecord, SInv, OutOK
    <3> QED BY <3>1, <3>3 DEF FitsBlock
  <2> QED BY <2>1, <2>2
<1> QED BY <1>3, <1>4 DEF WholeMessages

LEMMA StreamWrite ==
  ASSUME SInv, NEW m \in Messages, Write(m)
  PROVE  SInv'
<1> DEFINE b == SetLength(put \o Bytes(m), out.last)
<1>1. /\ b \in Seq(0..(Byte - 1)) /\ Len(b) \in Nat /\ Len(b) > Len(put)
      /\ put' = b /\ ends' = Append(ends, Len(b)) /\ Len(put) \in Nat
  <2>1. Bytes(m) \in Seq(0..(Byte - 1)) /\ Len(Bytes(m)) > 0
    BY StreamAssumption
  <2>2. put \in Seq(0..(Byte - 1)) /\ out.last \in Nat
    BY DEF SInv, OutOK
  <2>3. /\ put \o Bytes(m) \in Seq(0..(Byte - 1))
        /\ Len(put \o Bytes(m)) = Len(put) + Len(Bytes(m))
    BY <2>1, <2>2
  <2>4. b \in Seq(0..(Byte - 1)) /\ Len(b) = Len(put \o Bytes(m))
    BY <2>2, <2>3, SetLengthKeeps
  <2>5. put' = b /\ ends' = Append(ends, Len(b))
    BY DEF Write
  <2>6. Len(put) \in Nat /\ Len(Bytes(m)) \in Nat
    BY <2>1, <2>2
  <2> HIDE DEF b
  <2> QED BY <2>1, <2>3, <2>4, <2>5, <2>6
<1> HIDE DEF b
<1>2. EndsOK'
  <2>1. ends \in Seq(Nat) /\ ends' \in Seq(Nat) /\ Len(ends') = Len(ends) + 1
    BY <1>1 DEF SInv, EndsOK
  <2>2. /\ \A i \in DOMAIN ends : ends'[i] = ends[i]
        /\ ends'[Len(ends) + 1] = Len(b)
    BY <1>1, <2>1
  <2> QED BY SMTT(30), <1>1, <2>1, <2>2 DEF SInv, EndsOK, EndsWith
<1>3. /\ out.sent \in Nat /\ out.sent <= Len(put) /\ out.last = Len(put) /\ ends \in Seq(Nat)
      /\ ~out.blocked => out.sent = Len(put)
      /\ \A i \in DOMAIN ends : ends[i] \in Nat /\ ends[i] <= Len(put)
  BY DEF SInv, OutOK, EndsOK
<1>4. CASE ~out.blocked
  <2>1. /\ out' = [out EXCEPT !.sent = Len(b), !.last = Len(b)]
        /\ cuts' = cuts \cup Record(out.sent, Len(b))
    BY <1>4 DEF Write, b
  <2>2. WholeMessages'
    <3>1. /\ ends' \in Seq(Nat) /\ Len(ends') >= Len(ends)
          /\ \A i \in DOMAIN ends : ends'[i] = ends[i]
          /\ \A i \in DOMAIN ends' : i > Len(ends) => ends'[i] = Len(b)
          /\ Len(ends) + 1 \in DOMAIN ends' /\ ends'[Len(ends) + 1] = Len(b)
      BY <1>1, <1>3
    <3>2. \A i \in DOMAIN ends' : ends'[i] <= out.sent \/ ends'[i] >= Len(b)
      BY <1>1, <1>3, <1>4, <3>1
    <3>3. Len(b) >= out.sent /\ \E i \in DOMAIN ends' : ends'[i] = Len(b)
      BY <1>1, <1>3, <3>1
    <3>4. \A i \in DOMAIN ends' : i > Len(ends) => ends'[i] >= Len(put)
      BY <1>1, <3>1
    <3>5. Len(b) \in Nat
      BY <1>1
    <3> QED BY <2>1, <3>1, <3>2, <3>3, <3>4, <3>5, OneMoreRecord
  <2>3. OutOK'
    <3>1. /\ out' \in [sent : Nat, last : Nat, blocked : BOOLEAN, allowed : BOOLEAN, toggles : Nat]
          /\ out'.sent = Len(b) /\ out'.last = Len(b)
      BY <1>1, <2>1 DEF SInv, OutOK
    <3> QED BY <1>1, <3>1 DEF OutOK
  <2>4. CutsOK'
    BY <1>1, <1>3, <2>1 DEF SInv, OutOK, CutsOK, Record, FitsBlock
  <2> QED BY <1>2, <2>2, <2>3, <2>4 DEF SInv
<1>5. CASE out.blocked /\ Len(b) - out.sent < BlockSize
  <2>1. /\ out' = [out EXCEPT !.last = Len(b)] /\ cuts' = cuts
    BY SMTT(30), <1>1, <1>3, <1>5, StreamAssumption DEF Write, b
  <2>2. WholeMessages'
    <3>1. /\ ends' \in Seq(Nat) /\ Len(ends') >= Len(ends)
          /\ \A i \in DOMAIN ends : ends'[i] = ends[i]
          /\ \A i \in DOMAIN ends' : i > Len(ends) => ends'[i] >= Len(put)
      BY <1>1, <1>3
    <3>2. cuts' = cuts \cup Record(out.sent, out.sent)
      BY <1>3, <2>1 DEF Record
    <3>3. out.sent \in Nat /\ out.sent >= out.sent /\ ~(out.sent > out.sent)
      BY <1>3
    <3> QED BY <3>1, <3>2, <3>3, OneMoreRecord
  <2>3. OutOK'
    <3>1. /\ out' \in [sent : Nat, last : Nat, blocked : BOOLEAN, allowed : BOOLEAN, toggles : Nat]
          /\ out'.sent = out.sent /\ out'.last = Len(b) /\ out'.blocked
      BY <1>1, <1>5, <2>1 DEF SInv, OutOK
    <3> QED BY <1>1, <1>3, <3>1 DEF OutOK
  <2>4. CutsOK'
    BY <1>1, <1>3, <1>5, <2>1, StreamAssumption DEF SInv, OutOK, CutsOK, FitsBlock
  <2> QED BY <1>2, <2>2, <2>3, <2>4 DEF SInv
<1>6. CASE out.blocked /\ Len(b) - out.sent >= BlockSize
  <2>1. /\ out' = [out EXCEPT !.sent = out.last, !.last = Len(b)]
        /\ cuts' = cuts \cup Record(out.sent, out.last)
    BY SMTT(30), <1>1, <1>3, <1>6, StreamAssumption DEF Write, b, AfterOverflow, BlockCut
  <2>2. WholeMessages'
    <3>1. /\ ends' \in Seq(Nat) /\ Len(ends') >= Len(ends)
          /\ \A i \in DOMAIN ends : ends'[i] = ends[i]
          /\ \A i \in DOMAIN ends' : i > Len(ends) => ends'[i] >= Len(put)
      BY <1>1, <1>3
    <3>2. out.last > out.sent => \E i \in DOMAIN ends' : ends'[i] = out.last
      <4>1. out.last > out.sent => EndsWith(out.last)
        BY <1>1, <1>3 DEF SInv, EndsOK
      <4>2. DOMAIN ends \subseteq DOMAIN ends'
        BY <1>3, <3>1
      <4> QED BY <3>1, <4>1, <4>2 DEF EndsWith
    <3>3. \/ out.last - out.sent <= BlockSize
          \/ \A i \in DOMAIN ends' : ends'[i] <= out.sent \/ ends'[i] >= out.last
      <4>1. FitsBlock(out.sent, out.last)
        BY <1>3 DEF SInv, CutsOK
      <4>2. CASE \A i \in DOMAIN ends : ends[i] <= out.sent \/ ends[i] >= out.last
        BY <1>1, <1>3, <3>1, <4>2
      <4> QED BY <4>1, <4>2 DEF FitsBlock
    <3>4. out.last \in Nat /\ out.last >= out.sent
      BY <1>1, <1>3
    <3> QED BY <2>1, <3>1, <3>2, <3>3, <3>4, OneMoreRecord
  <2>3. OutOK'
    <3>1. /\ out' \in [sent : Nat, last : Nat, blocked : BOOLEAN, allowed : BOOLEAN, toggles : Nat]
          /\ out'.sent = Len(put) /\ out'.last = Len(b) /\ out'.blocked
      BY <1>1, <1>3, <1>6, <2>1 DEF SInv, OutOK
    <3> QED BY <1>1, <1>3, <3>1 DEF OutOK
  <2>4. CutsOK'
    <3>1. FitsBlock(out.sent, Len(put))'
      <4>1. out'.sent = Len(put) /\ Len(put') = Len(b)
        BY <1>1, <1>3, <2>1 DEF SInv, OutOK
      <4>2. \A i \in DOMAIN ends' : ends'[i] <= Len(put) \/ ends'[i] >= Len(b)
        BY <1>1, <1>3
      <4> QED BY <4>1, <4>2 DEF FitsBlock
    <3> QED BY <1>1, <1>3, <2>1, <3>1 DEF SInv, OutOK, CutsOK, Record
  <2> QED BY <1>2, <2>2, <2>3, <2>4 DEF SInv
<1> QED BY <1>4, <1>5, <1>6, <1>1, <1>3, StreamAssumption

LEMMA StreamBlock ==
  ASSUME SInv, Block
  PROVE  SInv'
<1>1. /\ out' \in [sent : Nat, last : Nat, blocked : BOOLEAN, allowed : BOOLEAN, toggles : Nat]
      /\ out'.sent = out.sent /\ out'.last = out.last /\ out'.blocked
  <2>1. out' = [[out EXCEPT !.blocked = TRUE] EXCEPT !.toggles = out.toggles + 1]
    BY DEF Block
  <2>2. out.toggles + 1 \in Nat
    BY DEF SInv, OutOK
  <2> QED BY <2>1, <2>2 DEF SInv, OutOK
<1>3. put' = put /\ cuts' = cuts /\ ends' = ends
  BY DEF Block
<1>2. OutOK'
  BY <1>1, <1>3 DEF SInv, OutOK
<1> QED BY <1>1, <1>2, <1>3 DEF SInv, EndsOK, CutsOK, WholeMessages, FitsBlock, EndsWith, IsRecord

LEMMA StreamUnblock ==
  ASSUME SInv, Unblock
  PROVE  SInv'
<1>1. /\ out' = [out EXCEPT !.blocked = FALSE, !.sent = Len(put), !.last = Len(put)]
      /\ cuts' = cuts \cup Record(out.sent, Len(put)) /\ ends' = ends /\ put' = put
  BY DEF Unblock, Flushed
<1>2. out.sent \in Nat /\ Len(put) \in Nat /\ out.sent <= Len(put)
  BY DEF SInv, OutOK
<1>3. WholeMessages'
  <2>1. ends \in Seq(Nat) /\ \A i \in DOMAIN ends : ~(i > Len(ends))
    BY DEF SInv, EndsOK
  <2>2. Len(put) > out.sent => EndsWith(Len(put)) /\ FitsBlock(out.sent, Len(put))
    BY <1>2 DEF SInv, EndsOK, CutsOK
  <2> QED BY <1>1, <1>2, <2>1, <2>2, OneMoreRecord DEF EndsWith, FitsBlock
<1>4. OutOK'
  <2>1. /\ out' \in [sent : Nat, last : Nat, blocked : BOOLEAN, allowed : BOOLEAN, toggles : Nat]
        /\ out'.sent = Len(put) /\ out'.last = Len(put)
    BY <1>1, <1>2 DEF SInv, OutOK
  <2> QED BY <1>1, <1>2, <2>1 DEF SInv, OutOK
<1>5. EndsOK'
  BY <1>1 DEF SInv, EndsOK, EndsWith
<1>6. CutsOK'
  BY <1>1, <1>2 DEF SInv, OutOK, EndsOK, CutsOK, Record, FitsBlock
<1> QED BY <1>3, <1>4, <1>5, <1>6 DEF SInv

LEMMA StreamClear ==
  ASSUME SInv, ClearOutput
  PROVE  SInv'
<1> DEFINE Kept(k) == \A i \in DOMAIN ends : i <= k <=> ends[i] <= out.sent
           kept == CHOOSE k \in 0..Len(ends) : Kept(k)
<1>1. /\ out' = [out EXCEPT !.last = out.sent] /\ cuts' = cuts
      /\ put' = SubSeq(put, 1, out.sent) /\ ends' = SubSeq(ends, 1, kept)
  BY DEF ClearOutput
<1>2. /\ out.sent \in Nat /\ Len(put) \in Nat /\ out.sent <= Len(put)
      /\ ends \in Seq(Nat) /\ Len(ends) \in Nat
      /\ \A i \in DOMAIN ends : ends[i] \in Nat /\ ends[i] >= 1
      /\ \A i, j \in DOMAIN ends : i < j => ends[i] < ends[j]
  BY DEF SInv, OutOK, EndsOK
<1>3. out.sent > 0 => EndsWith(out.sent)
  BY <1>2 DEF SInv, CutsOK, WholeMessages
<1>4. \E k \in 0..Len(ends) : Kept(k)
  <2>1. CASE out.sent = 0
    <3>1. Kept(0)
      BY <1>2, <2>1
    <3> QED BY <1>2, <3>1
  <2>2. CASE out.sent > 0
    <3>1. PICK k \in DOMAIN ends : ends[k] = out.sent
      BY <1>3, <2>2 DEF EndsWith
    <3>2. ASSUME NEW i \in DOMAIN ends PROVE i <= k <=> ends[i] <= out.sent
      <4>1. i \in Nat /\ k \in Nat /\ ends[i] \in Nat /\ ends[k] \in Nat
        BY <1>2
      <4>2. i < k => ends[i] < ends[k]
        BY <1>2
      <4>3. k < i => ends[k] < ends[i]
        BY <1>2
      <4> QED BY <3>1, <4>1, <4>2, <4>3
    <3> QED BY <1>2, <3>1, <3>2
  <2> QED BY <1>2, <2>1, <2>2
<1>5. kept \in 0..Len(ends) /\ Kept(kept)
  BY <1>4
<1> HIDE DEF kept
<1>6. /\ put' \in Seq(0..(Byte - 1)) /\ Len(put') = out.sent
  <2>1. put \in Seq(0..(Byte - 1))
    BY DEF SInv, OutOK
  <2>2. /\ 1 \in Int /\ out.sent \in Int
        /\ \A i \in 1..out.sent : put[i] \in 0..(Byte - 1)
    <3>1. put \in [1..Len(put) -> 0..(Byte - 1)]
      BY <2>1, LenProperties
    <3>2. \A i \in 1..out.sent : i \in 1..Len(put)
      BY <1>2
    <3> QED BY <1>2, <3>1, <3>2
  <2>3. /\ SubSeq(put, 1, out.sent) \in Seq(0..(Byte - 1))
        /\ Len(SubSeq(put, 1, out.sent)) = IF 1 <= out.sent THEN out.sent - 1 + 1 ELSE 0
    BY <2>2, SubSeqProperties
  <2> QED BY <1>1, <1>2, <2>3
<1>7. /\ ends' \in Seq(Nat) /\ DOMAIN ends' = 1..kept /\ Len(ends') = kept
      /\ \A i \in 1..kept : ends'[i] = ends[i] /\ i \in DOMAIN ends
  BY <1>1, <1>2, <1>5
<1>8. \A x : x <= out.sent /\ EndsWith(x) => EndsWith(x)'
  BY SMTT(30), <1>2, <1>5, <1>7 DEF EndsWith
<1>9. OutOK'
  <2>1. /\ out' \in [sent : Nat, last : Nat, blocked : BOOLEAN, allowed : BOOLEAN, toggles : Nat]
        /\ out'.sent = out.sent /\ out'.last = out.sent
    BY <1>1, <1>2 DEF SInv, OutOK
  <2> QED BY <1>2, <1>6, <2>1 DEF OutOK
<1>10. EndsOK'
  BY <1>2, <1>3, <1>5, <1>6, <1>7, <1>8 DEF EndsOK
<1>11. CutsOK'
  <2>1. FitsBlock(out.sent, Len(put))'
    BY <1>1, <1>2, <1>5, <1>6, <1>7, StreamAssumption DEF SInv, OutOK, FitsBlock
  <2> QED BY <1>1, <2>1 DEF SInv, OutOK, CutsOK
<1>12. WholeMessages'
  <2>1. \A c \in cuts : c <= out.sent
    BY <1>2 DEF SInv, CutsOK
  <2>2. \A s, c : FitsBlock(s, c) => FitsBlock(s, c)'
    BY <1>7 DEF FitsBlock
  <2> QED BY <1>1, <1>8, <2>1, <2>2 DEF SInv, WholeMessages, IsRecord
<1> QED BY <1>9, <1>10, <1>11, <1>12 DEF SInv

LEMMA StreamStep == SInv /\ [Next]_vars => SInv'
<1> SUFFICES ASSUME SInv, [Next]_vars PROVE SInv'
  OBVIOUS
<1>1. ASSUME UNCHANGED <<put, out, cuts, ends>> PROVE SInv'
  BY <1>1 DEF SInv, OutOK, EndsOK, CutsOK, WholeMessages, FitsBlock, EndsWith, IsRecord
<1>2. CASE ReadMessage
  BY <1>1, <1>2 DEF ReadMessage
<1>3. CASE UNCHANGED vars
  BY <1>1, <1>3 DEF vars
<1> QED BY <1>2, <1>3, StreamWrite, StreamBlock, StreamUnblock, StreamClear DEF Next

\* Every record of a connection ends with a message, and holds no more than
\* one message when it is larger than the block the other end agreed to:
\* dap_connection::write sends the messages before the one that overflows.
THEOREM RecordsAreWhole == Spec => []WholeMessages
<1>1. SInv => WholeMessages
  BY DEF SInv
<1> QED BY <1>1, StreamInit, StreamStep, PTL DEF Spec
=============================================================================

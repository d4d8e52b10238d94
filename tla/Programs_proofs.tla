-------------------------- MODULE Programs_proofs --------------------------
(***************************************************************************)
(* Proofs about the programs that use DECnet: a mail is forwarded as a     *)
(* whole or not at all, for every mail; the super server honours the entry *)
(* for a connection, of those it has loaded, for every configuration,      *)
(* proxy file and number of connections, and every interleaving of its     *)
(* processes; and dntask prints what the program of a task writes, for     *)
(* every program and input.                                                *)
(***************************************************************************)
EXTENDS Programs, Terminal_proofs, FiniteSetTheorems, TLAPS
LOCAL SeqX == INSTANCE SequencesExt

-----------------------------------------------------------------------------
(***************************************************************************)
(* Mail.  What sendvmsmail writes is a script that depends on the mail     *)
(* alone.  The argument counts: what vmsmaild has read and what is under   *)
(* way is the script as far as the sender has come, until the link is gone *)
(* at vmsmaild; and there are as many acknowledgements as vmsmaild has     *)
(* addressees, until it has forwarded the mail.                            *)
(***************************************************************************)
Word == {"from", "full", "subject"} \cup STRING
MailText == {Nul, Ack} \cup [t : {"text"}, x : Word]
LinkEnd == [up : BOOLEAN, open : BOOLEAN, queue : Seq(MailText)]
MailLink == [client : LinkEnd, server : LinkEnd]

\* The lines of m that are sent, and all that is written for it.
Full(m) == IF m.body = <<>> \/ m.body[Len(m.body)].lf THEN Len(m.body) ELSE Len(m.body) - 1
Script(m, i) ==
  IF i = 1 THEN Text("from") ELSE IF i = 2 THEN Text(m.to) ELSE IF i = 3 THEN Nul
  ELSE IF i = 4 THEN Text("full") ELSE IF i = 5 THEN Text("subject")
  ELSE IF i <= 5 + Full(m) THEN Text(m.body[i - 5].x) ELSE Nul
Whole(m) == [to |-> <<m.to>>, body |-> UpToDot([i \in 1..Full(m) |-> m.body[i].x])]

Active == {"start", "user", "body", "sent"}
\* How far sender s, and how far vmsmaild d with the mail of a, have come
Written(s) ==
  LET read == Len(s.mail.body) - Len(s.todo)
  IN  IF s.st = "start" THEN 0 ELSE IF s.st = "user" THEN 2
      ELSE IF s.st = "sent" THEN 6 + Full(s.mail)
      ELSE 5 + (IF read <= Full(s.mail) THEN read ELSE Full(s.mail))
Read(d, a) ==
  IF d.st = "user" THEN 0 ELSE IF d.st = "to" THEN 1 + Len(d.to)
  ELSE IF d.st = "full" THEN 3 ELSE IF d.st = "subject" THEN 4
  ELSE 5 + Len(a.body)

\* The sender is s, vmsmaild d, the one that forwards a, and the link k.
SenderOK(s, k) ==
  /\ s \in [st : Active \cup {"over", "killed"}, mail : Mails,
            todo : Seq([x : STRING, lf : BOOLEAN]),
            buf : {"ack", "line", "error"}, told : BOOLEAN]
  /\ Len(s.todo) <= Len(s.mail.body)
  /\ \A i \in 1..Len(s.todo) :
       s.todo[i] = s.mail.body[Len(s.mail.body) - Len(s.todo) + i]
  /\ s.st \in {"start", "user"} => s.todo = s.mail.body
  /\ s.st = "body" /\ s.buf = "ack" => s.todo = s.mail.body
  /\ s.st = "sent" /\ s.buf = "ack" => s.mail.body = <<>>
  /\ s.st \notin Active => ~k["client"].up /\ ~k["client"].open

MaildOK(m, d, a, k) ==
  /\ d \in [st : {"user", "to", "full", "subject", "body", "over"}, to : Seq(Word),
            smtp : BOOLEAN, signal : BOOLEAN]
  /\ Len(d.to) <= 1 /\ \A i \in 1..Len(d.to) : d.to[i] = m.to
  /\ d.st = "user" => d.to = <<>>
  /\ d.st \in {"full", "subject", "body"} /\ k["server"].up => Len(d.to) = 1
  /\ d.st = "over" => ~k["server"].up
  /\ a = [to |-> a.to, body |-> a.body, taken |-> a.taken] /\ a.body \in Seq(Word)
  /\ d.st = "body" => a.to = d.to
  /\ d.st \notin {"body", "over"} => a.body = <<>>
  /\ Len(a.body) <= Full(m) /\ \A i \in 1..Len(a.body) : a.body[i] = m.body[i].x

Streamed(s, d, a, k) ==
  k["server"].up =>
    LET n == Read(d, a)
        q == k["server"].queue
    IN  /\ n + Len(q) <= 6 + Full(s.mail)
        /\ s.st \in Active => n + Len(q) = Written(s)
        /\ \A i \in 1..Len(q) : q[i] = Script(s.mail, n + i)

AcksCounted(s, d, a, k) ==
  ~d.signal /\ k["client"].up /\ a.taken = {} =>
    Len(k["client"].queue) + (IF s.st \in {"body", "sent"} THEN 1 ELSE 0) = Len(d.to)

TakenWhole(s, d, a) ==
  /\ d.st # "over" => a.taken = {}
  /\ ~d.signal => a.taken \subseteq {Whole(s.mail)}
  /\ ~d.signal /\ s.st = "over" /\ ~s.told /\ s.mail.body # <<>> =>
       a.taken = {Whole(s.mail)}

MailOK(s, d, a, k) ==
  /\ k \in MailLink /\ SenderOK(s, k) /\ MaildOK(s.mail, d, a, k)
  /\ Streamed(s, d, a, k) /\ AcksCounted(s, d, a, k) /\ TakenWhole(s, d, a)

MailInv == MailOK(sender, maild, mta, wire)

-----------------------------------------------------------------------------
(* The operators *)

LEMMA LinkIs ==
  ASSUME NEW k \in MailLink, NEW e \in Ends
  PROVE  /\ k[e] \in LinkEnd /\ FarOf(e) \in Ends
         /\ k[e].up \in BOOLEAN /\ k[e].open \in BOOLEAN /\ k[e].queue \in Seq(MailText)
<1>1. k["client"] \in LinkEnd /\ k["server"] \in LinkEnd
  BY DEF MailLink
<1>2. e = "client" \/ e = "server"
  BY DEF Ends
<1>3. k[e] \in LinkEnd
  BY <1>1, <1>2
<1>4. FarOf(e) \in Ends
  BY DEF FarOf, Ends
<1> QED BY <1>3, <1>4 DEF LinkEnd

\* Each operation changes what its definition names, and nothing else.
LEMMA PutAllIs ==
  ASSUME NEW k \in MailLink, NEW e \in Ends, NEW ms \in Seq(MailText)
  PROVE  LET r == PutAll(k, e, ms)
             f == FarOf(e)
         IN  /\ r \in MailLink
             /\ r[e] = k[e] /\ r[f].up = k[f].up /\ r[f].open = k[f].open
             /\ r[f].queue = IF k[e].up /\ k[f].up THEN k[f].queue \o ms
                             ELSE k[f].queue
<1> DEFINE f == FarOf(e)
<1>1. k[f].queue \o ms \in Seq(MailText)
  BY LinkIs
<1> QED BY <1>1 DEF PutAll, FarOf, Ends, MailLink, LinkEnd

LEMMA TakenIs ==
  ASSUME NEW k \in MailLink, NEW e \in Ends, Waiting(k, e)
  PROVE  LET r == Taken(k, e)
             f == FarOf(e)
         IN  /\ r \in MailLink
             /\ r[f] = k[f] /\ r[e].up = k[e].up /\ r[e].open = k[e].open
             /\ r[e].queue = Tail(k[e].queue)
<1>1. k[e].queue \in Seq(MailText) /\ k[e].queue # <<>>
  BY LinkIs DEF Waiting
<1>2. Tail(k[e].queue) \in Seq(MailText)
  BY <1>1
<1> QED BY <1>2 DEF Taken, FarOf, Ends, MailLink, LinkEnd

LEMMA ShutIs ==
  ASSUME NEW k \in MailLink, NEW e \in Ends
  PROVE  LET r == Shut(k, e)
         IN  /\ r \in MailLink
             /\ r[FarOf(e)] = k[FarOf(e)] /\ ~r[e].up /\ ~r[e].open
<1>1. <<>> \in Seq(MailText)
  OBVIOUS
<1> QED BY <1>1 DEF Shut, ShutEnd, FarOf, Ends, MailLink, LinkEnd

LEMMA CutIs ==
  ASSUME NEW k \in MailLink, NEW e \in Ends
  PROVE  LET r == Cut(k, e)
         IN  /\ r \in MailLink
             /\ r[FarOf(e)] = k[FarOf(e)] /\ ~r[e].up /\ r[e].open = k[e].open
<1>1. <<>> \in Seq(MailText)
  OBVIOUS
<1> QED BY <1>1 DEF Cut, FarOf, Ends, MailLink, LinkEnd

LEMMA ElementsOf ==
  ASSUME NEW S, NEW s \in Seq(S), NEW i \in 1..Len(s)
  PROVE  s[i] \in S
OBVIOUS

LEMMA ScriptIs ==
  ASSUME NEW m \in Mails
  PROVE  /\ Full(m) \in Nat /\ Full(m) <= Len(m.body) /\ Len(m.body) <= Full(m) + 1
         /\ m.body \in Seq([x : STRING, lf : BOOLEAN])
         /\ \A i \in 1..Len(m.body) : m.body[i].lf <=> i <= Full(m)
         /\ \A i \in 1..Len(m.body) : m.body[i].x \in STRING
         /\ m.to \in STRING /\ m.smtp \in BOOLEAN
<1>1. /\ m.body \in Seq([x : STRING, lf : BOOLEAN])
      /\ \A i \in DOMAIN m.body : m.body[i].lf \/ i = Len(m.body)
      /\ m.to \in STRING /\ m.smtp \in BOOLEAN
  BY MailsAssumption
<1>2. DOMAIN m.body = 1..Len(m.body) /\ Len(m.body) \in Nat
  BY <1>1
<1>3. \A i \in 1..Len(m.body) : m.body[i] \in [x : STRING, lf : BOOLEAN]
  BY <1>1, ElementsOf
<1>4. \A i \in 1..Len(m.body) : m.body[i].x \in STRING /\ m.body[i].lf \in BOOLEAN
  BY <1>3
<1>5. m.body = <<>> <=> Len(m.body) = 0
  BY <1>1
<1>6. Full(m) \in Nat /\ Full(m) <= Len(m.body) /\ Len(m.body) <= Full(m) + 1
  BY <1>2, <1>5 DEF Full
<1>7. \A i \in 1..Len(m.body) : m.body[i].lf <=> i <= Full(m)
  BY <1>1, <1>2, <1>4, <1>5 DEF Full
<1> QED BY <1>1, <1>4, <1>6, <1>7

LEMMA TextIs == Nul \in MailText /\ Ack \in MailText /\ \A x \in Word : Text(x) \in MailText
<1>1. \A x \in Word : Text(x) \in [t : {"text"}, x : Word]
  BY DEF Text
<1> QED BY <1>1 DEF MailText

LEMMA TailOf ==
  ASSUME NEW q \in Seq(MailText), q # <<>>
  PROVE  /\ Len(q) \in Nat /\ Len(Tail(q)) \in Nat /\ Len(Tail(q)) + 1 = Len(q)
         /\ Head(q) = q[1] /\ 1 \in 1..Len(q)
         /\ \A i \in 1..Len(Tail(q)) : Tail(q)[i] = q[i + 1] /\ i + 1 \in 1..Len(q)
OBVIOUS

LEMMA NulIsNoText ==
  \A x : Text(x) # Nul /\ Ack # Text(x) /\ Ack # Nul
<1> SUFFICES ASSUME NEW x PROVE Text(x) # Nul /\ Ack # Text(x) /\ Ack # Nul
  OBVIOUS
<1>1. Text(x).t = "text" /\ Nul.t = "nul" /\ Ack.t = "ack"
  BY DEF Text, Nul, Ack
<1> QED BY <1>1

-----------------------------------------------------------------------------
(* sendvmsmail *)

\* ms are the messages of the script after the first n.
Continues(m, n, ms) == \A i \in 1..Len(ms) : ms[i] = Script(m, n + i)

\* Sender s writes ms, what comes next in the script, and goes on as r.
Writes(s, d, a, k, r, ms) ==
  /\ k \in MailLink /\ k["client"].up
  /\ SenderOK(s, k) /\ MaildOK(s.mail, d, a, k) /\ Streamed(s, d, a, k) /\ TakenWhole(s, d, a)
  /\ SenderOK(r, k) /\ r.mail = s.mail /\ r.st \in Active
  /\ ms \in Seq(MailText) /\ Continues(s.mail, Written(s), ms)
  /\ Written(r) = Written(s) + Len(ms) /\ Written(r) <= 6 + Full(s.mail)

LEMMA SenderWrites ==
  ASSUME NEW s, NEW d, NEW a, NEW k, NEW r, NEW ms, Writes(s, d, a, k, r, ms)
  PROVE  LET h == PutAll(k, "client", ms) IN
         /\ h \in MailLink /\ SenderOK(r, h) /\ MaildOK(r.mail, d, a, h)
         /\ Streamed(r, d, a, h) /\ TakenWhole(r, d, a)
         /\ h["client"] = k["client"]
<1> DEFINE h == PutAll(k, "client", ms)
           q == k["server"].queue
<1>1. /\ k \in MailLink /\ k["client"].up
      /\ SenderOK(s, k) /\ MaildOK(s.mail, d, a, k) /\ Streamed(s, d, a, k) /\ TakenWhole(s, d, a)
      /\ SenderOK(r, k) /\ r.mail = s.mail /\ r.st \in Active
      /\ ms \in Seq(MailText) /\ Continues(s.mail, Written(s), ms)
      /\ Written(r) = Written(s) + Len(ms) /\ Written(r) <= 6 + Full(s.mail)
  BY DEF Writes
<1>2. "client" \in Ends /\ "server" \in Ends /\ FarOf("client") = "server"
  BY <1>1 DEF Ends, FarOf
<1>3. /\ h \in MailLink /\ h["client"] = k["client"]
      /\ h["server"].up = k["server"].up /\ h["server"].open = k["server"].open
      /\ h["server"].queue = IF k["server"].up THEN q \o ms ELSE q
  BY <1>1, <1>2, PutAllIs
<1>4. q \in Seq(MailText)
  BY <1>1, <1>2, LinkIs
<1>5. s.st \in Active
  BY <1>1 DEF SenderOK
<1> HIDE DEF h
<1>6. SenderOK(r, h) /\ MaildOK(r.mail, d, a, h)
  BY <1>1, <1>3 DEF SenderOK, MaildOK
<1>7. Streamed(r, d, a, h)
  <2> SUFFICES ASSUME k["server"].up
               PROVE  LET n == Read(d, a)
                          p == q \o ms
                      IN  /\ n + Len(p) <= 6 + Full(r.mail)
                          /\ r.st \in Active => n + Len(p) = Written(r)
                          /\ \A i \in 1..Len(p) : p[i] = Script(r.mail, n + i)
    BY <1>1, <1>3 DEF Streamed
  <2> DEFINE n == Read(d, a)
             p == q \o ms
  <2>1. /\ n + Len(q) = Written(s)
        /\ \A i \in 1..Len(q) : q[i] = Script(s.mail, n + i)
    BY <1>1, <1>5 DEF Streamed
  <2>2. n \in Nat
    BY <1>1 DEF MaildOK, Read
  <2>3. /\ Len(p) = Len(q) + Len(ms) /\ Len(q) \in Nat /\ Len(ms) \in Nat
        /\ \A i \in 1..Len(p) : p[i] = IF i <= Len(q) THEN q[i] ELSE ms[i - Len(q)]
    BY <1>1, <1>4
  <2> HIDE DEF n, p
  <2>4. n + Len(p) = Written(r) /\ n + Len(p) <= 6 + Full(r.mail)
    BY <1>1, <2>1, <2>2, <2>3
  <2>5. ASSUME NEW i \in 1..Len(p) PROVE p[i] = Script(r.mail, n + i)
    <3>1. CASE i <= Len(q)
      BY <1>1, <2>1, <2>3, <3>1
    <3>2. CASE ~(i <= Len(q))
      <4>1. i - Len(q) \in 1..Len(ms) /\ Written(s) + (i - Len(q)) = n + i
        BY <1>1, <2>1, <2>2, <2>3, <3>2
      <4> QED BY <1>1, <2>3, <3>2, <4>1 DEF Continues
    <3> QED BY <1>1, <3>1, <3>2
  <2> QED BY <1>1, <2>4, <2>5 DEF n, p
<1>8. TakenWhole(r, d, a)
  BY <1>1, <1>5 DEF TakenWhole, Active
<1> QED BY <1>1, <1>3, <1>6, <1>7, <1>8 DEF h

\* The sender ends, and says so unless the mail was forwarded.
LEMMA SenderEnds ==
  ASSUME NEW s, NEW d, NEW a, NEW k, MailOK(s, d, a, k), NEW told \in BOOLEAN,
         NEW st \in {"over", "killed"},
         st = "over" /\ ~told /\ ~d.signal /\ s.mail.body # <<>> => a.taken = {Whole(s.mail)}
  PROVE  MailOK([s EXCEPT !.st = st, !.told = told], d, a, Shut(k, "client"))
<1> DEFINE r == [s EXCEPT !.st = st, !.told = told]
           h == Shut(k, "client")
<1>1. /\ k \in MailLink /\ SenderOK(s, k) /\ MaildOK(s.mail, d, a, k)
      /\ Streamed(s, d, a, k) /\ TakenWhole(s, d, a)
  BY DEF MailOK
<1>2. /\ h \in MailLink /\ h["server"] = k["server"]
      /\ ~h["client"].up /\ ~h["client"].open
  BY <1>1, ShutIs DEF Ends, FarOf
<1>3. /\ r.mail = s.mail /\ r.st = st /\ r.told = told /\ r.todo = s.todo /\ r.buf = s.buf
      /\ r \in [st : Active \cup {"over", "killed"}, mail : Mails,
                todo : Seq([x : STRING, lf : BOOLEAN]),
                buf : {"ack", "line", "error"}, told : BOOLEAN]
  BY <1>1 DEF SenderOK
<1>4. st \notin Active
  BY DEF Active
<1> HIDE DEF r, h
<1> HIDE DEF h
<1>5. SenderOK(r, h) /\ MaildOK(r.mail, d, a, h)
  BY <1>1, <1>2, <1>3, <1>4 DEF SenderOK, MaildOK, Active
<1>6. Streamed(r, d, a, h) /\ AcksCounted(r, d, a, h)
  BY <1>1, <1>2, <1>3, <1>4 DEF Streamed, AcksCounted
<1>7. TakenWhole(r, d, a)
  BY <1>1, <1>3 DEF TakenWhole
<1> QED BY <1>2, <1>5, <1>6, <1>7 DEF MailOK, r, h

LEMMA WrittenIs ==
  ASSUME NEW s, NEW k, SenderOK(s, k)
  PROVE  /\ Written(s) \in Nat /\ s.mail \in Mails
         /\ Len(s.todo) \in Nat /\ Len(s.mail.body) \in Nat /\ Len(s.todo) <= Len(s.mail.body)
         /\ s.st = "body" => Written(s) <= 5 + Full(s.mail)
<1>1. s.mail \in Mails /\ s.todo \in Seq([x : STRING, lf : BOOLEAN])
        /\ Len(s.todo) <= Len(s.mail.body)
  BY DEF SenderOK
<1>2. Full(s.mail) \in Nat /\ Len(s.mail.body) \in Nat /\ Len(s.todo) \in Nat
  BY <1>1, ScriptIs
<1>3. Len(s.mail.body) - Len(s.todo) \in Nat
  BY <1>1, <1>2
<1>4. Written(s) \in Nat /\ (s.st = "body" => Written(s) <= 5 + Full(s.mail))
  <2> DEFINE f == Full(s.mail)
             g == Len(s.mail.body) - Len(s.todo)
             h == IF g <= f THEN g ELSE f
  <2>1. f \in Nat /\ g \in Nat
    BY <1>2, <1>3
  <2>2. Written(s) = IF s.st = "start" THEN 0 ELSE IF s.st = "user" THEN 2
                     ELSE IF s.st = "sent" THEN 6 + f ELSE 5 + h
    BY DEF Written
  <2> HIDE DEF f, g
  <2> QED BY <2>1, <2>2 DEF f
<1> QED BY <1>1, <1>2, <1>4

\* The end of a sender by one of its actions
LEMMA SenderOverOK ==
  ASSUME MailInv, NEW told \in BOOLEAN, SenderOver(told),
         ~told /\ ~maild.signal /\ sender.mail.body # <<>> => mta.taken = {Whole(sender.mail)}
  PROVE  MailInv'
BY SenderEnds DEF MailInv, SenderOver, SenderIs

LEMMA SendUserOK == ASSUME MailInv, SendUser PROVE MailInv'
<1> DEFINE s == [sender EXCEPT !.st = "user"]
           ms == <<Text("from"), Text(sender.mail.to)>>
<1>1. SenderOK(sender, wire) /\ sender.st = "start" /\ wire \in MailLink
  BY DEF MailInv, MailOK, SendUser
<1>2. ASSUME wire["client"].up, wire' = PutAll(wire, "client", ms), SenderIs(s)
      PROVE  MailInv'
  <2>1. SenderOK(s, wire) /\ s.mail = sender.mail /\ s.st = "user"
    BY <1>1 DEF SenderOK, Active
  <2>2. sender.mail \in Mails /\ sender.mail.to \in STRING /\ Full(sender.mail) \in Nat
    BY <1>1, ScriptIs DEF SenderOK
  <2>3. ms \in Seq(MailText) /\ Len(ms) = 2
    <3>1. Text("from") \in MailText /\ Text(sender.mail.to) \in MailText
      BY <2>2, TextIs DEF Word
    <3> QED BY <3>1
  <2>4. Written(sender) = 0 /\ Written(s) = 2
    BY <1>1, <2>1 DEF Written
  <2>5. \A i \in 1..2 : ms[i] = Script(sender.mail, i)
    BY DEF Script
  <2> HIDE DEF s, ms
  <2>6. Written(s) = Written(sender) + Len(ms) /\ Written(s) <= 6 + Full(sender.mail)
    BY <2>2, <2>3, <2>4
  <2>7. Continues(sender.mail, Written(sender), ms)
    BY <2>3, <2>4, <2>5 DEF Continues
  <2>8. LET h == PutAll(wire, "client", ms)
        IN  /\ h \in MailLink /\ SenderOK(s, h) /\ MaildOK(s.mail, maild, mta, h)
            /\ Streamed(s, maild, mta, h) /\ TakenWhole(s, maild, mta)
            /\ h["client"] = wire["client"]
    <3>1. /\ SenderOK(sender, wire) /\ MaildOK(sender.mail, maild, mta, wire)
          /\ Streamed(sender, maild, mta, wire) /\ TakenWhole(sender, maild, mta)
      BY DEF MailInv, MailOK
    <3>2. s.st \in Active
      BY <2>1 DEF Active
    <3>3. Writes(sender, maild, mta, wire, s, ms)
      BY <1>1, <1>2, <2>1, <2>3, <2>6, <2>7, <3>1, <3>2 DEF Writes
    <3> QED BY <3>3, SenderWrites
  <2>9. AcksCounted(s, maild, mta, wire')
    BY <1>1, <1>2, <2>1, <2>8 DEF MailInv, MailOK, AcksCounted
  <2> QED BY <1>2, <2>8, <2>9 DEF MailInv, MailOK, SenderIs
<1>3. ASSUME SenderOver(TRUE) PROVE MailInv'
  BY <1>3, SenderOverOK
<1> QED BY <1>2, <1>3 DEF SendUser, Says

\* The answer to the addressee is taken before more is written.
LEMMA UserAnsweredOK == ASSUME MailInv, UserAnswered PROVE MailInv'
<1> DEFINE s == [sender EXCEPT !.st = "body", !.buf = "ack"]
           ms == <<Nul, Text("full"), Text("subject")>>
           k == Taken(wire, "client")
<1>1. /\ SenderOK(sender, wire) /\ sender.st = "user" /\ wire \in MailLink
      /\ MailOK(sender, maild, mta, wire)
  BY DEF MailInv, MailOK, UserAnswered
<1>2. ASSUME wire["client"].up, Waiting(wire, "client"),
             wire' = PutAll(k, "client", ms), SenderIs(s)
      PROVE  MailInv'
  <2>1. /\ k \in MailLink /\ k["server"] = wire["server"] /\ k["client"].up
        /\ k["client"].queue = Tail(wire["client"].queue)
        /\ k["client"].open = wire["client"].open
    BY <1>1, <1>2, TakenIs DEF Ends, FarOf
  <2>2. wire["client"].queue \in Seq(MailText) /\ wire["client"].queue # <<>>
    BY <1>1, <1>2, LinkIs DEF Waiting, Ends
  <2>3. Len(k["client"].queue) + 1 = Len(wire["client"].queue) /\ Len(k["client"].queue) \in Nat
    BY <2>1, <2>2, TailOf
  <2> HIDE DEF k
  <2>4. /\ s.mail = sender.mail /\ s.st = "body" /\ s.todo = sender.todo /\ s.buf = "ack"
        /\ sender.todo = sender.mail.body
    BY <1>1 DEF SenderOK
  <2>5. SenderOK(s, k)
    BY <1>1, <2>4 DEF SenderOK, Active
  <2> HIDE DEF s
  <2>6. sender.mail \in Mails /\ Full(sender.mail) \in Nat /\ Len(sender.mail.body) \in Nat
    BY <1>1, ScriptIs DEF SenderOK
  <2>7. ms \in Seq(MailText) /\ Len(ms) = 3
    <3>1. Nul \in MailText /\ Text("full") \in MailText /\ Text("subject") \in MailText
      BY TextIs DEF Word
    <3> QED BY <3>1
  <2>8. Written(sender) = 2 /\ Written(s) = 5
    <3>1. Len(s.mail.body) - Len(s.todo) = 0 /\ 0 <= Full(s.mail)
      BY <2>4, <2>6
    <3> QED BY <1>1, <2>4, <3>1 DEF Written
  <2>9. \A i \in 1..3 : ms[i] = Script(sender.mail, 2 + i)
    BY DEF Script
  \* The server sees nothing of the answer that was taken.
  <2>10. SenderOK(sender, k) /\ MaildOK(sender.mail, maild, mta, k)
           /\ Streamed(sender, maild, mta, k) /\ TakenWhole(sender, maild, mta)
    BY <1>1, <2>1 DEF MailOK, SenderOK, MaildOK, Streamed, Active
  <2> HIDE DEF ms
  <2>11. Written(s) = Written(sender) + Len(ms) /\ Written(s) <= 6 + Full(sender.mail)
    BY <2>6, <2>7, <2>8
  <2>12. Continues(sender.mail, Written(sender), ms)
    BY <2>7, <2>8, <2>9 DEF Continues
  <2>13. LET h == PutAll(k, "client", ms)
         IN  /\ h \in MailLink /\ SenderOK(s, h) /\ MaildOK(s.mail, maild, mta, h)
             /\ Streamed(s, maild, mta, h) /\ TakenWhole(s, maild, mta)
             /\ h["client"] = k["client"]
    <3>1. s.st \in Active
      BY <2>4 DEF Active
    <3>2. Writes(sender, maild, mta, k, s, ms)
      BY <1>2, <2>1, <2>4, <2>5, <2>7, <2>10, <2>11, <2>12, <3>1 DEF Writes
    <3> QED BY <3>2, SenderWrites
  <2>14. AcksCounted(s, maild, mta, wire')
    <3>1. ~maild.signal /\ mta.taken = {} =>
            Len(wire["client"].queue) + 0 = Len(maild.to)
      BY <1>1, <1>2 DEF MailOK, AcksCounted
    <3>2. wire["client"].queue # <<>> /\ Len(wire["client"].queue) + 0 = Len(wire["client"].queue)
      BY <2>2
    <3> QED BY <1>2, <2>3, <2>4, <2>13, <3>1, <3>2 DEF AcksCounted
  <2> QED BY <1>2, <2>13, <2>14 DEF MailInv, MailOK, SenderIs
<1>3. ASSUME SenderOver(TRUE) PROVE MailInv'
  BY <1>3, SenderOverOK
<1>4. \/ SenderOver(TRUE)
      \/ /\ wire["client"].up /\ Waiting(wire, "client")
         /\ wire' = PutAll(k, "client", ms) /\ SenderIs(s)
  <2>1. PICK r \in {"ack", "line", "error"} :
          /\ (Waiting(wire, "client") \/ Hears(wire, "client"))
          /\ IF r = "ack"
               THEN LET h == IF Waiting(wire, "client") THEN Taken(wire, "client") ELSE wire
                    IN  IF h["client"].up
                          THEN /\ wire' = PutAll(h, "client", ms)
                               /\ SenderIs([sender EXCEPT !.st = "body", !.buf = r])
                          ELSE SenderOver(TRUE)
               ELSE SenderOver(TRUE)
    BY DEF UserAnswered, Answered
  <2> QED BY <2>1 DEF Waiting, Hears
<1> QED BY <1>2, <1>3, <1>4

LEMMA SendLineOK == ASSUME MailInv, SendLine PROVE MailInv'
<1> DEFINE line == Head(sender.todo)
           rest == Tail(sender.todo)
           s == [sender EXCEPT !.todo = rest, !.buf = "line"]
           m == sender.mail
           d == Len(m.body) - Len(sender.todo)
<1>1. /\ SenderOK(sender, wire) /\ MaildOK(m, maild, mta, wire)
      /\ Streamed(sender, maild, mta, wire) /\ TakenWhole(sender, maild, mta)
      /\ AcksCounted(sender, maild, mta, wire)
      /\ wire \in MailLink /\ sender.st = "body" /\ sender.todo # <<>>
  BY DEF MailInv, MailOK, SendLine
<1>2. /\ m \in Mails /\ Full(m) \in Nat /\ Len(m.body) \in Nat
      /\ Full(m) <= Len(m.body) /\ Len(m.body) <= Full(m) + 1
      /\ \A i \in 1..Len(m.body) : (m.body[i].lf <=> i <= Full(m)) /\ m.body[i].x \in STRING
  BY <1>1, ScriptIs DEF SenderOK
<1>3. /\ sender.todo \in Seq([x : STRING, lf : BOOLEAN])
      /\ Len(sender.todo) <= Len(m.body)
      /\ \A i \in 1..Len(sender.todo) : sender.todo[i] = m.body[d + i]
  BY <1>1 DEF SenderOK
<1>4. /\ Len(sender.todo) \in Nat /\ Len(sender.todo) > 0 /\ line = sender.todo[1]
      /\ rest \in Seq([x : STRING, lf : BOOLEAN])
      /\ Len(rest) = Len(sender.todo) - 1
      /\ \A i \in 1..Len(rest) : rest[i] = sender.todo[i + 1]
  BY <1>1, <1>3
<1> HIDE DEF rest, line
<1>5. d \in Nat /\ d + 1 \in 1..Len(m.body) /\ line = m.body[d + 1]
  <2>1. \A b, l \in Nat : l > 0 /\ l <= b => b - l \in Nat /\ (b - l) + 1 \in 1..b /\ 1 \in 1..l
    OBVIOUS
  <2> QED BY <1>2, <1>3, <1>4, <2>1
<1>6. /\ s.mail = m /\ s.st = "body" /\ s.todo = rest /\ s.buf = "line"
      /\ s \in [st : Active \cup {"over", "killed"}, mail : Mails,
                todo : Seq([x : STRING, lf : BOOLEAN]),
                buf : {"ack", "line", "error"}, told : BOOLEAN]
  BY <1>1, <1>4 DEF SenderOK
<1> HIDE DEF s, d
<1>7. /\ Len(s.todo) \in Nat /\ Len(s.todo) + 1 = Len(sender.todo)
      /\ Len(m.body) - Len(s.todo) = d + 1
  <2>1. s.todo = rest
    BY <1>6
  <2>2. Len(s.todo) = Len(sender.todo) - 1
    BY <1>4, <2>1
  <2> QED BY <1>2, <1>4, <2>2 DEF d
<1>8. SenderOK(s, wire)
  <2>1. ASSUME NEW i \in 1..Len(s.todo)
        PROVE  s.todo[i] = m.body[Len(m.body) - Len(s.todo) + i]
    <3>1. \A j, l, b \in Nat : j \in 1..l => j + 1 \in 1..(l + 1) /\ b + (j + 1) = (b + 1) + j
      OBVIOUS
    <3>2. i + 1 \in 1..Len(sender.todo) /\ d + (i + 1) = Len(m.body) - Len(s.todo) + i
      <4>1. i \in Nat /\ d \in Nat
        BY <1>5, <1>7
      <4>2. i + 1 \in 1..Len(sender.todo)
        BY <1>7, <3>1
      <4>3. \A j, b : j \in Nat /\ b \in Nat => b + (j + 1) = (b + 1) + j
        OBVIOUS
      <4>4. d + (i + 1) = (d + 1) + i
        BY <4>1, <4>3
      <4> QED BY <1>7, <4>2, <4>4
    <3> QED BY <1>3, <1>4, <1>6, <3>2 DEF d
  <2>2. Len(s.todo) <= Len(m.body)
    BY <1>2, <1>3, <1>4, <1>6
  <2> QED BY <1>6, <2>1, <2>2 DEF SenderOK, Active
<1>9. Written(sender) = 5 + (IF d <= Full(m) THEN d ELSE Full(m))
  BY <1>1 DEF Written, d
<1>10. Written(s) = 5 + (IF d + 1 <= Full(m) THEN d + 1 ELSE Full(m))
  BY <1>6, <1>7 DEF Written
<1>11. ASSUME line.lf, wire["client"].up,
              wire' = PutAll(wire, "client", <<Text(line.x)>>), SenderIs(s)
       PROVE  MailInv'
  <2> DEFINE ms == <<Text(line.x)>>
  <2>1. line.x \in STRING /\ d + 1 <= Full(m)
    BY <1>2, <1>5, <1>11
  <2>2. ms \in Seq(MailText) /\ Len(ms) = 1 /\ ms[1] = Text(line.x)
    <3>1. Text(line.x) \in MailText
      BY <2>1, TextIs DEF Word
    <3> QED BY <3>1
  <2> HIDE DEF ms
  <2>3. Written(sender) = 5 + d /\ Written(s) = 6 + d
    BY <1>2, <1>5, <1>9, <1>10, <2>1
  <2>4. Script(m, 6 + d) = Text(line.x)
    <3>1. /\ 6 + d # 1 /\ 6 + d # 2 /\ 6 + d # 3 /\ 6 + d # 4 /\ 6 + d # 5
          /\ 6 + d <= 5 + Full(m) /\ (6 + d) - 5 = d + 1
      BY <1>2, <1>5, <2>1
    <3> QED BY <1>5, <3>1 DEF Script
  <2>5. Continues(m, Written(sender), ms)
    BY <1>5, <2>2, <2>3, <2>4 DEF Continues
  <2>6. Written(s) = Written(sender) + Len(ms) /\ Written(s) <= 6 + Full(m)
    BY <1>2, <1>5, <2>1, <2>2, <2>3
  <2>7. Writes(sender, maild, mta, wire, s, ms)
    BY <1>1, <1>6, <1>8, <1>11, <2>2, <2>5, <2>6 DEF Writes, Active
  <2>8. LET h == PutAll(wire, "client", ms)
        IN  /\ h \in MailLink /\ SenderOK(s, h) /\ MaildOK(s.mail, maild, mta, h)
            /\ Streamed(s, maild, mta, h) /\ TakenWhole(s, maild, mta)
            /\ h["client"] = wire["client"]
    BY <2>7, SenderWrites
  <2>9. wire' = PutAll(wire, "client", ms)
    BY <1>11 DEF ms
  <2>10. AcksCounted(s, maild, mta, wire')
    BY <1>1, <1>6, <2>8, <2>9 DEF AcksCounted
  <2> QED BY <1>11, <2>8, <2>9, <2>10 DEF MailInv, MailOK, SenderIs
<1>12. ASSUME ~line.lf, SenderIs(s), wire' = wire
       PROVE  MailInv'
  <2>1. Written(s) = Written(sender)
    BY <1>2, <1>5, <1>9, <1>10, <1>12
  <2>2. Streamed(s, maild, mta, wire)
    BY <1>1, <1>6, <2>1 DEF Streamed, Active
  <2>3. AcksCounted(s, maild, mta, wire) /\ TakenWhole(s, maild, mta)
    BY <1>1, <1>6 DEF AcksCounted, TakenWhole
  <2> QED BY <1>1, <1>6, <1>8, <1>12, <2>2, <2>3 DEF MailInv, MailOK, SenderIs
<1>13. ASSUME SenderOver(TRUE) PROVE MailInv'
  BY <1>13, SenderOverOK
<1> QED BY <1>11, <1>12, <1>13 DEF SendLine, Says, line, rest, s

LEMMA SendEndOK == ASSUME MailInv, SendEnd PROVE MailInv'
<1> DEFINE s == [sender EXCEPT !.st = "sent"]
           m == sender.mail
           ms == <<Nul>>
<1>1. /\ SenderOK(sender, wire) /\ MaildOK(m, maild, mta, wire)
      /\ Streamed(sender, maild, mta, wire) /\ TakenWhole(sender, maild, mta)
      /\ AcksCounted(sender, maild, mta, wire)
      /\ wire \in MailLink /\ sender.st = "body" /\ sender.todo = <<>>
  BY DEF MailInv, MailOK, SendEnd
<1>2. m \in Mails /\ Full(m) \in Nat /\ Full(m) <= Len(m.body) /\ Len(m.body) \in Nat
  BY <1>1, ScriptIs DEF SenderOK
<1>3. /\ s.mail = m /\ s.st = "sent" /\ s.todo = <<>> /\ s.buf = sender.buf
  BY <1>1 DEF SenderOK
<1>4. SenderOK(s, wire)
  BY <1>1, <1>3 DEF SenderOK, Active
<1>5. Written(sender) = 5 + Full(m) /\ Written(s) = 6 + Full(m)
  <2>1. Len(m.body) - Len(sender.todo) = Len(m.body)
    BY <1>1, <1>2
  <2>2. Written(sender) = 5 + Full(m)
    BY <1>1, <1>2, <2>1 DEF Written
  <2> QED BY <1>3, <2>2 DEF Written
<1>6. ms \in Seq(MailText) /\ Len(ms) = 1 /\ ms[1] = Nul
  <2>1. Nul \in MailText
    BY TextIs
  <2> QED BY <2>1
<1> HIDE DEF s, ms
<1>7. ASSUME wire["client"].up, wire' = PutAll(wire, "client", ms), SenderIs(s)
      PROVE  MailInv'
  <2>1. Script(m, 6 + Full(m)) = Nul
    <3>1. /\ 6 + Full(m) # 1 /\ 6 + Full(m) # 2 /\ 6 + Full(m) # 4 /\ 6 + Full(m) # 5
          /\ ~(6 + Full(m) <= 5 + Full(m))
      BY <1>2
    <3> QED BY <3>1 DEF Script
  <2>2. Continues(m, Written(sender), ms)
    <3>1. Written(sender) + 1 = 6 + Full(m)
      BY <1>2, <1>5
    <3> QED BY <1>6, <2>1, <3>1 DEF Continues
  <2>3. Written(s) = Written(sender) + Len(ms) /\ Written(s) <= 6 + Full(m)
    BY <1>2, <1>5, <1>6
  <2>4. Writes(sender, maild, mta, wire, s, ms)
    BY <1>1, <1>3, <1>4, <1>6, <1>7, <2>2, <2>3 DEF Writes, Active
  <2>5. LET h == PutAll(wire, "client", ms)
        IN  /\ h \in MailLink /\ SenderOK(s, h) /\ MaildOK(s.mail, maild, mta, h)
            /\ Streamed(s, maild, mta, h) /\ TakenWhole(s, maild, mta)
            /\ h["client"] = wire["client"]
    BY <2>4, SenderWrites
  <2>6. AcksCounted(s, maild, mta, wire')
    BY <1>1, <1>3, <1>7, <2>5 DEF AcksCounted
  <2> QED BY <1>7, <2>5, <2>6 DEF MailInv, MailOK, SenderIs
<1>8. ASSUME SenderOver(TRUE) PROVE MailInv'
  BY <1>8, SenderOverOK
<1> QED BY <1>7, <1>8 DEF SendEnd, Says, s, ms

\* An acknowledgement that is there after the NUL is for the whole mail.
LEMMA MailAnsweredOK == ASSUME MailInv, MailAnswered PROVE MailInv'
<1>1. /\ SenderOK(sender, wire) /\ MaildOK(sender.mail, maild, mta, wire)
      /\ TakenWhole(sender, maild, mta) /\ AcksCounted(sender, maild, mta, wire)
      /\ wire \in MailLink /\ sender.st = "sent"
  BY DEF MailInv, MailOK, MailAnswered
<1>2. PICK r \in {"ack", "line", "error"} : Answered(r, sender.buf) /\ SenderOver(r # "ack")
  BY DEF MailAnswered
<1>3. ASSUME r = "ack", ~maild.signal, sender.mail.body # <<>>
      PROVE  mta.taken = {Whole(sender.mail)}
  <2>1. Waiting(wire, "client")
    BY <1>1, <1>2, <1>3 DEF Answered, SenderOK
  <2>2. wire["client"].up /\ wire["client"].queue \in Seq(MailText)
          /\ wire["client"].queue # <<>>
    BY <1>1, <2>1, LinkIs DEF Waiting, Ends
  <2>3. Len(wire["client"].queue) \in Nat /\ Len(wire["client"].queue) > 0
    BY <2>2
  <2>4. Len(maild.to) \in Nat /\ Len(maild.to) <= 1
    BY <1>1 DEF MaildOK
  <2>5. mta.taken = {} => Len(wire["client"].queue) + 1 = Len(maild.to)
    BY <1>1, <1>3, <2>2 DEF AcksCounted
  <2>6. mta.taken # {} /\ mta.taken \subseteq {Whole(sender.mail)}
    BY <1>1, <1>3, <2>3, <2>4, <2>5 DEF TakenWhole
  <2> QED BY <2>6
<1> QED BY <1>2, <1>3, SenderOverOK

LEMMA SenderKilledOK == ASSUME MailInv, SenderKilled PROVE MailInv'
<1>1. SenderOK(sender, wire) /\ sender.told \in BOOLEAN
  BY DEF MailInv, MailOK, SenderOK
<1>2. [sender EXCEPT !.st = "killed"] = [sender EXCEPT !.st = "killed", !.told = sender.told]
  BY <1>1 DEF SenderOK
<1>3. MailOK([sender EXCEPT !.st = "killed", !.told = sender.told], maild, mta,
             Shut(wire, "client"))
  BY <1>1, SenderEnds DEF MailInv
<1> QED BY <1>2, <1>3 DEF MailInv, SenderKilled, SenderIs

-----------------------------------------------------------------------------
(* vmsmaild *)

\* What it finds is what comes next in the script.
LEMMA NextOfScript ==
  ASSUME MailInv, Waiting(wire, "server")
  PROVE  LET n == Read(maild, mta) IN
         /\ n \in Nat /\ n + 1 <= 6 + Full(sender.mail)
         /\ Foremost(wire, "server") = Script(sender.mail, n + 1)
<1> DEFINE n == Read(maild, mta)
           q == wire["server"].queue
<1>1. /\ wire \in MailLink /\ Streamed(sender, maild, mta, wire)
      /\ MaildOK(sender.mail, maild, mta, wire) /\ sender.mail \in Mails
  BY DEF MailInv, MailOK, SenderOK
<1>2. q \in Seq(MailText) /\ q # <<>> /\ wire["server"].up
  BY <1>1, LinkIs DEF Waiting, Ends
<1>3. n + Len(q) <= 6 + Full(sender.mail) /\ \A i \in 1..Len(q) : q[i] = Script(sender.mail, n + i)
  BY <1>1, <1>2 DEF Streamed
<1>4. n \in Nat
  BY <1>1 DEF MaildOK, Read
<1>5. Full(sender.mail) \in Nat
  BY <1>1, ScriptIs
<1>6. Len(q) \in Nat /\ Len(q) >= 1 /\ Foremost(wire, "server") = q[1] /\ 1 \in 1..Len(q)
  BY <1>2 DEF Foremost
<1> HIDE DEF n, q
<1>7. n + 1 <= 6 + Full(sender.mail)
  BY <1>3, <1>4, <1>5, <1>6
<1> QED BY <1>3, <1>4, <1>6, <1>7 DEF n

\* It reads one message, or finds that the link is gone.
LEMMA MaildReads ==
  ASSUME MailInv, CanRead, sender' = sender, wire' = ReadOne,
         maild.st # "over", maild'.st # "over", maild'.to = maild.to,
         maild'.signal = maild.signal, mta'.taken = mta.taken,
         MaildOK(sender.mail, maild', mta', wire),
         wire["server"].up => Read(maild', mta') = Read(maild, mta) + 1
  PROVE  MailInv'
<1>1. /\ wire \in MailLink /\ SenderOK(sender, wire)
      /\ Streamed(sender, maild, mta, wire) /\ TakenWhole(sender, maild, mta)
      /\ AcksCounted(sender, maild, mta, wire)
  BY DEF MailInv, MailOK
<1>2. /\ wire' \in MailLink /\ wire'["client"] = wire["client"]
      /\ wire'["server"].up = wire["server"].up
  BY <1>1, TakenIs DEF ReadOne, Ends, FarOf
<1>3. Streamed(sender, maild', mta', wire')
  <2> SUFFICES ASSUME wire["server"].up
               PROVE  Streamed(sender, maild', mta', wire')
    BY <1>2 DEF Streamed
  <2> DEFINE n == Read(maild, mta)
             q == wire["server"].queue
             p == wire'["server"].queue
  <2>1. Waiting(wire, "server")
    BY DEF CanRead, Hears
  <2>2. q \in Seq(MailText) /\ q # <<>> /\ p = Tail(q)
    BY <1>1, <2>1, TakenIs, LinkIs DEF ReadOne, Waiting, Ends
  <2>3. /\ Len(q) \in Nat /\ Len(p) \in Nat /\ Len(p) + 1 = Len(q)
        /\ \A i \in 1..Len(p) : p[i] = q[i + 1] /\ i + 1 \in 1..Len(q)
    BY <2>2, TailOf
  <2>4. /\ n + Len(q) <= 6 + Full(sender.mail)
        /\ sender.st \in Active => n + Len(q) = Written(sender)
        /\ \A i \in 1..Len(q) : q[i] = Script(sender.mail, n + i)
    BY <1>1 DEF Streamed
  <2>5. n \in Nat /\ Read(maild', mta') = n + 1
    BY <2>1, NextOfScript
  <2> HIDE DEF n, q, p
  <2>6. (n + 1) + Len(p) = n + Len(q)
    <3>1. \A x, y, z \in Nat : y + 1 = z => (x + 1) + y = x + z
      OBVIOUS
    <3> QED BY <2>3, <2>5, <3>1
  <2>7. ASSUME NEW i \in 1..Len(p) PROVE p[i] = Script(sender.mail, (n + 1) + i)
    <3>1. n + (i + 1) = (n + 1) + i
      BY <2>3, <2>5
    <3> QED BY <2>3, <2>4, <3>1
  <2> QED BY <2>4, <2>5, <2>6, <2>7 DEF Streamed, p
<1>4. SenderOK(sender, wire') /\ MaildOK(sender.mail, maild', mta', wire')
  BY <1>1, <1>2 DEF SenderOK, MaildOK
<1>5. AcksCounted(sender, maild', mta', wire') /\ TakenWhole(sender, maild', mta')
  BY <1>1, <1>2 DEF AcksCounted, TakenWhole
<1> QED BY <1>2, <1>3, <1>4, <1>5 DEF MailInv, MailOK

LEMMA ReadUserOK == ASSUME MailInv, ReadUser PROVE MailInv'
<1>1. MaildOK(sender.mail, maild, mta, wire)
  BY DEF MailInv, MailOK
<1>2. /\ maild.st = "user" /\ CanRead /\ sender' = sender /\ wire' = ReadOne
      /\ maild' = [maild EXCEPT !.st = "to"] /\ mta' = mta
  BY DEF ReadUser, MaildIs
<1>3. maild'.st = "to" /\ maild'.to = maild.to /\ maild'.signal = maild.signal /\ maild.to = <<>>
  BY <1>1, <1>2 DEF MaildOK
<1>4. MaildOK(sender.mail, maild', mta', wire)
  BY <1>1, <1>2, <1>3 DEF MaildOK
<1>5. Read(maild', mta') = Read(maild, mta) + 1
  BY <1>2, <1>3 DEF Read
<1> QED BY <1>2, <1>3, <1>4, <1>5, MaildReads

LEMMA ReadFullOK == ASSUME MailInv, ReadFull PROVE MailInv'
<1>1. MaildOK(sender.mail, maild, mta, wire)
  BY DEF MailInv, MailOK
<1>2. /\ maild.st = "full" /\ CanRead /\ sender' = sender /\ wire' = ReadOne
      /\ maild' = [maild EXCEPT !.st = "subject"] /\ mta' = mta
  BY DEF ReadFull, MaildIs
<1>3. maild'.st = "subject" /\ maild'.to = maild.to /\ maild'.signal = maild.signal
  BY <1>1, <1>2 DEF MaildOK
<1>4. MaildOK(sender.mail, maild', mta', wire)
  BY <1>1, <1>2, <1>3 DEF MaildOK
<1>5. Read(maild', mta') = Read(maild, mta) + 1
  BY <1>2, <1>3 DEF Read
<1> QED BY <1>2, <1>3, <1>4, <1>5, MaildReads

\* vmsmaild ends and has forwarded nothing more.
LEMMA MaildOverOK ==
  ASSUME MailInv, MaildOver, mta' = mta, maild.st # "over"
  PROVE  MailInv'
<1>1. /\ wire \in MailLink /\ SenderOK(sender, wire) /\ MaildOK(sender.mail, maild, mta, wire)
      /\ TakenWhole(sender, maild, mta) /\ AcksCounted(sender, maild, mta, wire)
  BY DEF MailInv, MailOK
<1>2. sender' = sender /\ wire' = Shut(wire, "server") /\ maild' = [maild EXCEPT !.st = "over"]
  BY DEF MaildOver, MaildIs
<1>3. wire' \in MailLink /\ wire'["client"] = wire["client"] /\ ~wire'["server"].up
  BY <1>1, <1>2, ShutIs DEF Ends, FarOf
<1>4. maild'.st = "over" /\ maild'.to = maild.to /\ maild'.signal = maild.signal
  BY <1>1, <1>2 DEF MaildOK
<1>5. SenderOK(sender, wire') /\ Streamed(sender, maild', mta, wire')
  BY <1>1, <1>3 DEF SenderOK, Streamed
<1>6. MaildOK(sender.mail, maild', mta, wire')
  BY <1>1, <1>2, <1>3, <1>4 DEF MaildOK
<1>7. AcksCounted(sender, maild', mta, wire') /\ TakenWhole(sender, maild', mta)
  BY <1>1, <1>3, <1>4 DEF AcksCounted, TakenWhole
<1> QED BY <1>2, <1>3, <1>5, <1>6, <1>7 DEF MailInv, MailOK

LEMMA ReadAddresseeOK == ASSUME MailInv, ReadAddressee PROVE MailInv'
<1> DEFINE m == sender.mail
           k == ReadOne
<1>1. /\ wire \in MailLink /\ SenderOK(sender, wire) /\ MaildOK(m, maild, mta, wire)
      /\ TakenWhole(sender, maild, mta) /\ AcksCounted(sender, maild, mta, wire)
      /\ Streamed(sender, maild, mta, wire)
      /\ maild.st = "to" /\ CanRead /\ mta' = mta
  BY DEF MailInv, MailOK, ReadAddressee
<1>2. m \in Mails /\ m.to \in STRING /\ Full(m) \in Nat
  BY <1>1, ScriptIs DEF SenderOK
<1>3. /\ maild.to \in Seq(Word) /\ Len(maild.to) \in Nat /\ Len(maild.to) <= 1
      /\ Read(maild, mta) = 1 + Len(maild.to)
  BY <1>1 DEF MaildOK, Read
<1>4. Script(m, 2) = Text(m.to) /\ Script(m, 3) = Nul
  BY DEF Script
<1>5. Waiting(wire, "server") =>
        Foremost(wire, "server") = IF Len(maild.to) = 0 THEN Text(m.to) ELSE Nul
  <2> SUFFICES ASSUME Waiting(wire, "server")
               PROVE  Foremost(wire, "server") = IF Len(maild.to) = 0 THEN Text(m.to) ELSE Nul
    OBVIOUS
  <2>1. Foremost(wire, "server") = Script(m, Read(maild, mta) + 1)
    BY NextOfScript
  <2>2. Read(maild, mta) + 1 = IF Len(maild.to) = 0 THEN 2 ELSE 3
    BY <1>3
  <2> QED BY <1>4, <2>1, <2>2
<1>6. ASSUME Waiting(wire, "server"), Foremost(wire, "server") # Nul,
             MaildIs([maild EXCEPT !.to = Append(@, Foremost(wire, "server").x)],
                     Put(k, "server", Ack))
      PROVE  MailInv'
  <2> DEFINE d == [maild EXCEPT !.to = <<m.to>>]
             ms == <<Ack>>
             h == PutAll(k, "server", ms)
  <2>1. Len(maild.to) = 0 /\ Foremost(wire, "server") = Text(m.to)
    BY <1>5, <1>6
  <2>2. maild.to = <<>> /\ Foremost(wire, "server").x = m.to
    BY <1>3, <2>1 DEF Text
  <2>3. maild' = d /\ wire' = h /\ sender' = sender
    BY <1>6, <2>2 DEF MaildIs, Put
  <2>4. k = Taken(wire, "server") /\ wire["server"].up
    BY <1>6 DEF ReadOne, Waiting
  <2>5. k \in MailLink /\ k["client"] = wire["client"] /\ k["server"].up
    BY <1>1, <1>6, <2>4, TakenIs DEF Ends, FarOf
  <2>6. <<Ack>> \in Seq(MailText) /\ Len(<<Ack>>) = 1
    BY TextIs
  <2> HIDE DEF k
  <2>7. /\ h \in MailLink /\ h["server"] = k["server"]
        /\ h["client"].up = k["client"].up /\ h["client"].open = k["client"].open
        /\ h["client"].queue = IF k["client"].up THEN k["client"].queue \o <<Ack>>
                               ELSE k["client"].queue
    <3>1. "server" \in Ends /\ FarOf("server") = "client"
      BY DEF Ends, FarOf
    <3>2. ms \in Seq(MailText)
      BY <2>6
    <3> HIDE DEF ms
    <3>3. LET f == FarOf("server")
          IN  /\ h \in MailLink
              /\ h["server"] = k["server"] /\ h[f].up = k[f].up /\ h[f].open = k[f].open
              /\ h[f].queue = IF k["server"].up /\ k[f].up THEN k[f].queue \o ms
                              ELSE k[f].queue
      BY <2>5, <3>1, <3>2, PutAllIs
    <3> QED BY <2>5, <3>1, <3>3 DEF ms
  <2>8. d.st = "to" /\ d.to = <<m.to>> /\ d.signal = maild.signal
    BY <1>1 DEF MaildOK
  <2>9. m.to \in Word /\ <<m.to>> \in Seq(Word) /\ Len(<<m.to>>) = 1
    BY <1>2 DEF Word
  <2>10. MaildOK(m, d, mta, wire)
    <3>1. d \in [st : {"user", "to", "full", "subject", "body", "over"}, to : Seq(Word),
                 smtp : BOOLEAN, signal : BOOLEAN]
      BY <1>1, <2>9 DEF MaildOK
    <3>2. Len(d.to) <= 1 /\ \A i \in 1..Len(d.to) : d.to[i] = m.to
      BY <2>8, <2>9
    <3> HIDE DEF d
    <3> QED BY <1>1, <2>8, <3>1, <3>2 DEF MaildOK
  <2> HIDE DEF d, h
  \* The link as it is read, and then the acknowledgement
  <2>11. Streamed(sender, d, mta, k)
    <3> DEFINE q == wire["server"].queue
               p == k["server"].queue
    <3>1. q \in Seq(MailText) /\ q # <<>> /\ p = Tail(q)
      BY <1>1, <1>6, <2>4, TakenIs, LinkIs DEF Waiting, Ends
    <3>2. /\ Len(q) \in Nat /\ Len(p) \in Nat /\ Len(p) + 1 = Len(q)
          /\ \A i \in 1..Len(p) : p[i] = q[i + 1] /\ i + 1 \in 1..Len(q)
      BY <3>1, TailOf
    <3>3. /\ 1 + Len(q) <= 6 + Full(m)
          /\ sender.st \in Active => 1 + Len(q) = Written(sender)
          /\ \A i \in 1..Len(q) : q[i] = Script(m, 1 + i)
      <4>1. Read(maild, mta) = 1
        BY <1>3, <2>1
      <4> QED BY <1>1, <2>4, <4>1 DEF Streamed
    <3>4. Read(d, mta) = 2
      BY <2>8, <2>9 DEF Read
    <3> HIDE DEF q, p
    <3>5. 2 + Len(p) = 1 + Len(q)
      BY <3>2
    <3>6. ASSUME NEW i \in 1..Len(p) PROVE p[i] = Script(m, 2 + i)
      <4>1. 1 + (i + 1) = 2 + i
        BY <3>2
      <4> QED BY <3>2, <3>3, <4>1
    <3> QED BY <3>3, <3>4, <3>5, <3>6 DEF Streamed, p
  <2>12. SenderOK(sender, h) /\ MaildOK(m, d, mta, h) /\ Streamed(sender, d, mta, h)
    BY <1>1, <2>4, <2>5, <2>7, <2>10, <2>11 DEF SenderOK, MaildOK, Streamed
  <2>13. AcksCounted(sender, d, mta, h)
    <3> SUFFICES ASSUME ~d.signal, h["client"].up, mta.taken = {}
                 PROVE  Len(h["client"].queue)
                          + (IF sender.st \in {"body", "sent"} THEN 1 ELSE 0) = Len(d.to)
      BY DEF AcksCounted
    <3>1. Len(wire["client"].queue)
            + (IF sender.st \in {"body", "sent"} THEN 1 ELSE 0) = 0
      BY <1>1, <2>1, <2>5, <2>7, <2>8 DEF AcksCounted
    <3>2. h["client"].queue = wire["client"].queue \o <<Ack>>
      BY <2>5, <2>7
    <3>3. wire["client"].queue \in Seq(MailText)
      BY <1>1, LinkIs DEF Ends
    <3>4. Len(h["client"].queue) = Len(wire["client"].queue) + 1
            /\ Len(wire["client"].queue) \in Nat
      BY <2>6, <3>2, <3>3
    <3>5. \A x, y \in Nat : x + y = 0 => (x + 1) + y = 1
      OBVIOUS
    <3>6. (IF sender.st \in {"body", "sent"} THEN 1 ELSE 0) \in Nat
      OBVIOUS
    <3> QED BY ZenonT(40), <2>8, <2>9, <3>1, <3>4, <3>5, <3>6
  <2>14. TakenWhole(sender, d, mta)
    BY <1>1, <2>8 DEF TakenWhole
  <2> QED BY <1>1, <2>3, <2>7, <2>12, <2>13, <2>14 DEF MailInv, MailOK
<1>7. ASSUME ~(Waiting(wire, "server") /\ Foremost(wire, "server") # Nul),
             MaildIs([maild EXCEPT !.st = "full"], k)
      PROVE  MailInv'
  <2>1. wire["server"].up => Len(maild.to) = 1
    <3>1. wire["server"].up => Waiting(wire, "server")
      BY <1>1 DEF CanRead, Hears
    <3>2. Text(m.to) # Nul
      BY NulIsNoText
    <3>3. \A x \in Nat : x <= 1 /\ x # 0 => x = 1
      OBVIOUS
    <3>4. wire["server"].up => Len(maild.to) # 0
      BY <1>5, <1>7, <3>1, <3>2
    <3> QED BY <1>3, <3>3, <3>4
  <2>2. sender' = sender /\ wire' = ReadOne /\ maild' = [maild EXCEPT !.st = "full"]
    BY <1>7 DEF MaildIs
  <2>3. maild'.st = "full" /\ maild'.to = maild.to /\ maild'.signal = maild.signal
    BY <1>1, <2>2 DEF MaildOK
  <2>4. MaildOK(m, maild', mta', wire)
    BY <1>1, <2>1, <2>2, <2>3 DEF MaildOK
  <2>5. wire["server"].up => Read(maild', mta') = Read(maild, mta) + 1
    <3>1. Read(maild', mta') = 3
      BY <2>3 DEF Read
    <3>2. \A x : x = 1 => 3 = (1 + x) + 1
      OBVIOUS
    <3> QED BY <1>3, <2>1, <3>1, <3>2
  <2> QED BY <1>1, <2>2, <2>3, <2>4, <2>5, MaildReads
<1> QED BY <1>6, <1>7 DEF ReadAddressee

LEMMA ReadSubjectOK == ASSUME MailInv, ReadSubject PROVE MailInv'
<1>1. /\ MaildOK(sender.mail, maild, mta, wire) /\ maild.st = "subject" /\ CanRead
      /\ TakenWhole(sender, maild, mta)
  BY DEF MailInv, MailOK, ReadSubject
<1>2. ASSUME MaildIs([maild EXCEPT !.st = "body"], ReadOne), mta' = [mta EXCEPT !.to = maild.to]
      PROVE  MailInv'
  <2>1. sender' = sender /\ wire' = ReadOne /\ maild' = [maild EXCEPT !.st = "body"]
    BY <1>2 DEF MaildIs
  <2>2. maild'.st = "body" /\ maild'.to = maild.to /\ maild'.signal = maild.signal
    BY <1>1, <2>1 DEF MaildOK
  <2>3. /\ mta' = [to |-> mta'.to, body |-> mta'.body, taken |-> mta'.taken]
        /\ mta'.body = <<>> /\ mta.body = <<>> /\ mta'.taken = mta.taken /\ mta'.to = maild.to
    BY <1>1, <1>2 DEF MaildOK
  <2>4. MaildOK(sender.mail, maild', mta', wire)
    BY <1>1, <2>1, <2>2, <2>3 DEF MaildOK
  <2>5. Read(maild', mta') = Read(maild, mta) + 1
    BY <1>1, <2>2, <2>3 DEF Read
  <2> QED BY <1>1, <2>1, <2>2, <2>3, <2>4, <2>5, MaildReads
<1>3. ASSUME MaildOver, mta' = mta PROVE MailInv'
  BY <1>1, <1>3, MaildOverOK
<1> QED BY <1>2, <1>3 DEF ReadSubject

\* In the body it has read lines of the mail, or the NUL after all of them.
LEMMA LineOfScript ==
  ASSUME MailInv, maild.st = "body", Waiting(wire, "server")
  PROVE  LET m == sender.mail
             n == Len(mta.body)
         IN  /\ n \in Nat /\ n <= Full(m)
             /\ Foremost(wire, "server") = IF n + 1 <= Full(m) THEN Text(m.body[n + 1].x) ELSE Nul
<1> DEFINE m == sender.mail
           n == Len(mta.body)
<1>1. /\ MaildOK(m, maild, mta, wire) /\ m \in Mails
  BY DEF MailInv, MailOK, SenderOK
<1>2. n \in Nat /\ n <= Full(m) /\ Full(m) \in Nat
  BY <1>1, ScriptIs DEF MaildOK
<1>3. Read(maild, mta) = 5 + n
  BY DEF Read
<1>4. Foremost(wire, "server") = Script(m, (5 + n) + 1)
  BY <1>3, NextOfScript
<1> HIDE DEF n, m
<1>5. /\ (5 + n) + 1 # 1 /\ (5 + n) + 1 # 2 /\ (5 + n) + 1 # 3 /\ (5 + n) + 1 # 4
      /\ (5 + n) + 1 # 5 /\ ((5 + n) + 1) - 5 = n + 1
      /\ ((5 + n) + 1 <= 5 + Full(m) <=> n + 1 <= Full(m))
  BY <1>2
<1>6. Script(m, (5 + n) + 1) = IF n + 1 <= Full(m) THEN Text(m.body[n + 1].x) ELSE Nul
  BY <1>5 DEF Script
<1> QED BY <1>2, <1>4, <1>6 DEF n, m

LEMMA ReadLineOK == ASSUME MailInv, ReadLine PROVE MailInv'
<1> DEFINE m == sender.mail
           n == Len(mta.body)
           x == m.body[n + 1].x
           b == Append(mta.body, x)
<1>1. /\ MaildOK(m, maild, mta, wire) /\ m \in Mails /\ maild.st = "body"
      /\ Waiting(wire, "server") /\ Foremost(wire, "server") # Nul
      /\ mta' = [mta EXCEPT !.body = Append(@, Foremost(wire, "server").x)]
      /\ maild' = maild /\ wire' = ReadOne /\ sender' = sender
  BY DEF MailInv, MailOK, SenderOK, ReadLine, MaildIs
<1>2. n \in Nat /\ n + 1 <= Full(m) /\ Foremost(wire, "server") = Text(x)
  BY <1>1, LineOfScript
<1>3. Foremost(wire, "server").x = x
  BY <1>2 DEF Text
<1>4. Full(m) \in Nat /\ Full(m) <= Len(m.body) /\ Len(m.body) \in Nat
        /\ \A i \in 1..Len(m.body) : m.body[i].x \in STRING
  BY <1>1, ScriptIs
<1>5. n + 1 \in 1..Len(m.body) /\ n + 1 \in Nat
  BY <1>2, <1>4
<1>6. x \in Word
  BY <1>4, <1>5 DEF Word
<1>7. mta.body \in Seq(Word) /\ \A i \in 1..n : mta.body[i] = m.body[i].x
  BY <1>1 DEF MaildOK
<1> HIDE DEF x
<1>8. /\ b \in Seq(Word) /\ Len(b) = n + 1
      /\ \A i \in 1..(n + 1) : b[i] = IF i <= n THEN mta.body[i] ELSE x
  BY <1>6, <1>7
<1>9. \A i \in 1..(n + 1) : b[i] = m.body[i].x
  <2> SUFFICES ASSUME NEW i \in 1..(n + 1) PROVE b[i] = m.body[i].x
    OBVIOUS
  <2>1. CASE i <= n
    <3>1. i \in 1..n
      BY <1>2, <2>1
    <3> QED BY <1>7, <1>8, <2>1, <3>1
  <2>2. CASE ~(i <= n)
    <3>1. i = n + 1
      BY <1>2, <2>2
    <3> QED BY <1>8, <2>2, <3>1 DEF x
  <2> QED BY <2>1, <2>2
<1>10. mta' = [to |-> mta.to, body |-> b, taken |-> mta.taken]
  BY <1>1, <1>3 DEF MaildOK
<1> HIDE DEF b, n
<1>11. mta' = [to |-> mta'.to, body |-> mta'.body, taken |-> mta'.taken]
        /\ mta'.body = b /\ mta'.taken = mta.taken /\ mta'.to = mta.to
  BY <1>10
<1>12. MaildOK(m, maild', mta', wire)
  BY <1>1, <1>2, <1>8, <1>9, <1>11 DEF MaildOK
<1>13. Read(maild', mta') = Read(maild, mta) + 1
  <2>1. Read(maild, mta) = 5 + n /\ Read(maild', mta') = 5 + (n + 1)
    BY <1>1, <1>8, <1>11 DEF Read, n
  <2>2. \A y \in Nat : 5 + (y + 1) = (5 + y) + 1
    OBVIOUS
  <2> QED BY <1>2, <2>1, <2>2
<1>14. CanRead /\ maild.st # "over"
  BY <1>1 DEF CanRead
<1> QED BY <1>1, <1>11, <1>12, <1>13, <1>14, MaildReads

\* The message is finished, with the whole mail unless a signal came.
LEMMA ForwardedOK ==
  ASSUME MailInv, maild.st = "body", NEW d, NEW k, k \in MailLink,
         k["client"] = wire["client"], Forwarded(d, k), d.signal \in BOOLEAN,
         d = [maild EXCEPT !.signal = d.signal], maild.signal => d.signal,
         ~d.signal => [to |-> mta.to, body |-> UpToDot(mta.body)] = Whole(sender.mail)
  PROVE  MailInv'
<1> DEFINE message == [to |-> mta.to, body |-> UpToDot(mta.body)]
           acks == [i \in DOMAIN d.to |-> Ack]
           taken == [mta EXCEPT !.taken = @ \cup {message}]
           over == [d EXCEPT !.st = "over"]
           m == sender.mail
           h == PutAll(k, "server", acks)
<1>1. /\ SenderOK(sender, wire) /\ MaildOK(m, maild, mta, wire)
      /\ TakenWhole(sender, maild, mta) /\ AcksCounted(sender, maild, mta, wire)
  BY DEF MailInv, MailOK
<1>2. /\ maild' = over /\ sender' = sender
      /\ \/ wire' = Shut(h, "server") /\ mta' = taken
         \/ wire' = Shut(k, "server") /\ mta' \in {mta, taken}
  BY DEF Forwarded, MaildIs
<1>3. /\ over.st = "over" /\ over.to = maild.to /\ over.signal = d.signal
      /\ over \in [st : {"user", "to", "full", "subject", "body", "over"}, to : Seq(Word),
                   smtp : BOOLEAN, signal : BOOLEAN]
  BY <1>1 DEF MaildOK
<1>4. /\ mta'.to = mta.to /\ mta'.body = mta.body
      /\ mta' = [to |-> mta'.to, body |-> mta'.body, taken |-> mta'.taken]
      /\ mta'.taken = mta.taken \/ mta'.taken = mta.taken \cup {message}
      /\ wire' = Shut(h, "server") => mta'.taken = mta.taken \cup {message} \/ wire' = Shut(k, "server")
  BY <1>1, <1>2 DEF MaildOK
<1>5. acks \in Seq(MailText)
  <2>1. d.to = maild.to /\ maild.to \in Seq(Word)
    BY <1>1 DEF MaildOK
  <2>2. DOMAIN d.to = 1..Len(d.to) /\ Len(d.to) \in Nat
    BY <2>1
  <2>3. \A i \in 1..Len(d.to) : Ack \in MailText
    BY TextIs
  <2> QED BY <2>2, <2>3
<1> HIDE DEF over, message, taken, acks
<1>6. "server" \in Ends /\ FarOf("server") = "client"
  BY DEF Ends, FarOf
<1>7. /\ h \in MailLink
      /\ h["client"].up = k["client"].up /\ h["client"].open = k["client"].open
  <2>1. LET f == FarOf("server")
        IN  /\ h \in MailLink /\ h[f].up = k[f].up /\ h[f].open = k[f].open
    BY <1>5, <1>6, PutAllIs
  <2> QED BY <1>6, <2>1
<1> HIDE DEF h
<1>8. /\ wire' \in MailLink /\ ~wire'["server"].up
      /\ wire'["client"].up = wire["client"].up /\ wire'["client"].open = wire["client"].open
      /\ wire' = Shut(k, "server") => wire'["client"] = wire["client"]
  <2>1. CASE wire' = Shut(h, "server")
    <3>1. Shut(h, "server") \in MailLink /\ Shut(h, "server")["client"] = h["client"]
            /\ ~Shut(h, "server")["server"].up
      BY <1>6, <1>7, ShutIs
    <3>2. Shut(k, "server")["client"] = k["client"]
      BY <1>6, ShutIs
    <3> QED BY <1>7, <2>1, <3>1, <3>2
  <2>2. CASE wire' = Shut(k, "server")
    <3>1. Shut(k, "server") \in MailLink /\ Shut(k, "server")["client"] = k["client"]
            /\ ~Shut(k, "server")["server"].up
      BY <1>6, ShutIs
    <3> QED BY <2>2, <3>1
  <2> QED BY <1>2, <2>1, <2>2
<1>9. SenderOK(sender, wire')
  BY <1>1, <1>8 DEF SenderOK
<1>10. MaildOK(m, over, mta', wire')
  BY <1>1, <1>3, <1>4, <1>8 DEF MaildOK
<1>11. Streamed(sender, over, mta', wire')
  BY <1>8 DEF Streamed
<1>12. mta.taken = {}
  BY <1>1 DEF TakenWhole
<1>13. AcksCounted(sender, over, mta', wire')
  <2>1. CASE mta'.taken = mta.taken \cup {message}
    BY <2>1 DEF AcksCounted
  <2>2. CASE wire' = Shut(k, "server") /\ mta'.taken = mta.taken
    <3>1. wire'["client"] = wire["client"]
      BY <1>8, <2>2
    <3> QED BY <1>1, <1>3, <2>2, <3>1 DEF AcksCounted
  <2> QED BY <1>2, <1>4, <2>1, <2>2
<1>14. TakenWhole(sender, over, mta')
  <2>1. ~d.signal => message = Whole(m)
    BY DEF message
  <2>2. d.signal \in BOOLEAN /\ (~d.signal => ~maild.signal)
    OBVIOUS
  <2>3. ~d.signal => ~(sender.st = "over" /\ ~sender.told /\ m.body # <<>>)
    BY <1>1, <1>12, <2>2 DEF TakenWhole
  <2> QED BY <1>3, <1>4, <1>12, <2>1, <2>2, <2>3 DEF TakenWhole
<1> QED BY <1>2, <1>8, <1>9, <1>10, <1>11, <1>13, <1>14 DEF MailInv, MailOK

LEMMA ReadEndOK == ASSUME MailInv, ReadEnd PROVE MailInv'
<1> DEFINE m == sender.mail
           n == Len(mta.body)
<1>1. /\ wire \in MailLink /\ MaildOK(m, maild, mta, wire) /\ m \in Mails
      /\ maild.st = "body" /\ Waiting(wire, "server") /\ Foremost(wire, "server") = Nul
      /\ Forwarded(maild, ReadOne)
  BY DEF MailInv, MailOK, SenderOK, ReadEnd, BodyOver
<1>2. ReadOne \in MailLink /\ ReadOne["client"] = wire["client"]
  BY <1>1, TakenIs DEF ReadOne, Ends, FarOf
<1>3. n \in Nat /\ n <= Full(m) /\ ~(n + 1 <= Full(m)) /\ Full(m) \in Nat
  <2>1. Text(m.body[n + 1].x) # Nul
    BY NulIsNoText
  <2> QED BY <1>1, <2>1, LineOfScript, ScriptIs
<1>4. n = Full(m)
  BY <1>3
<1>5. mta.body = [i \in 1..Full(m) |-> m.body[i].x]
  <2>1. mta.body \in Seq(Word) /\ \A i \in 1..n : mta.body[i] = m.body[i].x
    BY <1>1 DEF MaildOK
  <2>2. mta.body = [i \in 1..Len(mta.body) |-> mta.body[i]]
    BY <2>1
  <2> QED BY <1>4, <2>1, <2>2
<1>6. mta.to = <<m.to>>
  <2>1. /\ mta.to = maild.to /\ maild.to \in Seq(Word) /\ Len(maild.to) = 1
        /\ \A i \in 1..Len(maild.to) : maild.to[i] = m.to
    BY <1>1 DEF MaildOK, Waiting
  <2>2. maild.to = <<maild.to[1]>> /\ 1 \in 1..Len(maild.to)
    BY <2>1
  <2> QED BY <2>1, <2>2
<1>7. [to |-> mta.to, body |-> UpToDot(mta.body)] = Whole(m)
  BY <1>5, <1>6 DEF Whole
<1>8. maild.signal \in BOOLEAN /\ maild = [maild EXCEPT !.signal = maild.signal]
  BY <1>1 DEF MaildOK
<1> QED BY <1>1, <1>2, <1>7, <1>8, ForwardedOK

LEMMA SignalOK == ASSUME MailInv, Signal PROVE MailInv'
<1>1. wire \in MailLink /\ MaildOK(sender.mail, maild, mta, wire)
  BY DEF MailInv, MailOK
<1>2. ASSUME maild.st = "body", Forwarded([maild EXCEPT !.signal = TRUE], wire)
      PROVE  MailInv'
  <2> DEFINE d == [maild EXCEPT !.signal = TRUE]
  <2>1. d.signal = TRUE /\ d = [maild EXCEPT !.signal = d.signal]
    BY <1>1 DEF MaildOK
  <2> HIDE DEF d
  <2>2. Forwarded(d, wire)
    BY <1>2 DEF d
  <2> QED BY <1>1, <1>2, <2>1, <2>2, ForwardedOK
<1>3. ASSUME MaildOver, mta' = mta, maild.st # "over" PROVE MailInv'
  BY <1>3, MaildOverOK
<1> QED BY <1>2, <1>3 DEF Signal

LEMMA MaildKilledOK == ASSUME MailInv, MaildKilled PROVE MailInv'
BY MaildOverOK DEF MaildKilled

\* The sender loses no answer that counts, and vmsmaild reads no more.
LEMMA LinkCutOK ==
  ASSUME MailInv, LinkCut, UNCHANGED <<sender, maild, mta>>
  PROVE  MailInv'
<1>1. /\ wire \in MailLink /\ SenderOK(sender, wire) /\ MaildOK(sender.mail, maild, mta, wire)
      /\ Streamed(sender, maild, mta, wire) /\ AcksCounted(sender, maild, mta, wire)
      /\ TakenWhole(sender, maild, mta)
  BY DEF MailInv, MailOK
<1>2. PICK e \in Ends : wire' = Cut(wire, e)
  BY DEF LinkCut
<1>3. /\ wire' \in MailLink /\ wire'[FarOf(e)] = wire[FarOf(e)] /\ ~wire'[e].up
      /\ wire'[e].open = wire[e].open
  BY <1>1, <1>2, CutIs
<1>4. CASE e = "client"
  <2>1. wire'["server"] = wire["server"] /\ ~wire'["client"].up
          /\ wire'["client"].open = wire["client"].open
    BY <1>3, <1>4 DEF FarOf
  <2>2. SenderOK(sender, wire') /\ MaildOK(sender.mail, maild, mta, wire')
    BY <1>1, <2>1 DEF SenderOK, MaildOK
  <2>3. Streamed(sender, maild, mta, wire') /\ AcksCounted(sender, maild, mta, wire')
    BY <1>1, <2>1 DEF Streamed, AcksCounted
  <2> QED BY <1>1, <1>3, <2>2, <2>3 DEF MailInv, MailOK
<1>5. CASE e = "server"
  <2>1. wire'["client"] = wire["client"] /\ ~wire'["server"].up
    BY <1>3, <1>5 DEF FarOf
  <2>2. SenderOK(sender, wire') /\ MaildOK(sender.mail, maild, mta, wire')
    BY <1>1, <2>1 DEF SenderOK, MaildOK
  <2>3. Streamed(sender, maild, mta, wire') /\ AcksCounted(sender, maild, mta, wire')
    BY <1>1, <2>1 DEF Streamed, AcksCounted
  <2> QED BY <1>1, <1>3, <2>2, <2>3 DEF MailInv, MailOK
<1> QED BY <1>4, <1>5 DEF Ends

-----------------------------------------------------------------------------
\* Every step of the mail keeps the count.
LEMMA MailStep == ASSUME MailInv, MailNext PROVE MailInv'
BY SendUserOK, UserAnsweredOK, SendLineOK, SendEndOK, MailAnsweredOK, SenderKilledOK,
   ReadUserOK, ReadAddresseeOK, ReadFullOK, ReadSubjectOK, ReadLineOK, ReadEndOK,
   SignalOK, MaildKilledOK, LinkCutOK
   DEF MailNext

LEMMA MailStart ==
  ASSUME NEW m \in Mails, wire = OpenLink, MailBegin(m)
  PROVE  MailInv
<1>1. m.smtp \in BOOLEAN /\ Full(m) \in Nat /\ m.body \in Seq([x : STRING, lf : BOOLEAN])
        /\ Len(m.body) \in Nat
  BY ScriptIs
<1>2. /\ sender = NewSender(m) /\ maild = NewMaild(m.smtp) /\ mta = NewMta
  BY DEF MailBegin
<1>3. /\ wire \in MailLink /\ wire["client"].up /\ wire["server"].up
      /\ wire["client"].queue = <<>> /\ wire["server"].queue = <<>>
  <2>1. <<>> \in Seq(MailText)
    OBVIOUS
  <2> QED BY <2>1 DEF OpenLink, OpenEnd, MailLink, LinkEnd
<1>4. /\ sender.st = "start" /\ sender.mail = m /\ sender.todo = m.body /\ sender.told = FALSE
      /\ sender \in [st : Active \cup {"over", "killed"}, mail : Mails,
                     todo : Seq([x : STRING, lf : BOOLEAN]),
                     buf : {"ack", "line", "error"}, told : BOOLEAN]
  BY <1>1, <1>2 DEF NewSender, Active
<1>5. SenderOK(sender, wire)
  <2>1. ASSUME NEW i \in 1..Len(m.body)
        PROVE  m.body[i] = m.body[Len(m.body) - Len(m.body) + i]
    <3>1. Len(m.body) - Len(m.body) + i = i
      BY <1>1
    <3> QED BY <3>1
  <2>2. Len(m.body) <= Len(m.body)
    BY <1>1
  <2> QED BY <1>4, <2>1, <2>2 DEF SenderOK, Active
<1>6. /\ maild.st = "user" /\ maild.to = <<>> /\ maild.signal = FALSE
      /\ maild \in [st : {"user", "to", "full", "subject", "body", "over"}, to : Seq(Word),
                    smtp : BOOLEAN, signal : BOOLEAN]
  BY <1>1, <1>2 DEF NewMaild
<1>7. mta = [to |-> mta.to, body |-> mta.body, taken |-> mta.taken]
        /\ mta.body = <<>> /\ mta.taken = {} /\ <<>> \in Seq(Word) /\ Len(<<>>) = 0
  BY <1>2 DEF NewMta
<1>8. MaildOK(m, maild, mta, wire)
  BY <1>1, <1>6, <1>7 DEF MaildOK
<1>9. Streamed(sender, maild, mta, wire)
  <2>1. Read(maild, mta) = 0 /\ Written(sender) = 0
    BY <1>4, <1>6 DEF Read, Written
  <2>2. Len(wire["server"].queue) = 0 /\ 0 + 0 = 0 /\ 0 <= 6 + Full(m)
    BY <1>1, <1>3
  <2> QED BY <1>4, <2>1, <2>2 DEF Streamed
<1>10. AcksCounted(sender, maild, mta, wire) /\ TakenWhole(sender, maild, mta)
  BY <1>3, <1>4, <1>6, <1>7 DEF AcksCounted, TakenWhole
<1> QED BY <1>3, <1>4, <1>5, <1>8, <1>9, <1>10 DEF MailInv, MailOK

\* What the property says of the lines with a newline is what is sent.
LEMMA WholeSent == ASSUME MailInv PROVE MailSettled
<1> DEFINE mail == sender.mail
           full == {i \in DOMAIN mail.body : mail.body[i].lf}
           whole == [to |-> <<mail.to>>, body |-> UpToDot([i \in full |-> mail.body[i].x])]
<1>1. TakenWhole(sender, maild, mta) /\ mail \in Mails
  BY DEF MailInv, MailOK, SenderOK
<1>2. /\ Full(mail) \in Nat /\ Full(mail) <= Len(mail.body) /\ Len(mail.body) \in Nat
      /\ DOMAIN mail.body = 1..Len(mail.body)
      /\ \A i \in 1..Len(mail.body) : mail.body[i].lf <=> i <= Full(mail)
  BY <1>1, ScriptIs
<1>3. full = 1..Full(mail)
  BY <1>2
<1>4. whole = Whole(mail)
  BY <1>3 DEF Whole
<1> QED BY <1>1, <1>4 DEF MailSettled, TakenWhole

\* The mail is under way in its own scene, and nothing of it is there in another.
MailScene == IF scene = "mail" THEN MailInv ELSE MailIdle

(***************************************************************************)
(* A mail is forwarded as a whole or not at all, and its writer is told if *)
(* it was not, for all mails (send_to_vms, receive_mail, send_body).       *)
(***************************************************************************)
THEOREM MailForwarded == Spec => []MailSettled
<1>1. Init => MailScene
  <2> SUFFICES ASSUME Init PROVE MailScene
    OBVIOUS
  <2>1. CASE scene = "mail"
    <3>1. wire = OpenLink /\ \E m \in Mails : MailBegin(m)
      BY <2>1 DEF Init
    <3> QED BY <2>1, <3>1, MailStart DEF MailScene
  <2>2. CASE scene # "mail"
    BY <2>2 DEF Init, MailScene
  <2> QED BY <2>1, <2>2
<1>2. MailScene /\ [Next]_vars => MailScene'
  <2> SUFFICES ASSUME MailScene, [Next]_vars PROVE MailScene'
    OBVIOUS
  <2>1. ASSUME scene = "mail", MailNext, scene' = scene PROVE MailScene'
    BY <2>1, MailStep DEF MailScene
  <2>2. ASSUME scene # "mail", UNCHANGED mailOwn, scene' = scene PROVE MailScene'
    BY <2>2 DEF MailScene, MailIdle, mailOwn
  <2>3. ASSUME UNCHANGED vars PROVE MailScene'
    <3>1. scene' = scene /\ wire' = wire /\ sender' = sender /\ maild' = maild /\ mta' = mta
      BY <2>3 DEF vars, mailOwn
    <3>2. MailInv => MailInv'
      BY <3>1 DEF MailInv
    <3>3. MailIdle => MailIdle'
      BY <3>1 DEF MailIdle
    <3> QED BY <3>1, <3>2, <3>3 DEF MailScene
  <2> QED BY <2>1, <2>2, <2>3 DEF Next
<1>3. MailScene => MailSettled
  <2>1. MailIdle => MailSettled
    <3> SUFFICES ASSUME MailIdle PROVE MailSettled
      OBVIOUS
    <3>1. \A m : [NewSender(m) EXCEPT !.st = "over"].mail = m
      BY DEF NewSender
    <3>2. [to |-> "", body |-> <<>>].body = <<>> /\ NewMta.taken = {}
      BY DEF NewMta
    <3>3. sender.mail = [to |-> "", body |-> <<>>] /\ mta.taken = {}
      BY <3>1, <3>2, Zenon DEF MailIdle
    <3>4. sender.mail.body = <<>>
      BY <3>2, <3>3, Zenon
    <3> QED BY <3>3, <3>4 DEF MailSettled
  <2> QED BY <2>1, WholeSent DEF MailScene
<1> QED BY <1>1, <1>2, <1>3, PTL DEF Spec

-----------------------------------------------------------------------------
(***************************************************************************)
(* The super server.  A child carries the entry that its parent found for  *)
(* its own connection, with the entries among which it was found; of the   *)
(* processes that wait only the entries matter (FilesInv), not thisobj.    *)
(***************************************************************************)
Hits(db, r) == {i \in DOMAIN db : Serves(db[i], r)}
FirstHit(db, r) == db[CHOOSE i \in Hits(db, r) : \A j \in Hits(db, r) : i <= j]

\* k is a connection, h the child forked for it.
ServedRight(k, h) ==
  /\ DOMAIN k = {"st", "asks", "holders", "program", "as", "file", "db"}
  /\ DOMAIN h = {"pc", "entry", "as", "stop", "db"}
  /\ k.st = "idle" => h.pc = "none" /\ k.program = NoName
  /\ (h.pc # "none" /\ Hits(h.db, k.asks) # {}) =>
       /\ h.entry = FirstHit(h.db, k.asks)
       /\ h.as = UserFor(FirstHit(h.db, k.asks), k.asks)
  /\ (k.program # NoName /\ Hits(k.db, k.asks) # {}) =>
       /\ k.program = Program(FirstHit(k.db, k.asks), k.asks)
       /\ k.as = UserFor(FirstHit(k.db, k.asks), k.asks)

DnetdInv ==
  /\ backlog \in Seq(Caller)
  /\ caller = [c \in Caller |-> caller[c]] /\ child = [c \in Caller |-> child[c]]
  /\ \A c \in Caller : ServedRight(caller[c], child[c])

\* A step that concerns one connection
LEMMA OneCaller ==
  ASSUME DnetdInv, NEW c \in Caller, NEW k, NEW h, ServedRight(k, h),
         caller' = [caller EXCEPT ![c] = k], child' = [child EXCEPT ![c] = h],
         backlog' \in Seq(Caller)
  PROVE  DnetdInv'
BY DEF DnetdInv

LEMMA FoundFirst ==
  ASSUME NEW db, NEW r, NEW old, Hits(db, r) # {}
  PROVE  Find(db, r, old) = FirstHit(db, r)
BY DEF Find, FirstHit, Hits

\* How a connection stands and who holds its socket are nothing to this.
LEMMA StandsOtherwise ==
  ASSUME NEW k, NEW h, ServedRight(k, h), NEW st, NEW holders, st = "idle" => k.st = "idle"
  PROVE  ServedRight([k EXCEPT !.st = st, !.holders = holders], h)
<1> DEFINE q == [k EXCEPT !.st = st, !.holders = holders]
<1>1. DOMAIN k = {"st", "asks", "holders", "program", "as", "file", "db"}
  BY DEF ServedRight
<1>2. /\ DOMAIN q = {"st", "asks", "holders", "program", "as", "file", "db"}
      /\ q.st = st /\ q.asks = k.asks /\ q.holders = holders /\ q.program = k.program
      /\ q.as = k.as /\ q.db = k.db
  BY <1>1
<1> HIDE DEF q
<1> QED BY <1>1, <1>2 DEF ServedRight, q

LEMMA TakenOtherwise ==
  ASSUME NEW k, NEW h, ServedRight(k, h), NEW file
  PROVE  ServedRight([k EXCEPT !.st = "taken", !.file = file], h)
<1> DEFINE q == [k EXCEPT !.st = "taken", !.file = file]
<1>1. DOMAIN k = {"st", "asks", "holders", "program", "as", "file", "db"}
  BY DEF ServedRight
<1>2. /\ DOMAIN q = {"st", "asks", "holders", "program", "as", "file", "db"}
      /\ q.st = "taken" /\ q.asks = k.asks /\ q.program = k.program
      /\ q.as = k.as /\ q.db = k.db
  BY <1>1
<1> HIDE DEF q
<1> QED BY <1>1, <1>2 DEF ServedRight, q

LEMMA RecordsOf ==
  ASSUME DnetdInv, NEW c \in Caller
  PROVE  /\ ServedRight(caller[c], child[c])
         /\ caller = [x \in Caller |-> caller[x]] /\ child = [x \in Caller |-> child[x]]
         /\ DOMAIN caller[c] = {"st", "asks", "holders", "program", "as", "file", "db"}
         /\ DOMAIN child[c] = {"pc", "entry", "as", "stop", "db"}
<1>1. ServedRight(caller[c], child[c])
  BY DEF DnetdInv
<1> QED BY <1>1 DEF DnetdInv, ServedRight

\* What the steps do to a connection and its child
LEMMA TakerKeeps ==
  ASSUME DnetdInv, NEW p \in Waiter, TakeCaller(p)
  PROVE  DnetdInv'
<1> DEFINE c == Head(backlog)
           r == caller[c].asks
           db == IF server[p].db = <<>> THEN conf ELSE server[p].db
           entry == Find(db, r, server[p].entry)
           user == UserFor(entry, r)
           h == [pc |-> "user", entry |-> entry, as |-> user, stop |-> server[p].stop,
                 db |-> db]
<1>1. backlog \in Seq(Caller) /\ backlog # <<>> /\ backlog' = Tail(backlog)
  BY DEF DnetdInv, TakeCaller
<1>2. c \in Caller /\ backlog' \in Seq(Caller)
  BY <1>1
<1>3. /\ ServedRight(caller[c], child[c])
      /\ caller = [x \in Caller |-> caller[x]] /\ child = [x \in Caller |-> child[x]]
      /\ DOMAIN caller[c] = {"st", "asks", "holders", "program", "as", "file", "db"}
  BY <1>2, RecordsOf
<1> DEFINE k == [caller[c] EXCEPT !.st = "taken", !.file = conf]
<1>4. \/ caller' = [caller EXCEPT ![c] = Rejected(@)] /\ child' = child
      \/ caller' = [caller EXCEPT ![c] = Rejected(k)] /\ child' = child
      \/ caller' = [caller EXCEPT ![c] = k] /\ child' = child
      \/ /\ caller' = [caller EXCEPT ![c] = Forked(k)]
         /\ child' = [child EXCEPT ![c] = h]
  BY DEF TakeCaller
<1>5. Hits(db, r) # {} => entry = FirstHit(db, r) /\ user = UserFor(FirstHit(db, r), r)
  BY FoundFirst
<1> HIDE DEF c, entry, user, db, k
<1>9. CASE caller' = [caller EXCEPT ![c] = Rejected(k)] /\ child' = child
  <2>1. ServedRight(Rejected(k), child[c])
    BY <1>3, TakenOtherwise, StandsOtherwise DEF Rejected, k
  <2>2. child' = [child EXCEPT ![c] = child[c]]
    BY <1>2, <1>3, <1>9
  <2> QED BY <1>2, <1>9, <2>1, <2>2, OneCaller
<1>6. CASE caller' = [caller EXCEPT ![c] = Rejected(@)] /\ child' = child
  <2>1. ServedRight(Rejected(caller[c]), child[c])
    BY <1>3, StandsOtherwise DEF Rejected
  <2>2. child' = [child EXCEPT ![c] = child[c]] /\ caller' = [caller EXCEPT ![c] = Rejected(caller[c])]
    BY <1>2, <1>3, <1>6
  <2> QED BY <1>2, <2>1, <2>2, OneCaller
<1>7. CASE caller' = [caller EXCEPT ![c] = k] /\ child' = child
  <2>1. ServedRight(k, child[c])
    BY <1>3, TakenOtherwise DEF k
  <2>2. child' = [child EXCEPT ![c] = child[c]] /\ caller' = [caller EXCEPT ![c] = k]
    BY <1>2, <1>3, <1>7
  <2> QED BY <1>2, <2>1, <2>2, OneCaller
<1>8. CASE /\ caller' = [caller EXCEPT ![c] = Forked(k)]
           /\ child' = [child EXCEPT ![c] = h]
  <2> DEFINE f == Forked(k)
  <2>1. /\ DOMAIN f = {"st", "asks", "holders", "program", "as", "file", "db"}
        /\ f.st = "taken" /\ f.asks = r /\ f.program = caller[c].program
        /\ f.as = caller[c].as /\ f.db = caller[c].db
    BY <1>3 DEF Forked, k
  <2>2. /\ DOMAIN h = {"pc", "entry", "as", "stop", "db"}
        /\ h.pc = "user" /\ h.entry = entry /\ h.as = user /\ h.db = db
    OBVIOUS
  <2> HIDE DEF f, h
  <2>4. ServedRight(f, h)
    BY <1>3, <1>5, <2>1, <2>2 DEF ServedRight
  <2>5. caller' = [caller EXCEPT ![c] = f]
    BY <1>8 DEF f
  <2> QED BY <1>2, <1>8, <2>4, <2>5, OneCaller
<1> QED BY <1>4, <1>6, <1>7, <1>8, <1>9 DEF k

LEMMA AskKeeps == ASSUME DnetdInv, NEW c \in Caller, Ask(c) PROVE DnetdInv'
<1>1. PICK r \in Requests : caller' = [caller EXCEPT ![c].st = "asked", ![c].asks = r]
  BY DEF Ask
<1> DEFINE k == [caller[c] EXCEPT !.st = "asked", !.asks = r]
<1>2. /\ ServedRight(caller[c], child[c]) /\ caller[c].st = "idle" /\ child' = child
      /\ caller = [x \in Caller |-> caller[x]] /\ child = [x \in Caller |-> child[x]]
      /\ DOMAIN caller[c] = {"st", "asks", "holders", "program", "as", "file", "db"}
  BY RecordsOf DEF Ask
<1>3. /\ DOMAIN k = {"st", "asks", "holders", "program", "as", "file", "db"}
      /\ k.st = "asked" /\ k.program = caller[c].program
  BY <1>2
<1>4. caller' = [caller EXCEPT ![c] = k] /\ child' = [child EXCEPT ![c] = child[c]]
  BY <1>1, <1>2
<1> HIDE DEF k
<1>5. ServedRight(k, child[c])
  BY <1>2, <1>3 DEF ServedRight
<1>6. backlog' \in Seq(Caller)
  BY DEF Ask, DnetdInv
<1> QED BY <1>4, <1>5, <1>6, OneCaller

\* The child is gone, and its connection stands otherwise.
LEMMA GoneKeeps ==
  ASSUME DnetdInv, NEW c \in Caller, NEW k, ServedRight(k, child[c]),
         caller' = [caller EXCEPT ![c] = k], ChildGone(c), backlog' = backlog
  PROVE  DnetdInv'
<1> DEFINE h == [child[c] EXCEPT !.pc = "none"]
<1>1. /\ child = [x \in Caller |-> child[x]]
      /\ DOMAIN child[c] = {"pc", "entry", "as", "stop", "db"} /\ backlog \in Seq(Caller)
  BY RecordsOf DEF DnetdInv
<1>2. DOMAIN h = {"pc", "entry", "as", "stop", "db"} /\ h.pc = "none"
  BY <1>1
<1>3. child' = [child EXCEPT ![c] = h]
  BY <1>1 DEF ChildGone
<1> HIDE DEF h
<1>4. ServedRight(k, h)
  BY <1>2 DEF ServedRight
<1> QED BY <1>1, <1>3, <1>4, OneCaller

\* Its connection is closed or rejected.
LEMMA EndsOtherwise ==
  ASSUME NEW k, NEW h, ServedRight(k, h)
  PROVE  ServedRight(Closed(k), h) /\ ServedRight(Rejected(k), h)
<1>1. DOMAIN k = {"st", "asks", "holders", "program", "as", "file", "db"}
  BY DEF ServedRight
<1> DEFINE q == [k EXCEPT !.holders = @ \ {"child"}]
<1>2. /\ DOMAIN q = {"st", "asks", "holders", "program", "as", "file", "db"}
      /\ q.st = k.st /\ q.asks = k.asks /\ q.program = k.program /\ q.as = k.as /\ q.db = k.db
  BY <1>1
<1> HIDE DEF q
<1>3. ServedRight(q, h)
  BY <1>2 DEF ServedRight
<1> QED BY <1>3, StandsOtherwise DEF Closed, Rejected, q

LEMMA ChildKeeps ==
  ASSUME DnetdInv, NEW c \in Caller, ChildStrays(c) \/ ChildUser(c) \/ ChildEnds(c)
  PROVE  DnetdInv'
<1>1. /\ ServedRight(caller[c], child[c])
      /\ caller = [x \in Caller |-> caller[x]] /\ child = [x \in Caller |-> child[x]]
      /\ DOMAIN caller[c] = {"st", "asks", "holders", "program", "as", "file", "db"}
      /\ DOMAIN child[c] = {"pc", "entry", "as", "stop", "db"}
      /\ backlog \in Seq(Caller) /\ backlog' = backlog
  BY RecordsOf DEF DnetdInv, ChildStrays, ChildUser, ChildEnds
<1>2. ServedRight(Closed(caller[c]), child[c]) /\ ServedRight(Rejected(caller[c]), child[c])
  BY <1>1, EndsOtherwise
<1>3. ASSUME caller' = [caller EXCEPT ![c] = Closed(@)], ChildGone(c) PROVE DnetdInv'
  <2>1. caller' = [caller EXCEPT ![c] = Closed(caller[c])]
    BY <1>3
  <2> QED BY <1>1, <1>2, <1>3, <2>1, GoneKeeps
<1>4. ASSUME caller' = [caller EXCEPT ![c] = Rejected(@)], ChildGone(c) PROVE DnetdInv'
  <2>1. caller' = [caller EXCEPT ![c] = Rejected(caller[c])]
    BY <1>4
  <2> QED BY <1>1, <1>2, <1>4, <2>1, GoneKeeps
\* It runs on, with the entry it has.
<1>5. ASSUME NEW st, st \in {"accepted", caller[c].st}, child[c].pc = "user",
             caller' = [caller EXCEPT ![c].st = st], child' = [child EXCEPT ![c].pc = "run"]
      PROVE  DnetdInv'
  <2> DEFINE k == [caller[c] EXCEPT !.st = st]
             h == [child[c] EXCEPT !.pc = "run"]
  <2>1. /\ DOMAIN k = {"st", "asks", "holders", "program", "as", "file", "db"}
        /\ k.st = st /\ k.asks = caller[c].asks /\ k.program = caller[c].program
        /\ k.as = caller[c].as /\ k.db = caller[c].db
    BY <1>1
  <2>2. /\ DOMAIN h = {"pc", "entry", "as", "stop", "db"}
        /\ h.pc = "run" /\ h.entry = child[c].entry /\ h.as = child[c].as /\ h.db = child[c].db
    BY <1>1
  <2>3. caller' = [caller EXCEPT ![c] = k] /\ child' = [child EXCEPT ![c] = h]
    BY <1>1, <1>5
  <2> HIDE DEF k, h
  <2>4. st # "idle"
    BY <1>1, <1>5 DEF ServedRight
  <2>5. ServedRight(k, h)
    BY <1>1, <1>5, <2>1, <2>2, <2>4 DEF ServedRight
  <2> QED BY <1>1, <2>3, <2>5, OneCaller
<1>6. ASSUME ChildUser(c) PROVE DnetdInv'
  <2> DEFINE e == child[c].entry
             st == IF e # NoEntry /\ e.auto = 1 THEN "accepted" ELSE caller[c].st
  <2>1. CASE e # NoEntry /\ e.auto = -1
    BY <1>4, <1>6, <2>1 DEF ChildUser
  <2>2. CASE ~(e # NoEntry /\ e.auto = -1)
    <3>1. /\ caller' = [caller EXCEPT ![c].st = st]
          /\ child' = [child EXCEPT ![c].pc = "run"] /\ child[c].pc = "user"
      BY <1>1, <1>6, <2>2 DEF ChildUser
    <3>2. st \in {"accepted", caller[c].st}
      OBVIOUS
    <3> HIDE DEF st
    <3> QED BY <1>5, <3>1, <3>2
  <2> QED BY <2>1, <2>2
<1>7. ASSUME ChildStrays(c) \/ ChildEnds(c) PROVE DnetdInv'
  BY <1>3, <1>7 DEF ChildStrays, ChildEnds
<1> QED BY <1>6, <1>7

\* The program is that of the entry the child has, or none is run.
LEMMA RunKeeps == ASSUME DnetdInv, NEW c \in Caller, ChildRuns(c) PROVE DnetdInv'
<1> DEFINE r == caller[c].asks
           program == Program(child[c].entry, r)
           k == [caller[c] EXCEPT !.st = "accepted", !.program = program,
                                  !.as = child[c].as, !.db = child[c].db]
           h == [child[c] EXCEPT !.pc = "serve"]
<1>1. /\ ServedRight(caller[c], child[c]) /\ child[c].pc = "run"
      /\ caller = [x \in Caller |-> caller[x]] /\ child = [x \in Caller |-> child[x]]
      /\ DOMAIN caller[c] = {"st", "asks", "holders", "program", "as", "file", "db"}
      /\ DOMAIN child[c] = {"pc", "entry", "as", "stop", "db"}
      /\ backlog \in Seq(Caller) /\ backlog' = backlog
  BY RecordsOf DEF DnetdInv, ChildRuns
<1>2. ServedRight(Closed(caller[c]), child[c]) /\ ServedRight(Rejected(caller[c]), child[c])
  BY <1>1, EndsOtherwise
<1>3. \/ caller' = [caller EXCEPT ![c] = k] /\ child' = [child EXCEPT ![c] = h]
      \/ caller' = [caller EXCEPT ![c] = Closed(caller[c])] /\ ChildGone(c)
      \/ caller' = [caller EXCEPT ![c] = Rejected(caller[c])] /\ ChildGone(c)
  BY <1>1 DEF ChildRuns
<1>4. /\ DOMAIN k = {"st", "asks", "holders", "program", "as", "file", "db"}
      /\ k.st = "accepted" /\ k.asks = r /\ k.program = program
      /\ k.as = child[c].as /\ k.db = child[c].db
  BY <1>1
<1>5. /\ DOMAIN h = {"pc", "entry", "as", "stop", "db"}
      /\ h.pc = "serve" /\ h.entry = child[c].entry /\ h.as = child[c].as /\ h.db = child[c].db
  BY <1>1
<1>6. Hits(child[c].db, r) # {} =>
        /\ child[c].entry = FirstHit(child[c].db, r)
        /\ child[c].as = UserFor(FirstHit(child[c].db, r), r)
  BY <1>1 DEF ServedRight
<1> HIDE DEF k, h
<1>7. ServedRight(k, h)
  BY <1>4, <1>5, <1>6 DEF ServedRight
<1>8. CASE caller' = [caller EXCEPT ![c] = k] /\ child' = [child EXCEPT ![c] = h]
  BY <1>1, <1>7, <1>8, OneCaller
<1>9. CASE /\ ChildGone(c)
           /\ \/ caller' = [caller EXCEPT ![c] = Closed(caller[c])]
              \/ caller' = [caller EXCEPT ![c] = Rejected(caller[c])]
  BY <1>1, <1>2, <1>9, GoneKeeps
<1> QED BY <1>3, <1>8, <1>9

\* Every step of the super server keeps it; most do nothing to a connection.
LEMMA DnetdStep == ASSUME DnetdInv, DnetdNext PROVE DnetdInv'
<1>1. ASSUME UNCHANGED <<backlog, caller, child>> PROVE DnetdInv'
  BY <1>1 DEF DnetdInv
<1>2. ASSUME NEW p \in Waiter, WaiterStep(p) \/ Sigterm(p) PROVE DnetdInv'
  BY <1>1, <1>2, TakerKeeps DEF WaiterStep, Test, AcceptWaits, Sigterm
<1>3. ASSUME NEW c \in Caller, Ask(c) \/ ChildStrays(c) \/ ChildStep(c) PROVE DnetdInv'
  BY <1>3, AskKeeps, ChildKeeps, RunKeeps DEF ChildStep
<1> QED BY <1>1, <1>2, <1>3 DEF DnetdNext, ConfEdited

LEMMA DnetdStart == ASSUME DnetdInit \/ DnetdIdle PROVE DnetdInv
<1>1. /\ backlog = <<>> /\ caller = [c \in Caller |-> NewCaller]
      /\ child = [c \in Caller |-> NoChild]
  BY DEF DnetdInit, DnetdIdle
<1>2. /\ DOMAIN NewCaller = {"st", "asks", "holders", "program", "as", "file", "db"}
      /\ NewCaller.program = NoName
      /\ DOMAIN NoChild = {"pc", "entry", "as", "stop", "db"} /\ NoChild.pc = "none"
  BY DEF NewCaller, NoChild
<1>3. ServedRight(NewCaller, NoChild)
  BY <1>2 DEF ServedRight
<1> HIDE DEF NewCaller, NoChild
<1> QED BY <1>1, <1>3 DEF DnetdInv

(***************************************************************************)
(* The entries of a process, a child or a connection are what dnetd.conf   *)
(* held when some connection was taken.  What was held then does not       *)
(* change: no connection is taken twice.                                   *)
(***************************************************************************)
Loaded(db) == db = <<>> \/ \E d \in Caller : caller[d].file = db
Queue(b) ==
  /\ \A i \in DOMAIN b : caller[b[i]].st = "asked"
  /\ \A i, j \in DOMAIN b : b[i] = b[j] => i = j
Untaken(k) == k.st \in {"idle", "asked"}
Servers(s) ==
  /\ s = [p \in Waiter |-> s[p]]
  /\ \A p \in Waiter : DOMAIN s[p] = {"pc", "stop", "db", "entry"} /\ Loaded(s[p].db)
Files(c) ==
  /\ Loaded(child[c].db) /\ Loaded(caller[c].db)
  /\ Untaken(caller[c]) => caller[c].file = <<>> /\ child[c].pc = "none"
FilesInv == Servers(server) /\ Queue(backlog) /\ \A c \in Caller : Files(c)

LEMMA StillLoaded ==
  ASSUME \A d \in Caller : caller'[d].file = caller[d].file \/ caller[d].file = <<>>, NEW db, Loaded(db)
  PROVE  db = <<>> \/ \E d \in Caller : caller'[d].file = db
<1>1. CASE db = <<>>
  BY <1>1
<1>2. CASE db # <<>>
  <2>1. PICK d \in Caller : caller[d].file = db
    BY <1>2 DEF Loaded
  <2> QED BY <1>2, <2>1
<1> QED BY <1>1, <1>2

\* The processes that wait go on with the entries they have.
LEMMA WaitersStay ==
  ASSUME FilesInv, NEW s, UNCHANGED caller,
         s = [p \in Waiter |-> s[p]],
         \A p \in Waiter : DOMAIN s[p] = DOMAIN server[p] /\ s[p].db = server[p].db
  PROVE  Servers(s)
BY DEF FilesInv, Servers

\* One connection is changed, with its child.
LEMMA OneFile ==
  ASSUME DnetdInv, FilesInv, NEW c \in Caller, NEW k, NEW h,
         caller' = [caller EXCEPT ![c] = k], child' = [child EXCEPT ![c] = h],
         k.file = caller[c].file \/ caller[c].file = <<>>,
         k.db = <<>> \/ \E d \in Caller : caller'[d].file = k.db,
         h.db = <<>> \/ \E d \in Caller : caller'[d].file = h.db,
         Untaken(k) => k.file = <<>> /\ h.pc = "none"
  PROVE  /\ \A d \in Caller : Files(d)'
         /\ \A db : Loaded(db) => db = <<>> \/ \E d \in Caller : caller'[d].file = db
         /\ \A d \in Caller : d # c => caller'[d] = caller[d]
         /\ caller'[c] = k
<1>1. /\ caller'[c] = k /\ child'[c] = h
      /\ \A d \in Caller : d # c => caller'[d] = caller[d] /\ child'[d] = child[d]
  BY RecordsOf
<1>2. \A d \in Caller : caller'[d].file = caller[d].file \/ caller[d].file = <<>>
  BY <1>1
<1>3. \A db : Loaded(db) => db = <<>> \/ \E d \in Caller : caller'[d].file = db
  BY <1>2, StillLoaded
<1>4. ASSUME NEW d \in Caller PROVE Files(d)'
  <2>1. CASE d = c
    BY <1>1, <2>1 DEF Files, Loaded, Untaken
  <2>2. CASE d # c
    <3>1. Files(d) /\ caller'[d] = caller[d] /\ child'[d] = child[d]
      BY <1>1, <2>2 DEF FilesInv
    <3>2. Loaded(child[d].db) /\ Loaded(caller[d].db)
      BY <3>1 DEF Files
    <3>3. /\ child[d].db = <<>> \/ \E b \in Caller : caller'[b].file = child[d].db
          /\ caller[d].db = <<>> \/ \E b \in Caller : caller'[b].file = caller[d].db
      BY <1>3, <3>2
    <3> QED BY <3>1, <3>3 DEF Files, Loaded, Untaken
  <2> QED BY <2>1, <2>2
<1> QED BY <1>1, <1>3, <1>4

LEMMA TakerFiles ==
  ASSUME DnetdInv, FilesInv, NEW p \in Waiter, TakeCaller(p)
  PROVE  FilesInv'
<1> DEFINE c == Head(backlog)
           r == caller[c].asks
           db == IF server[p].db = <<>> THEN conf ELSE server[p].db
           entry == Find(db, r, server[p].entry)
           user == UserFor(entry, r)
           h == [pc |-> "user", entry |-> entry, as |-> user, stop |-> server[p].stop,
                 db |-> db]
           taken == [server[p] EXCEPT !.pc = "test"]
           found == [taken EXCEPT !.db = db, !.entry = entry]
           k == [caller[c] EXCEPT !.st = "taken", !.file = conf]
           x == child[c]
<1>1. /\ backlog \in Seq(Caller) /\ backlog # <<>> /\ backlog' = Tail(backlog)
      /\ Queue(backlog) /\ c \in Caller /\ c = backlog[1]
  BY DEF DnetdInv, FilesInv, TakeCaller
<1>2. /\ caller = [d \in Caller |-> caller[d]] /\ child = [d \in Caller |-> child[d]]
      /\ DOMAIN caller[c] = {"st", "asks", "holders", "program", "as", "file", "db"}
      /\ caller[c].st = "asked" /\ Files(c)
      /\ Servers(server)
  <2>1. 1 \in DOMAIN backlog
    BY <1>1
  <2> QED BY <1>1, <2>1, RecordsOf DEF Queue, FilesInv
<1>3. caller[c].file = <<>> /\ Loaded(caller[c].db) /\ Loaded(child[c].db)
  BY <1>2 DEF Files, Untaken
<1>4. \/ /\ server' = [server EXCEPT ![p] = taken] /\ child' = child
         /\ caller' = [caller EXCEPT ![c] = Rejected(caller[c])]
      \/ /\ server' = [server EXCEPT ![p] = found] /\ child' = child
         /\ caller' = [caller EXCEPT ![c] = Rejected(k)]
      \/ /\ server' = [server EXCEPT ![p] = found] /\ child' = child
         /\ caller' = [caller EXCEPT ![c] = k]
      \/ /\ server' = [server EXCEPT ![p] = found] /\ child' = [child EXCEPT ![c] = h]
         /\ caller' = [caller EXCEPT ![c] = Forked(k)]
  BY DEF TakeCaller
<1>5. child' = child => child' = [child EXCEPT ![c] = x]
  BY <1>2
<1>6. h.db = db
  OBVIOUS
<1>7. /\ DOMAIN taken = {"pc", "stop", "db", "entry"} /\ taken.db = server[p].db
      /\ DOMAIN found = {"pc", "stop", "db", "entry"} /\ found.db = db
  BY <1>2 DEF Servers
<1>8. /\ Rejected(caller[c]).st = "rejected" /\ Rejected(caller[c]).file = caller[c].file
      /\ Rejected(caller[c]).db = caller[c].db
      /\ Rejected(k).st = "rejected" /\ Rejected(k).file = conf /\ Rejected(k).db = caller[c].db
      /\ k.st = "taken" /\ k.file = conf /\ k.db = caller[c].db
      /\ Forked(k).st = "taken" /\ Forked(k).file = conf /\ Forked(k).db = caller[c].db
  BY <1>2 DEF Rejected, Forked
<1>9. Loaded(server[p].db) /\ (db = conf \/ db = server[p].db)
  BY <1>2 DEF Servers
<1> HIDE DEF c, db, entry, user, h, taken, found, k, x
\* q is what becomes of the connection, s of the process that took it and g of its child.
<1>10. ASSUME NEW q, NEW s, NEW g,
              caller' = [caller EXCEPT ![c] = q], server' = [server EXCEPT ![p] = s],
              child' = [child EXCEPT ![c] = g], ~Untaken(q), q.db = caller[c].db,
              DOMAIN s = {"pc", "stop", "db", "entry"},
              \/ s = taken /\ g = x
              \/ q.file = conf /\ s = found /\ g \in {x, h}
       PROVE  FilesInv'
  <2>1. caller'[c] = q
    BY <1>1, <1>2, <1>10
  <2>2. \A d \in Caller : caller'[d].file = caller[d].file \/ caller[d].file = <<>>
    BY <1>2, <1>3, <1>10
  <2>3. \A y : Loaded(y) => y = <<>> \/ \E d \in Caller : caller'[d].file = y
    BY <2>2, StillLoaded
  <2>4. q.file = conf => db = <<>> \/ \E d \in Caller : caller'[d].file = db
    BY <1>1, <1>9, <2>1, <2>3
  <2>5. s.db = <<>> \/ \E d \in Caller : caller'[d].file = s.db
    BY <1>7, <1>9, <1>10, <2>3, <2>4
  <2>6. g.db = <<>> \/ \E d \in Caller : caller'[d].file = g.db
    BY <1>3, <1>6, <1>10, <2>3, <2>4 DEF x
  <2>7. q.db = <<>> \/ \E d \in Caller : caller'[d].file = q.db
    BY <1>3, <1>10, <2>3
  <2>8. /\ \A d \in Caller : Files(d)'
        /\ \A d \in Caller : d # c => caller'[d] = caller[d]
    BY <1>1, <1>3, <1>10, <2>6, <2>7, OneFile
  <2>9. Servers(server)'
    <3>1. server' = [y \in Waiter |-> server'[y]]
      BY <1>2, <1>10 DEF Servers
    <3>2. ASSUME NEW y \in Waiter
          PROVE  /\ DOMAIN server'[y] = {"pc", "stop", "db", "entry"}
                 /\ server'[y].db = <<>> \/ \E d \in Caller : caller'[d].file = server'[y].db
      <4>1. CASE y = p
        <5>1. server'[y] = s
          BY <1>2, <1>10, <4>1 DEF Servers
        <5> QED BY <1>10, <2>5, <5>1
      <4>2. CASE y # p
        <5>1. server'[y] = server[y] /\ Loaded(server[y].db)
              /\ DOMAIN server[y] = {"pc", "stop", "db", "entry"}
          BY <1>2, <1>10, <4>2 DEF Servers
        <5> QED BY <2>3, <5>1
      <4> QED BY <4>1, <4>2
    <3> QED BY <3>1, <3>2 DEF Servers, Loaded
  <2>10. Queue(backlog)'
    <3>1. ASSUME NEW i \in DOMAIN backlog'
          PROVE  i + 1 \in DOMAIN backlog /\ backlog'[i] = backlog[i + 1] /\ i + 1 # 1
      BY <1>1
    <3>2. 1 \in DOMAIN backlog
      BY <1>1
    <3>3. ASSUME NEW i \in DOMAIN backlog' PROVE caller'[backlog'[i]].st = "asked"
      <4>1. backlog[i + 1] # c /\ backlog[i + 1] \in Caller /\ caller[backlog[i + 1]].st = "asked"
        BY <1>1, <3>1, <3>2 DEF Queue
      <4> QED BY <2>8, <3>1, <4>1
    <3>4. ASSUME NEW i \in DOMAIN backlog', NEW j \in DOMAIN backlog', backlog'[i] = backlog'[j]
          PROVE  i = j
      <4>1. i + 1 = j + 1
        BY <1>1, <3>1, <3>4 DEF Queue
      <4>2. i \in Nat /\ j \in Nat
        BY <1>1
      <4> QED BY <4>1, <4>2
    <3> QED BY <3>3, <3>4 DEF Queue
  <2> QED BY <2>8, <2>9, <2>10 DEF FilesInv
<1>11. ~Untaken(k) /\ ~Untaken(Rejected(k)) /\ ~Untaken(Rejected(caller[c])) /\ ~Untaken(Forked(k))
  BY <1>8 DEF Untaken
<1> QED BY <1>4, <1>5, <1>7, <1>8, <1>10, <1>11

LEMMA AskFiles == ASSUME DnetdInv, FilesInv, NEW c \in Caller, Ask(c) PROVE FilesInv'
<1>1. PICK r \in Requests : caller' = [caller EXCEPT ![c].st = "asked", ![c].asks = r]
  BY DEF Ask
<1> DEFINE k == [caller[c] EXCEPT !.st = "asked", !.asks = r]
<1>2. /\ caller[c].st = "idle" /\ server' = server /\ backlog' = Append(backlog, c)
      /\ caller = [x \in Caller |-> caller[x]] /\ child = [x \in Caller |-> child[x]]
      /\ DOMAIN caller[c] = {"st", "asks", "holders", "program", "as", "file", "db"}
      /\ Files(c) /\ backlog \in Seq(Caller) /\ Servers(server) /\ Queue(backlog)
  BY RecordsOf DEF Ask, DnetdInv, FilesInv
<1>3. k.st = "asked" /\ k.file = caller[c].file /\ k.db = caller[c].db
  BY <1>2
<1>4. caller' = [caller EXCEPT ![c] = k] /\ child' = [child EXCEPT ![c] = child[c]]
  BY <1>1, <1>2 DEF Ask
<1> HIDE DEF k
<1>5. caller'[c] = k /\ \A d \in Caller : caller'[d].file = caller[d].file
  BY <1>2, <1>3, <1>4
<1>6. \A y : Loaded(y) => y = <<>> \/ \E d \in Caller : caller'[d].file = y
  BY <1>5, StillLoaded
<1>7. Loaded(caller[c].db) /\ Loaded(child[c].db) /\ caller[c].file = <<>> /\ child[c].pc = "none"
  BY <1>2 DEF Files, Untaken
<1>8. /\ \A d \in Caller : Files(d)'
      /\ \A d \in Caller : d # c => caller'[d] = caller[d]
  BY <1>3, <1>4, <1>6, <1>7, OneFile
<1>9. Servers(server)'
  BY <1>2, <1>6 DEF Servers, Loaded
<1>10. Queue(backlog)'
  <2> DEFINE n == Len(backlog)
  <2>1. /\ n \in Nat /\ DOMAIN backlog = 1..n /\ DOMAIN backlog' = 1..n + 1
        /\ \A i \in 1..n + 1 : backlog'[i] = IF i = n + 1 THEN c ELSE backlog[i]
        /\ \A i \in 1..n : backlog[i] \in Caller
    BY <1>2
  <2> HIDE DEF n
  <2>2. \A i \in 1..n : caller[backlog[i]].st = "asked" /\ backlog[i] # c
    BY <1>2, <2>1 DEF Queue
  <2>3. \A i \in 1..n : caller'[backlog[i]].st = "asked"
    BY <1>8, <2>1, <2>2
  <2>4. \A i \in 1..n + 1 : caller'[backlog'[i]].st = "asked"
    <3> SUFFICES ASSUME NEW i \in 1..n + 1 PROVE caller'[backlog'[i]].st = "asked"
      OBVIOUS
    <3>1. CASE i = n + 1
      BY <1>3, <1>5, <2>1, <3>1
    <3>2. CASE i # n + 1
      BY <2>1, <2>3, <3>2
    <3> QED BY <3>1, <3>2
  <2>6. \A i, j \in 1..n : backlog[i] = backlog[j] => i = j
    BY <1>2, <2>1 DEF Queue
  <2>5. ASSUME NEW i \in 1..n + 1, NEW j \in 1..n + 1, backlog'[i] = backlog'[j] PROVE i = j
    <3>1. CASE i = n + 1 \/ j = n + 1
      BY <2>1, <2>2, <2>5, <3>1
    <3>2. CASE i # n + 1 /\ j # n + 1
      BY <2>1, <2>5, <2>6, <3>2
    <3> QED BY <3>1, <3>2
  <2> QED BY <2>1, <2>4, <2>5 DEF Queue
<1> QED BY <1>8, <1>9, <1>10 DEF FilesInv

\* A child does something for its connection, and may become a process that waits.
LEMMA ChildFiles ==
  ASSUME DnetdInv, FilesInv, NEW c \in Caller, ChildStrays(c) \/ ChildStep(c)
  PROVE  FilesInv'
<1> DEFINE y == child[c]
           gone == [y EXCEPT !.pc = "none"]
           runs == [y EXCEPT !.pc = "run"]
           serves == [y EXCEPT !.pc = "serve"]
<1>1. /\ caller = [d \in Caller |-> caller[d]] /\ child = [d \in Caller |-> child[d]]
      /\ DOMAIN caller[c] = {"st", "asks", "holders", "program", "as", "file", "db"}
      /\ DOMAIN y = {"pc", "entry", "as", "stop", "db"}
      /\ Files(c) /\ y.pc # "none" /\ backlog' = backlog /\ backlog \in Seq(Caller)
      /\ Servers(server) /\ Queue(backlog)
  BY RecordsOf DEF DnetdInv, FilesInv, ChildStrays, ChildStep, ChildUser, ChildRuns, ChildEnds
<1>2. ~Untaken(caller[c]) /\ Loaded(caller[c].db) /\ Loaded(y.db)
  BY <1>1 DEF Files
<1>3. gone.db = y.db /\ runs.db = y.db /\ serves.db = y.db
  BY <1>1
<1>4. \E k, h :
        /\ caller' = [caller EXCEPT ![c] = k] /\ child' = [child EXCEPT ![c] = h]
        /\ h.db = y.db /\ k.db \in {caller[c].db, y.db} /\ k.file = caller[c].file /\ ~Untaken(k)
        /\ server' = server \/
             (server' = [server EXCEPT !["stray"] =
                           [Started EXCEPT !.db = y.db, !.entry = y.entry, !.stop = y.stop]])
  <2> DEFINE k1 == Closed(caller[c])
             k2 == Rejected(caller[c])
             k3 == [caller[c] EXCEPT !.st = "accepted"]
             k5 == [caller[c] EXCEPT !.st = caller[c].st]
             k4 == [caller[c] EXCEPT !.st = "accepted",
                      !.program = Program(y.entry, caller[c].asks), !.as = y.as, !.db = y.db]
             Fit(k, h) == /\ h.db = y.db /\ k.db \in {caller[c].db, y.db}
                          /\ k.file = caller[c].file /\ ~Untaken(k)
             Does(k, h) == caller' = [caller EXCEPT ![c] = k] /\ child' = [child EXCEPT ![c] = h]
             From(k, h) == Fit(k, h) /\ Does(k, h)
  <2>1. Fit(k1, gone) /\ Fit(k2, gone) /\ Fit(k3, runs) /\ Fit(k5, runs) /\ Fit(k4, serves)
    BY <1>1, <1>2, <1>3 DEF Closed, Rejected, Untaken
  <2>2. ChildGone(c) => child' = [child EXCEPT ![c] = gone]
    BY DEF ChildGone
  <2>3. CASE ChildStrays(c)
    <3>1. Does(k1, gone)
      BY <2>2, <2>3 DEF ChildStrays
    <3>2. server' = [server EXCEPT !["stray"] =
                       [Started EXCEPT !.db = y.db, !.entry = y.entry, !.stop = y.stop]]
      BY <2>3 DEF ChildStrays
    <3> HIDE DEF k1, gone, y
    <3> QED BY <2>1, <3>1, <3>2
  <2>4. CASE ChildUser(c)
    <3>1. Does(k2, gone) \/ Does(k3, runs) \/ Does(k5, runs)
      <4>1. CASE y.entry # NoEntry /\ y.entry.auto = -1
        BY <2>2, <2>4, <4>1 DEF ChildUser
      <4>2. CASE y.entry # NoEntry /\ y.entry.auto = 1 /\ ~(y.entry.auto = -1)
        <5>1. caller' = [caller EXCEPT ![c] = k3] /\ child' = [child EXCEPT ![c] = runs]
          BY <1>1, <2>4, <4>2 DEF ChildUser
        <5> QED BY <5>1
      <4>3. CASE y.entry = NoEntry \/ (y.entry.auto # -1 /\ y.entry.auto # 1)
        <5>1. /\ caller' = [caller EXCEPT ![c].st = caller[c].st]
              /\ child' = [child EXCEPT ![c] = runs]
          BY <1>1, <2>4, <4>3 DEF ChildUser
        <5> QED BY <5>1
      <4> QED BY <4>1, <4>2, <4>3
    <3>2. server' = server
      BY <2>4 DEF ChildUser
    <3> HIDE DEF k2, k3, k5, gone, runs, y
    <3> QED BY <2>1, <3>1, <3>2
  <2>5. CASE ChildRuns(c)
    <3>1. Does(k4, serves) \/ Does(k1, gone) \/ Does(k2, gone)
      BY <1>1, <2>2, <2>5 DEF ChildRuns
    <3>2. server' = server
      BY <2>5 DEF ChildRuns
    <3> HIDE DEF k1, k2, k4, gone, serves, y
    <3> QED BY <2>1, <3>1, <3>2
  <2>6. CASE ChildEnds(c)
    <3>1. Does(k1, gone)
      BY <2>2, <2>6 DEF ChildEnds
    <3>2. server' = server
      BY <2>6 DEF ChildEnds
    <3> HIDE DEF k1, gone, y
    <3> QED BY <2>1, <3>1, <3>2
  <2> QED BY <2>3, <2>4, <2>5, <2>6 DEF ChildStep
<1> HIDE DEF y, gone, runs, serves
<1>5. PICK k, h :
        /\ caller' = [caller EXCEPT ![c] = k] /\ child' = [child EXCEPT ![c] = h]
        /\ h.db = y.db /\ k.db \in {caller[c].db, y.db} /\ k.file = caller[c].file /\ ~Untaken(k)
        /\ server' = server \/
             (server' = [server EXCEPT !["stray"] =
                           [Started EXCEPT !.db = y.db, !.entry = y.entry, !.stop = y.stop]])
  BY <1>4
<1>6. \A d \in Caller : caller'[d].file = caller[d].file
  BY <1>1, <1>5
<1>7. \A z : Loaded(z) => z = <<>> \/ \E d \in Caller : caller'[d].file = z
  BY <1>6, StillLoaded
<1>8. /\ \A d \in Caller : Files(d)'
      /\ \A d \in Caller : d # c => caller'[d] = caller[d]
  BY <1>2, <1>5, <1>7, OneFile
<1>9. Servers(server)'
  <2> DEFINE s == [Started EXCEPT !.db = y.db, !.entry = y.entry, !.stop = y.stop]
  <2>1. DOMAIN s = {"pc", "stop", "db", "entry"} /\ s.db = y.db
    BY DEF Started
  <2> HIDE DEF s
  <2>2. server' = server \/ server' = [server EXCEPT !["stray"] = s]
    BY <1>5 DEF s
  <2>3. server' = [p \in Waiter |-> server'[p]]
    BY <1>1, <2>2 DEF Servers
  <2>4. ASSUME NEW p \in Waiter
        PROVE  DOMAIN server'[p] = {"pc", "stop", "db", "entry"} /\ Loaded(server'[p].db)
    <3>1. server'[p] = server[p] \/ server'[p] = s
      BY <1>1, <2>2 DEF Servers
    <3> QED BY <1>1, <1>2, <2>1, <3>1 DEF Servers
  <2> QED BY <1>7, <2>3, <2>4 DEF Servers, Loaded
<1>10. Queue(backlog)'
  <2>1. \A i \in DOMAIN backlog : backlog[i] \in Caller /\ backlog[i] # c
    <3>0. Queue(backlog) /\ backlog \in Seq(Caller)
      BY <1>1
    <3>1. \A i \in DOMAIN backlog : backlog[i] \in Caller /\ caller[backlog[i]].st = "asked"
      BY ONLY <3>0 DEF Queue
    <3>2. caller[c].st # "asked"
      BY <1>2 DEF Untaken
    <3> QED BY <3>1, <3>2
  <2> QED BY <1>1, <1>8, <2>1 DEF Queue
<1> QED BY <1>8, <1>9, <1>10 DEF FilesInv

LEMMA FilesStep == ASSUME DnetdInv, FilesInv, DnetdNext PROVE FilesInv'
<1>1. ASSUME UNCHANGED <<backlog, caller, child>>, Servers(server') PROVE FilesInv'
  BY <1>1 DEF FilesInv, Servers, Queue, Files, Loaded, Untaken
<1>2. ASSUME NEW p \in Waiter, Test(p) \/ AcceptWaits(p) \/ Sigterm(p) PROVE FilesInv'
  <2>1. UNCHANGED <<backlog, caller, child>>
    BY <1>2 DEF Test, AcceptWaits, Sigterm
  <2>2. Servers(server)
    BY DEF FilesInv
  <2>3. \E r : /\ server' = [server EXCEPT ![p] = r]
               /\ DOMAIN r = DOMAIN server[p] /\ r.db = server[p].db
    <3> DEFINE o == server[p]
    <3>1. DOMAIN o = {"pc", "stop", "db", "entry"}
      BY <2>2 DEF Servers
    <3>2. CASE Sigterm(p)
      <4> DEFINE pc == IF o.pc = "accept" THEN "test" ELSE o.pc
                 r == [[o EXCEPT !.stop = TRUE] EXCEPT !.pc = pc]
      <4>1. server' = [server EXCEPT ![p] = r]
        BY <2>2, <3>1, <3>2 DEF Sigterm, Servers
      <4>2. DOMAIN r = DOMAIN o /\ r.db = o.db
        BY <3>1
      <4> HIDE DEF r
      <4> QED BY <4>1, <4>2
    <3>3. CASE Test(p) \/ AcceptWaits(p)
      <4>1. PICK pc : server' = [server EXCEPT ![p] = [o EXCEPT !.pc = pc]]
        BY <3>3 DEF Test, AcceptWaits
      <4>2. DOMAIN [o EXCEPT !.pc = pc] = DOMAIN o /\ [o EXCEPT !.pc = pc].db = o.db
        BY <3>1
      <4> QED BY <4>1, <4>2
    <3> QED BY <1>2, <3>2, <3>3
  <2>4. server' = [q \in Waiter |-> server'[q]]
    BY <2>2, <2>3 DEF Servers
  <2>5. \A q \in Waiter : DOMAIN server'[q] = DOMAIN server[q] /\ server'[q].db = server[q].db
    BY <2>2, <2>3 DEF Servers
  <2>6. Servers(server')
    BY <2>1, <2>4, <2>5, WaitersStay
  <2> QED BY <1>1, <2>1, <2>6
<1>3. CASE ConfEdited
  <2>1. UNCHANGED <<server, backlog, caller, child>>
    BY <1>3 DEF ConfEdited
  <2> QED BY <1>1, <2>1 DEF FilesInv
<1>4. ASSUME NEW p \in Waiter, WaiterStep(p) \/ Sigterm(p) PROVE FilesInv'
  BY <1>2, <1>4, TakerFiles DEF WaiterStep
<1>5. ASSUME NEW c \in Caller, Ask(c) \/ ChildStrays(c) \/ ChildStep(c) PROVE FilesInv'
  BY <1>5, AskFiles, ChildFiles
<1> QED BY <1>3, <1>4, <1>5 DEF DnetdNext

LEMMA FilesStart == ASSUME DnetdInit \/ DnetdIdle PROVE FilesInv
<1>1. /\ backlog = <<>> /\ caller = [c \in Caller |-> NewCaller]
      /\ child = [c \in Caller |-> NoChild]
      /\ \/ server = [p \in Waiter |-> IF p = "main" THEN Started ELSE NotStarted]
         \/ server = [p \in Waiter |-> NotStarted]
  BY DEF DnetdInit, DnetdIdle
<1>2. /\ NewCaller.file = <<>> /\ NewCaller.db = <<>> /\ NoChild.db = <<>> /\ NoChild.pc = "none"
      /\ DOMAIN Started = {"pc", "stop", "db", "entry"} /\ Started.db = <<>>
      /\ DOMAIN NotStarted = {"pc", "stop", "db", "entry"} /\ NotStarted.db = <<>>
  BY DEF NewCaller, NoChild, Started, NotStarted
<1> HIDE DEF NewCaller, NoChild, Started, NotStarted
<1>3. Servers(server)
  BY <1>1, <1>2 DEF Servers, Loaded
<1>4. Queue(backlog)
  BY <1>1 DEF Queue
<1> QED BY <1>1, <1>2, <1>3, <1>4 DEF FilesInv, Files, Loaded

(***************************************************************************)
(* The super server serves a connection by the first entry for it of those *)
(* it has loaded, and as a user it has a right to, and it has loaded what  *)
(* dnetd.conf held when this connection or one before it was taken; for    *)
(* every configuration and every way to edit it, and any number of         *)
(* connections (fork_and_setuid, load_dnetd_conf, dnet_daemon).            *)
(***************************************************************************)
THEOREM EntriesHonoured == Spec => []EntryHonoured
<1>1. Init => DnetdInv /\ FilesInv
  BY DnetdStart, FilesStart DEF Init
<1>2. DnetdInv /\ FilesInv /\ [Next]_vars => DnetdInv' /\ FilesInv'
  <2> SUFFICES ASSUME DnetdInv, FilesInv, [Next]_vars PROVE DnetdInv' /\ FilesInv'
    OBVIOUS
  <2>1. ASSUME DnetdNext PROVE DnetdInv' /\ FilesInv'
    BY <2>1, DnetdStep, FilesStep
  <2>2. ASSUME UNCHANGED dnetdVars PROVE DnetdInv' /\ FilesInv'
    BY <2>2 DEF DnetdInv, FilesInv, Servers, Queue, Files, Loaded, Untaken, dnetdVars
  <2> QED BY <2>1, <2>2 DEF Next, vars
<1>3. DnetdInv /\ FilesInv => EntryHonoured
  BY DEF DnetdInv, FilesInv, Files, Loaded, ServedRight, ServedBy, EntryHonoured, Hits, FirstHit
<1> QED BY <1>1, <1>2, <1>3, PTL DEF Spec

-----------------------------------------------------------------------------
(***************************************************************************)
(* Tasks.  The lines of the terminal are a walk over what it showed, and   *)
(* the pieces that copy sends are found at places on that walk.            *)
(***************************************************************************)
Sign == Character \cup {"CR"}
Page == Seq(Seq(Sign)) \ {<<>>}
NextPage(p, c) ==
  CASE c = "CR" -> p
    [] c = "LF" -> Append(p, <<>>)
    [] OTHER -> [p EXCEPT ![Len(p)] = Append(@, c)]
Walks(w, s) ==
  /\ w \in [0..Len(s) -> Page] /\ w[0] = <<<<>>>>
  /\ \A n \in 1..Len(s) : w[n] = NextPage(w[n - 1], s[n])

LEMMA PageIs ==
  ASSUME NEW p \in Page, NEW c \in Sign
  PROVE  /\ NextPage(p, c) \in Page /\ Len(p) \in Nat \ {0} /\ p[Len(p)] \in Seq(Sign)
         /\ c = "CR" => NextPage(p, c) = p
         /\ c = "LF" => /\ Len(NextPage(p, c)) = Len(p) + 1
                        /\ NextPage(p, c)[Len(p) + 1] = <<>>
                        /\ \A i \in 1..Len(p) : NextPage(p, c)[i] = p[i]
         /\ c \notin Delimiter => /\ Len(NextPage(p, c)) = Len(p)
                                  /\ NextPage(p, c)[Len(p)] = Append(p[Len(p)], c)
         /\ c # "LF" => Len(NextPage(p, c)) = Len(p)
         /\ \A i \in 1..Len(p) - 1 : NextPage(p, c)[i] = p[i]
<1> DEFINE M == Seq(Sign)
<1>1. p \in Seq(M) /\ p # <<>> /\ Len(p) \in Nat \ {0} /\ p[Len(p)] \in M
  BY DEF Page
<1>2. CASE c = "CR"
  <2>1. NextPage(p, c) = p
    BY <1>2 DEF NextPage
  <2> QED BY <2>1, <1>1, <1>2 DEF Delimiter
<1>3. CASE c = "LF"
  <2> DEFINE q == Append(p, <<>>)
  <2>1. NextPage(p, c) = q
    BY <1>3 DEF NextPage
  <2>2. <<>> \in M
    OBVIOUS
  <2> HIDE DEF M
  <2>3. /\ q \in Seq(M) /\ Len(q) = Len(p) + 1 /\ q[Len(p) + 1] = <<>> /\ q # <<>>
        /\ \A i \in 1..Len(p) : q[i] = p[i]
    BY <1>1, <2>2
  <2>4. q \in Page
    BY <2>3 DEF Page, M
  <2>5. \A i \in 1..Len(p) - 1 : i \in 1..Len(p)
    BY <1>1
  <2> HIDE DEF q
  <2>6. \A i \in 1..Len(p) - 1 : q[i] = p[i]
    BY <2>3, <2>5
  <2>7. p[Len(p)] \in Seq(Sign)
    BY <1>1 DEF M
  <2> QED BY <2>1, <2>3, <2>4, <2>6, <2>7, <1>1, <1>3 DEF Delimiter
<1>4. CASE c \notin Delimiter
  <2> DEFINE x == Append(p[Len(p)], c)
             q == [p EXCEPT ![Len(p)] = x]
  <2>1. c # "CR" /\ c # "LF"
    BY <1>4 DEF Delimiter
  <2>2. NextPage(p, c) = q
    BY <2>1 DEF NextPage
  <2>3. x \in M
    BY <1>1
  <2>4. p[Len(p)] \in Seq(Sign)
    BY <1>1
  <2> HIDE DEF M, x
  <2>5. /\ q \in Seq(M) /\ Len(q) = Len(p) /\ q[Len(p)] = x
        /\ \A i \in 1..Len(p) - 1 : q[i] = p[i]
    BY <1>1, <2>3
  <2>6. q # <<>>
    BY <1>1, <2>5
  <2> HIDE DEF q
  <2>7. q \in Page
    BY <2>5, <2>6 DEF Page, M
  <2> QED BY <2>1, <2>2, <2>4, <2>5, <2>7, <1>1 DEF x
<1> QED BY <1>2, <1>3, <1>4 DEF Delimiter

LEMMA PageStays ==
  ASSUME NEW p \in Page, NEW c \in Sign
  PROVE  /\ Len(p) \in Nat /\ Len(NextPage(p, c)) \in Nat /\ Len(p) <= Len(NextPage(p, c))
         /\ \A i \in 1..Len(p) - 1 : NextPage(p, c)[i] = p[i]
<1>1. Len(p) \in Nat /\ (Len(NextPage(p, c)) = Len(p) \/ Len(NextPage(p, c)) = Len(p) + 1)
  BY PageIs DEF Delimiter
<1>2. \A i \in 1..Len(p) - 1 : NextPage(p, c)[i] = p[i]
  BY PageIs
<1> QED BY <1>1, <1>2

LEMMA PagesOf ==
  ASSUME NEW s \in Seq(Sign), NEW w, Walks(w, s)
  PROVE  \A i \in 0..Len(s) : w[i] \in Page /\ Len(w[i]) \in Nat \ {0}
<1>1. \A p \in Page : Len(p) \in Nat \ {0}
  BY DEF Page
<1>2. w \in [0..Len(s) -> Page]
  BY DEF Walks
<1> QED BY <1>1, <1>2

LEMMA LinesIs ==
  ASSUME NEW s \in Seq(Sign)
  PROVE  \E w : Walks(w, s) /\ Lines(s) = w[Len(s)]
<1> DEFINE L == Len(s)
           f == [n \in 1..L |-> [p \in Page |-> NextPage(p, s[n])]]
           a == <<<<>>>>
<1>1. L \in Nat /\ \A n \in 1..L : s[n] \in Sign
  OBVIOUS
<1>2. f \in [1..L -> [Page -> Page]]
  BY <1>1, PageIs
<1>3. a \in Page
  BY DEF Page
<1>4. PICK w \in [0..L -> Page] : w[0] = a /\ \A n \in 1..L : w[n] = f[n][w[n - 1]]
  <2> DEFINE D == Page
  <2>1. L \in Nat /\ f \in [1..L -> [D -> D]] /\ a \in D
    BY <1>1, <1>2, <1>3
  <2> HIDE DEF f, L, D, a
  <2>2. \E w : Runs(w, D, L, f, a)
    BY ONLY <2>1, Recursion
  <2> QED BY ONLY <2>2 DEF Runs, D
<1>5. \A n \in 1..L : w[n] = NextPage(w[n - 1], s[n])
  <2> SUFFICES ASSUME NEW n \in 1..L PROVE w[n] = NextPage(w[n - 1], s[n])
    OBVIOUS
  <2>1. w[n - 1] \in Page
    BY <1>1
  <2> QED BY <2>1, <1>4
<1> DEFINE Is(g) == g = [n \in 0..L |->
                          IF n = 0 THEN <<<<>>>>
                          ELSE CASE s[n] = "CR" -> g[n - 1]
                                 [] s[n] = "LF" -> Append(g[n - 1], <<>>)
                                 [] OTHER -> [g[n - 1] EXCEPT ![Len(g[n - 1])] = Append(@, s[n])]]
           line == CHOOSE g : Is(g)
<1>6. Is(w)
  <2>1. w = [n \in 0..L |-> w[n]]
    OBVIOUS
  <2>2. \A n \in 0..L : n = 0 \/ n \in 1..L
    BY <1>1
  <2> QED BY <2>1, <2>2, <1>4, <1>5 DEF NextPage
<1>7. Is(line)
  <2> HIDE DEF Is
  <2> QED BY <1>6
<1>8. line[0] = w[0] /\ \A n \in 1..L : line[n] = NextPage(line[n - 1], s[n])
  <2> HIDE DEF line
  <2>1. 0 \in 0..L /\ \A n \in 1..L : n \in 0..L /\ n # 0
    BY <1>1
  <2> QED BY <1>4, <1>7, <2>1 DEF NextPage
<1>9. line[L] = w[L]
  <2>1. line[0] = w[0] /\ \A n \in 1..L : line[n - 1] = w[n - 1] => line[n] = w[n]
    BY <1>5, <1>8
  <2> HIDE DEF line, L
  <2> QED BY ONLY <1>1, <2>1, Agree
<1>10. Lines(s) = line[L]
  BY DEF Lines
<1>11. Walks(w, s)
  BY <1>4, <1>5 DEF Walks
<1> QED BY <1>9, <1>10, <1>11

\* What was shown is walked over as before when more is shown.
LEMMA WalkOn ==
  ASSUME NEW s \in Seq(Sign), NEW u \in Seq(Sign), NEW v, Walks(v, s)
  PROVE  \E w : /\ Walks(w, s \o u) /\ Lines(s \o u) = w[Len(s \o u)]
                /\ \A n \in 0..Len(s) : w[n] = v[n]
<1> DEFINE t == s \o u
<1>1. /\ t \in Seq(Sign) /\ Len(s) \in Nat /\ Len(t) \in Nat /\ Len(s) <= Len(t)
      /\ \A n \in 1..Len(s) : t[n] = s[n]
  OBVIOUS
<1> HIDE DEF t
<1>2. PICK w : Walks(w, t) /\ Lines(t) = w[Len(t)]
  BY <1>1, LinesIs
<1>3. v[0] = w[0] /\ \A n \in 1..Len(s) : v[n - 1] = w[n - 1] => v[n] = w[n]
  BY <1>1, <1>2 DEF Walks
<1>4. ASSUME NEW n \in 0..Len(s) PROVE v[n] = w[n]
  <2>1. n \in Nat /\ v[0] = w[0] /\ \A i \in 1..n : v[i - 1] = w[i - 1] => v[i] = w[i]
    BY <1>1, <1>3
  <2> QED BY ONLY <2>1, Agree
<1> QED BY <1>2, <1>4 DEF t

\* Lines that have ended stay as they are.
LEMMA WalkUp ==
  ASSUME NEW s \in Seq(Sign), NEW w, Walks(w, s),
         NEW m \in 0..Len(s), NEW n \in 0..Len(s), m <= n
  PROVE  /\ w[m] \in Page /\ w[n] \in Page /\ Len(w[m]) \in Nat \ {0} /\ Len(w[n]) \in Nat
         /\ Len(w[m]) <= Len(w[n])
         /\ \A i \in 1..Len(w[m]) - 1 : w[n][i] = w[m][i]
<1>1. Len(s) \in Nat /\ m \in Nat /\ n \in Nat
  OBVIOUS
<1>2. \A i \in 0..Len(s) : w[i] \in Page /\ Len(w[i]) \in Nat \ {0}
  BY PagesOf
<1> DEFINE P(i) == /\ Len(w[m]) <= Len(w[i])
                   /\ \A j \in 1..Len(w[m]) - 1 : w[i][j] = w[m][j]
           T == {d \in Nat : m + d <= Len(s) => P(m + d)}
<1>3. T \in SUBSET Nat /\ 0 \in T
  BY <1>1, <1>2
<1>4. ASSUME NEW d \in T PROVE d + 1 \in T
  <2> SUFFICES ASSUME m + (d + 1) <= Len(s) PROVE P(m + (d + 1))
    OBVIOUS
  <2> DEFINE i == m + d
             q == w[i + 1]
  <2>1. i \in 0..Len(s) /\ i + 1 \in 1..Len(s) /\ m + (d + 1) = i + 1 /\ (i + 1) - 1 = i
    BY <1>1
  <2>2. P(i)
    BY <2>1
  <2>3. q = NextPage(w[i], s[i + 1]) /\ s[i + 1] \in Sign /\ w[i] \in Page
    BY <2>1, <1>2 DEF Walks
  <2> HIDE DEF i, q
  <2>4. /\ \A j \in 1..Len(w[i]) - 1 : q[j] = w[i][j]
        /\ Len(w[i]) \in Nat /\ Len(w[i]) <= Len(q)
    BY <2>3, PageStays
  <2>5. Len(w[m]) \in Nat /\ Len(q) \in Nat
    BY <1>2, <2>1 DEF q
  <2>6. Len(w[m]) <= Len(q)
    BY <2>2, <2>4, <2>5
  <2>7. ASSUME NEW j \in 1..Len(w[m]) - 1 PROVE q[j] = w[m][j]
    <3>1. j \in 1..Len(w[i]) - 1
      BY <2>2, <2>4, <2>5
    <3> QED BY <3>1, <2>2, <2>4
  <2>8. P(i + 1)
    BY <2>6, <2>7 DEF q
  <2> QED BY <2>1, <2>8
<1>5. T = Nat
  <2> HIDE DEF T
  <2> QED BY <1>3, <1>4, NatUp
<1>6. n - m \in Nat /\ m + (n - m) = n
  BY <1>1
<1>7. P(n)
  <2>1. n - m \in T
    BY <1>5, <1>6
  <2> HIDE DEF P
  <2> QED BY <2>1, <1>6
<1> QED BY <1>2, <1>7

\* Between delimiters characters are added to the last line.
LEMMA WalkAlong ==
  ASSUME NEW s \in Seq(Sign), NEW w, Walks(w, s),
         NEW m \in 0..Len(s), NEW n \in 0..Len(s), m <= n,
         \A i \in m + 1..n : s[i] \notin Delimiter
  PROVE  /\ Len(w[n]) = Len(w[m])
         /\ w[n][Len(w[m])] = w[m][Len(w[m])] \o SubSeq(s, m + 1, n)
<1>1. Len(s) \in Nat /\ m \in Nat /\ n \in Nat
  OBVIOUS
<1>2. \A i \in 0..Len(s) : w[i] \in Page /\ Len(w[i]) \in Nat \ {0}
  BY PagesOf
<1> DEFINE k == Len(w[m])
           x == w[m][k]
           P(i) == Len(w[i]) = k /\ w[i][k] = x \o SubSeq(s, m + 1, i)
           T == {d \in Nat : m + d <= n => P(m + d)}
<1>3. x \in Seq(Sign) /\ k \in Nat \ {0}
  BY <1>2 DEF Page
<1>4. T \in SUBSET Nat /\ 0 \in T
  <2>1. m + 0 = m /\ SubSeq(s, m + 1, m) = <<>>
    BY <1>1
  <2> HIDE DEF x
  <2>2. x \o <<>> = x
    BY <1>3
  <2> QED BY <2>1, <2>2 DEF x
<1>5. ASSUME NEW d \in T PROVE d + 1 \in T
  <2> DEFINE i == m + d
             c == s[i + 1]
             y == SubSeq(s, m + 1, i)
             z == SubSeq(s, m + 1, i + 1)
  <2>a. d \in Nat /\ (i <= n => P(i))
    BY <1>1
  <2>b. (m + (d + 1) <= n => P(m + (d + 1))) => d + 1 \in T
    <3> HIDE DEF P
    <3> QED BY <2>a
  <2> SUFFICES ASSUME m + (d + 1) <= n PROVE P(m + (d + 1))
    BY <2>b
  <2>1. /\ i \in 0..Len(s) /\ i + 1 \in 1..Len(s) /\ m + (d + 1) = i + 1 /\ (i + 1) - 1 = i
        /\ i + 1 \in m + 1..n /\ m <= i /\ i <= n
    BY <2>a, <1>1
  <2>2. Len(w[i]) = k /\ w[i][k] = x \o y
    BY <2>1, <2>a
  <2>3. w[i + 1] = NextPage(w[i], c) /\ c \in Sign /\ w[i] \in Page /\ c \notin Delimiter
    BY <2>1, <1>2 DEF Walks
  <2>4. y \in Seq(Sign) /\ z = Append(y, c)
    BY <2>1
  <2> HIDE DEF i, x, c, y, z, k, T
  <2>5. Len(w[i + 1]) = Len(w[i]) /\ w[i + 1][Len(w[i])] = Append(w[i][Len(w[i])], c)
    <3> DEFINE p == w[i]
    <3> HIDE DEF p
    <3>1. p \in Page /\ c \in Sign /\ c \notin Delimiter
      BY <2>3 DEF p
    <3>2. Len(NextPage(p, c)) = Len(p) /\ NextPage(p, c)[Len(p)] = Append(p[Len(p)], c)
      BY ONLY <3>1, PageIs
    <3> QED BY <3>2, <2>3 DEF p
  <2>6. w[i + 1][k] = Append(x \o y, c)
    BY <2>2, <2>5
  <2>7. x \o Append(y, c) = Append(x \o y, c)
    BY ONLY <1>3, <2>3, <2>4, AppendJoin
  <2>8. P(i + 1)
    BY <2>2, <2>4, <2>5, <2>6, <2>7 DEF z
  <2> QED BY <2>1, <2>8
<1>6. T = Nat
  <2> HIDE DEF T
  <2> QED BY <1>4, <1>5, NatUp
<1>7. n - m \in Nat /\ m + (n - m) = n
  BY <1>1
<1>8. P(n)
  <2>1. n - m \in T
    BY <1>6, <1>7
  <2> HIDE DEF P
  <2> QED BY <2>1, <1>7
<1> QED BY <1>8

-----------------------------------------------------------------------------
(* The pieces of a chunk *)
LEMMA NatLeast ==
  ASSUME NEW S \in SUBSET Nat, S # {}
  PROVE  \E x \in S : \A y \in S : x <= y
<1>1. PICK R : IsWellFoundedOn(R, Nat) /\ \A x, y \in Nat : <<y, x>> \in R <=> y < x
  <2> DEFINE R == OpToRel(<, Nat)
  <2>1. IsWellFoundedOn(R, Nat)
    BY NatLessThanWellFounded
  <2>2. \A x, y \in Nat : <<y, x>> \in R <=> y < x
    BY DEF OpToRel
  <2> HIDE DEF R
  <2> QED BY <2>1, <2>2
<1>2. PICK x \in S : \A y \in S : ~(<<y, x>> \in R)
  BY <1>1, WFMin
<1>3. ASSUME NEW y \in S PROVE x <= y
  <2>1. x \in Nat /\ y \in Nat /\ ~(y < x)
    BY <1>1, <1>2
  <2> QED BY <2>1
<1> QED BY <1>3

\* Part of a sequence, from behind m up to n
LEMMA PartOf ==
  ASSUME NEW M, NEW s \in Seq(M), NEW n \in 0..Len(s), NEW m \in 0..n
  PROVE  /\ SubSeq(s, m + 1, n) \in Seq(M) /\ Len(SubSeq(s, m + 1, n)) = n - m
         /\ \A i \in 1..n - m : SubSeq(s, m + 1, n)[i] = s[m + i]
         /\ SubSeq(s, m + 1, n) = <<>> <=> m = n
<1>1. Len(s) \in Nat /\ n \in Nat /\ m \in Nat /\ n <= Len(s) /\ m <= n
  OBVIOUS
<1> DEFINE r == SubSeq(s, m + 1, n)
<1>2. /\ r \in Seq(M) /\ Len(r) = n - m /\ \A i \in 1..n - m : r[i] = s[m + i]
  BY <1>1
<1> HIDE DEF r
<1>3. r = <<>> <=> m = n
  BY <1>1, <1>2
<1> QED BY <1>2, <1>3 DEF r

LEMMA PartOfPart ==
  ASSUME NEW M, NEW s \in Seq(M), NEW n \in 0..Len(s), NEW m \in 0..n,
         NEW r, r = SubSeq(s, m + 1, n), NEW b \in 0..Len(r), NEW a \in 0..b
  PROVE  SubSeq(r, a + 1, b) = SubSeq(s, m + a + 1, m + b)
<1>1. /\ Len(s) \in Nat /\ n \in Nat /\ m \in Nat /\ n <= Len(s) /\ m <= n
      /\ r \in Seq(M) /\ Len(r) = n - m /\ \A i \in 1..n - m : r[i] = s[m + i]
  BY PartOf
<1>2. /\ b \in 0..Len(r) /\ a \in 0..b /\ b \in Nat /\ a \in Nat /\ a <= b /\ b <= n - m
      /\ m + b \in 0..Len(s) /\ m + a \in 0..m + b
  BY <1>1
<1> DEFINE x == SubSeq(r, a + 1, b)
           y == SubSeq(s, m + a + 1, m + b)
<1>3. x \in Seq(M) /\ Len(x) = b - a /\ \A i \in 1..b - a : x[i] = r[a + i]
  <2>1. r \in Seq(M) /\ b \in 0..Len(r) /\ a \in 0..b
    BY <1>1, <1>2
  <2> QED BY ONLY <2>1, PartOf
<1>4. /\ y \in Seq(M) /\ Len(y) = (m + b) - (m + a)
      /\ \A i \in 1..(m + b) - (m + a) : y[i] = s[(m + a) + i]
  <2> DEFINE c == m + a
             d == m + b
  <2>1. d \in 0..Len(s) /\ c \in 0..d
    BY <1>2
  <2> HIDE DEF c, d
  <2>2. /\ SubSeq(s, c + 1, d) \in Seq(M) /\ Len(SubSeq(s, c + 1, d)) = d - c
        /\ \A i \in 1..d - c : SubSeq(s, c + 1, d)[i] = s[c + i]
    BY ONLY <2>1, s \in Seq(M), PartOf
  <2> QED BY <2>2 DEF c, d
<1> HIDE DEF x, y
<1>5. ASSUME NEW i \in 1..Len(x) PROVE x[i] = y[i]
  <2>1. /\ i \in 1..b - a /\ a + i \in 1..n - m /\ i \in 1..(m + b) - (m + a)
        /\ m + (a + i) = (m + a) + i
    BY <1>1, <1>2, <1>3
  <2> QED BY <2>1, <1>1, <1>3, <1>4
<1>6. Len(x) = Len(y)
  <2>1. m \in Nat /\ a \in Nat /\ b \in Nat
    BY ONLY <1>1, <1>2
  <2>2. (m + b) - (m + a) = b - a
    BY ONLY <2>1
  <2>3. Len(x) = b - a
    BY ONLY <1>3
  <2>4. Len(y) = (m + b) - (m + a)
    BY ONLY <1>4
  <2> QED BY ONLY <2>2, <2>3, <2>4
<1>7. x \in Seq(M) /\ y \in Seq(M) /\ \A i \in 1..Len(x) : x[i] = y[i]
  BY <1>3, <1>4, <1>5
<1>8. x = y
  BY ONLY <1>6, <1>7, SameSeq
<1> QED BY <1>8 DEF x, y

Chars == Seq(Character)
Message == Chars \cup {Blank, Flush}
Piece(x) == IF x = <<>> THEN Blank ELSE x
Round(r) ==
  LET ends == {i \in DOMAIN r.rest : r.rest[i] \in Delimiter}
      end == CHOOSE i \in ends : \A j \in ends : i <= j
      piece == SubSeq(r.rest, 1, end - 1)
  IN  IF ends = {} THEN r
      ELSE [sent |-> Append(r.sent, IF piece = <<>> THEN Blank ELSE piece),
            rest |-> Behind(SubSeq(r.rest, end + 1, Len(r.rest)))]
Split == [sent : Seq(Chars \cup {Blank}), rest : Seq(Sign)]

\* A round on what is left behind m ends in the first delimiter, if there is one.
LEMMA RoundAt ==
  ASSUME NEW s \in Seq(Sign), NEW n \in 0..Len(s), NEW m \in 0..n,
         NEW r \in Split, r.rest = SubSeq(s, m + 1, n)
  PROVE  \/ Round(r) = r /\ \A i \in m + 1..n : s[i] \notin Delimiter
         \/ \E e \in m + 1..n :
              /\ s[e] \in Delimiter /\ \A i \in m + 1..e - 1 : s[i] \notin Delimiter
              /\ SubSeq(s, m + 1, e - 1) \in Chars
              /\ Round(r) =
                   [sent |-> Append(r.sent, Piece(SubSeq(s, m + 1, e - 1))),
                    rest |-> SubSeq(s, (IF e = n THEN n ELSE e + 1) + 1, n)]
<1>1. Len(s) \in Nat /\ n \in Nat /\ m \in Nat /\ n <= Len(s) /\ m <= n
  OBVIOUS
<1> DEFINE t == r.rest
           ends == {i \in DOMAIN t : t[i] \in Delimiter}
           end == CHOOSE i \in ends : \A j \in ends : i <= j
           piece == SubSeq(t, 1, end - 1)
           behind == SubSeq(t, end + 1, Len(t))
<1>2. /\ t \in Seq(Sign) /\ Len(t) = n - m /\ \A i \in 1..n - m : t[i] = s[m + i]
  BY PartOf
<1>3. DOMAIN t = 1..n - m
  BY <1>2
<1>4. Round(r) = IF ends = {} THEN r
                 ELSE [sent |-> Append(r.sent, Piece(piece)), rest |-> Behind(behind)]
  BY DEF Round, Piece
<1> HIDE DEF t
<1>5. CASE ends = {}
  <2>1. ASSUME NEW i \in m + 1..n PROVE s[i] \notin Delimiter
    <3>1. i - m \in 1..n - m /\ m + (i - m) = i
      BY <1>1
    <3> QED BY <3>1, <1>2, <1>3, <1>5
  <2>2. Round(r) = r
    BY <1>4, <1>5
  <2> QED BY <2>1, <2>2
<1>6. CASE ends # {}
  <2>1. ends \in SUBSET Nat
    BY <1>1, <1>3
  <2>2. end \in ends /\ \A j \in ends : end <= j
    <3> HIDE DEF ends
    <3>1. \E x \in ends : \A y \in ends : x <= y
      BY <2>1, <1>6, NatLeast
    <3> QED BY <3>1
  <2> DEFINE e == m + end
             q == IF e = n THEN n ELSE e + 1
             x == SubSeq(s, m + 1, e - 1)
  <2> HIDE DEF end
  <2>3. /\ end \in 1..n - m /\ t[end] \in Delimiter /\ \A j \in 1..end - 1 : t[j] \notin Delimiter
        /\ end \in Nat
    <3>1. end \in 1..n - m /\ t[end] \in Delimiter
      BY <2>2, <1>3
    <3>2. ASSUME NEW j \in 1..end - 1, t[j] \in Delimiter PROVE FALSE
      <4>1. j \in 1..n - m /\ ~(end <= j)
        BY <3>1, <1>1
      <4>2. j \in ends
        BY <4>1, <3>2, <1>3
      <4> QED BY <4>1, <4>2, <2>2
    <3> QED BY <3>1, <3>2, <1>1
  <2>4. e \in m + 1..n /\ s[e] \in Delimiter
    BY <2>3, <1>1, <1>2
  <2>5. ASSUME NEW i \in m + 1..e - 1 PROVE s[i] \notin Delimiter
    <3>1. i - m \in 1..end - 1 /\ i - m \in 1..n - m /\ m + (i - m) = i
      BY <1>1, <2>3
    <3> QED BY <3>1, <2>3, <1>2
  <2>6. piece = x
    <3> DEFINE b == end - 1
    <3>1. b \in 0..Len(t) /\ 0 \in 0..b /\ m + b = e - 1 /\ m + 0 = m /\ 0 + 1 = 1
      BY <2>3, <1>1, <1>2
    <3> HIDE DEF b
    <3>2. SubSeq(t, 0 + 1, b) = SubSeq(s, m + 0 + 1, m + b)
      BY ONLY <3>1, PartOfPart, s \in Seq(Sign), n \in 0..Len(s), m \in 0..n,
              r.rest = SubSeq(s, m + 1, n) DEF t
    <3>3. SubSeq(t, 1, b) = SubSeq(s, m + 1, e - 1)
      BY <3>1, <3>2
    <3> QED BY <3>3 DEF b
  <2>7. x \in Chars
    <3>1. e - 1 \in 0..Len(s) /\ m \in 0..e - 1
      BY <2>4, <1>1
    <3> DEFINE d == e - 1
    <3>2. x \in Seq(Sign) /\ Len(x) = d - m /\ \A i \in 1..d - m : x[i] = s[m + i]
      <4> HIDE DEF d
      <4>1. d \in 0..Len(s) /\ m \in 0..d /\ x = SubSeq(s, m + 1, d)
        BY <3>1 DEF d
      <4> HIDE DEF x
      <4> QED BY <4>1, PartOf
    <3> HIDE DEF x
    <3>3. ASSUME NEW i \in 1..Len(x) PROVE x[i] \in Character
      <4>1. i \in 1..d - m /\ m + i \in m + 1..e - 1
        BY <3>1, <3>2, <1>1
      <4>2. x[i] \notin Delimiter /\ x[i] \in Sign
        BY <4>1, <3>2, <2>5
      <4> QED BY <4>2 DEF Sign, Delimiter
    <3>4. x = [i \in 1..Len(x) |-> x[i]] /\ Len(x) \in Nat
      BY <3>2
    <3>5. x \in Seq(Character)
      <4> DEFINE k == Len(x)
      <4>1. x \in [1..k -> Character] /\ k \in Nat
        BY <3>3, <3>4
      <4> HIDE DEF k
      <4> QED BY <4>1, SeqDef
    <3> QED BY <3>5 DEF Chars
  <2>8. Behind(behind) = SubSeq(s, q + 1, n)
    <3>1. behind = SubSeq(s, e + 1, n)
      <4> DEFINE b == Len(t)
      <4>1. b \in 0..Len(t) /\ end \in 0..b /\ m + b = n /\ m + end = e
        BY <2>3, <1>1, <1>2
      <4> HIDE DEF b
      <4>2. SubSeq(t, end + 1, b) = SubSeq(s, m + end + 1, m + b)
        BY ONLY <4>1, PartOfPart, s \in Seq(Sign), n \in 0..Len(s), m \in 0..n,
                r.rest = SubSeq(s, m + 1, n) DEF t
      <4> QED BY <4>1, <4>2 DEF b
    <3>2. e \in 0..n /\ n \in 0..Len(s)
      BY <2>4, <1>1
    <3> HIDE DEF e, behind
    <3>3. /\ behind \in Seq(Sign) /\ Len(behind) = n - e /\ (behind = <<>> <=> e = n)
          /\ \A i \in 1..n - e : behind[i] = s[e + i]
      <4> DEFINE g == SubSeq(s, e + 1, n)
      <4>1. /\ g \in Seq(Sign) /\ Len(g) = n - e /\ \A i \in 1..n - e : g[i] = s[e + i]
            /\ g = <<>> <=> e = n
        BY ONLY <3>2, s \in Seq(Sign), PartOf
      <4>2. behind = g
        BY <3>1
      <4> HIDE DEF g
      <4> QED BY <4>1, <4>2
    <3>4. CASE e = n
      BY <3>1, <3>3, <3>4 DEF Behind
    <3>5. CASE e # n
      <4>1. q = e + 1 /\ q \in 0..n
        BY <3>2, <3>5
      <4>2. Behind(behind) = Tail(behind) /\ behind # <<>>
        BY <3>3, <3>5 DEF Behind
      <4> DEFINE y == SubSeq(s, q + 1, n)
                 z == Tail(behind)
      <4>3. /\ y \in Seq(Sign) /\ Len(y) = n - q /\ \A i \in 1..n - q : y[i] = s[q + i]
        <5> HIDE DEF q
        <5> QED BY <4>1, <3>2, PartOf
      <4>4. /\ z \in Seq(Sign) /\ Len(z) = Len(behind) - 1 /\ \A i \in 1..Len(z) : z[i] = behind[i + 1]
        BY <3>3, <4>2
      <4> HIDE DEF y, z, q
      <4>5. ASSUME NEW i \in 1..Len(z) PROVE z[i] = y[i]
        <5>1. i + 1 \in 1..n - e /\ i \in 1..n - q /\ e + (i + 1) = q + i
          BY <3>2, <3>3, <4>1, <4>4
        <5> QED BY <5>1, <3>3, <4>3, <4>4
      <4>6. Len(z) = Len(y)
        BY <3>2, <3>3, <4>1, <4>3, <4>4
      <4>7. z = y
        BY <4>3, <4>4, <4>5, <4>6, SameSeq
      <4> QED BY <4>2, <4>7 DEF y, z
    <3> QED BY <3>4, <3>5
  <2>9. Round(r) = [sent |-> Append(r.sent, Piece(x)), rest |-> SubSeq(s, q + 1, n)]
    BY <1>4, <1>6, <2>6, <2>8
  <2> QED BY <2>4, <2>5, <2>7, <2>9
<1> QED BY <1>5, <1>6

LEMMA RoundIs == ASSUME NEW r \in Split PROVE Round(r) \in Split
<1> DEFINE s == r.rest
           n == Len(s)
<1>1. s \in Seq(Sign) /\ n \in Nat /\ n \in 0..Len(s) /\ 0 \in 0..n
      /\ r.rest = SubSeq(s, 0 + 1, n)
  BY DEF Split
<1> HIDE DEF s, n
<1>2. \/ Round(r) = r
      \/ \E e \in 0 + 1..n :
              /\ SubSeq(s, 0 + 1, e - 1) \in Chars
              /\ Round(r) = [sent |-> Append(r.sent, Piece(SubSeq(s, 0 + 1, e - 1))),
                             rest |-> SubSeq(s, (IF e = n THEN n ELSE e + 1) + 1, n)]
  <2>1. \/ Round(r) = r /\ \A i \in 0 + 1..n : s[i] \notin Delimiter
        \/ \E e \in 0 + 1..n :
             /\ s[e] \in Delimiter /\ \A i \in 0 + 1..e - 1 : s[i] \notin Delimiter
             /\ SubSeq(s, 0 + 1, e - 1) \in Chars
             /\ Round(r) =
                  [sent |-> Append(r.sent, Piece(SubSeq(s, 0 + 1, e - 1))),
                   rest |-> SubSeq(s, (IF e = n THEN n ELSE e + 1) + 1, n)]
    BY ONLY <1>1, r \in Split, RoundAt
  <2> QED BY <2>1
<1>3. ASSUME NEW e \in 0 + 1..n, NEW x, x \in Chars,
             Round(r) = [sent |-> Append(r.sent, Piece(x)),
                         rest |-> SubSeq(s, (IF e = n THEN n ELSE e + 1) + 1, n)]
      PROVE  Round(r) \in Split
  <2> DEFINE p == Piece(x)
             q == IF e = n THEN n ELSE e + 1
             t == SubSeq(s, q + 1, n)
             a == Append(r.sent, p)
  <2>1. p \in Chars \cup {Blank}
    BY <1>3 DEF Piece
  <2>2. q \in 0..n /\ n \in 0..Len(s)
    BY <1>1
  <2>3. t \in Seq(Sign)
    <3> HIDE DEF q
    <3> QED BY <1>1, <2>2, PartOf
  <2>4. a \in Seq(Chars \cup {Blank})
    <3> HIDE DEF p
    <3> QED BY <2>1 DEF Split
  <2>5. Round(r) = [sent |-> a, rest |-> t]
    BY <1>3
  <2> HIDE DEF a, t
  <2> QED BY <2>3, <2>4, <2>5 DEF Split
<1> QED BY <1>2, <1>3

LEMMA PiecesIs ==
  ASSUME NEW buf \in Seq(Sign)
  PROVE  \E w \in [0..Len(buf) -> Split] :
           /\ w[0] = [sent |-> <<>>, rest |-> buf]
           /\ \A n \in 1..Len(buf) : w[n] = Round(w[n - 1])
           /\ Pieces(buf) = w[Len(buf)].sent
<1> DEFINE L == Len(buf)
           f == [n \in 1..L |-> [r \in Split |-> Round(r)]]
           a == [sent |-> <<>>, rest |-> buf]
<1>1. L \in Nat
  OBVIOUS
<1>2. f \in [1..L -> [Split -> Split]]
  BY <1>1, RoundIs
<1>3. a \in Split
  BY DEF Split
<1>4. PICK w \in [0..L -> Split] : w[0] = a /\ \A n \in 1..L : w[n] = f[n][w[n - 1]]
  <2> DEFINE D == Split
  <2>1. L \in Nat /\ f \in [1..L -> [D -> D]] /\ a \in D
    BY <1>1, <1>2, <1>3
  <2> HIDE DEF f, L, D, a
  <2>2. \E w : Runs(w, D, L, f, a)
    BY ONLY <2>1, Recursion
  <2> QED BY ONLY <2>2 DEF Runs, D
<1>5. \A n \in 1..L : w[n] = Round(w[n - 1])
  <2> SUFFICES ASSUME NEW n \in 1..L PROVE w[n] = Round(w[n - 1])
    OBVIOUS
  <2>1. w[n - 1] \in Split
    BY <1>1
  <2> QED BY <2>1, <1>4
<1> DEFINE Is(g) ==
             g = [n \in 0..L |->
                   LET s == g[n - 1]
                       ends == {i \in DOMAIN s.rest : s.rest[i] \in Delimiter}
                       end == CHOOSE i \in ends : \A j \in ends : i <= j
                       piece == SubSeq(s.rest, 1, end - 1)
                   IN  IF n = 0 THEN [sent |-> <<>>, rest |-> buf]
                       ELSE IF ends = {} THEN s
                       ELSE [sent |-> Append(s.sent, IF piece = <<>> THEN Blank ELSE piece),
                             rest |-> Behind(SubSeq(s.rest, end + 1, Len(s.rest)))]]
           Has(g) == g = [n \in 0..L |-> IF n = 0 THEN a ELSE Round(g[n - 1])]
           left == CHOOSE g : Is(g)
<1>6. \A g : Is(g) <=> Has(g)
  BY DEF Round
<1>7. Has(w)
  <2>1. w = [n \in 0..L |-> w[n]]
    OBVIOUS
  <2>2. \A n \in 0..L : n = 0 \/ n \in 1..L
    BY <1>1
  <2> HIDE DEF a
  <2> QED BY <2>1, <2>2, <1>4, <1>5
<1>8. Has(left)
  <2> HIDE DEF Is, Has
  <2> QED BY <1>6, <1>7
<1>9. left[0] = w[0] /\ \A n \in 1..L : left[n] = Round(left[n - 1])
  <2> HIDE DEF left, a
  <2>1. 0 \in 0..L /\ \A n \in 1..L : n \in 0..L /\ n # 0
    BY <1>1
  <2> QED BY <1>4, <1>8, <2>1
<1>10. left[L] = w[L]
  <2>1. left[0] = w[0] /\ \A n \in 1..L : left[n - 1] = w[n - 1] => left[n] = w[n]
    BY <1>5, <1>9
  <2> HIDE DEF left, L
  <2> QED BY ONLY <1>1, <2>1, Agree
<1>11. Pieces(buf) = left[L].sent
  BY DEF Pieces
<1> QED BY <1>4, <1>5, <1>10, <1>11

-----------------------------------------------------------------------------
(* Places on the walk: which lines have ended *)
Paired(s) ==
  \A i \in 1..Len(s) :
    /\ s[i] = "CR" => i + 1 \in 1..Len(s) /\ s[i + 1] = "LF"
    /\ s[i] = "LF" => i - 1 \in 1..Len(s) /\ s[i - 1] = "CR"
Ended(w, s, n) == IF n # 0 /\ s[n] = "CR" THEN Len(w[n]) ELSE Len(w[n]) - 1
AtStart(s, n) == n = 0 \/ s[n] = "LF"

LEMMA EndedIs ==
  ASSUME NEW s \in Seq(Sign), Paired(s), NEW w, Walks(w, s),
         NEW n \in 0..Len(s), NEW m \in 0..n
  PROVE  /\ Ended(w, s, m) \in Nat /\ Ended(w, s, n) \in Nat /\ Ended(w, s, m) <= Ended(w, s, n)
         /\ Ended(w, s, n) <= Len(w[Len(s)]) - 1
<1>1. ASSUME NEW b \in 0..Len(s), NEW a \in 0..b
      PROVE  Ended(w, s, a) \in Nat /\ Ended(w, s, b) \in Nat /\ Ended(w, s, a) <= Ended(w, s, b)
  <2>1. /\ Len(s) \in Nat /\ a \in Nat /\ b \in Nat /\ a \in 0..Len(s) /\ a <= b
    OBVIOUS
  <2>2. /\ Len(w[a]) \in Nat \ {0} /\ Len(w[b]) \in Nat \ {0} /\ Len(w[a]) <= Len(w[b])
        /\ w[a] \in Page
    BY <2>1, WalkUp, PagesOf
  <2>3. /\ Ended(w, s, a) \in Nat /\ Ended(w, s, b) \in Nat
        /\ Ended(w, s, b) >= Len(w[b]) - 1 /\ Ended(w, s, a) <= Len(w[a])
    BY <2>2 DEF Ended
  <2>4. CASE a # 0 /\ s[a] = "CR"
    <3>1. CASE a = b
      BY <3>1, <2>3
    <3>2. CASE a # b
      <4>1. a \in 1..Len(s) /\ a + 1 \in 0..Len(s) /\ a + 1 \in 1..Len(s) /\ a + 1 <= b
            /\ (a + 1) - 1 = a
        BY <2>1, <2>4, <3>2
      <4>2. s[a + 1] = "LF"
        BY <4>1, <2>4 DEF Paired
      <4>3. w[a + 1] = NextPage(w[a], "LF") /\ "LF" \in Sign
        <5>1. w[a + 1] = NextPage(w[(a + 1) - 1], s[a + 1])
          BY <4>1 DEF Walks
        <5>2. s[a + 1] \in Sign
          BY <4>1
        <5> QED BY <5>1, <5>2, <4>1, <4>2
      <4>4. Len(w[a + 1]) = Len(w[a]) + 1
        BY <4>3, <2>2, PageIs
      <4>5. Len(w[a + 1]) <= Len(w[b])
        BY ONLY <4>1, <2>1, s \in Seq(Sign), Walks(w, s), b \in 0..Len(s), WalkUp
      <4> QED BY <2>2, <2>3, <4>4, <4>5
    <3> QED BY <3>1, <3>2
  <2>5. CASE ~(a # 0 /\ s[a] = "CR")
    <3>1. Ended(w, s, a) = Len(w[a]) - 1
      BY <2>5 DEF Ended
    <3> QED BY <3>1, <2>2, <2>3
  <2> QED BY <2>3, <2>4, <2>5
<1>2. Len(s) \in Nat /\ Len(s) \in 0..Len(s) /\ n \in 0..Len(s)
  OBVIOUS
<1>3. Ended(w, s, Len(s)) = Len(w[Len(s)]) - 1
  <2>1. ASSUME Len(s) # 0, s[Len(s)] = "CR" PROVE FALSE
    <3>1. Len(s) \in 1..Len(s) /\ ~(Len(s) + 1 \in 1..Len(s))
      BY <1>2, <2>1
    <3> QED BY <3>1, <2>1 DEF Paired
  <2> QED BY <2>1 DEF Ended
<1>4. Ended(w, s, n) <= Ended(w, s, Len(s))
  BY <1>1, <1>2
<1> QED BY <1>1, <1>3, <1>4

Unbroken(s, m, n) == \A i \in m + 1..n : s[i] \notin Delimiter
\* e ends the line that m is in.
LineEnded(s, w, e, m) ==
  LET k == Len(w[m])
      p == w[Len(s)]
  IN  /\ k \in Nat \ {0} /\ k <= Len(p) - 1 /\ Ended(w, s, e) = k
      /\ e + 1 \in 1..Len(s) /\ s[e + 1] = "LF"
      /\ Len(w[e + 1]) = k + 1 /\ w[m][k] \in Seq(Sign)
      /\ p[k] = w[m][k] \o SubSeq(s, m + 1, e - 1)

LEMMA LineEnds ==
  ASSUME NEW s \in Seq(Sign), Paired(s), NEW w, Walks(w, s),
         NEW e \in 1..Len(s), NEW m \in 0..e - 1, s[e] = "CR", Unbroken(s, m, e - 1)
  PROVE  LineEnded(s, w, e, m)
<1> DEFINE k == Len(w[m])
           p == w[Len(s)]
           d == e - 1
           x == SubSeq(s, m + 1, d)
<1>1. /\ Len(s) \in Nat /\ e \in Nat /\ m \in Nat /\ d \in Nat /\ d + 1 = e
      /\ m \in 0..Len(s) /\ d \in 0..Len(s) /\ m <= d /\ e \in 0..Len(s)
  OBVIOUS
<1>2. e + 1 \in 1..Len(s) /\ s[e + 1] = "LF"
  BY DEF Paired
<1>3. /\ w[m] \in Page /\ w[d] \in Page /\ w[e] \in Page /\ k \in Nat \ {0}
      /\ w[m][k] \in Seq(Sign)
  <2>1. \A q \in Page : Len(q) \in Nat \ {0} /\ q[Len(q)] \in Seq(Sign)
    BY DEF Page
  <2> QED BY <1>1, <2>1, PagesOf
<1>4. Len(w[d]) = k /\ w[d][k] = w[m][k] \o x
  <2>1. \A i \in m + 1..d : s[i] \notin Delimiter
    BY DEF Unbroken
  <2> HIDE DEF d
  <2> QED BY <1>1, <2>1, WalkAlong
<1>5. w[e] = w[d]
  <2>1. w[e] = NextPage(w[e - 1], s[e])
    BY DEF Walks
  <2>2. NextPage(w[d], "CR") = w[d]
    BY DEF NextPage
  <2> QED BY <2>1, <2>2
<1>6. Len(w[e + 1]) = k + 1 /\ w[e + 1][k] = w[e][k]
  <2>1. w[e + 1] = NextPage(w[e], s[e + 1]) /\ s[e + 1] \in Sign
    <3>1. w[e + 1] = NextPage(w[(e + 1) - 1], s[e + 1])
      BY <1>2 DEF Walks
    <3> QED BY <3>1, <1>1, <1>2
  <2> DEFINE q == w[e]
  <2>2. q \in Page /\ "LF" \in Sign /\ Len(q) = k /\ k \in 1..k
    BY <1>2, <1>3, <1>4, <1>5, <2>1
  <2> HIDE DEF q, k
  <2>3. Len(NextPage(q, "LF")) = Len(q) + 1 /\ \A i \in 1..Len(q) : NextPage(q, "LF")[i] = q[i]
    BY ONLY <2>2, PageIs
  <2> QED BY <2>1, <2>2, <2>3, <1>2 DEF q
<1>7. Len(w[e + 1]) <= Len(p) /\ Len(p) \in Nat
      /\ \A i \in 1..Len(w[e + 1]) - 1 : p[i] = w[e + 1][i]
  <2> DEFINE a == e + 1
             b == Len(s)
  <2>1. a \in 0..Len(s) /\ b \in 0..Len(s) /\ a <= b
    BY <1>1, <1>2
  <2> HIDE DEF a, b
  <2>2. Len(w[a]) <= Len(w[b]) /\ Len(w[b]) \in Nat /\ \A i \in 1..Len(w[a]) - 1 : w[b][i] = w[a][i]
    BY ONLY <2>1, s \in Seq(Sign), Walks(w, s), WalkUp
  <2> QED BY <2>2 DEF a, b
<1>8. k <= Len(p) - 1 /\ k \in 1..Len(w[e + 1]) - 1
  <2> HIDE DEF k, p
  <2> QED BY <1>3, <1>6, <1>7
<1>9. p[k] = w[m][k] \o x
  BY <1>4, <1>5, <1>6, <1>7, <1>8
<1>10. Ended(w, s, e) = k
  BY <1>1, <1>4, <1>5 DEF Ended
<1> QED BY <1>2, <1>3, <1>6, <1>8, <1>9, <1>10 DEF LineEnded

-----------------------------------------------------------------------------
(* What messages say of lines *)

\* Messages ms are ends of the first k of lines p, no line twice and in order.
Fits(ms, p, k) ==
  \E g \in [0..Len(ms) -> 0..k] :
    \A i \in 1..Len(ms) :
      /\ g[i - 1] <= g[i]
      /\ ms[i] \in {Blank, Flush} \/ (g[i - 1] < g[i] /\ EndsIn(p[g[i]], ms[i]))
\* They are the first k, whole.
Lined(ms, p, k) == Len(ms) = k /\ \A i \in 1..k : ms[i] = Piece(p[i])

LEMMA FitsNone == ASSUME NEW p, NEW k \in Nat PROVE Fits(<<>>, p, k)
<1> DEFINE g == [i \in 0..0 |-> 0]
<1>1. g \in [0..Len(<<>>) -> 0..k] /\ 1..Len(<<>>) = {}
  OBVIOUS
<1> QED BY <1>1 DEF Fits

LEMMA FitsOne ==
  ASSUME NEW M, NEW ms \in Seq(M), NEW x \in M, NEW p, NEW j \in Nat, NEW k \in Nat, j <= k,
         Fits(ms, p, j), x \in {Blank, Flush} \/ (j < k /\ EndsIn(p[k], x))
  PROVE  Fits(Append(ms, x), p, k)
<1> DEFINE L == Len(ms)
           t == Append(ms, x)
<1>1. L \in Nat /\ Len(t) = L + 1 /\ t[L + 1] = x /\ \A i \in 1..L : t[i] = ms[i]
  OBVIOUS
<1> HIDE DEF t
<1>2. PICK g \in [0..L -> 0..j] :
        \A i \in 1..L :
          /\ g[i - 1] <= g[i]
          /\ ms[i] \in {Blank, Flush} \/ (g[i - 1] < g[i] /\ EndsIn(p[g[i]], ms[i]))
  BY DEF Fits
<1> HIDE DEF L
<1> DEFINE h == [i \in 0..(L + 1) |-> IF i = L + 1 THEN k ELSE g[i]]
<1>3. h \in [0..(L + 1) -> 0..k]
  <2>1. ASSUME NEW i \in 0..(L + 1) PROVE (IF i = L + 1 THEN k ELSE g[i]) \in 0..k
    <3>1. CASE i = L + 1
      BY <3>1
    <3>2. CASE i # L + 1
      <4>1. i \in 0..L
        BY <3>2, <1>1
      <4>2. g[i] \in 0..j
        BY <4>1
      <4> QED BY <4>2, <3>2
    <3> QED BY <3>1, <3>2
  <2> QED BY <2>1
<1>4. h[L + 1] = k /\ \A i \in 0..L : h[i] = g[i]
  BY <1>1
<1> HIDE DEF h
<1>5. ASSUME NEW i \in 1..(L + 1)
      PROVE  /\ h[i - 1] <= h[i]
             /\ t[i] \in {Blank, Flush} \/ (h[i - 1] < h[i] /\ EndsIn(p[h[i]], t[i]))
  <2>1. CASE i = L + 1
    <3>1. i - 1 = L /\ L \in 0..L
      BY <2>1, <1>1
    <3>2. g[L] \in 0..j
      BY <3>1
    <3>3. h[i - 1] = g[L] /\ h[i] = k /\ t[i] = x
      BY <3>1, <2>1, <1>1, <1>4
    <3>4. g[L] <= k /\ (j < k => g[L] < k)
      BY <3>2
    <3> QED BY <3>3, <3>4
  <2>2. CASE i # L + 1
    <3>1. i \in 1..L /\ i \in 0..L /\ i - 1 \in 0..L
      BY <2>2, <1>1
    <3>2. h[i - 1] = g[i - 1] /\ h[i] = g[i] /\ t[i] = ms[i]
      BY <3>1, <1>1, <1>4
    <3> QED BY <3>1, <3>2, <1>2
  <2> QED BY <2>1, <2>2
<1> QED BY <1>1, <1>3, <1>5 DEF Fits, t

\* Of fewer messages, and more lines that begin as p does, it is true as well.
LEMMA FitsMore ==
  ASSUME NEW M, NEW ms \in Seq(M), NEW n \in 0..Len(ms), NEW r \in Seq(M), r = SubSeq(ms, 1, n),
         NEW p, NEW q, NEW j \in Nat, NEW k \in Nat, j <= k,
         \A i \in 1..j : q[i] = p[i], Fits(ms, p, j)
  PROVE  Fits(r, q, k)
<1>1. Len(ms) \in Nat /\ n \in Nat /\ Len(r) = n /\ \A i \in 1..n : r[i] = ms[i]
  OBVIOUS
<1>2. PICK g \in [0..Len(ms) -> 0..j] :
        \A i \in 1..Len(ms) :
          /\ g[i - 1] <= g[i]
          /\ ms[i] \in {Blank, Flush} \/ (g[i - 1] < g[i] /\ EndsIn(p[g[i]], ms[i]))
  BY DEF Fits
<1> DEFINE h == [i \in 0..n |-> g[i]]
<1>3. \A i \in 0..n : i \in 0..Len(ms) /\ g[i] \in 0..j /\ g[i] \in 0..k
  BY <1>1
<1>4. h \in [0..n -> 0..k] /\ \A i \in 0..n : h[i] = g[i]
  BY <1>3
<1> HIDE DEF h
<1>5. ASSUME NEW i \in 1..n
      PROVE  /\ h[i - 1] <= h[i]
             /\ r[i] \in {Blank, Flush} \/ (h[i - 1] < h[i] /\ EndsIn(q[h[i]], r[i]))
  <2>1. i \in 1..Len(ms) /\ i \in 0..n /\ i - 1 \in 0..n
    BY <1>1
  <2>2. h[i - 1] = g[i - 1] /\ h[i] = g[i] /\ r[i] = ms[i] /\ g[i] \in 0..j /\ g[i - 1] \in 0..j
    BY <2>1, <1>1, <1>3, <1>4
  <2>3. g[i - 1] < g[i] => g[i] \in 1..j
    BY <2>2
  <2>4. g[i - 1] < g[i] => q[g[i]] = p[g[i]]
    BY <2>3
  <2> QED BY <2>1, <2>2, <2>4, <1>2
<1> QED BY <1>1, <1>4, <1>5 DEF Fits

-----------------------------------------------------------------------------
(* What a chunk adds *)

LEMMA EndOfJoin ==
  ASSUME NEW M, NEW b \in Seq(M), NEW a \in Seq(M)
  PROVE  EndsIn(b \o a, a)
<1> DEFINE c == b \o a
<1>1. /\ Len(b) \in Nat /\ Len(a) \in Nat /\ Len(c) = Len(b) + Len(a)
      /\ SubSeq(c, Len(b) + 1, Len(c)) = a
  <2>1. Len(a) \in Nat
    OBVIOUS
  <2> QED BY <2>1, CutAt
<1> HIDE DEF c
<1>2. Len(a) <= Len(c) /\ Len(c) - Len(a) + 1 = Len(b) + 1
  BY <1>1
<1> QED BY <1>1, <1>2 DEF EndsIn, c

LEMMA PieceFits ==
  ASSUME NEW s \in Seq(Sign), Paired(s), NEW w, Walks(w, s), NEW ms \in Seq(Message),
         NEW e \in 1..Len(s), NEW a \in 0..e - 1, s[e] \in Delimiter,
         Unbroken(s, a, e - 1),
         NEW x \in Chars, x = SubSeq(s, a + 1, e - 1),
         Fits(ms, w[Len(s)], Ended(w, s, a))
  PROVE  Fits(Append(ms, Piece(x)), w[Len(s)], Ended(w, s, e))
<1> DEFINE p == w[Len(s)]
           j == Ended(w, s, a)
           k == Ended(w, s, e)
           y == Piece(x)
<1>1. /\ Len(s) \in Nat /\ e \in Nat /\ a \in Nat /\ a <= e - 1 /\ a \in 0..e /\ e \in 0..Len(s)
      /\ e - 1 \in 0..Len(s)
  OBVIOUS
<1>2. j \in Nat /\ k \in Nat /\ j <= k
  BY <1>1, EndedIs
<1>3. y \in Message
  BY DEF Piece, Message
<1>4. y = Blank \/ (j < k /\ EndsIn(p[k], y))
  <2>1. CASE x = <<>>
    BY <2>1 DEF Piece
  <2>2. CASE x # <<>>
    <3>1. a # e - 1 /\ y = x
      <4>1. x = <<>> <=> a = e - 1
        <5> DEFINE d == e - 1
        <5>1. d \in 0..Len(s) /\ a \in 0..d
          BY <1>1
        <5>2. x = SubSeq(s, a + 1, d)
          OBVIOUS
        <5> DEFINE z == SubSeq(s, a + 1, d)
        <5> HIDE DEF d
        <5>3. z = <<>> <=> a = d
          BY ONLY <5>1, s \in Seq(Sign), PartOf
        <5> HIDE DEF z
        <5>4. x = z
          BY <5>2 DEF z
        <5> QED BY <5>3, <5>4 DEF d
      <4> QED BY <4>1, <2>2 DEF Piece
    <3>2. /\ e - 1 \in a + 1..e - 1 /\ e - 1 \in 1..Len(s)
          /\ a + 1 \in a + 1..e - 1
      BY <1>1, <3>1
    <3>3. s[e] = "CR"
      <4>1. s[e] = "LF" => s[e - 1] = "CR"
        BY DEF Paired
      <4>2. s[e - 1] # "CR"
        BY <3>2 DEF Delimiter, Unbroken
      <4> QED BY <4>1, <4>2 DEF Delimiter
    <3>4. ~(a # 0 /\ s[a] = "CR")
      <4>1. a # 0 => a \in 1..Len(s)
        BY <1>1
      <4>2. a \in 1..Len(s) /\ s[a] = "CR" => s[a + 1] = "LF"
        BY DEF Paired
      <4>3. s[a + 1] # "LF"
        BY <3>2 DEF Delimiter, Unbroken
      <4> QED BY <4>1, <4>2, <4>3
    <3> DEFINE l == Len(w[a])
    <3>5. /\ l \in Nat \ {0} /\ k = l /\ w[a][l] \in Seq(Sign) /\ p[l] = w[a][l] \o x
      <4>1. LineEnded(s, w, e, a)
        BY <3>3, LineEnds
      <4> QED BY <4>1 DEF LineEnded
    <3>6. j = l - 1
      BY <3>4 DEF Ended
    <3>7. x \in Seq(Sign)
      BY DEF Chars, Sign
    <3> HIDE DEF p, k, j, l, y
    <3>8. EndsIn(p[k], x)
      BY <3>5, <3>7, EndOfJoin
    <3> QED BY <3>1, <3>5, <3>6, <3>8
  <2> QED BY <2>1, <2>2
<1>5. Fits(ms, p, j)
  OBVIOUS
<1> HIDE DEF p, j, k, y
<1>6. Fits(Append(ms, y), p, k)
  BY <1>2, <1>3, <1>4, <1>5, FitsOne
<1> QED BY <1>6 DEF p, k, y

LEMMA PieceLined ==
  ASSUME NEW s \in Seq(Sign), Paired(s), NEW w, Walks(w, s), NEW ms \in Seq(Message),
         NEW n \in 0..Len(s), AtStart(s, n),
         NEW e \in 1..n, NEW a \in 0..e - 1, s[e] \in Delimiter,
         Unbroken(s, a, e - 1), AtStart(s, a),
         NEW x \in Chars, x = SubSeq(s, a + 1, e - 1),
         Lined(ms, w[Len(s)], Len(w[a]) - 1)
  PROVE  /\ e + 1 \in 1..n /\ AtStart(s, e + 1)
         /\ Lined(Append(ms, Piece(x)), w[Len(s)], Len(w[e + 1]) - 1)
<1> DEFINE p == w[Len(s)]
           k == Len(w[a])
           y == Piece(x)
<1>1. /\ Len(s) \in Nat /\ n \in Nat /\ e \in Nat /\ a \in Nat /\ a <= e - 1 /\ e \in 1..Len(s)
      /\ a \in 0..Len(s) /\ n \in 1..Len(s) /\ n # 0
  OBVIOUS
<1>2. s[n] = "LF"
  BY <1>1 DEF AtStart
<1>3. s[e] = "CR"
  <2>1. ASSUME s[e] = "LF" PROVE FALSE
    <3>1. e - 1 \in 1..Len(s) /\ s[e - 1] = "CR"
      BY <2>1, <1>1 DEF Paired
    <3>2. CASE a = e - 1
      BY <3>1, <3>2 DEF AtStart
    <3>3. CASE a # e - 1
      <4>1. e - 1 \in a + 1..e - 1
        BY <3>3, <1>1
      <4> QED BY <3>1, <4>1 DEF Delimiter, Unbroken
    <3> QED BY <3>2, <3>3
  <2> QED BY <2>1 DEF Delimiter
<1>4. /\ k \in Nat \ {0} /\ k <= Len(p) - 1 /\ s[e + 1] = "LF" /\ Len(w[e + 1]) = k + 1
      /\ p[k] = w[a][k] \o x
  <2>1. LineEnded(s, w, e, a)
    BY <1>1, <1>3, LineEnds
  <2> QED BY <2>1 DEF LineEnded
<1>5. w[a][k] = <<>>
  <2>1. CASE a = 0
    <3>1. w[a] = <<<<>>>>
      BY <2>1 DEF Walks
    <3> QED BY <3>1
  <2>2. CASE a # 0
    <3>1. s[a] = "LF" /\ a \in 1..Len(s) /\ a - 1 \in 0..Len(s)
      BY <2>2, <1>1 DEF AtStart
    <3>2. w[a] = NextPage(w[a - 1], "LF") /\ "LF" \in Sign
      <4>1. w[a] = NextPage(w[a - 1], s[a]) /\ s[a] \in Sign
        BY <3>1 DEF Walks
      <4> QED BY <3>1, <4>1
    <3> DEFINE q == w[a - 1]
    <3>3. q \in Page
      BY <3>1, PagesOf
    <3> HIDE DEF q
    <3>4. NextPage(q, "LF")[Len(q) + 1] = <<>> /\ Len(NextPage(q, "LF")) = Len(q) + 1
      BY <3>2, <3>3, PageIs
    <3> QED BY <3>2, <3>4 DEF q
  <2> QED BY <2>1, <2>2
<1>6. p[k] = x
  <2>1. x \in Seq(Character)
    BY DEF Chars
  <2>2. <<>> \o x = x
    BY <2>1
  <2> QED BY <1>4, <1>5, <2>2
<1>7. e # n
  BY <1>2, <1>3
<1>8. Len(ms) = k - 1 /\ \A i \in 1..k - 1 : ms[i] = Piece(p[i])
  BY DEF Lined
<1> HIDE DEF p, k, y
<1> DEFINE t == Append(ms, y)
<1>9. Len(t) = Len(ms) + 1 /\ t[Len(ms) + 1] = y /\ \A i \in 1..Len(ms) : t[i] = ms[i]
  <2>1. Len(ms) \in Nat
    OBVIOUS
  <2> QED BY <2>1
<1> HIDE DEF t
<1>10. Len(t) = k /\ t[k] = Piece(p[k])
  <2>1. Len(ms) + 1 = k
    BY <1>4, <1>8
  <2>2. y = Piece(p[k])
    BY <1>6 DEF y
  <2> QED BY <2>1, <2>2, <1>9
<1>11. ASSUME NEW i \in 1..k PROVE t[i] = Piece(p[i])
  <2>1. CASE i = k
    BY <2>1, <1>10
  <2>2. CASE i # k
    <3>1. i \in 1..k - 1 /\ i \in 1..Len(ms)
      BY <2>2, <1>4, <1>8
    <3> QED BY <3>1, <1>8, <1>9
  <2> QED BY <2>1, <2>2
<1>12. Len(w[e + 1]) - 1 = k
  BY <1>4
<1>13. Lined(t, p, Len(w[e + 1]) - 1)
  BY <1>10, <1>11, <1>12 DEF Lined
<1>14. e + 1 \in 1..n
  BY <1>1, <1>7
<1> QED BY <1>4, <1>13, <1>14 DEF AtStart, t, p, y

LEMMA ChunkFits ==
  ASSUME NEW s \in Seq(Sign), Paired(s), NEW w, Walks(w, s), NEW ms \in Seq(Message),
         NEW n \in 0..Len(s), NEW m \in 0..n, Fits(ms, w[Len(s)], Ended(w, s, m))
  PROVE  /\ Pieces(SubSeq(s, m + 1, n)) \in Seq(Chars \cup {Blank})
         /\ Fits(ms \o Pieces(SubSeq(s, m + 1, n)), w[Len(s)], Ended(w, s, n))
<1> DEFINE p == w[Len(s)]
           E(i) == Ended(w, s, i)
           buf == SubSeq(s, m + 1, n)
           L == Len(buf)
<1>1. buf \in Seq(Sign) /\ L \in Nat /\ Len(s) \in Nat /\ n \in Nat /\ m \in Nat
  OBVIOUS
<1>2. PICK v \in [0..L -> Split] :
        /\ v[0] = [sent |-> <<>>, rest |-> buf]
        /\ \A i \in 1..L : v[i] = Round(v[i - 1])
        /\ Pieces(buf) = v[L].sent
  BY <1>1, PiecesIs
<1>3. \A i \in 0..L : v[i] \in Split /\ v[i].sent \in Seq(Chars \cup {Blank}) /\ v[i].sent \in Seq(Message)
  <2>1. \A r \in Split : r.sent \in Seq(Chars \cup {Blank}) /\ r.sent \in Seq(Message)
    BY DEF Split, Message
  <2> QED BY <2>1
<1>4. \A a \in m..n : a \in 0..Len(s) /\ a \in 0..n /\ E(a) \in Nat /\ E(a) <= E(n) /\ E(n) \in Nat
  <2>1. \A a \in m..n : a \in 0..n
    BY <1>1
  <2> QED BY <2>1, EndedIs
<1> HIDE DEF buf, L, p, E
<1> DEFINE P(i) == \E a \in m..n : v[i].rest = SubSeq(s, a + 1, n) /\ Fits(ms \o v[i].sent, p, E(a))
           T == {i \in Nat : i <= L => P(i)}
<1>5. T \in SUBSET Nat /\ 0 \in T
  <2>1. v[0].rest = SubSeq(s, m + 1, n) /\ v[0].sent = <<>>
    BY <1>2 DEF buf
  <2>2. ms \o <<>> = ms
    OBVIOUS
  <2>3. m \in m..n /\ Fits(ms, p, E(m))
    BY <1>1 DEF p, E
  <2>4. P(0)
    BY <2>1, <2>2, <2>3
  <2> QED BY <2>4
<1>6. ASSUME NEW i \in T PROVE i + 1 \in T
  <2>1. i \in Nat /\ (i <= L => P(i))
    OBVIOUS
  <2> SUFFICES ASSUME i + 1 <= L PROVE P(i + 1)
    BY <2>1
  <2>2. i \in 0..L /\ i + 1 \in 1..L /\ (i + 1) - 1 = i
    BY <2>1, <1>1
  <2>3. PICK a \in m..n : v[i].rest = SubSeq(s, a + 1, n) /\ Fits(ms \o v[i].sent, p, E(a))
    BY <2>1, <2>2
  <2> DEFINE r == v[i]
  <2>4. r \in Split /\ v[i + 1] = Round(r) /\ r.sent \in Seq(Message)
    BY <1>2, <1>3, <2>2
  <2>5. a \in 0..n /\ r.rest = SubSeq(s, a + 1, n)
    BY <1>4, <2>3
  <2> HIDE DEF P, r
  <2>6. \/ Round(r) = r
        \/ \E e \in a + 1..n :
             /\ s[e] \in Delimiter /\ \A j \in a + 1..e - 1 : s[j] \notin Delimiter
             /\ SubSeq(s, a + 1, e - 1) \in Chars
             /\ Round(r) =
                  [sent |-> Append(r.sent, Piece(SubSeq(s, a + 1, e - 1))),
                   rest |-> SubSeq(s, (IF e = n THEN n ELSE e + 1) + 1, n)]
    <3>1. n \in 0..Len(s) /\ r \in Split
      BY <2>4
    <3>2. \/ Round(r) = r /\ \A j \in a + 1..n : s[j] \notin Delimiter
          \/ \E e \in a + 1..n :
               /\ s[e] \in Delimiter /\ \A j \in a + 1..e - 1 : s[j] \notin Delimiter
               /\ SubSeq(s, a + 1, e - 1) \in Chars
               /\ Round(r) =
                    [sent |-> Append(r.sent, Piece(SubSeq(s, a + 1, e - 1))),
                     rest |-> SubSeq(s, (IF e = n THEN n ELSE e + 1) + 1, n)]
      BY ONLY <2>5, <3>1, s \in Seq(Sign), RoundAt
    <3> QED BY <3>2
  <2>7. CASE Round(r) = r
    <3>1. v[i + 1] = v[i]
      BY <2>4, <2>7 DEF r
    <3> QED BY <3>1, <2>3 DEF P
  <2>8. ASSUME NEW e \in a + 1..n, NEW x \in Chars, x = SubSeq(s, a + 1, e - 1),
               s[e] \in Delimiter, Unbroken(s, a, e - 1),
               Round(r) = [sent |-> Append(r.sent, Piece(x)),
                           rest |-> SubSeq(s, (IF e = n THEN n ELSE e + 1) + 1, n)]
        PROVE  P(i + 1)
    <3> DEFINE q == IF e = n THEN n ELSE e + 1
               f == ms \o r.sent
               t == Append(f, Piece(x))
    <3>1. /\ e \in 1..Len(s) /\ a \in 0..e - 1 /\ q \in m..n /\ e \in m..n /\ e \in 0..q
          /\ q \in 0..Len(s)
      BY <1>1, <2>5
    <3>2. f \in Seq(Message) /\ Piece(x) \in Message
      <4>1. f \in Seq(Message)
        BY <2>4
      <4> QED BY <4>1 DEF Piece, Message
    <3>3. ms \o Append(r.sent, Piece(x)) = t
      BY ONLY <2>4, <3>2, ms \in Seq(Message), AppendJoin
    <3>4. Fits(f, p, E(a))
      BY <2>3 DEF r
    <3>5. Fits(t, p, E(e))
      <4> HIDE DEF f
      <4> QED BY <2>8, <3>1, <3>2, <3>4, PieceFits DEF p, E
    <3>6. E(e) \in Nat /\ E(q) \in Nat /\ E(e) <= E(q)
      <4> HIDE DEF q
      <4> QED BY <3>1, EndedIs DEF E
    <3>7. t \in Seq(Message) /\ Len(t) \in 0..Len(t) /\ t = SubSeq(t, 1, Len(t))
      <4>1. t \in Seq(Message)
        <5> HIDE DEF f
        <5> QED BY <3>2
      <4> HIDE DEF t
      <4> QED BY <4>1
    <3> HIDE DEF t, q, f
    <3>8. Fits(t, p, E(q))
      BY <3>5, <3>6, <3>7, FitsMore
    <3>9. v[i + 1].sent = Append(r.sent, Piece(x)) /\ v[i + 1].rest = SubSeq(s, q + 1, n)
      <4> DEFINE g == Append(r.sent, Piece(x))
                 h == SubSeq(s, q + 1, n)
      <4>1. v[i + 1] = [sent |-> g, rest |-> h]
        BY <2>4, <2>8 DEF q
      <4> HIDE DEF g, h
      <4>2. v[i + 1].sent = g /\ v[i + 1].rest = h
        BY <4>1
      <4> QED BY <4>2 DEF g, h
    <3> QED BY <3>1, <3>3, <3>8, <3>9 DEF P
  <2> QED BY <2>6, <2>7, <2>8 DEF Unbroken
<1>7. T = Nat
  <2> HIDE DEF T
  <2> QED BY <1>5, <1>6, NatUp
<1>8. P(L)
  <2> HIDE DEF P
  <2> QED BY <1>1, <1>7
<1>9. PICK a \in m..n : Fits(ms \o v[L].sent, p, E(a))
  BY <1>8
<1> DEFINE t == ms \o v[L].sent
<1>10. t \in Seq(Message) /\ Len(t) \in 0..Len(t) /\ t = SubSeq(t, 1, Len(t))
  <2>1. L \in 0..L
    BY <1>1
  <2>2. t \in Seq(Message)
    BY <1>3, <2>1
  <2> HIDE DEF t
  <2> QED BY <2>2
<1>11. Fits(t, p, E(n))
  <2>1. Fits(t, p, E(a))
    BY <1>9
  <2> HIDE DEF t
  <2> QED BY <2>1, <1>4, <1>10, FitsMore
<1>12. L \in 0..L
  BY <1>1
<1> QED BY <1>2, <1>3, <1>11, <1>12 DEF p, E, buf

LEMMA ChunkLined ==
  ASSUME NEW s \in Seq(Sign), Paired(s), NEW w, Walks(w, s), NEW ms \in Seq(Message),
         NEW n \in 0..Len(s), NEW m \in 0..n, AtStart(s, n), AtStart(s, m),
         Lined(ms, w[Len(s)], Len(w[m]) - 1)
  PROVE  Lined(ms \o Pieces(SubSeq(s, m + 1, n)), w[Len(s)], Len(w[n]) - 1)
<1> DEFINE p == w[Len(s)]
           E(i) == Len(w[i]) - 1
           buf == SubSeq(s, m + 1, n)
           L == Len(buf)
<1>1. buf \in Seq(Sign) /\ L \in Nat /\ Len(s) \in Nat /\ n \in Nat /\ m \in Nat /\ L = n - m
  <2>1. Len(s) \in Nat /\ n \in Nat /\ m \in Nat
    OBVIOUS
  <2>2. buf \in Seq(Sign) /\ L = n - m
    BY PartOf
  <2> QED BY <2>1, <2>2
<1>2. PICK v \in [0..L -> Split] :
        /\ v[0] = [sent |-> <<>>, rest |-> buf]
        /\ \A i \in 1..L : v[i] = Round(v[i - 1])
        /\ Pieces(buf) = v[L].sent
  BY <1>1, PiecesIs
<1>3. \A i \in 0..L : v[i] \in Split /\ v[i].sent \in Seq(Message)
  <2>1. \A r \in Split : r.sent \in Seq(Message)
    BY DEF Split, Message
  <2> QED BY <2>1
<1> HIDE DEF buf, L, p, E
<1> DEFINE P(i) == \E a \in m..n : /\ v[i].rest = SubSeq(s, a + 1, n) /\ AtStart(s, a)
                                   /\ Lined(ms \o v[i].sent, p, E(a))
                                   /\ a = n \/ (n - a) + i <= n - m
           T == {i \in Nat : i <= L => P(i)}
<1>4. T \in SUBSET Nat /\ 0 \in T
  <2>1. v[0].rest = SubSeq(s, m + 1, n) /\ v[0].sent = <<>>
    BY <1>2 DEF buf
  <2>2. ms \o <<>> = ms
    OBVIOUS
  <2>3. m \in m..n /\ Lined(ms, p, E(m)) /\ (n - m) + 0 <= n - m
    BY <1>1 DEF p, E
  <2>4. P(0)
    BY <2>1, <2>2, <2>3
  <2> QED BY <2>4
<1>5. ASSUME NEW i \in T PROVE i + 1 \in T
  <2>1. i \in Nat /\ (i <= L => P(i))
    OBVIOUS
  <2> SUFFICES ASSUME i + 1 <= L PROVE P(i + 1)
    BY <2>1
  <2>2. i \in 0..L /\ i + 1 \in 1..L /\ (i + 1) - 1 = i
    BY <2>1, <1>1
  <2>3. PICK a \in m..n : /\ v[i].rest = SubSeq(s, a + 1, n) /\ AtStart(s, a)
                          /\ Lined(ms \o v[i].sent, p, E(a))
                          /\ a = n \/ (n - a) + i <= n - m
    BY <2>1, <2>2
  <2> DEFINE r == v[i]
  <2>4. r \in Split /\ v[i + 1] = Round(r) /\ r.sent \in Seq(Message)
    BY <1>2, <1>3, <2>2
  <2>5. a \in 0..n /\ r.rest = SubSeq(s, a + 1, n) /\ a \in Nat
    BY <1>1, <2>3
  <2> HIDE DEF P, r
  <2>6. \/ Round(r) = r /\ \A j \in a + 1..n : s[j] \notin Delimiter
        \/ \E e \in a + 1..n :
             /\ s[e] \in Delimiter /\ \A j \in a + 1..e - 1 : s[j] \notin Delimiter
             /\ SubSeq(s, a + 1, e - 1) \in Chars
             /\ Round(r) =
                  [sent |-> Append(r.sent, Piece(SubSeq(s, a + 1, e - 1))),
                   rest |-> SubSeq(s, (IF e = n THEN n ELSE e + 1) + 1, n)]
    <3>1. n \in 0..Len(s) /\ r \in Split
      BY <2>4
    <3> QED BY ONLY <2>5, <3>1, s \in Seq(Sign), RoundAt
  <2>7. ASSUME Round(r) = r, \A j \in a + 1..n : s[j] \notin Delimiter PROVE P(i + 1)
    <3>1. a = n
      <4>1. a # n => n \in a + 1..n /\ n # 0
        BY <2>5, <1>1
      <4>2. n # 0 => s[n] \in Delimiter
        BY DEF AtStart, Delimiter
      <4> QED BY <4>1, <4>2, <2>7
    <3>2. v[i + 1] = v[i]
      BY <2>4, <2>7 DEF r
    <3> QED BY <3>1, <3>2, <2>3 DEF P
  <2>8. ASSUME NEW e \in a + 1..n, NEW x \in Chars, x = SubSeq(s, a + 1, e - 1),
               s[e] \in Delimiter, Unbroken(s, a, e - 1),
               Round(r) = [sent |-> Append(r.sent, Piece(x)),
                           rest |-> SubSeq(s, (IF e = n THEN n ELSE e + 1) + 1, n)]
        PROVE  P(i + 1)
    <3> DEFINE f == ms \o r.sent
               t == Append(f, Piece(x))
    <3>1. e \in 1..n /\ a \in 0..e - 1 /\ e \in Nat /\ a # n
      BY <1>1, <2>5
    <3>2. f \in Seq(Message) /\ Piece(x) \in Message
      <4>1. f \in Seq(Message)
        BY <2>4
      <4> QED BY <4>1 DEF Piece, Message
    <3>3. ms \o Append(r.sent, Piece(x)) = t
      BY ONLY <2>4, <3>2, ms \in Seq(Message), AppendJoin
    <3>4. Lined(f, p, E(a))
      BY <2>3 DEF r
    <3>5. e + 1 \in 1..n /\ AtStart(s, e + 1) /\ Lined(t, p, E(e + 1))
      <4> HIDE DEF f
      <4> DEFINE y == Append(f, Piece(x))
      <4>1. Lined(f, w[Len(s)], Len(w[a]) - 1) /\ AtStart(s, a) /\ AtStart(s, n) /\ n \in 0..Len(s)
        BY <2>3, <3>4 DEF p, E
      <4>2. s[e] \in Delimiter /\ Unbroken(s, a, e - 1) /\ x \in Chars /\ x = SubSeq(s, a + 1, e - 1)
        BY <2>8
      <4>3. e + 1 \in 1..n /\ AtStart(s, e + 1) /\ Lined(y, w[Len(s)], Len(w[e + 1]) - 1)
        BY ONLY <3>1, <3>2, <4>1, <4>2, s \in Seq(Sign), Paired(s), Walks(w, s), PieceLined
      <4> QED BY <4>3 DEF p, E
    <3> HIDE DEF t, f
    <3>6. e # n /\ e + 1 \in m..n /\ (n - (e + 1)) + (i + 1) <= n - m
      <4>1. (n - a) + i <= n - m
        BY <2>3, <3>1
      <4> QED BY <4>1, <3>1, <3>5, <1>1, <2>1, <2>5
    <3>7. v[i + 1].sent = Append(r.sent, Piece(x)) /\ v[i + 1].rest = SubSeq(s, (e + 1) + 1, n)
      <4> DEFINE g == Append(r.sent, Piece(x))
                 h == SubSeq(s, (e + 1) + 1, n)
      <4>1. v[i + 1] = [sent |-> g, rest |-> h]
        BY <2>4, <2>8, <3>6
      <4> HIDE DEF g, h
      <4>2. v[i + 1].sent = g /\ v[i + 1].rest = h
        BY <4>1
      <4> QED BY <4>2 DEF g, h
    <3> DEFINE b == e + 1
    <3>8. b \in m..n /\ v[i + 1].rest = SubSeq(s, b + 1, n) /\ AtStart(s, b)
          /\ Lined(ms \o v[i + 1].sent, p, E(b)) /\ (n - b) + (i + 1) <= n - m
      BY <3>3, <3>5, <3>6, <3>7
    <3> HIDE DEF b
    <3> QED BY <3>8 DEF P
  <2> QED BY <2>6, <2>7, <2>8 DEF Unbroken
<1>6. T = Nat
  <2> HIDE DEF T
  <2> QED BY <1>4, <1>5, NatUp
<1>7. P(L)
  <2> HIDE DEF P
  <2> QED BY <1>1, <1>6
<1>8. PICK a \in m..n : Lined(ms \o v[L].sent, p, E(a)) /\ (a = n \/ (n - a) + L <= n - m)
  BY <1>7
<1>9. a = n
  BY <1>1, <1>8
<1> QED BY <1>2, <1>8, <1>9 DEF p, E, buf

-----------------------------------------------------------------------------
(* What the terminal shows, and what dntask prints *)

LEMMA PairedJoin ==
  ASSUME NEW a \in Seq(Sign), NEW b \in Seq(Sign), Paired(a), Paired(b)
  PROVE  a \o b \in Seq(Sign) /\ Paired(a \o b)
<1> DEFINE c == a \o b
           m == Len(a)
           n == Len(b)
<1>1. /\ m \in Nat /\ n \in Nat /\ c \in Seq(Sign) /\ Len(c) = m + n
      /\ \A i \in 1..m : c[i] = a[i]
      /\ \A i \in 1..n : c[m + i] = b[i]
  OBVIOUS
<1>2. /\ \A i \in 1..m : /\ a[i] = "CR" => i + 1 \in 1..m /\ a[i + 1] = "LF"
                         /\ a[i] = "LF" => i - 1 \in 1..m /\ a[i - 1] = "CR"
      /\ \A i \in 1..n : /\ b[i] = "CR" => i + 1 \in 1..n /\ b[i + 1] = "LF"
                         /\ b[i] = "LF" => i - 1 \in 1..n /\ b[i - 1] = "CR"
  BY DEF Paired
<1> HIDE DEF c, m, n
<1>3. ASSUME NEW i \in 1..m + n
      PROVE  /\ c[i] = "CR" => i + 1 \in 1..m + n /\ c[i + 1] = "LF"
             /\ c[i] = "LF" => i - 1 \in 1..m + n /\ c[i - 1] = "CR"
  <2>1. CASE i \in 1..m
    <3>1. c[i] = a[i] /\ \A j \in 1..m : j \in 1..m + n /\ c[j] = a[j]
      BY <2>1, <1>1
    <3> QED BY <3>1, <2>1, <1>2
  <2>2. CASE i \notin 1..m
    <3> DEFINE k == i - m
    <3>1. k \in 1..n /\ m + k = i
      BY <2>2, <1>1
    <3>2. m + (k + 1) = i + 1 /\ m + (k - 1) = i - 1
      BY <3>1, <1>1
    <3>3. \A j \in 1..n : m + j \in 1..m + n /\ c[m + j] = b[j]
      BY <1>1
    <3> HIDE DEF k
    <3>4. c[i] = b[k]
      BY <3>1, <3>3
    <3>5. c[i] = "CR" => i + 1 \in 1..m + n /\ c[i + 1] = "LF"
      BY <3>1, <3>2, <3>3, <3>4, <1>2
    <3>6. c[i] = "LF" => i - 1 \in 1..m + n /\ c[i - 1] = "CR"
      BY <3>1, <3>2, <3>3, <3>4, <1>2
    <3> QED BY <3>5, <3>6
  <2> QED BY <2>1, <2>2
<1> QED BY <1>1, <1>3 DEF Paired, c

LEMMA ShowsPairs ==
  ASSUME NEW chars \in Seq(Character)
  PROVE  Shown(chars) \in Seq(Sign) /\ Paired(Shown(chars))
<1> DEFINE D == {x \in Seq(Sign) : Paired(x)}
           L == Len(chars)
           f == [n \in 1..L |-> [x \in D |-> x \o Glyph(chars[n])]]
           a == <<>>
<1>1. L \in Nat /\ \A n \in 1..L : chars[n] \in Character
  OBVIOUS
<1>2. \A c \in Character : Glyph(c) \in Seq(Sign) /\ Paired(Glyph(c))
  <2> SUFFICES ASSUME NEW c \in Character PROVE Glyph(c) \in Seq(Sign) /\ Paired(Glyph(c))
    OBVIOUS
  <2>1. CASE c = "LF"
    <3> DEFINE g == <<"CR", "LF">>
    <3>1. Glyph(c) = g
      BY <2>1 DEF Glyph
    <3>2. "CR" \in Sign /\ "LF" \in Sign
      BY <2>1 DEF Sign
    <3>3. g \in Seq(Sign) /\ Len(g) = 2 /\ g[1] = "CR" /\ g[2] = "LF"
      BY <3>2
    <3> HIDE DEF g
    <3>4. \A i \in 1..Len(g) : i = 1 \/ i = 2
      BY <3>3
    <3>5. 1 + 1 \in 1..Len(g) /\ 2 - 1 \in 1..Len(g) /\ 1 + 1 = 2 /\ 2 - 1 = 1
      BY <3>3
    <3>6. Paired(g)
      BY <3>3, <3>4, <3>5 DEF Paired
    <3> QED BY <3>1, <3>3, <3>6
  <2>2. CASE c # "LF"
    <3> DEFINE g == <<c>>
    <3>1. Glyph(c) = g
      BY <2>2 DEF Glyph
    <3>2. c \in Sign /\ c # "CR"
      BY DEF Sign, Character
    <3>3. g \in Seq(Sign) /\ Len(g) = 1 /\ g[1] = c
      BY <3>2
    <3> HIDE DEF g
    <3>4. \A i \in 1..Len(g) : i = 1
      BY <3>3
    <3>5. Paired(g)
      BY <2>2, <3>2, <3>3, <3>4 DEF Paired
    <3> QED BY <3>1, <3>3, <3>5
  <2> QED BY <2>1, <2>2
<1>3. \A x \in D, c \in Character : x \o Glyph(c) \in D
  BY <1>2, PairedJoin
<1>4. a \in D
  BY DEF Paired
<1> HIDE DEF D
<1>5. f \in [1..L -> [D -> D]]
  <2>1. ASSUME NEW n \in 1..L PROVE [x \in D |-> x \o Glyph(chars[n])] \in [D -> D]
    BY <1>1, <1>3
  <2> QED BY <2>1
<1>6. PICK w \in [0..L -> D] : w[0] = a /\ \A n \in 1..L : w[n] = f[n][w[n - 1]]
  <2>1. L \in Nat /\ f \in [1..L -> [D -> D]] /\ a \in D
    BY <1>1, <1>4, <1>5
  <2> HIDE DEF f, L, a
  <2>2. \E w : Runs(w, D, L, f, a)
    BY ONLY <2>1, Recursion
  <2> QED BY ONLY <2>2 DEF Runs
<1>7. \A n \in 1..L : w[n] = w[n - 1] \o Glyph(chars[n])
  <2> SUFFICES ASSUME NEW n \in 1..L PROVE w[n] = w[n - 1] \o Glyph(chars[n])
    OBVIOUS
  <2>1. w[n - 1] \in D
    BY <1>1
  <2> QED BY <2>1, <1>6
<1> DEFINE Has(g) == g = [n \in 0..L |-> IF n = 0 THEN <<>> ELSE g[n - 1] \o Glyph(chars[n])]
           upto == CHOOSE g : Has(g)
<1>8. Has(w)
  <2>1. w = [n \in 0..L |-> w[n]]
    OBVIOUS
  <2>2. \A n \in 0..L : n = 0 \/ n \in 1..L
    BY <1>1
  <2> QED BY <2>1, <2>2, <1>6, <1>7
<1>9. Has(upto)
  <2> HIDE DEF Has
  <2> QED BY <1>8
<1>10. upto[0] = w[0] /\ \A n \in 1..L : upto[n] = upto[n - 1] \o Glyph(chars[n])
  <2> HIDE DEF upto
  <2>1. 0 \in 0..L /\ \A n \in 1..L : n \in 0..L /\ n # 0
    BY <1>1
  <2> QED BY <1>6, <1>9, <2>1
<1>11. upto[L] = w[L]
  <2>1. upto[0] = w[0] /\ \A n \in 1..L : upto[n - 1] = w[n - 1] => upto[n] = w[n]
    BY <1>7, <1>10
  <2> HIDE DEF upto, L
  <2> QED BY ONLY <1>1, <2>1, Agree
<1>12. Shown(chars) = upto[L]
  BY DEF Shown
<1>13. w[L] \in D
  BY <1>1, <1>6
<1> QED BY <1>11, <1>12, <1>13 DEF D

NextAt(p, a, m) ==
  LET later == {i \in a + 1..Len(p) : EndsIn(p[i], m)}
  IN  IF m \in {Blank, Flush} THEN a
      ELSE IF later = {} THEN Len(p) + 1
      ELSE CHOOSE i \in later : \A j \in later : i <= j

LEMMA NextAtIs ==
  ASSUME NEW p, Len(p) \in Nat, NEW a \in Nat, NEW m
  PROVE  /\ NextAt(p, a, m) \in Nat
         /\ m \in {Blank, Flush} => NextAt(p, a, m) = a
         /\ m \notin {Blank, Flush} =>
              \A i \in a + 1..Len(p) : EndsIn(p[i], m) => NextAt(p, a, m) <= i
<1> DEFINE later == {i \in a + 1..Len(p) : EndsIn(p[i], m)}
           c == CHOOSE i \in later : \A j \in later : i <= j
<1>1. NextAt(p, a, m) = IF m \in {Blank, Flush} THEN a
                        ELSE IF later = {} THEN Len(p) + 1 ELSE c
  BY DEF NextAt
<1>2. later \in SUBSET Nat
  OBVIOUS
<1>3. later # {} => c \in later /\ \A j \in later : c <= j
  <2> HIDE DEF later
  <2>1. later # {} => \E x \in later : \A y \in later : x <= y
    BY <1>2, NatLeast
  <2> QED BY <2>1
<1>4. \A i \in a + 1..Len(p) : EndsIn(p[i], m) => i \in later
  OBVIOUS
<1> HIDE DEF later, c
<1>5. NextAt(p, a, m) \in Nat
  <2>1. later # {} => c \in Nat
    BY <1>2, <1>3
  <2>2. Len(p) + 1 \in Nat
    OBVIOUS
  <2> QED BY <1>1, <2>1, <2>2
<1> QED BY <1>1, <1>3, <1>4, <1>5

LEMMA ThroughFits ==
  ASSUME NEW ms \in Seq(Message), NEW p \in Page, NEW k \in Nat, k <= Len(p), Fits(ms, p, k)
  PROVE  Through(ms, p) <= Len(p)
<1> DEFINE L == Len(ms)
           f == [n \in 1..L |-> [x \in Nat |-> NextAt(p, x, ms[n])]]
<1>1. L \in Nat /\ Len(p) \in Nat
  BY DEF Page
<1>2. f \in [1..L -> [Nat -> Nat]]
  BY <1>1, NextAtIs
<1>3. PICK w \in [0..L -> Nat] : w[0] = 0 /\ \A n \in 1..L : w[n] = f[n][w[n - 1]]
  <2> DEFINE D == Nat
             a == 0
  <2>1. L \in Nat /\ f \in [1..L -> [D -> D]] /\ a \in D
    BY <1>1, <1>2
  <2> HIDE DEF f, L, D, a
  <2>2. \E w : Runs(w, D, L, f, a)
    BY ONLY <2>1, Recursion
  <2> QED BY ONLY <2>2 DEF Runs, D, a
<1>4. \A n \in 1..L : w[n] = NextAt(p, w[n - 1], ms[n]) /\ w[n - 1] \in Nat
  <2> SUFFICES ASSUME NEW n \in 1..L PROVE w[n] = NextAt(p, w[n - 1], ms[n]) /\ w[n - 1] \in Nat
    OBVIOUS
  <2>1. w[n - 1] \in Nat
    BY <1>1
  <2> QED BY <2>1, <1>3
<1> DEFINE Is(at) == at = [n \in 0..L |->
             IF n = 0 THEN 0
             ELSE LET later == {i \in at[n - 1] + 1..Len(p) : EndsIn(p[i], ms[n])}
                  IN  IF ms[n] \in {Blank, Flush} THEN at[n - 1]
                      ELSE IF later = {} THEN Len(p) + 1
                      ELSE CHOOSE i \in later : \A j \in later : i <= j]
           Has(at) == at = [n \in 0..L |-> IF n = 0 THEN 0 ELSE NextAt(p, at[n - 1], ms[n])]
           v == CHOOSE at : Is(at)
<1>5. \A at : Is(at) <=> Has(at)
  BY DEF NextAt
<1>6. Has(w)
  <2>1. w = [n \in 0..L |-> w[n]]
    OBVIOUS
  <2>2. \A n \in 0..L : n = 0 \/ n \in 1..L
    BY <1>1
  <2> QED BY <2>1, <2>2, <1>3, <1>4
<1>7. Has(v)
  <2> HIDE DEF Is, Has
  <2> QED BY <1>5, <1>6
<1>8. v[0] = w[0] /\ \A n \in 1..L : v[n] = NextAt(p, v[n - 1], ms[n])
  <2> HIDE DEF v
  <2>1. 0 \in 0..L /\ \A n \in 1..L : n \in 0..L /\ n # 0
    BY <1>1
  <2> QED BY <1>3, <1>7, <2>1
<1>9. v[L] = w[L]
  <2>1. v[0] = w[0] /\ \A n \in 1..L : v[n - 1] = w[n - 1] => v[n] = w[n]
    BY <1>4, <1>8
  <2> HIDE DEF v, L
  <2> QED BY ONLY <1>1, <2>1, Agree
<1>10. Through(ms, p) = v[L]
  BY DEF Through
<1> HIDE DEF v, f, Is, Has
<1>11. PICK g \in [0..L -> 0..k] :
        \A i \in 1..L :
          /\ g[i - 1] <= g[i]
          /\ ms[i] \in {Blank, Flush} \/ (g[i - 1] < g[i] /\ EndsIn(p[g[i]], ms[i]))
  BY DEF Fits
<1> DEFINE T == {i \in Nat : i <= L => w[i] <= g[i]}
<1>12. T \in SUBSET Nat /\ 0 \in T
  <2>1. g[0] \in 0..k
    BY <1>1
  <2> QED BY <2>1, <1>3
<1>13. ASSUME NEW i \in T PROVE i + 1 \in T
  <2>1. i \in Nat /\ (i <= L => w[i] <= g[i])
    OBVIOUS
  <2> SUFFICES ASSUME i + 1 <= L PROVE w[i + 1] <= g[i + 1]
    BY <2>1
  <2> DEFINE j == i + 1
  <2>2. j \in 1..L /\ i \in 0..L /\ j - 1 = i /\ w[i] <= g[i] /\ j \in 0..L
    BY <2>1, <1>1
  <2> HIDE DEF j
  <2>3. w[j] = NextAt(p, w[i], ms[j]) /\ w[i] \in Nat /\ g[i] \in 0..k /\ g[j] \in 0..k
    BY <2>2, <1>4
  <2>4. /\ g[i] <= g[j]
        /\ ms[j] \in {Blank, Flush} \/ (g[i] < g[j] /\ EndsIn(p[g[j]], ms[j]))
    BY <2>2, <1>11
  <2>5. CASE ms[j] \in {Blank, Flush}
    <3>1. w[j] = w[i]
      BY <2>3, <2>5, <1>1, NextAtIs
    <3> QED BY <3>1, <2>2, <2>3, <2>4 DEF j
  <2>6. CASE ms[j] \notin {Blank, Flush}
    <3>1. g[j] \in w[i] + 1..Len(p) /\ EndsIn(p[g[j]], ms[j])
      BY <2>2, <2>3, <2>4, <2>6, <1>1
    <3>2. w[j] <= g[j]
      BY <3>1, <2>3, <2>6, <1>1, NextAtIs
    <3> QED BY <3>2 DEF j
  <2> QED BY <2>5, <2>6
<1>14. T = Nat
  <2> HIDE DEF T
  <2> QED BY <1>12, <1>13, NatUp
<1>15. w[L] <= g[L] /\ g[L] \in 0..k /\ w[L] \in Nat
  <2>1. L \in T /\ L \in 0..L
    BY <1>1, <1>14
  <2> QED BY <2>1, <1>1
<1> QED BY <1>1, <1>9, <1>10, <1>15

-----------------------------------------------------------------------------
(***************************************************************************)
(* Where copy is: n characters of what was shown have been read, and ms    *)
(* are the messages that were sent for them and have not been lost.        *)
(***************************************************************************)
Begun(ms, p, j) ==
  \A i \in 1..Len(ms) : IF ms[i] = Flush THEN i = Len(ms) ELSE i <= j /\ ms[i] = Piece(p[i])
NoFlush(ms) == \A i \in 1..Len(ms) : ms[i] # Flush
\* w is the walk over what was shown, s.
Reading(c, ms, up, s, w, n) ==
  /\ Fits(ms, w[Len(s)], Ended(w, s, n))
  /\ ~c.split => AtStart(s, n) /\ Begun(ms, w[Len(s)], Len(w[n]) - 1)
  /\ (~c.split /\ c.st = "run" /\ up) => Lined(ms, w[Len(s)], Len(w[n]) - 1)
  /\ c.st = "run" => NoFlush(ms)
Spot(c, ms, up, out, s) ==
  /\ Paired(s)
  /\ \E w : /\ Walks(w, s) /\ Lines(s) = w[Len(s)]
            /\ \E n \in 0..Len(s) : out = SubSeq(s, n + 1, Len(s)) /\ Reading(c, ms, up, s, w, n)

LEMMA SpotNone ==
  ASSUME NEW c, c.split = FALSE, NEW up
  PROVE  Spot(c, <<>>, up, <<>>, <<>>)
<1> DEFINE s == <<>>
<1>1. /\ s \in Seq(Sign) /\ Len(s) = 0 /\ 0 \in 0..Len(s) /\ s = SubSeq(s, 0 + 1, Len(s))
      /\ 1..Len(s) = {}
  OBVIOUS
<1> HIDE DEF s
<1>2. Paired(s)
  BY <1>1 DEF Paired
<1>3. PICK w : Walks(w, s) /\ Lines(s) = w[Len(s)]
  BY <1>1, LinesIs
<1>4. Ended(w, s, 0) \in Nat
  BY <1>1, <1>2, <1>3, EndedIs
<1>5. Len(w[0]) - 1 = 0
  <2>1. w[0] = <<<<>>>>
    BY <1>3 DEF Walks
  <2> QED BY <2>1
<1>6. Fits(s, w[Len(s)], Ended(w, s, 0))
  BY <1>4, FitsNone DEF s
<1>7. Begun(s, w[Len(s)], Len(w[0]) - 1) /\ Lined(s, w[Len(s)], Len(w[0]) - 1) /\ NoFlush(s)
  <2>1. 1..0 = {}
    OBVIOUS
  <2> QED BY <2>1, <1>1, <1>5 DEF Begun, Lined, NoFlush
<1>8. Reading(c, s, up, s, w, 0)
  BY <1>6, <1>7 DEF Reading, AtStart
<1> QED BY <1>1, <1>2, <1>3, <1>8 DEF Spot, s

LEMMA FitsPart ==
  ASSUME NEW ms \in Seq(Message), NEW n \in 0..Len(ms), NEW r \in Seq(Message),
         r = SubSeq(ms, 1, n), NEW p, NEW k \in Nat, Fits(ms, p, k)
  PROVE  Fits(r, p, k)
<1>1. PICK q : q = p
  OBVIOUS
<1>2. /\ Len(r) = n /\ Len(ms) \in Nat /\ n \in Nat /\ \A j \in 1..n : r[j] = ms[j]
  OBVIOUS
<1>3. k <= k /\ \A i \in 1..k : q[i] = p[i]
  BY <1>1
<1>4. Fits(r, q, k)
  BY ONLY <1>2, <1>3, FitsMore, ms \in Seq(Message), n \in 0..Len(ms), r \in Seq(Message),
          r = SubSeq(ms, 1, n), k \in Nat, Fits(ms, p, k)
<1> QED BY <1>1, <1>4

\* Of messages some may be lost, the last ones, and then the link is gone.
LEMMA SpotLess ==
  ASSUME NEW c, NEW ms \in Seq(Message), NEW up, NEW out, NEW s \in Seq(Sign),
         Spot(c, ms, up, out, s), NEW i \in 0..Len(ms), NEW r, r = SubSeq(ms, 1, i),
         NEW u, u => up /\ r = ms
  PROVE  Spot(c, r, u, out, s)
<1>a. PICK w : /\ Paired(s) /\ Walks(w, s) /\ Lines(s) = w[Len(s)]
                /\ \E n \in 0..Len(s) : /\ out = SubSeq(s, n + 1, Len(s))
                                       /\ Reading(c, ms, up, s, w, n)
  BY DEF Spot
<1>b. PICK n \in 0..Len(s) : out = SubSeq(s, n + 1, Len(s)) /\ Reading(c, ms, up, s, w, n)
  BY <1>a
<1>1. /\ Paired(s) /\ Walks(w, s) /\ Lines(s) = w[Len(s)]
      /\ out = SubSeq(s, n + 1, Len(s)) /\ Reading(c, ms, up, s, w, n)
  BY <1>a, <1>b
<1>2. /\ r \in Seq(Message) /\ Len(r) = i /\ Len(ms) \in Nat /\ i \in Nat
      /\ \A j \in 1..i : r[j] = ms[j]
  OBVIOUS
<1> DEFINE p == w[Len(s)]
           k == Ended(w, s, n)
           l == Len(w[n]) - 1
<1>3. k \in Nat /\ k <= k
  <2>1. 0 \in 0..n
    OBVIOUS
  <2> QED BY <1>1, <2>1, EndedIs
<1>4. /\ Fits(ms, p, k)
      /\ ~c.split => AtStart(s, n) /\ Begun(ms, p, l)
      /\ (~c.split /\ c.st = "run" /\ up) => Lined(ms, p, l)
      /\ c.st = "run" => NoFlush(ms)
  BY <1>1 DEF Reading
<1> HIDE DEF p, k, l
<1>5. Fits(r, p, k)
  <2>1. Fits(ms, p, k) /\ \A j \in 1..k : p[j] = p[j]
    BY <1>4
  <2> QED BY ONLY <2>1, <1>2, <1>3, ms \in Seq(Message), i \in 0..Len(ms), r = SubSeq(ms, 1, i),
             FitsMore
<1>6. Begun(ms, p, l) => Begun(r, p, l)
  <2> SUFFICES ASSUME Begun(ms, p, l), NEW j \in 1..Len(r)
               PROVE  IF r[j] = Flush THEN j = Len(r) ELSE j <= l /\ r[j] = Piece(p[j])
    BY DEF Begun
  <2>1. j \in 1..i /\ j \in 1..Len(ms)
    BY <1>2
  <2>2. r[j] = ms[j] /\ (j = Len(ms) => j = Len(r))
    BY <1>2, <2>1
  <2> QED BY <2>1, <2>2 DEF Begun
<1>7. NoFlush(ms) => NoFlush(r)
  <2>1. \A j \in 1..Len(r) : j \in 1..Len(ms) /\ r[j] = ms[j]
    BY <1>2
  <2> QED BY <2>1 DEF NoFlush
<1>8. (~c.split /\ c.st = "run" /\ u) => Lined(r, p, l)
  BY <1>4
<1>9. Reading(c, r, u, s, w, n)
  BY <1>4, <1>5, <1>6, <1>7, <1>8 DEF Reading, p, k, l
<1> QED BY <1>1, <1>9 DEF Spot

\* More is shown.
LEMMA SpotShow ==
  ASSUME NEW c, NEW ms \in Seq(Message), NEW up, NEW out, NEW s \in Seq(Sign),
         Spot(c, ms, up, out, s), NEW u \in Seq(Sign), Paired(u)
  PROVE  /\ out \o u \in Seq(Sign) /\ s \o u \in Seq(Sign)
         /\ Spot(c, ms, up, out \o u, s \o u)
<1>a. PICK v : /\ Paired(s) /\ Walks(v, s) /\ Lines(s) = v[Len(s)]
                /\ \E n \in 0..Len(s) : /\ out = SubSeq(s, n + 1, Len(s))
                                       /\ Reading(c, ms, up, s, v, n)
  BY DEF Spot
<1>b. PICK n \in 0..Len(s) : out = SubSeq(s, n + 1, Len(s)) /\ Reading(c, ms, up, s, v, n)
  BY <1>a
<1>1. /\ Paired(s) /\ Walks(v, s) /\ Lines(s) = v[Len(s)]
      /\ out = SubSeq(s, n + 1, Len(s)) /\ Reading(c, ms, up, s, v, n)
  BY <1>a, <1>b
<1> DEFINE t == s \o u
           x == out \o u
<1>2. /\ t \in Seq(Sign) /\ Paired(t) /\ Len(s) \in Nat /\ Len(u) \in Nat /\ n \in Nat
      /\ Len(t) = Len(s) + Len(u)
      /\ \A i \in 1..Len(s) : t[i] = s[i]
      /\ \A i \in 1..Len(u) : t[Len(s) + i] = u[i]
  BY <1>1, PairedJoin
<1>3. x \in Seq(Sign) /\ x = SubSeq(t, n + 1, Len(t))
  <2> DEFINE z == SubSeq(t, n + 1, Len(t))
             b == Len(t)
  <2>1. /\ out \in Seq(Sign) /\ Len(out) = Len(s) - n
        /\ \A i \in 1..Len(s) - n : out[i] = s[n + i]
    <3> DEFINE a == Len(s)
               g == SubSeq(s, n + 1, a)
    <3>1. a \in 0..Len(s) /\ n \in 0..a /\ out = g
      BY <1>1, <1>2
    <3> HIDE DEF a
    <3>2. g \in Seq(Sign) /\ Len(g) = a - n /\ \A i \in 1..a - n : g[i] = s[n + i]
      BY ONLY <3>1, s \in Seq(Sign), PartOf
    <3> HIDE DEF g
    <3> QED BY <3>1, <3>2 DEF a
  <2>2. z \in Seq(Sign) /\ Len(z) = Len(t) - n /\ \A i \in 1..Len(t) - n : z[i] = t[n + i]
    <3>1. t \in Seq(Sign) /\ b \in 0..Len(t) /\ n \in 0..b
      BY <1>2
    <3> HIDE DEF t, b
    <3> DEFINE g == SubSeq(t, n + 1, b)
    <3>2. g \in Seq(Sign) /\ Len(g) = b - n /\ \A i \in 1..b - n : g[i] = t[n + i]
      BY ONLY <3>1, PartOf
    <3> QED BY <3>2 DEF b
  <2>3. /\ x \in Seq(Sign) /\ Len(x) = Len(out) + Len(u)
        /\ \A i \in 1..Len(out) : x[i] = out[i]
        /\ \A i \in 1..Len(u) : x[Len(out) + i] = u[i]
    <3>1. out \in Seq(Sign) /\ u \in Seq(Sign)
      BY <2>1
    <3> QED BY ONLY <3>1
  <2> HIDE DEF x, z, t
  <2>4. Len(x) = Len(z)
    BY <1>2, <2>1, <2>2, <2>3
  <2>5. ASSUME NEW i \in 1..Len(x) PROVE x[i] = z[i]
    <3>1. i \in 1..Len(t) - n /\ z[i] = t[n + i]
      BY <2>2, <2>4
    <3>2. CASE i \in 1..Len(out)
      <4>1. i \in 1..Len(s) - n /\ n + i \in 1..Len(s)
        BY <3>2, <2>1, <1>2
      <4> QED BY <4>1, <3>1, <3>2, <2>1, <2>3, <1>2
    <3>3. CASE i \notin 1..Len(out)
      <4> DEFINE j == i - Len(out)
      <4>1. j \in 1..Len(u) /\ Len(out) + j = i /\ Len(s) + j = n + i
        BY <3>3, <2>1, <2>3, <1>2
      <4> HIDE DEF j
      <4>2. x[Len(out) + j] = u[j] /\ t[Len(s) + j] = u[j]
        BY <4>1, <2>3, <1>2
      <4> QED BY <4>1, <4>2, <3>1
    <3> QED BY <3>2, <3>3
  <2>6. x = z
    BY <2>2, <2>3, <2>4, <2>5, SameSeq
  <2> QED BY <2>3, <2>6 DEF z
<1>4. PICK w : Walks(w, t) /\ Lines(t) = w[Len(t)] /\ \A i \in 0..Len(s) : w[i] = v[i]
  BY <1>1, WalkOn
<1> DEFINE p == v[Len(s)]
           q == w[Len(t)]
           k == Ended(v, s, n)
           l == Len(v[n]) - 1
<1>5. /\ k \in Nat /\ k <= Len(p) - 1 /\ l <= Len(p) - 1 /\ l \in Nat /\ Len(p) \in Nat
  <2>1. 0 \in 0..n /\ n \in 0..Len(s) /\ Len(s) \in 0..Len(s) /\ n <= Len(s)
    BY <1>2
  <2>2. Len(v[n]) <= Len(p) /\ Len(v[n]) \in Nat \ {0} /\ Len(p) \in Nat
    BY <1>1, <2>1, WalkUp
  <2>3. k \in Nat /\ k <= Len(p) - 1
    BY <1>1, <2>1, EndedIs
  <2> QED BY <2>2, <2>3
<1>6. \A i \in 1..Len(p) - 1 : q[i] = p[i]
  <2> DEFINE a == Len(s)
             b == Len(t)
  <2>1. a \in 0..Len(t) /\ b \in 0..Len(t) /\ a <= b /\ w[a] = p
    BY <1>2, <1>4
  <2>0. t \in Seq(Sign) /\ Walks(w, t)
    BY <1>2, <1>4
  <2> HIDE DEF a, b, t
  <2>2. \A i \in 1..Len(w[a]) - 1 : w[b][i] = w[a][i]
    BY ONLY <2>0, <2>1, WalkUp
  <2> QED BY <2>1, <2>2 DEF b
<1>7. Ended(w, t, n) = k /\ Len(w[n]) - 1 = l /\ (AtStart(s, n) => AtStart(t, n))
  <2>1. w[n] = v[n] /\ (n # 0 => n \in 1..Len(s))
    BY <1>2, <1>4
  <2>2. n # 0 => t[n] = s[n]
    BY <2>1, <1>2
  <2> HIDE DEF t
  <2> QED BY <2>1, <2>2 DEF Ended, AtStart
<1>8. /\ Fits(ms, p, k)
      /\ ~c.split => AtStart(s, n) /\ Begun(ms, p, l)
      /\ (~c.split /\ c.st = "run" /\ up) => Lined(ms, p, l)
      /\ c.st = "run" => NoFlush(ms)
  BY <1>1 DEF Reading
<1>9. n \in 0..Len(t)
  BY <1>2
<1> HIDE DEF p, q, k, l, t, x
<1>10. Fits(ms, q, k)
  <2>1. \A i \in 1..k : i \in 1..Len(p) - 1
    BY <1>5
  <2>2. \A i \in 1..k : q[i] = p[i]
    BY <2>1, <1>6
  <2>3. Len(ms) \in 0..Len(ms) /\ ms = SubSeq(ms, 1, Len(ms)) /\ k <= k
    BY <1>5
  <2> QED BY ONLY <2>2, <2>3, <1>5, <1>8, ms \in Seq(Message), FitsMore
<1>11. \A i \in 1..l : q[i] = p[i]
  <2>1. \A i \in 1..l : i \in 1..Len(p) - 1
    BY <1>5
  <2> QED BY <2>1, <1>6
<1>12. Lined(ms, p, l) => Lined(ms, q, l)
  BY <1>11 DEF Lined
<1>13. Begun(ms, p, l) => Begun(ms, q, l)
  <2> SUFFICES ASSUME Begun(ms, p, l), NEW i \in 1..Len(ms)
               PROVE  IF ms[i] = Flush THEN i = Len(ms) ELSE i <= l /\ ms[i] = Piece(q[i])
    BY DEF Begun
  <2>1. IF ms[i] = Flush THEN i = Len(ms) ELSE i <= l /\ ms[i] = Piece(p[i])
    BY DEF Begun
  <2>2. i <= l => i \in 1..l
    BY <1>5
  <2> QED BY <2>1, <2>2, <1>11
<1>14. Reading(c, ms, up, t, w, n)
  BY <1>7, <1>8, <1>10, <1>12, <1>13 DEF Reading, q
<1>15. Spot(c, ms, up, x, t)
  BY <1>2, <1>3, <1>4, <1>9, <1>14 DEF Spot
<1> QED BY <1>2, <1>3, <1>15 DEF t, x

LEMMA BegunMore ==
  ASSUME NEW ms \in Seq(Message), NEW p, NEW j \in Nat, NEW k \in Nat, j <= k, Begun(ms, p, j)
  PROVE  Begun(ms, p, k)
<1> SUFFICES ASSUME NEW i \in 1..Len(ms)
             PROVE  IF ms[i] = Flush THEN i = Len(ms) ELSE i <= k /\ ms[i] = Piece(p[i])
  BY DEF Begun
<1>1. IF ms[i] = Flush THEN i = Len(ms) ELSE i <= j /\ ms[i] = Piece(p[i])
  BY DEF Begun
<1> QED BY <1>1

LEMMA BegunLined ==
  ASSUME NEW ms \in Seq(Message), NEW p, NEW k \in Nat, Lined(ms, p, k), NoFlush(ms)
  PROVE  Begun(ms, p, k)
BY DEF Lined, NoFlush, Begun

\* No piece is a Flush.
LEMMA NoFlushJoin ==
  ASSUME NEW ms \in Seq(Message), NEW q \in Seq(Chars \cup {Blank}), NoFlush(ms)
  PROVE  ms \o q \in Seq(Message) /\ NoFlush(ms \o q)
<1>1. Flush \notin Chars \cup {Blank}
  <2>1. Flush # Blank
    BY DEF Flush, Blank
  <2>2. ASSUME Flush \in Chars PROVE FALSE
    <3>1. Len(Flush) = 1 /\ Flush[1] = "0x80"
      BY DEF Flush
    <3>2. Flush \in Seq(Character) /\ 1 \in 1..Len(Flush)
      BY <2>2, <3>1 DEF Chars
    <3>3. Flush[1] \in Character
      BY ONLY <3>2, ElementOfSeq
    <3> QED BY <3>1, <3>3 DEF Character
  <2> QED BY <2>1, <2>2
<1>2. q \in Seq(Message) /\ \A i \in 1..Len(q) : q[i] # Flush
  BY <1>1 DEF Message
<1> DEFINE t == ms \o q
<1>3. /\ t \in Seq(Message) /\ Len(t) = Len(ms) + Len(q) /\ Len(ms) \in Nat /\ Len(q) \in Nat
      /\ \A i \in 1..Len(ms) : t[i] = ms[i]
      /\ \A i \in 1..Len(q) : t[Len(ms) + i] = q[i]
  BY <1>2
<1> HIDE DEF t
<1>4. ASSUME NEW i \in 1..Len(t) PROVE t[i] # Flush
  <2>1. CASE i \in 1..Len(ms)
    BY <2>1, <1>3 DEF NoFlush
  <2>2. CASE i \notin 1..Len(ms)
    <3> DEFINE j == i - Len(ms)
    <3>1. j \in 1..Len(q) /\ Len(ms) + j = i
      BY <2>2, <1>3
    <3> HIDE DEF j
    <3> QED BY <3>1, <1>2, <1>3
  <2> QED BY <2>1, <2>2
<1> QED BY <1>3, <1>4 DEF NoFlush, t

\* copy reads a chunk, the first h of what is shown.
LEMMA SpotCopy ==
  ASSUME NEW c, c.st = "run", NEW ms \in Seq(Message), NEW up, NEW out, NEW s \in Seq(Sign),
         Spot(c, ms, up, out, s), NEW h \in 1..Len(out),
         NEW d, d.split <=> (c.split \/ SubSeq(out, 1, h)[h] # "LF"),
         NEW r, r = IF up THEN ms \o Pieces(SubSeq(out, 1, h)) ELSE ms
  PROVE  /\ Pieces(SubSeq(out, 1, h)) \in Seq(Chars \cup {Blank})
         /\ SubSeq(out, h + 1, Len(out)) \in Seq(Sign)
         /\ Spot(d, r, up, SubSeq(out, h + 1, Len(out)), s)
<1>a. PICK w : /\ Paired(s) /\ Walks(w, s) /\ Lines(s) = w[Len(s)]
               /\ \E n \in 0..Len(s) : /\ out = SubSeq(s, n + 1, Len(s))
                                       /\ Reading(c, ms, up, s, w, n)
  BY DEF Spot
<1>b. PICK m \in 0..Len(s) : out = SubSeq(s, m + 1, Len(s)) /\ Reading(c, ms, up, s, w, m)
  BY <1>a
<1> DEFINE a == Len(s)
           n == m + h
           x == SubSeq(s, m + 1, n)
           z == Pieces(x)
           p == w[Len(s)]
           l == Len(w[m]) - 1
           j == Len(w[n]) - 1
<1>1. /\ a \in Nat /\ m \in 0..a /\ a \in 0..Len(s)
      /\ out \in Seq(Sign) /\ Len(out) = a - m /\ out = SubSeq(s, m + 1, a)
  <2>1. a \in Nat /\ m \in 0..a /\ a \in 0..Len(s) /\ out = SubSeq(s, m + 1, a)
    BY <1>b
  <2> DEFINE g == SubSeq(s, m + 1, a)
  <2> HIDE DEF a
  <2>2. g \in Seq(Sign) /\ Len(g) = a - m
    BY ONLY <2>1, s \in Seq(Sign), PartOf
  <2> QED BY <2>1, <2>2
<1>2. n \in 0..Len(s) /\ m \in 0..n /\ n # 0 /\ n \in Nat /\ m \in Nat /\ h \in Nat /\ m <= n
  BY <1>1
<1>3. SubSeq(out, 1, h) = x
  <2>1. h \in 0..Len(out) /\ 0 \in 0..h /\ m + 0 = m /\ 0 + 1 = 1
    BY <1>1
  <2> HIDE DEF a
  <2>2. SubSeq(out, 0 + 1, h) = SubSeq(s, m + 0 + 1, m + h)
    BY ONLY <1>1, <2>1, s \in Seq(Sign), PartOfPart
  <2> QED BY <2>1, <2>2
<1>4. SubSeq(out, h + 1, Len(out)) = SubSeq(s, n + 1, Len(s))
  <2> DEFINE b == Len(out)
  <2>1. b \in 0..Len(out) /\ h \in 0..b /\ m + b = a
    BY <1>1
  <2> HIDE DEF a, b
  <2>2. SubSeq(out, h + 1, b) = SubSeq(s, m + h + 1, m + b)
    BY ONLY <1>1, <2>1, s \in Seq(Sign), PartOfPart
  <2> QED BY <2>1, <2>2 DEF a, b
<1>5. SubSeq(s, n + 1, Len(s)) \in Seq(Sign)
  <2> DEFINE b == Len(s)
  <2>1. b \in 0..Len(s) /\ n \in 0..b
    BY <1>1, <1>2
  <2> HIDE DEF b, n
  <2>2. SubSeq(s, n + 1, b) \in Seq(Sign)
    BY ONLY <2>1, s \in Seq(Sign), PartOf
  <2> QED BY <2>2 DEF b
<1>6. x[h] = s[n]
  <2>1. h \in 1..n - m
    BY <1>2
  <2> HIDE DEF n
  <2>2. \A i \in 1..n - m : SubSeq(s, m + 1, n)[i] = s[m + i]
    BY ONLY <1>2, s \in Seq(Sign), PartOf
  <2> QED BY <2>1, <2>2 DEF n
<1>7. /\ Fits(ms, p, Ended(w, s, m))
      /\ ~c.split => AtStart(s, m) /\ Begun(ms, p, l)
      /\ (~c.split /\ up) => Lined(ms, p, l)
      /\ NoFlush(ms)
  BY <1>b DEF Reading
<1> HIDE DEF a, n, p, l, j
<1>8. l \in Nat /\ j \in Nat /\ l <= j
  <2>1. m \in 0..Len(s)
    BY <1>1
  <2>2. Len(w[m]) \in Nat \ {0} /\ Len(w[n]) \in Nat /\ Len(w[m]) <= Len(w[n])
    BY ONLY <1>a, <1>2, <2>1, s \in Seq(Sign), WalkUp
  <2> QED BY <2>2 DEF l, j
<1>9. z \in Seq(Chars \cup {Blank}) /\ Fits(ms \o z, p, Ended(w, s, n))
  BY <1>a, <1>2, <1>7, ChunkFits DEF p
<1>10. ~d.split => AtStart(s, n) /\ AtStart(s, m) /\ ~c.split
  BY <1>3, <1>6, <1>7 DEF AtStart
<1>11. (~d.split /\ up) => Lined(ms \o z, p, j)
  <2> SUFFICES ASSUME ~d.split, up PROVE Lined(ms \o z, p, j)
    OBVIOUS
  <2>1. AtStart(s, n) /\ AtStart(s, m) /\ Lined(ms, w[Len(s)], Len(w[m]) - 1)
    BY <1>7, <1>10 DEF p, l
  <2>2. Lined(ms \o Pieces(SubSeq(s, m + 1, n)), w[Len(s)], Len(w[n]) - 1)
    BY ONLY <1>a, <1>2, <2>1, s \in Seq(Sign), ms \in Seq(Message), ChunkLined
  <2> QED BY <2>2 DEF p, j
<1> HIDE DEF x, z
<1>12. ms \o z \in Seq(Message) /\ NoFlush(ms \o z)
  BY <1>7, <1>9, NoFlushJoin
<1>13. ASSUME up PROVE Reading(d, r, up, s, w, n)
  <2>1. r = ms \o z
    BY <1>3, <1>13 DEF z
  <2>2. ~d.split => Begun(ms \o z, p, j)
    <3> DEFINE y == ms \o z
    <3>1. (~d.split => Lined(y, p, j)) /\ y \in Seq(Message) /\ NoFlush(y)
      BY <1>11, <1>12, <1>13
    <3> HIDE DEF y
    <3>2. ~d.split => Begun(y, p, j)
      BY <1>8, <3>1, BegunLined
    <3> QED BY <3>2 DEF y
  <2> QED BY <2>1, <2>2, <1>9, <1>10, <1>11, <1>12 DEF Reading, p, j
<1>14. ASSUME ~up PROVE Reading(d, r, up, s, w, n)
  <2>1. r = ms
    BY <1>14
  <2>2. ~d.split => Begun(ms, p, j)
    BY <1>7, <1>8, <1>10, BegunMore
  <2>3. Fits(ms, p, Ended(w, s, n))
    <3> DEFINE f == Ended(w, s, m)
               g == Ended(w, s, n)
    <3>1. f \in Nat /\ g \in Nat /\ f <= g
      BY <1>a, <1>2, EndedIs
    <3>2. Fits(ms, p, f) /\ Len(ms) \in 0..Len(ms) /\ ms = SubSeq(ms, 1, Len(ms))
          /\ \A i \in 1..f : p[i] = p[i]
      BY <1>7
    <3> HIDE DEF f, g
    <3>3. Fits(ms, p, g)
      BY ONLY <3>1, <3>2, ms \in Seq(Message), FitsMore
    <3> QED BY <3>3 DEF g
  <2> QED BY <2>1, <2>2, <2>3, <1>7, <1>10, <1>14 DEF Reading, p, j
<1>15. Reading(d, r, up, s, w, n)
  BY <1>13, <1>14
<1>16. Spot(d, r, up, SubSeq(s, n + 1, Len(s)), s)
  BY <1>a, <1>2, <1>15 DEF Spot
<1> QED BY <1>3, <1>4, <1>5, <1>9, <1>16 DEF z

\* copy ends, and says so.
LEMMA SpotFlush ==
  ASSUME NEW c, c.st = "run", NEW ms \in Seq(Message), NEW up, NEW out, NEW s \in Seq(Sign),
         Spot(c, ms, up, out, s), NEW d, d.st = "over", d.split = c.split,
         NEW r, up => r = Append(ms, Flush), ~up => r = ms, NEW u, ~u
  PROVE  Spot(d, r, u, out, s)
<1>a. PICK w : /\ Paired(s) /\ Walks(w, s) /\ Lines(s) = w[Len(s)]
               /\ \E n \in 0..Len(s) : /\ out = SubSeq(s, n + 1, Len(s))
                                       /\ Reading(c, ms, up, s, w, n)
  BY DEF Spot
<1>b. PICK n \in 0..Len(s) : out = SubSeq(s, n + 1, Len(s)) /\ Reading(c, ms, up, s, w, n)
  BY <1>a
<1> DEFINE p == w[Len(s)]
           k == Ended(w, s, n)
           l == Len(w[n]) - 1
<1>1. k \in Nat
  <2>1. 0 \in 0..n
    OBVIOUS
  <2> QED BY <1>a, <2>1, EndedIs
<1>2. Fits(ms, p, k) /\ NoFlush(ms) /\ (~c.split => AtStart(s, n) /\ Begun(ms, p, l))
  BY <1>b DEF Reading
<1> HIDE DEF p, k, l
<1> DEFINE t == Append(ms, Flush)
<1>3. /\ t \in Seq(Message) /\ Len(t) = Len(ms) + 1 /\ Len(ms) \in Nat /\ t[Len(t)] = Flush
      /\ \A i \in 1..Len(ms) : t[i] = ms[i]
      /\ Flush \in Message
  BY DEF Message
<1>4. Fits(t, p, k)
  <2>1. k <= k /\ Flush \in {Blank, Flush}
    BY <1>1
  <2> QED BY ONLY <1>1, <1>2, <1>3, <2>1, ms \in Seq(Message), FitsOne
<1> HIDE DEF t
<1>5. ~c.split => Begun(t, p, l)
  <2> SUFFICES ASSUME ~c.split, NEW i \in 1..Len(t)
               PROVE  IF t[i] = Flush THEN i = Len(t) ELSE i <= l /\ t[i] = Piece(p[i])
    BY DEF Begun
  <2>1. CASE i = Len(t)
    BY <2>1, <1>3
  <2>2. CASE i # Len(t)
    <3>1. i \in 1..Len(ms)
      BY <2>2, <1>3
    <3>2. t[i] = ms[i] /\ ms[i] # Flush
      BY <3>1, <1>2, <1>3 DEF NoFlush
    <3> QED BY <3>1, <3>2, <1>2 DEF Begun
  <2> QED BY <2>1, <2>2
<1>6. Reading(d, r, u, s, w, n)
  <2>1. CASE r = t
    BY <2>1, <1>2, <1>4, <1>5 DEF Reading, p, k, l
  <2>2. CASE r = ms
    BY <2>2, <1>2 DEF Reading, p, k, l
  <2> QED BY <2>1, <2>2, <1>3
<1> QED BY <1>a, <1>b, <1>6 DEF Spot

-----------------------------------------------------------------------------
(* A task as a whole *)
TypedText == Seq(Character) \ {<<>>}
TaskTypes ==
  /\ task \in [st : {"run", "over"}, todo : Seq(Character)]
  /\ pty \in [out : Seq(Sign), in : Seq(Character), shown : Seq(Sign)]
  /\ copier \in [st : {"run", "over"}, split : BOOLEAN]
  /\ dntask \in [st : {"run", "over"}, interactive : BOOLEAN, stdin : Seq(TypedText),
                 printed : Seq(Message)]
  /\ wire \in LinkOf(Message, TypedText)
\* what dntask has printed, and what is on its way to it
OnTheWay == dntask.printed \o wire["client"].queue
TaskInv == TaskTypes /\ Spot(copier, OnTheWay, BothUp(wire), pty.out, pty.shown)

LEMMA PutBack ==
  ASSUME NEW C, NEW S, NEW k \in LinkOf(C, S)
  PROVE  /\ \A ms \in Seq(C) :
              /\ PutAll(k, "server", ms)["client"].queue =
                   IF BothUp(k) THEN k["client"].queue \o ms ELSE k["client"].queue
              /\ BothUp(PutAll(k, "server", ms)) <=> BothUp(k)
         /\ \A ms \in Seq(S) : BothUp(PutAll(k, "client", ms)) <=> BothUp(k)
         /\ Shut(k, "client")["client"].queue = <<>> /\ ~BothUp(Shut(k, "client"))
         /\ Cut(k, "client")["client"].queue = <<>> /\ ~BothUp(Cut(k, "client"))
         /\ Shut(k, "server")["client"] = k["client"] /\ ~BothUp(Shut(k, "server"))
         /\ Cut(k, "server")["client"] = k["client"] /\ ~BothUp(Cut(k, "server"))
<1>1. ASSUME NEW ms \in Seq(C)
      PROVE  /\ PutAll(k, "server", ms)["client"].queue =
                  IF BothUp(k) THEN k["client"].queue \o ms ELSE k["client"].queue
             /\ BothUp(PutAll(k, "server", ms)) <=> BothUp(k)
  <2> DEFINE q == k["client"].queue \o ms
             j == [k EXCEPT !["client"].queue = q]
  <2>1. PutAll(k, "server", ms) = IF BothUp(k) THEN j ELSE k
    BY DEF PutAll, FarOf, BothUp
  <2> HIDE DEF q
  <2>2. j["client"].queue = q /\ j["server"] = k["server"] /\ j["client"].up = k["client"].up
    BY DEF LinkOf, EndOf
  <2> HIDE DEF j
  <2>3. BothUp(j) <=> BothUp(k)
    BY <2>2 DEF BothUp
  <2> QED BY <2>1, <2>2, <2>3 DEF q
<1>2. \A ms \in Seq(S) : BothUp(PutAll(k, "client", ms)) <=> BothUp(k)
  BY LinkPut DEF BothUp
<1>3. /\ Shut(k, "client")["client"].queue = <<>> /\ ~Shut(k, "client")["client"].up
      /\ Cut(k, "client")["client"].queue = <<>> /\ ~Cut(k, "client")["client"].up
  BY DEF Shut, ShutEnd, Cut, LinkOf, EndOf
<1>4. /\ Shut(k, "server")["client"] = k["client"] /\ ~Shut(k, "server")["server"].up
      /\ Cut(k, "server")["client"] = k["client"] /\ ~Cut(k, "server")["server"].up
  BY DEF Shut, ShutEnd, Cut, LinkOf, EndOf
<1> QED BY <1>1, <1>2, <1>3, <1>4 DEF BothUp

LEMMA WayOK ==
  ASSUME TaskTypes
  PROVE  /\ OnTheWay \in Seq(Message) /\ dntask.printed \in Seq(Message)
         /\ wire["client"].queue \in Seq(Message)
         /\ Len(dntask.printed) \in 0..Len(OnTheWay)
         /\ SubSeq(OnTheWay, 1, Len(dntask.printed)) = dntask.printed
<1> DEFINE b == dntask.printed
           a == wire["client"].queue
<1>1. b \in Seq(Message) /\ a \in Seq(Message)
  BY EndsOf DEF TaskTypes
<1> HIDE DEF a, b
<1>2. /\ Len(b) \in Nat /\ Len(b \o a) = Len(b) + Len(a) /\ b \o a \in Seq(Message)
      /\ SubSeq(b \o a, 1, Len(b)) = b
  BY <1>1, CutAt
<1>3. Len(a) \in Nat
  BY <1>1
<1>4. Len(b) \in 0..Len(b \o a)
  BY <1>2, <1>3
<1> QED BY <1>1, <1>2, <1>4 DEF OnTheWay, a, b

\* The terminal shows more; nothing moves on the way to dntask.
LEMMA ShowOK ==
  ASSUME NEW t \in [out : Seq(Sign), in : Seq(Character), shown : Seq(Sign)],
         NEW chars \in Seq(Character), NEW c, NEW ms \in Seq(Message), NEW up,
         Spot(c, ms, up, t.out, t.shown)
  PROVE  /\ Show(t, chars) \in [out : Seq(Sign), in : Seq(Character), shown : Seq(Sign)]
         /\ Show(t, chars).in = t.in
         /\ Spot(c, ms, up, Show(t, chars).out, Show(t, chars).shown)
<1> DEFINE u == Shown(chars)
           x == t.out \o u
           y == t.shown \o u
           v == Show(t, chars)
<1>1. u \in Seq(Sign) /\ Paired(u)
  BY ShowsPairs
<1> HIDE DEF u
<1>2. x \in Seq(Sign) /\ y \in Seq(Sign) /\ Spot(c, ms, up, x, y)
  BY <1>1, SpotShow
<1>3. v = [t EXCEPT !.out = x, !.shown = y]
  BY DEF Show, u
<1> HIDE DEF x, y, v
<1>4. /\ v \in [out : Seq(Sign), in : Seq(Character), shown : Seq(Sign)]
      /\ v.in = t.in /\ v.out = x /\ v.shown = y
  BY <1>2, <1>3
<1> QED BY <1>2, <1>4 DEF v

LEMMA TaskWritesOK == ASSUME TaskInv, TaskWrites PROVE TaskInv'
<1> DEFINE c == Head(task.todo)
           r == Tail(task.todo)
<1>1. /\ task' = [task EXCEPT !.todo = r] /\ pty' = Show(pty, <<c>>) /\ task.todo # <<>>
      /\ copier' = copier /\ dntask' = dntask /\ wire' = wire
  BY DEF TaskWrites
<1>2. c \in Character /\ r \in Seq(Character)
  BY <1>1 DEF TaskInv, TaskTypes
<1> HIDE DEF c, r
<1>3. <<c>> \in Seq(Character)
  BY <1>2
<1>4. /\ pty' \in [out : Seq(Sign), in : Seq(Character), shown : Seq(Sign)]
      /\ Spot(copier, OnTheWay, BothUp(wire), pty'.out, pty'.shown)
  BY <1>1, <1>3, ShowOK, WayOK DEF TaskInv, TaskTypes
<1>5. task' \in [st : {"run", "over"}, todo : Seq(Character)]
  BY <1>1, <1>2 DEF TaskInv, TaskTypes
<1> QED BY <1>1, <1>4, <1>5 DEF TaskInv, TaskTypes, OnTheWay

LEMMA TaskAsksOK == ASSUME TaskInv, TaskAsks PROVE TaskInv'
<1>1. PICK n \in DOMAIN pty.in : pty' = [pty EXCEPT !.in = SubSeq(@, n + 1, Len(@))]
  BY DEF TaskAsks
<1> DEFINE r == Tail(task.todo)
           y == SubSeq(pty.in, n + 1, Len(pty.in))
<1>2. /\ task' = [task EXCEPT !.todo = r] /\ task.todo # <<>>
      /\ copier' = copier /\ dntask' = dntask /\ wire' = wire
  BY DEF TaskAsks
<1>3. r \in Seq(Character) /\ y \in Seq(Character)
  BY <1>2 DEF TaskInv, TaskTypes
<1>4. pty' = [pty EXCEPT !.in = y]
  BY <1>1
<1> HIDE DEF y, r
<1>5. /\ pty' \in [out : Seq(Sign), in : Seq(Character), shown : Seq(Sign)]
      /\ pty'.out = pty.out /\ pty'.shown = pty.shown
  BY <1>3, <1>4 DEF TaskInv, TaskTypes
<1>6. task' \in [st : {"run", "over"}, todo : Seq(Character)]
  BY <1>2, <1>3 DEF TaskInv, TaskTypes
<1> QED BY <1>2, <1>5, <1>6 DEF TaskInv, TaskTypes, OnTheWay

LEMMA TaskEndsOK == ASSUME TaskInv, TaskEnds PROVE TaskInv'
<1>1. /\ task' = [task EXCEPT !.st = "over"]
      /\ pty' = pty /\ copier' = copier /\ dntask' = dntask /\ wire' = wire
  BY DEF TaskEnds
<1>2. task' \in [st : {"run", "over"}, todo : Seq(Character)]
  BY <1>1 DEF TaskInv, TaskTypes
<1> QED BY <1>1, <1>2 DEF TaskInv, TaskTypes, OnTheWay

LEMMA CopyOutOK == ASSUME TaskInv, CopyOut PROVE TaskInv'
<1> DEFINE h == IF Len(pty.out) < ChunkSize THEN Len(pty.out) ELSE ChunkSize
           chunk == SubSeq(pty.out, 1, h)
           rest == SubSeq(pty.out, h + 1, Len(pty.out))
           ms == Pieces(chunk)
           q == wire["client"].queue
           up == BothUp(wire)
           b == copier.split \/ chunk[h] # "LF"
<1>1. /\ copier.st = "run" /\ pty.out # <<>> /\ pty.out \in Seq(Sign)
      /\ wire' = PutAll(wire, "server", ms) /\ pty' = [pty EXCEPT !.out = rest]
      /\ copier' = [copier EXCEPT !.split = @ \/ SeqX!Last(chunk) # "LF"]
      /\ task' = task /\ dntask' = dntask
  BY DEF CopyOut, TaskInv, TaskTypes
<1>2. h \in 1..Len(pty.out)
  <2>1. Len(pty.out) \in Nat \ {0}
    BY <1>1
  <2> QED BY <2>1, ChunkAssumption
<1> HIDE DEF h
<1>3. Len(chunk) = h
  BY <1>1, <1>2
<1>4. copier' = [copier EXCEPT !.split = b]
  BY <1>1, <1>3 DEF SeqX!Last
<1> HIDE DEF b
<1>5. /\ copier' \in [st : {"run", "over"}, split : BOOLEAN] /\ copier'.st = "run"
      /\ copier'.split <=> (copier.split \/ SubSeq(pty.out, 1, h)[h] # "LF")
  <2>1. b \in BOOLEAN /\ (b <=> (copier.split \/ SubSeq(pty.out, 1, h)[h] # "LF"))
    BY DEF b
  <2>2. /\ copier' \in [st : {"run", "over"}, split : BOOLEAN] /\ copier'.st = "run"
        /\ copier'.split = b
    BY <1>1, <1>4, <2>1 DEF TaskInv, TaskTypes
  <2> QED BY <2>1, <2>2
<1> DEFINE r == IF up THEN OnTheWay \o ms ELSE OnTheWay
<1>6. ms \in Seq(Chars \cup {Blank}) /\ rest \in Seq(Sign) /\ Spot(copier', r, up, rest, pty.shown)
  <2> DEFINE z == pty.out
             s == pty.shown
             w == OnTheWay
  <2>1. /\ copier.st = "run" /\ w \in Seq(Message) /\ s \in Seq(Sign) /\ Spot(copier, w, up, z, s)
        /\ h \in 1..Len(z)
        /\ copier'.split <=> (copier.split \/ SubSeq(z, 1, h)[h] # "LF")
    BY <1>1, <1>2, <1>5, WayOK DEF TaskInv, TaskTypes
  <2> HIDE DEF z, s, w, up
  <2> DEFINE x == IF up THEN w \o Pieces(SubSeq(z, 1, h)) ELSE w
  <2>2. /\ Pieces(SubSeq(z, 1, h)) \in Seq(Chars \cup {Blank}) /\ SubSeq(z, h + 1, Len(z)) \in Seq(Sign)
        /\ Spot(copier', x, up, SubSeq(z, h + 1, Len(z)), s)
    BY ONLY <2>1, SpotCopy
  <2> QED BY <2>2 DEF z, s, w, up
<1>7. ms \in Seq(Message)
  BY <1>6 DEF Message
<1> HIDE DEF ms, rest
<1>8. /\ wire' \in LinkOf(Message, TypedText) /\ (BothUp(wire') <=> up)
      /\ wire'["client"].queue = IF up THEN q \o ms ELSE q
  BY <1>1, <1>7, PutBack, LinkPut DEF TaskInv, TaskTypes
<1>9. OnTheWay' = r
  <2>1. dntask.printed \in Seq(Message) /\ q \in Seq(Message)
    BY WayOK DEF TaskInv
  <2> DEFINE d == dntask.printed
  <2>2. OnTheWay' = d \o wire'["client"].queue /\ OnTheWay = d \o q
    BY <1>1 DEF OnTheWay
  <2>4. d \in Seq(Message)
    BY <2>1
  <2> HIDE DEF q, d, up
  <2>3. d \o (q \o ms) = (d \o q) \o ms
    BY ONLY <2>1, <2>4, <1>7, ConcatAssociative
  <2> QED BY <2>2, <2>3, <1>8
<1>10. /\ pty' \in [out : Seq(Sign), in : Seq(Character), shown : Seq(Sign)]
       /\ pty'.out = rest /\ pty'.shown = pty.shown
  BY <1>1, <1>6 DEF TaskInv, TaskTypes
<1> HIDE DEF r
<1>11. Spot(copier', OnTheWay', BothUp(wire'), pty'.out, pty'.shown)
  <2>1. BothUp(wire') = up
    BY <1>8 DEF BothUp, LinkOf, EndOf
  <2> QED BY <1>6, <1>9, <1>10, <2>1
<1>12. TaskTypes'
  BY <1>1, <1>5, <1>8, <1>10 DEF TaskInv, TaskTypes
<1> QED BY <1>11, <1>12 DEF TaskInv

LEMMA CopyInOK == ASSUME TaskInv, CopyIn PROVE TaskInv'
<1> DEFINE f == Foremost(wire, "server")
           k == Taken(wire, "server")
           u == Show(pty, f)
           y == pty.in \o f
<1>1. /\ copier.st = "run" /\ Waiting(wire, "server") /\ "server" \in Ends /\ wire' = k
      /\ pty' = [u EXCEPT !.in = @ \o f]
      /\ task' = task /\ copier' = copier /\ dntask' = dntask
  BY DEF CopyIn, Ends
<1>2. /\ k \in LinkOf(Message, TypedText) /\ f \in TypedText /\ k["client"] = wire["client"]
      /\ k["server"].up = wire["server"].up
  BY <1>1, LinkTaken DEF TaskInv, TaskTypes, FarOf
<1> HIDE DEF f, k
<1>3. f \in Seq(Character)
  BY <1>2 DEF TypedText
<1>4. /\ u \in [out : Seq(Sign), in : Seq(Character), shown : Seq(Sign)] /\ u.in = pty.in
      /\ Spot(copier, OnTheWay, BothUp(wire), u.out, u.shown)
  BY <1>1, <1>3, ShowOK, WayOK DEF TaskInv, TaskTypes
<1> HIDE DEF u
<1>5. y \in Seq(Character)
  BY <1>3 DEF TaskInv, TaskTypes
<1>6. pty' = [u EXCEPT !.in = y]
  BY <1>1, <1>4
<1> HIDE DEF y
<1>7. /\ pty' \in [out : Seq(Sign), in : Seq(Character), shown : Seq(Sign)]
      /\ pty'.out = u.out /\ pty'.shown = u.shown
  BY <1>4, <1>5, <1>6
<1>8. OnTheWay' = OnTheWay /\ BothUp(wire') = BothUp(wire)
  BY <1>1, <1>2 DEF OnTheWay, BothUp
<1>9. Spot(copier', OnTheWay', BothUp(wire'), pty'.out, pty'.shown)
  BY <1>1, <1>4, <1>7, <1>8
<1> QED BY <1>1, <1>2, <1>7, <1>9 DEF TaskInv, TaskTypes

LEMMA CopyEndsOK == ASSUME TaskInv, CopyEnds PROVE TaskInv'
<1> DEFINE j == Put(wire, "server", Flush)
           q == wire["client"].queue
           up == BothUp(wire)
           r == IF up THEN OnTheWay \o <<Flush>> ELSE OnTheWay
           ms == <<Flush>>
<1>1. /\ copier.st = "run" /\ wire' = Shut(j, "server") /\ j = PutAll(wire, "server", ms)
      /\ copier' = [copier EXCEPT !.st = "over"] /\ task' = [task EXCEPT !.st = "over"]
      /\ pty' = pty /\ dntask' = dntask
  BY DEF CopyEnds, Put
<1>2. ms \in Seq(Message)
  BY DEF Message
<1> HIDE DEF j, ms
<1>3. /\ j \in LinkOf(Message, TypedText)
      /\ j["client"].queue = IF up THEN q \o ms ELSE q
  BY <1>1, <1>2, PutBack, LinkPut DEF TaskInv, TaskTypes
<1>4. /\ wire' \in LinkOf(Message, TypedText) /\ wire'["client"] = j["client"] /\ ~BothUp(wire')
  <2>1. "server" \in Ends
    BY DEF Ends
  <2> QED BY <1>1, <1>3, <2>1, PutBack, LinkShut
<1>5. /\ copier' \in [st : {"run", "over"}, split : BOOLEAN] /\ copier'.st = "over"
      /\ copier'.split = copier.split
      /\ task' \in [st : {"run", "over"}, todo : Seq(Character)]
  BY <1>1 DEF TaskInv, TaskTypes
<1>6. OnTheWay' = r
  <2> DEFINE d == dntask.printed
  <2>1. d \in Seq(Message) /\ q \in Seq(Message)
    BY WayOK DEF TaskInv
  <2>2. OnTheWay' = d \o wire'["client"].queue /\ OnTheWay = d \o q
    BY <1>1 DEF OnTheWay
  <2> HIDE DEF q, d, up
  <2>3. d \o (q \o ms) = (d \o q) \o ms
    BY ONLY <2>1, <1>2, ConcatAssociative
  <2> QED BY <2>2, <2>3, <1>3, <1>4 DEF ms
<1>7. Spot(copier', r, FALSE, pty.out, pty.shown)
  <2>1. /\ OnTheWay \in Seq(Message) /\ pty.shown \in Seq(Sign)
        /\ Spot(copier, OnTheWay, up, pty.out, pty.shown)
    BY WayOK DEF TaskInv, TaskTypes
  <2> DEFINE z == pty.out
             s == pty.shown
             w == OnTheWay
             x == IF up THEN w \o <<Flush>> ELSE w
  <2> HIDE DEF z, s, w, up
  <2> DEFINE c == copier
             d == copier'
  <2>2. /\ w \in Seq(Message) /\ s \in Seq(Sign) /\ Spot(c, w, up, z, s)
        /\ c.st = "run" /\ d.st = "over" /\ d.split = c.split
    BY <1>1, <1>5, <2>1 DEF z, s, w
  <2> HIDE DEF c, d
  <2>3. Spot(d, x, FALSE, z, s)
    <3>1. (up => x = Append(w, Flush)) /\ (~up => x = w)
      <4>1. w \o <<Flush>> = Append(w, Flush)
        BY <2>2, <1>2 DEF ms
      <4> QED BY <4>1
    <3> HIDE DEF x
    <3>2. ~FALSE
      OBVIOUS
    <3> QED BY ONLY <2>2, <3>1, <3>2, SpotFlush
  <2>4. Spot(copier', x, FALSE, z, s)
    BY <2>3 DEF d
  <2> QED BY <2>4, <1>1 DEF z, s, w
<1> HIDE DEF r
<1>8. BothUp(wire') = FALSE
  BY <1>4 DEF BothUp, LinkOf, EndOf
<1>9. Spot(copier', OnTheWay', BothUp(wire'), pty'.out, pty'.shown)
  BY <1>1, <1>6, <1>7, <1>8
<1> QED BY <1>1, <1>4, <1>5, <1>9 DEF TaskInv, TaskTypes

LEMMA PrintOutputOK == ASSUME TaskInv, PrintOutput PROVE TaskInv'
<1> DEFINE f == Foremost(wire, "client")
           k == Taken(wire, "client")
           d == dntask.printed
           q == wire["client"].queue
           e == Append(d, f)
           a == Tail(q)
<1>1. /\ Waiting(wire, "client") /\ "client" \in Ends /\ wire' = k
      /\ dntask' = [dntask EXCEPT !.printed = e]
      /\ task' = task /\ copier' = copier /\ pty' = pty
  BY DEF PrintOutput, Ends
<1>2. /\ k \in LinkOf(Message, TypedText) /\ f \in Message /\ k["server"] = wire["server"]
      /\ k["client"].up = wire["client"].up /\ k["client"].queue = a
  BY <1>1, LinkTaken DEF TaskInv, TaskTypes, FarOf
<1>3. d \in Seq(Message) /\ q \in Seq(Message)
  BY WayOK DEF TaskInv
<1>4. a \in Seq(Message) /\ q = <<f>> \o a
  <2>1. q # <<>> /\ f = Head(q)
    BY <1>1 DEF Waiting, Foremost
  <2> HIDE DEF q, f
  <2> QED BY <1>3, <2>1
<1> HIDE DEF f, k, d, q, e, a
<1>5. e \o a = d \o q /\ e \in Seq(Message)
  <2>1. Append(d, f) \o a = d \o (<<f>> \o a) /\ Append(d, f) \in Seq(Message)
    BY ONLY <1>2, <1>3, <1>4, JoinAgain
  <2> QED BY <1>4, <2>1 DEF e
<1>6. /\ dntask' \in [st : {"run", "over"}, interactive : BOOLEAN, stdin : Seq(TypedText),
                      printed : Seq(Message)]
      /\ dntask'.printed = e
  BY <1>1, <1>5 DEF TaskInv, TaskTypes
<1>7. OnTheWay' = OnTheWay /\ BothUp(wire') = BothUp(wire)
  BY <1>1, <1>2, <1>5, <1>6 DEF OnTheWay, BothUp, d, q
<1>8. Spot(copier', OnTheWay', BothUp(wire'), pty'.out, pty'.shown)
  BY <1>1, <1>7 DEF TaskInv
<1> QED BY <1>1, <1>2, <1>6, <1>8 DEF TaskInv, TaskTypes

LEMMA TypedOnOK == ASSUME TaskInv, TypedOn PROVE TaskInv'
<1> DEFINE read == Head(dntask.stdin)
           sent == IF SeqX!Last(read) = "LF" THEN SeqX!Front(read) ELSE read
           r == Tail(dntask.stdin)
<1>1. /\ dntask.stdin # <<>> /\ dntask' = [dntask EXCEPT !.stdin = r]
      /\ wire' = IF sent = <<>> THEN wire ELSE PutAll(wire, "client", <<sent>>)
      /\ task' = task /\ copier' = copier /\ pty' = pty
  BY DEF TypedOn, Put
<1>2. read \in Seq(Character) /\ read # <<>> /\ r \in Seq(TypedText)
  <2> DEFINE q == dntask.stdin
  <2>1. q \in Seq(TypedText) /\ q # <<>>
    BY <1>1 DEF TaskInv, TaskTypes
  <2> HIDE DEF q
  <2>2. Head(q) \in TypedText /\ Tail(q) \in Seq(TypedText)
    BY <2>1
  <2> QED BY <2>2 DEF q, TypedText
<1> HIDE DEF read
<1>3. sent \in Seq(Character)
  <2>1. SeqX!Front(read) \in Seq(Character)
    BY <1>2 DEF SeqX!Front
  <2> QED BY <1>2, <2>1
<1> HIDE DEF sent, r
<1>4. /\ wire' \in LinkOf(Message, TypedText) /\ wire'["client"] = wire["client"]
      /\ wire'["server"].up = wire["server"].up
  <2>1. CASE sent = <<>>
    BY <1>1, <2>1 DEF TaskInv, TaskTypes
  <2>2. CASE sent # <<>>
    <3> DEFINE x == <<sent>>
               j == PutAll(wire, "client", x)
    <3>1. x \in Seq(TypedText) /\ wire \in LinkOf(Message, TypedText)
      BY <1>3, <2>2 DEF TypedText, TaskInv, TaskTypes
    <3>2. wire' = j
      BY <1>1, <2>2
    <3> HIDE DEF x
    <3>3. /\ j \in LinkOf(Message, TypedText) /\ j["client"] = wire["client"]
          /\ j["server"].up = wire["server"].up
      BY ONLY <3>1, LinkPut
    <3> HIDE DEF j
    <3> QED BY <3>2, <3>3
  <2> QED BY <2>1, <2>2
<1>5. /\ dntask' \in [st : {"run", "over"}, interactive : BOOLEAN, stdin : Seq(TypedText),
                      printed : Seq(Message)]
      /\ dntask'.printed = dntask.printed
  BY <1>1, <1>2 DEF TaskInv, TaskTypes
<1>6. OnTheWay' = OnTheWay /\ BothUp(wire') = BothUp(wire)
  BY <1>4, <1>5 DEF OnTheWay, BothUp
<1> QED BY <1>1, <1>4, <1>5, <1>6 DEF TaskInv, TaskTypes

\* An end of the link goes: with that of dntask goes what is on the way to it.
LEMMA EndGoes ==
  ASSUME TaskInv, NEW e \in Ends, wire' \in {Shut(wire, e), Cut(wire, e)},
         copier' = copier, pty' = pty, dntask'.printed = dntask.printed
  PROVE  wire' \in LinkOf(Message, TypedText)
         /\ Spot(copier', OnTheWay', BothUp(wire'), pty'.out, pty'.shown)
<1>1. wire \in LinkOf(Message, TypedText)
  BY DEF TaskInv, TaskTypes
<1>2. /\ wire' \in LinkOf(Message, TypedText) /\ ~BothUp(wire')
      /\ e = "client" => wire'["client"].queue = <<>>
      /\ e = "server" => wire'["client"] = wire["client"]
  <2> DEFINE k == wire
  <2>1. Shut(k, e) \in LinkOf(Message, TypedText) /\ Cut(k, e) \in LinkOf(Message, TypedText)
    <3> HIDE DEF k
    <3>1. k \in LinkOf(Message, TypedText)
      BY <1>1 DEF k
    <3> QED BY ONLY <3>1, e \in Ends, LinkShut
  <2>2. /\ Shut(k, "client")["client"].queue = <<>> /\ ~BothUp(Shut(k, "client"))
        /\ Cut(k, "client")["client"].queue = <<>> /\ ~BothUp(Cut(k, "client"))
        /\ Shut(k, "server")["client"] = k["client"] /\ ~BothUp(Shut(k, "server"))
        /\ Cut(k, "server")["client"] = k["client"] /\ ~BothUp(Cut(k, "server"))
    BY ONLY <1>1, PutBack
  <2>3. CASE e = "client"
    BY <2>1, <2>2, <2>3
  <2>4. CASE e = "server"
    BY <2>1, <2>2, <2>4
  <2> QED BY <2>3, <2>4 DEF Ends
<1> DEFINE d == dntask.printed
           ms == OnTheWay
           r == OnTheWay'
<1>3. /\ ms \in Seq(Message) /\ d \in Seq(Message) /\ Len(d) \in 0..Len(ms)
      /\ d = SubSeq(ms, 1, Len(d))
  BY WayOK DEF TaskInv
<1>4. r = d \o wire'["client"].queue /\ ms = d \o wire["client"].queue
  BY DEF OnTheWay
<1> HIDE DEF d, ms, r
<1>5. \E i \in 0..Len(ms) : r = SubSeq(ms, 1, i)
  <2>1. CASE e = "client"
    <3>1. d \o <<>> = d
      BY <1>3
    <3>2. r = d
      BY <2>1, <1>2, <1>4, <3>1
    <3> QED BY <3>2, <1>3
  <2>2. CASE e = "server"
    <3>1. r = ms
      BY <2>2, <1>2, <1>4
    <3>2. Len(ms) \in 0..Len(ms) /\ ms = SubSeq(ms, 1, Len(ms))
      BY <1>3
    <3> QED BY <3>1, <3>2
  <2> QED BY <2>1, <2>2 DEF Ends
<1>6. PICK i \in 0..Len(ms) : r = SubSeq(ms, 1, i)
  BY <1>5
<1>7. Spot(copier, r, FALSE, pty.out, pty.shown)
  <2>1. /\ ms \in Seq(Message) /\ pty.shown \in Seq(Sign)
        /\ Spot(copier, ms, BothUp(wire), pty.out, pty.shown)
    BY <1>3 DEF TaskInv, TaskTypes, ms
  <2>2. FALSE => BothUp(wire) /\ r = ms
    OBVIOUS
  <2> QED BY ONLY <2>1, <2>2, <1>6, SpotLess
<1>8. BothUp(wire') = FALSE
  BY <1>2 DEF BothUp, LinkOf, EndOf
<1> QED BY <1>2, <1>7, <1>8 DEF r

LEMMA DntaskEndsOK == ASSUME TaskInv, DntaskEnds PROVE TaskInv'
<1>1. /\ dntask' = [dntask EXCEPT !.st = "over"] /\ wire' = Shut(wire, "client")
      /\ "client" \in Ends /\ task' = task /\ pty' = pty /\ copier' = copier
  BY DEF DntaskEnds, Ends
<1>2. /\ dntask' \in [st : {"run", "over"}, interactive : BOOLEAN, stdin : Seq(TypedText),
                      printed : Seq(Message)]
      /\ dntask'.printed = dntask.printed
  BY <1>1 DEF TaskInv, TaskTypes
<1>3. wire' \in LinkOf(Message, TypedText)
      /\ Spot(copier', OnTheWay', BothUp(wire'), pty'.out, pty'.shown)
  BY <1>1, <1>2, EndGoes
<1> QED BY <1>1, <1>2, <1>3 DEF TaskInv, TaskTypes

LEMMA TaskStep == ASSUME TaskInv, TaskNext PROVE TaskInv'
<1>1. CASE LinkCut /\ UNCHANGED <<task, pty, copier, dntask>>
  <2>1. PICK e \in Ends : wire' = Cut(wire, e)
    BY <1>1 DEF LinkCut
  <2>2. task' = task /\ pty' = pty /\ copier' = copier /\ dntask' = dntask
    BY <1>1
  <2>3. wire' \in LinkOf(Message, TypedText)
        /\ Spot(copier', OnTheWay', BothUp(wire'), pty'.out, pty'.shown)
    BY <2>1, <2>2, EndGoes
  <2> QED BY <2>2, <2>3 DEF TaskInv, TaskTypes
<1> QED BY <1>1, TaskWritesOK, TaskAsksOK, TaskEndsOK, CopyOutOK, CopyInOK, CopyEndsOK,
           PrintOutputOK, TypedOnOK, DntaskEndsOK DEF TaskNext

LEMMA NothingShown ==
  ASSUME copier.split = FALSE, dntask.printed = <<>>, wire["client"].queue = <<>>,
         pty.out = <<>>, pty.shown = <<>>
  PROVE  Spot(copier, OnTheWay, BothUp(wire), pty.out, pty.shown)
<1>1. OnTheWay = <<>>
  BY DEF OnTheWay
<1> QED BY <1>1, SpotNone

LEMMA TaskStart == ASSUME NEW j \in Jobs, TaskBegin(j), wire = OpenLink PROVE TaskInv
<1> DEFINE z == <<>>
<1>1. /\ z \in Seq(Sign) /\ z \in Seq(Character) /\ z \in Seq(Message) /\ z \in Seq(TypedText)
  OBVIOUS
<1>2. /\ j.program \in Seq(Character) /\ j.interactive \in BOOLEAN /\ j.stdin \in Seq(TypedText)
  BY JobsAssumption DEF TypedText
<1> HIDE DEF z
<1>3. /\ task = [st |-> "run", todo |-> j.program] /\ pty = [out |-> z, in |-> z, shown |-> z]
      /\ copier = [st |-> "run", split |-> FALSE]
      /\ dntask = [st |-> "run", interactive |-> j.interactive, stdin |-> j.stdin, printed |-> z]
      /\ wire = [client |-> [up |-> TRUE, open |-> TRUE, queue |-> z],
                 server |-> [up |-> TRUE, open |-> TRUE, queue |-> z]]
  BY DEF TaskBegin, NewPty, NewCopier, OpenLink, OpenEnd, z
<1>4. TaskTypes
  BY <1>1, <1>2, <1>3 DEF TaskTypes, LinkOf, EndOf
<1>5. Spot(copier, OnTheWay, BothUp(wire), pty.out, pty.shown)
  <2>1. /\ copier.split = FALSE /\ dntask.printed = <<>> /\ wire["client"].queue = <<>>
        /\ pty.out = <<>> /\ pty.shown = <<>>
    BY <1>3 DEF z
  <2> QED BY <2>1, NothingShown
<1> QED BY <1>4, <1>5 DEF TaskInv

LEMMA SpotPrinted ==
  ASSUME NEW c, NEW ms \in Seq(Message), NEW up, NEW out, NEW s \in Seq(Sign),
         Spot(c, ms, up, out, s), NEW d \in Seq(Message), Len(d) \in 0..Len(ms),
         d = SubSeq(ms, 1, Len(d))
  PROVE  /\ Through(d, Lines(s)) <= Len(Lines(s))
         /\ ~c.split => WholeLines(d, Lines(s))
<1>a. PICK w : /\ Paired(s) /\ Walks(w, s) /\ Lines(s) = w[Len(s)]
               /\ \E n \in 0..Len(s) : /\ out = SubSeq(s, n + 1, Len(s))
                                       /\ Reading(c, ms, up, s, w, n)
  BY DEF Spot
<1>b. PICK n \in 0..Len(s) : out = SubSeq(s, n + 1, Len(s)) /\ Reading(c, ms, up, s, w, n)
  BY <1>a
<1> DEFINE p == w[Len(s)]
           k == Ended(w, s, n)
           l == Len(w[n]) - 1
<1>1. Fits(ms, p, k) /\ (~c.split => Begun(ms, p, l))
  BY <1>b DEF Reading
<1>2. k \in Nat /\ k <= k /\ k <= Len(p) - 1
  <2>1. 0 \in 0..n
    OBVIOUS
  <2> QED BY <1>a, <2>1, EndedIs
<1>3. p \in Page /\ l <= Len(p) - 1 /\ l \in Nat /\ Len(p) \in Nat /\ DOMAIN p = 1..Len(p)
  <2>1. Len(s) \in 0..Len(s) /\ n <= Len(s)
    OBVIOUS
  <2>2. p \in Page /\ Len(w[n]) <= Len(p) /\ Len(w[n]) \in Nat \ {0}
    BY <1>a, <2>1, WalkUp
  <2> HIDE DEF p
  <2>3. Len(p) \in Nat /\ DOMAIN p = 1..Len(p)
    BY <2>2 DEF Page
  <2> QED BY <2>2, <2>3
<1> HIDE DEF p, k, l
<1>4. Through(d, p) <= Len(p)
  <2> DEFINE m == Len(d)
  <2>1. /\ m \in 0..Len(ms) /\ d = SubSeq(ms, 1, m) /\ d \in Seq(Message) /\ ms \in Seq(Message)
        /\ Fits(ms, p, k) /\ k \in Nat
    BY <1>1, <1>2
  <2> HIDE DEF m
  <2>2. Fits(d, p, k)
    BY ONLY <2>1, FitsPart
  <2>3. k <= Len(p)
    BY <1>2, <1>3
  <2> QED BY <1>2, <1>3, <2>2, <2>3, ThroughFits
<1>5. ASSUME Begun(ms, p, l) PROVE WholeLines(d, p)
  <2>1. /\ DOMAIN d = 1..Len(d) /\ \A i \in 1..Len(d) : i \in 1..Len(ms) /\ d[i] = ms[i]
        /\ Len(d) \in Nat /\ Len(ms) \in Nat /\ Len(d) <= Len(ms)
    OBVIOUS
  <2> SUFFICES ASSUME NEW i \in 1..Len(d)
               PROVE  IF d[i] = Flush THEN i = Len(d)
                      ELSE i \in DOMAIN p /\ d[i] = IF p[i] = <<>> THEN Blank ELSE p[i]
    BY <2>1 DEF WholeLines
  <2>2. IF d[i] = Flush THEN i = Len(ms) ELSE i <= l /\ d[i] = Piece(p[i])
    BY <2>1, <1>5 DEF Begun
  <2>3. CASE d[i] = Flush
    <3>1. i = Len(ms)
      BY <2>2, <2>3
    <3>2. Len(d) \in Nat /\ Len(ms) \in Nat /\ Len(d) <= Len(ms)
      BY <2>1
    <3>3. i \in Nat /\ i <= Len(d)
      BY <3>2
    <3>4. i = Len(d)
      BY ONLY <3>1, <3>2, <3>3
    <3> QED BY <3>4, <2>3
  <2>4. CASE d[i] # Flush
    <3>1. i \in DOMAIN p
      BY <2>1, <2>2, <2>4, <1>3
    <3>2. d[i] = IF p[i] = <<>> THEN Blank ELSE p[i]
      BY <2>2, <2>4 DEF Piece
    <3> QED BY <3>1, <3>2, <2>4
  <2> QED BY <2>3, <2>4
<1> QED BY <1>a, <1>1, <1>4, <1>5 DEF p

LEMMA SpotOutput ==
  ASSUME dntask.printed \in Seq(Message), OnTheWay \in Seq(Message), pty.shown \in Seq(Sign),
         Len(dntask.printed) \in 0..Len(OnTheWay),
         SubSeq(OnTheWay, 1, Len(dntask.printed)) = dntask.printed,
         Spot(copier, OnTheWay, BothUp(wire), pty.out, pty.shown)
  PROVE  TaskOutput
<1> DEFINE d == dntask.printed
           ms == OnTheWay
           s == pty.shown
<1>1. /\ d \in Seq(Message) /\ ms \in Seq(Message) /\ s \in Seq(Sign) /\ Len(d) \in 0..Len(ms)
      /\ d = SubSeq(ms, 1, Len(d)) /\ Spot(copier, ms, BothUp(wire), pty.out, s)
  OBVIOUS
<1> HIDE DEF d, ms, s
<1>2. Through(d, Lines(s)) <= Len(Lines(s)) /\ (~copier.split => WholeLines(d, Lines(s)))
  BY ONLY <1>1, SpotPrinted
<1> QED BY <1>2 DEF TaskOutput, d, s

TaskScene == IF scene = "task" THEN TaskInv ELSE TaskIdle

(***************************************************************************)
(* dntask prints ends of the lines that the program's terminal shows, no   *)
(* line twice and in order, and every line whole while copy reads whole    *)
(* lines; for all programs, inputs and sizes of the buffer of copy, and    *)
(* wherever its reads are cut (copy, Pieces).                              *)
(***************************************************************************)
THEOREM OutputKept == Spec => []TaskOutput
<1>1. Init => TaskScene
  <2> SUFFICES ASSUME Init PROVE TaskScene
    OBVIOUS
  <2>1. CASE scene = "task"
    <3>1. wire = OpenLink /\ \E j \in Jobs : TaskBegin(j)
      BY <2>1 DEF Init
    <3> QED BY <2>1, <3>1, TaskStart DEF TaskScene
  <2>2. CASE scene # "task"
    BY <2>2 DEF Init, TaskScene
  <2> QED BY <2>1, <2>2
<1>2. TaskScene /\ [Next]_vars => TaskScene'
  <2> SUFFICES ASSUME TaskScene, [Next]_vars PROVE TaskScene'
    OBVIOUS
  <2>1. ASSUME scene = "task", TaskNext, scene' = scene PROVE TaskScene'
    BY <2>1, TaskStep DEF TaskScene
  <2>2. ASSUME scene # "task", UNCHANGED taskOwn, scene' = scene PROVE TaskScene'
    BY <2>2 DEF TaskScene, TaskIdle, taskOwn
  <2>3. ASSUME UNCHANGED vars PROVE TaskScene'
    <3>1. /\ scene' = scene /\ wire' = wire /\ task' = task /\ pty' = pty
          /\ copier' = copier /\ dntask' = dntask
      BY <2>3 DEF vars, taskOwn
    <3>2. TaskInv => TaskInv'
      BY <3>1 DEF TaskInv, TaskTypes, OnTheWay
    <3>3. TaskIdle => TaskIdle'
      BY <3>1 DEF TaskIdle
    <3> QED BY <3>1, <3>2, <3>3 DEF TaskScene
  <2> QED BY <2>1, <2>2, <2>3 DEF Next
<1>3. TaskScene => TaskOutput
  <2>1. TaskInv => TaskOutput
    <3> SUFFICES ASSUME TaskInv PROVE TaskOutput
      OBVIOUS
    <3> QED BY WayOK, SpotOutput DEF TaskInv, TaskTypes
  <2>2. TaskIdle => TaskOutput
    <3> SUFFICES ASSUME TaskIdle PROVE TaskOutput
      OBVIOUS
    <3> DEFINE z == <<>>
    <3>1. /\ dntask.printed = z /\ pty.shown = z /\ z \in Seq(Message) /\ z \in Seq(Sign)
          /\ Len(z) \in 0..Len(z) /\ SubSeq(z, 1, Len(z)) = z
      BY DEF TaskIdle, NewPty
    <3>2. copier.split = FALSE
      BY DEF TaskIdle, NewCopier
    <3>3. Spot(copier, <<>>, FALSE, <<>>, <<>>)
      BY <3>2, SpotNone
    <3> HIDE DEF z
    <3>4. Through(z, Lines(z)) <= Len(Lines(z)) /\ (~copier.split => WholeLines(z, Lines(z)))
      <4>1. Spot(copier, z, FALSE, z, z)
        BY <3>3 DEF z
      <4> QED BY ONLY <3>1, <4>1, SpotPrinted
    <3> QED BY <3>1, <3>4 DEF TaskOutput
  <2> QED BY <2>1, <2>2 DEF TaskScene
<1> QED BY <1>1, <1>2, <1>3, PTL DEF Spec
=============================================================================

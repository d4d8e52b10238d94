-------------------------------- MODULE Mail --------------------------------
(***************************************************************************)
(* Mail between two nodes of this system: sendvmsmail sends the mail on    *)
(* its standard input, and vmsmaild hands it to sendmail, or to an SMTP    *)
(* server if one is configured.  Text mail only; a mail from VMS, which    *)
(* may have more addressees and be binary, comes the same way.             *)
(***************************************************************************)
EXTENDS LogicalLink

CONSTANTS Mails   \* the mails, and whether vmsmaild uses SMTP

\* A body is what fgets returns, piece by piece: a line, or 255 characters of
\* one.  lf: the piece ends before the end of the file does, with a newline or
\* because recvbuf is full; only the last may not.
ASSUME MailsAssumption ==
  \A m \in Mails :
    /\ m.to \in STRING /\ m.smtp \in BOOLEAN
    /\ m.body \in Seq([x : STRING, lf : BOOLEAN])
    /\ \A i \in DOMAIN m.body : m.body[i].lf \/ i = Len(m.body)

VARIABLES sender,   \* sendvmsmail
          maild,    \* vmsmaild
          mta       \* sendmail or the SMTP server

mailVars == <<sender, maild, mta, wire>>

Nul == [t |-> "nul"]
Ack == [t |-> "ack"]
Text(x) == [t |-> "text", x |-> x]

\* todo: what was not read yet; buf: recvbuf, "ack", "line" or "error";
\* told: an error was mailed back
NewSender(m) == [st |-> "start", mail |-> m, todo |-> m.body, buf |-> "line", told |-> FALSE]
\* signal: history, a signal came while it read the body
NewMaild(smtp) == [st |-> "user", to |-> <<>>, smtp |-> smtp, signal |-> FALSE]
\* a message that is being taken, and history: those that were taken
NewMta == [to |-> <<>>, body |-> <<>>, taken |-> {}]

MailIdle == /\ sender = [NewSender([to |-> "", body |-> <<>>]) EXCEPT !.st = "over"]
            /\ maild = [NewMaild(FALSE) EXCEPT !.st = "over"] /\ mta = NewMta
MailBegin(m) == sender = NewSender(m) /\ maild = NewMaild(m.smtp) /\ mta = NewMta

-----------------------------------------------------------------------------
(* sendvmsmail *)

SenderIs(s) == sender' = s /\ UNCHANGED <<maild, mta>>

\* It is over, and an error was mailed or not.
SenderOver(told) ==
  /\ SenderIs([sender EXCEPT !.st = "over", !.told = told])
  /\ wire' = Shut(wire, "client")

\* It writes ms and goes on as s; a write that fails ends it.
Says(ms, s) ==
  IF wire["client"].up THEN wire' = PutAll(wire, "client", ms) /\ SenderIs(s)
  ELSE SenderOver(TRUE)

SendUser ==
  /\ sender.st = "start"
  /\ \/ Says(<<Text("from"), Text(sender.mail.to)>>, [sender EXCEPT !.st = "user"])
     \/ SenderOver(TRUE)    \* the connection is not made

\* The read for an answer: recvbuf keeps what it held when there is none.
Answered(r, buf) ==
  \/ Waiting(wire, "client") /\ r = IF Foremost(wire, "client") = Ack THEN "ack" ELSE "error"
  \/ Hears(wire, "client") /\ r = buf

UserAnswered ==
  /\ sender.st = "user"
  /\ \E garbage \in {"ack", "line"} : \E r \in {"ack", "line", "error"} :
       /\ Answered(r, garbage)    \* recvbuf was not set before
       /\ IF r = "ack"
            THEN LET s == [sender EXCEPT !.st = "body", !.buf = r]
                     k == IF Waiting(wire, "client") THEN Taken(wire, "client") ELSE wire
                 IN  IF k["client"].up
                       THEN /\ wire' = PutAll(k, "client", <<Nul, Text("full"), Text("subject")>>)
                            /\ SenderIs(s)
                       ELSE SenderOver(TRUE)
            ELSE SenderOver(TRUE)

\* A piece is sent, a blank line as a space; one that fgets ended at the end of
\* the file is read, but not sent.
SendLine ==
  /\ sender.st = "body" /\ sender.todo # <<>>
  /\ LET line == Head(sender.todo)
         s == [sender EXCEPT !.todo = Tail(@), !.buf = "line"]
     IN  IF line.lf THEN Says(<<Text(line.x)>>, s) ELSE SenderIs(s) /\ UNCHANGED wire

SendEnd ==
  /\ sender.st = "body" /\ sender.todo = <<>>
  /\ Says(<<Nul>>, [sender EXCEPT !.st = "sent"])

MailAnswered ==
  /\ sender.st = "sent"
  /\ \E r \in {"ack", "line", "error"} : Answered(r, sender.buf) /\ SenderOver(r # "ack")

SenderKilled ==
  /\ sender.st # "over"
  /\ SenderIs([sender EXCEPT !.st = "killed"]) /\ wire' = Shut(wire, "client")

-----------------------------------------------------------------------------
(* vmsmaild *)

MaildIs(d, k) == maild' = d /\ wire' = k /\ UNCHANGED sender
MaildOver == MaildIs([maild EXCEPT !.st = "over"], Shut(wire, "server"))

\* The next message is read: nobody looks whether there is one.
ReadOne == IF Waiting(wire, "server") THEN Taken(wire, "server") ELSE wire
CanRead == Waiting(wire, "server") \/ Hears(wire, "server")

ReadUser ==
  /\ maild.st = "user" /\ CanRead
  /\ MaildIs([maild EXCEPT !.st = "to"], ReadOne) /\ UNCHANGED mta

\* Each addressee is acknowledged, until a NUL comes.  At the end of the link
\* the last name is taken once more, without its characters, and the loop ends.
ReadAddressee ==
  /\ maild.st = "to" /\ CanRead /\ UNCHANGED mta
  /\ IF Waiting(wire, "server") /\ Foremost(wire, "server") # Nul
       THEN MaildIs([maild EXCEPT !.to = Append(@, Foremost(wire, "server").x)],
                    Put(ReadOne, "server", Ack))
       ELSE MaildIs([maild EXCEPT !.st = "full"], ReadOne)

ReadFull ==
  /\ maild.st = "full" /\ CanRead
  /\ MaildIs([maild EXCEPT !.st = "subject"], ReadOne) /\ UNCHANGED mta

\* The subject, and then the pipe to sendmail or the SMTP commands up to DATA
ReadSubject ==
  /\ maild.st = "subject" /\ CanRead
  /\ \/ /\ MaildIs([maild EXCEPT !.st = "body"], ReadOne)
        /\ mta' = [mta EXCEPT !.to = maild.to]
     \/ MaildOver /\ UNCHANGED mta    \* no pipe, or an unexpected response

ReadLine ==
  /\ maild.st = "body" /\ Waiting(wire, "server") /\ Foremost(wire, "server") # Nul
  /\ mta' = [mta EXCEPT !.body = Append(@, Foremost(wire, "server").x)]
  /\ MaildIs(maild, ReadOne)

\* mutant: so does the end of the link
BadBodyOver == Hears(wire, "server") \/ (Waiting(wire, "server") /\ Foremost(wire, "server") = Nul)

\* A lone NUL ends the body.  At the end of the link vmsmaild reads nothing,
\* again and again.
BodyOver == Waiting(wire, "server") /\ Foremost(wire, "server") = Nul

\* A line that is a dot ends a message.
UpToDot(lines) ==
  LET dots == {i \in DOMAIN lines : lines[i] = "dot"}
  IN  IF dots = {} THEN lines ELSE SubSeq(lines, 1, (CHOOSE i \in dots : \A j \in dots : i <= j) - 1)

\* The message is finished.  The SMTP server may refuse it, or answer QUIT in
\* another way; then nothing is acknowledged.
Forwarded(d, k) ==
  LET message == [to |-> mta.to, body |-> UpToDot(mta.body)]
      acks == [i \in DOMAIN d.to |-> Ack]
      taken == [mta EXCEPT !.taken = @ \cup {message}]
      over == [d EXCEPT !.st = "over"]
  IN  \/ MaildIs(over, Shut(PutAll(k, "server", acks), "server")) /\ mta' = taken
      \/ maild.smtp /\ MaildIs(over, Shut(k, "server")) /\ mta' \in {mta, taken}

ReadEnd == maild.st = "body" /\ BodyOver /\ Forwarded(maild, ReadOne)

\* A signal that is caught, as a vmsmaild that dnetd did not start does: a read
\* that waits returns -1.  In the body that ends the loop (continue in
\* do-while); elsewhere vmsmaild ends.
Signal ==
  /\ maild.st # "over" /\ ~CanRead
  /\ \/ maild.st = "body" /\ Forwarded([maild EXCEPT !.signal = TRUE], wire)
     \/ maild.st # "body" /\ MaildOver /\ UNCHANGED mta

MaildKilled == maild.st # "over" /\ MaildOver /\ UNCHANGED mta

-----------------------------------------------------------------------------
MailNext ==
  \/ SendUser \/ UserAnswered \/ SendLine \/ SendEnd \/ MailAnswered \/ SenderKilled
  \/ ReadUser \/ ReadAddressee \/ ReadFull \/ ReadSubject \/ ReadLine \/ ReadEnd
  \/ Signal \/ MaildKilled
  \/ (LinkCut /\ UNCHANGED <<sender, maild, mta>>)

-----------------------------------------------------------------------------
(***************************************************************************)
(* A mail is forwarded as a whole or not at all, also when its sender or   *)
(* the link ends in the middle; and unless it was forwarded its writer is  *)
(* told (send_to_vms, receive_mail, send_body). Whole means all pieces but *)
(* one that the end of the file ends, up to a line that is a single dot.   *)
(* Excepted are a signal to vmsmaild while it waits for a line, and, for   *)
(* the answer, a body of no lines, where recvbuf still holds the first     *)
(* answer when the second is read.                                         *)
(***************************************************************************)
MailSettled ==
  LET mail == sender.mail
      full == {i \in DOMAIN mail.body : mail.body[i].lf}
      whole == [to |-> <<mail.to>>, body |-> UpToDot([i \in full |-> mail.body[i].x])]
  IN  ~maild.signal =>
        /\ mta.taken \subseteq {whole}
        /\ (sender.st = "over" /\ ~sender.told /\ mail.body # <<>>) => mta.taken = {whole}
=============================================================================

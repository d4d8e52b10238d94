------------------------------- MODULE Librms -------------------------------
(***************************************************************************)
(* librms: a program, or the file system dapfs, opens a remote file, reads *)
(* or writes it a record at a time and closes it.  Each call sends its     *)
(* message and takes the next one that comes for its reply.                *)
(***************************************************************************)
EXTENDS DapUser
LOCAL INSTANCE Functions

RmsProgs == {"read", "write"}
RmsFile == Head(user.cmd.names)
RmsReply(pc) == user.cmd.prog \in RmsProgs /\ user.pc = pc /\ HasReply(MainLink)
RmsMsg == TheReply(MainLink)
RmsGot == Got(MainLink)
RmsGoes(k, pc) == Goes(MainLink, k, [user EXCEPT !.pc = pc])
RmsExits(u) == Exits(conn, u, 0, TRUE)

\* rms_getreply returns 0; or it returns an error
ReplyOk(m) == Success(m) \/ m.t \in {"ACK", "ACCOMP", "ATTRIB"}
ReplyBad(m) == ~ReplyOk(m) /\ m # Status("eof")

SendControl(k, func) == Write(k, "client", Control(func, "seq"))

-----------------------------------------------------------------------------
RmsOpen ==
  /\ RmsReply("config")
  /\ IF RmsMsg.t # "CONFIG" THEN RmsExits(Complains(user))
     ELSE RmsGoes(Write(SendBlock(RmsGot, "client", <<Attrib("var", FALSE)>>), "client",
                        Access(IF user.cmd.prog = "write" THEN "create" ELSE "open",
                               user.cmd, {"main"})), "open")
  /\ UNCHANGED local

RmsOpened ==
  /\ RmsReply("open")
  /\ IF ReplyBad(RmsMsg) THEN RmsExits(Complains(user))
     ELSE RmsGoes(SendControl(RmsGot, "connect"), "connect")
  /\ UNCHANGED local

RmsConnected ==
  /\ RmsReply("connect")
  /\ IF ReplyBad(RmsMsg) THEN RmsExits(Complains(user))
     ELSE Goes(MainLink, RmsGot,
               [user EXCEPT !.pc = "call", !.file = RmsFile,
                            !.rest = IF user.cmd.prog = "write" THEN local[RmsFile] ELSE <<>>])
  /\ local' = IF user.cmd.prog = "read" /\ ~ReplyBad(RmsMsg)
                THEN [n \in DOMAIN local \cup {RmsFile} |->
                        IF n = RmsFile THEN <<>> ELSE local[n]]
                ELSE local

-----------------------------------------------------------------------------
\* rms_read asks for the record.  A STATUS left over from the record before
\* it is taken first, unless the next message is the record.
RmsRead ==
  LET k == conn[MainLink]
      recordNext == k["client"].in # <<>> /\ Head(k["client"].in).t = "DATA"
  IN /\ user.cmd.prog = "read" /\ user.pc = "call"
     /\ IF WriteFails(k, "client") THEN Goes(MainLink, k, [Complains(user) EXCEPT !.pc = "close"])
        ELSE RmsGoes(SendControl(k, "get"), IF recordNext THEN "record" ELSE "status")
     /\ UNCHANGED local

TakeRecord(rec) ==
  /\ RmsGoes(RmsGot, "call")
  /\ local' = [local EXCEPT ![RmsFile] = Append(@, rec)]

RmsStatus ==
  /\ RmsReply("status")
  /\ IF RmsMsg.t = "DATA" THEN TakeRecord(RmsMsg.rec)
     ELSE /\ CASE ReplyOk(RmsMsg) -> RmsGoes(RmsGot, "record")
               [] RmsMsg = Status("eof") -> RmsGoes(RmsGot, "close")
               [] OTHER -> Goes(MainLink, RmsGot, [Complains(user) EXCEPT !.pc = "close"])
          /\ UNCHANGED local

\* A STATUS in the place of the record: rms_read returns its 0, and its caller
\* has an empty record, also at the end of the file.
EmptyRecord == [text |-> "", lf |-> FALSE]
RmsRecord ==
  /\ RmsReply("record")
  /\ CASE RmsMsg.t = "DATA" -> TakeRecord(RmsMsg.rec)
       [] Success(RmsMsg) \/ RmsMsg = Status("eof") -> TakeRecord(EmptyRecord)
       [] OTHER ->
            /\ Goes(MainLink,
                    IF RmsMsg.t = "STATUS" THEN Write(RmsGot, "client", Accomp("skip", {}))
                    ELSE RmsGot,
                    [Complains(user) EXCEPT !.pc = "close"])
            /\ UNCHANGED local

-----------------------------------------------------------------------------
\* rms_write: the record is sent, and a reply awaited
RmsWrite ==
  LET k == conn[MainLink] IN
  /\ user.cmd.prog = "write" /\ user.pc = "call" /\ user.rest # <<>>
  /\ IF WriteFails(k, "client") THEN Goes(MainLink, k, [Complains(user) EXCEPT !.pc = "close"])
     ELSE RmsGoes(Write(SendControl(k, "put"), "client", Data(Head(user.rest))), "written")
  /\ UNCHANGED local

RmsWritten ==
  /\ RmsReply("written")
  /\ IF ReplyBad(RmsMsg) THEN Goes(MainLink, RmsGot, [Complains(user) EXCEPT !.pc = "close"])
     ELSE Goes(MainLink, RmsGot, [user EXCEPT !.pc = "call", !.rest = Tail(@)])
  /\ UNCHANGED local

\* rms_close, when all is read or written, or something failed
RmsClose ==
  /\ user.cmd.prog \in RmsProgs
  /\ user.pc = "close" \/ (user.pc = "call" /\ user.cmd.prog = "write" /\ user.rest = <<>>)
  /\ RmsGoes(Write(conn[MainLink], "client", Accomp("close", {})), "closing")
  /\ UNCHANGED local

RmsClosed ==
  /\ RmsReply("closing")
  /\ RmsExits(IF ReplyBad(RmsMsg) THEN Complains(user)
              ELSE IF user.said THEN user ELSE [user EXCEPT !.done = {RmsFile}])
  /\ UNCHANGED local

RmsStep ==
  /\ \/ RmsOpen \/ RmsOpened \/ RmsConnected
     \/ RmsRead \/ RmsStatus \/ RmsRecord \/ RmsWrite \/ RmsWritten \/ RmsClose \/ RmsClosed
  /\ UNCHANGED fault

=============================================================================

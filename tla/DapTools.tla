------------------------------ MODULE DapTools ------------------------------
(***************************************************************************)
(* The commands: dncopy, dndel, dndir, dnsubmit and dnprint.               *)
(***************************************************************************)
EXTENDS DapUser
LOCAL INSTANCE Functions

CONSTANT DelLink       \* dndel: del_conn; dir_conn is the main link

-----------------------------------------------------------------------------
(***************************************************************************)
(* dncopy: fetches files from another node, by name or by a wildcard, or   *)
(* sends files to a directory there.  -E (goOn) goes on after an output    *)
(* file that cannot be opened, -i (ask) asks about each file.              *)
(***************************************************************************)

CopyReply(prog, pc) == user.cmd.prog = prog /\ user.pc = pc /\ HasReply(MainLink)
CopyMsg == TheReply(MainLink)
CopyGot == Got(MainLink)
CopyGoes(k, u) == Goes(MainLink, k, u)
\* return from main
CopyReturns(u, code) == Exits(conn, u, code, FALSE)

\* mutant: any STATUS will do
BadIsReply(m) == m.t \in {"STATUS", "ACK", "ACCOMP"}

\* dap_get_reply
IsReply(m) == Success(m) \/ m.t = "ACK" \/ m.t = "ACCOMP"

\* What dap_get_file_entry notes on its way to the ACK
EntryPart(m) == m.t \in {"NAME", "ATTRIB"}
NoteEntry(u, m) ==
  CASE m.t = "NAME" -> [u EXCEPT !.file = m.file]
    [] m.t = "ATTRIB" -> [u EXCEPT !.rfm = m.rfm, !.cr = m.cr]

SendConnect(k) == Write(k, "client", Control("connect", "none"))
SendClose(k, fop) == Reply(k, "client", Accomp("close", fop))

-----------------------------------------------------------------------------
(***************************************************************************)
(* Fetching.                                                               *)
(***************************************************************************)
GetConfig ==
  /\ CopyReply("get", "config")
  /\ IF CopyMsg.t = "CONFIG"
       THEN CopyGoes(SendBlock(CopyGot, "client",
                               <<Attrib("var", FALSE),
                                 Access("open", user.cmd, {"main", "name"})>>),
                     [user EXCEPT !.pc = "entry"])
       ELSE CopyReturns(Complains(user), 1)

\* dap_get_file_entry, from open or, once the link is open, from next
GetEntry ==
  /\ CopyReply("get", "entry")
  /\ IF EntryPart(CopyMsg) THEN CopyGoes(CopyGot, NoteEntry(user, CopyMsg))
     ELSE IF CopyMsg.t = "ACK"
       THEN CopyGoes(SendConnect(CopyGot), [user EXCEPT !.pc = "connect"])
     ELSE IF ~user.opened THEN CopyReturns(Complains(user), 1)
     ELSE CopyReturns(IF CopyMsg.t = "ACCOMP" THEN user ELSE Complains(user), 0)

\* in->next()
NextFile(k, u) ==
  IF user.cmd.wild THEN CopyGoes(k, [u EXCEPT !.pc = "entry", !.opened = TRUE])
  ELSE Exits([conn EXCEPT ![MainLink] = k], u, 0, FALSE)

\* in->close() before it
CloseInput(k, u) ==
  IF WriteFails(k, "client") THEN CopyReturns(Complains(u), 3)
  ELSE NextFile(SendClose(k, user.cmd.fop), u)

\* The file is connected and its records are asked for; then the user may be
\* asked, and the output file is opened.
GetConnected ==
  LET k == Write(CopyGot, "client", Control("get", "seqft")) IN
  /\ CopyReply("get", "connect")
  /\ IF ~IsReply(CopyMsg) \/ WriteFails(CopyGot, "client")
       THEN CopyReturns(Complains(user), 1) /\ UNCHANGED local
     ELSE \/ /\ CopyGoes(k, [user EXCEPT !.pc = "read"])
             /\ local' = [n \in DOMAIN local \cup {user.file} |->
                            IF n = user.file THEN <<>> ELSE local[n]]
          \/ /\ user.cmd.ask
             /\ CloseInput(k, [user EXCEPT !.refused = @ \cup {user.file}])
             /\ UNCHANGED local

\* The output file cannot be opened.
GetOpenFails ==
  LET k == SendClose(Write(CopyGot, "client", Control("get", "seqft")), user.cmd.fop) IN
  /\ Fault("open") /\ CopyReply("get", "connect")
  /\ IsReply(CopyMsg) /\ ~WriteFails(CopyGot, "client")
  /\ IF user.cmd.goOn THEN NextFile(k, Complains(user))
     ELSE Exits([conn EXCEPT ![MainLink] = k], Complains(user), 1, FALSE)
  /\ UNCHANGED local

\* dnetfile::read puts the line end back that the attributes imply
Line(m) == [text |-> m.rec.text, lf |-> m.rec.lf \/ (user.rfm # "stmlf" /\ user.cr)]

GetRecord ==
  /\ CopyReply("get", "read")
  /\ CASE CopyMsg.t = "DATA" ->
            /\ CopyGoes(CopyGot, user)
            /\ local' = [local EXCEPT ![user.file] = Append(@, Line(CopyMsg))]
       [] CopyMsg = Status("eof") ->
            /\ CloseInput(CopyGot, [user EXCEPT !.done = @ \cup {user.file}])
            /\ UNCHANGED local
       [] Success(CopyMsg) ->
            /\ CopyGoes(Write(CopyGot, "client", Control("get", "seqft")), user)
            /\ UNCHANGED local
       [] CopyMsg.t = "ACK" -> CopyGoes(CopyGot, user) /\ UNCHANGED local
       [] OTHER -> CopyReturns(Complains(user), 3) /\ UNCHANGED local

-----------------------------------------------------------------------------
(***************************************************************************)
(* Sending.                                                                *)
(***************************************************************************)
\* dap_send_attributes and dap_send_access
SendCreate(k, n) ==
  SendBlock(SendBlock(k, "client", <<Attrib("stmlf", TRUE)>>), "client",
            <<Access("create", [names |-> <<n>>, wild |-> FALSE], {"main", "name"})>>)

\* The next file of the command line, or the end of it
PutNext(k, u, files) ==
  IF files = <<>> THEN Exits([conn EXCEPT ![MainLink] = k], u, 0, FALSE)
  ELSE CopyGoes(SendCreate(k, Head(files)),
                [u EXCEPT !.pc = "entry", !.todo = files, !.rest = local[Head(files)]])

PutConfig ==
  /\ CopyReply("put", "config")
  /\ IF CopyMsg.t = "CONFIG" THEN PutNext(CopyGot, user, user.todo)
     ELSE CopyReturns(Complains(user), 1)

PutOpenFails ==
  IF user.cmd.goOn THEN PutNext(CopyGot, Complains(user), Tail(user.todo))
  ELSE CopyReturns(Complains(user), 1)

PutEntry ==
  /\ CopyReply("put", "entry")
  /\ IF EntryPart(CopyMsg) THEN CopyGoes(CopyGot, NoteEntry(user, CopyMsg))
     ELSE IF CopyMsg.t = "ACK"
       THEN CopyGoes(SendConnect(CopyGot), [user EXCEPT !.pc = "connect"])
     ELSE PutOpenFails

PutConnected ==
  /\ CopyReply("put", "connect")
  /\ IF IsReply(CopyMsg) /\ ~WriteFails(CopyGot, "client")
       THEN CopyGoes(Write(CopyGot, "client", Control("put", "seqft")),
                     [user EXCEPT !.pc = "write"])
       ELSE PutOpenFails

\* A record, and a look at what the other end may say to it
PutRecord ==
  LET k == Write(Block(conn[MainLink], "client"), "client", Data(Head(user.rest)))
      m == NextMessage(k, "client")
      u == [user EXCEPT !.rest = Tail(@)]
  IN /\ user.cmd.prog = "put" /\ user.pc = "write" /\ user.rest # <<>>
     /\ Len(conn[MainLink]["server"].queue) < Room
     /\ IF ~CanRead(k, "client") THEN CopyGoes(k, u)
        ELSE IF Success(m) \/ m = Status("eof") THEN CopyGoes(ReadMessage(k, "client"), u)
        ELSE CopyReturns(Complains(user), 3)

PutClose ==
  /\ user.cmd.prog = "put" /\ user.pc = "write" /\ user.rest = <<>>
  /\ CopyGoes(SendClose(conn[MainLink], user.cmd.fop), [user EXCEPT !.pc = "closing"])

PutClosed ==
  /\ CopyReply("put", "closing")
  /\ IF IsReply(CopyMsg)
       THEN PutNext(CopyGot, [user EXCEPT !.done = @ \cup {Head(user.todo)}],
                    Tail(user.todo))
       ELSE CopyReturns(Complains(user), 3)

-----------------------------------------------------------------------------
PutStep == PutConfig \/ PutEntry \/ PutConnected \/ PutRecord \/ PutClose \/ PutClosed

CopyStep ==
  \/ (GetConfig \/ GetEntry \/ PutStep) /\ UNCHANGED <<local, fault>>
  \/ (GetConnected \/ GetRecord) /\ UNCHANGED fault

-----------------------------------------------------------------------------
(***************************************************************************)
(* dndel deletes the files of a name or wildcard with one ERASE.  With -v  *)
(* (or -i) it lists them over one link and deletes each of them over       *)
(* another, telling the user.                                              *)
(***************************************************************************)

DelReply(pc, l) == user.cmd.prog = "del" /\ user.pc = pc /\ HasReply(l)
Closes(u, code) == Exits(conn, u, code, TRUE)

\* The two links are set up one after the other, then the files are asked for.
DelConfig ==
  /\ DelReply("config", MainLink)
  /\ IF TheReply(MainLink).t # "CONFIG" THEN Closes(Complains(user), 255)
     ELSE Goes(MainLink, IF user.cmd.verbose THEN Got(MainLink)
                        ELSE Write(Got(MainLink), "client",
                                   Access("erase", user.cmd, {"main"})),
               [user EXCEPT !.pc = IF user.cmd.verbose THEN "second" ELSE "list"])

DelSecondConfig ==
  /\ DelReply("second", DelLink)
  /\ IF TheReply(DelLink).t # "CONFIG" THEN Closes(Complains(user), 255)
     ELSE /\ conn' = [conn EXCEPT ![DelLink] = Got(DelLink),
                        ![MainLink] = Write(@, "client",
                                           Access("directory", user.cmd, {"main"}))]
          /\ user' = [user EXCEPT !.pc = "list"]

\* dap_delete_file, for the file that was named
Delete(k, n) ==
  /\ conn' = [conn EXCEPT ![MainLink] = k,
                ![DelLink] = Write(@, "client",
                               Access("erase", [names |-> <<n>>, wild |-> FALSE], {}))]
  /\ user' = [user EXCEPT !.pc = "ack", !.file = n]

\* check_status: what follows the name, if it is there already
NamedFile(k, n) ==
  IF ~CanRead(k, "client") THEN Delete(k, n)
  ELSE IF NextMessage(k, "client").t = "STATUS" THEN Closes(Complains(user), 0)
  ELSE Delete(ReadMessage(k, "client"), n)

\* dap_get_dir_entry.  For a message it does not expect it returns a field of
\* the message it has just deleted: the loop may go on or end.
DelList ==
  LET m == TheReply(MainLink)
      k == Got(MainLink)
  IN /\ DelReply("list", MainLink)
     /\ CASE m.t = "NAME" /\ m.type = "filename" -> NamedFile(k, m.file)
          [] m.t = "NAME" /\ m.type # "filename" -> Goes(MainLink, k, user)
          [] m.t = "ACK" -> Goes(MainLink, k, user)
          [] m.t = "ACCOMP" -> Closes(user, 0)
          [] m.t = "STATUS" -> Closes(Complains(user), 0)
          [] m.t = "none" -> Closes(user, 0)
          [] OTHER -> Goes(MainLink, k, user) \/ Closes(user, 0)

\* dap_get_delete_ack: one message is taken for the answer
DelAck ==
  LET m == TheReply(DelLink) IN
  /\ DelReply("ack", DelLink)
  /\ Goes(DelLink, Got(DelLink),
          [user EXCEPT !.pc = "list",
                       !.done = IF m.t \in {"ACCOMP", "ACK"} THEN @ \cup {user.file} ELSE @,
                       !.said = @ \/ m.t = "STATUS"])

DelStep ==
  (DelConfig \/ DelSecondConfig \/ DelList \/ DelAck) /\ UNCHANGED <<local, fault>>

-----------------------------------------------------------------------------
(***************************************************************************)
(* dndir lists files; dnsubmit queues a command file, and dnprint opens a  *)
(* file to have it printed when it is closed.                              *)
(***************************************************************************)

ToolReply(prog, pc) == user.cmd.prog = prog /\ user.pc = pc /\ HasReply(MainLink)
ToolMsg == TheReply(MainLink)
ToolGoes(k, u) == Goes(MainLink, k, u)
ToolExits(u, code) == Exits(conn, u, code, TRUE)

-----------------------------------------------------------------------------
DirConfig ==
  /\ ToolReply("dir", "config")
  /\ IF ToolMsg.t # "CONFIG" THEN ToolExits(Complains(user), 255)
     ELSE ToolGoes(Write(Got(MainLink), "client", Access("directory", user.cmd, {"main"})),
                   [user EXCEPT !.pc = "list"])

\* A name is printed when its ACK comes, or the next name, or the end
DirList ==
  LET m == ToolMsg
      k == Got(MainLink)
  IN /\ ToolReply("dir", "list")
     /\ CASE m.t = "NAME" ->
               ToolGoes(k, IF m.type = "filename" THEN [Printed(user) EXCEPT !.file = m.file]
                           ELSE Printed(user))
          [] m.t = "ACK" -> ToolGoes(k, Printed(user))
          [] m.t = "STATUS" -> ToolExits([Complains(user) EXCEPT !.file = NoName], 0)
          [] m.t = "ACCOMP" -> ToolExits(Printed(user), 0)
          [] m.t = "none" -> ToolExits(Complains(user), 2)
          [] OTHER -> ToolGoes(k, user)

-----------------------------------------------------------------------------
\* submit(), for dnsubmit and dnprint
SubmitConfig ==
  \E prog \in {"submit", "print"} :
    /\ ToolReply(prog, "config")
    /\ IF ToolMsg.t # "CONFIG" THEN ToolExits(Complains(user), 255)
       ELSE ToolGoes(SendBlock(Got(MainLink), "client",
                       <<Attrib("stmlf", TRUE),
                         Access(IF prog = "print" THEN "open" ELSE "submit",
                                user.cmd, {})>>),
                     [user EXCEPT !.pc = "reply"])

\* read_reply is content with the first message of an answer
Accepted(m) == m.t \in {"ATTRIB", "ACK", "ACCOMP", "NAME"}
SubmitReply ==
  \E prog \in {"submit", "print"} :
    /\ ToolReply(prog, "reply")
    /\ IF ~Accepted(ToolMsg) THEN ToolExits(Complains(user), 0)
       ELSE IF prog = "submit"
         THEN ToolExits([user EXCEPT !.done = {Head(user.cmd.names)}], 0)
       ELSE ToolGoes(Write(Got(MainLink), "client", Accomp("close", {"spl"})),
                     [user EXCEPT !.pc = "closing"])

PrintClosed ==
  /\ ToolReply("print", "closing")
  /\ ToolExits(IF Accepted(ToolMsg) THEN [user EXCEPT !.done = {Head(user.cmd.names)}]
               ELSE Complains(user), 0)

ToolStep ==
  (DirConfig \/ DirList \/ SubmitConfig \/ SubmitReply \/ PrintClosed)
    /\ UNCHANGED <<local, fault>>
=============================================================================

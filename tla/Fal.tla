-------------------------------- MODULE Fal --------------------------------
(***************************************************************************)
(* The file access listener: one fal process per link.  It takes a message *)
(* at a time from the link; an ACCESS message starts a task, and while a   *)
(* task lasts every message goes to it.                                    *)
(*                                                                         *)
(* A file is a sequence of lines, or a directory; a line is its text and   *)
(* whether it has its line end, which only the last one may lack.  What    *)
(* file types, metafiles, the names of other systems and the virtual root  *)
(* do to a file is left out.                                               *)
(***************************************************************************)
EXTENDS Dap
LOCAL SeqX == INSTANCE SequencesExt
LOCAL INSTANCE Functions

CONSTANTS Dir,         \* what a directory holds
          Pattern      \* a wildcard that matches nothing, taken as it is

VARIABLES srv,         \* the fal process of each link
          fs           \* the files of its host

\* st:        waits for CONFIG, for a message, sends a file, or is gone
\* task:      current_task
\* glob:      the paths from glob_entry on; the first is the open file
\* stream:    what is still to be read of it
\* ateof:     feof(stream)
\* streaming, create, display: the members of the task
\* old:       oldname of a rename
NewFal == [st |-> "config", task |-> "none", glob |-> <<>>, stream |-> <<>>,
           ateof |-> FALSE, streaming |-> FALSE, display |-> {}, old |-> Pattern]
Task(task) == [NewFal EXCEPT !.st = "run", !.task = task]

\* What a handler leaves: the link k, the process s and the files f
Left(k, s, f) == [k |-> k, s |-> s, f |-> f]
Ended(k, f) == Left(Close(k, "server"), [NewFal EXCEPT !.st = "gone"], f)

ReturnError(k) == Reply(k, "server", Status("error"))
\* mutant: no answer
BadRespond(k) == k
Respond(k) == Write(k, "server", Accomp("response", {}))
Completed(k, f) == Left(k, Task("none"), f)
Failed(k, f) == Completed(ReturnError(k), f)

-----------------------------------------------------------------------------
\* glob, without and with GLOB_NOCHECK
Glob(spec, f) == SelectSeq(spec.names, LAMBDA n : n \in DOMAIN f)
GlobNoCheck(spec, f) ==
  IF Glob(spec, f) # <<>> THEN Glob(spec, f)
  ELSE IF spec.wild THEN <<Pattern>> ELSE spec.names

Without(f, ns) == Restrict(f, DOMAIN f \ ns)
With(f, n, recs) == [m \in DOMAIN f \cup {n} |-> IF m = n THEN recs ELSE f[m]]

\* The messages of send_file_attributes
MainAttributes(n, display, f) ==
  IF "main" \notin display THEN <<>>
  ELSE IF f[n] = Dir THEN <<Attrib("var", FALSE)>> ELSE <<Attrib("stmlf", TRUE)>>
Attributes(n, display, f) ==
  MainAttributes(n, display, f) \o
  (IF "name" \in display THEN <<NameIs("filename", n)>> ELSE <<>>)
AttributesOfOne(g, display, f) ==
  IF Len(g) = 1 THEN Attributes(Head(g), display, f) ELSE <<>>

-----------------------------------------------------------------------------
(***************************************************************************)
(* The tasks.                                                              *)
(***************************************************************************)
\* Opens the first file of the list and tells the client about it
OpenFile(k, s, f) ==
  LET n == Head(s.glob) IN
  IF n \notin DOMAIN f THEN Failed(k, f)
  ELSE Left(SendBlock(k, "server", Attributes(n, s.display, f) \o <<Ack>>),
            [s EXCEPT !.stream = f[n], !.ateof = FALSE], f)

OnOpen(k, m, f) ==
  OpenFile(k, [Task("open") EXCEPT !.glob = GlobNoCheck(m.spec, f),
                                   !.display = m.display], f)

OnCreate(k, m, f) ==
  LET n == Head(m.spec.names)
      g == With(f, n, <<>>)
  IN IF n \in DOMAIN f /\ f[n] = Dir THEN Failed(k, f)
     ELSE OpenFile(k, [Task("open") EXCEPT !.glob = <<n>>, !.display = m.display], g)

\* unlink takes the files in turn, up to one that it cannot remove
Erased(g, f) ==
  {g[i] : i \in {j \in DOMAIN g : \A h \in 1..j : f[g[h]] # Dir}}
OnErase(k, m, f) ==
  LET g == Glob(m.spec, f)
      gone == Erased(g, f)
      stuck == \E i \in DOMAIN g : f[g[i]] = Dir
      j == WriteAll(Block(k, "server"), "server", AttributesOfOne(g, m.display, f))
  IN IF g = <<>> THEN Failed(k, f)
     ELSE IF stuck THEN Failed(j, Without(f, gone))
     ELSE Completed(Unblock(WriteAll(j, "server", <<Ack, Accomp("response", {})>>),
                            "server"), Without(f, gone))

\* mutant: a file that is not there gets its ACK too
BadDirEntry(n, display, f) ==
  <<NameIs("filename", n)>> \o
  (IF n \in DOMAIN f THEN MainAttributes(n, display, f) ELSE <<>>) \o <<Ack>>

\* The entry of a file in a directory listing
DirEntry(n, display, f) ==
  <<NameIs("filename", n)>> \o
  (IF n \in DOMAIN f
     THEN MainAttributes(n, display, f) \o <<Ack>>
     ELSE <<Status("error")>>)

OnDirectory(k, m, f) ==
  LET g == GlobNoCheck(m.spec, f)
      head == WriteAll(k, "server", <<NameIs("volume", Pattern), NameIs("directory", Pattern)>>)
      list == SeqX!FlattenSeq([i \in DOMAIN g |-> DirEntry(g[i], m.display, f)])
  IN Completed(SendBlock(head, "server", Append(list, Accomp("response", {}))), f)

OnSubmit(k, m, f) ==
  LET g == Glob(m.spec, f) IN
  IF g = <<>> THEN Failed(k, f)
  ELSE Completed(SendBlock(k, "server", Append(AttributesOfOne(g, m.display, f),
                                               Accomp("response", {}))), f)

OnRename(k, m, f) ==
  Left(k, [Task("rename") EXCEPT !.old = Head(m.spec.names), !.display = m.display], f)
OnNewName(k, m, s, f) ==
  IF s.old \notin DOMAIN f THEN Failed(k, f)
  ELSE Completed(
         SendBlock(k, "server",
           (IF "name" \in s.display
              THEN <<NameIs("filename", s.old), Ack, m, Ack>> ELSE <<>>)
           \o <<Accomp("response", {})>>),
         With(Without(f, {s.old}), m.file, f[s.old]))

-----------------------------------------------------------------------------
(***************************************************************************)
(* The messages of an open file.                                           *)
(***************************************************************************)
\* Reading on finds the end of the file, and drops a line that has no end;
\* of the others the end is taken off.  Nothing is ever read of a directory.
AtEnd(s) == s.stream # Dir /\ (s.stream = <<>> \/ ~Head(s.stream).lf)
NextRecord(s) ==
  [text |-> IF s.stream = Dir THEN "" ELSE Head(s.stream).text, lf |-> FALSE]
PastRecord(s) == [s EXCEPT !.stream = IF @ = Dir THEN Dir ELSE Tail(@)]
PastEnd(s) == [s EXCEPT !.stream = <<>>, !.ateof = TRUE, !.st = "run"]
SendEof(k) == Reply(k, "server", Status("eof"))

\* A record at a time: the record and a STATUS; streaming: all of the file
OnGet(k, s, f) ==
  IF ~s.streaming /\ s.ateof THEN Left(SendEof(k), s, f)
  ELSE IF s.streaming THEN Left(Block(k, "server"), [s EXCEPT !.st = "send"], f)
  ELSE IF AtEnd(s) THEN Left(SendEof(Block(k, "server")), PastEnd(s), f)
  ELSE Left(SendBlock(k, "server", <<Data(NextRecord(s)), Status("ok")>>), PastRecord(s), f)

OnControl(k, m, t, f) ==
  LET s == [t EXCEPT !.streaming = @ \/ m.rac = "seqft"] IN
  CASE m.func = "connect" -> Left(SendBlock(k, "server", <<Ack>>), s, f)
    [] m.func = "get" -> OnGet(k, s, f)
    [] m.func = "put" -> Left(k, s, f)

\* The file is closed, and the next one of a wildcard opened
NextPath(s) == [s EXCEPT !.glob = Tail(@)]
HasNext(s) == Len(s.glob) > 1
Closed(s, m, f) == IF "dlt" \in m.fop THEN Without(f, {Head(s.glob)}) ELSE f

\* mutant: the file is deleted after the list has moved on
BadOnClose(k, m, s, f) ==
  IF HasNext(s)
    THEN LET o == OpenFile(k, NextPath(s), f) IN Left(o.k, o.s, Closed(NextPath(s), m, f))
    ELSE Completed(Respond(k), Closed(s, m, f))

OnClose(k, m, s, f) ==
  IF HasNext(s) THEN OpenFile(k, NextPath(s), Closed(s, m, f))
  ELSE Completed(Respond(k), Closed(s, m, f))

OnAccomp(k, m, s, f) ==
  CASE m.func = "close" -> OnClose(k, m, s, f)
    [] m.func = "end_of_stream" -> Left(Respond(k), s, f)
    [] OTHER -> Completed(k, f)

\* put_record; the file may have lost its name
OnData(k, m, s, f) ==
  LET n == Head(s.glob) IN
  Left(IF s.streaming THEN k ELSE Reply(k, "server", Status("ok")), s,
       IF n \in DOMAIN f THEN With(f, n, Append(f[n], m.rec)) ELSE f)

InOpen(k, m, s, f) ==
  CASE m.t = "CONTROL" -> OnControl(k, m, s, f)
    [] m.t = "ACCOMP" -> OnAccomp(k, m, s, f)
    [] m.t = "DATA" -> OnData(k, m, s, f)
    [] m.t = "ACK" -> Left(k, s, f)
    [] OTHER -> Completed(k, f)

InRename(k, m, s, f) ==
  IF m.t = "NAME" THEN OnNewName(k, m, s, f) ELSE Left(k, s, f)

-----------------------------------------------------------------------------
OnAccess(k, m, f) ==
  CASE m.func = "open" -> OnOpen(k, m, f)
    [] m.func = "create" -> OnCreate(k, m, f)
    [] m.func = "erase" -> OnErase(k, m, f)
    [] m.func = "directory" -> OnDirectory(k, m, f)
    [] m.func = "submit" -> OnSubmit(k, m, f)
    [] m.func = "rename" -> OnRename(k, m, f)
    [] OTHER -> Ended(Write(k, "server", Status("unsupported")), f)

\* A message while there is no task
OnIdle(k, m, s, f) ==
  CASE m.t = "ATTRIB" -> Left(k, s, f)
    [] m.t = "CONFIG" -> Left(Write(k, "server", Config), s, f)
    [] m.t = "ACCOMP" -> Left(Respond(k), s, f)
    [] OTHER -> Ended(Write(k, "server", Status("unsupported")), f)

ProcessMessage(k, m, s, f) ==
  CASE m.t = "ACCESS" -> OnAccess(k, m, f)
    [] m.t # "ACCESS" /\ s.task = "none" -> OnIdle(k, m, s, f)
    [] m.t # "ACCESS" /\ s.task = "open" -> InOpen(k, m, s, f)
    [] m.t # "ACCESS" /\ s.task = "rename" -> InRename(k, m, s, f)

-----------------------------------------------------------------------------
(***************************************************************************)
(* The steps of the process.                                               *)
(***************************************************************************)
Leaves(l, o) ==
  /\ conn' = [conn EXCEPT ![l] = o.k] /\ srv' = [srv EXCEPT ![l] = o.s] /\ fs' = o.f

\* The message that st is waiting for has come
FalReads(l, st) == srv[l].st = st /\ CanRead(conn[l], "server")
FalMsg(l) == NextMessage(conn[l], "server")
FalGot(l) == ReadMessage(conn[l], "server")

\* fal_server::exchange_config
FalConfig(l) ==
  /\ FalReads(l, "config")
  /\ Leaves(l, IF FalMsg(l).t = "CONFIG" THEN Completed(FalGot(l), fs)
               ELSE Ended(FalGot(l), fs))
  /\ UNCHANGED fault

\* fal_server::run
FalMessage(l) ==
  /\ FalReads(l, "run")
  /\ Leaves(l, ProcessMessage(FalGot(l), FalMsg(l), srv[l], fs))
  /\ UNCHANGED fault

\* The loop of send_file: a record, and a look at what the client may say
FalSendRecord(l) ==
  LET s == srv[l]
      k == conn[l]
      j == Write(k, "server", Data(NextRecord(s)))
      i == ReadMessage(j, "server")
  IN /\ s.st = "send" /\ Len(k["client"].queue) < Room
     /\ Leaves(l,
          IF AtEnd(s) THEN Left(SendEof(k), PastEnd(s), fs)
          ELSE IF WriteFails(k, "server") THEN Completed(k, fs)
          ELSE IF ~CanRead(j, "server") THEN Left(j, PastRecord(s), fs)
          ELSE IF NextMessage(j, "server").t = "STATUS" THEN Completed(i, fs)
          ELSE IF NextMessage(j, "server").t = "ACCOMP"
            THEN Completed(Reply(ClearOutputBuffer(i, "server"), "server",
                                 Accomp("response", {})), fs)
          ELSE Left(i, PastRecord(s), fs))
     /\ UNCHANGED fault

\* The link is gone: the process ends
FalClosed(l) ==
  /\ srv[l].st \in {"config", "run"} /\ ReadFails(conn[l], "server")
  /\ Leaves(l, Ended(conn[l], fs))
  /\ UNCHANGED fault

-----------------------------------------------------------------------------
\* The file cannot be created; the old one may be gone by then.
FalCreateFails(l) ==
  /\ Fault("create") /\ FalReads(l, "run")
  /\ FalMsg(l).t = "ACCESS" /\ FalMsg(l).func = "create"
  /\ \E f \in {fs, Without(fs, {Head(FalMsg(l).spec.names)})} :
       Leaves(l, Failed(FalGot(l), f))

\* fwrite fails in put_record
FalWriteFails(l) ==
  /\ Fault("write") /\ FalReads(l, "run")
  /\ FalMsg(l).t = "DATA" /\ srv[l].task = "open"
  /\ Leaves(l, Failed(FalGot(l), fs))

\* Somebody else removes a file, which may be in the list of a wildcard.
FileVanishes ==
  /\ Fault("vanish")
  /\ \E n \in DOMAIN fs : fs[n] # Dir /\ fs' = Without(fs, {n})
  /\ UNCHANGED <<conn, srv>>

\* The process is killed
FalKilled(l) ==
  /\ Fault("kill") /\ srv[l].st # "gone"
  /\ Leaves(l, Ended(ClearOutputBuffer(conn[l], "server"), fs))

FalStep(l) == FalConfig(l) \/ FalMessage(l) \/ FalSendRecord(l) \/ FalClosed(l)
FalFault(l) == FalCreateFails(l) \/ FalWriteFails(l) \/ FalKilled(l)

=============================================================================

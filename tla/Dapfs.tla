-------------------------------- MODULE Dapfs --------------------------------
(***************************************************************************)
(* dapfs: a mounted file system that asks for the attributes of files,     *)
(* removes and renames them, one call after another over one connection    *)
(* that lasts as long as the mount.  (Reading and writing go through       *)
(* librms, over connections of their own.)  The names have a dot in them,  *)
(* and the calls come one at a time.                                       *)
(***************************************************************************)
EXTENDS DapUser

FsReply(pcs) == user.cmd.prog = "fs" /\ user.pc \in pcs /\ HasReply(MainLink)
FsMsg == TheReply(MainLink)
FsGot == Got(MainLink)
FsGoes(k, u) == Goes(MainLink, k, u)
FsCall == Head(user.todo)

\* The call returns
Returns(k, ret) ==
  FsGoes(k, [user EXCEPT !.pc = "idle", !.todo = Tail(@), !.ret = ret])

\* restart_dap closes the socket and connects again with it: there is no new
\* one, the connect fails, and nobody looks at its result.
Restart(k) == Close(ClearOutputBuffer(k, "client"), "client")

\* An ACCESS message, with what follows it, or the end of the connection
Asks(k, ms, u) ==
  IF WriteFails(k, "client") THEN Returns(Restart(k), "EIO")
  ELSE FsGoes(WriteAll(k, "client", ms), u)

File(n) == [names |-> <<n>>, wild |-> FALSE]
GetAttr(k, n, pc) ==
  Asks(k, <<Access("directory", File(n), {"main"})>>, [user EXCEPT !.pc = pc, !.ret = "ok"])

-----------------------------------------------------------------------------
FsConfig ==
  /\ FsReply({"config"})
  /\ IF FsMsg.t = "CONFIG" THEN FsGoes(FsGot, [user EXCEPT !.pc = "idle"])
     ELSE Exits(conn, Complains(user), 107, TRUE)

FsCalled ==
  LET k == conn[MainLink] IN
  /\ user.cmd.prog = "fs" /\ user.pc = "idle" /\ user.todo # <<>>
  /\ \/ FsCall.op = "getattr" /\ GetAttr(k, FsCall.name, "getattr")
     \/ FsCall.op = "rename" /\ GetAttr(k, FsCall.name, "from")
     \/ /\ FsCall.op = "unlink"
        /\ Asks(k, <<Access("erase", File(FsCall.name), {})>>, [user EXCEPT !.pc = "unlink"])

Unmounted ==
  /\ user.cmd.prog = "fs" /\ user.pc = "idle" /\ user.todo = <<>>
  /\ Exits(conn, user, 0, TRUE)

\* dap_rename_file goes on once it knows what the old name is: a file, or
\* else a directory.
HasAttr(k, ret) ==
  CASE user.pc = "getattr" -> Returns(k, ret)
    [] user.pc = "from" /\ ret # "ok" -> GetAttr(k, NoName, "fromdir")
    [] user.pc = "fromdir" /\ ret # "ok" -> Returns(k, ret)
    [] user.pc # "getattr" /\ ret = "ok" ->
         Asks(k, <<Access("rename", File(FsCall.name), {}), NameIs("filespec", FsCall.to)>>,
              [user EXCEPT !.pc = "rename"])

\* dapfs_getattr_dap reads up to an ACCOMP or the end of the link, and
\* answers a STATUS with a SKIP.  refused: what it has done that for.
FsAttr ==
  /\ FsReply({"getattr", "from", "fromdir"})
  /\ CASE FsMsg.t \in {"ACCOMP", "none"} -> HasAttr(FsGot, user.ret)
       [] FsMsg.t = "STATUS" ->
            IF WriteFails(FsGot, "client")
              THEN FsGoes(Restart(FsGot), [user EXCEPT !.ret = "EIO"])
              ELSE FsGoes(Write(FsGot, "client", Contran),
                          [user EXCEPT !.ret = "ENOENT", !.refused = @ \cup {FsCall.name}])
       [] OTHER -> FsGoes(FsGot, user)

\* mutant: the ACK before it will do
BadIsDone(m) == m.t \in {"ACK", "ACCOMP"}

IsDone(m) == m.t = "ACCOMP"
\* dap_delete_file and dap_rename_file read up to an ACCOMP or STATUS; that
\* there may be no message at all they do not expect.
FsDone ==
  /\ FsReply({"unlink", "rename"})
  /\ CASE IsDone(FsMsg) -> Returns(FsGot, "ok")
       [] FsMsg.t = "STATUS" -> Returns(FsGot, "EPERM")
       [] FsMsg.t = "none" -> Exits(conn, Complains(user), 139, FALSE)
       [] OTHER -> FsGoes(FsGot, user)

-----------------------------------------------------------------------------
\* dapfs_readdir_dap has a connection of its own, which it asks for a listing.
ReaddirReply(pc) == user.cmd.prog = "readdir" /\ user.pc = pc /\ HasReply(MainLink)
Readdir ==
  /\ ReaddirReply("config")
  /\ IF FsMsg.t = "CONFIG"
       THEN FsGoes(Write(FsGot, "client", Access("directory", user.cmd, {"main"})),
                   [user EXCEPT !.pc = "list"])
       ELSE Exits(conn, Complains(user), 107, TRUE)

\* A STATUS ends the listing, and the call returns as if all were well.
ReaddirList ==
  /\ ReaddirReply("list")
  /\ CASE FsMsg.t = "NAME" ->
            FsGoes(FsGot, IF FsMsg.type = "filename" THEN [user EXCEPT !.file = FsMsg.file]
                          ELSE user)
       [] FsMsg.t = "ACK" -> FsGoes(FsGot, Printed(user))
       [] FsMsg.t = "STATUS" -> Exits(conn, [user EXCEPT !.file = NoName], 0, TRUE)
       [] FsMsg.t = "ACCOMP" -> Exits(conn, Printed(user), 0, TRUE)
       [] FsMsg.t = "none" -> Exits(conn, Complains(user), 2, TRUE)
       [] OTHER -> FsGoes(FsGot, user)

FsStep ==
  (FsConfig \/ FsCalled \/ Unmounted \/ FsAttr \/ FsDone \/ Readdir \/ ReaddirList) /\ UNCHANGED <<local, fault>>

=============================================================================

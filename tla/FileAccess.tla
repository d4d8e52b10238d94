----------------------------- MODULE FileAccess -----------------------------
(***************************************************************************)
(* A command works on the files of another node: the command, the links it *)
(* opens, and the fal process at the far end of each.                      *)
(***************************************************************************)
EXTENDS Fal, DapTools, Librms, Dapfs
LOCAL INSTANCE Functions
LOCAL SeqX == INSTANCE SequencesExt

CONSTANTS Starts,      \* the command lines that may be given, each with what
                       \* the file system of the node holds at first
          Source       \* the local files to be sent

falVars == <<srv, fs>>
vars == <<conn, fault, falVars, user, local>>

Prog(set) == user.cmd.prog \in set
LinksOf(cmd) == IF cmd.prog = "del" /\ cmd.verbose THEN {MainLink, DelLink} ELSE {MainLink}

Init ==
  /\ fault = {}
  /\ \E start \in Starts :
       LET cmd == start.cmd IN
       /\ user = NewUser(cmd) /\ fs = start.fs
       /\ conn = [l \in Link |-> IF l \in LinksOf(cmd) THEN NewLink
                                 ELSE Close(Close(NewLink, "client"), "server")]
       /\ srv = [l \in Link |-> IF l \in LinksOf(cmd) THEN NewFal
                                ELSE [NewFal EXCEPT !.st = "gone"]]
       /\ local = IF cmd.prog \in {"put", "write"} THEN Source ELSE <<>>

\* The process of the command is killed.
UserKilled ==
  /\ Fault("kill") /\ user.pc # "exit"
  /\ Exits(conn, Complains(user), 137, FALSE)
  /\ UNCHANGED local

UserStep == (CopyStep \/ DelStep \/ ToolStep \/ RmsStep \/ FsStep) /\ UNCHANGED falVars
ServerStep(l) == FalStep(l) /\ UNCHANGED <<user, local>>
LinkStep(l) == (\E e \in Side : Disconnected(l, e)) /\ UNCHANGED <<srv, fs, user, local>>

Mishap ==
  \/ (GetOpenFails \/ UserKilled) /\ UNCHANGED falVars
  \/ ((\E l \in Link : FalFault(l)) \/ FileVanishes) /\ UNCHANGED <<user, local>>
  \/ \E l \in Link : LinkLost(l) /\ UNCHANGED <<srv, fs, user, local>>

\* The command is over and everybody knows
Over == user.pc = "exit" /\ \A l \in Link : srv[l].st = "gone"

Next ==
  \/ UserStep \/ Mishap
  \/ \E l \in Link : ServerStep(l) \/ LinkStep(l)

\* A step can be taken: ENABLED of UserStep, ServerStep and LinkStep, written out
UserReady ==
  \/ user.pc \in {"call", "close", "idle"}
  \/ user.pc = "write" /\ (user.rest = <<>> \/ Len(conn[MainLink]["server"].queue) < Room)
  \/ Prog({"del"}) /\ user.pc \in {"second", "ack"} /\ HasReply(DelLink)
  \/ /\ user.pc \in {"config", "entry", "connect", "read", "closing", "list", "reply",
                     "open", "status", "record", "written", "getattr", "from", "fromdir",
                     "unlink", "rename"}
     /\ HasReply(MainLink)
ServerReady(l) ==
  \/ srv[l].st \in {"config", "run"} /\ (CanRead(conn[l], "server") \/ ReadFails(conn[l], "server"))
  \/ srv[l].st = "send" /\ Len(conn[l]["client"].queue) < Room
LinkReady(l) == \E e \in Side : conn[l][e].up /\ ~conn[l][Peer(e)].open

\* Weak fairness of each: every process runs on, and a link that an end has closed is closed for the
\* other end as well.
Spec ==
  /\ Init /\ [][Next]_vars
  /\ []<>~UserReady \/ []<><<UserStep>>_vars
  /\ \A l \in Link : []<>~ServerReady(l) \/ []<><<ServerStep(l)>>_vars
  /\ \A l \in Link : []<>~LinkReady(l) \/ []<><<LinkStep(l)>>_vars

-----------------------------------------------------------------------------
Texts(lines) == [i \in DOMAIN lines |-> lines[i].text]
AllEnded(lines) == \A i \in DOMAIN lines : lines[i].lf
Matching == {n \in Range(user.cmd.names) : n \in DOMAIN fs}
\* It exits, and has complained about nothing
Content(prog) == Prog({prog}) /\ user.pc = "exit" /\ ~user.said
\* Nobody else had a hand in the files
Undisturbed == "vanish" \notin fault

(***************************************************************************)
(* A file the command has reported sent is on the node as it is here; one  *)
(* it has reported fetched, if all of its lines are ended, has their texts *)
(* in their order: what goes wrong on either side or between is reported   *)
(* for the file it happens to (dap_put_record, put_record,                 *)
(* dap_send_accomp; send_file, dap_get_record).  A program that reads it   *)
(* through rms_read may have one empty record after them.                  *)
(***************************************************************************)
CopiedWhole ==
  \A n \in user.done :
    /\ (Prog({"put", "write"}) /\ Undisturbed) => n \in DOMAIN fs /\ fs[n] = local[n]
    /\ (n \in DOMAIN fs /\ fs[n] # Dir /\ AllEnded(fs[n])) =>
         /\ Prog({"get"}) => Texts(local[n]) = Texts(fs[n])
         /\ Prog({"read"}) => Texts(local[n]) \in {Texts(fs[n]), Append(Texts(fs[n]), "")}

(***************************************************************************)
(* A command that ends without an error has dealt with every file that     *)
(* matches: dncopy has fetched those it was not refused; a listing, by     *)
(* dndir or of a mounted directory, has the files that are there and no    *)
(* others; dndel has left none of those it can delete, also when it ends   *)
(* at a message it does not expect (dnetfile::next, the next file in       *)
(* fal_open::process_message, name_pending in dndir.cc and dapfs_dap.cc,   *)
(* fal_erase, dap_get_dir_entry).                                          *)
(***************************************************************************)
NothingMissed ==
  /\ (Content("get") /\ user.code = 0 /\ user.refused = {}) => Matching \subseteq user.done
  /\ ((Content("dir") \/ Content("readdir")) /\ Undisturbed) => user.done = Matching
  /\ (Content("del") /\ fault = {} /\ ~user.cmd.verbose) => \A n \in Matching : fs[n] = Dir

(***************************************************************************)
(* -D takes no file away that dncopy has begun to store here and not       *)
(* stored to its end (delete_file on the CLOSE that dnetfile::close sends).*)
(***************************************************************************)
OnlyFetchedRemoved ==
  (Prog({"get"}) /\ Undisturbed) => \A n \in DOMAIN local \ user.done : n \in DOMAIN fs

(***************************************************************************)
(* Nothing that was said for the calls before is still to be heard, and    *)
(* the process at the other end is ready for the next.                     *)
(***************************************************************************)
Quiet ==
  /\ conn[MainLink]["client"].in = <<>> /\ conn[MainLink]["client"].queue = <<>>
  /\ \/ srv[MainLink].st = "config" /\ Len(conn[MainLink]["server"].queue) = 1
     \/ /\ srv[MainLink].st = "run" /\ srv[MainLink].task = "none"
        /\ ~CanRead(conn[MainLink], "server")

(***************************************************************************)
(* Between two calls on a mounted file system all is quiet, so that no     *)
(* call takes an old answer for its own (dapfs_getattr_dap,                *)
(* dap_delete_file, dap_rename_file): on condition that no call so far has *)
(* asked for the attributes of a file that is not there.                   *)
(***************************************************************************)
CallsApart ==
  (Prog({"fs"}) /\ user.pc = "idle" /\ fault = {} /\ user.refused = {}) => Quiet

(***************************************************************************)
(* Whatever goes wrong, the command ends, and so does every fal process.   *)
(***************************************************************************)
CommandEnds == <>Over

=============================================================================

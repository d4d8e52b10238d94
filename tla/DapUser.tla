------------------------------ MODULE DapUser ------------------------------
(***************************************************************************)
(* A command of the user that works on files of another node: what the     *)
(* programs on the client side of libdap have in common.                   *)
(***************************************************************************)
EXTENDS Dap

CONSTANTS NoName,      \* no file
          MainLink     \* the link a command opens first

ASSUME LinkAssumption == MainLink \in Link

VARIABLES user,        \* the process of the command
          local        \* the files of its host

\* cmd:    the command line: the program, the files it names or matches
\*         with a wildcard (of a mounted file system: the calls made), its
\*         options
\* pc:     the reply it waits for, or what it does next
\* todo:   the files of the command line still to be done
\* file:   filname, the file at hand
\* rest:   what is left of it to send
\* rfm, cr: the attributes of the file at hand
\* opened: isOpen, and the first file of a wildcard is done
\* refused: the files the user did not want
\* done:   the files the command has reported done
\* said:   it has reported an error
\* ret:    what a call on a mounted file system returns
\* code:   how it exited
NewUser(cmd) ==
  [cmd |-> cmd, pc |-> "config", todo |-> cmd.names, file |-> NoName, rest |-> <<>>,
   rfm |-> "stmlf", cr |-> FALSE, opened |-> FALSE, refused |-> {},
   done |-> {}, said |-> FALSE, ret |-> "ok", code |-> 0]

\* The next message of link l, or that there is none to come
HasReply(l) == CanRead(conn[l], "client") \/ ReadFails(conn[l], "client")
TheReply(l) ==
  IF CanRead(conn[l], "client") THEN NextMessage(conn[l], "client") ELSE [t |-> "none"]
Got(l) ==
  IF CanRead(conn[l], "client") THEN ReadMessage(conn[l], "client") ELSE conn[l]

\* dap_check_status, for a status asked for as success
Success(m) == m.t = "STATUS" /\ m.code = "ok"

\* The process goes on as u, with k for its link l
Goes(l, k, u) == conn' = [conn EXCEPT ![l] = k] /\ user' = u

\* It exits: what it had not sent yet is flushed only by conn.close()
Exits(c, u, code, flush) ==
  /\ user' = [u EXCEPT !.pc = "exit", !.code = code]
  /\ conn' = [l \in Link |->
       Close(IF flush THEN c[l] ELSE ClearOutputBuffer(c[l], "client"), "client")]
Complains(u) == [u EXCEPT !.said = TRUE]

\* The name at hand, of a directory listing, is given to the user
Printed(u) == [u EXCEPT !.done = @ \cup ({u.file} \ {NoName}), !.file = NoName]

=============================================================================

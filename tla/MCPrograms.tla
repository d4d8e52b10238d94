----------------------------- MODULE MCPrograms -----------------------------
(***************************************************************************)
(* Instances of Programs.                                                  *)
(***************************************************************************)
EXTENDS Programs, TLC

-----------------------------------------------------------------------------
(* Terminals *)

Session(kind, keys) == [host |-> kind, keys |-> keys]
AllSessions ==
  {Session("ctermd", <<"a", "LF", "^C", "ESC", "[", "A">>),
   Session("ctermd", <<"^Y", "b", "ESC", "O", "^Y", "a", "^]">>),
   Session("vms", <<"a", "b", "ESC", "[", "D", "DEL", "^A", "b", "CR">>),
   Session("vms", <<"b", "^H", "a", "^E", "ESC", "[", "C", "^C", "a">>)}
AllKeys == {"a", "b", "[", "O", "A", "C", "D"}
AllReads ==
  {StartRead(FALSE, DefaultTerminators, "host", TRUE, 80, TRUE, <<>>),
   StartRead(TRUE, {"CR"}, "yes", TRUE, 80, FALSE, <<"a">>),
   StartRead(FALSE, {}, "no", TRUE, 2, FALSE, <<>>)}

-----------------------------------------------------------------------------
(* Tasks *)

AllJobs ==
  {[program |-> <<"a", "LF", "LF", "b", "a", "LF", "b">>, interactive |-> FALSE, stdin |-> <<>>],
   [program |-> <<"b", "a", "LF", "ask", "a", "LF">>, interactive |-> TRUE,
    stdin |-> <<<<"a", "LF", "b", "LF">>, <<"LF">>, <<"b", "LF">>>>]}

-----------------------------------------------------------------------------
(* Mail *)

Line(x) == [x |-> x, lf |-> TRUE]
LastLine(x) == [x |-> x, lf |-> FALSE]
AllMails ==
  [to : {"bob"}, smtp : BOOLEAN,
   body : {<<>>, <<Line("a"), Line("dot"), Line("b")>>, <<Line("a"), Line("blank"), LastLine("b")>>}]

-----------------------------------------------------------------------------
(* The super server *)

ConfLine(name, number, proxy, user, daemon, auto) ==
  [name |-> name, number |-> number, proxy |-> proxy, user |-> user, daemon |-> daemon, auto |-> auto]
MailEntry == ConfLine("MAIL", 27, FALSE, "mail", "vmsmaild", 0)
ShowEntry == ConfLine("SHOW", 0, TRUE, NoName, "show", 1)
AnyEntry == ConfLine("*", 0, TRUE, NoName, "internal", 0)
MirrorEntry == ConfLine("MIRROR", 25, TRUE, NoName, "internal", 0)
NotMirror == ConfLine("MIRROR", 25, TRUE, "mail", "internal", -1)
AllConfs == {<<MailEntry, AnyEntry, ShowEntry, MirrorEntry>>, <<ShowEntry, AnyEntry, NotMirror>>, <<>>}

Asked(node, object, number, user, remote, right) ==
  [node |-> node, object |-> object, number |-> number, user |-> user, remote |-> remote, right |-> right]
AllRequests ==
  {Asked("near", "MAIL", 27, NoName, "ann", FALSE), Asked("near", "SHOW", 0, "bob", "ann", TRUE),
   Asked("far", "MIRROR", 25, NoName, "eve", FALSE), Asked("far", "MAIL", 27, NoName, "joe", FALSE)}
SomeProxies == <<[remotes |-> {"ann"}, local |-> "bob"], [remotes |-> {"ann", "eve"}, local |-> "*"]>>
Deny == {[objects |-> {"ALL"}, nodes |-> {"far"}]}
Allow == {[objects |-> {"MIRROR"}, nodes |-> {"ALL"}], [objects |-> {"MAIL"}, nodes |-> {"near"}]}
=============================================================================

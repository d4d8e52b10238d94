---------------------------- MODULE MCFileAccess ----------------------------
(***************************************************************************)
(* Instances of FileAccess.                                                *)
(***************************************************************************)
EXTENDS FileAccess, TLC

CONSTANTS f1, f2, l1, l2

Text(text) == [text |-> text, lf |-> TRUE]
LastText(text) == [text |-> text, lf |-> FALSE]

Command(prog, names) ==
  [prog |-> prog, names |-> names, wild |-> FALSE, goOn |-> FALSE, ask |-> FALSE,
   fop |-> {}, verbose |-> FALSE]
Wild(prog) == [Command(prog, <<f1, f2>>) EXCEPT !.wild = TRUE]
One(prog) == Command(prog, <<f1>>)

Call(op, name, to) == [op |-> op, name |-> name, to |-> to]
\* One file is removed twice, and the last two calls are about one that is gone
Calls ==
  <<Call("unlink", f1, f1), Call("unlink", f1, f1), Call("getattr", f2, f2),
    Call("rename", f2, f1), Call("getattr", f1, f1), Call("getattr", f2, f2),
    Call("unlink", f2, f2)>>

AllCommands ==
  {Wild("get"), One("get"), Wild("dir"), Wild("readdir"), Wild("del"), One("del"), Wild("submit"),
   One("submit"), One("print"), One("read"), One("write"),
   [Wild("get") EXCEPT !.fop = {"dlt"}], [Wild("get") EXCEPT !.goOn = TRUE],
   [Wild("get") EXCEPT !.ask = TRUE],
   [Wild("del") EXCEPT !.verbose = TRUE],
   Command("put", <<f1, f2>>), [Command("put", <<f1, f2>>) EXCEPT !.goOn = TRUE]}

TwoFiles == f1 :> <<Text("a"), Text("b"), Text("c")>> @@ f2 :> <<Text("a"), LastText("b")>>
SomeServed == {TwoFiles, f2 :> <<Text("a")>>, <<>>}

AllStarts ==
  [cmd : AllCommands, fs : SomeServed]
    \cup [cmd : {Wild("dir"), Wild("readdir"), Wild("del"), One("del"), One("put"),
                   One("submit")},
          fs : {f1 :> Dir @@ f2 :> <<Text("a")>>}]
    \cup [cmd : {Command("fs", Calls)}, fs : {TwoFiles, f2 :> <<Text("a")>>}]
=============================================================================

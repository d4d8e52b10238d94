------------------------------ MODULE Programs ------------------------------
(***************************************************************************)
(* Programs that use DECnet: terminal sessions, tasks, mail and the super  *)
(* server.  Each scene is one of them; the others do nothing in it.        *)
(***************************************************************************)
EXTENDS Terminal, Tasks, Mail, Dnetd

VARIABLE scene

termOwn == <<tty, typist, host>>
taskOwn == <<task, pty, copier, dntask>>
mailOwn == <<sender, maild, mta>>
vars == <<scene, wire, termOwn, taskOwn, mailOwn, dnetdVars>>

Init ==
  \/ /\ scene = "terminal" /\ wire = OpenLink /\ \E s \in Sessions : TermBegin(s)
     /\ TaskIdle /\ MailIdle /\ DnetdIdle
  \/ /\ scene = "task" /\ wire = OpenLink /\ \E j \in Jobs : TaskBegin(j)
     /\ TermIdle /\ MailIdle /\ DnetdIdle
  \/ /\ scene = "mail" /\ wire = OpenLink /\ \E m \in Mails : MailBegin(m)
     /\ TermIdle /\ TaskIdle /\ DnetdIdle
  \/ /\ scene = "dnetd" /\ wire = ShutLink /\ DnetdInit
     /\ TermIdle /\ TaskIdle /\ MailIdle

Next ==
  /\ UNCHANGED scene
  /\ \/ /\ scene = "terminal" /\ TermNext
        /\ UNCHANGED <<taskOwn, mailOwn, dnetdVars>>
     \/ /\ scene = "task" /\ TaskNext
        /\ UNCHANGED <<termOwn, mailOwn, dnetdVars>>
     \/ /\ scene = "mail" /\ MailNext
        /\ UNCHANGED <<termOwn, taskOwn, dnetdVars>>
     \/ /\ scene = "dnetd" /\ DnetdNext
        /\ UNCHANGED <<wire, termOwn, taskOwn, mailOwn>>

\* The fairness of a program that does nothing holds.
Spec == Init /\ [][Next]_vars /\ TermFair /\ DnetdFair
=============================================================================

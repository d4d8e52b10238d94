------------------------------- MODULE Tasks -------------------------------
(***************************************************************************)
(* A task: a program that task_server of dnetd runs on a pseudo terminal,  *)
(* the copy loop between that terminal and the link, and dntask at the     *)
(* other end, which prints what comes and may send what its user types.    *)
(*                                                                         *)
(* "CR" "LF" end a line on the terminal.  The terminal is in canonical     *)
(* mode with echo, as openpty leaves it.                                   *)
(***************************************************************************)
EXTENDS LogicalLink
LOCAL SeqX == INSTANCE SequencesExt

CONSTANTS Jobs,       \* what the program does, what is typed, and how dntask is called
          ChunkSize   \* the size of the buffer of copy

\* What programs write and users type.  A program that writes CR without LF is left
\* out: copy skips the character after it (strsep), and loses it.
Character == STRING \ {"CR", "NUL", "0x80"}

ASSUME JobsAssumption ==
  \A j \in Jobs : /\ j.program \in Seq(Character) /\ j.interactive \in BOOLEAN
                  /\ j.stdin \in Seq(Seq(Character) \ {<<>>})
ASSUME ChunkAssumption == ChunkSize \in Nat \ {0}

VARIABLES task,     \* the program: what it still does
          pty,      \* the terminal: out, what it shows, and in, what the program may read
          copier,   \* the copy loop of dnetd
          dntask    \* dntask

taskVars == <<task, pty, copier, dntask, wire>>

\* shown: history, all that was ever on the terminal
NewPty == [out |-> <<>>, in |-> <<>>, shown |-> <<>>]
\* split: history, a read ended inside a line
NewCopier == [st |-> "run", split |-> FALSE]

TaskIdle == /\ task = [st |-> "over", todo |-> <<>>] /\ pty = NewPty
            /\ copier = [NewCopier EXCEPT !.st = "over"]
            /\ dntask = [st |-> "over", interactive |-> FALSE, stdin |-> <<>>, printed |-> <<>>]
TaskBegin(j) == /\ task = [st |-> "run", todo |-> j.program] /\ pty = NewPty /\ copier = NewCopier
                /\ dntask = [st |-> "run", interactive |-> j.interactive, stdin |-> j.stdin,
                             printed |-> <<>>]

-----------------------------------------------------------------------------
(* The program, and the terminal it runs on *)

\* A newline is shown as CR LF.
Glyph(char) == IF char = "LF" THEN <<"CR", "LF">> ELSE <<char>>
Shown(chars) ==
  LET upto[n \in 0..Len(chars)] == IF n = 0 THEN <<>> ELSE upto[n - 1] \o Glyph(chars[n])
  IN  upto[Len(chars)]
Show(t, chars) == [t EXCEPT !.out = @ \o Shown(chars), !.shown = @ \o Shown(chars)]

Running == task.st = "run" /\ copier.st = "run"

TaskWrites ==
  /\ Running /\ task.todo # <<>> /\ Head(task.todo) # "ask"
  /\ pty' = Show(pty, <<Head(task.todo)>>)
  /\ task' = [task EXCEPT !.todo = Tail(@)]
  /\ UNCHANGED <<copier, dntask, wire>>

\* The program reads a line, when there is a whole one.
TaskAsks ==
  /\ Running /\ task.todo # <<>> /\ Head(task.todo) = "ask"
  /\ \E n \in DOMAIN pty.in :
       /\ pty.in[n] = "LF" /\ \A m \in 1..n - 1 : pty.in[m] # "LF"
       /\ pty' = [pty EXCEPT !.in = SubSeq(@, n + 1, Len(@))]
  /\ task' = [task EXCEPT !.todo = Tail(@)]
  /\ UNCHANGED <<copier, dntask, wire>>

TaskEnds ==
  /\ Running /\ task.todo = <<>>
  /\ task' = [task EXCEPT !.st = "over"]
  /\ UNCHANGED <<pty, copier, dntask, wire>>

-----------------------------------------------------------------------------
(* copy *)

Delimiter == {"CR", "LF"}
Blank == <<"NUL">>
Flush == <<"0x80">>

\* mutant: the character after a delimiter is not skipped
BadBehind(rest) == rest

\* what is left to split behind a delimiter: one more character is skipped
Behind(rest) == IF rest = <<>> THEN rest ELSE Tail(rest)

\* strsep in a loop: the pieces of buf that a delimiter ends.  What follows the
\* last delimiter is not sent.
Pieces(buf) ==
  LET left[n \in 0..Len(buf)] ==  \* the pieces, and the rest, after n rounds
        LET s == left[n - 1]
            ends == {i \in DOMAIN s.rest : s.rest[i] \in Delimiter}
            end == CHOOSE i \in ends : \A j \in ends : i <= j
            piece == SubSeq(s.rest, 1, end - 1)
        IN  IF n = 0 THEN [sent |-> <<>>, rest |-> buf]
            ELSE IF ends = {} THEN s
            ELSE [sent |-> Append(s.sent, IF piece = <<>> THEN Blank ELSE piece),
                  rest |-> Behind(SubSeq(s.rest, end + 1, Len(s.rest)))]
  IN  left[Len(buf)].sent

CopyOut ==
  /\ copier.st = "run" /\ pty.out # <<>>
  /\ LET n == IF Len(pty.out) < ChunkSize THEN Len(pty.out) ELSE ChunkSize
         chunk == SubSeq(pty.out, 1, n)
     IN  /\ wire' = PutAll(wire, "server", Pieces(chunk))
         /\ pty' = [pty EXCEPT !.out = SubSeq(@, n + 1, Len(@))]
         /\ copier' = [copier EXCEPT !.split = @ \/ SeqX!Last(chunk) # "LF"]
  /\ UNCHANGED <<task, dntask>>

\* What dntask sent is typed on the terminal, which shows it.
CopyIn ==
  /\ copier.st = "run" /\ Waiting(wire, "server")
  /\ pty' = [Show(pty, Foremost(wire, "server")) EXCEPT !.in = @ \o Foremost(wire, "server")]
  /\ wire' = Taken(wire, "server")
  /\ UNCHANGED <<task, copier, dntask>>

\* finished: the terminal is gone with its program, or the link; the program
\* is killed.
CopyEnds ==
  /\ copier.st = "run"
  /\ (task.st = "over" /\ pty.out = <<>>) \/ Hears(wire, "server")
  /\ wire' = Shut(Put(wire, "server", Flush), "server")
  /\ copier' = [copier EXCEPT !.st = "over"]
  /\ task' = [task EXCEPT !.st = "over"]
  /\ UNCHANGED <<pty, dntask>>

-----------------------------------------------------------------------------
(* dntask *)

PrintOutput ==
  /\ dntask.st = "run" /\ Waiting(wire, "client")
  /\ dntask' = [dntask EXCEPT !.printed = Append(@, Foremost(wire, "client"))]
  /\ wire' = Taken(wire, "client")
  /\ UNCHANGED <<task, pty, copier>>

\* A read of the terminal that dntask runs on, or of a file: its last newline
\* is taken off.
TypedOn ==
  /\ dntask.st = "run" /\ dntask.interactive /\ dntask.stdin # <<>>
  /\ LET read == Head(dntask.stdin)
         sent == IF SeqX!Last(read) = "LF" THEN SeqX!Front(read) ELSE read
     IN  wire' = IF sent = <<>> THEN wire ELSE Put(wire, "client", sent)
  /\ dntask' = [dntask EXCEPT !.stdin = Tail(@)]
  /\ UNCHANGED <<task, pty, copier>>

\* The link is gone, the input of be_interactive ends, or its time is out.
DntaskEnds ==
  /\ dntask.st = "run" /\ (Hears(wire, "client") \/ dntask.interactive)
  /\ dntask' = [dntask EXCEPT !.st = "over"]
  /\ wire' = Shut(wire, "client")
  /\ UNCHANGED <<task, pty, copier>>

-----------------------------------------------------------------------------
TaskNext ==
  \/ TaskWrites \/ TaskAsks \/ TaskEnds \/ CopyOut \/ CopyIn \/ CopyEnds
  \/ PrintOutput \/ TypedOn \/ DntaskEnds
  \/ (LinkCut /\ UNCHANGED <<task, pty, copier, dntask>>)

-----------------------------------------------------------------------------
\* The lines that the terminal showed, without their ends; the last one is
\* what has no end yet.
Lines(shown) ==
  LET line[n \in 0..Len(shown)] ==
        IF n = 0 THEN <<<<>>>>
        ELSE CASE shown[n] = "CR" -> line[n - 1]
               [] shown[n] = "LF" -> Append(line[n - 1], <<>>)
               [] OTHER -> [line[n - 1] EXCEPT ![Len(line[n - 1])] = Append(@, shown[n])]
  IN  line[Len(shown)]

EndsIn(line, m) == Len(m) <= Len(line) /\ m = SubSeq(line, Len(line) - Len(m) + 1, Len(line))

\* how many of lines a sequence of messages has come through, each but blank
\* lines and the last message a tail of a line after that of the one before it;
\* more than all lines if it is not so
Through(messages, lines) ==
  LET at[n \in 0..Len(messages)] ==
        IF n = 0 THEN 0
        ELSE LET later == {i \in at[n - 1] + 1..Len(lines) : EndsIn(lines[i], messages[n])}
             IN  IF messages[n] \in {Blank, Flush} THEN at[n - 1]
                 ELSE IF later = {} THEN Len(lines) + 1
                 ELSE CHOOSE i \in later : \A j \in later : i <= j
  IN  at[Len(messages)]

\* messages are the first of lines, each whole, and Flush may follow them.
WholeLines(messages, lines) ==
  \A i \in DOMAIN messages :
    IF messages[i] = Flush THEN i = Len(messages)
    ELSE i \in DOMAIN lines /\ messages[i] = IF lines[i] = <<>> THEN Blank ELSE lines[i]

(***************************************************************************)
(* What dntask prints is the end of lines of the terminal, no line twice   *)
(* and none out of order; and while copy reads whole lines it is every     *)
(* line, blank ones too (copy, whose reads are cut where the program       *)
(* paused or the buffer is full, and the strsep loop in it).               *)
(***************************************************************************)
TaskOutput ==
  LET lines == Lines(pty.shown)
  IN  /\ Through(dntask.printed, lines) <= Len(lines)
      /\ ~copier.split => WholeLines(dntask.printed, lines)
=============================================================================

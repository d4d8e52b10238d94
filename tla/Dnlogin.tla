------------------------------ MODULE Dnlogin -------------------------------
(***************************************************************************)
(* The terminal of dnlogin: the keyboard, its read ahead, the line that is *)
(* being typed, and the messages of the foundation services and of CTERM   *)
(* that it exchanges with a host.                                          *)
(*                                                                         *)
(* A handler is an operator from a terminal to a terminal.  What appears   *)
(* on the screen is left out, and with it echo and output formatting.      *)
(***************************************************************************)
EXTENDS Naturals, Sequences
LOCAL SeqX == INSTANCE SequencesExt

CONSTANTS AheadSize,   \* bytes in rahead_buf
          Plain,       \* keys that are no control characters
          Exit         \* exit_char

ASSUME AheadAssumption == AheadSize \in Nat \ {0}

ControlKeys == {"CR", "LF", "ESC", "^A", "^B", "^C", "^E", "^H", "^O", "^U", "^W", "^X", "^Y", "^Z", "DEL"}
AnyKey == Plain \cup ControlKeys
\* What the history of a line has besides keys: a cursor key, and that the line was discarded
Moves == {"LEFT", "RIGHT", "DISCARD"}

ASSUME KeysAssumption == Plain \cap (ControlKeys \cup Moves) = {} /\ Exit \notin Moves

\* Bytes in escape sequences: 32 to 47, and 48 to 63.  The rest of Plain is 64 to 126.
Spacing == {" ", "!"}
Digits == {"1", "2", "?", ";"}
\* tty_set_default_terminators, whose comment leaves out ^X; the bits do not.
DefaultTerminators == {"^B", "^C", "LF", "CR", "^O", "^X", "^Y", "^Z", "ESC"}

-----------------------------------------------------------------------------
(* Messages *)

Bind == [t |-> "BIND"]
BindAccept == [t |-> "BINDACCEPT"]
Unbind == [t |-> "UNBIND"]
EnterMode == [t |-> "ENTERMODE"]
NoMode == [t |-> "NOMODE"]
Initiate == [t |-> "INITIATE"]
\* clear: the typeahead; terms: None leaves the set as it is; recognize: escape
\* sequences, "host" as the host has set it; timed: a timeout is given
StartRead(clear, terms, recognize, edit, max, timed, line) ==
  [t |-> "START_READ", clear |-> clear, terms |-> terms, recognize |-> recognize,
   edit |-> edit, max |-> max, timed |-> timed, line |-> line]
ReadData(data, why) == [t |-> "READ_DATA", data |-> data, why |-> why]
OutOfBand(key) == [t |-> "OOB", data |-> <<key>>]
Unread == [t |-> "UNREAD"]
Write == [t |-> "WRITE", complete |-> FALSE]
WriteComplete == [t |-> "WRITE_COMPLETE"]
\* oob: keys that are sent out of band; flush: those of them that discard input
Characteristics(oob, flush, escapes, states) ==
  [t |-> "CHARACTERISTICS", oob |-> oob, flush |-> flush, escapes |-> escapes, states |-> states]
CheckInput == [t |-> "CHECK_INPUT"]
InputCount(n) == [t |-> "INPUT_COUNT", n |-> n]
InputState == [t |-> "INPUT_STATE"]

-----------------------------------------------------------------------------
(***************************************************************************)
(* pending:   read_pending, a read of the host is to be answered           *)
(* ahead:     rahead_buf                                                   *)
(* line, pos: input_buf and input_pos                                      *)
(* esc, escState: esc_buf, and where parse_escape is in it                 *)
(* escapes, states, oob, flush: han_char and char_attr, set by the host    *)
(* out:       messages written and not yet on the link                     *)
(* since:     history, the line the read began with, the insert mode then, *)
(*            and what was typed for it since                              *)
(***************************************************************************)
NewTerminal ==
  [pending |-> FALSE, ahead |-> <<>>, line |-> <<>>, pos |-> 0,
   esc |-> <<>>, escState |-> 0, terms |-> {}, recognize |-> FALSE, edit |-> FALSE,
   insert |-> FALSE, max |-> 1024, timed |-> FALSE,
   escapes |-> TRUE, states |-> TRUE, oob |-> {}, flush |-> {}, out |-> <<>>, finished |-> FALSE,
   since |-> [line |-> <<>>, insert |-> FALSE, keys |-> <<>>]]

Say(t, m) == [t EXCEPT !.out = Append(@, m)]
Fed(t, key) == [t EXCEPT !.since.keys = Append(@, key)]

\* cterm_send_input
SendInput(t, data, why) == [Say(t, ReadData(data, why)) EXCEPT !.pending = FALSE]

SendInputBuffer(t, why) ==
  [SendInput(t, t.line, why) EXCEPT !.line = <<>>, !.pos = 0, !.recognize = FALSE]

\* One byte of an escape sequence: the state after it, and whether it was the last.  A byte that fits
\* nowhere ends the sequence and leaves the state.
ParseEscape(s, c) ==
  LET More(n) == [last |-> FALSE, state |-> n]
      Done(n) == [last |-> TRUE, state |-> n]
  IN  IF c \notin Plain THEN Done(s)
      ELSE CASE s = 0 /\ c \in {"?", ";"} -> More(10)
             [] s = 0 /\ c = "O" -> More(20)
             [] s = 0 /\ c = "Y" -> More(30)
             [] s = 0 /\ c = "[" -> More(15)
             [] s \in {0, 10} /\ c \in Spacing -> More(10)
             [] s = 15 /\ c \in Digits -> More(15)
             [] s \in {15, 20} /\ c \in Spacing -> More(20)
             [] s = 20 /\ c \in Digits -> More(40)
             [] s = 30 -> More(40)
             [] OTHER -> Done(0)

\* mutant: what follows in the line is not moved up
BadDelete(t) == [t EXCEPT !.line = SubSeq(@, 1, Len(@) - 1), !.pos = @ - 1]

DeleteKey(t) ==
  IF t.pos = 0 THEN t
  ELSE [t EXCEPT !.line = SeqX!RemoveAt(@, t.pos), !.pos = @ - 1]

\* A control character that ends no read
ControlKey(t, k) ==
  CASE k \in {"^X", "^U"} -> [t EXCEPT !.line = <<>>, !.pos = 0]
    [] k = "^H" -> [t EXCEPT !.pos = 0]
    [] k = "^E" -> [t EXCEPT !.pos = Len(t.line)]
    [] k = "^A" -> [t EXCEPT !.insert = ~@]
    [] k = "DEL" -> DeleteKey(t)
    [] k = "CR" -> SendInputBuffer([t EXCEPT !.line = Append(@, k)], "terminator")
    [] OTHER -> t

\* A character of the line
TextKey(t, k) ==
  LET line == IF t.pos = Len(t.line) THEN Append(t.line, k)
              ELSE IF t.insert THEN SeqX!InsertAt(t.line, t.pos + 1, k)
              ELSE [t.line EXCEPT ![t.pos + 1] = k]
      u == [t EXCEPT !.line = line, !.pos = @ + 1]
  IN  IF Len(line) >= t.max THEN SendInputBuffer(u, "full") ELSE u

\* The cursor keys move in the line; every other sequence goes to the host.
EscapeKey(t, k) ==
  LET esc == Append(t.esc, k)
      p == ParseEscape(t.escState, k)
      u == [t EXCEPT !.esc = IF p.last THEN <<>> ELSE esc, !.escState = p.state]
      Is(key) == t.edit /\ Len(esc) >= 3 /\ SubSeq(esc, 1, 3) = <<"ESC", "[", key>>
  IN  IF ~p.last THEN u
      ELSE IF Is("C") THEN Fed([u EXCEPT !.pos = IF @ < Len(t.line) THEN @ + 1 ELSE @], "RIGHT")
      ELSE IF Is("D") THEN Fed([u EXCEPT !.pos = IF @ > 0 THEN @ - 1 ELSE @], "LEFT")
      ELSE SendInput(u, t.line \o esc, "escape")

Converted(t, k) ==
  IF k = "LF" THEN "CR" ELSE IF k = "^C" /\ k \notin t.oob THEN "^Y" ELSE k

\* mutant: a key typed ahead overtakes those before it
BadAhead(t, k) ==
  LET u == IF t.ahead = <<>> /\ t.states THEN Say(t, InputState) ELSE t
  IN  IF Len(t.ahead) < AheadSize THEN [u EXCEPT !.ahead = <<k>> \o @] ELSE u

\* No read is active.
Ahead(t, k) ==
  LET u == IF t.ahead = <<>> /\ t.states THEN Say(t, InputState) ELSE t
  IN  IF Len(t.ahead) < AheadSize THEN [u EXCEPT !.ahead = Append(@, k)] ELSE u

\* The body of the loop of tty_process_terminal.  Nothing is done after exit_char.
Key(t, key) ==
  LET k == Converted(t, key) IN
  CASE t.finished -> t
    [] ~t.finished /\ key = Exit -> [t EXCEPT !.finished = TRUE]
    [] OTHER ->
       IF k \in t.oob
         THEN LET u == Say(t, OutOfBand(k)) IN
              IF k \in t.flush THEN Fed([u EXCEPT !.line = <<>>, !.pos = 0], "DISCARD") ELSE u
       ELSE IF ~t.pending THEN Ahead(t, k)
       ELSE IF k = "ESC" /\ t.esc = <<>> /\ t.recognize THEN [t EXCEPT !.esc = <<k>>]
       ELSE IF t.esc = <<>> /\ k \in t.terms
         THEN SendInputBuffer([t EXCEPT !.line = Append(@, k)], "terminator")
       ELSE IF t.esc # <<>> THEN EscapeKey(t, k)
       ELSE IF k \notin Plain /\ t.edit THEN ControlKey(Fed(t, k), k)
       ELSE TextKey(Fed(t, k), k)

ProcessTerminal(t, keys) ==
  LET after[n \in 0 .. Len(keys)] == IF n = 0 THEN t ELSE Key(after[n - 1], keys[n])
  IN  after[Len(keys)]

\* cterm_process_start_read and tty_start_read: what was typed ahead is typed now.
BeginRead(t, m) ==
  LET u == [t EXCEPT !.terms = IF m.terms = {} THEN @ ELSE m.terms,
                     !.recognize = IF m.recognize = "host" THEN t.escapes ELSE m.recognize = "yes",
                     !.edit = m.edit, !.max = m.max, !.timed = m.timed,
                     !.line = m.line, !.pos = Len(m.line), !.pending = TRUE, !.ahead = <<>>,
                     !.since = [line |-> m.line, insert |-> t.insert, keys |-> <<>>]]
  IN  ProcessTerminal(u, IF m.clear THEN <<>> ELSE t.ahead)

\* cterm_process_network, and the foundation messages of found_read
Receive(t, m) ==
  CASE m.t = "BIND" -> Say(t, BindAccept)
    [] m.t = "ENTERMODE" -> Say(t, NoMode)
    [] m.t = "UNBIND" -> [t EXCEPT !.finished = TRUE]
    [] m.t = "INITIATE" -> Say(t, Initiate)
    [] m.t = "START_READ" -> BeginRead(t, m)
    [] m.t = "UNREAD" -> SendInputBuffer(t, "unread")
    [] m.t = "WRITE" -> IF m.complete THEN Say(t, WriteComplete) ELSE t
    [] m.t = "CHARACTERISTICS" ->
         [t EXCEPT !.oob = m.oob, !.flush = m.flush, !.escapes = m.escapes, !.states = m.states,
                   !.recognize = m.escapes]
    [] m.t = "CHECK_INPUT" -> Say(t, InputCount(Len(t.line) + Len(t.ahead)))
    [] OTHER -> t

\* select of mainloop times out
Timeout(t) == [SendInputBuffer(t, "timeout") EXCEPT !.timed = FALSE]
=============================================================================

------------------------------ MODULE Terminal ------------------------------
(***************************************************************************)
(* A terminal session: dnlogin at one end of a link, and at the other      *)
(* ctermd, which runs login on a pseudo terminal, or a VMS host, which is  *)
(* not part of this code and asks for whole lines.                         *)
(***************************************************************************)
EXTENDS Dnlogin, LogicalLink, FiniteSets
LOCAL SeqX == INSTANCE SequencesExt

CONSTANTS Sessions,   \* the hosts, each with what a user types
          Reads,      \* what a VMS host may ask for
          MaxAsk,     \* bound on the reads of a VMS host
          MaxTalk     \* bound on what a host says besides

ASSUME SessionsAssumption == \A s \in Sessions : s.keys \in Seq(AnyKey \cup {Exit})
ASSUME ReadsAssumption ==
  Reads \subseteq [t : {"START_READ"}, clear : BOOLEAN, terms : SUBSET AnyKey,
                  recognize : {"host", "yes", "no"}, edit : BOOLEAN, max : Nat, timed : BOOLEAN,
                  line : Seq(AnyKey)]

VARIABLES tty,    \* the terminal
          typist, \* what is still to be typed, and history: what has been, without
                  \* the keys that dnlogin had no room for
          host    \* the process at the far end

termVars == <<tty, typist, host, wire>>

\* given: history, what login has been given
NewHost(kind) == [kind |-> kind, st |-> "start", given |-> <<>>, asked |-> FALSE, asks |-> 0, talk |-> 0]
NoHost == [NewHost("none") EXCEPT !.st = "gone"]

TermIdle == /\ tty = [NewTerminal EXCEPT !.finished = TRUE]
            /\ typist = [keys |-> <<>>, typed |-> <<>>]
            /\ host = NoHost
TermBegin(s) == /\ tty = NewTerminal /\ typist = [keys |-> s.keys, typed |-> <<>>]
                /\ host = NewHost(s.host)

-----------------------------------------------------------------------------
(* dnlogin *)

\* The terminal is now t, and what it wrote is on link k.
Becomes(t, k) ==
  LET sent == PutAll(k, "client", t.out)
  IN  /\ tty' = [t EXCEPT !.out = <<>>]
      /\ wire' = IF t.finished THEN Shut(sent, "client") ELSE sent
      /\ UNCHANGED host

HasRoom(k) == tty.pending \/ Len(tty.ahead) < AheadSize \/ Converted(tty, k) \in tty.oob

Type ==
  /\ ~tty.finished /\ typist.keys # <<>>
  /\ LET k == Head(typist.keys) IN
       /\ Becomes(Key(tty, k), wire)
       /\ typist' = [keys |-> Tail(typist.keys),
                   typed |-> IF HasRoom(k) /\ k # Exit
                             THEN Append(typist.typed, Converted(tty, k)) ELSE typist.typed]

FoundRead ==
  /\ ~tty.finished /\ Waiting(wire, "client")
  /\ Becomes(Receive(tty, Foremost(wire, "client")), Taken(wire, "client"))
  /\ UNCHANGED typist

LinkGone ==
  /\ ~tty.finished /\ Hears(wire, "client")
  /\ Becomes([tty EXCEPT !.finished = TRUE], wire)
  /\ UNCHANGED typist

TimedOut == /\ ~tty.finished /\ tty.timed /\ tty.pending
            /\ Becomes(Timeout(tty), wire) /\ UNCHANGED typist

-----------------------------------------------------------------------------
(* ctermd.  Its reads ask for single characters, or whole escape sequences. *)

CtermRead == StartRead(FALSE, AnyKey, "yes", FALSE, 160, FALSE, <<>>)
SetChar == Characteristics({}, {}, TRUE, TRUE)

HostSays(k, ms) == wire' = PutAll(k, "server", ms)
HostIs(h) == host' = h /\ UNCHANGED <<tty, typist>>

\* mutant: no new read after an escape sequence
BadNextRead(m) == IF Len(m.data) > 1 THEN <<>> ELSE <<CtermRead>>

\* what ctermd sends for the message m
NextRead(m) == <<CtermRead>>

\* An interrupt is written by cterm_purge, and once more with the rest.
ForLogin(data) ==
  IF Head(data) \in {"^C", "^Y"} THEN <<"^C", "^C">> \o Tail(data) ELSE data

Ctermd == host.kind = "ctermd"

\* cterm_bind, up to its first read
CtermBind ==
  /\ host.st = "start" /\ HostSays(wire, <<Bind>>) /\ HostIs([host EXCEPT !.st = "bind"])

\* Anything but the answer to BIND, or the end of the link, ends it.
CtermBound ==
  /\ Ctermd /\ host.st = "bind" /\ Waiting(wire, "server")
  /\ IF Foremost(wire, "server") = BindAccept
       THEN /\ HostSays(Taken(wire, "server"), <<Initiate>>)
            /\ HostIs([host EXCEPT !.st = "init"])
       ELSE wire' = Shut(wire, "server") /\ HostIs([host EXCEPT !.st = "gone"])

\* The second read takes whatever comes.  Then login is started, unless there
\* is no pseudo terminal or no process.
CtermStarted ==
  /\ Ctermd /\ host.st = "init" /\ Waiting(wire, "server")
  /\ \/ /\ HostSays(Taken(wire, "server"), <<SetChar, Write, CtermRead>>)
        /\ HostIs([host EXCEPT !.st = "run"])
     \/ /\ wire' = Shut(Put(Taken(wire, "server"), "server", Write), "server")
        /\ HostIs([host EXCEPT !.st = "gone"])

\* login writes
CtermOutput ==
  /\ Ctermd /\ host.st = "run" /\ host.talk < MaxTalk /\ wire["server"].up
  /\ HostSays(wire, <<Write>>) /\ HostIs([host EXCEPT !.talk = @ + 1])

CtermInput ==
  /\ Ctermd /\ host.st = "run" /\ Waiting(wire, "server")
  /\ LET m == Foremost(wire, "server") IN
       IF m.t \in {"READ_DATA", "OOB"}
         THEN /\ HostSays(Taken(wire, "server"), NextRead(m))
              /\ HostIs([host EXCEPT !.given = @ \o ForLogin(m.data)])
         ELSE wire' = Taken(wire, "server") /\ HostIs(host)

\* login ends (SIGCHLD), or the link: cterm_reset.  A VMS user logs out.
CtermReset ==
  /\ host.kind # "none" /\ host.st # "gone"
  /\ host.st = "run" \/ Hears(wire, "server")
  /\ wire' = Shut(IF host.st = "run" THEN Put(wire, "server", Unbind) ELSE wire, "server")
  /\ HostIs([host EXCEPT !.st = "gone"])

-----------------------------------------------------------------------------
(* A VMS host *)

Vms == host.kind = "vms"

VmsInput ==
  /\ Vms /\ Waiting(wire, "server")
  /\ LET m == Foremost(wire, "server")
         rest == Taken(wire, "server")
     IN  CASE host.st = "bind" /\ m.t = "BINDACCEPT" ->
                HostSays(rest, <<EnterMode, Initiate>>) /\ HostIs([host EXCEPT !.st = "init"])
           [] host.st = "init" /\ m.t = "INITIATE" ->
                /\ HostSays(rest, <<Characteristics({"^C"}, {"^C"}, TRUE, FALSE)>>)
                /\ HostIs([host EXCEPT !.st = "run"])
           [] m.t \in {"READ_DATA", "OOB"} ->
                /\ wire' = rest
                /\ HostIs([host EXCEPT !.asked = @ /\ m.t = "OOB"])
           [] OTHER -> wire' = rest /\ HostIs(host)

VmsAsk ==
  /\ Vms /\ host.st = "run" /\ ~host.asked /\ host.asks < MaxAsk
  /\ \E m \in Reads : HostSays(wire, <<m>>)
  /\ HostIs([host EXCEPT !.asked = TRUE, !.asks = @ + 1])

VmsTalk ==
  /\ Vms /\ host.st = "run" /\ host.talk < MaxTalk
  /\ \E m \in {[Write EXCEPT !.complete = TRUE], CheckInput, Unread} :
       (m = Unread => host.asked) /\ HostSays(wire, <<m>>)
  /\ HostIs([host EXCEPT !.talk = @ + 1])

-----------------------------------------------------------------------------
TermLink == LinkCut /\ UNCHANGED <<tty, typist, host>>

TtyStep == Type \/ FoundRead \/ LinkGone \/ TimedOut
HostStep == CtermBind \/ CtermBound \/ CtermStarted \/ CtermOutput \/ CtermInput
            \/ CtermReset \/ VmsInput \/ VmsAsk \/ VmsTalk
TermNext == TtyStep \/ HostStep \/ TermLink

\* What is open to each process, written out
TtyReady == ~tty.finished /\ (Waiting(wire, "client") \/ Hears(wire, "client"))
HostReady ==
  \/ host.st = "start" \/ Hears(wire, "server")
  \/ Ctermd /\ host.st \in {"bind", "init", "run"} /\ Waiting(wire, "server")
  \/ Vms /\ Waiting(wire, "server")
HostAnswers ==
  CtermBind \/ CtermBound \/ CtermStarted \/ CtermInput \/ VmsInput
  \/ (CtermReset /\ Hears(wire, "server"))
\* Weak fairness: every process runs on while it can, and a link that an end
\* has closed is closed for the other.  Nobody has to type, to log out or to
\* say anything.
TermFair ==
  /\ []<>~TtyReady \/ []<><<FoundRead \/ LinkGone>>_termVars
  /\ []<>~HostReady \/ []<><<HostAnswers>>_termVars
  /\ []<>~CutReady \/ []<><<TermLink>>_termVars

-----------------------------------------------------------------------------
\* What login has been given, with one ^Y for the two ^C of an interrupt
Pressed(p, key) ==
  IF key # "^C" THEN [p EXCEPT !.keys = Append(@, key)]
  ELSE [keys |-> IF p.half THEN p.keys ELSE Append(p.keys, "^Y"), half |-> ~p.half]
Presses(data) ==
  LET after[n \in 0..Len(data)] ==
        IF n = 0 THEN [keys |-> <<>>, half |-> FALSE] ELSE Pressed(after[n - 1], data[n])
  IN  after[Len(data)].keys

\* Keys on their way to the host, and keys that dnlogin holds
DataOf(m) == IF m.t = "READ_DATA" THEN m.data ELSE <<>>
InFlight(queue) ==
  LET data[n \in 0..Len(queue)] == IF n = 0 THEN <<>> ELSE data[n - 1] \o DataOf(queue[n])
  IN  data[Len(queue)]
Held == tty.line \o tty.esc \o tty.ahead

(***************************************************************************)
(* The login that ctermd runs is given the keys that were typed, each once *)
(* and in their order, also those typed before it asked and those of       *)
(* escape sequences; while the link is up none is lost but those dnlogin   *)
(* had no room for (tty_process_terminal, rahead_buf; cterm_read after     *)
(* each message).                                                          *)
(***************************************************************************)
KeysInOrder ==
  Ctermd =>
    /\ SeqX!IsPrefix(Presses(host.given), typist.typed)
    /\ (host.st # "gone" /\ wire["server"].up /\ ~tty.finished /\ wire["client"].up) =>
         Presses(host.given) \o InFlight(wire["server"].queue) \o Held = typist.typed

(***************************************************************************)
(* Again and again either both ends are over, or login has all that was    *)
(* typed, but for an escape sequence that is not complete: no read of      *)
(* ctermd stays unanswered while keys wait, and no end outlives the other. *)
(***************************************************************************)
KeysArrive ==
  []<>\/ tty.finished /\ host.st = "gone"
      \/ Ctermd => Presses(host.given) \o tty.esc = typist.typed

\* A line as an editor keeps it, the text before the cursor and the text after it, when k is typed
EditKey(e, k, edit) ==
  CASE k = "DISCARD" \/ (edit /\ k \in {"^X", "^U"}) -> [e EXCEPT !.before = <<>>, !.after = <<>>]
    [] k = "LEFT" -> IF e.before = <<>> THEN e
                     ELSE [e EXCEPT !.before = SeqX!Front(@), !.after = <<SeqX!Last(e.before)>> \o @]
    [] k = "RIGHT" -> IF e.after = <<>> THEN e
                      ELSE [e EXCEPT !.before = Append(@, Head(e.after)), !.after = Tail(@)]
    [] edit /\ k = "^H" -> [e EXCEPT !.before = <<>>, !.after = e.before \o @]
    [] edit /\ k = "^E" -> [e EXCEPT !.before = @ \o e.after, !.after = <<>>]
    [] edit /\ k = "^A" -> [e EXCEPT !.insert = ~@]
    [] edit /\ k = "DEL" -> [e EXCEPT !.before = IF @ = <<>> THEN @ ELSE SeqX!Front(@)]
    [] k \in Plain \/ (~edit /\ k \notin Moves) ->
         [e EXCEPT !.before = Append(@, k),
                   !.after = IF e.insert \/ @ = <<>> THEN @ ELSE Tail(@)]
    [] OTHER -> e

\* What the keys since a read began make of its line
Edited(since, edit) ==
  LET after[n \in 0..Len(since.keys)] ==
        IF n = 0 THEN [before |-> since.line, after |-> <<>>, insert |-> since.insert]
        ELSE EditKey(after[n - 1], since.keys[n], edit)
  IN  after[Len(since.keys)]

(***************************************************************************)
(* The line of a read is what the keys typed for it make of it, ahead of   *)
(* it or since: input_buf, input_len and input_pos stay in step through    *)
(* insertion, overwriting, deletion, cursor keys and the discarding of the *)
(* line by a character out of band.                                        *)
(***************************************************************************)
LineAsEdited ==
  tty.pending => LET e == Edited(tty.since, tty.edit) IN
                   tty.line = e.before \o e.after /\ tty.pos = Len(e.before)
=============================================================================

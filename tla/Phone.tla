------------------------------- MODULE Phone -------------------------------
(***************************************************************************)
(* The phone: on each node the daemon phoned, which takes every incoming   *)
(* link and reads its first messages, and the program phone of a user, to  *)
(* which phoned hands the links for that user through a UNIX socket.       *)
(*                                                                         *)
(* A conversation needs two links, one opened by each side; everyone       *)
(* writes on the link he opened and reads from the other.  Text, HOLD and  *)
(* DIRECTORY are left out, as are the windows of the screen.               *)
(***************************************************************************)
EXTENDS Naturals, Sequences, FiniteSets

CONSTANTS User,       \* a user and his node
          None,
          Mood,       \* what phoned may answer for a user whose phone does not run
          Plans,      \* of each: who may dial whom, and how often
          Answers,    \* users who give the commands ANSWER and REJECT
          Mortal,     \* users whose phone may end
          MaxLink     \* bound on the links ever opened

ASSUME PhoneAssumption == None \notin Nat

VARIABLES link,       \* the links, in the order they were opened
          phone,      \* the phone program of each user
          unix,       \* its entry in the fdarray of phoned
          pipe,       \* what phoned has written to it
          alive,      \* phoned runs
          calls       \* how often each may still dial the other

phoneVars == <<link, phone, unix, pipe, alive, calls>>

End == {"near", "far"}
Other(e) == IF e = "near" THEN "far" ELSE "near"

-----------------------------------------------------------------------------
(***************************************************************************)
(* Links.  "near" is the end that opened it.                               *)
(***************************************************************************)
NewEnd == [open |-> TRUE, up |-> TRUE, queue |-> <<>>]

\* holder: who has the far end, if anybody; named: phoned has read for whom it is
NewLink(u, v) ==
  [from |-> u, to |-> v, near |-> NewEnd, far |-> NewEnd, holder |-> "phoned", named |-> FALSE]

Send(k, e, m) ==
  IF k[e].up /\ k[Other(e)].up THEN [k EXCEPT ![Other(e)].queue = Append(@, m)] ELSE k
Shut(k, e) ==
  [k EXCEPT ![e] = [open |-> FALSE, up |-> FALSE, queue |-> <<>>],
            !.holder = IF e = "far" THEN "none" ELSE @, !.named = @ /\ e = "near"]
Read(k, e) == [k EXCEPT ![e].queue = Tail(@)]

HasMessage(k, e) == k[e].up /\ k[e].queue # <<>>
AtEnd(k, e) == k[e].open /\ ~k[e].up

On(ks, l, op(_)) == IF l = None THEN ks ELSE [ks EXCEPT ![l] = op(@)]
SendOn(ks, l, e, m) == On(ks, l, LAMBDA k : Send(k, e, m))
CloseOn(ks, l, e) == On(ks, l, LAMBDA k : Shut(k, e))

\* The disconnect of the other end arrives; what was not read before is lost.
Disconnected(l, e) ==
  /\ link[l][e].up /\ ~link[l][Other(e)].open
  /\ link' = [link EXCEPT ![l][e].up = FALSE, ![l][e].queue = <<>>]
  /\ UNCHANGED <<phone, unix, pipe, alive, calls>>

-----------------------------------------------------------------------------
(***************************************************************************)
(* phoned on the node of v.                                                *)
(***************************************************************************)
NoUnix == [entry |-> FALSE, named |-> FALSE, open |-> FALSE]
Held(v) == {l \in DOMAIN link : link[l].holder = "phoned" /\ link[l].to = v}

\* mutant: the client is always told to answer
BadPassing(l, ack) == [link |-> l, ack |-> TRUE]

\* What goes through the UNIX socket for a link: ack says that the caller waits for an answer
Passing(l, ack) == [link |-> l, ack |-> ack]
\* and for the links ls, in their order
PassedOn(ls, ack) ==
  {s \in [1..Cardinality(ls) -> {Passing(l, ack) : l \in ls}] :
     \A i, j \in DOMAIN s : i < j => s[i].link < s[j].link}

\* The links accepted for v whose CONNECT is not read: fdarray has no name for them
Nameless(v) == {l \in Held(v) : ~link[l].named}

\* phoned closes the links in set.  Those it closes before it has read their CONNECT are "dropped".
Closes(ks, set, holder) ==
  [l \in DOMAIN ks |-> IF l \in set THEN [Shut(ks[l], "far") EXCEPT !.holder = holder] ELSE ks[l]]

\* send_to_client hands the links ls over.  If the phone of v has ended, phoned dies of SIGPIPE, and
\* with it every link it held.  When a link is handed over for its own message (ack), remove_entry has
\* taken the name off the very entry the loop compares with: the nameless links in the places after
\* that of the phone now match, and are closed.
SendToClient(v, ls, ack, ks) ==
  \/ /\ ls = {} \/ unix[v].open
     /\ \E after \in SUBSET (IF ack THEN Nameless(v) \ ls ELSE {}) :
          link' = [l \in DOMAIN ks |-> IF l \in ls THEN [ks[l] EXCEPT !.holder = "pipe"]
                                       ELSE Closes(ks, after, "dropped")[l]]
     /\ \E new \in PassedOn(ls, ack) : pipe' = [pipe EXCEPT ![v] = @ \o new]
     /\ unix' = [unix EXCEPT ![v].named = TRUE]
     /\ UNCHANGED alive
  \/ /\ ls # {} /\ ~unix[v].open
     /\ link' = Closes(ks, Held(v), "none")
     /\ unix' = [unix EXCEPT ![v] = NoUnix]
     /\ alive' = [alive EXCEPT ![v] = FALSE]
     /\ UNCHANGED pipe

\* call_user and dial_user for a user without a phone program: his terminals are asked
DialUser(l, ks) ==
  /\ \E mood \in Mood[ks[l].to] :
       LET k == Send(ks[l], "far", mood) IN
       link' = [ks EXCEPT ![l] = IF mood = "hangup" THEN Shut(k, "far") ELSE k]
  /\ UNCHANGED <<unix, pipe, alive>>

RemoveEntry(l) == link' = [link EXCEPT ![l] = Shut(@, "far")] /\ UNCHANGED <<unix, pipe, alive>>

ReadDecnet(l) ==
  LET k == link[l]  v == k.to  m == Head(k.far.queue)
      read == [link EXCEPT ![l] = [Read(k, "far") EXCEPT !.named = @ \/ m = "connect"]] IN
  /\ k.holder = "phoned" /\ UNCHANGED <<phone, calls>>
  /\ \/ AtEnd(k, "far") /\ RemoveEntry(l)
     \/ /\ HasMessage(k, "far")
        /\ \/ m \in {"connect", "dial"} /\ unix[v].named /\ SendToClient(v, {l}, TRUE, read)
           \/ m \in {"connect", "dial"} /\ ~unix[v].named /\ DialUser(l, read)
           \/ m = "goodbye" /\ RemoveEntry(l)
           \/ /\ m \notin {"connect", "dial", "goodbye"}
              /\ link' = read /\ UNCHANGED <<unix, pipe, alive>>

\* The links that wait for a phone program
Waiting(v) == {l \in Held(v) : link[l].named}

\* The name of a phone that has started, and the end of one that has ended
ReadUnix(v) ==
  /\ alive[v] /\ unix[v].entry /\ UNCHANGED <<phone, calls>>
  /\ \/ ~unix[v].named /\ SendToClient(v, Waiting(v), FALSE, link)
     \/ /\ unix[v].named /\ ~unix[v].open
        /\ unix' = [unix EXCEPT ![v] = NoUnix]
        /\ UNCHANGED <<link, pipe, alive>>

-----------------------------------------------------------------------------
(***************************************************************************)
(* The phone of u.  pc: it waits for the answer to CONNECT ("connect") or  *)
(* to DIAL ("dial") and for nothing else, or in select ("idle").  dial is  *)
(* dial_fd, wait the link being set up; an entry has the link its caller   *)
(* opened (in) and the one to the caller (out), None until he is answered. *)
(* A phone that has ended ("over") is not started again.                   *)
(***************************************************************************)
Entry(in, out) == [in |-> in, out |-> out]
Unanswered(p) == {i \in DOMAIN p.ents : p.ents[i].out = None}
NewPhone == [pc |-> "off", dial |-> None, wait |-> None, ents |-> <<>>]
Idle(u) == phone[u].pc = "idle"

\* Any key ends the ringing first.
CancelDial(u) == CloseOn(link, phone[u].dial, "near")
Keyed(u) == [phone[u] EXCEPT !.dial = None]

Becomes(u, ks, p) == link' = ks /\ phone' = [phone EXCEPT ![u] = p] /\ UNCHANGED alive

\* mutant: the link to the caller stays open
BadHangUp(ks, e) == CloseOn(ks, e.in, "far")
\* The two links of an entry are closed
HangUp(ks, e) == CloseOn(CloseOn(ks, e.in, "far"), e.out, "near")

\* delete_caller moves the last entry over all that follow entry i
DeleteCaller(ents, i) ==
  [j \in 1..Len(ents) - 1 |-> IF j < i THEN ents[j] ELSE ents[Len(ents)]]
Found(ents, in) == {i \in DOMAIN ents : ents[i].in = in}
First(found) == CHOOSE i \in found : \A j \in found : i <= j
Delete(s, in) ==
  IF Found(s.ents, in) = {} THEN s ELSE
  LET i == First(Found(s.ents, in)) IN
  [ks |-> HangUp(s.ks, s.ents[i]), ents |-> DeleteCaller(s.ents, i)]

CloseConnection(ks, out) == SendOn(SendOn(ks, out, "near", "hangup"), out, "near", "goodbye")

Start(u) ==
  /\ phone[u].pc = "off" /\ alive[u]
  /\ unix' = [unix EXCEPT ![u] = [entry |-> TRUE, named |-> FALSE, open |-> TRUE]]
  /\ Becomes(u, link, [phone[u] EXCEPT !.pc = "idle"])
  /\ UNCHANGED <<pipe, calls>>

\* localsock_callback: a link comes from phoned
NewCaller(u) ==
  /\ Idle(u) /\ pipe[u] # <<>>
  /\ LET got == Head(pipe[u])
         ks == IF got.ack THEN SendOn(link, got.link, "far", "ok") ELSE link IN
     Becomes(u, [ks EXCEPT ![got.link].holder = "client"],
             [phone[u] EXCEPT !.ents = Append(@, Entry(got.link, None))])
  /\ pipe' = [pipe EXCEPT ![u] = Tail(@)]
  /\ UNCHANGED <<unix, calls>>

\* dial_remote as far as the CONNECT message
Dial(u, v) ==
  /\ Idle(u) /\ calls[<<u, v>>] > 0
  /\ calls' = [calls EXCEPT ![<<u, v>>] = @ - 1]
  /\ IF alive[v] /\ Len(link) < MaxLink
       THEN Becomes(u, Append(CancelDial(u), Send(NewLink(u, v), "near", "connect")),
                    [Keyed(u) EXCEPT !.pc = "connect", !.wait = Len(link) + 1])
       ELSE Becomes(u, CancelDial(u), Keyed(u))
  /\ UNCHANGED <<unix, pipe>>

\* mutant: a read that returns nothing is repeated
BadGone(k) == FALSE
\* The read of an answer returns nothing: the link is gone.
Gone(k) == AtEnd(k, "near")

\* The answer to CONNECT, and the first DIAL
Connected(u) ==
  LET l == phone[u].wait  k == link[l]  p == [phone[u] EXCEPT !.wait = None] IN
  /\ phone[u].pc = "connect" /\ UNCHANGED <<unix, pipe, calls>>
  /\ \/ /\ HasMessage(k, "near") /\ Head(k.near.queue) = "ok"
        /\ Becomes(u, [link EXCEPT ![l] = Send(Read(@, "near"), "near", "dial")],
                   [p EXCEPT !.pc = "dial", !.dial = l])
     \/ /\ Gone(k) \/ (HasMessage(k, "near") /\ Head(k.near.queue) # "ok")
        /\ Becomes(u, CloseOn(link, l, "near"), [p EXCEPT !.pc = "idle"])

\* send_dial, on the alarm: it rings again
Ring(u) ==
  /\ Idle(u) /\ phone[u].dial # None
  /\ Becomes(u, SendOn(link, phone[u].dial, "near", "dial"), [phone[u] EXCEPT !.pc = "dial"])
  /\ UNCHANGED <<unix, pipe, calls>>

\* Only "hangup" ends the ringing; that the link is gone does not.
Rung(u) ==
  LET l == phone[u].dial  k == link[l]  p == [phone[u] EXCEPT !.pc = "idle"] IN
  /\ phone[u].pc = "dial" /\ UNCHANGED <<unix, pipe, calls>>
  /\ \/ Gone(k) /\ Becomes(u, link, p)
     \/ /\ HasMessage(k, "near")
        /\ IF Head(k.near.queue) = "hangup"
             THEN Becomes(u, CloseOn(link, l, "near"), [p EXCEPT !.dial = None])
             ELSE Becomes(u, [link EXCEPT ![l] = Read(@, "near")], p)

\* socket_callback for the link in of entry i
Callback(u, i) ==
  LET p == phone[u]  l == p.ents[i].in  k == link[l]
      read == [link EXCEPT ![l] = Read(@, "far")]
      m == Head(k.far.queue)
      Deleted(ks) == LET s == Delete([ks |-> ks, ents |-> p.ents], l) IN
                     Becomes(u, s.ks, [p EXCEPT !.ents = s.ents]) IN
  /\ Idle(u) /\ UNCHANGED <<unix, pipe, calls>>
  /\ \/ AtEnd(k, "far") /\ Deleted(link)
     \/ /\ HasMessage(k, "far")
        /\ \/ m = "goodbye" /\ Deleted(read)
           \/ m = "dial" /\ Becomes(u, SendOn(read, l, "far", "ok"), p)
           \/ m = "reject" /\ Becomes(u, CloseOn(read, p.dial, "near"), [p EXCEPT !.dial = None])
           \/ /\ m = "answer" /\ p.dial # None
              /\ Becomes(u, read, [p EXCEPT !.ents[i].out = p.dial, !.dial = None])
           \/ /\ m \in {"connect", "hangup"} \/ (m = "answer" /\ p.dial = None)
              /\ Becomes(u, read, p)

CancelKey(u) ==
  /\ Idle(u) /\ phone[u].dial # None
  /\ Becomes(u, CancelDial(u), Keyed(u)) /\ UNCHANGED <<unix, pipe, calls>>

\* do_answer for the entry e: a link back to the caller, with CONNECT and ANSWER or REJECT on it
Reached(s, e) == alive[link[e.in].from] /\ s.ks[e.in].far.up
AnswerOne(s, u, e, reject) ==
  LET v == link[e.in].from
      back == Send(Send(NewLink(u, v), "near", "connect"), "near", IF reject THEN "reject" ELSE "answer")
      opened == Append(s.ks, back) IN
  IF ~Reached(s, e) THEN Delete(s, e.in)
  ELSE IF reject THEN [Delete(s, e.in) EXCEPT !.ks = Append(@, Shut(back, "near"))]
  ELSE [ks |-> opened,
        ents |-> [s.ents EXCEPT ![First(Found(s.ents, e.in))].out = Len(opened)]]
\* and for every caller who is not answered, up to one who cannot be reached
Answered(u, reject) ==
  LET ents == phone[u].ents
      done[n \in 0..Len(ents)] ==
        IF n = 0 THEN [s |-> [ks |-> CancelDial(u), ents |-> ents], todo |-> Unanswered(phone[u])]
        ELSE LET t == done[n - 1] IN
             IF n \notin t.todo THEN t
             ELSE [s |-> AnswerOne(t.s, u, ents[n], reject),
                   todo |-> IF Reached(t.s, ents[n]) THEN t.todo ELSE {}] IN
  done[Len(ents)].s
Answer(u, reject) ==
  LET s == Answered(u, reject)
      todo == Unanswered(phone[u]) IN
  /\ Idle(u) /\ u \in Answers /\ todo # {} /\ Len(link) + Cardinality(todo) <= MaxLink
  /\ Becomes(u, s.ks, [Keyed(u) EXCEPT !.ents = s.ents])
  /\ UNCHANGED <<unix, pipe, calls>>

\* Everybody is told, and his entry deleted.
HungUp(u) ==
  LET ents == phone[u].ents
      done[n \in 0..Len(ents)] ==
        IF n = 0 THEN [ks |-> CancelDial(u), ents |-> ents]
        ELSE LET t == done[n - 1] IN
             Delete([ks |-> CloseConnection(t.ks, ents[n].out), ents |-> t.ents], ents[n].in) IN
  done[Len(ents)]
DoHangup(u) ==
  LET s == HungUp(u) IN
  /\ Idle(u) /\ phone[u].ents # <<>>
  /\ Becomes(u, s.ks, [Keyed(u) EXCEPT !.ents = s.ents])
  /\ UNCHANGED <<unix, pipe, calls>>

\* Everybody is told.
SaidGoodbye(u) ==
  LET ents == phone[u].ents
      told[n \in 0..Len(ents)] ==
        IF n = 0 THEN link ELSE CloseConnection(told[n - 1], ents[n].out) IN
  told[Len(ents)]
\* The kernel closes the ends of link l that the phone of u had or that were on the way to it.
Closed(u, k, l) ==
  LET n == IF link[l].from = u THEN Shut(k, "near") ELSE k IN
  IF link[l].to = u /\ link[l].holder \in {"pipe", "client"} THEN Shut(n, "far") ELSE n
\* The phone ends, at the user's word or killed.
Ends(u, polite) ==
  LET p == phone[u]
      said == IF polite THEN SaidGoodbye(u) ELSE link IN
  /\ u \in Mortal /\ p.pc \notin {"off", "over"} /\ (polite => p.pc = "idle")
  /\ Becomes(u, [l \in DOMAIN said |-> Closed(u, said[l], l)], [NewPhone EXCEPT !.pc = "over"])
  /\ unix' = [unix EXCEPT ![u].open = FALSE]
  /\ pipe' = [pipe EXCEPT ![u] = <<>>]
  /\ UNCHANGED calls

-----------------------------------------------------------------------------
PhoneInit ==
  /\ link = <<>> /\ phone = [u \in User |-> NewPhone]
  /\ unix = [u \in User |-> NoUnix] /\ pipe = [u \in User |-> <<>>]
  /\ alive = [u \in User |-> TRUE] /\ calls \in Plans

PhonedStep(l) == l \in DOMAIN link /\ ReadDecnet(l)
Heard(l) == l \in DOMAIN link /\ \E u \in User : \E i \in DOMAIN phone[u].ents :
                                   phone[u].ents[i].in = l /\ Callback(u, i)
LinkStep(l) == l \in DOMAIN link /\ \E e \in End : Disconnected(l, e)
Told(u) == Connected(u) \/ Rung(u)
Key(u) ==
  \/ \E v \in User \ {u} : Dial(u, v)
  \/ \E reject \in BOOLEAN : Answer(u, reject)
  \/ CancelKey(u) \/ DoHangup(u)

PhoneNext ==
  \/ \E l \in 1..MaxLink : PhonedStep(l) \/ Heard(l) \/ LinkStep(l)
  \/ \E u \in User :
       \/ ReadUnix(u) \/ Start(u) \/ NewCaller(u) \/ Told(u) \/ Ring(u) \/ Key(u)
       \/ \E polite \in BOOLEAN : Ends(u, polite)

\* phoned and the network never stop, and the programs read what can be read.  A phone that rings
\* every ten seconds reads in between: strong fairness.  What can happen only a few times is fair
\* together.  Nobody has to press a key.
PhoneSpec ==
  /\ PhoneInit /\ [][PhoneNext]_phoneVars
  /\ \A l \in 1..MaxLink : SF_phoneVars(PhonedStep(l) \/ Heard(l))
  /\ WF_phoneVars((\E l \in 1..MaxLink : LinkStep(l)) \/ \E u \in User : ReadUnix(u))
  /\ \A u \in User : SF_phoneVars(NewCaller(u)) /\ WF_phoneVars(Told(u))

-----------------------------------------------------------------------------
\* How many elements of s are in set
Count(s, set) == Cardinality({i \in DOMAIN s : s[i] \in set})

\* The answers that are due on link l, and whether its opener p waits for one
Coming(l) ==
  Count(link[l].far.queue, {"connect", "dial"}) + Len(link[l].near.queue)
    + Count(pipe[link[l].to], {[link |-> l, ack |-> TRUE]})
Waits(p, l) == (p.pc = "connect" /\ p.wait = l) \/ (p.pc = "dial" /\ p.dial = l)

(***************************************************************************)
(* A caller that waits for an answer has exactly one coming, from phoned   *)
(* or from the phone the link was passed to, and one that does not wait    *)
(* has none: no answer is ever taken for that to another question.         *)
(* (msghead[1] of send_to_client, get_fd_from_userpipe.)                   *)
(***************************************************************************)
OneReply ==
  \A l \in DOMAIN link :
    LET p == phone[link[l].from] IN
    link[l].near.up /\ link[l].far.up /\ l \in {p.wait, p.dial} =>
      Coming(l) = IF Waits(p, l) THEN 1 ELSE 0

(***************************************************************************)
(* A user who dials gets his keyboard back (read in dial_remote and        *)
(* send_dial blocks the whole program), unless the one he waits for waits  *)
(* himself for ever: with finitely many users, unless there is a circle of *)
(* users who have all dialled the next.                                    *)
(***************************************************************************)
Asking(u) == phone[u].pc \in {"connect", "dial"}
Callee(u) == link[IF phone[u].pc = "connect" THEN phone[u].wait ELSE phone[u].dial].to
DialSettles ==
  \A u \in User : []<>~Asking(u) \/ <>[](Asking(u) /\ Asking(Callee(u)))

(***************************************************************************)
(* Again and again there is no link that only one side has closed, but for *)
(* one its opener rings on, and one that phoned has closed unread: as      *)
(* links are closed only a few times, what one side ends ends for the      *)
(* other (delete_caller, read_decnet).  Not if a user waits for ever, who  *)
(* then closes nothing any more.                                           *)
(***************************************************************************)
OneSided(l) ==
  /\ link[l].near.open # link[l].far.open /\ link[l].holder # "dropped"
  /\ l \notin {phone[u].dial : u \in User}
ClosedTogether ==
  []<>(\A l \in DOMAIN link : ~OneSided(l)) \/ \E u \in User : <>[]Asking(u)

=============================================================================

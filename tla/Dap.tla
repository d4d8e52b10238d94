-------------------------------- MODULE Dap --------------------------------
(***************************************************************************)
(* A connection of libdap, as the programs at both ends of a file access   *)
(* use it: DAP messages are collected in an output buffer while output is  *)
(* blocked, go over the logical link in blocks, and are taken one at a     *)
(* time out of the block that was read last.                               *)
(*                                                                         *)
(* The link below keeps blocks whole and in order (NspData); all it adds   *)
(* is that a disconnect may overtake blocks that were not read yet.        *)
(***************************************************************************)
EXTENDS Naturals, Sequences, FiniteSets

CONSTANTS Link,        \* the logical links of a command
          BlockSize,   \* blocksize, counted in messages
          Room,        \* blocks that fit in the buffers of one direction

          Faults,      \* what may go wrong
          MaxFaults    \* bound: how often in one command

ASSUME SizeAssumption == BlockSize \in Nat \ {0} /\ Room \in Nat \ {0}

VARIABLES conn,        \* the two ends of each link
          fault        \* what has gone wrong so far

Side == {"client", "server"}
Peer(e) == IF e = "client" THEN "server" ELSE "client"

\* out:     outbuf, the messages written and not sent
\* blocked: blocked output is on
\* in:      what is left of the block in buf
\* queue:   blocks on their way to this end or in its receive queue
\* up:      the socket is in RUN
\* open:    the process has not closed it
NewEnd == [out |-> <<>>, blocked |-> FALSE, in |-> <<>>, queue |-> <<>>,
           up |-> TRUE, open |-> TRUE]

Fault(kind) ==
  /\ kind \in Faults /\ Cardinality(fault) < MaxFaults
  /\ fault' = fault \cup {kind}

-----------------------------------------------------------------------------
(***************************************************************************)
(* The DAP messages, with the fields the two ends act on.                  *)
(***************************************************************************)
Config == [t |-> "CONFIG"]
Attrib(rfm, cr) == [t |-> "ATTRIB", rfm |-> rfm, cr |-> cr]
Access(func, spec, display) ==
  [t |-> "ACCESS", func |-> func, spec |-> spec, display |-> display]
NameIs(type, file) == [t |-> "NAME", type |-> type, file |-> file]
Ack == [t |-> "ACK"]
Control(func, rac) == [t |-> "CONTROL", func |-> func, rac |-> rac]
Data(rec) == [t |-> "DATA", rec |-> rec]
Status(code) == [t |-> "STATUS", code |-> code]
Accomp(func, fop) == [t |-> "ACCOMP", func |-> func, fop |-> fop]
Contran == [t |-> "CONTRAN"]

-----------------------------------------------------------------------------
(***************************************************************************)
(* Operations on a link k by its end e.                                    *)
(***************************************************************************)

\* write(2) of the block b; on a link that is gone it fails
Send(k, e, b) ==
  IF k[e].up /\ k[Peer(e)].up
    THEN [k EXCEPT ![Peer(e)].queue = Append(@, b)] ELSE k

\* dap_connection::write, after the message m was put in the buffer
Write(k, e, m) ==
  IF ~k[e].blocked
    THEN Send([k EXCEPT ![e].out = <<>>], e, Append(k[e].out, m))
  ELSE IF Len(k[e].out) + 1 < BlockSize \/ k[e].out = <<>>
    THEN [k EXCEPT ![e].out = Append(@, m)]
  ELSE Send([k EXCEPT ![e].out = <<m>>], e, k[e].out)

\* It has to send, and the link is gone
WriteFails(k, e) ==
  ~k[e].up /\ (~k[e].blocked \/ (Len(k[e].out) + 1 >= BlockSize /\ k[e].out # <<>>))

WriteAll(k, e, ms) ==
  LET written[n \in 0..Len(ms)] == IF n = 0 THEN k ELSE Write(written[n - 1], e, ms[n])
  IN  written[Len(ms)]

\* set_blocked(true), and set_blocked(false), which sends what there is
Block(k, e) == [k EXCEPT ![e].blocked = TRUE]
Unblock(k, e) ==
  IF k[e].blocked /\ k[e].out # <<>>
    THEN Send([k EXCEPT ![e].blocked = FALSE, ![e].out = <<>>], e, k[e].out)
    ELSE [k EXCEPT ![e].blocked = FALSE]

\* One message, or several in a block of their own
Reply(k, e, m) == Unblock(Write(k, e, m), e)
SendBlock(k, e, ms) == Unblock(WriteAll(Block(k, e), e, ms), e)

ClearOutputBuffer(k, e) == [k EXCEPT ![e].out = <<>>]

\* read_message has a message to give, or finds that the link is gone
CanRead(k, e) == k[e].in # <<>> \/ (k[e].up /\ k[e].queue # <<>>)
ReadFails(k, e) == k[e].in = <<>> /\ ~k[e].up

NextMessage(k, e) == IF k[e].in # <<>> THEN Head(k[e].in) ELSE Head(Head(k[e].queue))
ReadMessage(k, e) ==
  IF k[e].in # <<>>
    THEN [k EXCEPT ![e].in = Tail(@)]
    ELSE [k EXCEPT ![e].in = Tail(Head(k[e].queue)), ![e].queue = Tail(@)]

\* close flushes the buffer, and the socket goes with all that it holds
Close(k, e) ==
  LET j == Unblock(k, e) IN
  [j EXCEPT ![e].in = <<>>, ![e].queue = <<>>, ![e].up = FALSE, ![e].open = FALSE]

-----------------------------------------------------------------------------
\* A link starts with the CONFIG message both ends send at once.
NewLink == LET k == [client |-> NewEnd, server |-> NewEnd] IN
           Send(Send(k, "client", <<Config>>), "server", <<Config>>)

\* The disconnect of an end that closed arrives at the other.  What was not
\* read until then cannot be read any more.
Disconnected(l, e) ==
  /\ conn[l][e].up /\ ~conn[l][Peer(e)].open
  /\ conn' = [conn EXCEPT ![l][e].up = FALSE, ![l][e].queue = <<>>]
  /\ UNCHANGED fault

\* The network gives the link up: both ends find it gone.
LinkLost(l) ==
  /\ Fault("link") /\ \A e \in Side : conn[l][e].up
  /\ conn' = [conn EXCEPT ![l] = [e \in Side |-> [conn[l][e] EXCEPT !.up = FALSE, !.queue = <<>>]]]

=============================================================================

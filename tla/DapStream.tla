----------------------------- MODULE DapStream -----------------------------
(***************************************************************************)
(* One direction of a libdap connection: the output buffer in which an end *)
(* collects messages, the records it writes to the link, and the buffer    *)
(* into which the other end reads them and takes them apart.               *)
(*                                                                         *)
(* All bytes ever put are in one sequence, put; the two buffers are pieces *)
(* of it, so their pointers are positions in put and moving what is left   *)
(* to the start of a buffer changes nothing.  The link keeps the bytes and *)
(* the ends of the records in order (NspData).                             *)
(***************************************************************************)
EXTENDS DapWire
LOCAL INSTANCE SequencesExt
LOCAL INSTANCE FiniteSetsExt

CONSTANTS Messages,    \* the messages that may be written, the CONFIG first
          MaxMsgs,     \* bound: messages on one connection
          MaxToggles,  \* bound: times output is blocked or unblocked
          BlockSize,   \* blocksize of the writer, after the exchange of CONFIGs
          SegSize,     \* data bytes in a segment of the link
          MaxRead      \* MAX_READ_SIZE

ASSUME StreamAssumption ==
  /\ BlockSize \in Nat \ {0} /\ SegSize \in Nat \ {0} /\ MaxRead \in Nat \ {0}
  /\ \A m \in Messages : Bytes(m) \in Seq(0..(Byte - 1)) /\ Len(Bytes(m)) > 0

VARIABLES
  put,      \* the bytes put in outbuf so far, those that were sent included
  out,      \* the writer: outbuf starts at sent; last is last_msg_start
  cuts,     \* where in put the records end
  in,       \* the reader: bufptr, buflen, end_of_msg, its blocksize
  wrote,    \* the messages written, and not cleared
  ends,     \* where in put each of them ends
  got       \* the messages read

vars == <<put, out, cuts, in, wrote, ends, got>>

Init ==
  /\ put = <<>> /\ cuts = {} /\ wrote = <<>> /\ ends = <<>> /\ got = <<>>
  /\ \E allowed \in BOOLEAN :
       out = [sent |-> 0, last |-> 0, blocked |-> FALSE, allowed |-> allowed, toggles |-> 0]
  /\ in = [bufptr |-> 0, buflen |-> 0, end |-> 0, blocksize |-> MaxRead, state |-> "ok"]

-----------------------------------------------------------------------------
(***************************************************************************)
(* The writer                                                              *)
(***************************************************************************)
\* A write(2) sends a record; one of no bytes sends nothing.
Record(from, to) == IF to > from THEN {to} ELSE {}

\* The messages before the last were sent, the last is at the start of outbuf.
AfterOverflow(b) == [out EXCEPT !.sent = out.last, !.last = Len(b)]

\* mutant: a full block is sent with the message that filled it
BadBlockCut(b) == Record(out.sent, out.sent + BlockSize)
BlockCut(b) == Record(out.sent, out.last)

\* dap_message::write of m, with dap_connection::write at its end
Write(m) ==
  LET b == SetLength(put \o Bytes(m), out.last) IN
  /\ Len(wrote) < MaxMsgs
  /\ (wrote = <<>>) <=> (m.type = CONFIG)
  /\ put' = b /\ wrote' = Append(wrote, m) /\ ends' = Append(ends, Len(b))
  /\ \/ /\ ~out.blocked
        /\ out' = [out EXCEPT !.sent = Len(b), !.last = Len(b)]
        /\ cuts' = cuts \cup Record(out.sent, Len(b))
     \/ /\ out.blocked /\ Len(b) - out.sent < BlockSize
        /\ out' = [out EXCEPT !.last = Len(b)]
        /\ UNCHANGED cuts
     \/ /\ out.blocked /\ Len(b) - out.sent >= BlockSize
        /\ out' = AfterOverflow(b)
        /\ cuts' = cuts \cup BlockCut(b)
  /\ UNCHANGED <<in, got>>

\* set_blocked(true)
Block ==
  /\ wrote # <<>> /\ ~out.blocked /\ out.allowed /\ out.toggles < MaxToggles
  /\ out' = [out EXCEPT !.blocked = TRUE, !.toggles = @ + 1]
  /\ UNCHANGED <<put, cuts, in, wrote, ends, got>>

Flushed == [out EXCEPT !.blocked = FALSE, !.sent = Len(put), !.last = Len(put)]
\* set_blocked(false), which sends what there is
Unblock ==
  /\ out.blocked
  /\ out' = Flushed
  /\ cuts' = cuts \cup Record(out.sent, Len(put))
  /\ UNCHANGED <<put, in, wrote, ends, got>>

\* clear_output_buffer: what was not sent is forgotten.
ClearOutput ==
  LET kept == CHOOSE k \in 0..Len(ends) : \A i \in DOMAIN ends : i <= k <=> ends[i] <= out.sent IN
  /\ out.blocked /\ out.sent < Len(put)
  /\ put' = SubSeq(put, 1, out.sent)
  /\ out' = [out EXCEPT !.last = out.sent]
  /\ wrote' = SubSeq(wrote, 1, kept) /\ ends' = SubSeq(ends, 1, kept)
  /\ UNCHANGED <<cuts, in, got>>

-----------------------------------------------------------------------------
(***************************************************************************)
(* The reader.  A reading step has the reader r, the message so far m, and *)
(* the length of the message; r.state turns to "wait" when the link has    *)
(* nothing more to give, and to "overrun" at an attempt to take more than  *)
(* is in the buffer, which ends the program.                               *)
(***************************************************************************)
\* dnet_recv for len bytes: segment by segment, until one of the segment in
\* which the record ends was taken.
RecordEnd(pos) == Min({c \in cuts : c >= pos})
RecordStart(pos) == Max({c \in cuts : c < pos} \cup {0})
LastSegment(pos) ==
  LET start == RecordStart(pos) IN start + ((RecordEnd(pos) - 1 - start) \div SegSize) * SegSize
Received(from, pos, len) ==
  Min({RecordEnd(pos), Max({from, RecordStart(pos), LastSegment(pos)}) + len})

\* read_if_necessary
ReadIfNecessary(r) ==
  IF r.bufptr < r.buflen THEN r
  ELSE IF r.buflen = out.sent THEN [r EXCEPT !.state = "wait"]
  ELSE LET n == Received(r.buflen, r.buflen + 1, r.blocksize) IN
       [r EXCEPT !.bufptr = r.buflen, !.buflen = n, !.end = n]

\* check_length
CheckLength(r, needed) ==
  LET pos == r.bufptr + needed IN
  IF needed = 0 \/ r.state # "ok" THEN r
  ELSE IF pos > out.sent THEN [r EXCEPT !.state = "wait"]
  ELSE [r EXCEPT !.end = pos,
                 !.buflen = IF pos <= @ THEN @ ELSE Received(@, pos, pos - Max({@, RecordStart(pos)}))]

\* getbytes
Take(r, n) == IF r.state # "ok" THEN r
              ELSE IF r.bufptr + n > r.buflen THEN [r EXCEPT !.state = "overrun"]
              ELSE [r EXCEPT !.bufptr = @ + n]
Taken(r, s) == SubSeq(put, r.bufptr + 1, s.bufptr)
have_bytes(r, n) == r.bufptr + n <= r.end

\* The bytes an item takes: those of an extensible field are read one by one.
Length(r, item, m, length) ==
  CASE item[2] = "ex" ->
         Min({n \in 1..(r.buflen - r.bufptr) : put[r.bufptr + n] < 128}
             \cup {r.buflen - r.bufptr + 1})
    [] item[2] = "rest" -> length - Len(m.recnum) - 1
    [] OTHER -> Width[item[2]]

ReadItem(s, item) ==
  LET r == s.r
      h == IF item[2] = "image" THEN Take(r, 1) ELSE r
      n == IF item[2] = "image" THEN put[h.bufptr] ELSE Length(r, item, s.m, s.length)
      t == IF h.state = "ok" THEN Take(h, n) ELSE h
      there == \/ item[3] = Always
               \/ item[3] = IfMore /\ have_bytes(r, 1)
               \/ item[3] < Always /\ get_bit(s.m.menu, item[3])
  IN IF r.state # "ok" \/ ~there THEN s
     ELSE [s EXCEPT !.r = t, !.m = (item[1] :> Taken(h, t)) @@ @]

\* get_header: the type, the flags and the length, and the whole message is
\* in the buffer.  STREAMID, BITCNT and SYSPEC are never sent by these
\* programs.
GetHeader(r0) ==
  LET r1 == CheckLength(r0, 1)
      r2 == Take(r1, 1)
      flags == put[r2.bufptr]
      r3 == Take(CheckLength(r2, 1), 1)
      r4 == Take(CheckLength(r3, 1), 1)
      len == IF BitOf(flags, 2) THEN put[r3.bufptr] + Byte * put[r4.bufptr] ELSE put[r3.bufptr]
      whole == r2.buflen - r2.bufptr
  IN IF r2.state # "ok" THEN [r |-> r2, length |-> 0]
     ELSE IF ~BitOf(flags, 1) THEN [r |-> CheckLength(r2, whole), length |-> whole]
     ELSE IF r3.state # "ok" THEN [r |-> r3, length |-> 0]
     ELSE IF ~BitOf(flags, 2) THEN [r |-> CheckLength(r3, len), length |-> len]
     ELSE IF r4.state # "ok" THEN [r |-> r4, length |-> 0]
     ELSE [r |-> CheckLength(r4, len), length |-> len]

\* read_message
Message ==
  LET r1 == ReadIfNecessary(in)
      r2 == Take(r1, 1)
      type == put[r2.bufptr]
      r3 == ReadIfNecessary(r2)
      h == GetHeader(r3)
      none == [type |-> 0]
  IN IF r1.state # "ok" THEN [r |-> r1, m |-> none]
     ELSE IF type \notin Types THEN [r |-> [r2 EXCEPT !.state = "unknown"], m |-> none]
     ELSE IF r3.state # "ok" THEN [r |-> r3, m |-> none]
     ELSE IF h.r.state # "ok" THEN [r |-> h.r, m |-> none]
     ELSE FoldLeft(ReadItem, [r |-> h.r, m |-> [type |-> type], length |-> h.length],
                   ReadItems(type))

\* The program reads a message; the CONFIG sets the size of its reads, and
\* zero "means we can do what we like".
ReadMessage ==
  LET x == Message IN
  /\ in.state = "ok" /\ x.r.state # "wait"
  /\ got' = IF x.r.state = "ok" THEN Append(got, x.m) ELSE got
  /\ in' = IF x.r.state = "ok" /\ x.m.type = CONFIG
             THEN [x.r EXCEPT !.blocksize = IF Number(x.m.bufsiz) = 0 THEN MaxRead
                                            ELSE Min({MaxRead, Number(x.m.bufsiz)})]
             ELSE x.r
  /\ UNCHANGED <<put, out, cuts, wrote, ends>>

Next == (\E m \in Messages : Write(m)) \/ Block \/ Unblock \/ ClearOutput \/ ReadMessage

Spec == Init /\ [][Next]_vars

-----------------------------------------------------------------------------
\* The value a reader takes from an item: of an extensible field the bytes up
\* to the first that says it is the last.
Seen(item, v) ==
  IF item[2] # "ex" THEN v
  ELSE SubSeq(v, 1, Min({n \in DOMAIN v : v[n] < 128} \cup {Len(v)}))

Same(m, g) ==
  LET items == SelectSeq(WriteItems(m), LAMBDA item : Written(m, item))
      names == {items[i][1] : i \in DOMAIN items} IN
  /\ g.type = m.type
  /\ \A i \in DOMAIN items : items[i][1] \in DOMAIN g /\ g[items[i][1]] = Seen(items[i], m[items[i][1]])
  /\ \A name \in DOMAIN g \ (names \cup {"type"}) : g[name] = <<>>

\* The reader decodes the messages that were written, in order, each item
\* with the value it was given: it never takes the rest of a message for the
\* next one, whatever the blocks and segments they came in, the optional
\* items that are missing, and the form of the length; nor does it take more
\* than its buffer holds, which ends the program (getbytes).  When it waits it
\* has decoded all that is in the records sent, and that is all that was
\* written unless output is blocked.
Decoded ==
  /\ in.state = "ok" /\ Len(got) <= Len(wrote)
  /\ \A i \in DOMAIN got : Same(wrote[i], got[i])
  /\ ~out.blocked => out.sent = Len(put)
  /\ Message.r.state = "wait" =>
       Len(got) = Cardinality({i \in DOMAIN ends : ends[i] <= out.sent})

\* A record holds whole messages, and is not larger than the other end agreed
\* to unless one message alone is.
IsRecord(s, c) == s < c /\ \A x \in cuts : x <= s \/ x >= c
EndsWith(c) == \E i \in DOMAIN ends : ends[i] = c
FitsBlock(s, c) == c - s <= BlockSize \/ \A i \in DOMAIN ends : ends[i] <= s \/ ends[i] >= c
WholeMessages ==
  /\ \A c \in cuts : EndsWith(c)
  /\ \A c \in cuts, s \in cuts \cup {0} : IsRecord(s, c) => FitsBlock(s, c)

\* What a message says is what its sender meant: the protection of a file,
\* the attributes a program wants to see, and the size of a file whose
\* last sector is not full (get_size is 512 short when it is).
MeaningKept ==
  \A i \in DOMAIN got :
    /\ got[i].type = PROTECT => get_mode(got[i]) = wrote[i].src
    /\ got[i].type = ACCESS => get_display(got[i]) = wrote[i].src
    /\ got[i].type = ATTRIB /\ wrote[i].src % Sector # 0 => get_size(got[i]) = wrote[i].src

=============================================================================

----------------------------- MODULE NspChannel -----------------------------
(***************************************************************************)
(* What an established logical link promises its two users: each           *)
(* subchannel of each direction hands over what was sent on it, in the     *)
(* order it was sent, nothing twice and nothing left out.                  *)
(***************************************************************************)
EXTENDS Naturals, Sequences

CONSTANT Way        \* the one-way subchannels of the link

VARIABLES sent,     \* how many messages were sent each way
          recv      \* the messages handed over, each named by its position

vars == <<sent, recv>>

Init == /\ sent \in [Way -> 0 .. 1]
        /\ recv = [w \in Way |-> <<>>]

\* One step may do several things at once, because a handler that takes a
\* segment in may number segments of its own: messages are sent, and some ways
\* hand over their next one.
Next ==
  /\ sent' \in [Way -> Nat]
  /\ \A w \in Way : sent[w] <= sent'[w]
  /\ recv' = [w \in Way |-> recv'[w]]
  /\ \A w \in Way :
       \/ recv'[w] = recv[w]
       \/ /\ Len(recv[w]) < sent[w]
          /\ recv'[w] = Append(recv[w], Len(recv[w]) + 1)

Spec == Init /\ [][Next]_vars

=============================================================================

---------------------------- MODULE LogicalLink -----------------------------
(***************************************************************************)
(* A logical link as two programs see it: whole messages, in order, until  *)
(* an end closes it.  The disconnect of an end may overtake what the other *)
(* has not read yet (NspData says what the kernel promises of the rest).   *)
(***************************************************************************)
EXTENDS Naturals, Sequences

VARIABLE wire   \* the link

Ends == {"client", "server"}
FarOf(e) == IF e = "client" THEN "server" ELSE "client"

\* up: the socket is in RUN; open: the program has not closed it
OpenEnd == [up |-> TRUE, open |-> TRUE, queue |-> <<>>]
OpenLink == [client |-> OpenEnd, server |-> OpenEnd]
ShutEnd == [up |-> FALSE, open |-> FALSE, queue |-> <<>>]
ShutLink == [client |-> ShutEnd, server |-> ShutEnd]

\* write(2) of each of ms at end e; on a link that is gone it fails (EINVAL)
PutAll(k, e, ms) ==
  IF k[e].up /\ k[FarOf(e)].up THEN [k EXCEPT ![FarOf(e)].queue = @ \o ms] ELSE k
Put(k, e, m) == PutAll(k, e, <<m>>)

Waiting(k, e) == k[e].up /\ k[e].queue # <<>>
Foremost(k, e) == Head(k[e].queue)
Taken(k, e) == [k EXCEPT ![e].queue = Tail(@)]

\* read(2) finds that there will be no more: it returns 0, every time
Hears(k, e) == k[e].open /\ ~k[e].up

Shut(k, e) == [k EXCEPT ![e] = ShutEnd]

\* The disconnect of the far end arrives at e.
CutOff(k, e) == k[e].up /\ ~k[FarOf(e)].open
Cut(k, e) == [k EXCEPT ![e].up = FALSE, ![e].queue = <<>>]
CutReady == \E e \in Ends : CutOff(wire, e)
LinkCut == \E e \in Ends : CutOff(wire, e) /\ wire' = Cut(wire, e)
=============================================================================

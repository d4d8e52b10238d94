---------------------------- MODULE MCDapStream ----------------------------
(***************************************************************************)
(* Instances of DapStream: the messages the programs of the repository     *)
(* write, around the lengths at which a header and a block end.            *)
(***************************************************************************)
EXTENDS DapStream

Letters(n) == [i \in 1..n |-> 64 + (i % 26)]
When(month) == <<4, month, 99, 12, 30, 0>> \o [i \in 1..12 |-> 0]

\* What fal answers and commands ask, and records of a transfer: the longest
\* that has a length of one byte, the next, and one that fills a block.
AllMessages ==
  {Config(300), Access(1, Letters(3), 1), Access(2, Letters(2), 289), ControlKey(1, Letters(2)),
   Contran(2), Ack, Alloc,
   AccompFop(1, 20), StatusRfa(4117, 700), Name(2, Letters(90)),
   Date(When(1), When(2)), set_protection(420), set_stat(1000, FALSE, FALSE), set_stat(513, TRUE, TRUE),
   Data(Letters(0)), Data(Letters(96)), Data(Letters(254)), Data(Letters(255))}
=============================================================================

------------------------------- MODULE NspSeq -------------------------------
(***************************************************************************)
(* Sequence number arithmetic of the NSP subchannels, dn_nsp.h.            *)
(*                                                                         *)
(* The code keeps 12-bit numbers: NSP_SG_MASK is 0xFFF and the comparisons *)
(* test against 2048.  Here the half range is a parameter, so that small   *)
(* instances wrap around.                                                  *)
(*                                                                         *)
(* Definitions named Bad... are plausible mistakes in the definition that  *)
(* follows them, in every module.  No specification uses them: put in the  *)
(* place of the right one, each shows that a property depends on it.       *)
(***************************************************************************)
EXTENDS Integers

CONSTANT SeqHalf    \* half of the number space; 2048 in the code

ASSUME SeqHalfAssumption == SeqHalf \in Nat /\ SeqHalf >= 2

SeqMod == 2 * SeqHalf
SeqNum == 0 .. (SeqMod - 1)

\* (b - a) & NSP_SG_MASK, for a and b already masked
Dist(a, b) == IF a <= b THEN b - a ELSE b - a + SeqMod

dn_before(a, b) == Dist(b, a) > SeqHalf

dn_after(a, b) == Dist(a, b) > SeqHalf

\* counts the next expected number as received
BadBeforeOrEqual(a, b) == Dist(a, b) <= SeqHalf \/ Dist(b, a) = 1
dn_before_or_equal(a, b) == dn_before(a, b) \/ a = b

\* seq_add(&seq, 1)
seq_add1(a) == IF a = SeqMod - 1 THEN 0 ELSE a + 1

BadNext(a, b) == dn_after(b, a)             \* any later one will do
seq_next(a, b) == seq_add1(a) = b

=============================================================================

------------------------------ MODULE MCPhone ------------------------------
(***************************************************************************)
(* Instances of Phone.                                                     *)
(***************************************************************************)
EXTENDS Phone, TLC

CONSTANTS a, b

AllMoods == [u \in User |-> IF u = b THEN {"ok", "nouser", "hangup"} ELSE {"ok"}]
Calls(ab, ba) ==
  [pair \in User \X User |-> CASE pair = <<a, b>> -> ab [] pair = <<b, a>> -> ba [] OTHER -> 0]

\* a calls b again and again, who calls nobody
OneWay == Calls(2, 0)
\* a and b call each other
Mutual == Calls(1, 1)
AllPlans == {OneWay, Mutual}
=============================================================================

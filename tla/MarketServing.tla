--------------------------- MODULE MarketServing ---------------------------
(***************************************************************************)
(* What the market explorer promises to its readers: the month served only *)
(* moves forward, and once a month is served there is always one.          *)
(***************************************************************************)
EXTENDS Naturals

CONSTANT Months

VARIABLE serving   \* the month served, 0 while none was ever published

Publish(month) ==
  /\ month >= serving
  /\ serving' = month

Init == serving = 0

Next == \E month \in Months : Publish(month)

Spec == Init /\ [][Next]_serving
=============================================================================

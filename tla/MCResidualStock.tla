---------------------------- MODULE MCResidualStock ----------------------------
(* A call spread that expires on the first day and a put that expires on     *)
(* the second, on the same underlying.                                       *)
EXTENDS ResidualStock

Leg(kind, side, strike) == [kind |-> kind, side |-> side, strike |-> strike]
TwoGroups == {1, 2}
SpreadAndPut == <<{Leg("call", "buy", 2), Leg("call", "sell", 4)}, {Leg("put", "buy", 4)}>>
OneDayApart == <<0, 1>>
SomeOtherStock == {0, 2}
ThreeSpots == 1..5
=============================================================================

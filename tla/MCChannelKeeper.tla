--------------------------- MODULE MCChannelKeeper ----------------------------
(***************************************************************************)
(* Instances of ChannelKeeper for TLC.                                     *)
(***************************************************************************)
EXTENDS ChannelKeeper

CONSTANTS c1, k, x1, x2, x3

Limits(drawdown, idle) == [drawdown |-> drawdown, idle |-> idle]

\* In ten-millionths.
Fractions == {5000000, 6666667, 8000000}
EveryPolicy ==
  {Limits(d, i) : d \in Fractions \cup {Unset}, i \in {1, Unset}} \cup
  {Limits(-1, 1), Limits(Unset, -1), Limits(10000001, Unset), Limits(10000000, -1)}

=============================================================================

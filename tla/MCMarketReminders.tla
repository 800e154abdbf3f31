------------------------- MODULE MCMarketReminders -------------------------
(* Model-checking instances of MarketReminders: one team, one lead. *)
EXTENDS MarketReminders, TLC

CONSTANTS m1, team

\* In ticks: midnight and afternoon of the sixth Saturday, the latter with the
\* afternoon of the first.
Slot       == {105}
Afternoons == {2, 107}
============================================================================

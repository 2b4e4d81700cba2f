\* Two stretches of speech are enough: one is answered, one barges in.
CONSTANTS
  Speech = {u1, u2}
  Opening = Opening
  NoRun = NoRun
  Events = {}
  MaxCalls = 0
  MaxTurn = 3
SPECIFICATION Spec
INVARIANT BargeInLeavesTurn
\* A session that has ended, and one that nobody talks to, stops.
CHECK_DEADLOCK FALSE

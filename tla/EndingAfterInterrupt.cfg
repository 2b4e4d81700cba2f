\* One is answered with end_call, one barges in.
CONSTANTS
  Speech = {u1, u2}
  Opening = Opening
  NoRun = NoRun
  Events = {"end_call"}
  MaxCalls = 0
  MaxTurn = 3
SPECIFICATION Spec
INVARIANT EndingOnlyAfterCompletedTurn
\* A session that has ended, and one that nobody talks to, stops.
CHECK_DEADLOCK FALSE

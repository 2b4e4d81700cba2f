\* One stretch of speech beside the greeting, with the control channel, its
\* interrupt hints, HTTP calls, candidates after the end and a lost connection.
CONSTANTS
  Speech = {u1}
  Opening = Opening
  NoRun = NoRun
  Events = {"channel", "hint", "http", "candidate", "lost"}
  MaxCalls = 1
  MaxTurn = 3
SPECIFICATION Spec
PROPERTY TurnLifecycleSpec
\* A session that has ended, and one that nobody talks to, stops.
CHECK_DEADLOCK FALSE

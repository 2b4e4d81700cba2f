\* Two stretches of speech, an HTTP call, end_call, and a track that ends.  Without a
\* control channel there is no greeting; the other two configurations have it.
CONSTANTS
  Speech = {u1, u2}
  Opening = Opening
  NoRun = NoRun
  Events = {"http", "end_call", "track"}
  MaxCalls = 1
  MaxTurn = 4
SPECIFICATION Spec
INVARIANTS OneReplyPerTurn BargeInGetsLaterTurn HandleIsLive InputIsLive
SYMMETRY SpeechSymmetry
\* A session that has ended, and one that nobody talks to, stops.
CHECK_DEADLOCK FALSE

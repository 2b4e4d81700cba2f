\* The greeting, one stretch of speech, and every way to end but DELETE.
CONSTANTS
  Speech = {u1}
  Opening = Opening
  NoRun = NoRun
  Events = {"channel", "end_call", "close", "lost"}
  MaxCalls = 0
  MaxTurn = 2
SPECIFICATION FairSpec
PROPERTIES GreetingOnce RepliesReturn EndingClosesSession
\* A session that has ended, and one that nobody talks to, stops.
CHECK_DEADLOCK FALSE

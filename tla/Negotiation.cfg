\* Two candidates of the browser, which may come before the offer or after it, and two of
\* the bot; entries for the offer, for what comes after a close, and one to spare.
CONSTANTS
  ClientICE = {k1, k2}
  BotICE = {b1, b2}
  MaxEntries = 3
SPECIFICATION FairSpec
INVARIANTS TypeOK CandidateOnce PeerConnectionOwned
PROPERTIES NegotiationCompletes DepartureReleases
\* When the client has left nothing happens any more.
CHECK_DEADLOCK FALSE

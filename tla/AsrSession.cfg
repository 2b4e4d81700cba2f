\* Both providers, two chunks that make up one packet, and three responses.
CONSTANTS
  PacketChunks = 2
  InputCapacity = 1
  OutCapacity = 1
  MaxChunks = 3
  MaxResponses = 3
SPECIFICATION FairSpec
INVARIANTS AudioArrivesOnce OnlyAbandonedSessionsPanic
PROPERTIES AsrStreamSpec AbandonedSessionEnds
\* A session that has ended stops, and so does a process that panicked.
CHECK_DEADLOCK FALSE

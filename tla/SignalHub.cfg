\* A client and a bot that connects a second time; queues of one place, which
\* session.attached alone fills and two messages overflow: the replay, the relay
\* and the error replies compete for it.
CONSTANTS
  Clients = {c1}
  Bots = {b1, b2}
  NoConn = NoConn
  Capacity = 1
  MaxFromClient = 2
  MaxFromBot = 1
SPECIFICATION FairSpec
INVARIANTS NeverSendsOnClosed EachMessageOnce OnlyReplayIsOvertaken
PROPERTIES QueuedIsDelivered BrokenConnectionLeaves
\* When all connections are gone nothing happens any more.
CHECK_DEADLOCK FALSE

\* A reply, the greeting and two control channels, the second of which may open before
\* the first has closed; pending holds two events, so that a third evicts one.
CONSTANTS
  Channels = {c1, c2}
  NoChannel = NoChannel
  Emitters = {reply, greeter}
  Greeter = greeter
  Capacity = 2
  MaxEvents = 2
  MaxGreeting = 1
  MaxAnswers = 1
SPECIFICATION Spec
INVARIANTS TypeOK EventOnce OnlyFlushIsOvertaken OpenChannelIsUsed
  GreetingFollowsReady
\* When channels are closed and all is emitted nothing happens any more.
CHECK_DEADLOCK FALSE

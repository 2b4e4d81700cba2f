\* Four frames and two streams: speech that resumes as the timer fires, starts
\* that are told late, and finals that come while a later stream is open.
CONSTANTS
  Capacity = 1
  StableRepeats = 2
  MaxFrames = 4
  MaxStreams = 2
SPECIFICATION Spec
INVARIANTS OneFinalPerStream ChunksNumbered OpenInputWillEnd SpeechIsHeard
\* A session that has ended, or whose user is silent, stops.
CHECK_DEADLOCK FALSE

\* Two replies that write, one that waits, two that flush.  Two places in
\* the queue and three frames: one plays while two are queued, or a third waits.
CONSTANTS
  Writers = {w1, w2}
  Waiters = {r1}
  Flushers = {f1, f2}
  NoFlush = NoFlush
  Capacity = 2
  MaxFrames = 3
SPECIFICATION FairSpec
INVARIANTS PendingCountsFrames NoWaiterStranded FlushSilences
PROPERTY CallsReturn
\* A writer that is closed, and one that nobody writes to, stops.
CHECK_DEADLOCK FALSE

\* Two events, one of them with a timeout, and a few calls of other threads.
\* The loop may wait in ev_run with nothing to do.
CONSTANTS
  Events = {e1, e2}
  Timed = {e2}
  MaxCalls = 3
  NoEvent = NoEvent
SPECIFICATION FairSpec
INVARIANTS
  EventsOwned
  WakeupNotLost
  EventsApplied
PROPERTIES
  LinkedAndFreedOnce
  RemovedAtLast
CHECK_DEADLOCK FALSE

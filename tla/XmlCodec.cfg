SPECIFICATION Spec
CONSTANT MaxRows = 2
INVARIANT Dispatched
INVARIANT RoundTrip
PROPERTY NothingLost
CHECK_DEADLOCK FALSE

SPECIFICATION FairSpec
CONSTANTS
  Callers = {c1, c2}
  Goroutine = g
  Sender = s
  Nobody = Nobody
  Matching <- MatchingSome
  ChanSize = 2
  MaxEvents = 5
INVARIANTS TypeOK NoPanic KeptUntilStopped
PROPERTIES StopIsFinal ImplementsStream StopReturns StreamEnds GoroutineEnds

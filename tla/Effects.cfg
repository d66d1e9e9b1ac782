SPECIFICATION Spec
CONSTANTS
  e1 = e1
  e2 = e2
  Elements <- MCElements
  Goals = {"hide", "toggle", "empty"}
  Durations = {0, 2}
  MaxCalls = 3
INVARIANTS
  QueueMoves
  OneAtATime
  PromiseOpen
  RestoredAtEnd
PROPERTIES
  PromisesResolved

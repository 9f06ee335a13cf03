\* Two presses.
CONSTANTS
  p1 = p1
  p2 = p2
  Presses = {p1, p2}
  MaxPost = 1
  MaxGet = 1
  Retries = 1
SPECIFICATION FairCallsSpec
CHECK_DEADLOCK FALSE
INVARIANTS CallsTypeOK ToldIsTrue
PROPERTY FinalIsShown

\* A session, two updates and a close.
CONSTANTS
  i1 = i1
  u1 = u1
  u2 = u2
  x1 = x1
  Inits = {i1}
  Updates = {u1, u2}
  Closes = {x1}
  Channels = {ch1}
  Blank = Blank
  Deposit <- TenDeposited
  Alloc <- SevenOrFour
  NoRow = NoRow
SPECIFICATION Spec
CHECK_DEADLOCK FALSE
INVARIANTS TypeOK TransactionsAreTheHistory RecordedWasAccepted ClosedWithARecordedState AgreeInSequence

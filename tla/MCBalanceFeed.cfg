\* One client of the feed, which may connect again.
CONSTANTS
  alice = alice
  bob = bob
  b1 = b1
  s1 = s1
  f1 = f1
  w1 = w1
  Users = {alice, bob}
  Clients = {b1}
  Sessions = {s1}
  Fulfilments = {f1}
  Withdrawals = {w1}
  Amounts = {1}
  MaxMessages = 2
  None = None
SPECIFICATION FairSpec
CHECK_DEADLOCK FALSE
INVARIANTS TypeOK OnlyTheSubscribed ShownInSequence
PROPERTY UpdatesArrive

\* Launches, wallets and a delegation.
CONSTANTS
  w1 = w1
  w2 = w2
  Wallets = {w1, w2}
  Nobody = Nobody
  Absent = Absent
  MaxTime = 1
  MaxOps = 2
SPECIFICATION FairSessionSpec
CHECK_DEADLOCK FALSE
INVARIANTS SessionTypeOK WipeHolds RestartRestores
PROPERTY GetsGoing

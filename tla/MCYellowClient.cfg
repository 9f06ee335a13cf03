\* A request and a login over two sockets.
CONSTANTS
  call = call
  login = login
  Calls = {call}
  Logins = {login}
  Sockets = {1, 2}
  MaxAttempts = 1
SPECIFICATION FairSpec
CHECK_DEADLOCK FALSE
INVARIANTS TypeOK WaitersAreHeld FlagsTellTheTruth
PROPERTIES KeepsItsCalls ConnectSettles

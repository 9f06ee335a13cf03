\* One user and one key; two signed requests; the clock passes one expiry.
CONSTANTS
  alice = alice
  key = key
  usdc = usdc
  weth = weth
  solver = solver
  Users = {alice}
  Keys = {key}
  Tokens <- TwoTokens
  Grants <- SmallGrants
  Facade = Facade
  NewCaps = {0}
  MaxTime = 1
  MaxNonce = 0
  MaxSigned = 2
  Amounts = {1, 2}
  OrderNonces = {7}
  Relayers = {solver}
  None = None
SPECIFICATION Spec
CHECK_DEADLOCK FALSE
INVARIANTS TypeOK OneOrderPerNonce OneRequestPerNonce
PROPERTY KeySpendsWereGranted

\* A debit can take what a pending withdrawal needs.
CONSTANTS
  alice = alice
  bob = bob
  sepolia = sepolia
  i1 = i1
  i2 = i2
  i3 = i3
  NoRow = NoRow
  Users <- TwoUsers
  Places = {sepolia}
  Intents = {i1, i2, i3}
  Request <- SmallRequest
  Calls = {c1, c2}
  WithdrawalCalls = {w1}
  WithdrawalAmounts <- All
  CreditCalls = {k1}
  CreditAmount <- OneCredit
  Inventory0 <- SmallInventory
  Balances0 <- SmallBalances
SPECIFICATION Spec
CHECK_DEADLOCK FALSE
PROPERTY FastExit

\* The roles of the deployment script; the admin may switch them off and on.
CONSTANTS
  alice = alice
  ops = ops
  usdc = usdc
  LPVault = LPVault
  TreasuryVault = TreasuryVault
  Protocol = Protocol
  Accounts <- Everyone
  Admin = ops
  Operator = ops
  Assets <- OneAsset
  Endowment <- SmallEndowment
  Amounts = {0, 1, 2, 3}
  Word = 8
  RouterCandidates <- FacadeOnly
  DistributorCandidates <- FacadeOnly
  OperatorCandidates <- OperatorsOnly
SPECIFICATION Spec
CHECK_DEADLOCK FALSE
INVARIANTS TypeOK ExitIsOpen
PROPERTIES ClaimsAreTheUsers KeepsPromise

\* The admin may also make an account a router or a distributor.
CONSTANTS
  alice = alice
  ops = ops
  usdc = usdc
  LPVault = LPVault
  TreasuryVault = TreasuryVault
  Protocol = Protocol
  Accounts <- Everyone
  Admin = ops
  Operator = ops
  Assets <- OneAsset
  Endowment <- SmallEndowment
  Amounts = {0, 1, 2, 3}
  Word = 8
  RouterCandidates <- FacadeAndOps
  DistributorCandidates <- FacadeAndAlice
  OperatorCandidates = {}
SPECIFICATION Spec
CHECK_DEADLOCK FALSE
INVARIANT Solvency
PROPERTY SurplusStays

-------------------------------- MODULE Rewards --------------------------------
(***************************************************************************)
(* What the solver earns with an intent, whether it is worth fulfilling,   *)
(* and how the reward is split (backend services/solver/profitability.ts). *)
(* Amounts are BigInts: integers of any size; `/' on them is \div here,    *)
(* for nothing divided is negative.                                        *)
(***************************************************************************)
EXTENDS Integers

RewardBps == 30
Basis == 10000

GrossReward(intentAmount) == (intentAmount * RewardBps) \div Basis

\* Costs beyond the reward leave nothing, never a negative reward.
NetReward(intentAmount, totalCost) ==
  LET gross == GrossReward(intentAmount)
  IN  IF gross > totalCost THEN gross - totalCost ELSE 0

SpreadBps(intentAmount, totalCost) ==
  (NetReward(intentAmount, totalCost) * Basis) \div intentAmount

IsProfitable(intentAmount, totalCost, minSpreadBps) ==
  SpreadBps(intentAmount, totalCost) >= minSpreadBps

\* splitReward: the odd unit goes to the treasury.
UserReward(totalReward) == totalReward \div 2
TreasuryReward(totalReward) == totalReward - UserReward(totalReward)
=============================================================================

---------------------------- MODULE FlywheelCustody ----------------------------
(***************************************************************************)
(* The custody contracts: LPVault (user principal), TreasuryVault          *)
(* (protocol-owned funds) and the money-moving half of FlywheelProtocol    *)
(* (the facade users and operators call, which also holds the user share   *)
(* of the rewards until it is withdrawn), over the ERC-20 ledgers they     *)
(* hold their tokens in.                                                   *)
(*                                                                         *)
(* One action is one transaction, the facade's nested calls included: a    *)
(* call that reverts changes nothing, so a `require' or custom error is a  *)
(* guard.  The zero address is not an address of the model: every call     *)
(* that could credit or pay it reverts.                                    *)
(*                                                                         *)
(* principalOf and pendingRewards are indexed by asset first (the code     *)
(* indexes them by user first): no call relates two assets.                *)
(***************************************************************************)
EXTENDS Integers, FiniteSets, Functions

CONSTANTS
  Accounts,              \* externally owned accounts, the senders of transactions
  LPVault,               \* the addresses of the three contracts
  TreasuryVault,
  Protocol,
  Admin,                 \* holds every admin role of the deployment
  Operator,              \* the treasury operator the deployment names
  Assets,                \* ERC-20 tokens
  Endowment,             \* what each account holds of each asset at the start
  Amounts,               \* the amounts a caller may ask for
  Word,                  \* 2^256: amounts are words below it
  RouterCandidates,      \* addresses VAULT_ADMIN may make routers, or not
  DistributorCandidates, \* addresses TREASURY_ADMIN may make distributors
  OperatorCandidates     \* addresses PROTOCOL_ADMIN may make treasury operators

Contracts == {LPVault, TreasuryVault, Protocol}
Addresses == Accounts \cup Contracts

ASSUME AddressesAssumption ==
  /\ IsFiniteSet(Accounts)
  /\ Accounts \cap Contracts = {}
  /\ LPVault # TreasuryVault /\ LPVault # Protocol /\ TreasuryVault # Protocol
  /\ {Admin, Operator} \subseteq Accounts

ASSUME AmountsAssumption ==
  /\ Word \in Nat \ {0}
  /\ Amounts \subseteq 0 .. Word - 1
  /\ Endowment \in [Assets -> [Accounts -> Nat]]

ASSUME RolesAssumption ==
  /\ RouterCandidates \subseteq Addresses
  /\ DistributorCandidates \subseteq Addresses
  /\ OperatorCandidates \subseteq Accounts

VARIABLES
  balance,         \* the ERC-20 ledgers: balance[asset][holder]
  approvals,       \* accounts with a standing allowance to LPVault
  principalOf,     \* LPVault.principalOf
  totalPrincipalByAsset,
  treasuryBalance, \* TreasuryVault.treasuryBalance
  pendingRewards,  \* FlywheelProtocol.pendingRewards
  routers,         \* holders of LPVault.ROUTER_ROLE
  distributors,    \* holders of TreasuryVault.REWARD_DISTRIBUTOR_ROLE
  operators,       \* holders of FlywheelProtocol.TREASURY_OPERATOR_ROLE
  msgSender        \* who sent the last transaction

vault == <<principalOf, totalPrincipalByAsset>>
roles == <<routers, distributors, operators>>
vars == <<balance, approvals, principalOf, totalPrincipalByAsset,
          treasuryBalance, pendingRewards, routers, distributors, operators,
          msgSender>>

(***************************************************************************)
(* TREASURY_ADMIN_ROLE has no setter: the deployment grants it to the      *)
(* admin and to the facade.  (AccessControl's own grantRole, with which    *)
(* the default admin could hand it on, is left out.)                       *)
(***************************************************************************)
TreasuryAdmins == {Admin, Protocol}

Init ==
  /\ balance = [a \in Assets |->
                  [h \in Addresses |->
                     IF h \in Accounts THEN Endowment[a][h] ELSE 0]]
  /\ approvals = {}
  /\ principalOf = [a \in Assets |-> [u \in Addresses |-> 0]]
  /\ totalPrincipalByAsset = [a \in Assets |-> 0]
  /\ treasuryBalance = [a \in Assets |-> 0]
  /\ pendingRewards = [a \in Assets |-> [u \in Addresses |-> 0]]
  /\ routers = {Protocol}
  /\ distributors = {Protocol}
  /\ operators = {Operator}
  /\ msgSender = Admin

-----------------------------------------------------------------------------
(***************************************************************************)
(* Words and tokens.                                                       *)
(***************************************************************************)

\* Subtraction inside `unchecked': it wraps around instead of reverting.
UncheckedSub(x, n) == IF n <= x THEN x - n ELSE x - n + Word

\* The balances after `n' tokens of asset `a' move; from = to is a no-op.
Moved(bal, a, from, to, n) ==
  [bal EXCEPT ![a][from] = @ - n, ![a][to] = @ + n]

(***************************************************************************)
(* Plain ERC-20 calls of the accounts.  An allowance to LPVault matters    *)
(* when a router deposits on behalf of a user, so it is state (none, or    *)
(* enough for anything); allowances to the other contracts are only ever   *)
(* spent by their owner's own call and are folded into that call.          *)
(***************************************************************************)
TokenTransfer(s, a, n, to) ==
  /\ balance[a][s] >= n
  /\ balance' = Moved(balance, a, s, to, n)
  /\ msgSender' = s
  /\ UNCHANGED <<approvals, vault, treasuryBalance, pendingRewards, roles>>

TokenApprove(s, on) ==
  /\ approvals' = IF on THEN approvals \cup {s} ELSE approvals \ {s}
  /\ msgSender' = s
  /\ UNCHANGED <<balance, vault, treasuryBalance, pendingRewards, roles>>

-----------------------------------------------------------------------------
(***************************************************************************)
(* LPVault.                                                                *)
(***************************************************************************)

\* Wrong variant: a failed token pull goes unnoticed.
PullPrincipalUnchecked(payer, a, n, receiver) ==
  /\ n # 0
  /\ balance' = Moved(balance, a, payer, LPVault, n)
  /\ principalOf' = [principalOf EXCEPT ![a][receiver] = @ + n]
  /\ totalPrincipalByAsset' = [totalPrincipalByAsset EXCEPT ![a] = @ + n]

\* The shared body of deposit and depositFor: pull the tokens, book them.
PullPrincipal(payer, a, n, receiver) ==
  /\ n # 0
  /\ payer \in approvals
  /\ balance[a][payer] >= n
  /\ principalOf[a][receiver] + n < Word
  /\ totalPrincipalByAsset[a] + n < Word
  /\ balance' = Moved(balance, a, payer, LPVault, n)
  /\ principalOf' = [principalOf EXCEPT ![a][receiver] = @ + n]
  /\ totalPrincipalByAsset' = [totalPrincipalByAsset EXCEPT ![a] = @ + n]

\* Wrong variant: withdrawals stop while the facade is not a router.
DebitPrincipalWhileRouted(u, a, n) ==
  /\ Protocol \in routers
  /\ n # 0
  /\ principalOf[a][u] >= n
  /\ principalOf' = [principalOf EXCEPT ![a][u] = @ - n]
  /\ totalPrincipalByAsset' = [totalPrincipalByAsset EXCEPT ![a] = @ - n]

\* _debitPrincipal, with both subtractions unchecked.
DebitPrincipal(u, a, n) ==
  /\ n # 0
  /\ principalOf[a][u] >= n
  /\ principalOf' = [principalOf EXCEPT ![a][u] = UncheckedSub(@, n)]
  /\ totalPrincipalByAsset' =
       [totalPrincipalByAsset EXCEPT ![a] = UncheckedSub(@, n)]

Deposit(s, a, n, receiver) ==
  /\ PullPrincipal(s, a, n, receiver)
  /\ msgSender' = s
  /\ UNCHANGED <<approvals, treasuryBalance, pendingRewards, roles>>

DepositFor(s, u, a, n, receiver) ==
  /\ s \in routers
  /\ PullPrincipal(u, a, n, receiver)
  /\ msgSender' = s
  /\ UNCHANGED <<approvals, treasuryBalance, pendingRewards, roles>>

\* LPVault.withdraw does not look at the recipient: it may be the vault.
VaultWithdraw(s, a, n, to) ==
  /\ DebitPrincipal(s, a, n)
  /\ balance[a][LPVault] >= n
  /\ balance' = Moved(balance, a, LPVault, to, n)
  /\ msgSender' = s
  /\ UNCHANGED <<approvals, treasuryBalance, pendingRewards, roles>>

\* Wrong variant: withdrawFor without its onlyRole modifier.
WithdrawForUngated(s, u, a, n, to) ==
  /\ DebitPrincipal(u, a, n)
  /\ balance[a][LPVault] >= n
  /\ balance' = Moved(balance, a, LPVault, to, n)
  /\ msgSender' = s
  /\ UNCHANGED <<approvals, treasuryBalance, pendingRewards, roles>>

WithdrawFor(s, u, a, n, to) ==
  /\ s \in routers
  /\ DebitPrincipal(u, a, n)
  /\ balance[a][LPVault] >= n
  /\ balance' = Moved(balance, a, LPVault, to, n)
  /\ msgSender' = s
  /\ UNCHANGED <<approvals, treasuryBalance, pendingRewards, roles>>

SetRouter(s, r, enabled) ==
  /\ s = Admin
  /\ routers' = IF enabled THEN routers \cup {r} ELSE routers \ {r}
  /\ msgSender' = s
  /\ UNCHANGED <<balance, approvals, vault, treasuryBalance, pendingRewards,
                 distributors, operators>>

-----------------------------------------------------------------------------
(***************************************************************************)
(* TreasuryVault, called directly.                                         *)
(***************************************************************************)
CreditTreasury(s, a, n) ==
  /\ s \in distributors
  /\ n # 0
  /\ balance[a][s] >= n
  /\ treasuryBalance[a] + n < Word
  /\ balance' = Moved(balance, a, s, TreasuryVault, n)
  /\ treasuryBalance' = [treasuryBalance EXCEPT ![a] = @ + n]
  /\ msgSender' = s
  /\ UNCHANGED <<approvals, vault, pendingRewards, roles>>

\* Wrong variant: the payment is not written off.
PayFromTreasuryUnbooked(a, n, to) ==
  /\ n # 0
  /\ treasuryBalance[a] >= n
  /\ balance[a][TreasuryVault] >= n
  /\ balance' = Moved(balance, a, TreasuryVault, to, n)
  /\ UNCHANGED treasuryBalance

\* The body of TreasuryVault.withdrawTreasury, for whoever passed the role check.
PayFromTreasury(a, n, to) ==
  /\ n # 0
  /\ treasuryBalance[a] >= n
  /\ balance[a][TreasuryVault] >= n
  /\ treasuryBalance' = [treasuryBalance EXCEPT ![a] = UncheckedSub(@, n)]
  /\ balance' = Moved(balance, a, TreasuryVault, to, n)

WithdrawTreasury(s, a, n, to) ==
  /\ s \in TreasuryAdmins
  /\ PayFromTreasury(a, n, to)
  /\ msgSender' = s
  /\ UNCHANGED <<approvals, vault, pendingRewards, roles>>

SetRewardDistributor(s, d, enabled) ==
  /\ s \in TreasuryAdmins
  /\ distributors' = IF enabled THEN distributors \cup {d} ELSE distributors \ {d}
  /\ msgSender' = s
  /\ UNCHANGED <<balance, approvals, vault, treasuryBalance, pendingRewards,
                 routers, operators>>

-----------------------------------------------------------------------------
(***************************************************************************)
(* FlywheelProtocol.  It calls LPVault as a router, and TreasuryVault as a *)
(* distributor and a treasury admin.                                       *)
(***************************************************************************)
DelegateToPool(s, a, n, receiver) ==
  /\ Protocol \in routers
  /\ PullPrincipal(s, a, n, receiver)
  /\ msgSender' = s
  /\ UNCHANGED <<approvals, treasuryBalance, pendingRewards, roles>>

\* creditTreasury: from the operator through the facade into the treasury.
ProtocolCreditTreasury(s, a, n) ==
  /\ s \in operators
  /\ Protocol \in distributors
  /\ n # 0
  /\ balance[a][s] >= n
  /\ treasuryBalance[a] + n < Word
  /\ balance' = Moved(Moved(balance, a, s, Protocol, n),
                      a, Protocol, TreasuryVault, n)
  /\ treasuryBalance' = [treasuryBalance EXCEPT ![a] = @ + n]
  /\ msgSender' = s
  /\ UNCHANGED <<approvals, vault, pendingRewards, roles>>

\* Wrong variants: the odd unit goes to the user; the treasury takes it all.
UserShareRoundedUp(totalReward) == (totalReward + 1) \div 2
TreasuryShareUnsplit(totalReward) == totalReward

UserShare(totalReward) == totalReward \div 2
TreasuryShare(totalReward) == totalReward - UserShare(totalReward)

RegisterRewards(s, u, a, totalReward) ==
  /\ s \in operators
  /\ totalReward # 0
  /\ balance[a][s] >= totalReward
  /\ TreasuryShare(totalReward) > 0 =>
       /\ Protocol \in distributors
       /\ treasuryBalance[a] + TreasuryShare(totalReward) < Word
  /\ pendingRewards[a][u] + UserShare(totalReward) < Word
  /\ balance' = Moved(Moved(balance, a, s, Protocol, totalReward),
                      a, Protocol, TreasuryVault, TreasuryShare(totalReward))
  /\ treasuryBalance' =
       [treasuryBalance EXCEPT ![a] = @ + TreasuryShare(totalReward)]
  /\ pendingRewards' =
       [pendingRewards EXCEPT ![a][u] = @ + UserShare(totalReward)]
  /\ msgSender' = s
  /\ UNCHANGED <<approvals, vault, roles>>

\* withdraw, and its alias withdrawPrincipal: `n' of principal (none is fine
\* when a reward is pending) and the whole pending reward.
ProtocolWithdraw(s, a, n, to) ==
  LET reward == pendingRewards[a][s]
      paid   == Moved(balance, a, LPVault, to, n)
  IN  /\ n # 0 \/ reward # 0
      /\ \/ /\ n > 0
            /\ Protocol \in routers
            /\ DebitPrincipal(s, a, n)
            /\ balance[a][LPVault] >= n
         \/ n = 0 /\ UNCHANGED vault
      /\ paid[a][Protocol] >= reward
      /\ balance' = Moved(paid, a, Protocol, to, reward)
      /\ pendingRewards' = [pendingRewards EXCEPT ![a][s] = 0]
      /\ msgSender' = s
      /\ UNCHANGED <<approvals, treasuryBalance, roles>>

EmergencyWithdrawAll(s, a, to) ==
  ProtocolWithdraw(s, a, principalOf[a][s], to)

ProtocolWithdrawTreasury(s, a, n, to) ==
  /\ s \in operators
  /\ Protocol \in TreasuryAdmins
  /\ PayFromTreasury(a, n, to)
  /\ msgSender' = s
  /\ UNCHANGED <<approvals, vault, pendingRewards, roles>>

SetTreasuryOperator(s, o, enabled) ==
  /\ s = Admin
  /\ operators' = IF enabled THEN operators \cup {o} ELSE operators \ {o}
  /\ msgSender' = s
  /\ UNCHANGED <<balance, approvals, vault, treasuryBalance, pendingRewards,
                 routers, distributors>>

-----------------------------------------------------------------------------
(***************************************************************************)
(* The transactions: any account calls any entry point with any argument.  *)
(***************************************************************************)
MoveTokens(s) ==
  \E a \in Assets, n \in Amounts, to \in Addresses :
    \/ TokenTransfer(s, a, n, to)
    \/ Deposit(s, a, n, to)
    \/ DelegateToPool(s, a, n, to)
    \/ VaultWithdraw(s, a, n, to)
    \/ ProtocolWithdraw(s, a, n, to)
    \/ WithdrawTreasury(s, a, n, to)
    \/ ProtocolWithdrawTreasury(s, a, n, to)
    \/ RegisterRewards(s, to, a, n)

CreditOrClose(s) ==
  \E a \in Assets :
    \/ \E n \in Amounts : CreditTreasury(s, a, n) \/ ProtocolCreditTreasury(s, a, n)
    \/ \E to \in Addresses : EmergencyWithdrawAll(s, a, to)

RouteForUser(s) ==
  \E u \in Accounts, a \in Assets, n \in Amounts, to \in Addresses :
    \/ DepositFor(s, u, a, n, to)
    \/ WithdrawFor(s, u, a, n, to)

Administer(s) ==
  \E enabled \in BOOLEAN :
    \/ TokenApprove(s, enabled)
    \/ \E r \in RouterCandidates : SetRouter(s, r, enabled)
    \/ \E d \in DistributorCandidates : SetRewardDistributor(s, d, enabled)
    \/ \E o \in OperatorCandidates : SetTreasuryOperator(s, o, enabled)

Next ==
  \E s \in Accounts :
    MoveTokens(s) \/ CreditOrClose(s) \/ RouteForUser(s) \/ Administer(s)

Spec == Init /\ [][Next]_vars

-----------------------------------------------------------------------------
(***************************************************************************)
(* Every variable holds a value of its type; every amount is a word.       *)
(***************************************************************************)
Words == 0 .. Word - 1

TypeOK ==
  /\ balance \in [Assets -> [Addresses -> Nat]]
  /\ approvals \subseteq Accounts
  /\ principalOf \in [Assets -> [Addresses -> Words]]
  /\ totalPrincipalByAsset \in [Assets -> Words]
  /\ treasuryBalance \in [Assets -> Words]
  /\ pendingRewards \in [Assets -> [Addresses -> Words]]
  /\ routers \subseteq Addresses
  /\ distributors \subseteq Addresses
  /\ operators \subseteq Accounts
  /\ msgSender \in Accounts

Owed(book) == SumFunctionOnSet(book, Addresses)

(***************************************************************************)
(* The total is exactly the sum of the users' principals, so the unchecked *)
(* subtraction of _debitPrincipal, which looks at one principal only,      *)
(* cannot wrap the total around.                                           *)
(***************************************************************************)
TotalIsSum ==
  \A a \in Assets : totalPrincipalByAsset[a] = Owed(principalOf[a])

(***************************************************************************)
(* Each contract holds at least the tokens it owes: LPVault the principal, *)
(* TreasuryVault the treasury balance, the facade the rewards it promised. *)
(***************************************************************************)
VaultBacked ==
  \A a \in Assets : totalPrincipalByAsset[a] <= balance[a][LPVault]

TreasuryBacked ==
  \A a \in Assets : treasuryBalance[a] <= balance[a][TreasuryVault]

RewardsBacked ==
  \A a \in Assets : Owed(pendingRewards[a]) <= balance[a][Protocol]

(***************************************************************************)
(* Solvency (totalVaultLiquidity >= totalUserClaims), whoever holds the    *)
(* roles and in whatever order deposits, rewards, withdrawals, treasury    *)
(* movements and stray transfers to the contracts come.                    *)
(***************************************************************************)
Solvency == TotalIsSum /\ VaultBacked /\ TreasuryBacked /\ RewardsBacked

(***************************************************************************)
(* What a contract holds beyond what it owes (stray transfers, withdrawals *)
(* whose recipient was the contract itself) is never paid out: no call can *)
(* take out more than it writes off.                                       *)
(***************************************************************************)
Surplus(a) ==
  <<balance[a][LPVault] - totalPrincipalByAsset[a],
    balance[a][TreasuryVault] - treasuryBalance[a],
    balance[a][Protocol] - Owed(pendingRewards[a])>>

SurplusStays ==
  [][\A a \in Assets : \A i \in 1 .. 3 : Surplus(a)'[i] >= Surplus(a)[i]]_vars

(***************************************************************************)
(* Only Treasury may be withdrawn by system owners: as long as no account  *)
(* is made a router, what a user may withdraw (principal and rewards)      *)
(* shrinks only in a transaction the user sent.                            *)
(***************************************************************************)
Claim(a, u) == principalOf[a][u] + pendingRewards[a][u]

ClaimsAreTheUsers ==
  [][\A a \in Assets, u \in Addresses :
       Claim(a, u)' < Claim(a, u) => msgSender' = u]_vars

(***************************************************************************)
(* The exit is always open: whatever the admin did to the roles and the    *)
(* treasury operator to the treasury, a user with principal can take all   *)
(* of it from LPVault, and a user with a pending reward can take it from   *)
(* the facade.                                                             *)
(***************************************************************************)
ExitIsOpen ==
  \A a \in Assets, u \in Accounts :
    /\ principalOf[a][u] > 0 => ENABLED VaultWithdraw(u, a, principalOf[a][u], u)
    /\ pendingRewards[a][u] > 0 => ENABLED ProtocolWithdraw(u, a, 0, u)

(***************************************************************************)
(* The contracts keep the promise of ClaimsLedger.  A claim is principal   *)
(* plus pending reward; free are the tokens in the accounts' wallets and   *)
(* each contract's surplus.                                                *)
(***************************************************************************)
Free(a) ==
  SumFunctionOnSet(balance[a], Accounts)
    + (balance[a][LPVault] - totalPrincipalByAsset[a])
    + (balance[a][TreasuryVault] - treasuryBalance[a])
    + (balance[a][Protocol] - Owed(pendingRewards[a]))

Ledger == INSTANCE ClaimsLedger WITH
  Holders  <- Addresses,
  Supply   <- [a \in Assets |-> SumFunctionOnSet(Endowment[a], Accounts)],
  claim    <- [a \in Assets |-> [u \in Addresses |-> Claim(a, u)]],
  treasury <- treasuryBalance,
  free     <- [a \in Assets |-> Free(a)],
  actor    <- msgSender

KeepsPromise == Ledger!LedgerSpec
=============================================================================

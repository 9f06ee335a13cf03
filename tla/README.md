# UXWallet in TLA+

Specifications of the Flywheel wallet: Solidity contracts that hold the money,
a TypeScript backend that runs a solver over a pool, an Expo frontend and a
small Rust codec. The modules here model the parts that keep state and decide
something; TLC checks them on small instances, and TLAPS proves the most
important results for every instance.

To check a run: `tlc -config <cfg> <module>`; to check the proofs:
`tlapm FlywheelCustodyProofs.tla` (likewise `FiniteSums.tla` and the other
modules named `...Proofs`). `PROJECT.json` lists the runs, and for each definition the
source lines it translates. The modules need the TLA+ community modules.

## The system

| Component | State | Operations | What makes it correct |
|---|---|---|---|
| `LPVault` (contracts/src/flywheel) | principal per user and asset, total per asset, routers | deposit, withdraw, depositFor, withdrawFor, setRouter | holds what it owes; only the owner or a router moves principal; the exit never closes |
| `TreasuryVault` | treasury balance per asset, distributors | creditTreasury, withdrawTreasury, setRewardDistributor | holds what it owes |
| `FlywheelProtocol` (the facade) | pending rewards, solvers, treasury operators | delegateToPool, registerRewards, withdraw, emergencyWithdrawAll, creditTreasury, withdrawTreasury, fulfillIntent, session-key calls, Nitro pass-through | rewards are split without loss; operators reach the treasury only |
| `SessionKeyRegistry` | keys, caps, nonces | register (directly or signed), setCap, revoke | a signed request counts once; a revoked or expired key is dead |
| `IntentSettler`, `LifiAdapter` | used nonces, registry, adapter | open, openFor, setters | one order per nonce; a key spends within its grant |
| `NitroSettlementAdapter` | two addresses | pass-through calls | access control only |
| `SolverService`, `InventoryManager`, profitability | inventory, intent log, yield log, balances (PostgreSQL) | fulfillIntent, hasLiquidity, debit, credit | the log agrees with the money; pending withdrawals stay covered |
| withdrawal route | withdrawal requests | POST /withdrawal/request, status query | requests within the balance |
| balance feed (`websocket/server.ts`, Redis) | clients, their subscriptions | publish, route, subscribe, unsubscribe, ping, connect, close | updates after a confirmed subscription arrive, nobody else's do, and in sequence the last one shown is the balance or what a withdrawal request made of it |
| `DelegationService` | session_keys table | register, revoke, validate, list | a revoked key stays revoked; re-registration leaves an active key |
| `ClearNodeService` | sessions, transactions, balances; a ClearNode's own sessions outside | initialise, state update, close | the transactions are a history of accepted states; database and ClearNode agree between calls |
| `YellowClient` | current socket, two flags, pending requests with timers, reconnect counter | connect, authenticate, request, disconnect, reconnect | each request settles once, in its own session; flags match the socket |
| `RebalancerService` | none | report deficits (rebalancing is a stub) | - |
| HTTP server: rate limiter, error handler, codes | requests per window | admit, refuse, answer | what the client is told is what happened |
| retry helpers, KMS, config, validation | none that matters | - | - |
| frontend stores, `useWalletSync`, bootstrap and connect screens | wallet, delegation and onboarding stores, in memory and on the phone | launch, hydrate, connect, disconnect, delegate, complete, redirect | a disconnect ends the delegation; a restart restores what was shown; no screen hangs |
| frontend API client, mutations, status poll, messages | the state of each call | press, poll, retry, show | the user is told the truth, and sees the end of a withdrawal |
| lif-rust | none | encode | the fields are the ones asked for |

How they interact. Users call the contracts directly or through the facade; the
facade calls LPVault as a router, TreasuryVault as a distributor and treasury
admin, and the settler and the registry as any caller. The settler asks the
registry about keys and hands orders to the LI.FI adapter. In the backend,
routes and services run as interleaved async calls over one PostgreSQL
database, read-committed, and publish balance updates through Redis to the
websocket clients. ClearNodeService drives one YellowClient, a websocket to an
external ClearNode. The app calls the routes over HTTP, polls the status of a
withdrawal, and keeps its wallet session in AppKit, outside its own stores.

What is hard here: sequences of contract calls by several roles, replays of
signed messages, awaits between a check and the act it guards, transactions that
nest without being one, retries after a partial failure, late answers and
reconnects, and stores that are written and read while the app comes and goes.
`PROJECT.json` lists these hazards by line with the properties that cover each, or
why none can.

## The modules

**FlywheelCustody** is LPVault, TreasuryVault and the money side of the facade
over their ERC-20 ledgers. One action is one transaction with all its nested
calls: the EVM runs a transaction atomically, so no finer interleaving exists,
and `nonReentrant` with standard tokens leaves no callback. A revert is a
disabled action. `balance`, `principalOf`, `totalPrincipalByAsset`,
`treasuryBalance`, `pendingRewards` are the storage of the same name, indexed by
asset first; `routers`, `distributors`, `operators` are role members;
`approvals` are standing allowances to LPVault (all or nothing); allowances that
only their owner's own call spends are folded into that call. `withdrawPrincipal`
is `withdraw`, hence the same action. Subtractions in `unchecked` blocks wrap
modulo `Word`; checked additions that would overflow are guards.

**ClaimsLedger** is what these contracts promise: units are claims, treasury or
free, never created or lost; a claim shrinks only by an act of its holder;
a reward is halved, the odd unit to the treasury. FlywheelCustody implements it
(`KeepsPromise`) with claim = principal + pending reward, and free = the wallets
plus what each contract holds beyond what it owes.

**SessionKeyRegistry** is the registry with its callers: users register keys
directly, sign requests, and anyone relays them. The token and cap arrays are
one partial function. `signed` is the set of requests that exist off chain, so
relaying is free to repeat, reorder and delay. Histories (`accepted`, `ever`,
`live`) record what users granted. **IntentSettler** extends it with
orders: `open`, `openFor`, the facade's `fulfillIntent`, the setters. An order
carries what the checks look at; hashing and decoding are left out, and a
signature is its signer. In `openFor` the nonce is the order's own, in `open` the
one in the order data; both index the same `nonceUsed`. `refusing` says that an
adapter is set and its submission reverts.

**Rewards** has the arithmetic of profitability.ts.

**SolverPool** is `fulfillIntent`, the InventoryManager and the withdrawal
route. A step is what a call does between two awaits: one query, or the last
statement of a transaction with its commit (what a transaction wrote is invisible
until then, so its earlier statements only fix local variables). Reads take no
lock and writes overwrite, as in PostgreSQL's default isolation, which the
backend does not change. `debit` commits in its own transaction because it uses
the client and not `tx`. `Fail` lets any await reject; that also stands for a
restart of the server and for a `userBalance.upsert` that the database client
refuses because of its null chain id. `fulfillIntent` has no caller in the
repository, so the model allows any number of concurrent calls and retries with
the same intent id; a retry repeats the same request. **IntentBook** is what its
records promise, and SolverPool implements it (`KeepsBook`): an intent is settled
once, by a way its funds have gone, and never resettled; its yield is logged once;
one call at most is told that it is fulfilled, after the yield it owes is logged.
The mapping reads the ways off the committed debits and submissions, and the
yields and answers off the tables and calls. Funds may move more often than once,
for a call that failed after its debit is retried; that is why a way is a set.

**DelegationService** is the backend's session_keys table and the calls that
register, revoke and validate keys, again one step per await, any of which may
reject before or after its effect. Its registry of keys is apart from the one on
chain; nothing in the code synchronises the two. `seen` remembers whether a
revocation had been answered when a validation began. The pure
`validateAllowance` is left out.

**YellowClient** is one object in an event loop. A step is one task: a call up
to its first await, a socket event, a timer, or the arrival of a signature, with
the promise reactions that run before the next task. `connect` does not look at
the socket it replaces, so old sockets live on with handlers on the same object;
`ws` is the last one. `job` has the step of each call; `authenticate` is a call
of two requests. A socket's `error` event is emitted by the client first: with
no listener in the process (`heard`) that ends it, and `Crash` starts it again
with nothing. The network and the ClearNode are outside: they open, close, fail,
answer late or never. An answer is a response that grants, a response that refuses
(`success: false`, or a method `error`), or an `err` message; the client tells only
the last from the others, so `verdicts` records what logins were really told on a
socket. **ClearNodeCalls** is what a caller may rely on, and
YellowClient implements it (`KeepsItsCalls`): a call settles, once; only an
answered login authenticates; when the authentication ends, every waiting call
ends with it. The mapping reads the outcome of a call off its step.

**ClearNodeSession** is `initializeSession`, `submitStateUpdate` and
`closeSession` over their tables, await by await, any of which may reject before
or after its effect. Of YellowClient only `link` is left: down, up, authenticated.
A request is on the `wire` until the ClearNode serves it, which may be after its
caller gave up, or never. The ClearNode is external: it creates sessions, accepts
states of open ones and closes them, for authenticated callers; its answer to a
creation may lack the id (`''` in the code, `Blank` here). It keeps no nonce,
because the code sends none. It is taken to refuse by an `err` message: any other
refusal the code would record as a success, as it would in YellowClient.

**BalanceFeed** is publication, the Redis channel, `websocket/server.ts` and its
clients. There are three kinds of publishers, with awaits between their steps.
`initializeSession` sets the balance and publishes it. `fulfillIntent` makes the row if
there is none (its upsert updates nothing), reads it later and publishes what it read. A
withdrawal request publishes the balance it read less its amount, and leaves the row as
it is: `taken` remembers by how much what was announced last differs from the table.
Redis hands over in order and forgets what comes while the subscriber
is away; frames travel in order until the connection breaks; the client (no code
of it sends yet) waits for each answer, and counts a subscription from its
confirmation.

**FrontendSession** is the app between launches. The two stores are zustand
stores with `persist` and `skipHydration`: a change is in memory at once and on
the phone later, in order, or never; Bootstrap asks for both at every visit. `wiped`
follows the two operations of a disconnect (the write of the cleared store and the
deletion of the item) on their way to the phone, `overtaken` says that a hydration was
under way when it came.
External: AppKit's wallet session, which may end or change while the app is
closed and is restored some time after a launch; and the screens for delegating
and for choosing tokens, which are placeholders, so that `Delegate` and
`Complete` are the calls of the stores they will make.

**ApiCalls** is the path of a mutation and of the status poll: rate limit,
route, error handler, connection, `handleResponse`, message. What a route writes
is only counted, since SolverPool and DelegationService have the details. The
operator who processes withdrawals is external: nothing in the repository moves
a request on.

**FiniteSums** and the modules named **...Proofs** hold the theorems; AppProofs has
those of BalanceFeed, FrontendSession and ApiCalls, SolverPoolProofs also those of
Rewards.
The **MC** modules give the constants small values.

In the component modules an operator marked "wrong variant" is a plausible
mistake in the definition that follows it. It is not used by the specification;
`PROJECT.json` pairs it with the property that notices it.

## The runs

| Run | Checks | Bounds |
|---|---|---|
| `MCCustodyDeployed` | types, `ExitIsOpen`, `ClaimsAreTheUsers`, `KeepsPromise` under the roles of the deployment script | one user, one account that is admin and operator (the script makes one address both), one asset, three tokens, amounts 0 to 3 |
| `MCCustodyOpenRoles` | `Solvency`, `SurplusStays` when an account may be a router and another a distributor | the same |
| `MCIntentSettler` | types, `OneOrderPerNonce`, `OneRequestPerNonce`, `KeySpendsWereGranted` | one user, one key, two tokens, a wide and a narrow grant, two signed requests, one tick of the clock |
| `MCSolverPool` | types, `YieldOnce`, `MovesAreAnswered`, `InventoryExplained`, `UndisturbedFastExit`, `KeepsBook` | two calls over three intents, one withdrawal, one credit, one place |
| `MCDelegationService` | types, `RevocationSticks`, `OneRacerRegisters` | one pair of user and key, two registrations, two revocations, two validations, one tick of the clock |
| `MCYellowClient` | types, `WaitersAreHeld`, `FlagsTellTheTruth`, `KeepsItsCalls`, `ConnectSettles` | one request and one login over two sockets, one attempt to reconnect |
| `MCClearNodeSession` | types, `TransactionsAreTheHistory`, `RecordedWasAccepted`, `ClosedWithARecordedState`, `AgreeInSequence` | one session (or one without an id), two updates of different allocations, one close |
| `MCBalanceFeed` | types, `OnlyTheSubscribed`, `ShownInSequence`, `UpdatesArrive` | two users, one publisher of each kind, one amount, one client that says two things and may connect again |
| `MCFrontendSession` | types, `WipeHolds`, `RestartRestores`, `GetsGoing` | two wallets, one tick of the clock, two operations under way on a store besides those of a clear |
| `MCApiCalls` | types, `ToldIsTrue`, `FinalIsShown` | two presses of any kind, one request admitted in a window, one retry |
| `MCDelegationReplaces`, `MCPoolFastExit` | one statement of a comment each, which the code does not keep | as above |

Why the bounds are enough. No custody call relates two assets, so one asset is
the general case. Three tokens give an odd and an even reward, a reward of one
(the user's share is zero), partial and full withdrawals and stray transfers;
`Word` is 8, above every sum that occurs, so a wrapped subtraction would show as
a huge value. One pair of user and operator covers every pair of roles, and the
contracts themselves are recipients too. For the settler, the narrow
grant after the wide one leaves a cap behind, two requests signed with the same
nonce compete, and deadlines and expiry fall on both sides of the tick. For the
pool, two calls cover a race and a retry; the inventory of 15 million serves one
intent of 10 and a small withdrawal, or two intents once it is credited, so a
debit also meets an inventory that shrank since the check; the three intents are one of a user with a
balance, one of a user with none and one too small to be profitable. The
amounts are large because the gas estimate in the code is an absolute number. No query of DelegationService touches two pairs, so one pair is
the general case; two calls of each kind cover a race and a repetition, and the
expiry of a key falls before, at and after the tick.

Two sockets are an old and a current one, which is what the client's handlers
confuse; a call and a login cover both kinds of request, and one of them may wait
while the other's socket goes. Two updates take the same nonce, in either order of
answers and of writes, and a close falls before, between and after them; the
allocations differ from each other and from the deposit, so a wrong one shows.
Two messages of a client subscribe to both users, or subscribe and unsubscribe, and
after a break it starts again from nothing; with one amount a deposit, a row that a
reward makes and a withdrawal request still leave balances apart (1, and 0 announced),
and three publishers overlap in every order. Two operations on a store are a write under way when the
next visit of Bootstrap asks for a read, with those of a disconnect on top;
`MaxTime` lets a delegation run out. Two presses meet at a limit of one, and one
retry exhausts the retries of a query.

All systems may stop (nobody has to call), so deadlock is not checked.

### Fairness

The custody, settler, pool, delegation and ClearNode session runs assume none.
Where a run has a liveness property, its specification (`FairSpec`, `FairSessionSpec`,
`FairCallsSpec`) assumes:

- YellowClient: timers of the process fire, the signer answers, and
  `authenticate` goes on from a challenge. Nothing of the network or the
  ClearNode: every call settles although no answer ever comes.
- BalanceFeed: Redis hands over what it has, frames arrive while the connection
  holds, a broken connection is noticed. Nothing of publishers and clients.
- FrontendSession: while the app runs, the phone answers a read or a write (with
  an error, if it likes), and React runs its effects and renders.
- ApiCalls: windows of the limiter end, timers of the query fire, a request is
  answered or breaks. Of polls that are repeated for ever, some are served and
  some answers arrive: without it an app that never reaches its server shows no
  end. The operator need not act.

### What the violated runs show

- `MCPoolFastExit`: a withdrawal requested between the liquidity check and the
  debit is not covered any more (inventoryManager.ts:28).
- `MCDelegationReplaces`: registering an active key again revokes it, and the new
  row is refused by the unique index (delegation/index.ts:40). No race is needed.

### What some properties leave to the reader

- `FlagsTellTheTruth`: `isAuthenticated` means that a login was answered on the current
  socket. That the ClearNode granted it does not follow and is false of the code:
  any response to `auth_verify` sets the flag (yellow/client.ts:206), although the rules
  for integrations want `success` looked at
  (.agents/skills/yellow-best-practices/rules/02-authentication.md:108, AUTH-05).
- `ShownInSequence`: after a withdrawal request a subscribed client shows a balance
  that the table never held (withdrawal.ts:63), until the next publication; and where
  publications of a user overlap, the older may win. What holds is that one
  publication without another under way puts it right, whatever went wrong before.
- `WipeHolds`: a disconnect's two operations take effect in the order they were issued,
  behind whatever was under way. The delegation survives on the phone in two cases: the
  app is killed before either took effect, or both fail. And a hydration that is under
  way when the disconnect comes may bring the delegation back in memory, until the app
  ends; the next launch does not find it.
- `OneRacerRegisters` is about registrations that all found no row. That a registration
  that finds the row fails is the defect of `MCDelegationReplaces`, and no property
  holds it up as right.
- `RecordedWasAccepted`: what a half-done `initializeSession` leaves is a beginning of
  what it writes: no transaction without its row, no balance without the transaction.
- `MovesAreAnswered`: debits and submissions may outnumber the rows of the log, but
  each one beyond is the doing of a call that threw or has yet to log it; no caller
  that got an answer moved funds in silence. A caller that got an error and tries
  again may move them twice, and the log shows one.
- `AgreeInSequence` compares allocations. A close without authentication never
  reaches the ClearNode and marks the row closed all the same (clearnode/index.ts:222),
  so the status of a row says nothing about the ClearNode.
- `ToldIsTrue` claims nothing about INTERNAL_ERROR and broken connections: the server
  may have written or not, and the app has no means to find out.
- `KeySpendsWereGranted` asks for a cap granted at some time, see below.

### What a reader should know besides

The models contain these behaviours of the code; no run is about them, since no
document says precisely enough that they should be otherwise, or they are beside
the properties above.

- Registering a session key again for fewer tokens leaves the caps of the others
  (SessionKeyRegistry.sol:143). `KeySpendsWereGranted` therefore speaks of caps
  granted at some time.
- The facade's `revokeSessionKey` reverts for everybody, because the registry sees
  the facade as the owner (FlywheelProtocol.sol:129); `FacadeRevokeSessionKey` is
  never enabled.
- The solver's debit commits by itself and outlives a failed fulfilment
  (solver/index.ts:130); `KeepsBook` has the direction that holds.
- Overlapping debits and credits lose updates (inventoryManager.ts:93), although the
  comments there (lines 73, 112) call both atomic: two that read the same amount
  both succeed, and the row shows the later one. `InventoryExplained` says what
  holds all the same: the row stays between the start less the committed debits
  and the start plus the committed credits.
- A user with a balance row gets no reward (solver/index.ts:158).
- A reconnect timer is not cancelled by `disconnect`, so a client that was
  disconnected may connect again, without authenticating (yellow/client.ts:135).
- Two overlapping state updates may leave the database with another state than the
  one the ClearNode accepted last (clearnode/index.ts:156); `AgreeInSequence` is
  about calls that do not overlap.
- A stored delegation names no owner (delegationStore.ts:24): after a wallet
  session that ended unseen, another wallet finds it active.
- `/intent/build` of lif-rust answers with `onchainOrder.orderData` set to the
  encoding of the whole order (uxwallet_codec.rs:100), while its `orderData` and
  the calldata of `open` carry the order data alone.

## What is proved

Every theorem holds for every value of the constants under the named assumptions
of the component module (TLC evaluates them on each run) and the hypotheses given
here. Each rests on an inductive invariant that TLC checked on the runs' instances
before it was proved; no invariant a run checks is left but `ExitIsOpen`, and of
that the steps it says are enabled are proved to be steps.

| Module | Theorems |
|---|---|
| FlywheelCustodyProofs | `TypeCorrect`, `Solvent`, `SurplusNeverPaidOut`, `OwnersTakeTreasuryOnly`, `ImplementsClaimsLedger`, `PrincipalExits`, `RewardExits` |
| IntentSettlerProofs | `SettlerTyped`, `OneOrder`, `OneRequest`, `KeysSpendWhatWasGranted` |
| SolverPoolProofs | `SplitIsFair`, `ProfitCoversCost`, `PoolTyped`, `AlwaysYieldOnce`, `AlwaysMovesAreAnswered`, `AlwaysPoolLogHasDebit`, `AlwaysAnswerIsDurable`, `AlwaysUndisturbedFastExit`, `AlwaysInventoryExplained`, `ImplementsIntentBook` |
| DelegationServiceProofs | `TableIsTyped`, `RevocationIsFinal`, `RegisteredOnce`, `AcceptedKeysAreLive`, `RegistrationsOnlyDie` |
| YellowClientProofs | `ClientTyped`, `EveryWaiterIsHeld`, `FlagsAreTrue`, `SettlesOnceInItsSession`, `NoAnswerCrossesSessions` |
| ClearNodeSessionProofs | `SessionsTyped`, `HistoryHasNoGap`, `NothingRecordedAhead`, `ClosesWithAState`, `InSequenceTheyAgree` |
| AppProofs | `FeedTyped`, `HearsOnlyTheSubscribed`, `AlwaysShownInSequence` (BalanceFeed); `AppTypes`, `DisconnectWipes`, `LaunchRestores` (FrontendSession); `CallsTyped`, `UsersAreToldTheTruth` (ApiCalls) |
| FiniteSums | lemmas about sums over finite sets |

### Custody contracts

From finitely many accounts, distinct from the contracts, and amounts that are
words; any number of accounts, assets, tokens and any `Word`.

- `TypeCorrect`, `Solvent`: types and `Solvency` are inductive only together: the
  total does not wrap because it is the sum of the principals and the debited
  principal covers the amount; it stays the sum because nothing wraps. The proof
  shows for every entry point that it keeps types and total and that no contract's
  surplus shrinks (`Kept`); backing follows, for a surplus that was not negative
  stays so.
- `SurplusNeverPaidOut`: the same lemma read as an action property.
- `OwnersTakeTreasuryOnly`: where the admin makes only the facade a router,
  `ClaimsAreTheUsers` holds. The hypothesis is needed: LPVault's admin can make
  any address a router, and a router moves any user's principal. It is the trust
  the deployment places in VAULT_ADMIN_ROLE.
- `ImplementsClaimsLedger`: under the same hypothesis `KeepsPromise`, the refinement
  of ClaimsLedger. Every transaction conserves the tokens of each asset
  (`Conserved`: one transfer, two through the facade, or none), so the free units,
  what the wallets hold beyond what is owed, are what is left once the change of
  the claims and of the treasury is known; what remains per entry point is which
  act of the ledger it is.
- `PrincipalExits`, `RewardExits`: the content of `ExitIsOpen` without ENABLED. From
  the invariant alone, so whatever the roles are, the step that pays the whole
  principal (or the whole pending reward) of a user to any address is a step of
  `LPVault.withdraw` (of the facade's `withdraw` with no principal): every guard
  holds, because the vault is solvent and the total is the sum of the principals.

Sums over accounts are `SumFunctionOnSet` of the community modules; FiniteSums
proves how a sum changes with one entry, by induction on the size of the set.
The induction goes through the least counterexample of a set of naturals,
because the induction rules of the library take an operator as a parameter.

### Settler and registry

From RegistryAssumption (the facade is no user, caps and bounds are naturals);
any number of users, keys, tokens, orders and relayers. Each theorem has an
invariant of its own, no larger than it needs:

- `OneOrder`: `OneOrderPerNonce` with "a nonce not used has opened nothing".
- `OneRequest`: `OneRequestPerNonce` with "a nonce the registry has not reached has
  registered nothing"; nonces only rise, so what is behind stays refused.
- `KeysSpendWhatWasGranted`: an active key is one whose user acted last by a grant,
  and a cap other than zero is one that was granted. A spend reads both.

### Solver and pool

From PoolAssumption (finitely many calls, withdrawals, intents and credits, amounts that are naturals, a
missing row is no row); any number of places. `IInv` says what
a call knows between two awaits (`CallKnows`). It survives what other calls do in
between because it speaks of the call's own locals or of what only grows: log
rows are not rewritten, debits and submissions are not undone.

- `PoolTyped`: inventory never goes below zero, because `debit` compares with the
  value it writes from and not with the table.
- `AlwaysYieldOnce`: of the calls for one intent one commits (`CommittedOnce`), since
  the unique key of the log refuses the others; only that call logs a yield, of
  the share in its own row.
- `AlwaysMovesAreAnswered`: the number of debits and submissions of an intent against
  the number of calls that owe it a row. A call that moves funds joins that number and
  leaves it only with its row; one that throws stays in it.
- `AlwaysPoolLogHasDebit`, `AlwaysAnswerIsDurable`: a call at its commit has debited,
  a call at its fallback row has submitted, and a call past the row has it. No run
  checks these two by name: the refinement below contains them.
- `AlwaysUndisturbedFastExit`: an action property. Its hypothesis `Undisturbed`
  compares what the debit read with what the liquidity check read, and the
  withdrawals pending now with those the check counted. A weaker one, about the
  inventory in the table, could not be proved for a good reason: the debit writes
  from the value it read, which another call may have outdated.
- `AlwaysInventoryExplained`: the bounds also hold of what a debit or a credit has
  read and not yet written (`BooksInv`); committed debits and credits only grow, so
  an amount read long ago is still explained when it is written. Needs finitely
  many intents and credits, for the sums.
- `ImplementsIntentBook`: the refinement, over the same invariant and one about who
  won an intent (`WinInv`): the call whose row is in the log, alone, up to its
  answer; whether it has logged a yield is a matter of its share.
- `SplitIsFair`, `ProfitCoversCost`: the reward split loses nothing, and an accepted
  intent earns more than it costs.

### Session keys of the backend

From DelegationAssumption (the clock's bound is a natural, a missing row is no
row, the kinds of calls are disjoint); any number of pairs, calls and ticks. All
five theorems come from one invariant, `IInv`. Its core is that a row that left
ACTIVE never returns to it (`Kept`: only `Create` writes ACTIVE, and only where there
is no row) and that EXPIRED is written only past the expiry (`ExpiredIsPast`); so
what a call knows of the row it read is still true when it writes, whatever ran
in between (`CallKnows`). The invariant rests on the unique index that refuses a
second row: a registration that really replaced the row of a pair, as the comment
in the code says it does, would break it. `RegistrationsOnlyDie` is that core as an
action property: the other side of the finding above, for it says that no call can
ever renew the key of a pair.

### ClearNode client

From YellowAssumption; any number of calls, sockets and attempts.

- `EveryWaiterIsHeld`: `WaitersAreHeld` is inductive by itself, once `job` is known
  to be a function of records.
- `FlagsAreTrue`: `FlagsTellTheTruth` speaks of moments when every other socket has
  closed. In between a flag may owe its value to an old socket, so the invariant
  (`Backed`) asks only that some opened socket stands behind it, for
  `isAuthenticated` one on which a login was answered; when one socket is left, it is
  that.
- `SettlesOnceInItsSession`: the safety part of the refinement of ClearNodeCalls:
  every step of the client is a step of it, or nothing a caller sees. It needs
  that a call has at most one message on the wire, and only while it waits or
  after it was rejected (`OnTheWire`): an answer that finds an entry in the table
  finds a caller who waits for that very answer.
- `NoAnswerCrossesSessions`: what callers rely on, read off that refinement as one
  action property in the words of the client.

### ClearNode sessions

From ClearNodeAssumption (the kinds of calls are disjoint, `''` is no id the
ClearNode gives, allocations are numbers); any number of calls and sessions.

- `HistoryHasNoGap`: an update under way has read a row
  that is never deleted, so the nonce before its own is on record whatever other
  updates write in between (`NonceBefore`); and when it has its answer, the
  ClearNode has accepted its allocations (`AcceptedBefore`). It holds although two
  updates take one nonce and the nonce of a row may go back.
- `NothingRecordedAhead`: with that, rows and transactions only grow, so what a call
  wrote in its last step is there when it takes the next (`PrefixInv`).
- `ClosesWithAState`: a close carries allocations of a row it read, and those were
  in the transactions by then, or the deposit; `RemoteInv` follows them from the
  row over the wire to the ClearNode.
- `InSequenceTheyAgree`: on a session on which nothing overlapped or failed, the
  call that runs is alone and a close carries the state of the row; the row
  differs from the ClearNode's session only while an update has its answer and has
  not stored it (`OrderInv`).
- `SessionsTyped`, for finitely many updates: a nonce is at most the number of
  updates that wrote one. The proof counts them: the transactions have no gap and
  each update wrote at most one entry.

### Feed, app and its calls

From SessionAssumption (the bounds are naturals, the absent value is no number) and
LimitsAssumption (the limits are naturals); any number of users, publishers,
clients, wallets and presses. AppProofs extends the three modules, which have no
name in common: those of FrontendSession and ApiCalls carry `Session` and `Calls`
where BalanceFeed has `Init`, `Next`, `Spec`, `TypeOK`.

- `HearsOnlyTheSubscribed`: what is under way to a client is filtered already, or
  ahead of it is the confirmation from which the client counts (`Filtered`).
- `AlwaysShownInSequence`: for a user that is not blurred at most one publisher is at
  work (`Alone`); while none is, the last update under way that will count, in the
  channel or at a client, has the balance in the table less what was taken off it
  (`Fresh`, `EndsWith`).
- `DisconnectWipes`: while the wipe is asked for, the last write under way is one of its
  operations, and unless a hydration overtook it no read comes before; once done, the
  phone is empty, no grant is under way, and no read finds one (`Wiped`).
- `LaunchRestores`: the store holds the last value under way to the phone, or what
  is there; and a read is the last operation under way (`InTouch`).
- `UsersAreToldTheTruth`: `Course` follows a press from the server to the message.
  That the four mappings of an error compose to the code the server threw is a
  lemma over all codes (`ErrorsAre`).
- `FeedTyped`, `AppTypes`, `CallsTyped`: the types, with the limits of the rate
  limiter, of retries and of operations under way.

### What stays with TLC

- `ExitIsOpen` is about ENABLED, which the provers do not handle; the steps that
  witness it are proved (`PrincipalExits`, `RewardExits`).
- Liveness under fairness: `ConnectSettles`, `UpdatesArrive`, `GetsGoing`,
  `FinalIsShown`, and the fairness of ClearNodeCalls in `KeepsItsCalls` (that every
  call settles).
- The two violated runs, whose properties are false.

## What is not modelled

- Tokens that take fees, rebase or call back, and reentrancy through them: the
  contracts guard with `nonReentrant` and account by the amount asked for.
- AccessControl's inherited grantRole, revokeRole and renounceRole beyond the
  roles with setters; the zero address.
- `delegateAndRegister` as one transaction (its two halves are actions), and the
  Nitro pass-through with NitroSettlementAdapter, which keeps two addresses.
- Signature schemes, hashes, ABI encoding, the resolved order in events, and with
  them lif-rust, which does nothing else.
- A bound on the withdrawal requests: the route compares each with the balance row
  alone, so requests together may exceed it; no document says otherwise precisely
  enough to state it.
- PostgreSQL and Prisma beyond read-committed queries; concurrent creation of two
  balance rows with a null chain id.
- Queries that only read (states, balances, ledgers, keys), input schemas, start-up
  and shutdown of the server; `validateAllowance` and `retryWithBackoff`, which
  have no caller; the rebalancer, which reports and changes nothing; signing with
  a configured key.
- In the app: layout, placeholders, the websocket store (it has no writer yet) and
  the onboarding's `currentStep` (it has no reader).
- Components marked not_modelled in `PROJECT.json`, with the reason there.

## Plan

Done: FlywheelCustody with ClaimsLedger; SessionKeyRegistry and IntentSettler;
Rewards and SolverPool with IntentBook; DelegationService; YellowClient with ClearNodeCalls;
ClearNodeSession; BalanceFeed; FrontendSession; ApiCalls; the theorems above.

Left:

1. Theorems about ClaimsLedger itself, such as the sum of all units over a whole
   behaviour, which the refinement then carries over to the contracts.
2. The websocket store and the screens for delegating and withdrawing, once they
   have code.

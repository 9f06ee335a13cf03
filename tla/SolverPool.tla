------------------------------ MODULE SolverPool ------------------------------
(***************************************************************************)
(* The solver's pool: SolverService.fulfillIntent, the InventoryManager it *)
(* debits, and the withdrawal route whose requests the pool must keep      *)
(* liquidity for, over the PostgreSQL tables they share.                   *)
(*                                                                         *)
(* Calls run concurrently in one event loop: a step is what a call does    *)
(* between two awaits, that is one query, or one transaction's last        *)
(* statement and its commit.  The database is read-committed, PostgreSQL's *)
(* default, which nothing in the backend overrides: a query sees what is   *)
(* committed, a read locks nothing, and a write overwrites.  Any await may *)
(* reject (Fail): the call throws and its open transaction rolls back.     *)
(*                                                                         *)
(* A place is a pair of chain and asset.  All places hold the same asset,  *)
(* so a user has one balance row or none.                                  *)
(***************************************************************************)
EXTENDS Integers, FiniteSets, Functions, Rewards

CONSTANTS
  Intents,           \* intent ids
  Request,           \* Request[intentId]: its user, target place and amount
  Users,
  Places,
  Calls,             \* calls of fulfillIntent
  WithdrawalCalls,   \* calls of POST /withdrawal/request
  WithdrawalAmounts, \* what they ask for
  CreditCalls,       \* calls of InventoryManager.credit
  CreditAmount,      \* what they credit
  Inventory0,        \* the committed inventory at the start
  Balances0,         \* the balance rows at the start: an amount, or NoRow
  NoRow

\* Rows of the tables withdrawal_requests, intent_logs and yield_logs.
Withdrawals == [user : Users, place : Places, amount : Nat]
LogRows == [fulfilledFrom : {"POOL", "LIFI"}, userReward : Nat, treasuryReward : Nat]
YieldRows == [intentId : Intents, amount : Nat]

ASSUME PoolAssumption ==
  /\ IsFiniteSet(Intents) /\ IsFiniteSet(Calls)
  /\ IsFiniteSet(WithdrawalCalls) /\ IsFiniteSet(CreditCalls)
  /\ Request \in [Intents -> [user : Users, place : Places, amount : Nat \ {0}]]
  /\ WithdrawalAmounts \subseteq Nat /\ CreditAmount \in Nat
  /\ Inventory0 \in [Places -> Nat]
  /\ Balances0 \in [Users -> Nat \cup {NoRow}]
  /\ NoRow \notin Nat \cup Withdrawals \cup LogRows \cup YieldRows

VARIABLES
  \* tables
  vaultInventory,    \* vaultInventory[place]
  withdrawalRequest, \* withdrawalRequest[w]: the row call w created, or NoRow
  userBalance,       \* userBalance[user]: the row's balance, or NoRow
  intentLog,         \* intentLog[intentId]: the row, or NoRow
  yieldLog,          \* yieldLog[c]: the row call c created, or NoRow
  \* calls and their local variables
  job, request, credit,
  \* what left the backend
  shown,             \* shown[user]: the last balance-update event, or NoRow
  submitted,         \* submitted[intentId]: times it was handed to LI.FI
  \* history
  debits             \* debits[intentId]: committed inventory debits for it

tables == <<vaultInventory, withdrawalRequest, userBalance, intentLog, yieldLog>>
vars == <<vaultInventory, withdrawalRequest, userBalance, intentLog, yieldLog,
          job, request, credit, shown, submitted, debits>>

Ended == {"fulfilled", "failed", "threw"}
Open == {"liquidity", "reserve", "fallback", "logFallback", "debitRead",
         "debitWrite", "commit", "yield", "balance", "publish"}

Init ==
  /\ vaultInventory = Inventory0
  /\ withdrawalRequest = [w \in WithdrawalCalls |-> NoRow]
  /\ userBalance = Balances0
  /\ intentLog = [i \in Intents |-> NoRow]
  /\ yieldLog = [c \in Calls |-> NoRow]
  /\ job = [c \in Calls |-> [step |-> "idle"]]
  /\ request = [w \in WithdrawalCalls |-> [step |-> "idle"]]
  /\ credit = [k \in CreditCalls |-> [step |-> "idle"]]
  /\ shown = [u \in Users |-> NoRow]
  /\ submitted = [i \in Intents |-> 0]
  /\ debits = [i \in Intents |-> 0]

-----------------------------------------------------------------------------
(***************************************************************************)
(* fulfillIntent.                                                          *)
(***************************************************************************)
Req(c) == Request[job[c].intentId]
Goto(c, step) == job' = [job EXCEPT ![c].step = step]

Begin(c, i) ==
  /\ job[c].step = "idle"
  /\ job' = [job EXCEPT ![c] =
               [step |-> "liquidity", intentId |-> i, available |-> 0,
                reserved |-> 0, current |-> 0, balance |-> 0]]
  /\ UNCHANGED <<tables, request, credit, shown, submitted, debits>>

\* hasLiquidity, first await: getInventory.
ReadInventory(c) ==
  /\ job[c].step = "liquidity"
  /\ job' = [job EXCEPT ![c].step = "reserve",
                        ![c].available = vaultInventory[Req(c).place]]
  /\ UNCHANGED <<tables, request, credit, shown, submitted, debits>>

\* Rows stay PENDING: nothing in the backend moves a request on.
PendingAt(p) ==
  {w \in WithdrawalCalls :
     withdrawalRequest[w] # NoRow /\ withdrawalRequest[w].place = p}

Reserved(p) ==
  SumFunctionOnSet([w \in PendingAt(p) |-> withdrawalRequest[w].amount], PendingAt(p))

\* Wrong variant: pending withdrawals are not reserved.
SufficientUnreserved(available, reserved, amount) == available >= amount

Sufficient(available, reserved, amount) ==
  LET usable == IF available > reserved THEN available - reserved ELSE 0
  IN  usable >= amount

WorthIt(amount) == IsProfitable(amount, 21000, 1)

\* hasLiquidity, second await, and the decision up to the next one.
ReadReserved(c) ==
  LET reserved == Reserved(Req(c).place)
      amount   == Req(c).amount
  IN  /\ job[c].step = "reserve"
      /\ job' = [job EXCEPT
           ![c].reserved = reserved,
           ![c].step = IF ~Sufficient(job[c].available, reserved, amount)
                         THEN "fallback"
                       ELSE IF ~WorthIt(amount) THEN "failed" ELSE "debitRead"]
      /\ UNCHANGED <<tables, request, credit, shown, submitted, debits>>

\* The pool cannot serve it: LI.FI gets it, whatever became of the intent
\* before.  The client is a mock that always answers "fulfilled".
Fallback(c) ==
  /\ job[c].step = "fallback"
  /\ submitted' = [submitted EXCEPT ![job[c].intentId] = @ + 1]
  /\ Goto(c, "logFallback")
  /\ UNCHANGED <<tables, request, credit, shown, debits>>

LogRow(from, user, treasury) ==
  [fulfilledFrom |-> from, userReward |-> user, treasuryReward |-> treasury]

\* intentId is unique: the row of an earlier call makes this one throw.  A row
\* that is committed may still throw, if its acknowledgement is lost.
LogFallback(c) ==
  LET i == job[c].intentId
  IN  /\ job[c].step = "logFallback"
      /\ \/ /\ intentLog[i] = NoRow
            /\ intentLog' = [intentLog EXCEPT ![i] = LogRow("LIFI", 0, 0)]
            /\ \E end \in {"fulfilled", "threw"} : Goto(c, end)
         \/ /\ intentLog[i] # NoRow
            /\ UNCHANGED intentLog
            /\ Goto(c, "threw")
      /\ UNCHANGED <<vaultInventory, withdrawalRequest, userBalance, yieldLog,
                     request, credit, shown, submitted, debits>>

\* Wrong variant: the debit does not look at what is there.
DebitReadUnchecked(c) ==
  /\ job[c].step = "debitRead"
  /\ job' = [job EXCEPT ![c].current = vaultInventory[Req(c).place],
                        ![c].step = "debitWrite"]
  /\ UNCHANGED <<tables, request, credit, shown, submitted, debits>>

\* InventoryManager.debit runs in a transaction of its own, on its own
\* connection, inside the callback of the outer one: read, ...
DebitRead(c) ==
  LET current == vaultInventory[Req(c).place]
  IN  /\ job[c].step = "debitRead"
      /\ job' = [job EXCEPT
           ![c].current = current,
           ![c].step = IF current < Req(c).amount THEN "threw" ELSE "debitWrite"]
      /\ UNCHANGED <<tables, request, credit, shown, submitted, debits>>

\* ... write and commit.  The outer transaction is still open.
DebitWrite(c) ==
  /\ job[c].step = "debitWrite"
  /\ vaultInventory' =
       [vaultInventory EXCEPT ![Req(c).place] = job[c].current - Req(c).amount]
  /\ debits' = [debits EXCEPT ![job[c].intentId] = @ + 1]
  /\ Goto(c, "commit")
  /\ UNCHANGED <<withdrawalRequest, userBalance, intentLog, yieldLog,
                 request, credit, shown, submitted>>

\* userBalance.upsert: an existing row is "updated" with nothing.
UpsertBalance(u, reward) ==
  userBalance' =
    [userBalance EXCEPT ![u] = IF @ = NoRow THEN reward ELSE @]

\* Wrong variant: the log row is upserted, so a second call passes too.
CommitAgain(c) ==
  LET i      == job[c].intentId
      reward == GrossReward(Req(c).amount)
  IN  /\ job[c].step = "commit"
      /\ intentLog' = [intentLog EXCEPT ![i] =
                         LogRow("POOL", UserReward(reward), TreasuryReward(reward))]
      /\ UpsertBalance(Req(c).user, UserReward(reward))
      /\ Goto(c, "yield")
      /\ UNCHANGED <<vaultInventory, withdrawalRequest, yieldLog,
                     request, credit, shown, submitted, debits>>

\* The outer transaction: log the intent, upsert the balance, commit.
Commit(c) ==
  LET i      == job[c].intentId
      reward == GrossReward(Req(c).amount)
  IN  /\ job[c].step = "commit"
      /\ \/ /\ intentLog[i] = NoRow
            /\ intentLog' = [intentLog EXCEPT ![i] =
                 LogRow("POOL", UserReward(reward), TreasuryReward(reward))]
            /\ UpsertBalance(Req(c).user, UserReward(reward))
            /\ Goto(c, "yield")
         \/ /\ intentLog[i] # NoRow
            /\ UNCHANGED <<intentLog, userBalance>>
            /\ Goto(c, "threw")
      /\ UNCHANGED <<vaultInventory, withdrawalRequest, yieldLog,
                     request, credit, shown, submitted, debits>>

\* Find the log row, and log the yield if there is one to log.
LogYield(c) ==
  LET i      == job[c].intentId
      reward == UserReward(GrossReward(Req(c).amount))
  IN  /\ job[c].step = "yield"
      /\ yieldLog' = [yieldLog EXCEPT ![c] =
           IF intentLog[i] # NoRow /\ reward > 0
             THEN [intentId |-> i, amount |-> reward] ELSE @]
      /\ Goto(c, "balance")
      /\ UNCHANGED <<vaultInventory, withdrawalRequest, userBalance, intentLog,
                     request, credit, shown, submitted, debits>>

ReadBalance(c) ==
  LET row == userBalance[Req(c).user]
  IN  /\ job[c].step = "balance"
      /\ job' = [job EXCEPT ![c].step = "publish",
                            ![c].balance = IF row = NoRow THEN 0 ELSE row]
      /\ UNCHANGED <<tables, request, credit, shown, submitted, debits>>

Publish(c) ==
  /\ job[c].step = "publish"
  /\ shown' = [shown EXCEPT ![Req(c).user] = job[c].balance]
  /\ Goto(c, "fulfilled")
  /\ UNCHANGED <<tables, request, credit, submitted, debits>>

\* Wrong variant: a yield that cannot be logged does not stop the answer.
FailYieldQuietly(c) ==
  /\ job[c].step \in Open
  /\ Goto(c, IF job[c].step = "yield" THEN "balance" ELSE "threw")
  /\ UNCHANGED <<tables, request, credit, shown, submitted, debits>>

\* Wrong variant: a failed fulfilment gives the pool its amount back, taken or not.
FailRefunding(c) ==
  /\ job[c].step \in Open
  /\ vaultInventory' = [vaultInventory EXCEPT ![Req(c).place] = @ + Req(c).amount]
  /\ Goto(c, "threw")
  /\ UNCHANGED <<withdrawalRequest, userBalance, intentLog, yieldLog,
                 request, credit, shown, submitted, debits>>

\* Wrong variant: a rejected await is answered as an intent that was not taken.
FailAsDeclined(c) ==
  /\ job[c].step \in Open
  /\ Goto(c, "failed")
  /\ UNCHANGED <<tables, request, credit, shown, submitted, debits>>

\* The query, the commit or the LI.FI call a step waits for rejects.
Fail(c) ==
  /\ job[c].step \in Open
  /\ Goto(c, "threw")
  /\ UNCHANGED <<tables, request, credit, shown, submitted, debits>>

-----------------------------------------------------------------------------
(***************************************************************************)
(* POST /withdrawal/request: read the balance, create the row, publish.    *)
(***************************************************************************)
RequestWithdrawal(w, u, p, n) ==
  /\ request[w].step = "idle"
  /\ request' = [request EXCEPT ![w] =
       [step |-> IF userBalance[u] = NoRow THEN "refused"
                 ELSE IF userBalance[u] < n THEN "refused" ELSE "create",
        row |-> [user |-> u, place |-> p, amount |-> n],
        balance |-> IF userBalance[u] = NoRow THEN 0 ELSE userBalance[u]]]
  /\ UNCHANGED <<tables, job, credit, shown, submitted, debits>>

CreateWithdrawal(w) ==
  /\ request[w].step = "create"
  /\ withdrawalRequest' = [withdrawalRequest EXCEPT ![w] = request[w].row]
  /\ request' = [request EXCEPT ![w].step = "publish"]
  /\ UNCHANGED <<vaultInventory, userBalance, intentLog, yieldLog, job, credit,
                 shown, submitted, debits>>

PublishWithdrawal(w) ==
  LET row == request[w].row
  IN  /\ request[w].step = "publish"
      /\ shown' = [shown EXCEPT ![row.user] = request[w].balance - row.amount]
      /\ request' = [request EXCEPT ![w].step = "created"]
      /\ UNCHANGED <<tables, job, credit, submitted, debits>>

FailWithdrawal(w) ==
  /\ request[w].step \in {"create", "publish"}
  /\ request' = [request EXCEPT ![w].step = "threw"]
  /\ UNCHANGED <<tables, job, credit, shown, submitted, debits>>

-----------------------------------------------------------------------------
(***************************************************************************)
(* InventoryManager.credit: read, then write and commit.  A credit that    *)
(* fails is one that stops after its read.                                 *)
(***************************************************************************)
CreditRead(k, p) ==
  /\ credit[k].step = "idle"
  /\ credit' = [credit EXCEPT ![k] =
       [step |-> "write", place |-> p, current |-> vaultInventory[p]]]
  /\ UNCHANGED <<tables, job, request, shown, submitted, debits>>

CreditWrite(k) ==
  /\ credit[k].step = "write"
  /\ vaultInventory' =
       [vaultInventory EXCEPT ![credit[k].place] = credit[k].current + CreditAmount]
  /\ credit' = [credit EXCEPT ![k].step = "credited"]
  /\ UNCHANGED <<withdrawalRequest, userBalance, intentLog, yieldLog, job,
                 request, shown, submitted, debits>>

-----------------------------------------------------------------------------
CallNext(c) ==
  \/ \E i \in Intents : Begin(c, i)
  \/ ReadInventory(c) \/ ReadReserved(c)
  \/ Fallback(c) \/ LogFallback(c)
  \/ DebitRead(c) \/ DebitWrite(c) \/ Commit(c)
  \/ LogYield(c) \/ ReadBalance(c) \/ Publish(c)
  \/ Fail(c)

WithdrawalNext(w) ==
  \/ \E u \in Users, p \in Places, n \in WithdrawalAmounts : RequestWithdrawal(w, u, p, n)
  \/ CreateWithdrawal(w) \/ PublishWithdrawal(w) \/ FailWithdrawal(w)

CreditNext(k) == (\E p \in Places : CreditRead(k, p)) \/ CreditWrite(k)

Next ==
  \/ \E c \in Calls : CallNext(c)
  \/ \E w \in WithdrawalCalls : WithdrawalNext(w)
  \/ \E k \in CreditCalls : CreditNext(k)

Spec == Init /\ [][Next]_vars

-----------------------------------------------------------------------------
(***************************************************************************)
(* Types; no amount in a table is negative.                                *)
(***************************************************************************)
TypeOK ==
  /\ vaultInventory \in [Places -> Nat]
  /\ withdrawalRequest \in [WithdrawalCalls -> Withdrawals \cup {NoRow}]
  /\ userBalance \in [Users -> Nat \cup {NoRow}]
  /\ intentLog \in [Intents -> LogRows \cup {NoRow}]
  /\ yieldLog \in [Calls -> YieldRows \cup {NoRow}]
  /\ job \in [Calls ->
       [step : Open \cup Ended, intentId : Intents, available : Nat,
        reserved : Nat, current : Nat, balance : Nat] \cup {[step |-> "idle"]}]
  /\ request \in [WithdrawalCalls ->
       [step : {"refused", "create", "publish", "created", "threw"},
        row : Withdrawals, balance : Nat] \cup {[step |-> "idle"]}]
  /\ credit \in [CreditCalls ->
       [step : {"write", "credited"}, place : Places, current : Nat]
         \cup {[step |-> "idle"]}]
  /\ shown \in [Users -> Nat \cup {NoRow}]
  /\ submitted \in [Intents -> Nat]
  /\ debits \in [Intents -> Nat]

(***************************************************************************)
(* An intent yields once: whichever calls retry it, on whichever path, at  *)
(* most one of them logs a yield, and only for an intent the log shows     *)
(* fulfilled from the pool, and of the user share logged there.            *)
(***************************************************************************)
YieldOnce ==
  \A c \in Calls :
    yieldLog[c] # NoRow =>
      LET i == yieldLog[c].intentId
      IN  /\ intentLog[i] # NoRow
          /\ intentLog[i].fulfilledFrom = "POOL"
          /\ intentLog[i].userReward = yieldLog[c].amount
          /\ \A d \in Calls :
               yieldLog[d] # NoRow /\ yieldLog[d].intentId = i => d = c

(***************************************************************************)
(* The tables and the answers keep the promise of IntentBook.              *)
(***************************************************************************)
WaysOf(i) ==
  {way \in {"POOL", "LIFI"} : IF way = "POOL" THEN debits[i] > 0 ELSE submitted[i] > 0}
RecordOf(i) ==
  IF intentLog[i] = NoRow THEN NoRow
  ELSE [from |-> intentLog[i].fulfilledFrom, share |-> intentLog[i].userReward]
YieldersOf(i) == {c \in Calls : yieldLog[c] # NoRow /\ yieldLog[c].intentId = i}
ToldOf(i) == {c \in Calls : job[c].step = "fulfilled" /\ job[c].intentId = i}

Book == INSTANCE IntentBook WITH
  Share   <- [i \in Intents |-> UserReward(GrossReward(Request[i].amount))],
  moved   <- [i \in Intents |-> WaysOf(i)],
  settled <- [i \in Intents |-> RecordOf(i)],
  yielded <- [i \in Intents |-> YieldersOf(i)],
  told    <- [i \in Intents |-> ToldOf(i)]

KeepsBook == Book!BookSpec

(***************************************************************************)
(* No funds move in silence: of the debits for an intent, which commit     *)
(* inside a transaction that may still roll back, and of its submissions   *)
(* to LI.FI, which come before anything is recorded, one is in the log,    *)
(* and each other is the doing of a call that is about to log it or threw. *)
(* A caller that was answered, also with "failed", moved no funds that the *)
(* log does not show.                                                      *)
(***************************************************************************)
Unlogged(i) ==
  {c \in Calls : job[c].step \in {"commit", "logFallback", "threw"} /\ job[c].intentId = i}

MovesAreAnswered ==
  \A i \in Intents :
    debits[i] + submitted[i] <=
      Cardinality(Unlogged(i)) + (IF intentLog[i] = NoRow THEN 0 ELSE 1)

(***************************************************************************)
(* Whatever updates are lost, when a debit or a credit overwrites what     *)
(* another committed between its read and its write: a place never shows   *)
(* less than the start and the committed debits explain, nor more than the *)
(* start and the committed credits do.                                     *)
(***************************************************************************)
Debited(p) ==
  SumFunctionOnSet(
    [i \in Intents |-> IF Request[i].place = p THEN debits[i] * Request[i].amount ELSE 0],
    Intents)

Credited(p) ==
  SumFunctionOnSet(
    [k \in CreditCalls |->
       IF credit[k].step = "credited" /\ credit[k].place = p THEN CreditAmount ELSE 0],
    CreditCalls)

Explained(p, amount) ==
  /\ amount + Debited(p) >= Inventory0[p]
  /\ amount <= Inventory0[p] + Credited(p)

InventoryExplained == \A p \in Places : Explained(p, vaultInventory[p])

(***************************************************************************)
(* The Fast Exit Guarantee, undisturbed: a debit leaves enough inventory   *)
(* for every pending withdrawal, if it found no less in the table than the *)
(* liquidity check did, and no more is pending than the check counted.     *)
(***************************************************************************)
Undisturbed(c) ==
  /\ job[c].current >= job[c].available
  /\ Reserved(Req(c).place) <= job[c].reserved

UndisturbedFastExit ==
  [][\A c \in Calls :
       job[c].step = "debitWrite" /\ job'[c].step = "commit" /\ Undisturbed(c) =>
         vaultInventory'[Req(c).place] >= Reserved(Req(c).place)]_vars

(***************************************************************************)
(* "Never fulfills if it would break the Fast Exit Guarantee (i.e.         *)
(* reserved withdrawal amounts must remain)" (inventoryManager.ts:28-29).  *)
(***************************************************************************)
FastExit ==
  [][\A p \in Places :
       vaultInventory'[p] < vaultInventory[p] => vaultInventory'[p] >= Reserved(p)]_vars
=============================================================================

--------------------------- MODULE SolverPoolProofs ---------------------------
(***************************************************************************)
(* The solver's pool, for any number of intents, places, concurrent        *)
(* fulfilments, retries, withdrawals and credits, any inventory and any    *)
(* amounts; and what splitReward and evaluateProfitability compute.        *)
(***************************************************************************)
EXTENDS SolverPool, FiniteSums

(***************************************************************************)
(* splitReward hands out exactly the reward, in natural shares that differ *)
(* by at most the odd unit, which is the treasury's.                       *)
(***************************************************************************)
THEOREM SplitIsFair ==
  ASSUME NEW totalReward \in Nat
  PROVE  /\ UserReward(totalReward) \in Nat
         /\ TreasuryReward(totalReward) \in Nat
         /\ UserReward(totalReward) + TreasuryReward(totalReward) = totalReward
         /\ TreasuryReward(totalReward) - UserReward(totalReward) \in {0, 1}
BY DEF UserReward, TreasuryReward

(***************************************************************************)
(* An intent that evaluateProfitability accepts, at any positive minimal   *)
(* spread, earns more than it costs: the reward covers gas and bridge fee. *)
(***************************************************************************)
THEOREM ProfitCoversCost ==
  ASSUME NEW intentAmount \in Nat \ {0}, NEW totalCost \in Nat,
         NEW minSpreadBps \in Nat \ {0},
         IsProfitable(intentAmount, totalCost, minSpreadBps)
  PROVE  GrossReward(intentAmount) > totalCost
<1> SUFFICES ASSUME ~(GrossReward(intentAmount) > totalCost) PROVE FALSE
  OBVIOUS
<1>1. NetReward(intentAmount, totalCost) = 0
  BY DEF NetReward
<1>2. (0 * Basis) \div intentAmount = 0
  BY DEF Basis
<1>3. SpreadBps(intentAmount, totalCost) = 0
  BY <1>1, <1>2 DEF SpreadBps
<1> QED
  BY <1>3 DEF IsProfitable

\* The gross reward is a natural, and so are the shares of it that are logged.
LEMMA RewardsAreNat ==
  ASSUME NEW n \in Nat
  PROVE  /\ UserReward(GrossReward(n)) \in Nat
         /\ TreasuryReward(GrossReward(n)) \in Nat
<1>1. GrossReward(n) \in Nat
  BY DEF GrossReward, RewardBps, Basis
<1> QED  BY <1>1, SplitIsFair

-----------------------------------------------------------------------------
(***************************************************************************)
(* The invariant.  The first four facts of a call hold from the step that  *)
(* established them to the step that uses them, although the tables change *)
(* in between, because they are about the call's own locals or about what  *)
(* only grows: rows of the log are not rewritten, counts of debits and     *)
(* submissions do not shrink.                                              *)
(***************************************************************************)
Idle == [step |-> "idle"]
Jobs == [step : Open \cup Ended, intentId : Intents, available : Nat,
         reserved : Nat, current : Nat, balance : Nat]
Requests == [step : {"refused", "create", "publish", "created", "threw"},
             row : Withdrawals, balance : Nat]
Credits == [step : {"write", "credited"}, place : Places, current : Nat]

\* The rows a call writes once its outer transaction commits.
PoolRow(c) == LogRow("POOL", UserReward(GrossReward(Req(c).amount)),
                     TreasuryReward(GrossReward(Req(c).amount)))
YieldRow(c) == [intentId |-> job[c].intentId,
                amount |-> UserReward(GrossReward(Req(c).amount))]

\* The call whose transaction committed, until it has logged its yield and after.
Committed(c) == job[c].step = "yield" \/ yieldLog[c] # NoRow

CallKnows(c) ==
  /\ job[c].step \in {"debitRead", "debitWrite"} =>
       job[c].available >= job[c].reserved + Req(c).amount
  /\ job[c].step = "debitWrite" => job[c].current >= Req(c).amount
  /\ job[c].step = "commit" => debits[job[c].intentId] > 0
  /\ job[c].step = "logFallback" => submitted[job[c].intentId] > 0
  /\ job[c].step \in {"yield", "balance", "publish", "fulfilled"} =>
       intentLog[job[c].intentId] # NoRow
  /\ Committed(c) => job[c].step # "idle" /\ intentLog[job[c].intentId] = PoolRow(c)
  /\ yieldLog[c] # NoRow => yieldLog[c] = YieldRow(c)

\* A row of the log has its debit, or its submission, behind it.
LogBacked ==
  \A i \in Intents :
    intentLog[i] # NoRow =>
      /\ intentLog[i].fulfilledFrom = "LIFI" => submitted[i] > 0
      /\ intentLog[i].fulfilledFrom = "POOL" => debits[i] > 0

CommittedOnce ==
  \A c, d \in Calls :
    Committed(c) /\ Committed(d) /\ job[c].intentId = job[d].intentId => c = d

RequestsCovered ==
  \A w \in WithdrawalCalls :
    request[w].step \in {"create", "publish"} =>
      request[w].balance >= request[w].row.amount

IInv ==
  /\ TypeOK
  /\ \A c \in Calls : CallKnows(c)
  /\ LogBacked
  /\ CommittedOnce
  /\ RequestsCovered

(***************************************************************************)
(* What it gives.                                                          *)
(***************************************************************************)
\* A call that has begun has the record of one.
LEMMA JobTyped ==
  ASSUME TypeOK, NEW c \in Calls, job[c].step # "idle"
  PROVE  /\ job[c] \in Jobs
         /\ job[c].intentId \in Intents
         /\ Req(c).user \in Users /\ Req(c).place \in Places
         /\ Req(c).amount \in Nat \ {0}
<1>1. job[c] \in Jobs
  BY DEF TypeOK, Jobs
<1>2. job[c].intentId \in Intents
  BY <1>1 DEF Jobs
<1> QED  BY <1>1, <1>2, PoolAssumption DEF Req

\* The rows a call would write.
LEMMA RowFacts ==
  ASSUME TypeOK, NEW c \in Calls, job[c].step # "idle"
  PROVE  /\ PoolRow(c) \in LogRows /\ PoolRow(c) # NoRow
         /\ PoolRow(c).fulfilledFrom = "POOL"
         /\ PoolRow(c).userReward = YieldRow(c).amount
         /\ YieldRow(c) \in YieldRows /\ YieldRow(c) # NoRow
         /\ YieldRow(c).intentId = job[c].intentId
<1> DEFINE user == UserReward(GrossReward(Req(c).amount))
           treasury == TreasuryReward(GrossReward(Req(c).amount))
<1>1. user \in Nat /\ treasury \in Nat /\ job[c].intentId \in Intents
  <2>1. Req(c).amount \in Nat /\ job[c].intentId \in Intents
    BY JobTyped
  <2> QED  BY <2>1, RewardsAreNat
<1>2. /\ PoolRow(c) = [fulfilledFrom |-> "POOL", userReward |-> user, treasuryReward |-> treasury]
      /\ YieldRow(c) = [intentId |-> job[c].intentId, amount |-> user]
  BY DEF PoolRow, YieldRow, LogRow
<1> HIDE DEF user, treasury
<1>3. PoolRow(c) \in LogRows /\ YieldRow(c) \in YieldRows
  BY <1>1, <1>2 DEF LogRows, YieldRows
<1>4. PoolRow(c) # NoRow /\ YieldRow(c) # NoRow
  BY <1>3, PoolAssumption
<1> QED  BY <1>2, <1>3, <1>4

LEMMA IInvYieldOnce == IInv => YieldOnce
<1> SUFFICES ASSUME IInv, NEW c \in Calls, yieldLog[c] # NoRow
             PROVE  LET i == yieldLog[c].intentId
                    IN  /\ intentLog[i] # NoRow
                        /\ intentLog[i].fulfilledFrom = "POOL"
                        /\ intentLog[i].userReward = yieldLog[c].amount
                        /\ \A d \in Calls :
                             yieldLog[d] # NoRow /\ yieldLog[d].intentId = i => d = c
  BY DEF YieldOnce
<1>1. ASSUME NEW d \in Calls, yieldLog[d] # NoRow
      PROVE  /\ Committed(d) /\ job[d].step # "idle"
             /\ yieldLog[d] = YieldRow(d) /\ yieldLog[d].intentId = job[d].intentId
             /\ intentLog[job[d].intentId] = PoolRow(d)
  <2>1. CallKnows(d) /\ Committed(d)
    BY <1>1 DEF IInv, Committed
  <2>2. job[d].step # "idle" /\ yieldLog[d] = YieldRow(d)
        /\ intentLog[job[d].intentId] = PoolRow(d)
    BY <1>1, <2>1 DEF CallKnows
  <2>3. YieldRow(d).intentId = job[d].intentId
    BY <2>2, RowFacts DEF IInv
  <2> QED  BY <2>1, <2>2, <2>3
<1>2. /\ intentLog[job[c].intentId] # NoRow
      /\ intentLog[job[c].intentId].fulfilledFrom = "POOL"
      /\ intentLog[job[c].intentId].userReward = yieldLog[c].amount
  BY <1>1, RowFacts DEF IInv
<1> QED
  BY <1>1, <1>2 DEF IInv, CommittedOnce

(***************************************************************************)
(* No intent is logged as fulfilled from the pool, whatever fails and      *)
(* whoever retries, unless a debit of the inventory for it has committed.  *)
(***************************************************************************)
PoolLogHasDebit ==
  \A i \in Intents :
    intentLog[i] # NoRow /\ intentLog[i].fulfilledFrom = "POOL" => debits[i] > 0

(***************************************************************************)
(* A caller that is told "fulfilled" finds the intent in the log, and the  *)
(* funds on their way: debited from the pool or handed to LI.FI.           *)
(***************************************************************************)
AnswerIsDurable ==
  \A c \in Calls :
    job[c].step = "fulfilled" =>
      LET i == job[c].intentId
      IN  /\ intentLog[i] # NoRow
          /\ intentLog[i].fulfilledFrom = "LIFI" => submitted[i] > 0
          /\ intentLog[i].fulfilledFrom = "POOL" => debits[i] > 0

LEMMA IInvPoolLogHasDebit == IInv => PoolLogHasDebit
  BY DEF IInv, LogBacked, PoolLogHasDebit

LEMMA IInvAnswerIsDurable == IInv => AnswerIsDurable
<1> SUFFICES ASSUME IInv, NEW c \in Calls, job[c].step = "fulfilled"
             PROVE  LET i == job[c].intentId
                    IN  /\ intentLog[i] # NoRow
                        /\ intentLog[i].fulfilledFrom = "LIFI" => submitted[i] > 0
                        /\ intentLog[i].fulfilledFrom = "POOL" => debits[i] > 0
  BY DEF AnswerIsDurable
<1>1. job[c].intentId \in Intents /\ intentLog[job[c].intentId] # NoRow
  BY JobTyped DEF IInv, CallKnows
<1> QED  BY <1>1 DEF IInv, LogBacked

LEMMA InitIInv == Init => IInv
<1> SUFFICES ASSUME Init PROVE IInv  OBVIOUS
<1>1. TypeOK
  BY PoolAssumption DEF Init, TypeOK
<1>2. \A c \in Calls : job[c].step = "idle" /\ yieldLog[c] = NoRow
  BY DEF Init
<1>3. RequestsCovered /\ LogBacked
  BY DEF Init, RequestsCovered, LogBacked
<1> QED  BY <1>1, <1>2, <1>3 DEF IInv, CallKnows, Committed, CommittedOnce

-----------------------------------------------------------------------------
(***************************************************************************)
(* What a step of a call does to its record.                               *)
(***************************************************************************)
Rewritten(j, step, available, reserved, current, balance) ==
  [step |-> step, intentId |-> j.intentId, available |-> available,
   reserved |-> reserved, current |-> current, balance |-> balance]

\* The call's record becomes r; the others' stay.
Becomes(c, r) ==
  /\ job' \in [Calls -> Jobs \cup {Idle}]
  /\ job'[c] = r
  /\ \A d \in Calls \ {c} : job'[d] = job[d]

LEMMA ReplaceJob ==
  ASSUME TypeOK, NEW c \in Calls, NEW r \in Jobs, job' = [job EXCEPT ![c] = r]
  PROVE  Becomes(c, r)
  BY DEF TypeOK, Becomes, Jobs, Idle

\* A step that only goes on, and the four that also keep what they read.
LEMMA StepFacts ==
  ASSUME TypeOK, NEW c \in Calls, job[c].step \in Open,
         NEW s \in Open \cup Ended, NEW x \in Nat, NEW j \in Jobs, j = job[c]
  PROVE  /\ Goto(c, s) =>
              Becomes(c, Rewritten(j, s, j.available, j.reserved, j.current, j.balance))
         /\ job' = [job EXCEPT ![c].step = s, ![c].available = x] =>
              Becomes(c, Rewritten(j, s, x, j.reserved, j.current, j.balance))
         /\ job' = [job EXCEPT ![c].reserved = x, ![c].step = s] =>
              Becomes(c, Rewritten(j, s, j.available, x, j.current, j.balance))
         /\ job' = [job EXCEPT ![c].current = x, ![c].step = s] =>
              Becomes(c, Rewritten(j, s, j.available, j.reserved, x, j.balance))
         /\ job' = [job EXCEPT ![c].step = s, ![c].balance = x] =>
              Becomes(c, Rewritten(j, s, j.available, j.reserved, j.current, x))
<1> DEFINE stepped == Rewritten(j, s, j.available, j.reserved, j.current, j.balance)
           counted == Rewritten(j, j.step, j.available, x, j.current, j.balance)
           found == Rewritten(j, j.step, j.available, j.reserved, x, j.balance)
<1>a. [j EXCEPT !.step = s] = stepped
  BY DEF Jobs, Rewritten
<1>b. [j EXCEPT !.reserved = x] = counted
  BY DEF Jobs, Rewritten
<1>c. [j EXCEPT !.current = x] = found
  BY DEF Jobs, Rewritten
<1>d. [stepped EXCEPT !.available = x]
        = Rewritten(j, s, x, j.reserved, j.current, j.balance)
  BY DEF Rewritten
<1>e. [counted EXCEPT !.step = s]
        = Rewritten(j, s, j.available, x, j.current, j.balance)
  BY DEF Rewritten
<1>f. [found EXCEPT !.step = s]
        = Rewritten(j, s, j.available, j.reserved, x, j.balance)
  BY DEF Rewritten
<1>g. [stepped EXCEPT !.balance = x]
        = Rewritten(j, s, j.available, j.reserved, j.current, x)
  BY DEF Rewritten
<1>h. stepped = Rewritten(j, s, j.available, j.reserved, j.current, j.balance)
  OBVIOUS
<1> HIDE DEF stepped, counted, found
<1>1. ASSUME NEW a \in Nat, NEW r \in Nat, NEW k \in Nat, NEW b \in Nat,
             job' = [job EXCEPT ![c] = Rewritten(j, s, a, r, k, b)]
      PROVE  Becomes(c, Rewritten(j, s, a, r, k, b))
  <2>1. Rewritten(j, s, a, r, k, b) \in Jobs
    BY DEF Jobs, Rewritten
  <2> QED  BY <1>1, <2>1, ReplaceJob
<1>2. /\ j.available \in Nat /\ j.reserved \in Nat
      /\ j.current \in Nat /\ j.balance \in Nat
  BY DEF Jobs
<1>3. ASSUME Goto(c, s)
      PROVE  job' = [job EXCEPT ![c] =
                       Rewritten(j, s, j.available, j.reserved, j.current, j.balance)]
  <2>1. job' = [job EXCEPT ![c] = [j EXCEPT !.step = s]]
    BY <1>3 DEF Goto
  <2> QED  BY <1>a, <1>h, <2>1, Zenon
<1>4. ASSUME job' = [job EXCEPT ![c].step = s, ![c].available = x]
      PROVE  job' = [job EXCEPT ![c] =
                       Rewritten(j, s, x, j.reserved, j.current, j.balance)]
  <2>1. job' = [job EXCEPT ![c] = [[j EXCEPT !.step = s] EXCEPT !.available = x]]
    BY <1>4 DEF TypeOK
  <2>2. [[j EXCEPT !.step = s] EXCEPT !.available = x]
          = Rewritten(j, s, x, j.reserved, j.current, j.balance)
    BY <1>a, <1>d, Zenon
  <2> QED  BY <2>1, <2>2, Zenon
<1>5. ASSUME job' = [job EXCEPT ![c].reserved = x, ![c].step = s]
      PROVE  job' = [job EXCEPT ![c] =
                       Rewritten(j, s, j.available, x, j.current, j.balance)]
  <2>1. job' = [job EXCEPT ![c] = [[j EXCEPT !.reserved = x] EXCEPT !.step = s]]
    BY <1>5 DEF TypeOK
  <2>2. [[j EXCEPT !.reserved = x] EXCEPT !.step = s]
          = Rewritten(j, s, j.available, x, j.current, j.balance)
    BY <1>b, <1>e, Zenon
  <2> QED  BY <2>1, <2>2, Zenon
<1>6. ASSUME job' = [job EXCEPT ![c].current = x, ![c].step = s]
      PROVE  job' = [job EXCEPT ![c] =
                       Rewritten(j, s, j.available, j.reserved, x, j.balance)]
  <2>1. job' = [job EXCEPT ![c] = [[j EXCEPT !.current = x] EXCEPT !.step = s]]
    BY <1>6 DEF TypeOK
  <2>2. [[j EXCEPT !.current = x] EXCEPT !.step = s]
          = Rewritten(j, s, j.available, j.reserved, x, j.balance)
    BY <1>c, <1>f, Zenon
  <2> QED  BY <2>1, <2>2, Zenon
<1>7. ASSUME job' = [job EXCEPT ![c].step = s, ![c].balance = x]
      PROVE  job' = [job EXCEPT ![c] =
                       Rewritten(j, s, j.available, j.reserved, j.current, x)]
  <2>1. job' = [job EXCEPT ![c] = [[j EXCEPT !.step = s] EXCEPT !.balance = x]]
    BY <1>7 DEF TypeOK
  <2>2. [[j EXCEPT !.step = s] EXCEPT !.balance = x]
          = Rewritten(j, s, j.available, j.reserved, j.current, x)
    BY <1>a, <1>g, Zenon
  <2> QED  BY <2>1, <2>2, Zenon
<1> QED
  BY <1>1, <1>2, <1>3, <1>4, <1>5, <1>6, <1>7

(***************************************************************************)
(* What a call knows outlives the steps of the others.                     *)
(***************************************************************************)
TablesGrow ==
  \A i \in Intents :
    /\ intentLog[i] # NoRow => intentLog'[i] = intentLog[i]
    /\ debits'[i] >= debits[i]
    /\ submitted'[i] >= submitted[i]

LEMMA KnowledgeLasts ==
  ASSUME IInv, TypeOK', TablesGrow, NEW d \in Calls,
         job'[d] = job[d], yieldLog'[d] = yieldLog[d]
  PROVE  CallKnows(d)' /\ (Committed(d)' <=> Committed(d))
<1>1. CallKnows(d)
  BY DEF IInv
<1>2. Committed(d)' <=> Committed(d)
  BY DEF Committed
<1>3. Req(d)' = Req(d) /\ PoolRow(d)' = PoolRow(d) /\ YieldRow(d)' = YieldRow(d)
  BY DEF Req, PoolRow, YieldRow
<1>4. CASE job[d].step = "idle"
  BY <1>1, <1>2, <1>4 DEF CallKnows, Committed
<1>5. CASE job[d].step # "idle"
  <2>1. job[d].intentId \in Intents
    BY <1>5, JobTyped DEF IInv
  <2>2. /\ debits[job[d].intentId] \in Nat /\ debits'[job[d].intentId] \in Nat
        /\ submitted[job[d].intentId] \in Nat /\ submitted'[job[d].intentId] \in Nat
    BY <2>1 DEF IInv, TypeOK
  <2>3. /\ debits[job[d].intentId] > 0 => debits'[job[d].intentId] > 0
        /\ submitted[job[d].intentId] > 0 => submitted'[job[d].intentId] > 0
    BY <2>1, <2>2 DEF TablesGrow
  <2>4. Committed(d) => PoolRow(d) # NoRow
    BY <1>5, RowFacts DEF IInv
  <2> QED
    BY <1>1, <1>2, <1>3, <1>5, <2>1, <2>3, <2>4 DEF CallKnows, TablesGrow
<1> QED  BY <1>4, <1>5

(***************************************************************************)
(* A step of the call c.  It comes to be committed only where its intent   *)
(* has no row yet, so that no other call is.                               *)
(***************************************************************************)
LEMMA StepIInv ==
  ASSUME IInv, TypeOK', TablesGrow, LogBacked',
         NEW c \in Calls, CallKnows(c)',
         \A d \in Calls \ {c} : job'[d] = job[d] /\ yieldLog'[d] = yieldLog[d],
         Committed(c)' => /\ job'[c].intentId = job[c].intentId
                          /\ Committed(c) \/ intentLog[job[c].intentId] = NoRow,
         request' = request
  PROVE  IInv'
<1>1. \A d \in Calls \ {c} : CallKnows(d)' /\ (Committed(d)' <=> Committed(d))
  BY KnowledgeLasts
<1>2. RequestsCovered'
  BY DEF IInv, RequestsCovered
<1>3. ASSUME NEW d \in Calls \ {c}, Committed(d)', Committed(c)',
             job'[d].intentId = job'[c].intentId
      PROVE  FALSE
  <2>1. Committed(d) /\ job[d].intentId = job[c].intentId
    BY <1>1, <1>3
  <2>2. CallKnows(d)
    BY DEF IInv
  <2>3. intentLog[job[c].intentId] = PoolRow(d) /\ job[d].step # "idle"
    BY <2>1, <2>2 DEF CallKnows
  <2>4. PoolRow(d) # NoRow
    BY <2>3, RowFacts DEF IInv
  <2> QED  BY <1>3, <2>1, <2>3, <2>4 DEF IInv, CommittedOnce
<1>4. CommittedOnce'
  <2> SUFFICES ASSUME NEW x \in Calls, NEW y \in Calls, Committed(x)', Committed(y)',
                      job'[x].intentId = job'[y].intentId
               PROVE  x = y
    BY DEF CommittedOnce
  <2>1. CASE x # c /\ y # c
    BY <1>1, <2>1 DEF IInv, CommittedOnce
  <2> QED  BY <1>3, <2>1
<1> QED  BY <1>1, <1>2, <1>4 DEF IInv

(***************************************************************************)
(* What a record must have found in the tables, by its step.               *)
(***************************************************************************)
Learnt(r) ==
  /\ r.step \in {"debitRead", "debitWrite"} =>
       r.available >= r.reserved + Request[r.intentId].amount
  /\ r.step = "debitWrite" => r.current >= Request[r.intentId].amount
  /\ r.step = "commit" => debits[r.intentId] > 0
  /\ r.step = "logFallback" => submitted[r.intentId] > 0
  /\ r.step \in {"yield", "balance", "publish", "fulfilled"} => intentLog[r.intentId] # NoRow

LEMMA KnowsIsLearnt ==
  ASSUME NEW c \in Calls
  PROVE  CallKnows(c) <=>
           /\ Learnt(job[c])
           /\ Committed(c) => job[c].step # "idle" /\ intentLog[job[c].intentId] = PoolRow(c)
           /\ yieldLog[c] # NoRow => yieldLog[c] = YieldRow(c)
  BY DEF CallKnows, Learnt, Req

\* A step other than the commit and the logging of the yield.
LEMMA CallStep ==
  ASSUME IInv, NEW c \in Calls, job[c].step \in Open,
         NEW r \in Jobs, Becomes(c, r), r.intentId = job[c].intentId, r.step # "yield",
         TypeOK', TablesGrow, LogBacked',
         yieldLog' = yieldLog, request' = request, Learnt(r)'
  PROVE  IInv'
<1>1. job'[c] = r /\ \A d \in Calls \ {c} : job'[d] = job[d] /\ yieldLog'[d] = yieldLog[d]
  BY DEF Becomes
<1>2. job[c].intentId \in Intents /\ r.step # "idle"
  BY JobTyped DEF IInv, Open, Jobs, Ended
<1>3. Committed(c)' => Committed(c) /\ yieldLog[c] # NoRow
  BY <1>1 DEF Committed
<1>4. PoolRow(c)' = PoolRow(c) /\ YieldRow(c)' = YieldRow(c)
  BY <1>1 DEF PoolRow, YieldRow, Req
<1>5. Committed(c) => intentLog[job[c].intentId] = PoolRow(c) /\ PoolRow(c) # NoRow
  BY RowFacts, KnowsIsLearnt DEF IInv, Open
<1>6. Committed(c)' => intentLog'[job'[c].intentId] = PoolRow(c)'
  BY <1>1, <1>2, <1>3, <1>4, <1>5 DEF TablesGrow
<1>7. yieldLog'[c] # NoRow => yieldLog'[c] = YieldRow(c)'
  BY <1>4, KnowsIsLearnt DEF IInv
<1>8. Learnt(job[c])'
  BY <1>1 DEF Learnt
<1>9. CallKnows(c)'
  BY <1>1, <1>2, <1>6, <1>7, <1>8 DEF CallKnows, Learnt, Req
<1> QED  BY <1>1, <1>3, <1>9, StepIInv

\* Such a step that writes no table.
LEMMA QuietStep ==
  ASSUME IInv, NEW c \in Calls, job[c].step \in Open,
         NEW r \in Jobs, Becomes(c, r), r.intentId = job[c].intentId, r.step # "yield",
         UNCHANGED <<tables, request, credit, submitted, debits>>,
         shown' \in [Users -> Nat \cup {NoRow}], Learnt(r)
  PROVE  IInv'
<1>1. TypeOK'
  BY DEF IInv, TypeOK, Becomes, tables, Jobs, Idle
<1>2. TablesGrow /\ LogBacked'
  BY DEF IInv, TypeOK, TablesGrow, LogBacked, tables
<1>3. Learnt(r)'
  BY DEF Learnt, tables
<1> QED  BY <1>1, <1>2, <1>3, CallStep DEF tables

LEMMA ReservedIsNat ==
  ASSUME TypeOK, NEW p \in Places
  PROVE  Reserved(p) \in Nat
<1> DEFINE S == PendingAt(p)
           f == [w \in S |-> withdrawalRequest[w].amount]
<1>1. IsFiniteSet(S)
  BY PoolAssumption, FS_Subset DEF PendingAt
<1>2. f \in [S -> Nat]
  BY DEF TypeOK, PendingAt, Withdrawals
<1>3. SumFunctionOnSet(f, S) \in Nat
  <2> HIDE DEF S, f
  <2> QED  BY <1>1, <1>2, SumBoundsTerm
<1> QED  BY <1>3 DEF Reserved

\* hasLiquidity accepts only what leaves the reserve untouched.
LEMMA SufficientFacts ==
  ASSUME NEW available \in Nat, NEW reserved \in Nat, NEW amount \in Nat \ {0},
         Sufficient(available, reserved, amount)
  PROVE  available >= reserved + amount
  BY DEF Sufficient

-----------------------------------------------------------------------------
(***************************************************************************)
(* fulfillIntent, step by step.                                            *)
(***************************************************************************)
LEMMA BeginIInv ==
  ASSUME IInv, NEW c \in Calls, NEW i \in Intents, Begin(c, i)
  PROVE  IInv'
<1> DEFINE r == [step |-> "liquidity", intentId |-> i, available |-> 0,
                 reserved |-> 0, current |-> 0, balance |-> 0]
<1>1. r \in Jobs /\ r.step = "liquidity"
  BY DEF Jobs, Open
<1>2. job' = [job EXCEPT ![c] = r] /\ job[c].step = "idle"
      /\ UNCHANGED <<tables, request, credit, shown, submitted, debits>>
  BY DEF Begin
<1> HIDE DEF r
<1>3. Becomes(c, r)
  BY <1>1, <1>2, ReplaceJob DEF IInv
<1>4. TypeOK'
  BY <1>2, <1>3 DEF IInv, TypeOK, Becomes, tables, Jobs, Idle
<1>5. TablesGrow /\ LogBacked'
  BY <1>2 DEF IInv, TypeOK, TablesGrow, LogBacked, tables
<1>6. ~Committed(c)
  BY <1>2 DEF IInv, CallKnows
<1>7. ~Committed(c)' /\ CallKnows(c)'
  BY <1>1, <1>2, <1>3, <1>6 DEF Committed, CallKnows, Becomes, tables
<1>8. \A d \in Calls \ {c} : job'[d] = job[d] /\ yieldLog'[d] = yieldLog[d]
  BY <1>2, <1>3 DEF Becomes, tables
<1> QED  BY <1>2, <1>4, <1>5, <1>7, <1>8, StepIInv

\* Steps that read, end or fail.
LEMMA ReadingIInv ==
  ASSUME IInv, NEW c \in Calls,
         ReadInventory(c) \/ ReadReserved(c) \/ DebitRead(c) \/ ReadBalance(c)
  PROVE  IInv'
<1>1. job[c].step \in Open /\ UNCHANGED <<tables, request, credit, shown, submitted, debits>>
  BY DEF ReadInventory, ReadReserved, DebitRead, ReadBalance, Open
<1>2. PICK j \in Jobs : j = job[c]
  BY <1>1, JobTyped DEF IInv, Open
<1>3. /\ j.intentId \in Intents /\ Req(c) = Request[j.intentId]
      /\ Req(c).place \in Places /\ Req(c).user \in Users /\ Req(c).amount \in Nat \ {0}
  BY <1>1, <1>2, JobTyped DEF IInv, Open, Req
<1>4. /\ j.available \in Nat /\ j.reserved \in Nat /\ j.current \in Nat /\ j.balance \in Nat
  BY <1>2 DEF Jobs
<1>5. ASSUME NEW s \in (Open \cup Ended) \ {"yield"}, NEW a \in Nat, NEW r \in Nat,
             NEW k \in Nat, NEW b \in Nat,
             Becomes(c, Rewritten(j, s, a, r, k, b)), Learnt(Rewritten(j, s, a, r, k, b))
      PROVE  IInv'
  <2> DEFINE q == Rewritten(j, s, a, r, k, b)
  <2>1. q \in Jobs /\ q.intentId = job[c].intentId /\ q.step # "yield"
    BY <1>2, <1>5 DEF Rewritten, Jobs
  <2>2. Becomes(c, q) /\ Learnt(q)
    BY <1>5
  <2>3. shown' \in [Users -> Nat \cup {NoRow}]
    BY <1>1 DEF IInv, TypeOK
  <2>4. UNCHANGED <<tables, request, credit, submitted, debits>>
    BY <1>1
  <2> HIDE DEF q
  <2> QED  BY <1>1, <2>1, <2>2, <2>3, <2>4, QuietStep
<1>6. CASE ReadInventory(c)
  <2>1. PICK x \in Nat : x = vaultInventory[Req(c).place]
    BY <1>3 DEF IInv, TypeOK
  <2>2. job' = [job EXCEPT ![c].step = "reserve", ![c].available = x]
    BY <1>6, <2>1 DEF ReadInventory
  <2>3. "reserve" \in (Open \cup Ended) \ {"yield"}
    BY DEF Open
  <2>4. Becomes(c, Rewritten(j, "reserve", x, j.reserved, j.current, j.balance))
    BY <1>1, <1>2, <2>2, <2>3, StepFacts DEF IInv
  <2>5. Learnt(Rewritten(j, "reserve", x, j.reserved, j.current, j.balance))
    BY DEF Learnt, Rewritten
  <2> QED  BY <1>4, <1>5, <2>3, <2>4, <2>5
<1>7. CASE ReadReserved(c)
  <2>1. PICK x \in Nat : x = Reserved(Req(c).place)
    BY <1>3, ReservedIsNat DEF IInv
  <2>2. PICK s \in {"fallback", "failed", "debitRead"} :
          /\ job' = [job EXCEPT ![c].reserved = x, ![c].step = s]
          /\ s = "debitRead" => Sufficient(j.available, x, Req(c).amount)
    BY <1>2, <1>7, <2>1 DEF ReadReserved
  <2>3. s \in (Open \cup Ended) \ {"yield"}
    BY DEF Open, Ended
  <2>4. Becomes(c, Rewritten(j, s, j.available, x, j.current, j.balance))
    BY <1>1, <1>2, <2>2, <2>3, StepFacts DEF IInv
  <2>5. s = "debitRead" => j.available >= x + Req(c).amount
    BY <1>3, <1>4, <2>2, SufficientFacts
  <2>6. Learnt(Rewritten(j, s, j.available, x, j.current, j.balance))
    BY <1>3, <2>5 DEF Learnt, Rewritten
  <2> QED  BY <1>4, <1>5, <2>3, <2>4, <2>6
<1>8. CASE DebitRead(c)
  <2>1. PICK x \in Nat : x = vaultInventory[Req(c).place]
    BY <1>3 DEF IInv, TypeOK
  <2>a. PICK n \in Nat : n = Req(c).amount
    BY <1>3
  <2>b. PICK s \in {"threw", "debitWrite"} : s = IF x < n THEN "threw" ELSE "debitWrite"
    OBVIOUS
  <2>2. /\ job' = [job EXCEPT ![c].current = x, ![c].step = s]
        /\ s = "debitWrite" => x >= Req(c).amount
    <3>1. job' = [job EXCEPT ![c].current = x,
                             ![c].step = IF x < n THEN "threw" ELSE "debitWrite"]
      BY <1>8, <2>1, <2>a DEF DebitRead
    <3>2. s = "debitWrite" => x >= n
      BY <2>b
    <3> QED  BY <2>a, <2>b, <3>1, <3>2, Zenon
  <2>3. s \in (Open \cup Ended) \ {"yield"}
    BY DEF Open, Ended
  <2>4. Becomes(c, Rewritten(j, s, j.available, j.reserved, x, j.balance))
    BY <1>1, <1>2, <2>2, <2>3, StepFacts DEF IInv
  <2>5. j.available >= j.reserved + Req(c).amount
    BY <1>2, <1>8 DEF DebitRead, IInv, CallKnows
  <2>6. Learnt(Rewritten(j, s, j.available, j.reserved, x, j.balance))
    BY <1>3, <2>2, <2>5 DEF Learnt, Rewritten
  <2> QED  BY <1>4, <1>5, <2>3, <2>4, <2>6
<1>9. CASE ReadBalance(c)
  <2>1. userBalance[Req(c).user] \in Nat \cup {NoRow}
    BY <1>3 DEF IInv, TypeOK
  <2>2. PICK x \in Nat : x = IF userBalance[Req(c).user] = NoRow
                               THEN 0 ELSE userBalance[Req(c).user]
    BY <2>1
  <2>3. job' = [job EXCEPT ![c].step = "publish", ![c].balance = x]
    BY <1>9, <2>2 DEF ReadBalance
  <2>4. "publish" \in (Open \cup Ended) \ {"yield"}
    BY DEF Open
  <2>5. Becomes(c, Rewritten(j, "publish", j.available, j.reserved, j.current, x))
    BY <1>1, <1>2, <2>3, <2>4, StepFacts DEF IInv
  <2>6. intentLog[j.intentId] # NoRow
    BY <1>2, <1>9 DEF ReadBalance, IInv, CallKnows
  <2>7. Learnt(Rewritten(j, "publish", j.available, j.reserved, j.current, x))
    BY <2>6 DEF Learnt, Rewritten
  <2> QED  BY <1>4, <1>5, <2>4, <2>5, <2>7
<1> QED  BY <1>6, <1>7, <1>8, <1>9

\* The steps that end a call or hand it to LI.FI.
LEMMA LeavingIInv ==
  ASSUME IInv, NEW c \in Calls,
         Fallback(c) \/ LogFallback(c) \/ Publish(c) \/ Fail(c)
  PROVE  IInv'
<1>1. job[c].step \in Open /\ UNCHANGED <<request, credit, debits, yieldLog>>
  BY DEF Fallback, LogFallback, Publish, Fail, Open, tables
<1>2. PICK j \in Jobs : j = job[c]
  BY <1>1, JobTyped DEF IInv, Open
<1>3. /\ j.intentId \in Intents /\ Req(c) = Request[j.intentId]
      /\ Req(c).user \in Users /\ j.balance \in Nat
  BY <1>1, <1>2, JobTyped DEF IInv, Open, Req, Jobs
<1>4. ASSUME NEW s \in (Open \cup Ended) \ {"yield"}, Goto(c, s)
      PROVE  \E q \in Jobs : /\ q.step = s /\ q.intentId = j.intentId /\ Becomes(c, q)
  <2> DEFINE q == Rewritten(j, s, j.available, j.reserved, j.current, j.balance)
  <2>1. q \in Jobs /\ q.step = s /\ q.intentId = j.intentId
    BY DEF Rewritten, Jobs
  <2>2. Becomes(c, q)
    BY <1>1, <1>2, <1>4, StepFacts DEF IInv
  <2> HIDE DEF q
  <2> QED  BY <2>1, <2>2
<1>5. CASE Fallback(c)
  <2>1. /\ submitted' = [submitted EXCEPT ![j.intentId] = @ + 1]
        /\ Goto(c, "logFallback") /\ UNCHANGED <<tables, shown>>
    BY <1>2, <1>5 DEF Fallback
  <2>2. PICK q \in Jobs : /\ q.step = "logFallback" /\ q.intentId = j.intentId
                          /\ Becomes(c, q)
    BY <1>4, <2>1 DEF Open
  <2>3. /\ submitted' \in [Intents -> Nat] /\ submitted'[j.intentId] > 0
        /\ \A i \in Intents : submitted'[i] >= submitted[i]
    BY <1>3, <2>1 DEF IInv, TypeOK
  <2>4. TypeOK'
    BY <1>1, <2>1, <2>2, <2>3 DEF IInv, TypeOK, Becomes, tables, Jobs, Idle
  <2>5. TablesGrow
    BY <1>1, <2>1, <2>3 DEF IInv, TypeOK, TablesGrow, tables
  <2>6. \A i \in Intents : submitted[i] > 0 => submitted'[i] > 0
    BY <2>3 DEF IInv, TypeOK
  <2>7. LogBacked'
    BY <1>1, <2>1, <2>6 DEF IInv, LogBacked, tables
  <2>8. Learnt(q)'
    BY <2>2, <2>3 DEF Learnt
  <2> QED
    BY <1>1, <1>2, <2>2, <2>4, <2>5, <2>7, <2>8, CallStep
<1>6. CASE LogFallback(c)
  <2>1. submitted[j.intentId] > 0 /\ UNCHANGED <<shown, submitted, vaultInventory,
                                                 withdrawalRequest, userBalance>>
    BY <1>2, <1>6 DEF LogFallback, IInv, CallKnows
  <2>2. PICK s \in {"fulfilled", "threw"} : Goto(c, s) /\ (s = "fulfilled" => intentLog[j.intentId] = NoRow)
    BY <1>2, <1>6 DEF LogFallback
  <2>3. s \in (Open \cup Ended) \ {"yield"}
    BY DEF Open, Ended
  <2>4. PICK q \in Jobs : q.step = s /\ q.intentId = j.intentId /\ Becomes(c, q)
    BY <1>4, <2>2, <2>3
  <2>5. PICK row \in LogRows : row = LogRow("LIFI", 0, 0) /\ row.fulfilledFrom = "LIFI"
    <3>1. LogRow("LIFI", 0, 0) \in LogRows /\ LogRow("LIFI", 0, 0).fulfilledFrom = "LIFI"
      BY DEF LogRow, LogRows
    <3> QED  BY <3>1
  <2>6. row # NoRow
    BY PoolAssumption
  <2>7. \/ /\ intentLog[j.intentId] = NoRow
           /\ intentLog' = [intentLog EXCEPT ![j.intentId] = row]
        \/ intentLog[j.intentId] # NoRow /\ intentLog' = intentLog
    BY <1>2, <1>6, <2>5 DEF LogFallback
  <2>8. /\ intentLog' \in [Intents -> LogRows \cup {NoRow}]
        /\ \A i \in Intents : intentLog[i] # NoRow => intentLog'[i] = intentLog[i]
        /\ \A i \in Intents : intentLog'[i] # intentLog[i] => i = j.intentId /\ intentLog'[i] = row
        /\ intentLog'[j.intentId] # NoRow
    BY <1>3, <2>6, <2>7 DEF IInv, TypeOK
  <2>9. TypeOK'
    BY <1>1, <2>1, <2>4, <2>8 DEF IInv, TypeOK, Becomes, Jobs, Idle
  <2>10. TablesGrow
    BY <1>1, <2>1, <2>8 DEF IInv, TypeOK, TablesGrow
  <2>11. LogBacked'
    <3> SUFFICES ASSUME NEW i \in Intents, intentLog'[i] # NoRow
                 PROVE  /\ intentLog'[i].fulfilledFrom = "LIFI" => submitted'[i] > 0
                        /\ intentLog'[i].fulfilledFrom = "POOL" => debits'[i] > 0
      BY DEF LogBacked
    <3>1. CASE intentLog'[i] = intentLog[i]
      BY <1>1, <2>1, <3>1 DEF IInv, LogBacked
    <3>2. CASE intentLog'[i] # intentLog[i]
      BY <2>1, <2>5, <2>8, <3>2
    <3> QED  BY <3>1, <3>2
  <2>12. Learnt(q)'
    BY <2>4, <2>8 DEF Learnt
  <2> QED
    BY <1>1, <1>2, <2>3, <2>4, <2>9, <2>10, <2>11, <2>12, CallStep
<1>7. ASSUME NEW s \in {"fulfilled", "threw"}, Goto(c, s), UNCHANGED <<tables, submitted>>,
             s = "fulfilled" => intentLog[j.intentId] # NoRow,
             shown' \in [Users -> Nat \cup {NoRow}]
      PROVE  IInv'
  <2>1. s \in (Open \cup Ended) \ {"yield"}
    BY DEF Open, Ended
  <2>2. PICK q \in Jobs : q.step = s /\ q.intentId = j.intentId /\ Becomes(c, q)
    BY <1>4, <1>7, <2>1
  <2>3. Learnt(q)
    BY <1>7, <2>2 DEF Learnt
  <2>4. UNCHANGED <<tables, request, credit, submitted, debits>>
    BY <1>1, <1>7
  <2> QED  BY <1>1, <1>2, <1>7, <2>1, <2>2, <2>3, <2>4, QuietStep
<1>8. CASE Publish(c)
  <2>1. intentLog[j.intentId] # NoRow
    BY <1>2, <1>8 DEF Publish, IInv, CallKnows
  <2>2. shown' \in [Users -> Nat \cup {NoRow}]
    BY <1>2, <1>3, <1>8 DEF Publish, IInv, TypeOK
  <2>3. Goto(c, "fulfilled") /\ UNCHANGED <<tables, submitted>>
    BY <1>8 DEF Publish
  <2> QED  BY <1>7, <2>1, <2>2, <2>3
<1>9. CASE Fail(c)
  <2>1. shown' \in [Users -> Nat \cup {NoRow}]
    BY <1>9 DEF Fail, IInv, TypeOK
  <2>2. Goto(c, "threw") /\ UNCHANGED <<tables, submitted>>
    BY <1>9 DEF Fail
  <2> QED  BY <1>7, <2>1, <2>2
<1> QED  BY <1>5, <1>6, <1>8, <1>9

LEMMA DebitWriteIInv ==
  ASSUME IInv, NEW c \in Calls, DebitWrite(c)
  PROVE  IInv'
<1>1. job[c].step = "debitWrite" /\ job[c].step \in Open
      /\ UNCHANGED <<withdrawalRequest, userBalance, intentLog, yieldLog,
                     request, credit, shown, submitted>>
  BY DEF DebitWrite, Open
<1>2. PICK j \in Jobs : j = job[c]
  BY <1>1, JobTyped DEF IInv, Open
<1>3. /\ j.intentId \in Intents /\ j.current \in Nat /\ Req(c).place \in Places
      /\ Req(c).amount \in Nat
  BY <1>1, <1>2, JobTyped DEF IInv, Open, Jobs
<1>4. j.current >= Req(c).amount
  BY <1>1, <1>2 DEF IInv, CallKnows
<1>5. PICK left \in Nat : left = j.current - Req(c).amount
  BY <1>3, <1>4
<1>6. vaultInventory' = [vaultInventory EXCEPT ![Req(c).place] = left]
  BY <1>2, <1>5 DEF DebitWrite
<1>7. vaultInventory' \in [Places -> Nat]
  BY <1>3, <1>6 DEF IInv, TypeOK
<1>8. debits' = [debits EXCEPT ![j.intentId] = @ + 1]
  BY <1>2 DEF DebitWrite
<1>9. /\ debits' \in [Intents -> Nat] /\ debits'[j.intentId] > 0
      /\ \A i \in Intents : debits'[i] >= debits[i]
      /\ \A i \in Intents : debits[i] > 0 => debits'[i] > 0
  BY <1>3, <1>8 DEF IInv, TypeOK
<1> DEFINE q == Rewritten(j, "commit", j.available, j.reserved, j.current, j.balance)
<1>10. q \in Jobs /\ q.step = "commit" /\ q.intentId = j.intentId
  BY DEF Rewritten, Jobs, Open
<1>11. Becomes(c, q)
  <2>1. "commit" \in Open \cup Ended /\ Goto(c, "commit")
    BY DEF Open, DebitWrite
  <2> QED  BY <1>1, <1>2, <2>1, StepFacts DEF IInv
<1> HIDE DEF q
<1>12. TypeOK'
  BY <1>1, <1>7, <1>9, <1>11 DEF IInv, TypeOK, Becomes, Jobs, Idle
<1>13. TablesGrow
  BY <1>1, <1>9 DEF IInv, TypeOK, TablesGrow
<1>14. LogBacked'
  BY <1>1, <1>9 DEF IInv, LogBacked
<1>15. Learnt(q)'
  BY <1>9, <1>10 DEF Learnt
<1> QED
  BY <1>1, <1>2, <1>10, <1>11, <1>12, <1>13, <1>14, <1>15, CallStep

LEMMA CommitIInv ==
  ASSUME IInv, NEW c \in Calls, Commit(c)
  PROVE  IInv'
<1>1. job[c].step = "commit" /\ job[c].step \in Open
      /\ UNCHANGED <<vaultInventory, withdrawalRequest, yieldLog,
                     request, credit, shown, submitted, debits>>
  BY DEF Commit, Open
<1>2. PICK j \in Jobs : j = job[c]
  BY <1>1, JobTyped DEF IInv, Open
<1>3. j.intentId \in Intents /\ Req(c).user \in Users /\ Req(c).amount \in Nat
  BY <1>1, <1>2, JobTyped DEF IInv, Open
<1>4. debits[j.intentId] > 0
  BY <1>1, <1>2 DEF IInv, CallKnows
<1>5. ASSUME NEW s \in Open \cup Ended, Goto(c, s)
      PROVE  \E q \in Jobs : q.step = s /\ q.intentId = j.intentId /\ Becomes(c, q)
  <2> DEFINE q == Rewritten(j, s, j.available, j.reserved, j.current, j.balance)
  <2>1. q \in Jobs /\ q.step = s /\ q.intentId = j.intentId
    BY DEF Rewritten, Jobs
  <2>2. Becomes(c, q)
    BY <1>1, <1>2, <1>5, StepFacts DEF IInv
  <2> HIDE DEF q
  <2> QED  BY <2>1, <2>2
<1>6. CASE intentLog[j.intentId] # NoRow
  <2>1. UNCHANGED <<intentLog, userBalance>> /\ Goto(c, "threw")
    BY <1>2, <1>6 DEF Commit
  <2>2. PICK q \in Jobs : q.step = "threw" /\ q.intentId = j.intentId /\ Becomes(c, q)
    BY <1>5, <2>1 DEF Ended
  <2>3. Learnt(q)
    BY <2>2 DEF Learnt
  <2>4. shown' \in [Users -> Nat \cup {NoRow}]
    BY <1>1 DEF IInv, TypeOK
  <2>5. UNCHANGED <<tables, request, credit, submitted, debits>>
    BY <1>1, <2>1 DEF tables
  <2> QED  BY <1>1, <1>2, <2>2, <2>3, <2>4, <2>5, QuietStep
<1>7. CASE intentLog[j.intentId] = NoRow
  <2>1. Goto(c, "yield")
    BY <1>2, <1>7 DEF Commit
  <2>2. PICK q \in Jobs : q.step = "yield" /\ q.intentId = j.intentId /\ Becomes(c, q)
    BY <1>5, <2>1 DEF Open
  <2>3. PICK row \in LogRows : row = PoolRow(c) /\ row # NoRow /\ row.fulfilledFrom = "POOL"
    BY <1>1, RowFacts DEF IInv, Open
  <2>4. intentLog' = [intentLog EXCEPT ![j.intentId] = row]
    BY <1>2, <1>7, <2>3 DEF Commit, PoolRow
  <2>5. PICK reward \in Nat : UpsertBalance(Req(c).user, reward)
    <3>1. UpsertBalance(Req(c).user, UserReward(GrossReward(Req(c).amount)))
      BY <1>2, <1>7 DEF Commit
    <3> QED  BY <1>3, <3>1, RewardsAreNat
  <2>6. userBalance' \in [Users -> Nat \cup {NoRow}]
    BY <1>3, <2>5 DEF UpsertBalance, IInv, TypeOK
  <2>7. /\ intentLog' \in [Intents -> LogRows \cup {NoRow}]
        /\ \A i \in Intents : intentLog[i] # NoRow => intentLog'[i] = intentLog[i]
        /\ \A i \in Intents \ {j.intentId} : intentLog'[i] = intentLog[i]
        /\ intentLog'[j.intentId] = row
    BY <1>3, <1>7, <2>4 DEF IInv, TypeOK
  <2>8. TypeOK'
    BY <1>1, <2>2, <2>6, <2>7 DEF IInv, TypeOK, Becomes, Jobs, Idle
  <2>9. TablesGrow
    BY <1>1, <2>7 DEF IInv, TypeOK, TablesGrow
  <2>10. LogBacked'
    <3> SUFFICES ASSUME NEW i \in Intents, intentLog'[i] # NoRow
                 PROVE  /\ intentLog'[i].fulfilledFrom = "LIFI" => submitted'[i] > 0
                        /\ intentLog'[i].fulfilledFrom = "POOL" => debits'[i] > 0
      BY DEF LogBacked
    <3>1. CASE i # j.intentId
      BY <1>1, <2>7, <3>1 DEF IInv, LogBacked
    <3>2. CASE i = j.intentId
      BY <1>1, <1>4, <2>3, <2>7, <3>2
    <3> QED  BY <3>1, <3>2
  <2>11. /\ job'[c] = q
         /\ \A d \in Calls \ {c} : job'[d] = job[d] /\ yieldLog'[d] = yieldLog[d]
    BY <1>1, <2>2 DEF Becomes
  <2>12. yieldLog[c] = NoRow
    <3>1. yieldLog[c] # NoRow => intentLog[j.intentId] = row
      BY <1>2, <2>3 DEF IInv, CallKnows, Committed
    <3> QED  BY <1>7, <2>3, <3>1
  <2>13. PoolRow(c)' = PoolRow(c)
    BY <1>2, <2>2, <2>11 DEF PoolRow, Req
  <2>14. CallKnows(c)'
    BY <1>1, <2>2, <2>3, <2>7, <2>11, <2>12, <2>13 DEF CallKnows
  <2> QED
    BY <1>1, <1>2, <1>7, <2>2, <2>8, <2>9, <2>10, <2>11, <2>14, StepIInv
<1> QED  BY <1>6, <1>7

LEMMA LogYieldIInv ==
  ASSUME IInv, NEW c \in Calls, LogYield(c)
  PROVE  IInv'
<1>1. job[c].step = "yield" /\ job[c].step \in Open
      /\ UNCHANGED <<vaultInventory, withdrawalRequest, userBalance, intentLog,
                     request, credit, shown, submitted, debits>>
  BY DEF LogYield, Open
<1>2. PICK j \in Jobs : j = job[c]
  BY <1>1, JobTyped DEF IInv, Open
<1>3. Committed(c) /\ intentLog[j.intentId] = PoolRow(c) /\ PoolRow(c) # NoRow
  BY <1>1, <1>2, RowFacts DEF IInv, CallKnows, Committed, Open
<1> DEFINE q == Rewritten(j, "balance", j.available, j.reserved, j.current, j.balance)
<1>4. q \in Jobs /\ q.step = "balance" /\ q.intentId = j.intentId
  BY DEF Rewritten, Jobs, Open
<1>5. Becomes(c, q)
  <2>1. "balance" \in Open \cup Ended /\ Goto(c, "balance")
    BY DEF Open, LogYield
  <2> QED  BY <1>1, <1>2, <2>1, StepFacts DEF IInv
<1> HIDE DEF q
<1>6. PICK row \in YieldRows : row = YieldRow(c)
  BY <1>1, RowFacts DEF IInv, Open
<1>7. yieldLog' = yieldLog \/ yieldLog' = [yieldLog EXCEPT ![c] = row]
  <2>1. yieldLog' = [yieldLog EXCEPT ![c] = row] \/ yieldLog' = [yieldLog EXCEPT ![c] = @]
    BY <1>6 DEF LogYield, YieldRow
  <2> QED  BY <2>1 DEF IInv, TypeOK
<1>8. /\ yieldLog' \in [Calls -> YieldRows \cup {NoRow}]
      /\ \A d \in Calls \ {c} : yieldLog'[d] = yieldLog[d]
      /\ yieldLog'[c] # NoRow => yieldLog'[c] = row
  <2>1. yieldLog[c] # NoRow => yieldLog[c] = row
    BY <1>6 DEF IInv, CallKnows
  <2> QED  BY <1>7, <2>1 DEF IInv, TypeOK
<1>9. TypeOK'
  BY <1>1, <1>5, <1>8 DEF IInv, TypeOK, Becomes, Jobs, Idle
<1>10. TablesGrow /\ LogBacked'
  BY <1>1 DEF IInv, TypeOK, TablesGrow, LogBacked
<1>11. job'[c] = q /\ \A d \in Calls \ {c} : job'[d] = job[d] /\ yieldLog'[d] = yieldLog[d]
  BY <1>5, <1>8 DEF Becomes
<1>12. PoolRow(c)' = PoolRow(c) /\ YieldRow(c)' = YieldRow(c)
  BY <1>2, <1>4, <1>11 DEF PoolRow, YieldRow, Req
<1>13. CallKnows(c)'
  BY <1>1, <1>3, <1>4, <1>6, <1>8, <1>11, <1>12 DEF CallKnows
<1> QED  BY <1>1, <1>2, <1>3, <1>4, <1>9, <1>10, <1>11, <1>13, StepIInv

-----------------------------------------------------------------------------
(***************************************************************************)
(* Withdrawals and credits leave every call's record, and the tables it    *)
(* relies on, alone.                                                       *)
(***************************************************************************)
LEMMA OthersStep ==
  ASSUME IInv, TypeOK', RequestsCovered',
         UNCHANGED <<userBalance, intentLog, yieldLog, job, submitted, debits>>
  PROVE  IInv'
<1>1. \A c \in Calls : CallKnows(c)'
  BY DEF IInv, CallKnows, Committed, PoolRow, YieldRow, Req
<1>2. LogBacked' /\ CommittedOnce'
  BY DEF IInv, LogBacked, CommittedOnce, Committed
<1> QED  BY <1>1, <1>2 DEF IInv

\* The request w takes is one its balance covers, if it goes on with it.
LEMMA RequestStep ==
  ASSUME IInv, NEW w \in WithdrawalCalls, NEW r \in Requests,
         request' = [request EXCEPT ![w] = r],
         r.step \in {"create", "publish"} => r.balance >= r.row.amount,
         withdrawalRequest' \in [WithdrawalCalls -> Withdrawals \cup {NoRow}],
         shown' \in [Users -> Nat \cup {NoRow}],
         UNCHANGED <<vaultInventory, userBalance, intentLog, yieldLog, job, credit,
                     submitted, debits>>
  PROVE  IInv'
<1>1. /\ request' \in [WithdrawalCalls -> Requests \cup {Idle}]
      /\ request'[w] = r /\ \A v \in WithdrawalCalls \ {w} : request'[v] = request[v]
  BY DEF IInv, TypeOK, Requests, Idle
<1>2. TypeOK'
  BY <1>1 DEF IInv, TypeOK, Requests, Idle
<1>3. RequestsCovered'
  BY <1>1 DEF IInv, RequestsCovered
<1> QED  BY <1>2, <1>3, OthersStep

\* A request that goes on keeps its row and its balance.
LEMMA RequestGoesOn ==
  ASSUME IInv, NEW w \in WithdrawalCalls, request[w].step \in {"create", "publish"},
         NEW s \in {"publish", "created", "threw"},
         request' = [request EXCEPT ![w].step = s],
         withdrawalRequest' \in [WithdrawalCalls -> Withdrawals \cup {NoRow}],
         shown' \in [Users -> Nat \cup {NoRow}],
         UNCHANGED <<vaultInventory, userBalance, intentLog, yieldLog, job, credit,
                     submitted, debits>>
  PROVE  IInv'
<1>1. PICK r \in Requests : r = request[w]
  BY DEF IInv, TypeOK, Requests
<1>2. r.row \in Withdrawals /\ r.row.amount \in Nat /\ r.balance \in Nat
  BY DEF Requests, Withdrawals
<1>3. r.balance >= r.row.amount
  BY <1>1 DEF IInv, RequestsCovered
<1> DEFINE q == [r EXCEPT !.step = s]
<1>4. q \in Requests /\ q.row = r.row /\ q.balance = r.balance
  BY DEF Requests
<1>5. request' = [request EXCEPT ![w] = q]
  BY <1>1
<1> HIDE DEF q
<1> QED  BY <1>3, <1>4, <1>5, RequestStep

LEMMA WithdrawalIInv ==
  ASSUME IInv, NEW w \in WithdrawalCalls, WithdrawalNext(w)
  PROVE  IInv'
<1>1. ASSUME NEW u \in Users, NEW p \in Places, NEW n \in WithdrawalAmounts,
             RequestWithdrawal(w, u, p, n)
      PROVE  IInv'
  <2>1. n \in Nat
    BY PoolAssumption
  <2>2. userBalance[u] \in Nat \cup {NoRow} /\ NoRow \notin Nat
    BY PoolAssumption DEF IInv, TypeOK
  <2>3. PICK balance \in Nat :
          balance = IF userBalance[u] = NoRow THEN 0 ELSE userBalance[u]
    BY <2>2
  <2>4. PICK row \in Withdrawals :
          row = [user |-> u, place |-> p, amount |-> n] /\ row.amount = n
    <3>1. /\ [user |-> u, place |-> p, amount |-> n] \in Withdrawals
          /\ [user |-> u, place |-> p, amount |-> n].amount = n
      BY <2>1 DEF Withdrawals
    <3> QED  BY <3>1
  <2>5. PICK s \in {"refused", "create"} :
          s = IF userBalance[u] = NoRow THEN "refused"
              ELSE IF userBalance[u] < n THEN "refused" ELSE "create"
    OBVIOUS
  <2> DEFINE r == [step |-> s, row |-> row, balance |-> balance]
  <2>6. s = "create" => balance >= n
    BY <2>1, <2>2, <2>3, <2>5
  <2>7. r \in Requests /\ r.step = s /\ r.row = row /\ r.balance = balance
    BY DEF Requests
  <2>8. request' = [request EXCEPT ![w] = r]
    BY <1>1, <2>3, <2>4, <2>5 DEF RequestWithdrawal
  <2>9. r.step \in {"create", "publish"} => r.balance >= r.row.amount
    BY <2>4, <2>6, <2>7
  <2>10. /\ UNCHANGED <<tables, job, credit, shown, submitted, debits>>
         /\ withdrawalRequest' \in [WithdrawalCalls -> Withdrawals \cup {NoRow}]
         /\ shown' \in [Users -> Nat \cup {NoRow}]
    BY <1>1 DEF RequestWithdrawal, tables, IInv, TypeOK
  <2> HIDE DEF r
  <2> QED
    BY <2>7, <2>8, <2>9, <2>10, RequestStep DEF tables
<1>2. ASSUME request[w].step \in {"create", "publish"}
      PROVE  /\ request[w] \in Requests /\ request[w].row \in Withdrawals
             /\ request[w].balance - request[w].row.amount \in Nat
             /\ request[w].row.user \in Users
  <2>1. request[w] \in Requests
    BY <1>2 DEF IInv, TypeOK, Requests
  <2>2. /\ request[w].row \in Withdrawals /\ request[w].row.amount \in Nat
        /\ request[w].balance \in Nat /\ request[w].row.user \in Users
    BY <2>1 DEF Requests, Withdrawals
  <2>3. request[w].balance >= request[w].row.amount
    BY <1>2 DEF IInv, RequestsCovered
  <2> QED  BY <2>1, <2>2, <2>3
<1>3. CASE CreateWithdrawal(w)
  <2>1. withdrawalRequest' \in [WithdrawalCalls -> Withdrawals \cup {NoRow}]
    BY <1>2, <1>3 DEF CreateWithdrawal, IInv, TypeOK
  <2>2. shown' \in [Users -> Nat \cup {NoRow}]
    BY <1>3 DEF CreateWithdrawal, IInv, TypeOK
  <2> QED  BY <1>3, <2>1, <2>2, RequestGoesOn DEF CreateWithdrawal
<1>4. CASE PublishWithdrawal(w)
  <2>1. shown' \in [Users -> Nat \cup {NoRow}]
    BY <1>2, <1>4 DEF PublishWithdrawal, IInv, TypeOK
  <2>2. withdrawalRequest' \in [WithdrawalCalls -> Withdrawals \cup {NoRow}]
    BY <1>4 DEF PublishWithdrawal, IInv, TypeOK, tables
  <2> QED  BY <1>4, <2>1, <2>2, RequestGoesOn DEF PublishWithdrawal, tables
<1>5. CASE FailWithdrawal(w)
  <2>1. /\ shown' \in [Users -> Nat \cup {NoRow}]
        /\ withdrawalRequest' \in [WithdrawalCalls -> Withdrawals \cup {NoRow}]
    BY <1>5 DEF FailWithdrawal, IInv, TypeOK, tables
  <2> QED  BY <1>5, <2>1, RequestGoesOn DEF FailWithdrawal, tables
<1> QED  BY <1>1, <1>3, <1>4, <1>5 DEF WithdrawalNext

LEMMA CreditIInv ==
  ASSUME IInv, NEW k \in CreditCalls, CreditNext(k)
  PROVE  IInv'
<1>1. ASSUME UNCHANGED <<withdrawalRequest, userBalance, intentLog, yieldLog, job, request,
                         shown, submitted, debits>>,
             vaultInventory' \in [Places -> Nat], credit' \in [CreditCalls -> Credits \cup {Idle}]
      PROVE  IInv'
  <2>1. TypeOK'
    BY <1>1 DEF IInv, TypeOK, Credits, Idle
  <2>2. RequestsCovered'
    BY <1>1 DEF IInv, RequestsCovered
  <2> QED  BY <1>1, <2>1, <2>2, OthersStep
<1>2. ASSUME NEW p \in Places, CreditRead(k, p)
      PROVE  IInv'
  <2>1. [step |-> "write", place |-> p, current |-> vaultInventory[p]] \in Credits
    BY DEF IInv, TypeOK, Credits
  <2>2. credit' \in [CreditCalls -> Credits \cup {Idle}]
    BY <1>2, <2>1 DEF CreditRead, IInv, TypeOK, Credits, Idle
  <2>3. vaultInventory' \in [Places -> Nat]
    BY <1>2 DEF CreditRead, IInv, TypeOK, tables
  <2> QED  BY <1>1, <1>2, <2>2, <2>3 DEF CreditRead, tables
<1>3. CASE CreditWrite(k)
  <2>1. PICK r \in Credits : r = credit[k]
    BY <1>3 DEF CreditWrite, IInv, TypeOK, Credits
  <2>2. r.place \in Places /\ r.current + CreditAmount \in Nat
    BY PoolAssumption DEF Credits
  <2>3. vaultInventory' \in [Places -> Nat]
    BY <1>3, <2>1, <2>2 DEF CreditWrite, IInv, TypeOK
  <2>4. [r EXCEPT !.step = "credited"] \in Credits
    BY DEF Credits
  <2>5. credit' \in [CreditCalls -> Credits \cup {Idle}]
    BY <1>3, <2>1, <2>4 DEF CreditWrite, IInv, TypeOK, Credits, Idle
  <2> QED  BY <1>1, <1>3, <2>3, <2>5 DEF CreditWrite
<1> QED  BY <1>2, <1>3 DEF CreditNext

LEMMA NextIInv == IInv /\ [Next]_vars => IInv'
<1> SUFFICES ASSUME IInv, [Next]_vars PROVE IInv'  OBVIOUS
<1>1. ASSUME NEW c \in Calls, CallNext(c) PROVE IInv'
  BY <1>1, BeginIInv, ReadingIInv, LeavingIInv, DebitWriteIInv, CommitIInv, LogYieldIInv
     DEF CallNext
<1>2. CASE UNCHANGED vars
  <2>1. TypeOK' /\ RequestsCovered'
    BY <1>2 DEF vars, IInv, TypeOK, RequestsCovered
  <2> QED  BY <1>2, <2>1, OthersStep DEF vars
<1> QED  BY <1>1, <1>2, WithdrawalIInv, CreditIInv DEF Next

THEOREM AlwaysIInv == Spec => []IInv
  BY InitIInv, NextIInv, PTL DEF Spec

-----------------------------------------------------------------------------
(***************************************************************************)
(* No amount in a table is negative, whichever calls interleave: an        *)
(* inventory row is never written below zero, although the check and the   *)
(* write of a debit are queries apart.                                     *)
(***************************************************************************)
THEOREM PoolTyped == Spec => []TypeOK
<1>1. IInv => TypeOK
  BY DEF IInv
<1> QED  BY <1>1, AlwaysIInv, PTL

(***************************************************************************)
(* An intent yields once, however many concurrent calls fulfil it, and of  *)
(* the share the intent log shows.                                         *)
(***************************************************************************)
THEOREM AlwaysYieldOnce == Spec => []YieldOnce
  BY AlwaysIInv, IInvYieldOnce, PTL

(***************************************************************************)
(* Every row that says POOL has a committed debit of the inventory behind  *)
(* it, although log and debit commit in two transactions.                  *)
(***************************************************************************)
THEOREM AlwaysPoolLogHasDebit == Spec => []PoolLogHasDebit
  BY AlwaysIInv, IInvPoolLogHasDebit, PTL

(***************************************************************************)
(* A caller told "fulfilled" finds its intent in the log, and the debit or *)
(* the submission to LI.FI that the row speaks of has been made.           *)
(***************************************************************************)
THEOREM AlwaysAnswerIsDurable == Spec => []AnswerIsDurable
  BY AlwaysIInv, IInvAnswerIsDurable, PTL

\* A step of one call leaves the others' records alone.
LEMMA OthersKeep ==
  ASSUME TypeOK, NEW c \in Calls, NEW d \in Calls \ {c}, CallNext(d)
  PROVE  job'[c] = job[c]
<1>1. ASSUME NEW i \in Intents, Begin(d, i) PROVE job'[c] = job[c]
  BY <1>1 DEF Begin, TypeOK
<1>2. CASE ReadInventory(d)
  BY <1>2 DEF ReadInventory, TypeOK
<1>3. CASE ReadReserved(d)
  BY <1>3 DEF ReadReserved, TypeOK
<1>4. CASE DebitRead(d)
  BY <1>4 DEF DebitRead, TypeOK
<1>5. CASE ReadBalance(d)
  BY <1>5 DEF ReadBalance, TypeOK
<1>6. ASSUME NEW s, Goto(d, s) PROVE job'[c] = job[c]
  BY <1>6 DEF Goto, TypeOK
<1>7. CASE \/ Fallback(d) \/ LogFallback(d) \/ DebitWrite(d) \/ Commit(d) \/ LogYield(d)
           \/ Publish(d) \/ Fail(d)
  BY <1>6, <1>7 DEF Fallback, LogFallback, DebitWrite, Commit, LogYield, Publish, Fail
<1> QED  BY <1>1, <1>2, <1>3, <1>4, <1>5, <1>7 DEF CallNext

\* Only the write of a debit takes a call from that step to the commit.
LEMMA OnlyDebitWriteCommits ==
  ASSUME TypeOK, Next, NEW c \in Calls,
         job[c].step = "debitWrite", job'[c].step = "commit"
  PROVE  DebitWrite(c)
<1>1. ASSUME NEW d \in Calls \ {c}, CallNext(d) PROVE job'[c] = job[c]
  BY <1>1, OthersKeep
<1>2. ASSUME CallNext(c), ~DebitWrite(c) PROVE FALSE
  <2>1. Fail(c)
    BY <1>2 DEF CallNext, Begin, ReadInventory, ReadReserved, Fallback, LogFallback,
                DebitRead, Commit, LogYield, ReadBalance, Publish
  <2>2. job'[c].step = "threw"
    BY <2>1 DEF Fail, Goto, TypeOK
  <2> QED  BY <2>2
<1>3. ASSUME UNCHANGED job PROVE FALSE
  BY <1>3
<1>4. ASSUME NEW w \in WithdrawalCalls, WithdrawalNext(w) PROVE UNCHANGED job
  BY <1>4 DEF WithdrawalNext, RequestWithdrawal, CreateWithdrawal, PublishWithdrawal,
              FailWithdrawal
<1>5. ASSUME NEW k \in CreditCalls, CreditNext(k) PROVE UNCHANGED job
  BY <1>5 DEF CreditNext, CreditRead, CreditWrite
<1>6. ASSUME NEW d \in Calls \ {c}, CallNext(d) PROVE FALSE
  BY <1>1, <1>6
<1> QED  BY <1>2, <1>3, <1>4, <1>5, <1>6 DEF Next

(***************************************************************************)
(* The Fast Exit Guarantee, undisturbed: a debit leaves enough inventory   *)
(* for every pending withdrawal at its place, if its read found no less    *)
(* than the liquidity check did and no more is pending than that counted.  *)
(***************************************************************************)
THEOREM AlwaysUndisturbedFastExit == Spec => UndisturbedFastExit
<1>1. ASSUME IInv, Next, NEW c \in Calls,
             job[c].step = "debitWrite", job'[c].step = "commit", Undisturbed(c)
      PROVE  vaultInventory'[Req(c).place] >= Reserved(Req(c).place)
  <2>1. DebitWrite(c)
    BY <1>1, OnlyDebitWriteCommits DEF IInv
  <2>2. /\ job[c] \in Jobs /\ Req(c).place \in Places /\ Req(c).amount \in Nat
    BY <1>1, JobTyped DEF IInv
  <2>3. PICK j \in Jobs : j = job[c]
    BY <2>2
  <2>4. PICK n \in Nat, kept \in Nat : n = Req(c).amount /\ kept = Reserved(Req(c).place)
    BY <2>2, ReservedIsNat, <1>1 DEF IInv
  <2>5. /\ j.available \in Nat /\ j.reserved \in Nat /\ j.current \in Nat
    BY DEF Jobs
  <2>6. j.available >= j.reserved + n
    BY <1>1, <2>3, <2>4 DEF IInv, CallKnows
  <2>7. j.current >= j.available /\ kept <= j.reserved
    BY <1>1, <2>3, <2>4 DEF Undisturbed
  <2>8. vaultInventory'[Req(c).place] = j.current - n
    BY <1>1, <2>1, <2>2, <2>3, <2>4 DEF DebitWrite, IInv, TypeOK
  <2>9. j.current - n >= kept
    BY <2>5, <2>6, <2>7
  <2> QED  BY <2>4, <2>8, <2>9
<1>2. IInv /\ [Next]_vars =>
        [\A c \in Calls :
           job[c].step = "debitWrite" /\ job'[c].step = "commit" /\ Undisturbed(c) =>
             vaultInventory'[Req(c).place] >= Reserved(Req(c).place)]_vars
  BY <1>1
<1> QED
  BY <1>2, AlwaysIInv, PTL DEF Spec, UndisturbedFastExit
-----------------------------------------------------------------------------
(***************************************************************************)
(* The inventory, when updates are lost.  What a debit or a credit has     *)
(* read is explained when it is read, stays explained while others commit, *)
(* because the committed movements only grow, and so what it writes is     *)
(* explained too, however old the read is.                                 *)
(***************************************************************************)
BooksInv ==
  /\ \A p \in Places : Explained(p, vaultInventory[p])
  /\ \A c \in Calls :
       job[c].step = "debitWrite" => Explained(Req(c).place, job[c].current)
  /\ \A k \in CreditCalls :
       credit[k].step = "write" => Explained(credit[k].place, credit[k].current)

\* The terms of the two sums.
DebitOf(p) ==
  [i \in Intents |-> IF Request[i].place = p THEN debits[i] * Request[i].amount ELSE 0]
CreditOf(p) ==
  [k \in CreditCalls |->
     IF credit[k].step = "credited" /\ credit[k].place = p THEN CreditAmount ELSE 0]

MovesNat(p) ==
  /\ \A i \in Intents : DebitOf(p)[i] \in Nat
  /\ \A k \in CreditCalls : CreditOf(p)[k] \in Nat
  /\ Debited(p) \in Nat /\ Credited(p) \in Nat

\* The committed movements at p are natural.
LEMMA MovesAreNat ==
  ASSUME NEW p \in Places
  PROVE  TypeOK => MovesNat(p)
<1> SUFFICES ASSUME TypeOK PROVE MovesNat(p)
  OBVIOUS
<1>1. \A i \in Intents : DebitOf(p)[i] \in Nat
  <2> TAKE i \in Intents
  <2>1. debits[i] \in Nat /\ Request[i].amount \in Nat
    BY PoolAssumption DEF TypeOK
  <2> QED  BY <2>1 DEF DebitOf
<1>2. \A k \in CreditCalls : CreditOf(p)[k] \in Nat
  BY PoolAssumption DEF CreditOf
<1>3. Debited(p) = SumFunctionOnSet(DebitOf(p), Intents)
      /\ Credited(p) = SumFunctionOnSet(CreditOf(p), CreditCalls)
  BY DEF Debited, Credited, DebitOf, CreditOf
<1>4. /\ SumFunctionOnSet(DebitOf(p), Intents) \in Nat
      /\ SumFunctionOnSet(CreditOf(p), CreditCalls) \in Nat
  BY <1>1, <1>2, PoolAssumption, SumBoundsTerm
<1> QED  BY <1>1, <1>2, <1>3, <1>4 DEF MovesNat

LEMMA MovesAreNatNext ==
  ASSUME NEW p \in Places
  PROVE  TypeOK' => MovesNat(p)'
  BY MovesAreNat, PTL

\* A committed debit of intent i adds its amount at its place.
LEMMA DebitAdds ==
  ASSUME TypeOK, TypeOK', NEW i \in Intents, debits' = [debits EXCEPT ![i] = @ + 1],
         NEW p \in Places
  PROVE  Debited(p)' = Debited(p) + (IF Request[i].place = p THEN Request[i].amount ELSE 0)
<1>1. \A x \in Intents : DebitOf(p)[x] \in Int /\ DebitOf(p)'[x] \in Int
  BY MovesAreNat, MovesAreNatNext DEF MovesNat
<1>2. \A x \in Intents : x # i => DebitOf(p)'[x] = DebitOf(p)[x]
  BY DEF DebitOf, TypeOK
<1>3. PICK d \in Nat, n \in Nat : d = debits[i] /\ n = Request[i].amount
  BY PoolAssumption DEF TypeOK
<1>4. debits'[i] = d + 1
  BY <1>3 DEF TypeOK
<1>5. (d + 1) * n = d * n + n
  OBVIOUS
<1>6. DebitOf(p)'[i] - DebitOf(p)[i]
        = IF Request[i].place = p THEN Request[i].amount ELSE 0
  <2>1. CASE Request[i].place = p
    <3>1. DebitOf(p)'[i] = (d + 1) * n /\ DebitOf(p)[i] = d * n
      BY <1>3, <1>4, <2>1 DEF DebitOf
    <3> QED  BY <1>3, <1>5, <2>1, <3>1
  <2>2. CASE Request[i].place # p
    BY <2>2 DEF DebitOf
  <2> QED  BY <2>1, <2>2
<1>7. PICK f, g : f = DebitOf(p) /\ g = DebitOf(p)'
  OBVIOUS
<1>8. SumFunctionOnSet(g, Intents) = SumFunctionOnSet(f, Intents) + (g[i] - f[i])
  <2>1. /\ \A x \in Intents : f[x] \in Int /\ g[x] \in Int
        /\ \A x \in Intents : x # i => g[x] = f[x]
    BY <1>1, <1>2, <1>7
  <2>2. IsFiniteSet(Intents)
    BY PoolAssumption
  <2> QED  BY <2>1, <2>2, SumUpdate
<1>9. Debited(p) = SumFunctionOnSet(f, Intents) /\ Debited(p)' = SumFunctionOnSet(g, Intents)
  BY <1>7 DEF Debited, DebitOf
<1> QED  BY <1>6, <1>7, <1>8, <1>9

\* A credit that commits adds what it credits, at its place.
LEMMA CreditAdds ==
  ASSUME TypeOK, TypeOK', NEW k \in CreditCalls, credit[k].step = "write",
         credit'[k].step = "credited", credit'[k].place = credit[k].place,
         \A x \in CreditCalls \ {k} : credit'[x] = credit[x],
         NEW p \in Places
  PROVE  Credited(p)' = Credited(p) + (IF credit[k].place = p THEN CreditAmount ELSE 0)
<1>1. \A x \in CreditCalls : CreditOf(p)[x] \in Int /\ CreditOf(p)'[x] \in Int
  BY MovesAreNat, MovesAreNatNext DEF MovesNat
<1>2. \A x \in CreditCalls : x # k => CreditOf(p)'[x] = CreditOf(p)[x]
  BY DEF CreditOf
<1>3. CreditOf(p)'[k] - CreditOf(p)[k] = IF credit[k].place = p THEN CreditAmount ELSE 0
  BY PoolAssumption DEF CreditOf
<1>4. PICK f, g : f = CreditOf(p) /\ g = CreditOf(p)'
  OBVIOUS
<1>5. SumFunctionOnSet(g, CreditCalls) = SumFunctionOnSet(f, CreditCalls) + (g[k] - f[k])
  <2>1. /\ \A x \in CreditCalls : f[x] \in Int /\ g[x] \in Int
        /\ \A x \in CreditCalls : x # k => g[x] = f[x]
    BY <1>1, <1>2, <1>4
  <2>2. IsFiniteSet(CreditCalls)
    BY PoolAssumption
  <2> QED  BY <2>1, <2>2, SumUpdate
<1>6. Credited(p) = SumFunctionOnSet(f, CreditCalls) /\ Credited(p)' = SumFunctionOnSet(g, CreditCalls)
  BY <1>4 DEF Credited, CreditOf
<1> QED  BY <1>3, <1>4, <1>5, <1>6

\* What is explained stays explained while the committed movements grow.
LEMMA StaysExplained ==
  ASSUME TypeOK, TypeOK', NEW p \in Places, NEW x \in Nat, Explained(p, x),
         Debited(p)' >= Debited(p), Credited(p)' >= Credited(p)
  PROVE  Explained(p, x)'
<1>1. /\ Debited(p) \in Nat /\ Credited(p) \in Nat /\ Inventory0[p] \in Nat
      /\ Debited(p)' \in Nat /\ Credited(p)' \in Nat
  BY MovesAreNat, MovesAreNatNext, PoolAssumption DEF MovesNat
<1> QED  BY <1>1 DEF Explained

LEMMA InitBooks == Init => BooksInv
<1> SUFFICES ASSUME Init PROVE BooksInv
  OBVIOUS
<1>1. ASSUME NEW p \in Places PROVE Explained(p, vaultInventory[p])
  <2>1. /\ Debited(p) \in Nat /\ Credited(p) \in Nat
    BY <1>1, InitIInv, MovesAreNat DEF IInv, MovesNat
  <2>2. vaultInventory[p] = Inventory0[p] /\ Inventory0[p] \in Nat
    BY PoolAssumption DEF Init
  <2> QED  BY <2>1, <2>2 DEF Explained
<1> QED  BY <1>1 DEF BooksInv, Init

\* Only the read of a debit takes a call to its write.
LEMMA OnlyDebitReadIsToWrite ==
  ASSUME TypeOK, NEW c \in Calls, CallNext(c), job'[c].step = "debitWrite"
  PROVE  DebitRead(c)
<1>1. ASSUME NEW s, Goto(c, s) PROVE job'[c].step = s \/ job[c].step = "idle"
  BY <1>1 DEF Goto, TypeOK
<1>2. ASSUME NEW i \in Intents, Begin(c, i) PROVE FALSE
  BY <1>2 DEF Begin, TypeOK
<1>3. ~ReadInventory(c) /\ ~ReadBalance(c)
  BY DEF ReadInventory, ReadBalance, TypeOK
<1>4. ~ReadReserved(c)
  BY DEF ReadReserved, TypeOK
<1>5. ~(Fallback(c) \/ LogFallback(c) \/ DebitWrite(c) \/ Commit(c) \/ LogYield(c)
        \/ Publish(c) \/ Fail(c))
  BY <1>1 DEF Fallback, LogFallback, DebitWrite, Commit, LogYield, Publish, Fail, Open
<1> QED  BY <1>2, <1>3, <1>4, <1>5 DEF CallNext

(***************************************************************************)
(* The four obligations of a step: the movements grow, what it writes is   *)
(* explained, and so is what it has read.                                  *)
(***************************************************************************)
Grow == \A p \in Places : Debited(p)' >= Debited(p) /\ Credited(p)' >= Credited(p)

LEMMA BooksStep ==
  ASSUME IInv, TypeOK', BooksInv, Grow,
         \A p \in Places : vaultInventory'[p] = vaultInventory[p]
                             \/ Explained(p, vaultInventory[p])',
         \A c \in Calls : job'[c].step = "debitWrite" =>
           job'[c] = job[c] \/ Explained(Req(c).place, job[c].current)',
         \A k \in CreditCalls : credit'[k].step = "write" =>
           credit'[k] = credit[k] \/ Explained(credit[k].place, credit[k].current)'
  PROVE  BooksInv'
<1>1. ASSUME NEW p \in Places, NEW x \in Nat, Explained(p, x) PROVE Explained(p, x)'
  BY <1>1, StaysExplained DEF IInv, Grow
<1>2. \A p \in Places : Explained(p, vaultInventory[p])'
  <2> TAKE p \in Places
  <2>1. PICK x \in Nat : x = vaultInventory[p]
    BY DEF IInv, TypeOK
  <2>2. Explained(p, x)'
    BY <1>1, <2>1 DEF BooksInv
  <2>3. CASE vaultInventory'[p] = vaultInventory[p]
    BY <2>1, <2>2, <2>3 DEF Explained
  <2> QED  BY <2>3
<1>3. ASSUME NEW c \in Calls, job'[c].step = "debitWrite"
      PROVE  Explained(Req(c).place, job[c].current)'
  <2>1. CASE job'[c] = job[c]
    <3>1. PICK j \in Jobs : j = job[c] /\ j.step = "debitWrite"
      BY <1>3, <2>1, JobTyped DEF IInv
    <3>2. PICK p \in Places, x \in Nat : p = Req(c).place /\ x = j.current
      BY <1>3, <2>1, JobTyped DEF IInv, Jobs
    <3>3. Explained(p, x)'
      BY <1>1, <3>1, <3>2 DEF BooksInv
    <3>4. Req(c)' = Req(c)
      BY <2>1 DEF Req
    <3> QED  BY <2>1, <3>1, <3>2, <3>3, <3>4 DEF Explained
  <2> QED  BY <1>3, <2>1
<1>4. ASSUME NEW k \in CreditCalls, credit'[k].step = "write"
      PROVE  Explained(credit[k].place, credit[k].current)'
  <2>1. CASE credit'[k] = credit[k]
    <3>1. PICK r \in Credits : r = credit[k] /\ r.step = "write"
      BY <1>4, <2>1 DEF IInv, TypeOK, Credits
    <3>2. r.place \in Places /\ r.current \in Nat
      BY DEF Credits
    <3>3. Explained(r.place, r.current)'
      BY <1>1, <3>1, <3>2 DEF BooksInv
    <3> QED  BY <2>1, <3>1, <3>3 DEF Explained
  <2> QED  BY <1>4, <2>1
<1> QED  BY <1>2, <1>3, <1>4 DEF BooksInv

\* A step of a call that moves nothing may have read for a debit.
LEMMA CallReadsBooks ==
  ASSUME IInv, TypeOK', BooksInv, NEW c \in Calls, CallNext(c), ~DebitWrite(c)
  PROVE  BooksInv'
<1>1. UNCHANGED <<vaultInventory, credit, debits>>
  BY DEF CallNext, Begin, ReadInventory, ReadReserved, Fallback, LogFallback,
         DebitRead, Commit, LogYield, ReadBalance, Publish, Fail, tables
<1>2. \A p \in Places : Debited(p)' = Debited(p) /\ Credited(p)' = Credited(p)
  BY <1>1 DEF Debited, Credited
<1>3. Grow
  BY <1>2, MovesAreNat DEF Grow, IInv, MovesNat
<1>4. ASSUME job'[c].step = "debitWrite" PROVE Explained(Req(c).place, job[c].current)'
  <2>1. DebitRead(c)
    BY <1>4, OnlyDebitReadIsToWrite DEF IInv
  <2>2. PICK j \in Jobs : j = job[c]
    BY <2>1, JobTyped DEF DebitRead, IInv
  <2>3. PICK p \in Places : p = Req(c).place
    BY <2>1, JobTyped DEF DebitRead, IInv
  <2>4. job'[c].current = vaultInventory[p] /\ job'[c].intentId = job[c].intentId
    BY <2>1, <2>2, <2>3 DEF DebitRead, IInv, TypeOK, Jobs
  <2>5. Explained(p, vaultInventory[p])
    BY DEF BooksInv
  <2>6. Req(c)' = Req(c)
    BY <2>4 DEF Req
  <2> QED  BY <1>2, <2>3, <2>4, <2>5, <2>6 DEF Explained
<1>5. \A d \in Calls \ {c} : job'[d] = job[d]
  BY OthersKeep DEF IInv
<1> QED  BY <1>1, <1>3, <1>4, <1>5, BooksStep

\* The write of a debit: what it read is explained, and the debit explains the rest.
LEMMA DebitWriteBooks ==
  ASSUME IInv, TypeOK', BooksInv, NEW c \in Calls, DebitWrite(c)
  PROVE  BooksInv'
<1>1. PICK j \in Jobs : j = job[c]
  BY JobTyped DEF DebitWrite, IInv
<1>2. PICK i \in Intents, p \in Places, n \in Nat :
        i = j.intentId /\ p = Req(c).place /\ n = Req(c).amount
  BY <1>1, JobTyped DEF DebitWrite, IInv
<1>3. Request[i].place = p /\ Request[i].amount = n
  BY <1>1, <1>2 DEF Req
<1>4. j.current \in Nat /\ j.step = "debitWrite"
  BY <1>1 DEF Jobs, DebitWrite
<1>5. /\ debits' = [debits EXCEPT ![i] = @ + 1] /\ UNCHANGED credit
      /\ vaultInventory' = [vaultInventory EXCEPT ![p] = j.current - n]
      /\ job'[c].step = "commit"
  BY <1>1, <1>2 DEF DebitWrite, Goto, IInv, TypeOK
<1>6. \A q \in Places : /\ Debited(q)' = Debited(q) + (IF q = p THEN n ELSE 0)
                        /\ Credited(q)' = Credited(q)
  BY <1>3, <1>5, DebitAdds DEF IInv, Credited
<1>7. \A q \in Places : Debited(q) \in Nat /\ Credited(q) \in Nat /\ Inventory0[q] \in Nat
  BY MovesAreNat, PoolAssumption DEF IInv, MovesNat
<1>8. Grow
  BY <1>6, <1>7 DEF Grow
<1>9. Explained(p, j.current)
  BY <1>1, <1>2, <1>4 DEF BooksInv
<1>10. Explained(p, j.current - n)'
  BY <1>4, <1>6, <1>7, <1>9 DEF Explained
<1>11. vaultInventory'[p] = j.current - n
       /\ \A q \in Places \ {p} : vaultInventory'[q] = vaultInventory[q]
  BY <1>5 DEF IInv, TypeOK
<1>12. Explained(p, vaultInventory[p])'
  BY <1>10, <1>11 DEF Explained
<1>13. \A d \in Calls \ {c} : job'[d] = job[d]
  BY OthersKeep DEF IInv, CallNext
<1> QED  BY <1>5, <1>8, <1>11, <1>12, <1>13, BooksStep

\* A credit: likewise.
LEMMA CreditBooks ==
  ASSUME IInv, TypeOK', BooksInv, NEW k \in CreditCalls, CreditNext(k)
  PROVE  BooksInv'
<1>1. UNCHANGED <<job, debits>>
  BY DEF CreditNext, CreditRead, CreditWrite
<1>2. \A p \in Places : Debited(p)' = Debited(p)
  BY <1>1 DEF Debited
<1>3. \A p \in Places : Debited(p) \in Nat /\ Credited(p) \in Nat /\ Inventory0[p] \in Nat
  BY MovesAreNat, PoolAssumption DEF IInv, MovesNat
<1>4. ASSUME NEW p \in Places, CreditRead(k, p) PROVE BooksInv'
  <2>1. UNCHANGED vaultInventory /\ credit[k].step = "idle"
        /\ credit'[k] = [step |-> "write", place |-> p, current |-> vaultInventory[p]]
        /\ \A x \in CreditCalls \ {k} : credit'[x] = credit[x]
    BY <1>4 DEF CreditRead, tables, IInv, TypeOK
  <2>2. ASSUME NEW q \in Places PROVE Credited(q)' = Credited(q)
    <3>1. CreditOf(q)' = CreditOf(q)
      BY <2>1 DEF CreditOf
    <3> QED  BY <3>1 DEF Credited, CreditOf
  <2>3. Grow
    BY <1>2, <1>3, <2>2 DEF Grow
  <2>4. Explained(credit[k].place, credit[k].current)'
    <3>1. Explained(p, vaultInventory[p])
      BY DEF BooksInv
    <3>2. credit'[k].place = p /\ credit'[k].current = vaultInventory[p]
      BY <2>1
    <3> QED  BY <1>2, <2>2, <3>1, <3>2 DEF Explained
  <2> QED  BY <1>1, <2>1, <2>3, <2>4, BooksStep
<1>5. CASE CreditWrite(k)
  <2>1. PICK r \in Credits : r = credit[k] /\ r.step = "write"
    BY <1>5 DEF CreditWrite, IInv, TypeOK, Credits
  <2>2. PICK p \in Places, x \in Nat, n \in Nat :
          p = r.place /\ x = r.current /\ n = CreditAmount
    BY PoolAssumption DEF Credits
  <2>3. /\ vaultInventory' = [vaultInventory EXCEPT ![p] = x + n]
        /\ credit'[k].step = "credited" /\ credit'[k].place = credit[k].place
        /\ \A y \in CreditCalls \ {k} : credit'[y] = credit[y]
    BY <1>5, <2>1, <2>2 DEF CreditWrite, IInv, TypeOK, Credits
  <2>4. \A q \in Places : Credited(q)' = Credited(q) + (IF p = q THEN n ELSE 0)
    BY <2>1, <2>2, <2>3, CreditAdds DEF IInv
  <2>5. Grow
    BY <1>2, <1>3, <2>4 DEF Grow
  <2>6. Explained(p, x)
    BY <2>1, <2>2 DEF BooksInv
  <2>7. Explained(p, x + n)'
    BY <1>2, <1>3, <2>4, <2>6 DEF Explained
  <2>8. vaultInventory'[p] = x + n
        /\ \A q \in Places \ {p} : vaultInventory'[q] = vaultInventory[q]
    BY <2>3 DEF IInv, TypeOK
  <2>9. Explained(p, vaultInventory[p])'
    BY <2>7, <2>8 DEF Explained
  <2> QED  BY <1>1, <2>3, <2>5, <2>8, <2>9, BooksStep
<1> QED  BY <1>4, <1>5 DEF CreditNext

LEMMA NextBooks == IInv /\ BooksInv /\ [Next]_vars => BooksInv'
<1> SUFFICES ASSUME IInv, BooksInv, [Next]_vars PROVE BooksInv'
  OBVIOUS
<1>1. TypeOK'
  BY NextIInv DEF IInv
<1>2. ASSUME NEW c \in Calls, CallNext(c) PROVE BooksInv'
  BY <1>1, <1>2, CallReadsBooks, DebitWriteBooks
<1>3. ASSUME UNCHANGED <<vaultInventory, job, credit, debits>> PROVE BooksInv'
  BY <1>3 DEF BooksInv, Explained, Debited, Credited, Req
<1>4. ASSUME NEW w \in WithdrawalCalls, WithdrawalNext(w) PROVE BooksInv'
  BY <1>3, <1>4 DEF WithdrawalNext, RequestWithdrawal, CreateWithdrawal,
                    PublishWithdrawal, FailWithdrawal, tables
<1>5. CASE UNCHANGED vars
  BY <1>3, <1>5 DEF vars
<1> QED  BY <1>1, <1>2, <1>4, <1>5, CreditBooks DEF Next

(***************************************************************************)
(* However many debits and credits interleave, and whichever of them       *)
(* overwrite each other, the inventory of every place stays between what   *)
(* the committed debits and what the committed credits explain: a lost     *)
(* update never counts money twice that came in once, nor takes off more   *)
(* than was debited.                                                       *)
(***************************************************************************)
THEOREM AlwaysInventoryExplained == Spec => []InventoryExplained
<1>1. BooksInv => InventoryExplained
  BY DEF BooksInv, InventoryExplained
<1> QED
  BY <1>1, AlwaysIInv, InitBooks, NextBooks, PTL DEF Spec

-----------------------------------------------------------------------------
(***************************************************************************)
(* The promise of IntentBook.  A call has won its intent once its row is   *)
(* in the log, and stays the winner, alone, up to its answer.              *)
(***************************************************************************)
Won(c) ==
  job[c].step \in {"yield", "balance", "publish", "fulfilled"} \/ yieldLog[c] # NoRow

ShareOf(c) == UserReward(GrossReward(Req(c).amount))

WinnerKnows(c) ==
  /\ job[c].step \in {"yield", "balance", "publish"} => intentLog[job[c].intentId] = PoolRow(c)
  /\ job[c].step = "yield" => yieldLog[c] = NoRow
  /\ job[c].step \in {"balance", "publish"} => (yieldLog[c] # NoRow <=> ShareOf(c) > 0)

WonOnce ==
  \A c, d \in Calls : Won(c) /\ Won(d) /\ job[c].intentId = job[d].intentId => c = d

WinInv == WonOnce /\ \A c \in Calls : WinnerKnows(c)

\* The intent of a winner has a row, and a yield that is logged is its call's.
LEMMA WinnersRow ==
  ASSUME IInv, NEW c \in Calls, Won(c)
  PROVE  /\ job[c].step # "idle" /\ intentLog[job[c].intentId] # NoRow
         /\ yieldLog[c] # NoRow => yieldLog[c].intentId = job[c].intentId
<1>1. CallKnows(c)
  BY DEF IInv
<1>2. CASE yieldLog[c] # NoRow
  <2>1. job[c].step # "idle" /\ intentLog[job[c].intentId] = PoolRow(c) /\ yieldLog[c] = YieldRow(c)
    BY <1>1, <1>2 DEF CallKnows, Committed
  <2> QED  BY <2>1, RowFacts DEF IInv
<1>3. CASE yieldLog[c] = NoRow
  BY <1>1, <1>3 DEF Won, CallKnows
<1> QED  BY <1>2, <1>3

\* Rows of the log are never rewritten.
LEMMA LogLasts ==
  ASSUME TypeOK, Next \/ UNCHANGED vars
  PROVE  \A i \in Intents : intentLog[i] # NoRow => intentLog'[i] = intentLog[i]
<1>1. ASSUME NEW c \in Calls, LogFallback(c) \/ Commit(c)
      PROVE  \A i \in Intents : intentLog[i] # NoRow => intentLog'[i] = intentLog[i]
  BY <1>1 DEF LogFallback, Commit, TypeOK
<1>2. ASSUME NEW c \in Calls, CallNext(c), ~(LogFallback(c) \/ Commit(c)) PROVE UNCHANGED intentLog
  BY <1>2 DEF CallNext, Begin, ReadInventory, ReadReserved, Fallback,
              DebitRead, DebitWrite, LogYield, ReadBalance, Publish, Fail, tables
<1>3. ASSUME NEW w \in WithdrawalCalls, WithdrawalNext(w) PROVE UNCHANGED intentLog
  BY <1>3 DEF WithdrawalNext, RequestWithdrawal, CreateWithdrawal, PublishWithdrawal,
              FailWithdrawal, tables
<1>4. ASSUME NEW k \in CreditCalls, CreditNext(k) PROVE UNCHANGED intentLog
  BY <1>4 DEF CreditNext, CreditRead, CreditWrite, tables
<1> QED  BY <1>1, <1>2, <1>3, <1>4 DEF Next, vars

\* A step that leaves the call c alone leaves it as it was.
LEMMA WinnerStays ==
  ASSUME IInv, WinInv, Next \/ UNCHANGED vars, NEW c \in Calls,
         job'[c] = job[c], yieldLog'[c] = yieldLog[c]
  PROVE  WinnerKnows(c)' /\ (Won(c)' <=> Won(c))
<1>1. Won(c)' <=> Won(c)
  BY DEF Won
<1>2. PoolRow(c)' = PoolRow(c) /\ ShareOf(c)' = ShareOf(c)
  BY DEF PoolRow, ShareOf, Req
<1>3. CASE Won(c)
  <2>1. job[c].intentId \in Intents /\ intentLog[job[c].intentId] # NoRow
    BY <1>3, WinnersRow, JobTyped DEF IInv
  <2>2. intentLog'[job[c].intentId] = intentLog[job[c].intentId]
    BY <2>1, LogLasts DEF IInv
  <2> QED  BY <1>1, <1>2, <2>2 DEF WinInv, WinnerKnows
<1>4. CASE ~Won(c)
  BY <1>1, <1>4 DEF Won, WinnerKnows
<1> QED  BY <1>1, <1>3, <1>4

\* A step of the call c: it comes to win only an intent without a row.
LEMMA WinStep ==
  ASSUME IInv, WinInv, Next, NEW c \in Calls,
         \A d \in Calls \ {c} : job'[d] = job[d] /\ yieldLog'[d] = yieldLog[d],
         Won(c)' => /\ job'[c].intentId = job[c].intentId
                    /\ Won(c) \/ intentLog[job[c].intentId] = NoRow,
         WinnerKnows(c)'
  PROVE  WinInv'
<1>1. \A d \in Calls \ {c} : WinnerKnows(d)' /\ (Won(d)' <=> Won(d))
  BY WinnerStays
<1>2. ASSUME NEW d \in Calls \ {c}, Won(c)', Won(d)', job'[c].intentId = job'[d].intentId
      PROVE  FALSE
  <2>1. Won(d) /\ job[c].intentId = job[d].intentId
    BY <1>1, <1>2
  <2>2. intentLog[job[d].intentId] # NoRow
    BY <2>1, WinnersRow
  <2> QED  BY <1>2, <2>1, <2>2 DEF WinInv, WonOnce
<1>3. WonOnce'
  <2> SUFFICES ASSUME NEW x \in Calls, NEW y \in Calls, Won(x)', Won(y)',
                      job'[x].intentId = job'[y].intentId
               PROVE  x = y
    BY DEF WonOnce
  <2>1. CASE x # c /\ y # c
    BY <1>1, <2>1 DEF WinInv, WonOnce
  <2> QED  BY <1>2, <2>1
<1> QED  BY <1>1, <1>3 DEF WinInv

\* Where a step of a call leads; the call keeps its intent.
LEMMA WhereTo ==
  ASSUME TypeOK, NEW c \in Calls
  PROVE  /\ (\E i \in Intents : Begin(c, i)) => job'[c].step = "liquidity" /\ job[c].step = "idle"
         /\ ReadInventory(c) => job'[c].step = "reserve" /\ job'[c].intentId = job[c].intentId
         /\ ReadReserved(c) => /\ job'[c].step \in {"fallback", "failed", "debitRead"}
                               /\ job'[c].intentId = job[c].intentId
         /\ DebitRead(c) => /\ job'[c].step \in {"threw", "debitWrite"}
                            /\ job'[c].intentId = job[c].intentId
         /\ ReadBalance(c) => job'[c].step = "publish" /\ job'[c].intentId = job[c].intentId
         /\ \A s \in Open \cup Ended : Goto(c, s) /\ job[c].step # "idle" =>
              job'[c].step = s /\ job'[c].intentId = job[c].intentId
<1>1. (\E i \in Intents : Begin(c, i)) => job'[c].step = "liquidity" /\ job[c].step = "idle"
  BY DEF Begin, TypeOK
<1>2. ASSUME job[c].step # "idle" PROVE job[c] \in Jobs
  BY <1>2, JobTyped
<1>3. ReadInventory(c) => job'[c].step = "reserve" /\ job'[c].intentId = job[c].intentId
  BY <1>2 DEF ReadInventory, TypeOK, Jobs
<1>4. ReadReserved(c) => /\ job'[c].step \in {"fallback", "failed", "debitRead"}
                         /\ job'[c].intentId = job[c].intentId
  BY <1>2 DEF ReadReserved, TypeOK, Jobs
<1>5. DebitRead(c) => /\ job'[c].step \in {"threw", "debitWrite"}
                      /\ job'[c].intentId = job[c].intentId
  BY <1>2 DEF DebitRead, TypeOK, Jobs
<1>6. ReadBalance(c) => job'[c].step = "publish" /\ job'[c].intentId = job[c].intentId
  BY <1>2 DEF ReadBalance, TypeOK, Jobs
<1>7. ASSUME NEW s \in Open \cup Ended, Goto(c, s), job[c].step # "idle"
      PROVE  job'[c].step = s /\ job'[c].intentId = job[c].intentId
  BY <1>2, <1>7 DEF Goto, TypeOK, Jobs
<1> QED  BY <1>1, <1>3, <1>4, <1>5, <1>6, <1>7

\* Before its row is written a call has not won, and its yield is not logged.
LEMMA CallWinInv ==
  ASSUME IInv, WinInv, NEW c \in Calls, CallNext(c)
  PROVE  WinInv'
<1>1. Next
  BY DEF Next
<1>2. \A d \in Calls \ {c} : job'[d] = job[d]
  BY OthersKeep DEF IInv
<1>3. ASSUME yieldLog' = yieldLog, job'[c].intentId = job[c].intentId,
             job'[c].step \notin {"yield", "balance", "publish", "fulfilled"}
      PROVE  WinInv'
  <2>1. Won(c)' => Won(c)
    BY <1>3 DEF Won
  <2>2. WinnerKnows(c)'
    BY <1>3 DEF WinnerKnows
  <2> QED  BY <1>1, <1>2, <1>3, <2>1, <2>2, WinStep
<1>4. ASSUME NEW i \in Intents, Begin(c, i) PROVE WinInv'
  <2>1. job[c].step = "idle" /\ job'[c].step = "liquidity" /\ yieldLog' = yieldLog
    BY <1>4, WhereTo DEF IInv, Begin, tables
  <2>2. yieldLog[c] = NoRow
    BY <2>1, WinnersRow DEF Won
  <2>3. ~Won(c)' /\ WinnerKnows(c)'
    BY <2>1, <2>2 DEF Won, WinnerKnows
  <2> QED  BY <1>1, <1>2, <2>1, <2>3, WinStep
<1>5. CASE ReadInventory(c) \/ ReadReserved(c) \/ DebitRead(c)
  BY <1>3, <1>5, WhereTo DEF IInv, ReadInventory, ReadReserved, DebitRead, tables
<1>6. CASE Fallback(c) \/ DebitWrite(c) \/ Fail(c)
  <2>1. PICK s \in {"logFallback", "commit", "threw"} : Goto(c, s) /\ job[c].step # "idle"
    BY <1>6 DEF Fallback, DebitWrite, Fail, Open
  <2>2. s \in Open \cup Ended
    BY DEF Open, Ended
  <2>3. job'[c].step = s /\ job'[c].intentId = job[c].intentId
    BY <2>1, <2>2, WhereTo DEF IInv
  <2>4. yieldLog' = yieldLog
    BY <1>6 DEF Fallback, DebitWrite, Fail, tables
  <2> QED  BY <1>3, <2>3, <2>4
<1>7. CASE LogFallback(c)
  <2>1. PICK s \in {"fulfilled", "threw"} :
          /\ Goto(c, s) /\ job[c].step # "idle" /\ yieldLog' = yieldLog
          /\ s = "fulfilled" => intentLog[job[c].intentId] = NoRow
    BY <1>7 DEF LogFallback
  <2>2. s \in Open \cup Ended
    BY DEF Open, Ended
  <2>3. job'[c].step = s /\ job'[c].intentId = job[c].intentId
    BY <2>1, <2>2, WhereTo DEF IInv
  <2>4. WinnerKnows(c)'
    BY <2>3 DEF WinnerKnows
  <2>5. Won(c)' => Won(c) \/ intentLog[job[c].intentId] = NoRow
    BY <2>1, <2>3 DEF Won
  <2> QED  BY <1>1, <1>2, <2>1, <2>3, <2>4, <2>5, WinStep
<1>8. CASE Commit(c)
  <2>1. job[c].step = "commit" /\ yieldLog' = yieldLog /\ job[c].intentId \in Intents
    BY <1>8, JobTyped DEF Commit, IInv
  <2>2. CASE intentLog[job[c].intentId] # NoRow
    <3>1. Goto(c, "threw")
      BY <1>8, <2>2 DEF Commit
    <3>2. job'[c].step = "threw" /\ job'[c].intentId = job[c].intentId
      BY <2>1, <3>1, WhereTo DEF IInv, Ended
    <3> QED  BY <1>3, <2>1, <3>2
  <2>3. CASE intentLog[job[c].intentId] = NoRow
    <3>1. Goto(c, "yield") /\ intentLog' = [intentLog EXCEPT ![job[c].intentId] = PoolRow(c)]
      BY <1>8, <2>3 DEF Commit, PoolRow
    <3>2. job'[c].step = "yield" /\ job'[c].intentId = job[c].intentId
      BY <2>1, <3>1, WhereTo DEF IInv, Open
    <3>3. yieldLog[c] = NoRow
      BY <2>3, WinnersRow DEF Won
    <3>4. intentLog'[job[c].intentId] = PoolRow(c) /\ PoolRow(c)' = PoolRow(c)
      BY <2>1, <3>1, <3>2 DEF IInv, TypeOK, PoolRow, Req
    <3>5. WinnerKnows(c)'
      BY <2>1, <3>2, <3>3, <3>4 DEF WinnerKnows
    <3>6. Won(c)' => Won(c) \/ intentLog[job[c].intentId] = NoRow
      BY <2>3
    <3>7. \A d \in Calls \ {c} : yieldLog'[d] = yieldLog[d]
      BY <2>1
    <3> QED  BY <1>1, <1>2, <3>2, <3>5, <3>6, <3>7, WinStep
  <2> QED  BY <2>2, <2>3
<1>9. ASSUME job[c].step \in {"yield", "balance", "publish"},
             job'[c].intentId = job[c].intentId, WinnerKnows(c)',
             \A d \in Calls \ {c} : yieldLog'[d] = yieldLog[d]
      PROVE  WinInv'
  <2>1. Won(c)
    BY <1>9 DEF Won
  <2> QED  BY <1>1, <1>2, <1>9, <2>1, WinStep
<1>10. CASE LogYield(c)
  <2>1. job[c].step = "yield" /\ Goto(c, "balance") /\ job[c].intentId \in Intents
    BY <1>10, JobTyped DEF LogYield, IInv
  <2>2. job'[c].step = "balance" /\ job'[c].intentId = job[c].intentId
    BY <2>1, WhereTo DEF IInv, Open
  <2>3. intentLog[job[c].intentId] = PoolRow(c) /\ yieldLog[c] = NoRow /\ intentLog' = intentLog
    BY <1>10, <2>1 DEF WinInv, WinnerKnows, LogYield
  <2>4. PoolRow(c) # NoRow /\ YieldRow(c) # NoRow
    BY <2>1, RowFacts DEF IInv
  <2>5. /\ yieldLog'[c] = IF ShareOf(c) > 0 THEN YieldRow(c) ELSE NoRow
        /\ \A d \in Calls \ {c} : yieldLog'[d] = yieldLog[d]
    BY <1>10, <2>3, <2>4 DEF LogYield, IInv, TypeOK, ShareOf, YieldRow
  <2>6. PoolRow(c)' = PoolRow(c) /\ ShareOf(c)' = ShareOf(c)
    BY <2>2 DEF PoolRow, ShareOf, Req
  <2>7. WinnerKnows(c)'
    BY <2>2, <2>3, <2>4, <2>5, <2>6 DEF WinnerKnows
  <2> QED  BY <1>9, <2>1, <2>2, <2>5, <2>7
<1>11. CASE ReadBalance(c)
  <2>1. job[c].step = "balance" /\ UNCHANGED <<intentLog, yieldLog>>
    BY <1>11 DEF ReadBalance, tables
  <2>2. job'[c].step = "publish" /\ job'[c].intentId = job[c].intentId
    BY <1>11, WhereTo DEF IInv
  <2>3. PoolRow(c)' = PoolRow(c) /\ ShareOf(c)' = ShareOf(c)
    BY <2>2 DEF PoolRow, ShareOf, Req
  <2>4. WinnerKnows(c)'
    BY <2>1, <2>2, <2>3 DEF WinnerKnows, WinInv
  <2> QED  BY <1>9, <2>1, <2>2, <2>4
<1>12. CASE Publish(c)
  <2>1. job[c].step = "publish" /\ Goto(c, "fulfilled") /\ yieldLog' = yieldLog
    BY <1>12 DEF Publish, tables
  <2>2. job'[c].step = "fulfilled" /\ job'[c].intentId = job[c].intentId
    BY <2>1, WhereTo DEF IInv, Ended
  <2>3. WinnerKnows(c)'
    BY <2>2 DEF WinnerKnows
  <2> QED  BY <1>9, <2>1, <2>2, <2>3
<1> QED
  BY <1>4, <1>5, <1>6, <1>7, <1>8, <1>10, <1>11, <1>12 DEF CallNext

LEMMA InitWinInv == Init => WinInv
  BY DEF Init, WinInv, WonOnce, Won, WinnerKnows

\* The steps of withdrawals and credits.
OthersNext ==
  \/ \E w \in WithdrawalCalls : WithdrawalNext(w)
  \/ \E k \in CreditCalls : CreditNext(k)
  \/ UNCHANGED vars

LEMMA OthersLeave ==
  ASSUME OthersNext
  PROVE  UNCHANGED <<intentLog, yieldLog, job, submitted, debits>>
<1>1. ASSUME NEW w \in WithdrawalCalls, WithdrawalNext(w)
      PROVE  UNCHANGED <<intentLog, yieldLog, job, submitted, debits>>
  BY <1>1 DEF WithdrawalNext, RequestWithdrawal, CreateWithdrawal, PublishWithdrawal,
              FailWithdrawal, tables
<1>2. ASSUME NEW k \in CreditCalls, CreditNext(k)
      PROVE  UNCHANGED <<intentLog, yieldLog, job, submitted, debits>>
  BY <1>2 DEF CreditNext, CreditRead, CreditWrite, tables
<1>3. CASE UNCHANGED vars
  BY <1>3 DEF vars
<1> QED  BY <1>1, <1>2, <1>3 DEF OthersNext

LEMMA NextWinInv == IInv /\ WinInv /\ [Next]_vars => WinInv'
<1> SUFFICES ASSUME IInv, WinInv, [Next]_vars PROVE WinInv'
  OBVIOUS
<1>1. CASE OthersNext
  <2>1. UNCHANGED <<intentLog, yieldLog, job>>
    BY <1>1, OthersLeave
  <2>2. \A c \in Calls : WinnerKnows(c)' /\ (Won(c)' <=> Won(c))
    BY <2>1, WinnerStays
  <2> QED  BY <2>1, <2>2 DEF WinInv, WonOnce
<1>2. CASE \E c \in Calls : CallNext(c)
  BY <1>2, CallWinInv
<1> QED  BY <1>1, <1>2 DEF Next, OthersNext

-----------------------------------------------------------------------------
(***************************************************************************)
(* Funds that moved and are not in the log.  A call comes to be counted    *)
(* when it moves funds or throws, and ceases to be when it writes the row. *)
(***************************************************************************)
Logged(i) == IF intentLog[i] = NoRow THEN 0 ELSE 1

LEMMA UnloggedCounts ==
  ASSUME NEW c \in Calls, \A d \in Calls \ {c} : job'[d] = job[d], NEW i \in Intents
  PROVE  /\ Cardinality(Unlogged(i)) \in Nat /\ Cardinality(Unlogged(i)') \in Nat
         /\ c \in Unlogged(i) /\ c \notin Unlogged(i)' =>
              Cardinality(Unlogged(i)') = Cardinality(Unlogged(i)) - 1
         /\ c \notin Unlogged(i) /\ c \in Unlogged(i)' =>
              Cardinality(Unlogged(i)') = Cardinality(Unlogged(i)) + 1
         /\ (c \in Unlogged(i) <=> c \in Unlogged(i)') =>
              Cardinality(Unlogged(i)') = Cardinality(Unlogged(i))
<1> DEFINE U == Unlogged(i)
           V == Unlogged(i)'
<1>1. U \subseteq Calls /\ V \subseteq Calls
  BY DEF Unlogged
<1>2. \A d \in Calls \ {c} : d \in U <=> d \in V
  BY DEF Unlogged
<1> HIDE DEF U, V
<1>3. IsFiniteSet(U) /\ IsFiniteSet(V)
  BY <1>1, PoolAssumption, FS_Subset
<1>4. Cardinality(U) \in Nat /\ Cardinality(V) \in Nat
  BY <1>3, FS_CardinalityType
<1>5. c \in U /\ c \notin V => V = U \ {c}
  BY <1>1, <1>2
<1>6. c \notin U /\ c \in V => V = U \cup {c}
  BY <1>1, <1>2
<1>7. (c \in U <=> c \in V) => V = U
  BY <1>1, <1>2
<1>8. c \in U => Cardinality(U \ {c}) = Cardinality(U) - 1
  BY <1>3, FS_RemoveElement
<1>9. c \notin U => Cardinality(U \cup {c}) = Cardinality(U) + 1
  BY <1>3, FS_AddElement
<1> QED  BY <1>4, <1>5, <1>6, <1>7, <1>8, <1>9 DEF U, V

LEMMA CallMoves ==
  ASSUME IInv, MovesAreAnswered, NEW c \in Calls, CallNext(c)
  PROVE  MovesAreAnswered'
<1>1. TypeOK /\ \A d \in Calls \ {c} : job'[d] = job[d]
  BY OthersKeep DEF IInv
<1>2. SUFFICES ASSUME NEW i \in Intents
               PROVE  debits'[i] + submitted'[i] <= Cardinality(Unlogged(i)') + Logged(i)'
  BY DEF MovesAreAnswered, Logged
<1> DEFINE u == Cardinality(Unlogged(i))
           v == Cardinality(Unlogged(i)')
<1>3. debits[i] + submitted[i] <= u + Logged(i)
  BY DEF MovesAreAnswered, Logged
<1>4. /\ u \in Nat /\ v \in Nat
      /\ c \in Unlogged(i) /\ c \notin Unlogged(i)' => v = u - 1
      /\ c \notin Unlogged(i) /\ c \in Unlogged(i)' => v = u + 1
      /\ (c \in Unlogged(i) <=> c \in Unlogged(i)') => v = u
  BY <1>1, UnloggedCounts
<1>5. debits[i] \in Nat /\ submitted[i] \in Nat /\ Logged(i) \in {0, 1}
  BY <1>1 DEF TypeOK, Logged
<1> HIDE DEF u, v
\* A step that moves nothing and logs nothing, after which c counts as before.
<1>6. ASSUME debits' = debits, submitted' = submitted, intentLog' = intentLog,
             c \in Unlogged(i) => c \in Unlogged(i)'
      PROVE  debits'[i] + submitted'[i] <= v + Logged(i)'
  <2>1. v >= u
    BY <1>4, <1>6
  <2>2. Logged(i)' = Logged(i)
    BY <1>6 DEF Logged
  <2> QED  BY <1>3, <1>4, <1>5, <1>6, <2>1, <2>2
<1>7. ASSUME job[c].step \notin {"commit", "logFallback", "threw"},
             debits' = debits, submitted' = submitted, intentLog' = intentLog
      PROVE  debits'[i] + submitted'[i] <= v + Logged(i)'
  BY <1>6, <1>7 DEF Unlogged
<1>8. CASE \/ \E x \in Intents : Begin(c, x)
           \/ ReadInventory(c) \/ ReadReserved(c) \/ DebitRead(c)
           \/ LogYield(c) \/ ReadBalance(c) \/ Publish(c)
  <2>1. job[c].step \in {"idle", "liquidity", "reserve", "debitRead", "yield", "balance", "publish"}
    BY <1>8 DEF Begin, ReadInventory, ReadReserved, DebitRead, LogYield, ReadBalance, Publish
  <2>2. debits' = debits /\ submitted' = submitted /\ intentLog' = intentLog
    BY <1>8 DEF Begin, ReadInventory, ReadReserved, DebitRead, LogYield, ReadBalance,
                Publish, tables
  <2> QED  BY <1>7, <2>1, <2>2 DEF v
<1>9. ASSUME job[c].step \in Open, Goto(c, "threw"),
             debits' = debits, submitted' = submitted, intentLog' = intentLog
      PROVE  debits'[i] + submitted'[i] <= v + Logged(i)'
  <2>1. job'[c].step = "threw" /\ job'[c].intentId = job[c].intentId
    BY <1>1, <1>9, WhereTo DEF Open, Ended
  <2> QED  BY <1>6, <1>9, <2>1 DEF Unlogged
<1>10. CASE Fail(c)
  BY <1>9, <1>10 DEF Fail, tables, v
<1>11. CASE Fallback(c) \/ DebitWrite(c)
  <2>1. PICK s \in {"logFallback", "commit"} : Goto(c, s) /\ intentLog' = intentLog
    BY <1>11 DEF Fallback, DebitWrite, tables
  <2>2. job[c].step \in {"fallback", "debitWrite"}
    BY <1>11 DEF Fallback, DebitWrite
  <2>3. job'[c].step = s /\ job'[c].intentId = job[c].intentId
    BY <1>1, <2>1, <2>2, WhereTo DEF Open
  <2>4. c \notin Unlogged(i) /\ (c \in Unlogged(i)' <=> job[c].intentId = i)
    BY <2>1, <2>2, <2>3 DEF Unlogged
  <2>5. Logged(i)' = Logged(i)
    BY <2>1 DEF Logged
  <2>6. debits'[i] + submitted'[i] =
          debits[i] + submitted[i] + (IF job[c].intentId = i THEN 1 ELSE 0)
    <3>1. CASE Fallback(c)
      <4>1. /\ submitted' = [submitted EXCEPT ![job[c].intentId] = @ + 1]
            /\ debits' = debits
        BY <3>1 DEF Fallback
      <4> QED  BY <1>1, <1>5, <4>1 DEF TypeOK
    <3>2. CASE DebitWrite(c)
      <4>1. /\ debits' = [debits EXCEPT ![job[c].intentId] = @ + 1]
            /\ submitted' = submitted
        BY <3>2 DEF DebitWrite
      <4> QED  BY <1>1, <1>5, <4>1 DEF TypeOK
    <3> QED  BY <1>11, <3>1, <3>2
  <2>7. v = u + (IF job[c].intentId = i THEN 1 ELSE 0)
    BY <1>4, <2>4
  <2> QED  BY <1>3, <1>4, <1>5, <2>5, <2>6, <2>7 DEF v
<1>12. CASE LogFallback(c) \/ Commit(c)
  <2>1. /\ job[c].step \in {"logFallback", "commit"} /\ job[c].intentId \in Intents
        /\ debits' = debits /\ submitted' = submitted
    BY <1>1, <1>12, JobTyped DEF LogFallback, Commit
  <2>2. CASE intentLog[job[c].intentId] # NoRow
    <3>1. Goto(c, "threw") /\ intentLog' = intentLog
      BY <1>12, <2>2 DEF LogFallback, Commit
    <3>2. job[c].step \in Open
      BY <2>1 DEF Open
    <3> QED  BY <1>9, <2>1, <3>1, <3>2 DEF v
  <2>3. CASE intentLog[job[c].intentId] = NoRow
    <3>1. \E row \in LogRows : intentLog' = [intentLog EXCEPT ![job[c].intentId] = row]
      <4>1. LogRow("LIFI", 0, 0) \in LogRows
        BY DEF LogRow, LogRows
      <4>2. PoolRow(c) \in LogRows
        BY <1>1, <2>1, RowFacts
      <4> QED  BY <1>12, <2>3, <4>1, <4>2 DEF LogFallback, Commit, PoolRow
    <3>2. CASE job[c].intentId = i
      <4>1. Logged(i) = 0 /\ Logged(i)' = 1
        BY <1>1, <2>3, <3>1, <3>2, PoolAssumption DEF Logged, TypeOK
      <4>2. v >= u - 1
        BY <1>4
      <4> QED  BY <1>3, <1>4, <1>5, <2>1, <4>1, <4>2 DEF v
    <3>3. CASE job[c].intentId # i
      <4>1. intentLog'[i] = intentLog[i]
        BY <1>1, <3>1, <3>3 DEF TypeOK
      <4>2. Logged(i)' = Logged(i)
        BY <4>1 DEF Logged
      <4>3. c \notin Unlogged(i)
        BY <3>3 DEF Unlogged
      <4>4. v >= u
        BY <1>4, <4>3
      <4> QED  BY <1>3, <1>4, <1>5, <2>1, <4>2, <4>4 DEF v
    <3> QED  BY <3>2, <3>3
  <2> QED  BY <2>2, <2>3
<1> QED  BY <1>8, <1>10, <1>11, <1>12 DEF CallNext, v

(***************************************************************************)
(* Funds never move in silence: of the debits and LI.FI submissions for an *)
(* intent one is in the log, and each other was the doing of a call that   *)
(* is about to log it or threw, however many calls race or retry.          *)
(***************************************************************************)
THEOREM AlwaysMovesAreAnswered == Spec => []MovesAreAnswered
<1>1. Init => MovesAreAnswered
  <2> SUFFICES ASSUME Init, NEW i \in Intents
               PROVE  debits[i] + submitted[i] <= Cardinality(Unlogged(i)) + Logged(i)
    BY DEF MovesAreAnswered, Logged
  <2>1. Unlogged(i) = {} /\ debits[i] = 0 /\ submitted[i] = 0 /\ Logged(i) = 0
    BY DEF Init, Unlogged, Logged
  <2> QED  BY <2>1, FS_EmptySet
<1>2. IInv /\ MovesAreAnswered /\ [Next]_vars => MovesAreAnswered'
  <2> SUFFICES ASSUME IInv, MovesAreAnswered, [Next]_vars PROVE MovesAreAnswered'
    OBVIOUS
  <2>1. CASE OthersNext
    BY <2>1, OthersLeave DEF MovesAreAnswered, Unlogged
  <2>2. CASE \E c \in Calls : CallNext(c)
    BY <2>2, CallMoves
  <2> QED  BY <2>1, <2>2 DEF Next, OthersNext
<1> QED  BY <1>1, <1>2, AlwaysIInv, PTL DEF Spec

(***************************************************************************)
(* Where the book sees a step: at one intent, or nowhere.                  *)
(***************************************************************************)
SameWays(i) == WaysOf(i)' = WaysOf(i)
SameRecord(i) == RecordOf(i)' = RecordOf(i)
SameYielders(i) == YieldersOf(i)' = YieldersOf(i)
SameTold(i) == ToldOf(i)' = ToldOf(i)

LEMMA BookStutters ==
  ASSUME \A i \in Intents : SameWays(i) /\ SameRecord(i) /\ SameYielders(i) /\ SameTold(i)
  PROVE  UNCHANGED Book!bookvars
  BY DEF Book!bookvars, SameWays, SameRecord, SameYielders, SameTold

LEMMA BookMoves ==
  ASSUME NEW i \in Intents, NEW way \in {"POOL", "LIFI"},
         WaysOf(i)' = WaysOf(i) \cup {way},
         \A x \in Intents \ {i} : SameWays(x),
         \A x \in Intents : SameRecord(x) /\ SameYielders(x) /\ SameTold(x)
  PROVE  Book!BookNext
<1>1. Book!Move(i, way)
  BY DEF Book!Move, SameWays, SameRecord, SameYielders, SameTold
<1> QED  BY <1>1 DEF Book!BookNext

LEMMA BookSettlesFromPool ==
  ASSUME NEW i \in Intents, RecordOf(i) = NoRow, "POOL" \in WaysOf(i),
         RecordOf(i)' = [from |-> "POOL", share |-> UserReward(GrossReward(Request[i].amount))],
         \A x \in Intents \ {i} : SameRecord(x),
         \A x \in Intents : SameWays(x) /\ SameYielders(x) /\ SameTold(x)
  PROVE  Book!BookNext
<1>1. Book!ViaPool(i)
  BY DEF Book!ViaPool, Book!Settle, SameWays, SameRecord, SameYielders, SameTold
<1> QED  BY <1>1 DEF Book!BookNext

LEMMA BookSettlesByLifi ==
  ASSUME NEW i \in Intents, RecordOf(i) = NoRow, "LIFI" \in WaysOf(i),
         RecordOf(i)' = [from |-> "LIFI", share |-> 0],
         \A x \in Intents \ {i} : SameRecord(x) /\ SameTold(x),
         \A x \in Intents : SameWays(x) /\ SameYielders(x),
         SameTold(i) \/ \E c \in Calls : ToldOf(i) = {} /\ ToldOf(i)' = {c}
  PROVE  Book!BookNext
<1>1. Book!Settle(i, "LIFI")
  BY DEF Book!Settle, SameWays, SameRecord, SameYielders
<1>2. CASE SameTold(i)
  <2>1. Book!ViaLifi(i)
    BY <1>1, <1>2 DEF Book!ViaLifi, SameTold
  <2> QED  BY <2>1 DEF Book!BookNext
<1>3. ASSUME NEW c \in Calls, ToldOf(i) = {}, ToldOf(i)' = {c} PROVE Book!BookNext
  <2>1. Book!ViaLifi(i)
    BY <1>1, <1>3 DEF Book!ViaLifi, Book!Tell, SameTold
  <2> QED  BY <2>1 DEF Book!BookNext
<1> QED  BY <1>2, <1>3

LEMMA BookYields ==
  ASSUME NEW i \in Intents, NEW c \in Calls,
         RecordOf(i) = [from |-> "POOL", share |-> UserReward(GrossReward(Request[i].amount))],
         UserReward(GrossReward(Request[i].amount)) > 0,
         YieldersOf(i) = {}, YieldersOf(i)' = {c},
         \A x \in Intents \ {i} : SameYielders(x),
         \A x \in Intents : SameWays(x) /\ SameRecord(x) /\ SameTold(x)
  PROVE  Book!BookNext
<1>1. Book!Yield(i, c)
  BY DEF Book!Yield, SameWays, SameRecord, SameYielders, SameTold
<1> QED  BY <1>1 DEF Book!BookNext

LEMMA BookAnswers ==
  ASSUME NEW i \in Intents, NEW c \in Calls,
         RecordOf(i) = [from |-> "POOL", share |-> UserReward(GrossReward(Request[i].amount))],
         UserReward(GrossReward(Request[i].amount)) > 0 => YieldersOf(i) = {c},
         ToldOf(i) = {}, ToldOf(i)' = {c},
         \A x \in Intents \ {i} : SameTold(x),
         \A x \in Intents : SameWays(x) /\ SameRecord(x) /\ SameYielders(x)
  PROVE  Book!BookNext
<1>1. Book!Answer(i, c)
  BY DEF Book!Answer, Book!Tell, SameWays, SameRecord, SameYielders, SameTold
<1> QED  BY <1>1 DEF Book!BookNext

LEMMA InitIsBookInit == Init => Book!BookInit
<1> SUFFICES ASSUME Init, NEW i \in Intents
             PROVE  WaysOf(i) = {} /\ RecordOf(i) = NoRow /\ YieldersOf(i) = {} /\ ToldOf(i) = {}
  BY DEF Book!BookInit
<1> QED  BY DEF Init, WaysOf, RecordOf, YieldersOf, ToldOf

\* A step that only reads, or ends without an answer.
LEMMA CallToldSame ==
  ASSUME TypeOK, NEW c \in Calls, CallNext(c), job'[c].step # "fulfilled", NEW x \in Intents
  PROVE  SameTold(x)
<1>1. job[c].step # "fulfilled"
  BY DEF CallNext, Begin, ReadInventory, ReadReserved, Fallback, LogFallback, DebitRead,
         DebitWrite, Commit, LogYield, ReadBalance, Publish, Fail, Open
<1>2. \A d \in Calls \ {c} : job'[d] = job[d]
  BY OthersKeep
<1> QED  BY <1>1, <1>2 DEF SameTold, ToldOf

LEMMA SameTables ==
  ASSUME NEW x \in Intents
  PROVE  /\ UNCHANGED <<debits, submitted>> => SameWays(x)
         /\ UNCHANGED intentLog => SameRecord(x)
         /\ UNCHANGED yieldLog => SameYielders(x)
  BY DEF SameWays, SameRecord, SameYielders, WaysOf, RecordOf, YieldersOf

LEMMA QuietBook ==
  ASSUME TypeOK, NEW c \in Calls, CallNext(c), job'[c].step # "fulfilled",
         UNCHANGED <<debits, submitted, intentLog, yieldLog>>
  PROVE  UNCHANGED Book!bookvars
  BY CallToldSame, SameTables, BookStutters

\* Handing an intent to LI.FI and debiting the pool move its funds.
LEMMA MovingBook ==
  ASSUME IInv, NEW c \in Calls, Fallback(c) \/ DebitWrite(c)
  PROVE  Book!BookNext
<1>1. job[c].step # "idle" /\ CallNext(c) /\ UNCHANGED <<intentLog, yieldLog>>
  BY DEF Fallback, DebitWrite, CallNext, tables
<1>2. PICK i \in Intents : i = job[c].intentId
  BY <1>1, JobTyped DEF IInv
<1>3. job'[c].step # "fulfilled"
  BY <1>1, WhereTo DEF IInv, Fallback, DebitWrite, Open
<1>4. \A x \in Intents : SameRecord(x) /\ SameYielders(x) /\ SameTold(x)
  BY <1>1, <1>3, SameTables, CallToldSame DEF IInv
<1>5. CASE Fallback(c)
  <2>1. submitted' = [submitted EXCEPT ![i] = @ + 1] /\ debits' = debits
    BY <1>2, <1>5 DEF Fallback
  <2>2. \A x \in Intents \ {i} : SameWays(x)
    BY <2>1 DEF SameWays, WaysOf, IInv, TypeOK
  <2>3. submitted[i] \in Nat /\ submitted'[i] = submitted[i] + 1 /\ debits'[i] = debits[i]
    BY <2>1 DEF IInv, TypeOK
  <2>4. WaysOf(i)' = WaysOf(i) \cup {"LIFI"}
    BY <2>3 DEF WaysOf
  <2> QED  BY <1>4, <2>2, <2>4, BookMoves
<1>6. CASE DebitWrite(c)
  <2>1. debits' = [debits EXCEPT ![i] = @ + 1] /\ submitted' = submitted
    BY <1>2, <1>6 DEF DebitWrite
  <2>2. \A x \in Intents \ {i} : SameWays(x)
    BY <2>1 DEF SameWays, WaysOf, IInv, TypeOK
  <2>3. debits[i] \in Nat /\ debits'[i] = debits[i] + 1 /\ submitted'[i] = submitted[i]
    BY <2>1 DEF IInv, TypeOK
  <2>4. WaysOf(i)' = WaysOf(i) \cup {"POOL"}
    BY <2>3 DEF WaysOf
  <2> QED  BY <1>4, <2>2, <2>4, BookMoves
<1> QED  BY <1>5, <1>6

\* Nobody has been told of an intent, or logged its yield, before its row is there.
LEMMA UnsettledUntold ==
  ASSUME IInv, NEW i \in Intents, intentLog[i] = NoRow
  PROVE  ToldOf(i) = {} /\ YieldersOf(i) = {}
<1>1. ASSUME NEW d \in Calls, d \in ToldOf(i) PROVE FALSE
  BY <1>1, WinnersRow DEF ToldOf, Won
<1>2. ASSUME NEW d \in Calls, d \in YieldersOf(i) PROVE FALSE
  BY <1>2, WinnersRow DEF YieldersOf, Won
<1> QED  BY <1>1, <1>2 DEF ToldOf, YieldersOf

LEMMA LogFallbackBook ==
  ASSUME IInv, NEW c \in Calls, LogFallback(c)
  PROVE  Book!BookNext \/ UNCHANGED Book!bookvars
<1>1. /\ job[c].step = "logFallback" /\ CallNext(c)
      /\ UNCHANGED <<yieldLog, submitted, debits>>
  BY DEF LogFallback, CallNext
<1>2. PICK i \in Intents : i = job[c].intentId
  BY <1>1, JobTyped DEF IInv
<1>3. CASE intentLog[i] # NoRow
  <2>1. Goto(c, "threw") /\ UNCHANGED intentLog
    BY <1>2, <1>3 DEF LogFallback
  <2>2. job'[c].step # "fulfilled"
    BY <1>1, <2>1, WhereTo DEF IInv, Ended
  <2> QED  BY <1>1, <2>1, <2>2, QuietBook DEF IInv
<1>4. CASE intentLog[i] = NoRow
  <2>1. PICK s \in {"fulfilled", "threw"} :
          Goto(c, s) /\ intentLog' = [intentLog EXCEPT ![i] = LogRow("LIFI", 0, 0)]
    BY <1>2, <1>4 DEF LogFallback
  <2>2. job'[c].step = s /\ job'[c].intentId = i
    BY <1>1, <1>2, <2>1, WhereTo DEF IInv, Ended
  <2>3. LogRow("LIFI", 0, 0) # NoRow /\ LogRow("LIFI", 0, 0).fulfilledFrom = "LIFI"
        /\ LogRow("LIFI", 0, 0).userReward = 0
    <3>1. LogRow("LIFI", 0, 0) \in LogRows
      BY DEF LogRow, LogRows
    <3> QED  BY <3>1, PoolAssumption DEF LogRow
  <2>4. intentLog'[i] = LogRow("LIFI", 0, 0) /\ \A x \in Intents \ {i} : intentLog'[x] = intentLog[x]
    BY <2>1 DEF IInv, TypeOK
  <2>5. /\ RecordOf(i) = NoRow
        /\ RecordOf(i)' = [from |-> "LIFI", share |-> 0]
        /\ \A x \in Intents \ {i} : SameRecord(x)
    BY <1>4, <2>3, <2>4 DEF RecordOf, SameRecord
  <2>6. "LIFI" \in WaysOf(i)
    BY <1>1, <1>2 DEF WaysOf, IInv, CallKnows
  <2>7. \A x \in Intents : SameWays(x) /\ SameYielders(x)
    BY <1>1, SameTables
  <2>8. \A d \in Calls \ {c} : job'[d] = job[d]
    BY <1>1, OthersKeep DEF IInv
  <2>9. \A x \in Intents \ {i} : SameTold(x)
    BY <1>1, <2>2, <2>8, <1>2 DEF SameTold, ToldOf
  <2>10. SameTold(i) \/ (ToldOf(i) = {} /\ ToldOf(i)' = {c})
    <3>1. CASE s = "threw"
      BY <1>1, <2>2, <3>1, CallToldSame DEF IInv
    <3>2. CASE s = "fulfilled"
      <4>1. ToldOf(i) = {}
        BY <1>4, UnsettledUntold
      <4>2. ToldOf(i)' = {c}
        BY <2>2, <2>8, <3>2, <4>1 DEF ToldOf
      <4> QED  BY <4>1, <4>2
    <3> QED  BY <3>1, <3>2
  <2> QED  BY <2>5, <2>6, <2>7, <2>9, <2>10, BookSettlesByLifi
<1> QED  BY <1>3, <1>4

\* What the book has on record of an intent settled by the call c.
LEMMA PoolRecord ==
  ASSUME IInv, NEW c \in Calls, job[c].step # "idle", NEW i \in Intents, i = job[c].intentId
  PROVE  /\ PoolRow(c) # NoRow
         /\ PoolRow(c).fulfilledFrom = "POOL"
         /\ PoolRow(c).userReward = UserReward(GrossReward(Request[i].amount))
         /\ ShareOf(c) = UserReward(GrossReward(Request[i].amount))
         /\ YieldRow(c) # NoRow /\ YieldRow(c).intentId = i
<1>1. PoolRow(c).userReward = UserReward(GrossReward(Req(c).amount))
  BY DEF PoolRow, LogRow
<1> QED  BY <1>1, RowFacts DEF IInv, ShareOf, Req

LEMMA CommitBook ==
  ASSUME IInv, NEW c \in Calls, Commit(c)
  PROVE  Book!BookNext \/ UNCHANGED Book!bookvars
<1>1. /\ job[c].step = "commit" /\ CallNext(c)
      /\ UNCHANGED <<yieldLog, submitted, debits>>
  BY DEF Commit, CallNext
<1>2. PICK i \in Intents : i = job[c].intentId
  BY <1>1, JobTyped DEF IInv
<1>3. CASE intentLog[i] # NoRow
  <2>1. Goto(c, "threw") /\ UNCHANGED intentLog
    BY <1>2, <1>3 DEF Commit
  <2>2. job'[c].step # "fulfilled"
    BY <1>1, <2>1, WhereTo DEF IInv, Ended
  <2> QED  BY <1>1, <2>1, <2>2, QuietBook DEF IInv
<1>4. CASE intentLog[i] = NoRow
  <2>1. Goto(c, "yield") /\ intentLog' = [intentLog EXCEPT ![i] = PoolRow(c)]
    BY <1>2, <1>4 DEF Commit, PoolRow
  <2>2. job'[c].step # "fulfilled"
    BY <1>1, <2>1, WhereTo DEF IInv, Open
  <2>3. intentLog'[i] = PoolRow(c) /\ \A x \in Intents \ {i} : intentLog'[x] = intentLog[x]
    BY <2>1 DEF IInv, TypeOK
  <2>4. /\ RecordOf(i) = NoRow
        /\ RecordOf(i)' = [from |-> "POOL", share |-> UserReward(GrossReward(Request[i].amount))]
        /\ \A x \in Intents \ {i} : SameRecord(x)
    BY <1>1, <1>2, <1>4, <2>3, PoolRecord DEF RecordOf, SameRecord
  <2>5. "POOL" \in WaysOf(i)
    BY <1>1, <1>2 DEF WaysOf, IInv, CallKnows
  <2>6. \A x \in Intents : SameWays(x) /\ SameYielders(x) /\ SameTold(x)
    BY <1>1, <2>2, SameTables, CallToldSame DEF IInv
  <2> QED  BY <2>4, <2>5, <2>6, BookSettlesFromPool
<1> QED  BY <1>3, <1>4

\* The winner finds its own settlement on record, and no other winner.
LEMMA WinnerBook ==
  ASSUME IInv, WinInv, NEW c \in Calls, job[c].step \in {"yield", "publish"},
         NEW i \in Intents, i = job[c].intentId
  PROVE  /\ RecordOf(i) = [from |-> "POOL", share |-> UserReward(GrossReward(Request[i].amount))]
         /\ ToldOf(i) = {} /\ YieldersOf(i) = {d \in {c} : yieldLog[d] # NoRow}
<1>1. intentLog[i] = PoolRow(c)
  BY DEF WinInv, WinnerKnows
<1>2. RecordOf(i) = [from |-> "POOL", share |-> UserReward(GrossReward(Request[i].amount))]
  BY <1>1, PoolRecord DEF RecordOf
<1>3. ASSUME NEW d \in Calls, Won(d), job[d].intentId = i PROVE d = c
  BY <1>3 DEF WinInv, WonOnce, Won
<1>4. ToldOf(i) = {}
  BY <1>3 DEF ToldOf, Won
<1>5. ASSUME NEW d \in Calls, yieldLog[d] # NoRow
      PROVE  Won(d) /\ yieldLog[d].intentId = job[d].intentId
  BY <1>5, WinnersRow DEF Won
<1>6. YieldersOf(i) = {d \in {c} : yieldLog[d] # NoRow}
  BY <1>3, <1>5 DEF YieldersOf
<1> QED  BY <1>2, <1>4, <1>6

LEMMA LogYieldBook ==
  ASSUME IInv, WinInv, NEW c \in Calls, LogYield(c)
  PROVE  Book!BookNext \/ UNCHANGED Book!bookvars
<1>1. /\ job[c].step = "yield" /\ CallNext(c) /\ Goto(c, "balance")
      /\ UNCHANGED <<intentLog, submitted, debits>>
  BY DEF LogYield, CallNext
<1>2. PICK i \in Intents : i = job[c].intentId
  BY <1>1, JobTyped DEF IInv
<1>3. job'[c].step # "fulfilled"
  BY <1>1, WhereTo DEF IInv, Open
<1>4. intentLog[i] # NoRow /\ yieldLog[c] = NoRow
  BY <1>1, <1>2, PoolRecord DEF WinInv, WinnerKnows
<1>5. /\ yieldLog'[c] = IF ShareOf(c) > 0 THEN YieldRow(c) ELSE NoRow
      /\ \A d \in Calls \ {c} : yieldLog'[d] = yieldLog[d]
      /\ yieldLog' = [yieldLog EXCEPT ![c] = yieldLog'[c]]
  BY <1>2, <1>4 DEF LogYield, IInv, TypeOK, ShareOf, YieldRow
<1>6. CASE ~(ShareOf(c) > 0)
  <2>1. yieldLog' = yieldLog
    BY <1>4, <1>5, <1>6 DEF IInv, TypeOK
  <2> QED  BY <1>1, <1>3, <2>1, QuietBook DEF IInv
<1>7. CASE ShareOf(c) > 0
  <2>1. yieldLog'[c] # NoRow /\ yieldLog'[c].intentId = i
    BY <1>1, <1>2, <1>5, <1>7, PoolRecord
  <2>2. \A x \in Intents \ {i} : SameYielders(x)
    BY <1>4, <1>5, <2>1 DEF SameYielders, YieldersOf
  <2>3. /\ RecordOf(i) = [from |-> "POOL", share |-> UserReward(GrossReward(Request[i].amount))]
        /\ YieldersOf(i) = {}
    BY <1>1, <1>2, <1>4, WinnerBook
  <2>4. YieldersOf(i)' = {c}
    BY <1>5, <2>1, <2>3 DEF YieldersOf
  <2>5. UserReward(GrossReward(Request[i].amount)) > 0
    BY <1>1, <1>2, <1>7, PoolRecord
  <2>6. \A x \in Intents : SameWays(x) /\ SameRecord(x) /\ SameTold(x)
    BY <1>1, <1>3, SameTables, CallToldSame DEF IInv
  <2> QED  BY <2>2, <2>3, <2>4, <2>5, <2>6, BookYields
<1> QED  BY <1>6, <1>7

LEMMA PublishBook ==
  ASSUME IInv, WinInv, NEW c \in Calls, Publish(c)
  PROVE  Book!BookNext
<1>1. /\ job[c].step = "publish" /\ CallNext(c) /\ Goto(c, "fulfilled")
      /\ UNCHANGED <<intentLog, yieldLog, submitted, debits>>
  BY DEF Publish, CallNext, tables
<1>2. PICK i \in Intents : i = job[c].intentId
  BY <1>1, JobTyped DEF IInv
<1>3. job'[c].step = "fulfilled" /\ job'[c].intentId = i
  BY <1>1, <1>2, WhereTo DEF IInv, Ended
<1>4. \A d \in Calls \ {c} : job'[d] = job[d]
  BY <1>1, OthersKeep DEF IInv
<1>5. /\ RecordOf(i) = [from |-> "POOL", share |-> UserReward(GrossReward(Request[i].amount))]
      /\ ToldOf(i) = {} /\ YieldersOf(i) = {d \in {c} : yieldLog[d] # NoRow}
  BY <1>1, <1>2, WinnerBook
<1>6. UserReward(GrossReward(Request[i].amount)) > 0 => YieldersOf(i) = {c}
  BY <1>1, <1>2, <1>5, PoolRecord DEF WinInv, WinnerKnows
<1>7. ToldOf(i)' = {c}
  BY <1>3, <1>4, <1>5 DEF ToldOf
<1>8. \A x \in Intents \ {i} : SameTold(x)
  BY <1>1, <1>2, <1>3, <1>4 DEF SameTold, ToldOf
<1>9. \A x \in Intents : SameWays(x) /\ SameRecord(x) /\ SameYielders(x)
  BY <1>1, SameTables
<1> QED  BY <1>5, <1>6, <1>7, <1>8, <1>9, BookAnswers

LEMMA NextIsBookStep ==
  ASSUME IInv, WinInv, [Next]_vars
  PROVE  Book!BookNext \/ UNCHANGED Book!bookvars
<1>1. CASE OthersNext
  <2>1. UNCHANGED <<intentLog, yieldLog, job, submitted, debits>>
    BY <1>1, OthersLeave
  <2>2. \A x \in Intents : SameWays(x) /\ SameRecord(x) /\ SameYielders(x) /\ SameTold(x)
    BY <2>1, SameTables DEF SameTold, ToldOf
  <2> QED  BY <2>2, BookStutters
<1>2. ASSUME NEW c \in Calls, CallNext(c)
      PROVE  Book!BookNext \/ UNCHANGED Book!bookvars
  <2>1. CASE (\E i \in Intents : Begin(c, i)) \/ ReadInventory(c) \/ ReadReserved(c)
             \/ DebitRead(c) \/ ReadBalance(c) \/ Fail(c)
    <3>1. UNCHANGED <<debits, submitted, intentLog, yieldLog>>
      BY <2>1 DEF Begin, ReadInventory, ReadReserved, DebitRead, ReadBalance, Fail, tables
    <3>2. Fail(c) => job'[c].step # "fulfilled"
      BY WhereTo DEF Fail, Open, Ended, IInv
    <3>3. job'[c].step # "fulfilled"
      BY <2>1, <3>2, WhereTo DEF IInv
    <3> QED  BY <1>2, <3>1, <3>3, QuietBook DEF IInv
  <2> QED
    BY <1>2, <2>1, MovingBook, LogFallbackBook, CommitBook, LogYieldBook, PublishBook
       DEF CallNext
<1> QED  BY <1>1, <1>2 DEF Next, OthersNext

(***************************************************************************)
(* The solver keeps the promise of IntentBook, however many calls handle   *)
(* an intent at once or again, and wherever they fail: an intent is        *)
(* settled once, after its funds have moved, and never resettled; its      *)
(* yield is logged once; and one call at most is told "fulfilled", after   *)
(* the yield it owes is in the log.                                        *)
(***************************************************************************)
THEOREM ImplementsIntentBook == Spec => KeepsBook
<1>1. Init => IInv /\ WinInv /\ Book!BookInit
  BY InitIInv, InitWinInv, InitIsBookInit
<1>2. IInv /\ WinInv /\ [Next]_vars => WinInv'
  BY NextWinInv
<1>3. IInv /\ WinInv /\ [Next]_vars => [Book!BookNext]_(Book!bookvars)
  BY NextIsBookStep
<1> QED
  BY <1>1, <1>2, <1>3, AlwaysIInv, PTL DEF Spec, KeepsBook, Book!BookSpec
=============================================================================

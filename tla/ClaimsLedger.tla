----------------------------- MODULE ClaimsLedger -----------------------------
(***************************************************************************)
(* What the custody contracts promise, without saying how: of every asset, *)
(* each unit is a claim of some holder, or belongs to the treasury, or is  *)
(* free; units are never created or lost; a claim shrinks only by an act   *)
(* of its holder and then becomes free in full; a reward is split evenly   *)
(* between its holder and the treasury, the odd unit to the treasury.      *)
(***************************************************************************)
EXTENDS Integers

CONSTANTS
  Holders,
  Assets,
  Supply   \* Supply[a]: how many units of asset a there are

VARIABLES
  claim,    \* claim[a][h]: what holder h may take out of asset a
  treasury, \* treasury[a]: what the protocol itself owns
  free,     \* free[a]: everything else
  actor     \* who acted last

lvars == <<claim, treasury, free, actor>>

LedgerInit ==
  /\ claim = [a \in Assets |-> [h \in Holders |-> 0]]
  /\ treasury = [a \in Assets |-> 0]
  /\ free = Supply
  /\ actor \in Holders

\* Units become a claim of h; anyone may fund anyone.
Fund(a, h, n) ==
  /\ n <= free[a]
  /\ claim' = [claim EXCEPT ![a][h] = @ + n]
  /\ free' = [free EXCEPT ![a] = @ - n]
  /\ UNCHANGED treasury

\* The holder, and only the holder, turns part of the claim into free units.
Exit(a, h, n) ==
  /\ n <= claim[a][h]
  /\ actor' = h
  /\ claim' = [claim EXCEPT ![a][h] = @ - n]
  /\ free' = [free EXCEPT ![a] = @ + n]
  /\ UNCHANGED treasury

\* A reward of n: half a claim of h, the rest the treasury's.
Reward(a, h, n) ==
  /\ n <= free[a]
  /\ claim' = [claim EXCEPT ![a][h] = @ + (n \div 2)]
  /\ treasury' = [treasury EXCEPT ![a] = @ + (n - (n \div 2))]
  /\ free' = [free EXCEPT ![a] = @ - n]

TreasuryIn(a, n) ==
  /\ n <= free[a]
  /\ treasury' = [treasury EXCEPT ![a] = @ + n]
  /\ free' = [free EXCEPT ![a] = @ - n]
  /\ UNCHANGED claim

TreasuryOut(a, n) ==
  /\ n <= treasury[a]
  /\ treasury' = [treasury EXCEPT ![a] = @ - n]
  /\ free' = [free EXCEPT ![a] = @ + n]
  /\ UNCHANGED claim

\* A step that concerns no unit: roles, approvals, transfers of free units.
Idle == UNCHANGED <<claim, treasury, free>>

LedgerNext ==
  /\ actor' \in Holders
  /\ \/ Idle
     \/ \E a \in Assets :
          \/ \E h \in Holders :
               \/ \E n \in 1 .. free[a] : Fund(a, h, n) \/ Reward(a, h, n)
               \/ \E n \in 1 .. claim[a][h] : Exit(a, h, n)
          \/ \E n \in 1 .. free[a] : TreasuryIn(a, n)
          \/ \E n \in 1 .. treasury[a] : TreasuryOut(a, n)

LedgerSpec == LedgerInit /\ [][LedgerNext]_lvars
=============================================================================

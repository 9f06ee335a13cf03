----------------------------- MODULE MCSolverPool -----------------------------
(***************************************************************************)
(* A small instance of SolverPool: one place; an intent of a user with a   *)
(* balance, one of a user with none, and one too small to be worth it; two *)
(* calls, of the same intent or of two; a withdrawal; a credit.            *)
(* The inventory covers one intent and a small withdrawal, or, once        *)
(* credited, two intents.                                                  *)
(***************************************************************************)
EXTENDS SolverPool

CONSTANTS alice, bob, sepolia, i1, i2, i3

Million == 1000000
TwoUsers == {alice, bob}
SmallRequest ==
  [i \in {i1, i2, i3} |->
     [user   |-> IF i = i2 THEN bob ELSE alice,
      place  |-> sepolia,
      amount |-> IF i = i3 THEN 6 * Million ELSE 10 * Million]]
SmallInventory == [p \in {sepolia} |-> 15 * Million]
SmallBalances == [u \in TwoUsers |-> IF u = alice THEN 8 * Million ELSE NoRow]
HalfAndAll == {4 * Million, 8 * Million}
All == {8 * Million}
OneCredit == 5 * Million
=============================================================================

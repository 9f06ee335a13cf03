----------------------------- MODULE MCBalanceFeed -----------------------------
(***************************************************************************)
(* A small instance of BalanceFeed: two users, one publisher of each kind, *)
(* one amount, one client that says MaxMessages things and may connect     *)
(* again.                                                                  *)
(***************************************************************************)
EXTENDS BalanceFeed

CONSTANTS alice, bob, b1, s1, f1, w1
=============================================================================

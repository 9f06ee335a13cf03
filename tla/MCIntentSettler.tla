---------------------------- MODULE MCIntentSettler ----------------------------
(***************************************************************************)
(* Small instances of IntentSettler: one user, one session key, two        *)
(* tokens, grants that list one of them or both.                           *)
(***************************************************************************)
EXTENDS IntentSettler, TLC

CONSTANTS alice, key, usdc, weth, solver

TwoTokens == {usdc, weth}

\* A wide grant, and a later narrow one that leaves a token out.
SmallGrants == {(usdc :> 2) @@ (weth :> 1), usdc :> 1}
=============================================================================

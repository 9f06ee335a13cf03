--------------------------- MODULE MCFrontendSession ---------------------------
(***************************************************************************)
(* A small instance of FrontendSession: two wallets, a delegation that     *)
(* expires, two operations under way and those of a clear.                 *)
(***************************************************************************)
EXTENDS FrontendSession

CONSTANTS w1, w2
=============================================================================

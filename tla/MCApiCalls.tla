------------------------------- MODULE MCApiCalls -------------------------------
(***************************************************************************)
(* A small instance of ApiCalls: two presses of any kind, a limit of one   *)
(* request in a window, one retry.                                         *)
(***************************************************************************)
EXTENDS ApiCalls

CONSTANTS p1, p2
=============================================================================

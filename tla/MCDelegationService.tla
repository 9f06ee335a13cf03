-------------------------- MODULE MCDelegationService --------------------------
(***************************************************************************)
(* A small instance of DelegationService: one pair, two registrations (a   *)
(* re-registration, or a race), two revocations, two validations.          *)
(***************************************************************************)
EXTENDS DelegationService

CONSTANTS pair, r1, r2, x1, x2, v1, v2
=============================================================================

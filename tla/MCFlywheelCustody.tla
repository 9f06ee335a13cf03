--------------------------- MODULE MCFlywheelCustody ---------------------------
(***************************************************************************)
(* Small instances of FlywheelCustody: a user, and the one account that    *)
(* the deployment script makes admin and treasury operator at once.        *)
(***************************************************************************)
EXTENDS FlywheelCustody

CONSTANTS alice, ops, usdc

OneAsset == {usdc}
Everyone == {alice, ops}

\* Enough tokens for an odd and an even reward, partial and full exits.
SmallEndowment ==
  [a \in Assets |-> [u \in Accounts |-> IF u = ops THEN 2 ELSE 1]]

\* The deployed wiring: only the facade is ever a router or a distributor.
FacadeOnly == {Protocol}
OperatorsOnly == {ops}

\* Open wiring: the admin may hand these roles to an account as well.
FacadeAndOps == {Protocol, ops}
FacadeAndAlice == {Protocol, alice}
=============================================================================

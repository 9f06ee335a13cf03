-------------------------- MODULE MCClearNodeSession --------------------------
(***************************************************************************)
(* A small instance of ClearNodeSession: one session (or one without an    *)
(* id), two updates of different allocations, one close.                   *)
(***************************************************************************)
EXTENDS ClearNodeSession

CONSTANTS i1, u1, u2, x1

TenDeposited == [c \in {i1} |-> 10]
SevenOrFour == [c \in {u1, u2} |-> IF c = u1 THEN 7 ELSE 4]
=============================================================================

------------------------------ MODULE IntentBook ------------------------------
(***************************************************************************)
(* What the solver's records promise about an intent, whoever handles it,  *)
(* however often and whatever fails: it is settled once, by a way the      *)
(* funds have already gone; its settlement is never rewritten; its yield,  *)
(* if its share is not nothing, is logged by one call, after a settlement  *)
(* from the pool; and one call at most is told "fulfilled", the one that   *)
(* logged the yield.                                                       *)
(***************************************************************************)
EXTENDS Integers

CONSTANTS
  Intents,
  Calls,  \* who may handle an intent
  Share,  \* Share[i]: the user's share of the reward for i, served from the pool
  NoRow   \* the settlement of an intent that has none

VARIABLES
  moved,   \* moved[i]: the ways funds have gone for i, of "POOL" and "LIFI"
  settled, \* settled[i]: way and share on record, or NoRow
  yielded, \* yielded[i]: the calls that logged a yield of i
  told     \* told[i]: the calls told that i is fulfilled

bookvars == <<moved, settled, yielded, told>>

BookInit ==
  /\ moved = [i \in Intents |-> {}]
  /\ settled = [i \in Intents |-> NoRow]
  /\ yielded = [i \in Intents |-> {}]
  /\ told = [i \in Intents |-> {}]

Move(i, way) ==
  /\ moved' = [moved EXCEPT ![i] = @ \cup {way}]
  /\ UNCHANGED <<settled, yielded, told>>

Settle(i, way) ==
  /\ settled[i] = NoRow
  /\ way \in moved[i]
  /\ settled' = [settled EXCEPT ![i] =
                   [from |-> way, share |-> IF way = "POOL" THEN Share[i] ELSE 0]]
  /\ UNCHANGED <<moved, yielded>>

Yield(i, c) ==
  /\ settled[i] = [from |-> "POOL", share |-> Share[i]] /\ Share[i] > 0
  /\ yielded[i] = {}
  /\ yielded' = [yielded EXCEPT ![i] = {c}]
  /\ UNCHANGED <<moved, settled, told>>

Tell(i, c) ==
  /\ told[i] = {}
  /\ told' = [told EXCEPT ![i] = {c}]

\* A settlement by LI.FI may be told in the same step.
ViaLifi(i) == Settle(i, "LIFI") /\ (UNCHANGED told \/ \E c \in Calls : Tell(i, c))

ViaPool(i) == Settle(i, "POOL") /\ UNCHANGED told

Answer(i, c) ==
  /\ settled[i] = [from |-> "POOL", share |-> Share[i]]
  /\ Share[i] > 0 => yielded[i] = {c}
  /\ Tell(i, c)
  /\ UNCHANGED <<moved, settled, yielded>>

BookNext ==
  \E i \in Intents :
    \/ \E way \in {"POOL", "LIFI"} : Move(i, way)
    \/ ViaLifi(i) \/ ViaPool(i)
    \/ \E c \in Calls : Yield(i, c) \/ Answer(i, c)

BookSpec == BookInit /\ [][BookNext]_bookvars
=============================================================================

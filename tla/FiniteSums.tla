------------------------------ MODULE FiniteSums ------------------------------
(***************************************************************************)
(* Facts about sums over finite sets, the arithmetic that every ledger     *)
(* invariant of the contracts rests on: a vault is solvent when what it    *)
(* holds covers the SUM of what it owes, and no single contract call looks *)
(* at that sum.                                                            *)
(*                                                                         *)
(* The sum is the community modules' SumFunctionOnSet.  It is a fold, that *)
(* is, a recursive function on the subsets of the index set, so each fact  *)
(* is proved by induction on the cardinality of those subsets.  Induction  *)
(* itself is NatInduct below: a first-order statement about SETS of        *)
(* naturals, derived from the well-foundedness of <.                       *)
(***************************************************************************)
EXTENDS Integers, FiniteSets, Functions, FiniteSetTheorems,
        WellFoundedInduction, TLAPS

(***************************************************************************)
(* Induction over the naturals, stated about a set of naturals instead of  *)
(* a predicate: a set that holds 0 and is closed under successor is Nat.   *)
(***************************************************************************)
THEOREM NatInduct ==
  ASSUME NEW P \in SUBSET Nat, 0 \in P, \A n \in P : n + 1 \in P
  PROVE  P = Nat
<1> DEFINE R == OpToRel(<, Nat)
           T == Nat \ P
<1>1. SUFFICES ASSUME T # {} PROVE FALSE
  OBVIOUS
<1>2. PICK x \in T : \A y \in T : ~ (<<y, x>> \in R)
  <2>1. IsWellFoundedOn(R, Nat)
    BY NatLessThanWellFounded
  <2>2. T \subseteq Nat
    OBVIOUS
  <2> HIDE DEF R, T
  <2> QED
    BY <1>1, <2>1, <2>2, WFMin
<1>3. x \in Nat /\ x # 0 /\ x - 1 \in Nat
  OBVIOUS
<1>4. <<x - 1, x>> \in R
  BY <1>3 DEF OpToRel
<1>5. x - 1 \in P
  BY <1>2, <1>3, <1>4
<1>6. (x - 1) + 1 = x
  BY <1>3
<1> QED
  BY <1>5, <1>6

(***************************************************************************)
(* The element a fold takes next out of a non-empty set.                   *)
(***************************************************************************)
Pick(T) == CHOOSE x \in T : TRUE

(***************************************************************************)
(* s is the table of partial sums of f over the subsets of S that have at  *)
(* most n elements.                                                        *)
(***************************************************************************)
Small(S, n) == {T \in SUBSET S : Cardinality(T) <= n}

IsSumTable(s, f, D) ==
  s = [T \in D |-> IF T = {} THEN 0 ELSE f[Pick(T)] + s[T \ {Pick(T)}]]

(***************************************************************************)
(* Removing the element a fold picks leaves a subset one smaller.          *)
(***************************************************************************)
LEMMA PickShrinks ==
  ASSUME NEW S, IsFiniteSet(S), NEW T \in SUBSET S, T # {}
  PROVE  /\ Pick(T) \in T
         /\ T \ {Pick(T)} \in SUBSET S
         /\ Cardinality(T) \in Nat
         /\ Cardinality(T \ {Pick(T)}) \in Nat
         /\ Cardinality(T) = Cardinality(T \ {Pick(T)}) + 1
<1>1. Pick(T) \in T
  BY DEF Pick
<1>2. IsFiniteSet(T)
  BY FS_Subset
<1>3. IsFiniteSet(T \ {Pick(T)}) /\ Cardinality(T \ {Pick(T)}) = Cardinality(T) - 1
  BY <1>1, <1>2, FS_RemoveElement
<1>4. Cardinality(T) \in Nat /\ Cardinality(T \ {Pick(T)}) \in Nat
  BY <1>2, <1>3, FS_CardinalityType
<1> QED
  BY <1>1, <1>3, <1>4

(***************************************************************************)
(* The only subset without elements is the empty one.                      *)
(***************************************************************************)
LEMMA SmallestIsEmpty ==
  ASSUME NEW S, IsFiniteSet(S)
  PROVE  \A T \in Small(S, 0) : T = {}
<1> TAKE T \in Small(S, 0)
<1>1. IsFiniteSet(T) /\ Cardinality(T) \in Nat /\ Cardinality(T) <= 0
  BY FS_Subset, FS_CardinalityType DEF Small
<1> QED
  BY <1>1, FS_EmptySet

(***************************************************************************)
(* The table of partial sums exists, whatever the finite set is.           *)
(***************************************************************************)
LEMMA SumTableExists ==
  ASSUME NEW S, IsFiniteSet(S), NEW f
  PROVE  \E s : IsSumTable(s, f, SUBSET S)
<1> DEFINE P == {n \in Nat : \E s : IsSumTable(s, f, Small(S, n))}
<1>1. 0 \in P
  <2> DEFINE s == [T \in Small(S, 0) |-> 0]
  <2>1. \A T \in Small(S, 0) : T = {}
    BY SmallestIsEmpty
  <2>2. IsSumTable(s, f, Small(S, 0))
    BY <2>1 DEF IsSumTable
  <2> HIDE DEF s
  <2> QED
    BY <2>2
<1>2. ASSUME NEW n \in P PROVE n + 1 \in P
  <2>0. n \in Nat
    OBVIOUS
  <2>1. PICK s : IsSumTable(s, f, Small(S, n))
    OBVIOUS
  <2> DEFINE t == [T \in Small(S, n + 1) |->
                     IF T = {} THEN 0 ELSE f[Pick(T)] + s[T \ {Pick(T)}]]
  <2>2. \A T \in Small(S, n) : t[T] = s[T]
    <3> TAKE T \in Small(S, n)
    <3>1. Cardinality(T) \in Nat
      BY FS_Subset, FS_CardinalityType DEF Small
    <3>2. T \in Small(S, n + 1)
      BY <2>0, <3>1 DEF Small
    <3> QED
      BY <2>1, <3>2 DEF IsSumTable
  <2>3. \A T \in Small(S, n + 1) : T # {} => T \ {Pick(T)} \in Small(S, n)
    BY <2>0, PickShrinks DEF Small
  <2>4. IsSumTable(t, f, Small(S, n + 1))
    <3>1. \A T \in Small(S, n + 1) :
            t[T] = IF T = {} THEN 0 ELSE f[Pick(T)] + t[T \ {Pick(T)}]
      BY <2>2, <2>3
    <3> QED
      BY <3>1 DEF IsSumTable
  <2> HIDE DEF t
  <2> QED
    BY <2>0, <2>4
<1>3. P = Nat
  <2> HIDE DEF P
  <2>1. P \in SUBSET Nat
    BY DEF P
  <2> QED
    BY <1>1, <1>2, <2>1, NatInduct
<1>4. Cardinality(S) \in Nat
  BY FS_CardinalityType
<1>5. Small(S, Cardinality(S)) = SUBSET S
  BY FS_Subset DEF Small
<1>6. Cardinality(S) \in P
  BY <1>3, <1>4
<1> QED
  BY <1>5, <1>6

(***************************************************************************)
(* What a sum is: nothing over the empty set, and over any other set the   *)
(* picked element's value plus the sum over the rest.                      *)
(***************************************************************************)
LEMMA SumUnfolds ==
  ASSUME NEW S, IsFiniteSet(S), NEW f
  PROVE  \E s : /\ IsSumTable(s, f, SUBSET S)
                /\ SumFunctionOnSet(f, S) = s[S]
<1>1. \E s : IsSumTable(s, f, SUBSET S)
  BY SumTableExists
<1> DEFINE c == CHOOSE s : IsSumTable(s, f, SUBSET S)
<1>2. IsSumTable(c, f, SUBSET S)
  BY <1>1
<1>3. SumFunctionOnSet(f, S) = c[S]
  BY DEF SumFunctionOnSet, FoldFunctionOnSet, MapThenFoldSet, IsSumTable, Pick
<1> QED
  BY <1>2, <1>3

(***************************************************************************)
(* A sum of naturals is a natural, and no term exceeds it.                 *)
(***************************************************************************)
THEOREM SumBoundsTerm ==
  ASSUME NEW S, IsFiniteSet(S), NEW f, \A x \in S : f[x] \in Nat
  PROVE  /\ SumFunctionOnSet(f, S) \in Nat
         /\ \A x \in S : f[x] <= SumFunctionOnSet(f, S)
<1>1. PICK s : /\ IsSumTable(s, f, SUBSET S)
               /\ SumFunctionOnSet(f, S) = s[S]
  BY SumUnfolds
<1> DEFINE Good(T) == s[T] \in Nat /\ \A x \in T : f[x] <= s[T]
           P == {n \in Nat : \A T \in Small(S, n) : Good(T)}
<1>2. 0 \in P
  <2>1. \A T \in Small(S, 0) : T = {}
    BY SmallestIsEmpty
  <2>2. s[{}] = 0
    BY <1>1 DEF IsSumTable
  <2>3. Good({})
    BY <2>2
  <2> HIDE DEF Good
  <2>4. \A T \in Small(S, 0) : Good(T)
    BY <2>1, <2>3
  <2> QED
    BY <2>4
<1>3. ASSUME NEW n \in P PROVE n + 1 \in P
  <2>1. SUFFICES ASSUME NEW T \in Small(S, n + 1) PROVE Good(T)
    OBVIOUS
  <2>2. CASE T = {}
    BY <1>1, <2>2 DEF IsSumTable
  <2>3. CASE T # {}
    <3> DEFINE R == T \ {Pick(T)}
    <3>1. Pick(T) \in T /\ R \in Small(S, n)
      BY <2>3, PickShrinks DEF Small
    <3>2. Good(R)
      BY <3>1
    <3>3. s[T] = f[Pick(T)] + s[R]
      BY <1>1, <2>3 DEF IsSumTable, Small
    <3>4. \A x \in T : f[x] \in Nat
      BY DEF Small
    <3>5. \A x \in T : x = Pick(T) \/ x \in R
      OBVIOUS
    <3> HIDE DEF R
    <3> QED
      BY <3>1, <3>2, <3>3, <3>4, <3>5
  <2> QED
    BY <2>2, <2>3
<1>4. P = Nat
  <2> HIDE DEF P
  <2>1. P \in SUBSET Nat
    BY DEF P
  <2> QED
    BY <1>2, <1>3, <2>1, NatInduct
<1>5. Cardinality(S) \in P /\ S \in Small(S, Cardinality(S))
  BY <1>4, FS_CardinalityType DEF Small
<1> QED
  BY <1>1, <1>5

(***************************************************************************)
(* Changing the value at one index changes the sum by the same amount.     *)
(***************************************************************************)
THEOREM SumUpdate ==
  ASSUME NEW S, IsFiniteSet(S), NEW u \in S,
         NEW f, NEW g, \A x \in S : f[x] \in Int /\ g[x] \in Int,
         \A x \in S : x # u => g[x] = f[x]
  PROVE  /\ SumFunctionOnSet(f, S) \in Int
         /\ SumFunctionOnSet(g, S) = SumFunctionOnSet(f, S) + (g[u] - f[u])
<1>1. PICK s : /\ IsSumTable(s, f, SUBSET S)
               /\ SumFunctionOnSet(f, S) = s[S]
  BY SumUnfolds
<1>2. PICK t : /\ IsSumTable(t, g, SUBSET S)
               /\ SumFunctionOnSet(g, S) = t[S]
  BY SumUnfolds
<1> DEFINE Good(T) == /\ s[T] \in Int
                      /\ u \notin T => t[T] = s[T]
                      /\ u \in T => t[T] = s[T] + (g[u] - f[u])
           P == {n \in Nat : \A T \in Small(S, n) : Good(T)}
<1>3. 0 \in P
  <2>1. \A T \in Small(S, 0) : T = {}
    BY SmallestIsEmpty
  <2>2. s[{}] = 0 /\ t[{}] = 0
    BY <1>1, <1>2 DEF IsSumTable
  <2>3. Good({})
    BY <2>2
  <2> HIDE DEF Good
  <2>4. \A T \in Small(S, 0) : Good(T)
    BY <2>1, <2>3
  <2> QED
    BY <2>4
<1>4. ASSUME NEW n \in P PROVE n + 1 \in P
  <2>1. SUFFICES ASSUME NEW T \in Small(S, n + 1) PROVE Good(T)
    OBVIOUS
  <2>2. CASE T = {}
    BY <1>1, <1>2, <2>2 DEF IsSumTable
  <2>3. CASE T # {}
    <3> DEFINE R == T \ {Pick(T)}
    <3>1. Pick(T) \in T /\ R \in Small(S, n)
      BY <2>3, PickShrinks DEF Small
    <3>2. Good(R)
      BY <3>1
    <3>3. /\ s[T] = f[Pick(T)] + s[R]
          /\ t[T] = g[Pick(T)] + t[R]
      BY <1>1, <1>2, <2>3 DEF IsSumTable, Small
    <3>4. /\ Pick(T) \in S
          /\ f[Pick(T)] \in Int /\ g[Pick(T)] \in Int
          /\ f[u] \in Int /\ g[u] \in Int
      BY <3>1 DEF Small
    <3>5. CASE Pick(T) = u
      <4>1. u \in T /\ u \notin R
        BY <3>1, <3>5
      <4> HIDE DEF R
      <4> QED
        BY <3>2, <3>3, <3>4, <3>5, <4>1
    <3>6. CASE Pick(T) # u
      <4>1. u \in T <=> u \in R
        BY <3>6
      <4>2. g[Pick(T)] = f[Pick(T)]
        BY <3>4, <3>6
      <4> HIDE DEF R
      <4> QED
        BY <3>2, <3>3, <3>4, <4>1, <4>2
    <3> QED
      BY <3>5, <3>6
  <2> QED
    BY <2>2, <2>3
<1>5. P = Nat
  <2> HIDE DEF P
  <2>1. P \in SUBSET Nat
    BY DEF P
  <2> QED
    BY <1>3, <1>4, <2>1, NatInduct
<1>6. Cardinality(S) \in P /\ S \in Small(S, Cardinality(S))
  BY <1>5, FS_CardinalityType DEF Small
<1> QED
  BY <1>1, <1>2, <1>6

(***************************************************************************)
(* A sum looks at the values over its set only.                            *)
(***************************************************************************)
THEOREM SumAgrees ==
  ASSUME NEW S, IsFiniteSet(S), NEW f, NEW g,
         \A x \in S : f[x] \in Int /\ g[x] = f[x]
  PROVE  SumFunctionOnSet(g, S) = SumFunctionOnSet(f, S)
<1>1. CASE S = {}
  <2>1. PICK s : IsSumTable(s, f, SUBSET S) /\ SumFunctionOnSet(f, S) = s[S]
    BY SumUnfolds
  <2>2. PICK t : IsSumTable(t, g, SUBSET S) /\ SumFunctionOnSet(g, S) = t[S]
    BY SumUnfolds
  <2> QED  BY <1>1, <2>1, <2>2 DEF IsSumTable
<1>2. CASE S # {}
  <2>1. PICK u \in S : TRUE
    BY <1>2
  <2>2. /\ SumFunctionOnSet(f, S) \in Int
        /\ SumFunctionOnSet(g, S) = SumFunctionOnSet(f, S) + (g[u] - f[u])
    BY SumUpdate
  <2> QED  BY <2>2
<1> QED  BY <1>1, <1>2

(***************************************************************************)
(* A sum of zeros is zero.                                                 *)
(***************************************************************************)
THEOREM SumOfZeros ==
  ASSUME NEW S, IsFiniteSet(S)
  PROVE  SumFunctionOnSet([x \in S |-> 0], S) = 0
<1> DEFINE f == [x \in S |-> 0]
<1>1. PICK s : /\ IsSumTable(s, f, SUBSET S)
               /\ SumFunctionOnSet(f, S) = s[S]
  BY SumUnfolds
<1> DEFINE P == {n \in Nat : \A T \in Small(S, n) : s[T] = 0}
<1>2. 0 \in P
  BY <1>1, SmallestIsEmpty DEF IsSumTable
<1>3. ASSUME NEW n \in P PROVE n + 1 \in P
  <2>1. SUFFICES ASSUME NEW T \in Small(S, n + 1) PROVE s[T] = 0
    OBVIOUS
  <2>2. CASE T = {}
    BY <1>1, <2>2 DEF IsSumTable
  <2>3. CASE T # {}
    <3>1. Pick(T) \in T /\ T \ {Pick(T)} \in Small(S, n)
      BY <2>3, PickShrinks DEF Small
    <3>2. s[T] = f[Pick(T)] + s[T \ {Pick(T)}]
      BY <1>1, <2>3 DEF IsSumTable, Small
    <3>3. f[Pick(T)] = 0
      BY <3>1 DEF Small
    <3>4. s[T \ {Pick(T)}] = 0
      BY <3>1
    <3> QED
      BY <3>2, <3>3, <3>4
  <2> QED
    BY <2>2, <2>3
<1>4. P = Nat
  <2> HIDE DEF P
  <2>1. P \in SUBSET Nat
    BY DEF P
  <2> QED
    BY <1>2, <1>3, <2>1, NatInduct
<1>5. Cardinality(S) \in P /\ S \in Small(S, Cardinality(S))
  BY <1>4, FS_CardinalityType DEF Small
<1> QED
  BY <1>1, <1>5
=============================================================================

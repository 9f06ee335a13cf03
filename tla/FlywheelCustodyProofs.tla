------------------------- MODULE FlywheelCustodyProofs -------------------------
(***************************************************************************)
(* What MCFlywheelCustody checks on a small instance, proved for any       *)
(* finite set of accounts, any assets, endowments and amounts, and any     *)
(* roles the admin may hand out.                                           *)
(*                                                                         *)
(* The inductive invariant is TypeOK /\ Solvency.  Solvency alone would    *)
(* not be inductive: _debitPrincipal subtracts from the total under        *)
(* `unchecked' after comparing with one user's principal, so the step      *)
(* needs that principal to be a term of the sum that equals the total.     *)
(***************************************************************************)
EXTENDS FlywheelCustody, FiniteSums

-----------------------------------------------------------------------------
(***************************************************************************)
(* There are finitely many addresses.                                      *)
(***************************************************************************)
LEMMA AddressesFinite == IsFiniteSet(Addresses)
<1>1. IsFiniteSet({}) /\ IsFiniteSet({} \cup {LPVault})
  BY FS_EmptySet, FS_AddElement
<1>2. IsFiniteSet(({} \cup {LPVault}) \cup {TreasuryVault})
  BY <1>1, FS_AddElement
<1>3. IsFiniteSet((({} \cup {LPVault}) \cup {TreasuryVault}) \cup {Protocol})
  BY <1>2, FS_AddElement
<1>4. Contracts = (({} \cup {LPVault}) \cup {TreasuryVault}) \cup {Protocol}
  BY DEF Contracts
<1> QED
  BY <1>3, <1>4, FS_Union, AddressesAssumption DEF Addresses

(***************************************************************************)
(* What a token movement does to every balance.                            *)
(***************************************************************************)
Ledgers == [Assets -> [Addresses -> Nat]]

\* A token movement that the payer can afford keeps every balance natural,
\* takes n from the payer and gives n to the payee, and touches no other
\* balance.
LEMMA MovedBalances ==
  ASSUME NEW bal \in Ledgers, NEW a \in Assets,
         NEW from \in Addresses, NEW to \in Addresses,
         NEW n \in Nat, n <= bal[a][from]
  PROVE  /\ Moved(bal, a, from, to, n) \in Ledgers
         /\ \A b \in Assets, h \in Addresses :
              Moved(bal, a, from, to, n)[b][h] =
                bal[b][h] - (IF b = a /\ h = from THEN n ELSE 0)
                          + (IF b = a /\ h = to THEN n ELSE 0)
<1> DEFINE row == [bal[a] EXCEPT ![from] = @ - n, ![to] = @ + n]
<1>1. row \in [Addresses -> Nat]
  BY DEF Ledgers
<1>2. Moved(bal, a, from, to, n) = [bal EXCEPT ![a] = row]
  BY DEF Moved, Ledgers
<1>3. \A h \in Addresses :
        row[h] = bal[a][h] - (IF h = from THEN n ELSE 0)
                           + (IF h = to THEN n ELSE 0)
  <2> DEFINE old == bal[a]
  <2>1. old \in [Addresses -> Nat]
    BY DEF Ledgers
  <2>2. row = [old EXCEPT ![from] = @ - n, ![to] = @ + n]
    OBVIOUS
  <2> HIDE DEF old, row
  <2>3. \A h \in Addresses :
          row[h] = old[h] - (IF h = from THEN n ELSE 0)
                          + (IF h = to THEN n ELSE 0)
    BY <2>1, <2>2
  <2> QED
    BY <2>3 DEF old
<1>4. \A b \in Assets, h \in Addresses : bal[b][h] \in Nat
  BY DEF Ledgers
<1> HIDE DEF row
<1> QED
  BY <1>1, <1>2, <1>3, <1>4 DEF Ledgers

(***************************************************************************)
(* Rewriting one entry of a book changes the sum owed by the difference.   *)
(***************************************************************************)
Books == [Assets -> [Addresses -> Words]]

Rewrites(book, next, a, u, d) ==
  /\ book \in Books
  /\ next \in Books
  /\ a \in Assets
  /\ u \in Addresses
  /\ \A b \in Assets : b # a => next[b] = book[b]
  /\ \A x \in Addresses : x # u => next[a][x] = book[a][x]
  /\ next[a][u] - book[a][u] = d

\* Rewriting one entry of a book changes what is owed in that asset by the
\* change of the entry, and in no other asset.
LEMMA OwedUpdate ==
  ASSUME NEW book, NEW next, NEW a, NEW u, NEW d,
         Rewrites(book, next, a, u, d)
  PROVE  \A b \in Assets :
           Owed(next[b]) = Owed(book[b]) + (IF b = a THEN d ELSE 0)
<1> USE DEF Rewrites, Books
<1> TAKE b \in Assets
<1>1. Words \subseteq Int
  BY AmountsAssumption DEF Words
<1>2. Owed(book[b]) \in Nat
  BY AddressesFinite, SumBoundsTerm, AmountsAssumption DEF Owed, Words
<1>3. CASE b # a
  BY <1>2, <1>3
<1>4. CASE b = a
  <2> DEFINE f == book[a]
             g == next[a]
  <2>1. \A x \in Addresses : f[x] \in Int /\ g[x] \in Int
    BY <1>1
  <2>2. \A x \in Addresses : x # u => g[x] = f[x]
    OBVIOUS
  <2> HIDE DEF f, g
  <2>3. SumFunctionOnSet(g, Addresses) =
          SumFunctionOnSet(f, Addresses) + (g[u] - f[u])
    BY <2>1, <2>2, AddressesFinite, SumUpdate
  <2> QED
    BY <1>4, <2>2, <2>3 DEF Owed, f, g
<1> QED
  BY <1>3, <1>4

(***************************************************************************)
(* A single principal never exceeds the total, nor a reward the sum owed.  *)
(***************************************************************************)
LEMMA OwedBounds ==
  ASSUME NEW book \in [Assets -> [Addresses -> Words]], NEW a \in Assets
  PROVE  /\ Owed(book[a]) \in Nat
         /\ \A u \in Addresses : book[a][u] <= Owed(book[a])
<1>1. book[a] \in [Addresses -> Nat]
  BY AmountsAssumption DEF Words
<1> QED
  BY <1>1, AddressesFinite, SumBoundsTerm DEF Owed

-----------------------------------------------------------------------------
(***************************************************************************)
(* The four facts each transaction establishes: types, the total is still  *)
(* the sum, and no contract's surplus shrank.  They add up to the          *)
(* inductive invariant.                                                    *)
(***************************************************************************)
Inv == TypeOK /\ Solvency

SurplusGrows ==
  \A a \in Assets :
    /\ balance'[a][LPVault] - totalPrincipalByAsset'[a]
         >= balance[a][LPVault] - totalPrincipalByAsset[a]
    /\ balance'[a][TreasuryVault] - treasuryBalance'[a]
         >= balance[a][TreasuryVault] - treasuryBalance[a]
    /\ balance'[a][Protocol] - Owed(pendingRewards'[a])
         >= balance[a][Protocol] - Owed(pendingRewards[a])

Kept == TypeOK' /\ TotalIsSum' /\ SurplusGrows

\* The numbers the surpluses are made of.
LEMMA SurplusArithmetic ==
  ASSUME Inv, NEW a \in Assets
  PROVE  /\ balance[a][LPVault] \in Nat /\ balance[a][TreasuryVault] \in Nat
         /\ balance[a][Protocol] \in Nat
         /\ totalPrincipalByAsset[a] \in Nat /\ treasuryBalance[a] \in Nat
         /\ Owed(pendingRewards[a]) \in Nat
<1>1. Words \subseteq Nat
  BY AmountsAssumption DEF Words
<1>2. {LPVault, TreasuryVault, Protocol} \subseteq Addresses
  BY DEF Addresses, Contracts
<1>3. Owed(pendingRewards[a]) \in Nat
  BY OwedBounds DEF Inv, TypeOK
<1> QED
  BY <1>1, <1>2, <1>3 DEF Inv, TypeOK

\* A step that keeps types, the total and the surpluses keeps the invariant:
\* backing is a surplus that is not negative.
LEMMA KeptSuffices ==
  ASSUME Inv, Kept
  PROVE  Inv'
<1>1. \A a \in Assets : Owed(pendingRewards[a]) \in Nat
  BY OwedBounds DEF Inv, TypeOK
<1>2. \A a \in Assets : Owed(pendingRewards'[a]) \in Nat
  BY OwedBounds DEF Kept, TypeOK
<1>3. Words \subseteq Nat
  BY AmountsAssumption DEF Words
<1>4. Contracts \subseteq Addresses /\ {LPVault, TreasuryVault, Protocol} \subseteq Addresses
  BY DEF Addresses, Contracts
<1>5. \A a \in Assets, h \in Contracts : balance[a][h] \in Nat /\ balance'[a][h] \in Nat
  BY <1>4 DEF Inv, Kept, TypeOK
<1>6. \A a \in Assets : /\ totalPrincipalByAsset[a] \in Nat /\ totalPrincipalByAsset'[a] \in Nat
                        /\ treasuryBalance[a] \in Nat /\ treasuryBalance'[a] \in Nat
  BY <1>3 DEF Inv, Kept, TypeOK
<1>7. VaultBacked' /\ TreasuryBacked' /\ RewardsBacked'
  BY <1>1, <1>2, <1>5, <1>6
     DEF Inv, Kept, Solvency, SurplusGrows, VaultBacked, TreasuryBacked,
         RewardsBacked, Contracts
<1> QED
  BY <1>7 DEF Inv, Kept, Solvency

(***************************************************************************)
(* Booking an amount d (negative for a debit) on one principal and on the  *)
(* total keeps the total equal to the sum.                                 *)
(***************************************************************************)
Booked(a, u, d) ==
  /\ principalOf[a][u] + d \in Words
  /\ totalPrincipalByAsset[a] + d \in Words
  /\ principalOf' = [principalOf EXCEPT ![a][u] = principalOf[a][u] + d]
  /\ totalPrincipalByAsset' =
       [totalPrincipalByAsset EXCEPT ![a] = totalPrincipalByAsset[a] + d]

\* Booking a change of one principal and of the total together keeps the total
\* the sum of the principals.
LEMMA BookedKeepsTotal ==
  ASSUME Inv, NEW a \in Assets, NEW u \in Addresses, NEW d \in Int, Booked(a, u, d)
  PROVE  /\ principalOf' \in Books
         /\ totalPrincipalByAsset' \in [Assets -> Words]
         /\ TotalIsSum'
         /\ \A b \in Assets :
              totalPrincipalByAsset'[b] =
                totalPrincipalByAsset[b] + (IF b = a THEN d ELSE 0)
<1>1. /\ principalOf \in Books
      /\ totalPrincipalByAsset \in [Assets -> Words]
      /\ Words \subseteq Int
  BY AmountsAssumption DEF Inv, TypeOK, Books, Words
<1>2. principalOf' \in Books /\ totalPrincipalByAsset' \in [Assets -> Words]
  BY <1>1 DEF Booked, Books
<1>3. \A b \in Assets :
        totalPrincipalByAsset'[b] =
          totalPrincipalByAsset[b] + (IF b = a THEN d ELSE 0)
  BY <1>1 DEF Booked
<1>4. \A b \in Assets :
        Owed(principalOf'[b]) = Owed(principalOf[b]) + (IF b = a THEN d ELSE 0)
  <2>1. principalOf[a][u] \in Int
    BY <1>1 DEF Books
  <2>2. Rewrites(principalOf, principalOf', a, u, d)
    BY <1>1, <1>2, <2>1 DEF Rewrites, Books, Booked
  <2> QED
    BY <2>2, OwedUpdate
<1>5. TotalIsSum'
  BY <1>3, <1>4 DEF Inv, Solvency, TotalIsSum
<1> QED
  BY <1>2, <1>3, <1>5

(***************************************************************************)
(* Deposits: what PullPrincipal leaves behind, whoever the payer is.       *)
(***************************************************************************)
LEMMA PullKeeps ==
  ASSUME Inv, NEW payer \in Accounts, NEW a \in Assets, NEW n \in Words,
         NEW receiver \in Addresses,
         PullPrincipal(payer, a, n, receiver),
         UNCHANGED <<approvals, treasuryBalance, pendingRewards, roles>>,
         msgSender' \in Accounts
  PROVE  Kept
<1>1. /\ n \in Nat /\ payer \in Addresses /\ LPVault \in Addresses
      /\ payer # LPVault /\ payer # TreasuryVault /\ payer # Protocol
  BY AmountsAssumption, AddressesAssumption DEF Words, Addresses, Contracts
<1>2. /\ balance' \in Ledgers
      /\ \A b \in Assets, h \in Addresses :
           balance'[b][h] = balance[b][h]
                             - (IF b = a /\ h = payer THEN n ELSE 0)
                             + (IF b = a /\ h = LPVault THEN n ELSE 0)
  <2>1. balance \in Ledgers /\ n <= balance[a][payer]
    BY <1>1 DEF Inv, TypeOK, Ledgers, PullPrincipal
  <2> QED
    BY <1>1, <2>1, MovedBalances DEF PullPrincipal
<1>3. Booked(a, receiver, n)
  BY <1>1, AmountsAssumption DEF Inv, TypeOK, PullPrincipal, Words, Booked
<1>4. /\ principalOf' \in Books
      /\ totalPrincipalByAsset' \in [Assets -> Words]
      /\ TotalIsSum'
      /\ \A b \in Assets :
           totalPrincipalByAsset'[b] =
             totalPrincipalByAsset[b] + (IF b = a THEN n ELSE 0)
  BY <1>1, <1>3, BookedKeepsTotal
<1>5. TypeOK'
  BY <1>2, <1>4 DEF Inv, TypeOK, roles, Books, Ledgers
<1>6. SurplusGrows
  <2>1. \A b \in Assets :
          /\ balance'[b][LPVault] = balance[b][LPVault] + (IF b = a THEN n ELSE 0)
          /\ balance'[b][TreasuryVault] = balance[b][TreasuryVault]
          /\ balance'[b][Protocol] = balance[b][Protocol]
    BY <1>1, <1>2, AddressesAssumption DEF Inv, TypeOK, Addresses, Contracts
  <2> QED
    BY <1>1, <1>4, <2>1, SurplusArithmetic DEF SurplusGrows
<1> QED
  BY <1>4, <1>5, <1>6 DEF Kept

(***************************************************************************)
(* Withdrawals from LPVault: the principal debited is a term of the sum    *)
(* the total equals, so neither unchecked subtraction wraps.               *)
(***************************************************************************)
LEMMA DebitBooks ==
  ASSUME Inv, NEW u \in Addresses, NEW a \in Assets, NEW n \in Nat,
         DebitPrincipal(u, a, n)
  PROVE  Booked(a, u, 0 - n)
<1>1. /\ principalOf[a][u] \in Words /\ totalPrincipalByAsset[a] \in Words
      /\ principalOf \in [Assets -> [Addresses -> Words]]
      /\ totalPrincipalByAsset \in [Assets -> Words]
  BY DEF Inv, TypeOK
<1>2. principalOf[a][u] <= totalPrincipalByAsset[a]
  BY <1>1, OwedBounds DEF Inv, Solvency, TotalIsSum
<1>3. n <= principalOf[a][u] /\ n <= totalPrincipalByAsset[a]
  BY <1>1, <1>2, AmountsAssumption DEF DebitPrincipal, Words
<1>4. /\ UncheckedSub(principalOf[a][u], n) = principalOf[a][u] + (0 - n)
      /\ UncheckedSub(totalPrincipalByAsset[a], n) = totalPrincipalByAsset[a] + (0 - n)
      /\ principalOf[a][u] + (0 - n) \in Words
      /\ totalPrincipalByAsset[a] + (0 - n) \in Words
  BY <1>1, <1>3, AmountsAssumption DEF UncheckedSub, Words
<1> QED
  BY <1>1, <1>4 DEF DebitPrincipal, Booked

\* LPVault pays out what it writes off: the step of withdraw and withdrawFor.
LEMMA DebitKeeps ==
  ASSUME Inv, NEW u \in Addresses, NEW a \in Assets, NEW n \in Nat,
         NEW to \in Addresses,
         DebitPrincipal(u, a, n),
         balance[a][LPVault] >= n,
         balance' = Moved(balance, a, LPVault, to, n),
         UNCHANGED <<approvals, treasuryBalance, pendingRewards, roles>>,
         msgSender' \in Accounts
  PROVE  Kept
<1>1. {LPVault, TreasuryVault, Protocol} \subseteq Addresses
  BY DEF Addresses, Contracts
<1>2. /\ balance' \in Ledgers
      /\ \A b \in Assets, h \in Addresses :
           balance'[b][h] = balance[b][h]
                             - (IF b = a /\ h = LPVault THEN n ELSE 0)
                             + (IF b = a /\ h = to THEN n ELSE 0)
  <2>1. balance \in Ledgers /\ n <= balance[a][LPVault]
    BY <1>1 DEF Inv, TypeOK, Ledgers
  <2> QED
    BY <1>1, <2>1, MovedBalances
<1>3. /\ principalOf' \in Books
      /\ totalPrincipalByAsset' \in [Assets -> Words]
      /\ TotalIsSum'
      /\ \A b \in Assets :
           totalPrincipalByAsset'[b] =
             totalPrincipalByAsset[b] + (IF b = a THEN 0 - n ELSE 0)
  BY DebitBooks, BookedKeepsTotal
<1>4. TypeOK'
  BY <1>2, <1>3 DEF Inv, TypeOK, roles, Books, Ledgers
<1>5. SurplusGrows
  <2>1. \A b \in Assets :
          /\ balance'[b][LPVault] >= balance[b][LPVault] - (IF b = a THEN n ELSE 0)
          /\ balance'[b][TreasuryVault] >= balance[b][TreasuryVault]
          /\ balance'[b][Protocol] >= balance[b][Protocol]
    BY <1>1, <1>2, SurplusArithmetic, AddressesAssumption
  <2>2. \A b \in Assets : balance'[b][LPVault] \in Nat
                       /\ balance'[b][TreasuryVault] \in Nat
                       /\ balance'[b][Protocol] \in Nat
    BY <1>1, <1>2 DEF Ledgers
  <2> QED
    BY <1>3, <2>1, <2>2, SurplusArithmetic DEF SurplusGrows
<1> QED
  BY <1>3, <1>4, <1>5 DEF Kept

(***************************************************************************)
(* Treasury movements: whatever is credited comes in, whatever is written  *)
(* off goes out.  d is the change of the treasury's book, and the caller   *)
(* shows that the vault's tokens grow by at least d.                       *)
(***************************************************************************)
TreasuryMoves(a, d) ==
  /\ treasuryBalance[a] + d \in Words
  /\ treasuryBalance' = [treasuryBalance EXCEPT ![a] = treasuryBalance[a] + d]
  /\ balance' \in Ledgers
  /\ \A b \in Assets :
       /\ balance'[b][LPVault] >= balance[b][LPVault]
       /\ balance'[b][TreasuryVault]
            >= balance[b][TreasuryVault] + (IF b = a THEN d ELSE 0)
       /\ balance'[b][Protocol] >= balance[b][Protocol]
  /\ UNCHANGED <<approvals, vault, pendingRewards, roles>>
  /\ msgSender' \in Accounts

\* A treasury movement that is booked for no more than what moved.
LEMMA TreasuryKeeps ==
  ASSUME Inv, NEW a \in Assets, NEW d \in Int, TreasuryMoves(a, d)
  PROVE  Kept
<1>1. /\ treasuryBalance' \in [Assets -> Words]
      /\ \A b \in Assets :
           treasuryBalance'[b] = treasuryBalance[b] + (IF b = a THEN d ELSE 0)
  <2>1. treasuryBalance \in [Assets -> Words] /\ Words \subseteq Int
    BY AmountsAssumption DEF Inv, TypeOK, Words
  <2>2. /\ treasuryBalance[a] + d \in Words
        /\ treasuryBalance' = [treasuryBalance EXCEPT ![a] = treasuryBalance[a] + d]
    BY DEF TreasuryMoves
  <2>3. treasuryBalance' \in [Assets -> Words]
    BY <2>1, <2>2
  <2>4. \A b \in Assets : b # a => treasuryBalance'[b] = treasuryBalance[b]
    BY <2>1, <2>2
  <2>5. treasuryBalance'[a] = treasuryBalance[a] + d
    BY <2>1, <2>2
  <2>6. \A b \in Assets : treasuryBalance[b] \in Int
    BY <2>1
  <2> QED
    BY <2>3, <2>4, <2>5, <2>6
<1>2. TypeOK'
  BY <1>1 DEF Inv, TypeOK, vault, roles, Ledgers, TreasuryMoves
<1>3. TotalIsSum'
  BY DEF Inv, Solvency, TotalIsSum, vault, TreasuryMoves
<1>4. {LPVault, TreasuryVault, Protocol} \subseteq Addresses
  BY DEF Addresses, Contracts
<1>5. SurplusGrows
  <2>1. \A b \in Assets : /\ balance'[b][LPVault] \in Nat
                          /\ balance'[b][TreasuryVault] \in Nat
                          /\ balance'[b][Protocol] \in Nat
    BY <1>4 DEF Ledgers, TreasuryMoves
  <2> QED
    BY <1>1, <2>1, SurplusArithmetic DEF SurplusGrows, vault, TreasuryMoves
<1> QED
  BY <1>2, <1>3, <1>5 DEF Kept

\* An account's tokens, moved to any address.
LEMMA AccountMoves ==
  ASSUME Inv, NEW s \in Accounts, NEW a \in Assets, NEW n \in Nat,
         NEW to \in Addresses, balance[a][s] >= n,
         NEW bal, bal = Moved(balance, a, s, to, n)
  PROVE  /\ bal \in Ledgers
         /\ \A b \in Assets, h \in Contracts :
              bal[b][h] = balance[b][h] + (IF b = a /\ h = to THEN n ELSE 0)
<1>1. /\ balance \in Ledgers /\ s \in Addresses /\ n <= balance[a][s]
      /\ \A b \in Assets, h \in Addresses : balance[b][h] \in Nat
  BY DEF Inv, TypeOK, Ledgers, Addresses
<1>2. /\ bal \in Ledgers
      /\ \A b \in Assets, h \in Addresses :
           bal[b][h] = balance[b][h] - (IF b = a /\ h = s THEN n ELSE 0)
                                     + (IF b = a /\ h = to THEN n ELSE 0)
  BY <1>1, MovedBalances
<1>3. s \notin Contracts /\ Contracts \subseteq Addresses
  BY AddressesAssumption DEF Addresses
<1> QED
  BY <1>1, <1>2, <1>3

\* TreasuryVault.creditTreasury, called by a distributor.
LEMMA CreditTreasuryKeeps ==
  ASSUME Inv, NEW s \in Accounts, NEW a \in Assets, NEW n \in Words,
         CreditTreasury(s, a, n)
  PROVE  Kept
<1>1. n \in Nat /\ TreasuryVault \in Addresses
  BY AmountsAssumption DEF Words, Addresses, Contracts
<1>2. /\ balance' \in Ledgers
      /\ \A b \in Assets, h \in Contracts :
           balance'[b][h] = balance[b][h]
             + (IF b = a /\ h = TreasuryVault THEN n ELSE 0)
  BY <1>1, AccountMoves DEF CreditTreasury
<1>3. \A b \in Assets :
        /\ balance'[b][LPVault] >= balance[b][LPVault]
        /\ balance'[b][TreasuryVault]
             >= balance[b][TreasuryVault] + (IF b = a THEN n ELSE 0)
        /\ balance'[b][Protocol] >= balance[b][Protocol]
  BY <1>1, <1>2, SurplusArithmetic, AddressesAssumption DEF Contracts
<1>4. treasuryBalance[a] + n \in Words
  BY <1>1, AmountsAssumption DEF CreditTreasury, Inv, TypeOK, Words
<1>5. TreasuryMoves(a, n)
  BY <1>2, <1>3, <1>4 DEF CreditTreasury, TreasuryMoves, Inv, TypeOK
<1> QED
  BY <1>1, <1>5, TreasuryKeeps

(***************************************************************************)
(* Through the facade the tokens take two hops; the facade ends up with    *)
(* what it does not pass on.                                               *)
(***************************************************************************)
LEMMA TwoHops ==
  ASSUME Inv, NEW s \in Accounts, NEW a \in Assets, NEW n \in Nat,
         NEW m \in Nat, m <= n, balance[a][s] >= n,
         balance' = Moved(Moved(balance, a, s, Protocol, n),
                          a, Protocol, TreasuryVault, m)
  PROVE  /\ balance' \in Ledgers
         /\ \A b \in Assets :
              /\ balance'[b][LPVault] = balance[b][LPVault]
              /\ balance'[b][TreasuryVault] =
                   balance[b][TreasuryVault] + (IF b = a THEN m ELSE 0)
              /\ balance'[b][Protocol] =
                   balance[b][Protocol] + (IF b = a THEN n - m ELSE 0)
<1>1. /\ {LPVault, TreasuryVault, Protocol} \subseteq Addresses
      /\ Contracts = {LPVault, TreasuryVault, Protocol}
  BY DEF Addresses, Contracts
<1> DEFINE mid == Moved(balance, a, s, Protocol, n)
<1>2. /\ mid \in Ledgers
      /\ \A b \in Assets, h \in Contracts :
           mid[b][h] = balance[b][h] + (IF b = a /\ h = Protocol THEN n ELSE 0)
  BY <1>1, AccountMoves
<1>3. balance' = Moved(mid, a, Protocol, TreasuryVault, m)
  OBVIOUS
<1> HIDE DEF mid
<1>4. m <= mid[a][Protocol]
  BY <1>1, <1>2, SurplusArithmetic
<1>5. /\ balance' \in Ledgers
      /\ \A b \in Assets, h \in Addresses :
           balance'[b][h] = mid[b][h] - (IF b = a /\ h = Protocol THEN m ELSE 0)
                                      + (IF b = a /\ h = TreasuryVault THEN m ELSE 0)
  BY <1>1, <1>2, <1>3, <1>4, MovedBalances
<1> QED
  BY <1>1, <1>2, <1>5, SurplusArithmetic, AddressesAssumption

\* FlywheelProtocol.creditTreasury: the tokens pass through the facade.
LEMMA ProtocolCreditTreasuryKeeps ==
  ASSUME Inv, NEW s \in Accounts, NEW a \in Assets, NEW n \in Words,
         ProtocolCreditTreasury(s, a, n)
  PROVE  Kept
<1>1. n \in Nat /\ n <= n /\ balance[a][s] >= n
  BY AmountsAssumption DEF Words, ProtocolCreditTreasury
<1>2. /\ balance' \in Ledgers
      /\ \A b \in Assets :
              /\ balance'[b][LPVault] = balance[b][LPVault]
              /\ balance'[b][TreasuryVault] =
                   balance[b][TreasuryVault] + (IF b = a THEN n ELSE 0)
              /\ balance'[b][Protocol] =
                   balance[b][Protocol] + (IF b = a THEN n - n ELSE 0)
  BY <1>1, TwoHops DEF ProtocolCreditTreasury
<1>3. \A b \in Assets :
        /\ balance'[b][LPVault] >= balance[b][LPVault]
        /\ balance'[b][TreasuryVault]
             >= balance[b][TreasuryVault] + (IF b = a THEN n ELSE 0)
        /\ balance'[b][Protocol] >= balance[b][Protocol]
  BY <1>1, <1>2, SurplusArithmetic
<1>4. treasuryBalance[a] + n \in Words
  BY <1>1, AmountsAssumption DEF ProtocolCreditTreasury, Inv, TypeOK, Words
<1>5. TreasuryMoves(a, n)
  BY <1>2, <1>3, <1>4 DEF ProtocolCreditTreasury, TreasuryMoves, Inv, TypeOK
<1> QED
  BY <1>1, <1>5, TreasuryKeeps

\* TreasuryVault.withdrawTreasury, called by an admin or by the facade.
LEMMA PayFromTreasuryKeeps ==
  ASSUME Inv, NEW a \in Assets, NEW n \in Words, NEW to \in Addresses,
         PayFromTreasury(a, n, to),
         UNCHANGED <<approvals, vault, pendingRewards, roles>>,
         msgSender' \in Accounts
  PROVE  Kept
<1>1. n \in Nat /\ {LPVault, TreasuryVault, Protocol} \subseteq Addresses
  BY AmountsAssumption DEF Words, Addresses, Contracts
<1>2. /\ balance' \in Ledgers
      /\ \A b \in Assets, h \in Addresses :
           balance'[b][h] = balance[b][h]
             - (IF b = a /\ h = TreasuryVault THEN n ELSE 0)
             + (IF b = a /\ h = to THEN n ELSE 0)
  <2>1. balance \in Ledgers /\ n <= balance[a][TreasuryVault]
    BY <1>1 DEF Inv, TypeOK, Ledgers, PayFromTreasury
  <2> QED
    BY <1>1, <2>1, MovedBalances DEF PayFromTreasury
<1>3. \A b \in Assets :
        /\ balance'[b][LPVault] >= balance[b][LPVault]
        /\ balance'[b][TreasuryVault]
             >= balance[b][TreasuryVault] + (IF b = a THEN 0 - n ELSE 0)
        /\ balance'[b][Protocol] >= balance[b][Protocol]
  BY <1>1, <1>2, SurplusArithmetic, AddressesAssumption
<1>4. /\ treasuryBalance[a] + (0 - n) \in Words
      /\ UncheckedSub(treasuryBalance[a], n) = treasuryBalance[a] + (0 - n)
  BY <1>1, AmountsAssumption DEF PayFromTreasury, Inv, TypeOK, Words, UncheckedSub
<1>5. treasuryBalance' = [treasuryBalance EXCEPT ![a] = treasuryBalance[a] + (0 - n)]
  BY <1>4 DEF PayFromTreasury, Inv, TypeOK
<1>6. 0 - n \in Int
  BY <1>1
<1>7. TreasuryMoves(a, 0 - n)
  BY <1>2, <1>3, <1>4, <1>5 DEF TreasuryMoves
<1> QED
  BY <1>6, <1>7, TreasuryKeeps

-----------------------------------------------------------------------------
(***************************************************************************)
(* Rewards: the pending reward grows by the user share, which is what the  *)
(* facade keeps of the tokens it pulled.                                   *)
(***************************************************************************)
LEMMA SharesAddUp ==
  ASSUME NEW n \in Nat
  PROVE  /\ UserShare(n) \in Nat /\ TreasuryShare(n) \in Nat
         /\ UserShare(n) + TreasuryShare(n) = n
         /\ TreasuryShare(n) - UserShare(n) \in {0, 1}
BY DEF UserShare, TreasuryShare

\* FlywheelProtocol.registerRewards: the shares booked are the tokens pulled,
\* each at the contract that owes it.
LEMMA RegisterRewardsKeeps ==
  ASSUME Inv, NEW s \in Accounts, NEW u \in Addresses, NEW a \in Assets,
         NEW n \in Words, RegisterRewards(s, u, a, n)
  PROVE  Kept
<1> DEFINE us == UserShare(n)
           ts == TreasuryShare(n)
<1>1. n \in Nat /\ us \in Nat /\ ts \in Nat /\ us + ts = n
  BY AmountsAssumption, SharesAddUp DEF Words
<1>2. /\ balance[a][s] >= n
      /\ balance' = Moved(Moved(balance, a, s, Protocol, n),
                          a, Protocol, TreasuryVault, ts)
      /\ ts > 0 => treasuryBalance[a] + ts < Word
      /\ pendingRewards[a][u] + us < Word
      /\ treasuryBalance' = [treasuryBalance EXCEPT ![a] = @ + ts]
      /\ pendingRewards' = [pendingRewards EXCEPT ![a][u] = @ + us]
      /\ msgSender' = s
      /\ UNCHANGED <<approvals, vault, roles>>
  BY DEF RegisterRewards
<1> HIDE DEF us, ts
<1>3. ts <= n
  BY <1>1
<1>4. /\ balance' \in Ledgers
      /\ \A b \in Assets :
              /\ balance'[b][LPVault] = balance[b][LPVault]
              /\ balance'[b][TreasuryVault] =
                   balance[b][TreasuryVault] + (IF b = a THEN ts ELSE 0)
              /\ balance'[b][Protocol] =
                   balance[b][Protocol] + (IF b = a THEN n - ts ELSE 0)
  BY <1>1, <1>2, <1>3, TwoHops
<1>5. /\ pendingRewards \in Books
      /\ treasuryBalance \in [Assets -> Words]
      /\ Words \subseteq Int
      /\ pendingRewards[a][u] \in Int
  BY AmountsAssumption DEF Inv, TypeOK, Books, Words
<1>6. /\ pendingRewards' \in Books
      /\ \A b \in Assets :
           Owed(pendingRewards'[b]) = Owed(pendingRewards[b]) + (IF b = a THEN us ELSE 0)
  <2>1. pendingRewards[a][u] + us \in Words
    BY <1>1, <1>2, <1>5, AmountsAssumption DEF Words, Books
  <2>2. pendingRewards' \in Books
    BY <1>2, <1>5, <2>1 DEF Books
  <2>3. Rewrites(pendingRewards, pendingRewards', a, u, us)
    BY <1>1, <1>2, <1>5, <2>2 DEF Rewrites, Books
  <2> QED
    BY <2>2, <2>3, OwedUpdate
<1>7. /\ treasuryBalance' \in [Assets -> Words]
      /\ \A b \in Assets :
           treasuryBalance'[b] = treasuryBalance[b] + (IF b = a THEN ts ELSE 0)
  <2>1. treasuryBalance[a] + ts \in Words
    BY <1>1, <1>2, <1>5, AmountsAssumption DEF Words
  <2>2. treasuryBalance' = [treasuryBalance EXCEPT ![a] = treasuryBalance[a] + ts]
    BY <1>2, <1>5
  <2> HIDE DEF Words
  <2>3. \A b \in Assets : treasuryBalance[b] \in Int
    BY <1>5
  <2>4. treasuryBalance' \in [Assets -> Words] /\ treasuryBalance'[a] = treasuryBalance[a] + ts
    BY <1>5, <2>1, <2>2
  <2>5. \A b \in Assets : b # a => treasuryBalance'[b] = treasuryBalance[b]
    BY <1>5, <2>2
  <2> QED
    BY <2>3, <2>4, <2>5
<1>8. TypeOK'
  BY <1>2, <1>4, <1>6, <1>7 DEF Inv, TypeOK, vault, roles, Books, Ledgers
<1>9. TotalIsSum'
  BY <1>2 DEF Inv, Solvency, TotalIsSum, vault
<1>10. SurplusGrows
  <2>1. n - ts = us
    BY <1>1
  <2> QED
    BY <1>1, <1>2, <1>4, <1>6, <1>7, <2>1, SurplusArithmetic DEF SurplusGrows, vault
<1> QED
  BY <1>8, <1>9, <1>10 DEF Kept

(***************************************************************************)
(* Withdrawal through the facade: principal out of LPVault, then the whole *)
(* pending reward out of the facade, both to one recipient, which may be a *)
(* contract.                                                               *)
(***************************************************************************)
LEMMA ProtocolWithdrawKeeps ==
  ASSUME Inv, NEW s \in Accounts, NEW a \in Assets, NEW n \in Nat,
         NEW to \in Addresses, ProtocolWithdraw(s, a, n, to)
  PROVE  Kept
<1> DEFINE reward == pendingRewards[a][s]
           paid == Moved(balance, a, LPVault, to, n)
<1>1. /\ \/ DebitPrincipal(s, a, n) /\ balance[a][LPVault] >= n
         \/ n = 0 /\ UNCHANGED vault
      /\ paid[a][Protocol] >= reward
      /\ balance' = Moved(paid, a, Protocol, to, reward)
      /\ pendingRewards' = [pendingRewards EXCEPT ![a][s] = 0]
      /\ msgSender' = s
      /\ UNCHANGED <<approvals, treasuryBalance, roles>>
  BY DEF ProtocolWithdraw
<1>2. /\ {LPVault, TreasuryVault, Protocol} \subseteq Addresses
      /\ s \in Addresses
      /\ balance \in Ledgers /\ balance[a][LPVault] >= n
      /\ pendingRewards \in Books /\ Words \subseteq Nat /\ 0 \in Words
      /\ reward \in Nat
  <2>1. {LPVault, TreasuryVault, Protocol} \subseteq Addresses /\ s \in Addresses
    BY DEF Addresses, Contracts
  <2>2. /\ balance \in Ledgers /\ pendingRewards \in Books
        /\ Words \subseteq Nat /\ 0 \in Words
    BY AmountsAssumption DEF Inv, TypeOK, Ledgers, Books, Words
  <2>3. balance[a][LPVault] >= n
    BY <1>1, SurplusArithmetic
  <2> QED
    BY <2>1, <2>2, <2>3 DEF Books
<1>3. /\ paid \in Ledgers
      /\ \A b \in Assets, h \in Addresses :
           paid[b][h] = balance[b][h] - (IF b = a /\ h = LPVault THEN n ELSE 0)
                                      + (IF b = a /\ h = to THEN n ELSE 0)
  <2>1. n <= balance[a][LPVault]
    BY <1>2, SurplusArithmetic
  <2> QED
    BY <1>2, <2>1, MovedBalances
<1> HIDE DEF paid, reward
<1>4. /\ balance' \in Ledgers
      /\ \A b \in Assets, h \in Addresses :
           balance'[b][h] = paid[b][h] - (IF b = a /\ h = Protocol THEN reward ELSE 0)
                                       + (IF b = a /\ h = to THEN reward ELSE 0)
  <2>1. reward <= paid[a][Protocol]
    BY <1>1, <1>2, <1>3 DEF Ledgers
  <2> QED
    BY <1>1, <1>2, <1>3, <2>1, MovedBalances
<1>5. /\ pendingRewards' \in Books
      /\ \A b \in Assets :
           Owed(pendingRewards'[b])
             = Owed(pendingRewards[b]) + (IF b = a THEN 0 - reward ELSE 0)
  <2>1. pendingRewards' \in Books
    BY <1>1, <1>2 DEF Books
  <2>2. Rewrites(pendingRewards, pendingRewards', a, s, 0 - reward)
    BY <1>1, <1>2, <2>1 DEF Rewrites, Books, reward
  <2> QED
    BY <2>1, <2>2, OwedUpdate
<1>6. /\ principalOf' \in Books
      /\ totalPrincipalByAsset' \in [Assets -> Words]
      /\ TotalIsSum'
      /\ \A b \in Assets :
           totalPrincipalByAsset'[b] =
             totalPrincipalByAsset[b] + (IF b = a THEN 0 - n ELSE 0)
  <2>1. CASE DebitPrincipal(s, a, n)
    BY <1>2, <2>1, DebitBooks, BookedKeepsTotal
  <2>2. CASE n = 0 /\ UNCHANGED vault
    <3>1. \A b \in Assets : totalPrincipalByAsset[b] \in Nat
      BY SurplusArithmetic
    <3>2. /\ principalOf \in Books
          /\ totalPrincipalByAsset \in [Assets -> Words]
          /\ TotalIsSum
      BY DEF Inv, TypeOK, Solvency, Books
    <3> QED
      BY <2>2, <3>1, <3>2 DEF vault, TotalIsSum
  <2> QED
    BY <1>1, <2>1, <2>2
<1>7. TypeOK'
  BY <1>1, <1>4, <1>5, <1>6 DEF Inv, TypeOK, roles, Books, Ledgers
<1>8. SurplusGrows
  <2>1. \A b \in Assets :
          /\ balance'[b][LPVault] >= balance[b][LPVault] - (IF b = a THEN n ELSE 0)
          /\ balance'[b][TreasuryVault] >= balance[b][TreasuryVault]
          /\ balance'[b][Protocol] >= balance[b][Protocol] - (IF b = a THEN reward ELSE 0)
          /\ balance'[b][LPVault] \in Nat
          /\ balance'[b][TreasuryVault] \in Nat
          /\ balance'[b][Protocol] \in Nat
    <3> TAKE b \in Assets
    <3>1. /\ balance'[b][LPVault] \in Nat /\ paid[b][LPVault] \in Nat
          /\ balance'[b][TreasuryVault] \in Nat /\ paid[b][TreasuryVault] \in Nat
          /\ balance'[b][Protocol] \in Nat /\ paid[b][Protocol] \in Nat
      BY <1>2, <1>3, <1>4 DEF Ledgers
    <3>2. /\ paid[b][LPVault] >= balance[b][LPVault] - (IF b = a THEN n ELSE 0)
          /\ paid[b][TreasuryVault] >= balance[b][TreasuryVault]
          /\ paid[b][Protocol] >= balance[b][Protocol]
      BY <1>2, <1>3, SurplusArithmetic, AddressesAssumption
    <3>3. /\ balance'[b][LPVault] >= paid[b][LPVault]
          /\ balance'[b][TreasuryVault] >= paid[b][TreasuryVault]
          /\ balance'[b][Protocol] >= paid[b][Protocol] - (IF b = a THEN reward ELSE 0)
      BY <1>2, <1>4, <3>1, AddressesAssumption
    <3> QED
      BY <1>2, <3>1, <3>2, <3>3, SurplusArithmetic
  <2>2. \A b \in Assets : treasuryBalance'[b] = treasuryBalance[b]
    BY <1>1
  <2> QED
    BY <1>2, <1>5, <1>6, <2>1, <2>2, SurplusArithmetic DEF SurplusGrows
<1> QED
  BY <1>6, <1>7, <1>8 DEF Kept

-----------------------------------------------------------------------------
(***************************************************************************)
(* The invariant holds at deployment: every book is empty.                 *)
(***************************************************************************)
LEMMA InitInv == Init => Inv
<1> SUFFICES ASSUME Init PROVE Inv
  OBVIOUS
<1>1. 0 \in Words
  BY AmountsAssumption DEF Words
<1>2. TypeOK
  <2>1. balance \in [Assets -> [Addresses -> Nat]]
    BY AmountsAssumption DEF Init
  <2>2. {Admin, Operator} \subseteq Accounts /\ Protocol \in Addresses
    BY AddressesAssumption DEF Addresses, Contracts
  <2> QED
    BY <1>1, <2>1, <2>2 DEF Init, TypeOK
<1>3. \A a \in Assets : /\ Owed(principalOf[a]) = 0
                        /\ Owed(pendingRewards[a]) = 0
  BY AddressesFinite, SumOfZeros DEF Init, Owed
<1>4. Solvency
  <2>1. {LPVault, TreasuryVault, Protocol} \subseteq Addresses
    BY DEF Addresses, Contracts
  <2>2. \A a \in Assets : /\ balance[a][LPVault] \in Nat
                          /\ balance[a][TreasuryVault] \in Nat
                          /\ balance[a][Protocol] \in Nat
    BY <1>2, <2>1 DEF TypeOK
  <2> QED
    BY <1>3, <2>2 DEF Init, Solvency, TotalIsSum, VaultBacked, TreasuryBacked,
                      RewardsBacked
<1> QED
  BY <1>2, <1>4 DEF Inv

(***************************************************************************)
(* Every transaction, whoever sends it, keeps the books: one case per      *)
(* entry point.                                                            *)
(***************************************************************************)
LEMMA NextKeeps ==
  ASSUME Inv, NEW s \in Accounts,
         MoveTokens(s) \/ CreditOrClose(s) \/ RouteForUser(s) \/ Administer(s)
  PROVE  Kept
<1>1. Amounts \subseteq Words /\ Words \subseteq Nat
  BY AmountsAssumption DEF Words
<1>2. CASE MoveTokens(s)
  <2>1. PICK a \in Assets, n \in Words, to \in Addresses :
          \/ TokenTransfer(s, a, n, to)
          \/ Deposit(s, a, n, to)
          \/ DelegateToPool(s, a, n, to)
          \/ VaultWithdraw(s, a, n, to)
          \/ ProtocolWithdraw(s, a, n, to)
          \/ WithdrawTreasury(s, a, n, to)
          \/ ProtocolWithdrawTreasury(s, a, n, to)
          \/ RegisterRewards(s, to, a, n)
    BY <1>1, <1>2 DEF MoveTokens
  <2>2. n \in Nat /\ s \in Addresses
    BY <1>1 DEF Addresses
  <2>3. CASE TokenTransfer(s, a, n, to)
    <3>1. /\ balance' \in Ledgers
          /\ \A b \in Assets, h \in Contracts :
               balance'[b][h] = balance[b][h] + (IF b = a /\ h = to THEN n ELSE 0)
      BY <2>2, <2>3, AccountMoves DEF TokenTransfer
    <3>2. TypeOK'
      BY <2>3, <3>1 DEF TokenTransfer, Inv, TypeOK, vault, roles, Ledgers
    <3>3. TotalIsSum'
      BY <2>3 DEF TokenTransfer, Inv, Solvency, TotalIsSum, vault
    <3>4. \A b \in Assets :
            /\ balance'[b][LPVault] >= balance[b][LPVault]
            /\ balance'[b][TreasuryVault] >= balance[b][TreasuryVault]
            /\ balance'[b][Protocol] >= balance[b][Protocol]
            /\ balance'[b][LPVault] \in Nat
            /\ balance'[b][TreasuryVault] \in Nat
            /\ balance'[b][Protocol] \in Nat
      BY <2>2, <3>1, SurplusArithmetic DEF Contracts
    <3>5. SurplusGrows
      BY <2>3, <3>4, SurplusArithmetic DEF SurplusGrows, TokenTransfer, vault
    <3> QED
      BY <3>2, <3>3, <3>5 DEF Kept
  <2>4. CASE Deposit(s, a, n, to)
    BY <2>4, PullKeeps DEF Deposit
  <2>5. CASE DelegateToPool(s, a, n, to)
    BY <2>5, PullKeeps DEF DelegateToPool
  <2>6. CASE VaultWithdraw(s, a, n, to)
    BY <2>2, <2>6, DebitKeeps DEF VaultWithdraw
  <2>7. CASE ProtocolWithdraw(s, a, n, to)
    BY <2>2, <2>7, ProtocolWithdrawKeeps
  <2>8. CASE WithdrawTreasury(s, a, n, to)
    BY <2>8, PayFromTreasuryKeeps DEF WithdrawTreasury
  <2>9. CASE ProtocolWithdrawTreasury(s, a, n, to)
    BY <2>9, PayFromTreasuryKeeps DEF ProtocolWithdrawTreasury
  <2>10. CASE RegisterRewards(s, to, a, n)
    BY <2>10, RegisterRewardsKeeps
  <2> QED
    BY <2>1, <2>3, <2>4, <2>5, <2>6, <2>7, <2>8, <2>9, <2>10
<1>3. CASE CreditOrClose(s)
  <2>1. PICK a \in Assets :
          \/ \E n \in Words : CreditTreasury(s, a, n) \/ ProtocolCreditTreasury(s, a, n)
          \/ \E to \in Addresses : EmergencyWithdrawAll(s, a, to)
    BY <1>1, <1>3 DEF CreditOrClose
  <2>2. principalOf[a][s] \in Nat
    BY <1>1 DEF Inv, TypeOK, Addresses
  <2> QED
    BY <2>1, <2>2, CreditTreasuryKeeps, ProtocolCreditTreasuryKeeps,
       ProtocolWithdrawKeeps DEF EmergencyWithdrawAll
<1>4. CASE RouteForUser(s)
  <2>1. PICK u \in Accounts, a \in Assets, n \in Words, to \in Addresses :
          DepositFor(s, u, a, n, to) \/ WithdrawFor(s, u, a, n, to)
    BY <1>1, <1>4 DEF RouteForUser
  <2>2. n \in Nat /\ u \in Addresses
    BY <1>1 DEF Addresses
  <2>3. CASE DepositFor(s, u, a, n, to)
    BY <2>3, PullKeeps DEF DepositFor
  <2>4. CASE WithdrawFor(s, u, a, n, to)
    BY <2>2, <2>4, DebitKeeps DEF WithdrawFor
  <2> QED
    BY <2>1, <2>3, <2>4
<1>5. CASE Administer(s)
  <2>1. /\ UNCHANGED <<balance, vault, treasuryBalance, pendingRewards>>
        /\ approvals' \subseteq Accounts
        /\ routers' \subseteq Addresses
        /\ distributors' \subseteq Addresses
        /\ operators' \subseteq Accounts
        /\ msgSender' \in Accounts
    <3>1. PICK enabled \in BOOLEAN :
            \/ TokenApprove(s, enabled)
            \/ \E r \in RouterCandidates : SetRouter(s, r, enabled)
            \/ \E d \in DistributorCandidates : SetRewardDistributor(s, d, enabled)
            \/ \E o \in OperatorCandidates : SetTreasuryOperator(s, o, enabled)
      BY <1>5 DEF Administer
    <3>2. CASE TokenApprove(s, enabled)
      BY <3>2 DEF TokenApprove, Inv, TypeOK, roles
    <3>3. CASE \E r \in RouterCandidates : SetRouter(s, r, enabled)
      BY <3>3, RolesAssumption DEF SetRouter, Inv, TypeOK
    <3>4. CASE \E d \in DistributorCandidates : SetRewardDistributor(s, d, enabled)
      BY <3>4, RolesAssumption DEF SetRewardDistributor, Inv, TypeOK
    <3>5. CASE \E o \in OperatorCandidates : SetTreasuryOperator(s, o, enabled)
      BY <3>5, RolesAssumption DEF SetTreasuryOperator, Inv, TypeOK
    <3> QED
      BY <3>1, <3>2, <3>3, <3>4, <3>5
  <2>2. TypeOK' /\ TotalIsSum'
    BY <2>1 DEF Inv, TypeOK, Solvency, TotalIsSum, vault
  <2>3. SurplusGrows
    BY <2>1, SurplusArithmetic DEF SurplusGrows, vault
  <2> QED
    BY <2>2, <2>3 DEF Kept
<1> QED
  BY <1>2, <1>3, <1>4, <1>5

\* A step that changes nothing.
LEMMA StutterKeeps ==
  ASSUME Inv, UNCHANGED vars
  PROVE  Kept
<1>1. TypeOK' /\ TotalIsSum'
  BY DEF vars, Inv, TypeOK, Solvency, TotalIsSum
<1>2. SurplusGrows
  BY SurplusArithmetic DEF vars, SurplusGrows
<1> QED
  BY <1>1, <1>2 DEF Kept

\* Every step keeps types, total and surpluses.
LEMMA StepKeeps ==
  ASSUME Inv, [Next]_vars
  PROVE  Kept
BY NextKeeps, StutterKeeps DEF Next

(***************************************************************************)
(* Types and solvency, for every instance: whoever holds which role, every *)
(* contract holds at least what it owes, and the recorded total is the     *)
(* exact sum of the principals.                                            *)
(***************************************************************************)
THEOREM Invariance == Spec => []Inv
<1>1. Init => Inv
  BY InitInv
<1>2. Inv /\ [Next]_vars => Inv'
  BY StepKeeps, KeptSuffices
<1> QED
  BY <1>1, <1>2, PTL DEF Spec

\* Every variable of the custody contracts always has its type (TypeOK): in
\* particular no amount leaves the range of a word.
THEOREM TypeCorrect == Spec => []TypeOK
<1>1. Inv => TypeOK
  BY DEF Inv
<1> QED
  BY <1>1, Invariance, PTL

\* The custody contracts are always solvent (Solvency), whoever holds the
\* roles.
THEOREM Solvent == Spec => []Solvency
<1>1. Inv => Solvency
  BY DEF Inv
<1> QED
  BY <1>1, Invariance, PTL

(***************************************************************************)
(* No call takes out more than it writes off (SurplusStays).               *)
(***************************************************************************)
THEOREM SurplusNeverPaidOut == Spec => SurplusStays
<1>1. ASSUME Inv, [Next]_vars
      PROVE  \A a \in Assets : \A i \in 1 .. 3 : Surplus(a)'[i] >= Surplus(a)[i]
  <2>1. SurplusGrows
    BY <1>1, StepKeeps DEF Kept
  <2>2. SUFFICES ASSUME NEW a \in Assets, NEW i \in 1 .. 3
                 PROVE  Surplus(a)'[i] >= Surplus(a)[i]
    OBVIOUS
  <2>3. CASE i = 1
    BY <2>1, <2>3 DEF Surplus, SurplusGrows
  <2>4. CASE i = 2
    BY <2>1, <2>4 DEF Surplus, SurplusGrows
  <2>5. CASE i = 3
    BY <2>1, <2>5 DEF Surplus, SurplusGrows
  <2> QED
    BY <2>2, <2>3, <2>4, <2>5
<1> QED
  BY <1>1, Invariance, PTL DEF Spec, SurplusStays

-----------------------------------------------------------------------------
(***************************************************************************)
(* The exit is open.  That a transaction does not revert is that some step *)
(* satisfies its action; here is the step.  In every state of Inv, which   *)
(* every reachable state is, whatever the roles are: the transaction that  *)
(* pays a user's whole principal out of LPVault, to any address, and       *)
(* writes off exactly that, is one that LPVault.withdraw makes.            *)
(***************************************************************************)
THEOREM PrincipalExits ==
  ASSUME Inv, NEW a \in Assets, NEW u \in Accounts, NEW to \in Addresses,
         principalOf[a][u] > 0,
         balance' = Moved(balance, a, LPVault, to, principalOf[a][u]),
         principalOf' = [principalOf EXCEPT ![a][u] = 0],
         totalPrincipalByAsset' =
           [totalPrincipalByAsset EXCEPT ![a] = @ - principalOf[a][u]],
         msgSender' = u,
         UNCHANGED <<approvals, treasuryBalance, pendingRewards, roles>>
  PROVE  VaultWithdraw(u, a, principalOf[a][u], to)
<1>0. Words \subseteq Nat
  BY AmountsAssumption DEF Words
<1>1. u \in Addresses /\ principalOf \in [Assets -> [Addresses -> Words]] /\ Words \subseteq Nat
  BY <1>0 DEF Addresses, Inv, TypeOK
<1>2. PICK n \in Nat : n = principalOf[a][u]
  BY <1>1
<1>3. /\ totalPrincipalByAsset[a] \in Nat /\ balance[a][LPVault] \in Nat
      /\ totalPrincipalByAsset[a] <= balance[a][LPVault]
  BY SurplusArithmetic DEF Inv, Solvency, VaultBacked
<1>4. n <= totalPrincipalByAsset[a]
  <2>1. principalOf[a][u] <= Owed(principalOf[a])
    BY <1>1, OwedBounds
  <2> QED  BY <1>2, <2>1 DEF Inv, Solvency, TotalIsSum
<1>5. /\ UncheckedSub(principalOf[a][u], n) = 0
      /\ UncheckedSub(totalPrincipalByAsset[a], n) = totalPrincipalByAsset[a] - n
  BY <1>2, <1>3, <1>4 DEF UncheckedSub
<1>6. n # 0 /\ principalOf[a][u] >= n /\ balance[a][LPVault] >= n
  BY <1>2, <1>3, <1>4
<1>7. principalOf' = [principalOf EXCEPT ![a][u] = UncheckedSub(@, n)]
  BY <1>5
<1>8. totalPrincipalByAsset' = [totalPrincipalByAsset EXCEPT ![a] = UncheckedSub(@, n)]
  BY <1>2, <1>5
<1>9. DebitPrincipal(u, a, n)
  BY <1>6, <1>7, <1>8 DEF DebitPrincipal
<1>10. VaultWithdraw(u, a, n, to)
  BY <1>2, <1>6, <1>9 DEF VaultWithdraw
<1> QED  BY <1>2, <1>10

(***************************************************************************)
(* Likewise the transaction that pays a user's whole pending reward out of *)
(* the facade, to any address, is one that its withdraw makes when it is   *)
(* asked for no principal: it passes although the facade may no longer be  *)
(* a router of LPVault.                                                    *)
(***************************************************************************)
THEOREM RewardExits ==
  ASSUME Inv, NEW a \in Assets, NEW u \in Accounts, NEW to \in Addresses,
         pendingRewards[a][u] > 0,
         balance' = Moved(balance, a, Protocol, to, pendingRewards[a][u]),
         pendingRewards' = [pendingRewards EXCEPT ![a][u] = 0],
         msgSender' = u,
         UNCHANGED <<approvals, vault, treasuryBalance, roles>>
  PROVE  ProtocolWithdraw(u, a, 0, to)
<1>0. Words \subseteq Nat
  BY AmountsAssumption DEF Words
<1>1. /\ u \in Addresses /\ pendingRewards \in [Assets -> [Addresses -> Words]]
      /\ Words \subseteq Nat
  BY <1>0 DEF Addresses, Inv, TypeOK
<1>2. PICK n \in Nat : n = pendingRewards[a][u]
  BY <1>1
<1>3. Moved(balance, a, LPVault, to, 0) = balance
  <2>1. balance \in [Assets -> [Addresses -> Nat]] /\ LPVault \in Addresses
    BY DEF Inv, TypeOK, Addresses, Contracts
  <2>2. /\ Moved(balance, a, LPVault, to, 0) \in [Assets -> [Addresses -> Nat]]
        /\ \A b \in Assets, h \in Addresses :
             Moved(balance, a, LPVault, to, 0)[b][h] = balance[b][h]
    BY <2>1 DEF Moved
  <2> QED  BY <2>1, <2>2
<1>4. balance[a][Protocol] >= n
  <2>1. pendingRewards[a][u] <= Owed(pendingRewards[a])
    BY <1>1, OwedBounds
  <2>2. Owed(pendingRewards[a]) <= balance[a][Protocol]
    BY DEF Inv, Solvency, RewardsBacked
  <2> QED  BY <1>2, <2>1, <2>2, SurplusArithmetic
<1>5. n # 0
  BY <1>2
<1> QED
  BY <1>2, <1>3, <1>4, <1>5 DEF ProtocolWithdraw

-----------------------------------------------------------------------------
(***************************************************************************)
(* With the deployed wiring no account is a router, so nobody passes the   *)
(* role check of withdrawFor except the facade, which passes its own       *)
(* caller on as the user.                                                  *)
(***************************************************************************)
FacadeRoutes == routers \subseteq {Protocol}

\* Where the admin makes only the facade a router, nobody else ever is.
LEMMA FacadeRoutesAlways ==
  ASSUME RouterCandidates \subseteq {Protocol}
  PROVE  Spec => []FacadeRoutes
<1>1. Init => FacadeRoutes
  BY DEF Init, FacadeRoutes
<1>2. FacadeRoutes /\ [Next]_vars => FacadeRoutes'
  <2> SUFFICES ASSUME FacadeRoutes, [Next]_vars PROVE FacadeRoutes'
    OBVIOUS
  <2>1. CASE UNCHANGED vars
    BY <2>1 DEF vars, FacadeRoutes
  <2>2. ASSUME NEW s \in Accounts, MoveTokens(s) PROVE FacadeRoutes'
    BY <2>2 DEF FacadeRoutes, roles, MoveTokens, TokenTransfer, Deposit,
         DelegateToPool, VaultWithdraw, ProtocolWithdraw, WithdrawTreasury,
         ProtocolWithdrawTreasury, RegisterRewards
  <2>3. ASSUME NEW s \in Accounts, CreditOrClose(s) PROVE FacadeRoutes'
    BY <2>3 DEF FacadeRoutes, roles, CreditOrClose, CreditTreasury,
         ProtocolCreditTreasury, EmergencyWithdrawAll, ProtocolWithdraw
  <2>4. ASSUME NEW s \in Accounts, RouteForUser(s) PROVE FacadeRoutes'
    BY <2>4 DEF FacadeRoutes, roles, RouteForUser, DepositFor, WithdrawFor
  <2>5. ASSUME NEW s \in Accounts, Administer(s) PROVE FacadeRoutes'
    BY <2>5 DEF FacadeRoutes, roles, Administer, TokenApprove, SetRouter,
         SetRewardDistributor, SetTreasuryOperator
  <2> QED
    BY <2>1, <2>2, <2>3, <2>4, <2>5 DEF Next
<1> QED
  BY <1>1, <1>2, PTL DEF Spec

(***************************************************************************)
(* A book whose entries only grow, except perhaps the sender's.            *)
(***************************************************************************)
OthersGrow(book, next, s) ==
  \A a \in Assets, u \in Addresses : u # s => next[a][u] >= book[a][u]

\* The entries of both books are natural numbers.
LEMMA BooksTyped ==
  ASSUME TypeOK
  PROVE  /\ principalOf \in Books /\ pendingRewards \in Books
         /\ \A a \in Assets, u \in Addresses :
              principalOf[a][u] \in Nat /\ pendingRewards[a][u] \in Nat
BY AmountsAssumption DEF TypeOK, Books, Words

\* A deposit shrinks nobody's principal.
LEMMA PullGrows ==
  ASSUME TypeOK, NEW s, NEW payer, NEW a \in Assets, NEW n \in Nat,
         NEW receiver \in Addresses, PullPrincipal(payer, a, n, receiver)
  PROVE  OthersGrow(principalOf, principalOf', s)
<1>1. \A b \in Assets, u \in Addresses :
        principalOf'[b][u] = principalOf[b][u]
                               + (IF b = a /\ u = receiver THEN n ELSE 0)
  BY BooksTyped DEF PullPrincipal, Books
<1> QED
  BY <1>1, BooksTyped DEF OthersGrow

\* A withdrawal shrinks the principal of its user only.
LEMMA DebitSparesOthers ==
  ASSUME TypeOK, NEW s \in Addresses, NEW a \in Assets, NEW n \in Nat,
         DebitPrincipal(s, a, n)
  PROVE  OthersGrow(principalOf, principalOf', s)
<1>1. \A b \in Assets, u \in Addresses : u # s => principalOf'[b][u] = principalOf[b][u]
  BY BooksTyped DEF DebitPrincipal, Books
<1> QED
  BY <1>1, BooksTyped DEF OthersGrow

\* A book that does not change shrinks for nobody.
LEMMA SameBook ==
  ASSUME TypeOK, NEW s
  PROVE  /\ principalOf' = principalOf => OthersGrow(principalOf, principalOf', s)
         /\ pendingRewards' = pendingRewards
              => OthersGrow(pendingRewards, pendingRewards', s)
BY BooksTyped DEF OthersGrow

\* FlywheelProtocol.withdraw shrinks only the principal and reward of its
\* caller.
LEMMA ProtocolWithdrawSparesOthers ==
  ASSUME TypeOK, NEW s \in Accounts, NEW a \in Assets, NEW n \in Nat,
         NEW to, ProtocolWithdraw(s, a, n, to)
  PROVE  /\ OthersGrow(principalOf, principalOf', s)
         /\ OthersGrow(pendingRewards, pendingRewards', s)
<1>1. s \in Addresses
  BY DEF Addresses
<1>2. OthersGrow(principalOf, principalOf', s)
  BY <1>1, SameBook, DebitSparesOthers DEF ProtocolWithdraw, vault
<1>3. \A b \in Assets, u \in Addresses :
        u # s => pendingRewards'[b][u] = pendingRewards[b][u]
  BY BooksTyped DEF ProtocolWithdraw, Books
<1> QED
  BY <1>2, <1>3, BooksTyped DEF OthersGrow

\* registerRewards shrinks nobody's pending reward.
LEMMA RegisterRewardsGrows ==
  ASSUME TypeOK, NEW s, NEW v \in Addresses, NEW a \in Assets, NEW n \in Nat,
         RegisterRewards(s, v, a, n)
  PROVE  OthersGrow(pendingRewards, pendingRewards', s)
<1>1. UserShare(n) \in Nat
  BY SharesAddUp
<1>2. pendingRewards' = [pendingRewards EXCEPT ![a][v] = @ + UserShare(n)]
  BY DEF RegisterRewards
<1>3. \A b \in Assets, u \in Addresses :
        pendingRewards'[b][u] = pendingRewards[b][u]
                                  + (IF b = a /\ u = v THEN UserShare(n) ELSE 0)
  BY <1>1, <1>2, BooksTyped DEF Books
<1> QED
  BY <1>1, <1>3, BooksTyped DEF OthersGrow

(***************************************************************************)
(* Only Treasury may be withdrawn by system owners (ClaimsAreTheUsers):    *)
(* if the admin makes nobody but the facade a router, a user's claim       *)
(* shrinks only in a transaction of that user.                             *)
(***************************************************************************)
THEOREM OwnersTakeTreasuryOnly ==
  ASSUME RouterCandidates \subseteq {Protocol}
  PROVE  Spec => ClaimsAreTheUsers
<1>1. ASSUME TypeOK, TypeOK', FacadeRoutes, NEW s \in Accounts,
             MoveTokens(s) \/ CreditOrClose(s) \/ RouteForUser(s) \/ Administer(s)
      PROVE  /\ OthersGrow(principalOf, principalOf', s)
             /\ OthersGrow(pendingRewards, pendingRewards', s)
             /\ msgSender' = s
  <2>1. Amounts \subseteq Nat /\ s \in Addresses
    BY AmountsAssumption DEF Addresses
  <2>2. CASE MoveTokens(s)
    <3>1. PICK a \in Assets, n \in Nat, to \in Addresses :
            \/ TokenTransfer(s, a, n, to)
            \/ Deposit(s, a, n, to)
            \/ DelegateToPool(s, a, n, to)
            \/ VaultWithdraw(s, a, n, to)
            \/ ProtocolWithdraw(s, a, n, to)
            \/ WithdrawTreasury(s, a, n, to)
            \/ ProtocolWithdrawTreasury(s, a, n, to)
            \/ RegisterRewards(s, to, a, n)
      BY <2>1, <2>2 DEF MoveTokens
    <3>2. CASE TokenTransfer(s, a, n, to) \/ WithdrawTreasury(s, a, n, to)
                 \/ ProtocolWithdrawTreasury(s, a, n, to)
      BY <1>1, <3>2, SameBook
         DEF TokenTransfer, WithdrawTreasury, ProtocolWithdrawTreasury, vault
    <3>3. CASE Deposit(s, a, n, to) \/ DelegateToPool(s, a, n, to)
      BY <1>1, <3>3, SameBook, PullGrows DEF Deposit, DelegateToPool
    <3>4. CASE VaultWithdraw(s, a, n, to)
      BY <1>1, <2>1, <3>4, SameBook, DebitSparesOthers DEF VaultWithdraw
    <3>5. CASE ProtocolWithdraw(s, a, n, to)
      <4>1. msgSender' = s
        BY <3>5 DEF ProtocolWithdraw
      <4> QED
        BY <1>1, <3>5, <4>1, ProtocolWithdrawSparesOthers
    <3>6. CASE RegisterRewards(s, to, a, n)
      <4>1. msgSender' = s /\ principalOf' = principalOf
        BY <3>6 DEF RegisterRewards, vault
      <4> QED
        BY <1>1, <3>6, <4>1, SameBook, RegisterRewardsGrows
    <3> QED
      BY <3>1, <3>2, <3>3, <3>4, <3>5, <3>6
  <2>3. CASE CreditOrClose(s)
    <3>1. PICK a \in Assets :
            \/ \E n \in Amounts : CreditTreasury(s, a, n) \/ ProtocolCreditTreasury(s, a, n)
            \/ \E to \in Addresses : EmergencyWithdrawAll(s, a, to)
      BY <2>3 DEF CreditOrClose
    <3>2. CASE \E n \in Amounts : CreditTreasury(s, a, n) \/ ProtocolCreditTreasury(s, a, n)
      BY <1>1, <3>2, SameBook DEF CreditTreasury, ProtocolCreditTreasury, vault
    <3>3. ASSUME NEW to \in Addresses, EmergencyWithdrawAll(s, a, to)
          PROVE  /\ OthersGrow(principalOf, principalOf', s)
                 /\ OthersGrow(pendingRewards, pendingRewards', s)
                 /\ msgSender' = s
      <4> DEFINE n == principalOf[a][s]
      <4>1. n \in Nat
        BY <1>1, <2>1, BooksTyped
      <4>2. ProtocolWithdraw(s, a, n, to)
        BY <3>3 DEF EmergencyWithdrawAll
      <4>3. msgSender' = s
        BY <4>2 DEF ProtocolWithdraw
      <4> HIDE DEF n
      <4> QED
        BY <1>1, <4>1, <4>2, <4>3, ProtocolWithdrawSparesOthers
    <3> QED
      BY <3>1, <3>2, <3>3
  <2>4. CASE RouteForUser(s)
    <3>1. s \notin routers
      BY <1>1, AddressesAssumption DEF FacadeRoutes, Contracts
    <3> QED
      BY <2>4, <3>1 DEF RouteForUser, DepositFor, WithdrawFor
  <2>5. CASE Administer(s)
    BY <1>1, <2>5, SameBook DEF Administer, TokenApprove, SetRouter,
         SetRewardDistributor, SetTreasuryOperator, vault
  <2> QED
    BY <1>1, <2>2, <2>3, <2>4, <2>5
<1>2. ASSUME TypeOK, TypeOK', FacadeRoutes, [Next]_vars
      PROVE  [\A a \in Assets, u \in Addresses :
                Claim(a, u)' < Claim(a, u) => msgSender' = u]_vars
  <2>1. CASE UNCHANGED vars
    BY <2>1
  <2>2. CASE Next
    <3>1. PICK s \in Accounts :
            MoveTokens(s) \/ CreditOrClose(s) \/ RouteForUser(s) \/ Administer(s)
      BY <2>2 DEF Next
    <3>2. /\ OthersGrow(principalOf, principalOf', s)
          /\ OthersGrow(pendingRewards, pendingRewards', s)
          /\ msgSender' = s
      BY <1>1, <1>2, <3>1
    <3>3. \A a \in Assets, u \in Addresses :
            /\ principalOf[a][u] \in Nat /\ principalOf'[a][u] \in Nat
            /\ pendingRewards[a][u] \in Nat /\ pendingRewards'[a][u] \in Nat
      BY <1>2, AmountsAssumption DEF TypeOK, Words
    <3> QED
      BY <3>2, <3>3 DEF OthersGrow, Claim
  <2> QED
    BY <1>2, <2>1, <2>2
<1> QED
  BY <1>2, TypeCorrect, FacadeRoutesAlways, PTL DEF Spec, ClaimsAreTheUsers

-----------------------------------------------------------------------------
(***************************************************************************)
(* The contracts implement ClaimsLedger.  Tokens are conserved, so what is *)
(* neither owed to a user nor the treasury's is the difference, and every  *)
(* transaction is one act of the ledger: the books say which.              *)
(***************************************************************************)
Held(row) ==
  SumFunctionOnSet(row, Accounts) + row[LPVault] + row[TreasuryVault] + row[Protocol]

\* Changing one holder's balance changes what is held by the same amount.
LEMMA HeldUpdate ==
  ASSUME NEW f \in [Addresses -> Int], NEW g \in [Addresses -> Int], NEW u \in Addresses,
         \A x \in Addresses : x # u => g[x] = f[x]
  PROVE  Held(f) \in Int /\ Held(g) = Held(f) + (g[u] - f[u])
<1>1. /\ IsFiniteSet(Accounts) /\ Accounts \subseteq Addresses
      /\ {LPVault, TreasuryVault, Protocol} \subseteq Addresses
      /\ LPVault \notin Accounts /\ TreasuryVault \notin Accounts /\ Protocol \notin Accounts
      /\ LPVault # TreasuryVault /\ LPVault # Protocol /\ TreasuryVault # Protocol
      /\ Addresses = Accounts \cup {LPVault, TreasuryVault, Protocol}
      /\ Admin \in Accounts
  BY AddressesAssumption DEF Addresses, Contracts
<1>2. \A x \in Addresses : f[x] \in Int /\ g[x] \in Int
  OBVIOUS
<1>3. SumFunctionOnSet(f, Accounts) \in Int
  <2>1. \A x \in Accounts : f[x] \in Int /\ f[x] \in Int /\ (x # Admin => f[x] = f[x])
    BY <1>1, <1>2
  <2> QED  BY <1>1, <2>1, SumUpdate
<1>4. Held(f) \in Int
  BY <1>1, <1>2, <1>3 DEF Held
<1>5. CASE u \in Accounts
  <2>1. SumFunctionOnSet(g, Accounts) = SumFunctionOnSet(f, Accounts) + (g[u] - f[u])
    BY <1>1, <1>2, <1>5, SumUpdate
  <2>2. g[LPVault] = f[LPVault] /\ g[TreasuryVault] = f[TreasuryVault]
        /\ g[Protocol] = f[Protocol]
    BY <1>1, <1>5
  <2> QED  BY <1>1, <1>2, <1>3, <1>4, <2>1, <2>2 DEF Held
<1>6. CASE u \in {LPVault, TreasuryVault, Protocol}
  <2>1. SumFunctionOnSet(g, Accounts) = SumFunctionOnSet(f, Accounts)
    <3>1. \A x \in Accounts : f[x] \in Int /\ g[x] = f[x]
      BY <1>1, <1>2, <1>6
    <3> QED  BY <1>1, <3>1, SumAgrees
  <2> QED  BY <1>1, <1>2, <1>3, <1>4, <1>6, <2>1 DEF Held
<1> QED  BY <1>1, <1>4, <1>5, <1>6

\* A token movement creates and destroys nothing.
LEMMA MovedConserves ==
  ASSUME NEW bal \in Ledgers, NEW a \in Assets,
         NEW from \in Addresses, NEW to \in Addresses,
         NEW n \in Nat, NEW next, next = Moved(bal, a, from, to, n)
  PROVE  \A b \in Assets : Held(next[b]) = Held(bal[b])
<1> DEFINE old == bal[a]
           mid == [old EXCEPT ![from] = @ - n]
           new == [mid EXCEPT ![to] = @ + n]
<1>1. old \in [Addresses -> Int]
  BY DEF Ledgers
<1>2. mid \in [Addresses -> Int] /\ mid[from] - old[from] = 0 - n
      /\ \A x \in Addresses : x # from => mid[x] = old[x]
  BY <1>1
<1>3. next[a] = new /\ \A b \in Assets : b # a => next[b] = bal[b]
  <2>1. next = [bal EXCEPT ![a] = [bal[a] EXCEPT ![from] = @ - n, ![to] = @ + n]]
    BY DEF Moved, Ledgers
  <2>2. new = [bal[a] EXCEPT ![from] = @ - n, ![to] = @ + n]
    OBVIOUS
  <2> HIDE DEF new
  <2> QED  BY <2>1, <2>2 DEF Ledgers
<1> HIDE DEF old, mid
<1>4. new \in [Addresses -> Int] /\ new[to] - mid[to] = n
      /\ \A x \in Addresses : x # to => new[x] = mid[x]
  BY <1>2
<1> HIDE DEF new
<1>5. Held(old) \in Int /\ Held(mid) = Held(old) + (0 - n)
  BY <1>1, <1>2, HeldUpdate
<1>6. Held(mid) \in Int /\ Held(new) = Held(mid) + n
  BY <1>2, <1>4, HeldUpdate
<1>7. Held(new) = Held(old)
  BY <1>5, <1>6
<1> QED  BY <1>3, <1>7 DEF old

-----------------------------------------------------------------------------
(***************************************************************************)
(* What a transaction does to the books: at the asset a, the principal and *)
(* the pending reward of h change by dp and dr, the treasury by dt.        *)
(***************************************************************************)
Changes(book, next, a, h, d) ==
  \A b \in Assets, u \in Addresses :
    next[b][u] = book[b][u] + (IF b = a /\ u = h THEN d ELSE 0)

Adds(book, next, a, d) ==
  \A b \in Assets : next[b] = book[b] + (IF b = a THEN d ELSE 0)

Conserved == \A b \in Assets : Held(balance'[b]) = Held(balance[b])

Books3(a, h, dp, dr, dt) ==
  /\ Changes(principalOf, principalOf', a, h, dp)
  /\ Adds(totalPrincipalByAsset, totalPrincipalByAsset', a, dp)
  /\ Changes(pendingRewards, pendingRewards', a, h, dr)
  /\ Adds(treasuryBalance, treasuryBalance', a, dt)
  /\ Conserved

\* What the ledger sees of the state.
Claims == [a \in Assets |-> [u \in Addresses |-> Claim(a, u)]]
FreeUnits == [a \in Assets |-> Free(a)]

\* What is free is what is held and not booked.
Rest(a) ==
  /\ Free(a) \in Nat /\ Held(balance[a]) \in Int
  /\ Free(a) = Held(balance[a]) - totalPrincipalByAsset[a]
                 - treasuryBalance[a] - Owed(pendingRewards[a])

FreeIsRest == \A a \in Assets : Rest(a)

LEMMA FreeIsTheRest == Inv => FreeIsRest
<1> SUFFICES ASSUME Inv, NEW a \in Assets PROVE Rest(a)
  BY DEF FreeIsRest
<1>1. SumFunctionOnSet(balance[a], Accounts) \in Nat
  <2>1. \A x \in Accounts : balance[a][x] \in Nat
    BY DEF Inv, TypeOK, Addresses
  <2> QED  BY <2>1, AddressesAssumption, SumBoundsTerm
<1>2. /\ totalPrincipalByAsset[a] <= balance[a][LPVault]
      /\ treasuryBalance[a] <= balance[a][TreasuryVault]
      /\ Owed(pendingRewards[a]) <= balance[a][Protocol]
  BY DEF Inv, Solvency, VaultBacked, TreasuryBacked, RewardsBacked
<1> QED  BY <1>1, <1>2, SurplusArithmetic DEF Rest, Free, Held

\* And so it is in the next state.
LEMMA FreeStaysTheRest == Inv' => FreeIsRest'
  BY FreeIsTheRest, PTL

LEMMA OwedAdds ==
  ASSUME Inv, Inv', NEW a \in Assets, NEW h \in Addresses, NEW d \in Int,
         Changes(pendingRewards, pendingRewards', a, h, d)
  PROVE  \A b \in Assets :
           Owed(pendingRewards'[b]) = Owed(pendingRewards[b]) + (IF b = a THEN d ELSE 0)
<1>1. /\ pendingRewards \in Books /\ pendingRewards' \in Books /\ Words \subseteq Int
  BY AmountsAssumption DEF Inv, TypeOK, Books, Words
<1>2. \A b \in Assets, u \in Addresses :
        pendingRewards[b][u] \in Int /\ pendingRewards'[b][u] \in Int
  BY <1>1 DEF Books
<1>3. \A b \in Assets : b # a => pendingRewards'[b] = pendingRewards[b]
  <2> SUFFICES ASSUME NEW b \in Assets, b # a PROVE pendingRewards'[b] = pendingRewards[b]
    OBVIOUS
  <2>1. \A u \in Addresses : pendingRewards'[b][u] = pendingRewards[b][u]
    BY <1>2 DEF Changes
  <2>2. pendingRewards'[b] \in [Addresses -> Words] /\ pendingRewards[b] \in [Addresses -> Words]
    BY <1>1 DEF Books
  <2> QED  BY <2>1, <2>2
<1>4. \A u \in Addresses : u # h => pendingRewards'[a][u] = pendingRewards[a][u]
  BY <1>2 DEF Changes
<1>5. pendingRewards'[a][h] - pendingRewards[a][h] = d
  BY <1>2 DEF Changes
<1>6. Rewrites(pendingRewards, pendingRewards', a, h, d)
  BY <1>1, <1>3, <1>4, <1>5 DEF Rewrites
<1> QED  BY <1>6, OwedUpdate

(***************************************************************************)
(* What the ledger sees of it.                                             *)
(***************************************************************************)
LEMMA LedgerSees ==
  ASSUME Inv, Inv', NEW a \in Assets, NEW h \in Addresses,
         NEW dp \in Int, NEW dr \in Int, NEW dt \in Int, Books3(a, h, dp, dr, dt)
  PROVE  /\ Claims' = [Claims EXCEPT ![a][h] = @ + (dp + dr)]
         /\ treasuryBalance' = [treasuryBalance EXCEPT ![a] = @ + dt]
         /\ FreeUnits' = [FreeUnits EXCEPT ![a] = @ - (dp + dr + dt)]
         /\ Free(a) \in Nat /\ Free(a) - (dp + dr + dt) \in Nat
         /\ Claim(a, h) \in Nat /\ Claim(a, h) + (dp + dr) \in Nat
         /\ treasuryBalance[a] \in Nat /\ treasuryBalance[a] + dt \in Nat
<1>1. /\ Words \subseteq Nat
      /\ \A b \in Assets, u \in Addresses :
           /\ principalOf[b][u] \in Nat /\ principalOf'[b][u] \in Nat
           /\ pendingRewards[b][u] \in Nat /\ pendingRewards'[b][u] \in Nat
  BY AmountsAssumption DEF Inv, TypeOK, Words
<1>2. \A b \in Assets, u \in Addresses :
        /\ Claim(b, u) \in Nat /\ Claim(b, u)' \in Nat
        /\ Claim(b, u)' = Claim(b, u) + (IF b = a /\ u = h THEN dp + dr ELSE 0)
  BY <1>1 DEF Claim, Books3, Changes
<1>3. Claims' = [Claims EXCEPT ![a][h] = @ + (dp + dr)]
  <2>1. /\ Claims \in [Assets -> [Addresses -> Nat]] /\ Claims' \in [Assets -> [Addresses -> Nat]]
        /\ \A b \in Assets, u \in Addresses :
             Claims'[b][u] = Claims[b][u] + (IF b = a /\ u = h THEN dp + dr ELSE 0)
    BY <1>2 DEF Claims
  <2>2. PICK c \in [Assets -> [Addresses -> Nat]] : c = Claims
    BY <2>1
  <2>3. PICK e \in [Assets -> [Addresses -> Nat]] : e = Claims'
    BY <2>1
  <2>4. \A b \in Assets, u \in Addresses :
          e[b][u] = c[b][u] + (IF b = a /\ u = h THEN dp + dr ELSE 0)
    BY <2>1, <2>2, <2>3
  <2>5. e = [c EXCEPT ![a] = [c[a] EXCEPT ![h] = c[a][h] + (dp + dr)]]
    <3>1. \A b \in Assets : b # a => e[b] = c[b]
      <4> SUFFICES ASSUME NEW b \in Assets, b # a PROVE e[b] = c[b]
        OBVIOUS
      <4>1. \A u \in Addresses : e[b][u] = c[b][u]
        BY <2>4
      <4> QED  BY <4>1
    <3>2. e[a] = [c[a] EXCEPT ![h] = c[a][h] + (dp + dr)]
      BY <2>4
    <3> QED  BY <3>1, <3>2
  <2> QED  BY <2>2, <2>3, <2>5
<1>4. \A b \in Assets :
        /\ treasuryBalance[b] \in Nat /\ treasuryBalance'[b] \in Nat
        /\ treasuryBalance'[b] = treasuryBalance[b] + (IF b = a THEN dt ELSE 0)
  BY <1>1 DEF Inv, TypeOK, Books3, Adds
<1>5. treasuryBalance' = [treasuryBalance EXCEPT ![a] = @ + dt]
  BY <1>4 DEF Inv, TypeOK
<1>6. \A b \in Assets :
        /\ Free(b) \in Nat /\ Free(b)' \in Nat
        /\ Free(b)' = Free(b) - (IF b = a THEN dp + dr + dt ELSE 0)
  <2> TAKE b \in Assets
  <2>1. /\ Free(b) \in Nat /\ Held(balance[b]) \in Int
        /\ Free(b) = Held(balance[b]) - totalPrincipalByAsset[b]
                        - treasuryBalance[b] - Owed(pendingRewards[b])
    BY FreeIsTheRest DEF FreeIsRest, Rest
  <2>2. /\ Free(b)' \in Nat
        /\ Free(b)' = Held(balance'[b]) - totalPrincipalByAsset'[b]
                        - treasuryBalance'[b] - Owed(pendingRewards'[b])
    BY FreeStaysTheRest DEF FreeIsRest, Rest
  <2>3. Held(balance'[b]) = Held(balance[b])
    BY DEF Books3, Conserved
  <2>4. totalPrincipalByAsset'[b] = totalPrincipalByAsset[b] + (IF b = a THEN dp ELSE 0)
    BY DEF Books3, Adds
  <2>5. Owed(pendingRewards'[b]) = Owed(pendingRewards[b]) + (IF b = a THEN dr ELSE 0)
    BY OwedAdds DEF Books3
  <2>6. /\ totalPrincipalByAsset[b] \in Nat /\ Owed(pendingRewards[b]) \in Nat
    BY SurplusArithmetic
  <2> QED  BY <1>4, <2>1, <2>2, <2>3, <2>4, <2>5, <2>6
<1>7. FreeUnits' = [FreeUnits EXCEPT ![a] = @ - (dp + dr + dt)]
  <2>1. /\ FreeUnits \in [Assets -> Nat] /\ FreeUnits' \in [Assets -> Nat]
        /\ \A b \in Assets :
             FreeUnits'[b] = FreeUnits[b] - (IF b = a THEN dp + dr + dt ELSE 0)
    BY <1>6 DEF FreeUnits
  <2> QED  BY <2>1
<1> QED  BY <1>2, <1>3, <1>4, <1>5, <1>6, <1>7

(***************************************************************************)
(* The act of the ledger that a change of the books is.                    *)
(***************************************************************************)
Act(h, claimed, dt) ==
  \/ claimed > 0 /\ dt = 0
  \/ claimed < 0 /\ dt = 0 /\ msgSender' = h
  \/ claimed = 0
  \/ \E n \in Nat \ {0} : claimed = n \div 2 /\ dt = n - (n \div 2)

LEMMA ActIsLedgerStep ==
  ASSUME Inv, Inv', NEW a \in Assets, NEW h \in Addresses,
         NEW dp \in Int, NEW dr \in Int, NEW dt \in Int, Books3(a, h, dp, dr, dt),
         Act(h, dp + dr, dt)
  PROVE  Ledger!LedgerNext
<1>1. msgSender' \in Addresses
  BY DEF Inv, TypeOK, Addresses
<1>2. PICK c \in Int : c = dp + dr
  OBVIOUS
<1>3. /\ Claims' = [Claims EXCEPT ![a][h] = @ + c]
      /\ treasuryBalance' = [treasuryBalance EXCEPT ![a] = @ + dt]
      /\ FreeUnits' = [FreeUnits EXCEPT ![a] = @ - (c + dt)]
      /\ Free(a) \in Nat /\ Free(a) - (c + dt) \in Nat
      /\ Claim(a, h) \in Nat /\ Claim(a, h) + c \in Nat
      /\ treasuryBalance[a] \in Nat /\ treasuryBalance[a] + dt \in Nat
  BY <1>2, LedgerSees
<1>4. /\ Claims[a][h] = Claim(a, h) /\ FreeUnits[a] = Free(a)
      /\ Claims \in [Assets -> [Addresses -> Int]]
      /\ FreeUnits \in [Assets -> Int] /\ treasuryBalance \in [Assets -> Int]
  <2>1. \A b \in Assets, u \in Addresses : Claim(b, u) \in Int
    BY BooksTyped DEF Claim, Inv
  <2>2. \A b \in Assets : Free(b) \in Int
    BY FreeIsTheRest DEF FreeIsRest, Rest
  <2>3. treasuryBalance \in [Assets -> Int]
    BY AmountsAssumption DEF Inv, TypeOK, Words
  <2> QED  BY <2>1, <2>2, <2>3 DEF Claims, FreeUnits
<1>5. CASE c > 0 /\ dt = 0
  <2>1. /\ FreeUnits' = [FreeUnits EXCEPT ![a] = @ - c] /\ c \in 1 .. FreeUnits[a]
        /\ c <= FreeUnits[a] /\ treasuryBalance' = treasuryBalance
    BY <1>3, <1>4, <1>5
  <2>2. Ledger!Fund(a, h, c)
    BY <1>3, <2>1 DEF Ledger!Fund, Claims, FreeUnits
  <2> QED  BY <1>1, <2>1, <2>2 DEF Ledger!LedgerNext, FreeUnits
<1>6. CASE c < 0 /\ dt = 0 /\ msgSender' = h
  <2>1. PICK n \in Nat : n = 0 - c
    BY <1>6
  <2>2. /\ FreeUnits' = [FreeUnits EXCEPT ![a] = @ + n] /\ n \in 1 .. Claims[a][h]
        /\ n <= Claims[a][h] /\ treasuryBalance' = treasuryBalance
    <3>1. /\ FreeUnits[a] - (c + dt) = FreeUnits[a] + n
          /\ n \in 1 .. Claims[a][h] /\ n <= Claims[a][h]
          /\ treasuryBalance[a] + dt = treasuryBalance[a]
      BY <1>3, <1>4, <1>6, <2>1
    <3>2. FreeUnits' = [FreeUnits EXCEPT ![a] = @ + n]
      BY <1>3, <3>1, Zenon
    <3>3. treasuryBalance' = treasuryBalance
      BY <1>3, <1>4, <3>1
    <3> QED  BY <3>1, <3>2, <3>3
  <2>3. Claims' = [Claims EXCEPT ![a][h] = @ - n]
    <3>1. Claims[a][h] + c = Claims[a][h] - n
      BY <1>3, <1>4, <2>1
    <3> QED  BY <1>3, <3>1, Zenon
  <2>4. Ledger!Exit(a, h, n)
    BY <1>6, <2>2, <2>3 DEF Ledger!Exit, Claims, FreeUnits
  <2> QED  BY <1>1, <2>2, <2>4 DEF Ledger!LedgerNext, Claims
<1>7. CASE c = 0
  <2>1. Claims' = Claims
    BY <1>3, <1>4, <1>7
  <2>2. CASE dt = 0
    <3>1. FreeUnits' = FreeUnits /\ treasuryBalance' = treasuryBalance
      BY <1>3, <1>4, <1>7, <2>2
    <3>2. Ledger!Idle
      BY <2>1, <3>1 DEF Ledger!Idle, Claims, FreeUnits
    <3> QED  BY <1>1, <3>2 DEF Ledger!LedgerNext
  <2>3. CASE dt > 0
    <3>1. /\ FreeUnits' = [FreeUnits EXCEPT ![a] = @ - dt]
          /\ dt \in 1 .. FreeUnits[a] /\ dt <= FreeUnits[a]
      BY <1>3, <1>4, <1>7, <2>3
    <3>2. Ledger!TreasuryIn(a, dt)
      BY <1>3, <2>1, <3>1 DEF Ledger!TreasuryIn, Claims, FreeUnits
    <3> QED  BY <1>1, <3>1, <3>2 DEF Ledger!LedgerNext, FreeUnits
  <2>4. CASE dt < 0
    <3>1. PICK n \in Nat : n = 0 - dt
      BY <2>4
    <3>2. /\ FreeUnits' = [FreeUnits EXCEPT ![a] = @ + n]
          /\ treasuryBalance' = [treasuryBalance EXCEPT ![a] = @ - n]
          /\ n \in 1 .. treasuryBalance[a] /\ n <= treasuryBalance[a]
      <4>1. /\ FreeUnits[a] - (c + dt) = FreeUnits[a] + n
            /\ treasuryBalance[a] + dt = treasuryBalance[a] - n
            /\ n \in 1 .. treasuryBalance[a] /\ n <= treasuryBalance[a]
        <5>1. PICK x \in Nat, y \in Nat : x = treasuryBalance[a] /\ y = FreeUnits[a]
          BY <1>3, <1>4
        <5>2. x + dt \in Nat
          BY <1>3, <5>1
        <5>3. y - (c + dt) = y + n /\ x + dt = x - n /\ n \in 1 .. x /\ n <= x
          BY <1>7, <2>4, <3>1, <5>2
        <5> QED  BY <5>1, <5>3, Zenon
      <4> QED  BY <1>3, <4>1, Zenon
    <3>3. Ledger!TreasuryOut(a, n)
      BY <2>1, <3>2 DEF Ledger!TreasuryOut, Claims, FreeUnits
    <3> QED  BY <1>1, <3>2, <3>3 DEF Ledger!LedgerNext
  <2> QED  BY <2>2, <2>3, <2>4
<1>8. ASSUME NEW n \in Nat \ {0}, c = n \div 2, dt = n - (n \div 2)
      PROVE  Ledger!LedgerNext
  <2>1. c + dt = n
    BY <1>8
  <2>2. /\ FreeUnits' = [FreeUnits EXCEPT ![a] = @ - n]
        /\ n \in 1 .. FreeUnits[a] /\ n <= FreeUnits[a]
    <3>1. Free(a) - n \in Nat
      BY <1>3, <2>1, Zenon
    <3>2. n \in 1 .. FreeUnits[a] /\ n <= FreeUnits[a]
      BY <1>3, <1>4, <3>1
    <3> QED  BY <1>3, <2>1, <3>2, Zenon
  <2>3. /\ Claims' = [Claims EXCEPT ![a][h] = @ + (n \div 2)]
        /\ treasuryBalance' = [treasuryBalance EXCEPT ![a] = @ + (n - (n \div 2))]
    BY <1>3, <1>8
  <2>4. Ledger!Reward(a, h, n)
    BY <2>2, <2>3 DEF Ledger!Reward, Claims, FreeUnits
  <2> QED  BY <1>1, <2>2, <2>4 DEF Ledger!LedgerNext, FreeUnits
<1> QED
  BY <1>2, <1>5, <1>6, <1>7, <1>8 DEF Act

(***************************************************************************)
(* Transaction by transaction.                                             *)
(***************************************************************************)
LEMMA BookedChanges ==
  ASSUME Inv, NEW a \in Assets, NEW u \in Addresses, NEW d \in Int, Booked(a, u, d)
  PROVE  /\ Changes(principalOf, principalOf', a, u, d)
         /\ Adds(totalPrincipalByAsset, totalPrincipalByAsset', a, d)
<1>1. Adds(totalPrincipalByAsset, totalPrincipalByAsset', a, d)
  BY BookedKeepsTotal DEF Adds
<1>2. principalOf' = [principalOf EXCEPT ![a][u] = principalOf[a][u] + d]
  BY DEF Booked
<1>3. \A b \in Assets, x \in Addresses : principalOf[b][x] \in Nat
  BY BooksTyped DEF Inv
<1>4. Changes(principalOf, principalOf', a, u, d)
  BY <1>2, <1>3, BooksTyped DEF Changes, Books, Inv
<1> QED  BY <1>1, <1>4

LEMMA UnchangedBooks ==
  ASSUME Inv, NEW a \in Assets, NEW h \in Addresses
  PROVE  /\ UNCHANGED vault =>
              /\ Changes(principalOf, principalOf', a, h, 0)
              /\ Adds(totalPrincipalByAsset, totalPrincipalByAsset', a, 0)
         /\ UNCHANGED pendingRewards => Changes(pendingRewards, pendingRewards', a, h, 0)
         /\ UNCHANGED treasuryBalance => Adds(treasuryBalance, treasuryBalance', a, 0)
<1>1. /\ \A b \in Assets, u \in Addresses :
           principalOf[b][u] \in Nat /\ pendingRewards[b][u] \in Nat
      /\ \A b \in Assets : totalPrincipalByAsset[b] \in Nat /\ treasuryBalance[b] \in Nat
  BY BooksTyped, SurplusArithmetic DEF Inv
<1> QED  BY <1>1 DEF Changes, Adds, vault

\* A transaction that books nothing is none of the ledger's business.
LEMMA IdleStep ==
  ASSUME Inv, Inv', UNCHANGED <<vault, treasuryBalance, pendingRewards>>, Conserved
  PROVE  Ledger!LedgerNext
<1>1. Claims' = Claims
  BY DEF Claims, Claim, vault
<1>2. \A a \in Assets : Free(a)' = Free(a)
  BY FreeIsTheRest, FreeStaysTheRest DEF FreeIsRest, Rest, Conserved, vault
<1>3. FreeUnits' = FreeUnits
  BY <1>2 DEF FreeUnits
<1>4. Ledger!Idle
  BY <1>1, <1>3 DEF Ledger!Idle, Claims, FreeUnits
<1>5. msgSender' \in Addresses
  BY DEF Inv, TypeOK, Addresses
<1> QED  BY <1>4, <1>5 DEF Ledger!LedgerNext

\* One token movement conserves the tokens.
LEMMA OneHopConserves ==
  ASSUME Inv, NEW a \in Assets, NEW from \in Addresses, NEW to \in Addresses,
         NEW n \in Nat, balance' = Moved(balance, a, from, to, n)
  PROVE  Conserved
<1>1. balance \in Ledgers
  BY DEF Inv, TypeOK, Ledgers
<1> QED  BY <1>1, MovedConserves DEF Conserved

\* And so do two.
LEMMA TwoHopsConserve ==
  ASSUME Inv, NEW a \in Assets, NEW from \in Addresses, NEW to \in Addresses,
         NEW via \in Addresses, NEW last \in Addresses,
         NEW n \in Nat, n <= balance[a][from], NEW m \in Nat,
         balance' = Moved(Moved(balance, a, from, to, n), a, via, last, m)
  PROVE  Conserved
<1> DEFINE mid == Moved(balance, a, from, to, n)
<1>1. balance \in Ledgers
  BY DEF Inv, TypeOK, Ledgers
<1>2. mid \in Ledgers
  BY <1>1, MovedBalances
<1>3. \A b \in Assets : Held(mid[b]) = Held(balance[b])
  BY <1>1, MovedConserves
<1>4. balance' = Moved(mid, a, via, last, m)
  OBVIOUS
<1> HIDE DEF mid
<1>5. \A b \in Assets : Held(balance'[b]) = Held(mid[b])
  BY <1>2, <1>4, MovedConserves
<1> QED  BY <1>3, <1>5 DEF Conserved

\* A deposit funds the receiver's claim.
LEMMA PullFunds ==
  ASSUME Inv, Inv', NEW payer \in Accounts, NEW a \in Assets, NEW n \in Words,
         NEW receiver \in Addresses, PullPrincipal(payer, a, n, receiver),
         UNCHANGED <<treasuryBalance, pendingRewards>>
  PROVE  Ledger!LedgerNext
<1>1. /\ n \in Nat /\ n \in Int /\ n > 0 /\ 0 \in Int
      /\ payer \in Addresses /\ LPVault \in Addresses
  BY AmountsAssumption DEF Words, Addresses, Contracts, PullPrincipal
<1>2. Booked(a, receiver, n)
  BY <1>1, AmountsAssumption DEF Inv, TypeOK, PullPrincipal, Words, Booked
<1>3. Conserved
  BY <1>1, OneHopConserves DEF PullPrincipal
<1>4. Books3(a, receiver, n, 0, 0)
  BY <1>1, <1>2, <1>3, BookedChanges, UnchangedBooks DEF Books3
<1>5. Act(receiver, n + 0, 0)
  BY <1>1 DEF Act
<1> QED  BY <1>1, <1>4, <1>5, ActIsLedgerStep

\* A withdrawal its holder sends is an exit.
LEMMA WithdrawExits ==
  ASSUME Inv, Inv', NEW s \in Addresses, NEW a \in Assets, NEW n \in Nat,
         NEW to \in Addresses, DebitPrincipal(s, a, n), msgSender' = s,
         balance' = Moved(balance, a, LPVault, to, n),
         UNCHANGED <<treasuryBalance, pendingRewards>>
  PROVE  Ledger!LedgerNext
<1>1. n > 0 /\ 0 - n \in Int /\ 0 \in Int /\ LPVault \in Addresses
  BY DEF Addresses, Contracts, DebitPrincipal
<1>2. Booked(a, s, 0 - n)
  BY DebitBooks
<1>3. Conserved
  BY <1>1, OneHopConserves
<1>4. Books3(a, s, 0 - n, 0, 0)
  BY <1>1, <1>2, <1>3, BookedChanges, UnchangedBooks DEF Books3
<1>5. Act(s, (0 - n) + 0, 0)
  BY <1>1 DEF Act
<1> QED  BY <1>1, <1>4, <1>5, ActIsLedgerStep

\* A withdrawal through the facade exits with principal and reward at once.
LEMMA ProtocolWithdrawExits ==
  ASSUME Inv, Inv', NEW s \in Accounts, NEW a \in Assets, NEW n \in Nat,
         NEW to \in Addresses, ProtocolWithdraw(s, a, n, to)
  PROVE  Ledger!LedgerNext
<1>1. /\ s \in Addresses /\ LPVault \in Addresses /\ Protocol \in Addresses
      /\ pendingRewards[a][s] \in Nat /\ 0 \in Int
      /\ balance[a][LPVault] \in Nat
  BY BooksTyped, SurplusArithmetic DEF Addresses, Contracts, Inv
<1>2. PICK reward \in Nat : reward = pendingRewards[a][s]
  BY <1>1
<1>3. /\ n # 0 \/ reward # 0
      /\ \/ DebitPrincipal(s, a, n) /\ balance[a][LPVault] >= n
         \/ n = 0 /\ UNCHANGED vault
      /\ balance' = Moved(Moved(balance, a, LPVault, to, n), a, Protocol, to, reward)
      /\ pendingRewards' = [pendingRewards EXCEPT ![a][s] = 0]
      /\ msgSender' = s /\ UNCHANGED treasuryBalance
  BY <1>2 DEF ProtocolWithdraw
<1>4. n <= balance[a][LPVault]
  BY <1>1, <1>3
<1>5. Conserved
  BY <1>1, <1>3, <1>4, TwoHopsConserve
<1>6. 0 - n \in Int /\ 0 - reward \in Int
  OBVIOUS
<1>7. Changes(pendingRewards, pendingRewards', a, s, 0 - reward)
  BY <1>1, <1>2, <1>3, BooksTyped DEF Changes, Books, Inv
<1>8. /\ Changes(principalOf, principalOf', a, s, 0 - n)
      /\ Adds(totalPrincipalByAsset, totalPrincipalByAsset', a, 0 - n)
  <2>1. CASE DebitPrincipal(s, a, n)
    BY <1>1, <1>6, <2>1, DebitBooks, BookedChanges
  <2>2. CASE n = 0 /\ UNCHANGED vault
    <3>1. 0 - n = 0
      BY <2>2
    <3> QED  BY <1>1, <2>2, <3>1, UnchangedBooks
  <2> QED  BY <1>3, <2>1, <2>2
<1>9. Adds(treasuryBalance, treasuryBalance', a, 0)
  BY <1>1, <1>3, UnchangedBooks
<1>10. Books3(a, s, 0 - n, 0 - reward, 0)
  BY <1>5, <1>7, <1>8, <1>9 DEF Books3
<1>11. Act(s, (0 - n) + (0 - reward), 0)
  BY <1>3 DEF Act
<1> QED  BY <1>1, <1>6, <1>10, <1>11, ActIsLedgerStep

\* Tokens that reach the treasury and are booked there, whichever way.
LEMMA TreasuryActs ==
  ASSUME Inv, Inv', NEW a \in Assets, NEW d \in Int, Conserved,
         treasuryBalance' = [treasuryBalance EXCEPT ![a] = @ + d],
         UNCHANGED <<vault, pendingRewards>>
  PROVE  Ledger!LedgerNext
<1>1. /\ Protocol \in Addresses /\ 0 \in Int /\ 0 + 0 = 0
      /\ \A b \in Assets : treasuryBalance[b] \in Nat
  BY SurplusArithmetic DEF Addresses, Contracts
<1>2. Adds(treasuryBalance, treasuryBalance', a, d)
  BY <1>1 DEF Adds, Inv, TypeOK
<1>3. Books3(a, Protocol, 0, 0, d)
  BY <1>1, <1>2, UnchangedBooks DEF Books3
<1>4. Act(Protocol, 0 + 0, d)
  BY <1>1 DEF Act
<1> QED  BY <1>1, <1>3, <1>4, ActIsLedgerStep

\* What is paid from the treasury leaves its book.
LEMMA PayIsTreasuryOut ==
  ASSUME Inv, Inv', NEW a \in Assets, NEW n \in Words, NEW to \in Addresses,
         PayFromTreasury(a, n, to), UNCHANGED <<vault, pendingRewards>>
  PROVE  Ledger!LedgerNext
<1>1. n \in Nat /\ TreasuryVault \in Addresses /\ treasuryBalance[a] \in Nat
  BY AmountsAssumption, SurplusArithmetic DEF Words, Addresses, Contracts
<1>2. Conserved
  BY <1>1, OneHopConserves DEF PayFromTreasury
<1>3. UncheckedSub(treasuryBalance[a], n) = treasuryBalance[a] + (0 - n)
  BY <1>1 DEF UncheckedSub, PayFromTreasury
<1>4. treasuryBalance' = [treasuryBalance EXCEPT ![a] = @ + (0 - n)]
  BY <1>3 DEF PayFromTreasury
<1>5. 0 - n \in Int
  BY <1>1
<1> QED  BY <1>2, <1>4, <1>5, TreasuryActs

\* A reward is split the way the ledger splits it.
LEMMA RegisterIsReward ==
  ASSUME Inv, Inv', NEW s \in Accounts, NEW u \in Addresses, NEW a \in Assets,
         NEW n \in Words, RegisterRewards(s, u, a, n)
  PROVE  Ledger!LedgerNext
<1> DEFINE us == UserShare(n)
           ts == TreasuryShare(n)
<1>1. /\ n \in Nat \ {0} /\ us \in Nat /\ ts \in Nat
      /\ us = n \div 2 /\ ts = n - (n \div 2)
  <2>1. n \in Nat \ {0}
    BY AmountsAssumption DEF Words, RegisterRewards
  <2> QED  BY <2>1, SharesAddUp DEF UserShare, TreasuryShare
<1>2. /\ balance[a][s] >= n
      /\ balance' = Moved(Moved(balance, a, s, Protocol, n),
                          a, Protocol, TreasuryVault, ts)
      /\ treasuryBalance' = [treasuryBalance EXCEPT ![a] = @ + ts]
      /\ pendingRewards' = [pendingRewards EXCEPT ![a][u] = @ + us]
      /\ UNCHANGED vault
  BY DEF RegisterRewards
<1> HIDE DEF us, ts
<1>3. /\ s \in Addresses /\ Protocol \in Addresses /\ TreasuryVault \in Addresses
      /\ balance[a][s] \in Nat
      /\ \A b \in Assets : treasuryBalance[b] \in Nat
  <2>1. s \in Addresses /\ Protocol \in Addresses /\ TreasuryVault \in Addresses
    BY DEF Addresses, Contracts
  <2> QED  BY <2>1, SurplusArithmetic DEF Inv, TypeOK
<1>4. n <= balance[a][s]
  BY <1>1, <1>2, <1>3
<1>5. Conserved
  BY <1>1, <1>2, <1>3, <1>4, TwoHopsConserve
<1>6. Changes(pendingRewards, pendingRewards', a, u, us)
  BY <1>1, <1>2, BooksTyped DEF Changes, Books, Inv
<1>7. Adds(treasuryBalance, treasuryBalance', a, ts)
  BY <1>1, <1>2, <1>3 DEF Adds, Inv, TypeOK
<1>8. Books3(a, u, 0, us, ts)
  BY <1>2, <1>5, <1>6, <1>7, UnchangedBooks DEF Books3
<1>9. Act(u, 0 + us, ts)
  <2>1. 0 + us = n \div 2
    BY <1>1
  <2> QED  BY <1>1, <2>1 DEF Act
<1>10. 0 \in Int /\ us \in Int /\ ts \in Int
  BY <1>1
<1> QED  BY <1>8, <1>9, <1>10, ActIsLedgerStep

\* At deployment nothing is booked, and everything there is is free.
LEMMA InitIsLedgerInit == Init => Ledger!LedgerInit
<1> SUFFICES ASSUME Init PROVE Ledger!LedgerInit
  OBVIOUS
<1>1. /\ {LPVault, TreasuryVault, Protocol} \subseteq Addresses
      /\ LPVault \notin Accounts /\ TreasuryVault \notin Accounts /\ Protocol \notin Accounts
      /\ Accounts \subseteq Addresses /\ Admin \in Addresses /\ IsFiniteSet(Accounts)
  BY AddressesAssumption DEF Addresses, Contracts
<1>2. Claims = [a \in Assets |-> [u \in Addresses |-> 0]]
  <2>1. \A a \in Assets, u \in Addresses : Claim(a, u) = 0
    BY DEF Init, Claim
  <2> QED  BY <2>1 DEF Claims
<1>3. treasuryBalance = [a \in Assets |-> 0]
  BY DEF Init
<1>4. \A a \in Assets : Free(a) = SumFunctionOnSet(Endowment[a], Accounts)
  <2> TAKE a \in Assets
  <2>1. \A u \in Accounts : Endowment[a][u] \in Int /\ balance[a][u] = Endowment[a][u]
    BY <1>1, AmountsAssumption DEF Init
  <2>2. SumFunctionOnSet(balance[a], Accounts) = SumFunctionOnSet(Endowment[a], Accounts)
    BY <1>1, <2>1, SumAgrees
  <2>3. SumFunctionOnSet(Endowment[a], Accounts) \in Nat
    BY <1>1, AmountsAssumption, SumBoundsTerm
  <2>4. /\ balance[a][LPVault] = 0 /\ balance[a][TreasuryVault] = 0 /\ balance[a][Protocol] = 0
        /\ totalPrincipalByAsset[a] = 0 /\ treasuryBalance[a] = 0
    BY <1>1 DEF Init
  <2>5. Owed(pendingRewards[a]) = 0
    BY AddressesFinite, SumOfZeros DEF Init, Owed
  <2> QED  BY <2>2, <2>3, <2>4, <2>5 DEF Free
<1>5. FreeUnits = [a \in Assets |-> SumFunctionOnSet(Endowment[a], Accounts)]
  BY <1>4 DEF FreeUnits
<1>6. msgSender \in Addresses
  BY <1>1 DEF Init
<1> QED
  BY <1>2, <1>3, <1>5, <1>6 DEF Ledger!LedgerInit, Claims, FreeUnits

\* Every transaction is one act of the ledger.
LEMMA TransactionIsLedgerStep ==
  ASSUME Inv, Inv', FacadeRoutes, NEW s \in Accounts,
         MoveTokens(s) \/ CreditOrClose(s) \/ RouteForUser(s) \/ Administer(s)
  PROVE  Ledger!LedgerNext
<1>1. /\ Amounts \subseteq Words /\ Words \subseteq Nat /\ s \in Addresses
      /\ TreasuryVault \in Addresses /\ Protocol \in Addresses
  BY AmountsAssumption DEF Words, Addresses, Contracts
<1>2. CASE MoveTokens(s)
  <2>1. PICK a \in Assets, n \in Words, to \in Addresses :
          \/ TokenTransfer(s, a, n, to)
          \/ Deposit(s, a, n, to)
          \/ DelegateToPool(s, a, n, to)
          \/ VaultWithdraw(s, a, n, to)
          \/ ProtocolWithdraw(s, a, n, to)
          \/ WithdrawTreasury(s, a, n, to)
          \/ ProtocolWithdrawTreasury(s, a, n, to)
          \/ RegisterRewards(s, to, a, n)
    BY <1>1, <1>2 DEF MoveTokens
  <2>2. n \in Nat
    BY <1>1
  <2>3. CASE TokenTransfer(s, a, n, to)
    BY <1>1, <2>2, <2>3, OneHopConserves, IdleStep DEF TokenTransfer
  <2>4. CASE Deposit(s, a, n, to) \/ DelegateToPool(s, a, n, to)
    BY <2>4, PullFunds DEF Deposit, DelegateToPool
  <2>5. CASE VaultWithdraw(s, a, n, to)
    BY <1>1, <2>2, <2>5, WithdrawExits DEF VaultWithdraw
  <2>6. CASE ProtocolWithdraw(s, a, n, to)
    BY <2>2, <2>6, ProtocolWithdrawExits
  <2>7. CASE WithdrawTreasury(s, a, n, to) \/ ProtocolWithdrawTreasury(s, a, n, to)
    BY <2>7, PayIsTreasuryOut DEF WithdrawTreasury, ProtocolWithdrawTreasury
  <2>8. CASE RegisterRewards(s, to, a, n)
    BY <2>8, RegisterIsReward
  <2> QED  BY <2>1, <2>3, <2>4, <2>5, <2>6, <2>7, <2>8
<1>3. CASE CreditOrClose(s)
  <2>1. PICK a \in Assets :
          \/ \E n \in Words : CreditTreasury(s, a, n) \/ ProtocolCreditTreasury(s, a, n)
          \/ \E to \in Addresses : EmergencyWithdrawAll(s, a, to)
    BY <1>1, <1>3 DEF CreditOrClose
  <2>2. ASSUME NEW n \in Words, CreditTreasury(s, a, n)
        PROVE  Ledger!LedgerNext
    <3>1. n \in Nat /\ n \in Int
      BY <1>1
    <3>2. Conserved
      BY <1>1, <2>2, <3>1, OneHopConserves DEF CreditTreasury
    <3> QED  BY <2>2, <3>1, <3>2, TreasuryActs DEF CreditTreasury
  <2>3. ASSUME NEW n \in Words, ProtocolCreditTreasury(s, a, n)
        PROVE  Ledger!LedgerNext
    <3>1. n \in Nat /\ n \in Int /\ balance[a][s] \in Nat
      BY <1>1 DEF Inv, TypeOK
    <3>2. n <= balance[a][s]
      BY <2>3, <3>1 DEF ProtocolCreditTreasury
    <3>3. Conserved
      BY <1>1, <2>3, <3>1, <3>2, TwoHopsConserve DEF ProtocolCreditTreasury
    <3> QED  BY <2>3, <3>1, <3>3, TreasuryActs DEF ProtocolCreditTreasury
  <2>4. ASSUME NEW to \in Addresses, EmergencyWithdrawAll(s, a, to)
        PROVE  Ledger!LedgerNext
    <3>1. principalOf[a][s] \in Nat
      BY <1>1, BooksTyped DEF Inv
    <3> QED  BY <2>4, <3>1, ProtocolWithdrawExits DEF EmergencyWithdrawAll
  <2> QED  BY <2>1, <2>2, <2>3, <2>4
<1>4. CASE RouteForUser(s)
  <2>1. s \notin routers
    BY AddressesAssumption DEF FacadeRoutes, Contracts
  <2> QED  BY <1>4, <2>1 DEF RouteForUser, DepositFor, WithdrawFor
<1>5. CASE Administer(s)
  <2>1. UNCHANGED <<balance, vault, treasuryBalance, pendingRewards>>
    BY <1>5 DEF Administer, TokenApprove, SetRouter, SetRewardDistributor,
                SetTreasuryOperator
  <2>2. Conserved
    BY <2>1 DEF Conserved
  <2> QED  BY <2>1, <2>2, IdleStep
<1> QED  BY <1>2, <1>3, <1>4, <1>5

\* A step that changes nothing changes nothing the ledger sees.
LEMMA StutterIsLedgerStutter == UNCHANGED vars => UNCHANGED Ledger!lvars
<1> SUFFICES ASSUME UNCHANGED vars PROVE UNCHANGED Ledger!lvars
  OBVIOUS
<1>1. Claims' = Claims /\ FreeUnits' = FreeUnits
  BY DEF vars, Claims, Claim, FreeUnits, Free, Owed
<1> QED
  BY <1>1 DEF Ledger!lvars, Claims, FreeUnits, vars

(***************************************************************************)
(* The custody contracts implement ClaimsLedger (KeepsPromise): if the     *)
(* admin makes nobody but the facade a router, every unit of every asset   *)
(* is always a holder's claim, the treasury's or free, none is created or  *)
(* lost, only a holder shrinks a claim, and each reward is split evenly.   *)
(***************************************************************************)
THEOREM ImplementsClaimsLedger ==
  ASSUME RouterCandidates \subseteq {Protocol}
  PROVE  Spec => KeepsPromise
<1>1. Init => Ledger!LedgerInit
  BY InitIsLedgerInit
<1>2. Inv /\ Inv' /\ FacadeRoutes /\ [Next]_vars => [Ledger!LedgerNext]_(Ledger!lvars)
  BY TransactionIsLedgerStep, StutterIsLedgerStutter DEF Next
<1>3. Spec => []FacadeRoutes
  BY FacadeRoutesAlways
<1> QED
  BY <1>1, <1>2, <1>3, Invariance, PTL DEF Spec, KeepsPromise, Ledger!LedgerSpec
=============================================================================

-------------------------- MODULE IntentSettlerProofs --------------------------
(***************************************************************************)
(* Nothing that is signed once counts twice, for any number of users, keys *)
(* and relayers: not an order of the settler, and not a registration of    *)
(* the registry.                                                           *)
(***************************************************************************)
EXTENDS IntentSettler, TLAPS

(***************************************************************************)
(* Orders.  A nonce that is not used has opened nothing.                   *)
(***************************************************************************)
OrdersOK ==
  /\ nonceUsed \in [Users -> SUBSET OrderNonces]
  /\ opens \in [Users -> [OrderNonces -> Nat]]
  /\ \A u \in Users, n \in OrderNonces : n \notin nonceUsed[u] => opens[u][n] = 0
  /\ OneOrderPerNonce

LEMMA OpeningKeepsOrders ==
  ASSUME OrdersOK, NEW o \in Orders, UseNonce(o.user, o.nonce), Emit(o)
  PROVE  OrdersOK'
<1> DEFINE u == o.user
<1> DEFINE n == o.nonce
<1>1. u \in Users /\ n \in OrderNonces /\ n \notin nonceUsed[u] /\ opens[u][n] = 0
  BY DEF Orders, UseNonce, OrdersOK
<1>2. nonceUsed' = [nonceUsed EXCEPT ![u] = @ \cup {n}]
  BY DEF UseNonce
<1>3. opens' = [opens EXCEPT ![u][n] = 1]
  BY <1>1 DEF Emit, AtMostTwo, OrdersOK
<1>4. /\ nonceUsed' \in [Users -> SUBSET OrderNonces]
      /\ opens' \in [Users -> [OrderNonces -> Nat]]
  BY <1>1, <1>2, <1>3 DEF OrdersOK
<1>5. \A v \in Users, m \in OrderNonces :
        m \notin nonceUsed'[v] => m \notin nonceUsed[v] /\ ~(v = u /\ m = n)
  BY <1>1, <1>2 DEF OrdersOK
<1>6. \A v \in Users, m \in OrderNonces :
        opens'[v][m] = IF v = u /\ m = n THEN 1 ELSE opens[v][m]
  BY <1>1, <1>3 DEF OrdersOK
<1> QED
  BY <1>4, <1>5, <1>6 DEF OrdersOK, OneOrderPerNonce

LEMMA NextKeepsOrders == OrdersOK /\ [Next]_vars => OrdersOK'
<1> SUFFICES ASSUME OrdersOK, [Next]_vars PROVE OrdersOK'
  OBVIOUS
<1>0. ASSUME UNCHANGED <<nonceUsed, opens>> PROVE OrdersOK'
  BY <1>0 DEF OrdersOK, OneOrderPerNonce
<1>1. ASSUME NEW o \in Orders, Open(o) PROVE OrdersOK'
  BY <1>1, OpeningKeepsOrders DEF Open
<1>2. ASSUME NEW o \in Orders, OpenFor(o) PROVE OrdersOK'
  BY <1>2, OpeningKeepsOrders DEF OpenFor
<1>3. ASSUME NEW o \in Orders, NEW s \in Relayers, FulfillIntent(s, o) PROVE OrdersOK'
  BY <1>2, <1>3 DEF FulfillIntent
<1>4. CASE RegistryNext /\ UNCHANGED <<settlerVars, opens>>
  BY <1>0, <1>4 DEF settlerVars
<1>5. ASSUME NEW on \in BOOLEAN, SetSessionKeyRegistry(on) \/ SetLifiAdapter(on) PROVE OrdersOK'
  BY <1>0, <1>5 DEF SetSessionKeyRegistry, SetLifiAdapter
<1>6. ASSUME NEW s \in Relayers, NEW enabled \in BOOLEAN, SetSolver(s, enabled) PROVE OrdersOK'
  BY <1>0, <1>6 DEF SetSolver
<1>7. CASE UNCHANGED vars
  BY <1>0, <1>7 DEF vars
<1> QED
  BY <1>1, <1>2, <1>3, <1>4, <1>5, <1>6, <1>7 DEF Next

(***************************************************************************)
(* A nonce yields one Open event, whoever submits the order, with whose    *)
(* signature, and through which entry point.                               *)
(***************************************************************************)
THEOREM OneOrder == Spec => []OneOrderPerNonce
<1>1. Init => OrdersOK
  BY DEF Init, OrdersOK, OneOrderPerNonce
<1>2. OrdersOK => OneOrderPerNonce
  BY DEF OrdersOK
<1> QED
  BY <1>1, <1>2, NextKeepsOrders, PTL DEF Spec

-----------------------------------------------------------------------------
(***************************************************************************)
(* Signed registrations.  A nonce the registry has not reached has         *)
(* registered nothing, so an older request is refused by its nonce.        *)
(***************************************************************************)
RequestsOK ==
  /\ nonces \in [Users -> Nat]
  /\ accepted \in [Users -> [0 .. MaxNonce -> Nat]]
  /\ \A r \in signed : r.user \in Users /\ r.nonce \in 0 .. MaxNonce
  /\ \A u \in Users, n \in 0 .. MaxNonce : n >= nonces[u] => accepted[u][n] = 0
  /\ OneRequestPerNonce

LEMMA SigningKeepsRequests ==
  ASSUME RequestsOK, NEW u \in Users, NEW k, NEW e, NEW d, NEW g, SignRequest(u, k, e, d, g)
  PROVE  RequestsOK'
<1> DEFINE r == [user |-> u, key |-> k, expiresAt |-> e, nonce |-> nonces[u],
                 deadline |-> d, grant |-> g]
<1>1. signed' = signed \cup {r} /\ UNCHANGED <<nonces, accepted>>
  BY DEF SignRequest
<1>2. r.user \in Users /\ r.nonce \in 0 .. MaxNonce
  BY RegistryAssumption DEF SignRequest, RequestsOK
<1> QED
  BY <1>1, <1>2 DEF RequestsOK, OneRequestPerNonce

LEMMA RelayingKeepsRequests ==
  ASSUME RequestsOK, NEW r \in signed, RegisterSessionKeyWithSig(r)
  PROVE  RequestsOK'
<1> DEFINE u == r.user
<1> DEFINE n == r.nonce
<1>1. u \in Users /\ n \in 0 .. MaxNonce /\ n = nonces[u] /\ accepted[u][n] = 0
  BY DEF RequestsOK, RegisterSessionKeyWithSig
<1>2. /\ nonces' = [nonces EXCEPT ![u] = n + 1]
      /\ accepted' = [accepted EXCEPT ![u][n] = 1]
      /\ signed' = signed
  BY <1>1 DEF RegisterSessionKeyWithSig, AtMostTwo, RequestsOK
<1>3. /\ nonces' \in [Users -> Nat]
      /\ accepted' \in [Users -> [0 .. MaxNonce -> Nat]]
  BY <1>1, <1>2 DEF RequestsOK
<1>4. \A v \in Users, m \in 0 .. MaxNonce :
        accepted'[v][m] = IF v = u /\ m = n THEN 1 ELSE accepted[v][m]
  BY <1>1, <1>2 DEF RequestsOK
<1>5. \A v \in Users : nonces'[v] = IF v = u THEN nonces[v] + 1 ELSE nonces[v]
  BY <1>1, <1>2 DEF RequestsOK
<1>6. \A v \in Users, m \in 0 .. MaxNonce : m >= nonces'[v] => accepted'[v][m] = 0
  BY <1>1, <1>4, <1>5 DEF RequestsOK
<1> QED
  BY <1>2, <1>3, <1>4, <1>6 DEF RequestsOK, OneRequestPerNonce

LEMMA NextKeepsRequests == RequestsOK /\ [Next]_vars => RequestsOK'
<1> SUFFICES ASSUME RequestsOK, [Next]_vars PROVE RequestsOK'
  OBVIOUS
<1>0. ASSUME UNCHANGED <<nonces, accepted, signed>> PROVE RequestsOK'
  BY <1>0 DEF RequestsOK, OneRequestPerNonce
<1>1. ASSUME NEW o \in Orders, Open(o) \/ OpenFor(o) \/ \E s \in Relayers : FulfillIntent(s, o)
      PROVE  RequestsOK'
  BY <1>0, <1>1 DEF Open, OpenFor, FulfillIntent, registryVars
<1>2. CASE RegistryNext
  <2>1. CASE Tick
    BY <1>0, <2>1 DEF Tick
  <2>2. ASSUME NEW u \in Users, NEW k \in Keys, NEW e \in 1 .. MaxTime + 1, NEW g \in Grants,
               RegisterSessionKey(u, k, e, g)
        PROVE  RequestsOK'
    BY <1>0, <2>2 DEF RegisterSessionKey
  <2>3. ASSUME NEW u \in Users, NEW k \in Keys, NEW e \in 1 .. MaxTime + 1, NEW g \in Grants,
               NEW d \in 0 .. MaxTime, SignRequest(u, k, e, d, g)
        PROVE  RequestsOK'
    BY <2>3, SigningKeepsRequests
  <2>4. ASSUME NEW r \in signed, RegisterSessionKeyWithSig(r) PROVE RequestsOK'
    BY <2>4, RelayingKeepsRequests
  <2>5. ASSUME NEW u \in Users, NEW k \in Keys, NEW t \in Tokens, NEW cap \in NewCaps,
               SetCap(u, k, t, cap)
        PROVE  RequestsOK'
    BY <1>0, <2>5 DEF SetCap
  <2>6. ASSUME NEW u \in Users, NEW k \in Keys, RevokeSessionKey(u, k) PROVE RequestsOK'
    BY <1>0, <2>6 DEF RevokeSessionKey
  <2> QED
    BY <1>2, <2>1, <2>2, <2>3, <2>4, <2>5, <2>6 DEF RegistryNext
<1>3. ASSUME NEW on \in BOOLEAN, SetSessionKeyRegistry(on) \/ SetLifiAdapter(on)
      PROVE  RequestsOK'
  BY <1>0, <1>3 DEF SetSessionKeyRegistry, SetLifiAdapter, registryVars
<1>4. ASSUME NEW s \in Relayers, NEW enabled \in BOOLEAN, SetSolver(s, enabled)
      PROVE  RequestsOK'
  BY <1>0, <1>4 DEF SetSolver, registryVars
<1>5. CASE UNCHANGED vars
  BY <1>0, <1>5 DEF vars
<1> QED
  BY <1>1, <1>2, <1>3, <1>4, <1>5 DEF Next

(***************************************************************************)
(* Of all requests a user signed with one nonce, one registers, and once,  *)
(* in whatever order and how often they are relayed.                       *)
(***************************************************************************)
THEOREM OneRequest == Spec => []OneRequestPerNonce
<1>1. Init => RequestsOK
  BY RegistryAssumption DEF Init, RegistryInit, RequestsOK, OneRequestPerNonce
<1>2. RequestsOK => OneRequestPerNonce
  BY DEF RequestsOK
<1> QED
  BY <1>1, <1>2, NextKeepsRequests, PTL DEF Spec

-----------------------------------------------------------------------------
(***************************************************************************)
(* Spends by session keys.  An active key is one whose user acted last by  *)
(* a grant, and a cap that counts is one that was granted.                 *)
(***************************************************************************)
KeysOK ==
  /\ sessionKeys \in [Owners -> [Keys -> [expiresAt : Int, active : BOOLEAN]]]
  /\ caps \in [Owners -> [Keys -> [Tokens -> Int]]]
  /\ \A r \in signed : r.user \in Users /\ r.key \in Keys /\ r.expiresAt \in Int
                       /\ r.grant \in Grants

GrantsOK ==
  /\ \A u \in Users, k \in Keys : sessionKeys[u][k].active => <<u, k>> \in live
  /\ \A u \in Users, k \in Keys, t \in Tokens :
       caps[u][k][t] # 0 => <<u, k, t, caps[u][k][t]>> \in ever

LEMMA RegisteringKeepsGrants ==
  ASSUME KeysOK, GrantsOK, NEW u \in Users, NEW k \in Keys, NEW e \in Int, NEW g \in Grants,
         Register(u, k, e, g)
  PROVE  /\ GrantsOK'
         /\ sessionKeys' \in [Owners -> [Keys -> [expiresAt : Int, active : BOOLEAN]]]
         /\ caps' \in [Owners -> [Keys -> [Tokens -> Int]]]
<1> DEFINE key == [expiresAt |-> e, active |-> TRUE]
<1> DEFINE new == Listed(g, caps[u][k])
<1>1. u \in Owners /\ key \in [expiresAt : Int, active : BOOLEAN]
  BY DEF Owners
<1>2. /\ sessionKeys' = [sessionKeys EXCEPT ![u][k] = key]
      /\ caps' = [caps EXCEPT ![u][k] = new]
  BY DEF Register
<1>3. new \in [Tokens -> Int]
  BY <1>1, RegistryAssumption DEF Listed, KeysOK
<1>4. sessionKeys' \in [Owners -> [Keys -> [expiresAt : Int, active : BOOLEAN]]]
  <2> HIDE DEF key
  <2> QED  BY <1>1, <1>2 DEF KeysOK
<1>5. caps' \in [Owners -> [Keys -> [Tokens -> Int]]]
  <2> HIDE DEF new
  <2> QED  BY <1>1, <1>2, <1>3 DEF KeysOK
<1>6. \A v \in Users, j \in Keys :
        v # u \/ j # k => sessionKeys'[v][j] = sessionKeys[v][j] /\ caps'[v][j] = caps[v][j]
  <2> HIDE DEF key, new
  <2> QED  BY <1>1, <1>2 DEF KeysOK, Owners
<1>7. caps'[u][k] = new
  <2> HIDE DEF new
  <2> QED  BY <1>1, <1>2 DEF KeysOK
<1>8. \A v \in Users, j \in Keys : sessionKeys'[v][j].active => <<v, j>> \in live'
  <2> SUFFICES ASSUME NEW v \in Users, NEW j \in Keys, sessionKeys'[v][j].active
               PROVE  <<v, j>> \in live'
    OBVIOUS
  <2>1. CASE v = u /\ j = k
    BY <2>1 DEF Register
  <2>2. CASE v # u \/ j # k
    BY <1>6, <2>2 DEF Register, GrantsOK
  <2> QED  BY <2>1, <2>2
<1>9. \A v \in Users, j \in Keys, t \in Tokens :
        caps'[v][j][t] # 0 => <<v, j, t, caps'[v][j][t]>> \in ever'
  <2> SUFFICES ASSUME NEW v \in Users, NEW j \in Keys, NEW t \in Tokens, caps'[v][j][t] # 0
               PROVE  <<v, j, t, caps'[v][j][t]>> \in ever'
    OBVIOUS
  <2>1. CASE v = u /\ j = k /\ t \in DOMAIN g
    BY <1>7, <2>1 DEF Register, Listed
  <2>2. CASE v = u /\ j = k /\ t \notin DOMAIN g
    BY <1>7, <2>2 DEF Register, Listed, GrantsOK
  <2>3. CASE v # u \/ j # k
    BY <1>6, <2>3 DEF Register, GrantsOK
  <2> QED  BY <2>1, <2>2, <2>3
<1> QED  BY <1>4, <1>5, <1>8, <1>9 DEF GrantsOK

LEMMA NextKeepsGrants == KeysOK /\ GrantsOK /\ [Next]_vars => KeysOK' /\ GrantsOK'
<1> SUFFICES ASSUME KeysOK, GrantsOK, [Next]_vars PROVE KeysOK' /\ GrantsOK'
  OBVIOUS
<1>0. ASSUME UNCHANGED <<sessionKeys, caps, signed, ever, live>> PROVE KeysOK' /\ GrantsOK'
  BY <1>0 DEF KeysOK, GrantsOK
<1>1. ASSUME NEW o \in Orders, Open(o) \/ OpenFor(o) \/ \E s \in Relayers : FulfillIntent(s, o)
      PROVE  KeysOK' /\ GrantsOK'
  BY <1>0, <1>1 DEF Open, OpenFor, FulfillIntent, registryVars
<1>2. CASE RegistryNext
  <2>1. CASE Tick
    BY <1>0, <2>1 DEF Tick, grants
  <2>2. ASSUME NEW u \in Users, NEW k \in Keys, NEW e \in 1 .. MaxTime + 1, NEW g \in Grants,
               RegisterSessionKey(u, k, e, g)
        PROVE  KeysOK' /\ GrantsOK'
    BY <2>2, RegisteringKeepsGrants DEF RegisterSessionKey, KeysOK
  <2>3. ASSUME NEW u \in Users, NEW k \in Keys, NEW e \in 1 .. MaxTime + 1, NEW g \in Grants,
               NEW d \in 0 .. MaxTime, SignRequest(u, k, e, d, g)
        PROVE  KeysOK' /\ GrantsOK'
    BY <2>3 DEF SignRequest, KeysOK, GrantsOK, grants
  <2>4. ASSUME NEW r \in signed, RegisterSessionKeyWithSig(r) PROVE KeysOK' /\ GrantsOK'
    <3>1. r.user \in Users /\ r.key \in Keys /\ r.expiresAt \in Int /\ r.grant \in Grants
      BY DEF KeysOK
    <3>2. Register(r.user, r.key, r.expiresAt, r.grant) /\ UNCHANGED signed
      BY <2>4 DEF RegisterSessionKeyWithSig
    <3> QED  BY <3>1, <3>2, RegisteringKeepsGrants DEF KeysOK
  <2>5. ASSUME NEW u \in Users, NEW k \in Keys, NEW t \in Tokens, NEW cap \in NewCaps,
               SetCap(u, k, t, cap)
        PROVE  KeysOK' /\ GrantsOK'
    <3>1. /\ caps' = [caps EXCEPT ![u][k][t] = cap]
          /\ ever' = ever \cup {<<u, k, t, cap>>}
          /\ UNCHANGED <<sessionKeys, signed, live>>
      BY <2>5 DEF SetCap
    <3>2. u \in Owners /\ cap \in Int
      BY RegistryAssumption DEF Owners
    <3>3. caps' \in [Owners -> [Keys -> [Tokens -> Int]]]
      BY <3>1, <3>2 DEF KeysOK
    <3>4. \A v \in Users, j \in Keys, x \in Tokens :
            caps'[v][j][x] = IF v = u /\ j = k /\ x = t THEN cap ELSE caps[v][j][x]
      BY <3>1, <3>2 DEF KeysOK, Owners
    <3>5. \A v \in Users, j \in Keys, x \in Tokens :
            caps'[v][j][x] # 0 => <<v, j, x, caps'[v][j][x]>> \in ever'
      BY <3>1, <3>4 DEF GrantsOK
    <3> QED  BY <3>1, <3>3, <3>5 DEF KeysOK, GrantsOK
  <2>6. ASSUME NEW u \in Users, NEW k \in Keys, RevokeSessionKey(u, k)
        PROVE  KeysOK' /\ GrantsOK'
    <3>1. /\ sessionKeys' = [sessionKeys EXCEPT ![u][k].active = FALSE]
          /\ live' = live \ {<<u, k>>}
          /\ UNCHANGED <<caps, signed, ever>>
      BY <2>6 DEF RevokeSessionKey
    <3>2. u \in Owners
      BY DEF Owners
    <3> DEFINE was == sessionKeys[u][k]
    <3> DEFINE dead == [was EXCEPT !.active = FALSE]
    <3>a. was \in [expiresAt : Int, active : BOOLEAN]
      BY <3>2 DEF KeysOK
    <3>b. dead \in [expiresAt : Int, active : BOOLEAN]
      BY <3>a
    <3>c. sessionKeys' = [sessionKeys EXCEPT ![u][k] = dead]
      BY <3>1
    <3>3. sessionKeys' \in [Owners -> [Keys -> [expiresAt : Int, active : BOOLEAN]]]
      <4> HIDE DEF dead
      <4> QED  BY <3>2, <3>b, <3>c DEF KeysOK
    <3>4. ~sessionKeys'[u][k].active
      BY <3>1, <3>2 DEF KeysOK
    <3>5. \A v \in Users, j \in Keys :
            v # u \/ j # k => sessionKeys'[v][j] = sessionKeys[v][j]
      BY <3>1, <3>2 DEF KeysOK, Owners
    <3>6. \A v \in Users, j \in Keys : sessionKeys'[v][j].active => <<v, j>> \in live'
      BY <3>1, <3>4, <3>5 DEF GrantsOK
    <3> QED  BY <3>1, <3>3, <3>6 DEF KeysOK, GrantsOK
  <2> QED
    BY <1>2, <2>1, <2>2, <2>3, <2>4, <2>5, <2>6 DEF RegistryNext
<1>3. ASSUME NEW on \in BOOLEAN, SetSessionKeyRegistry(on) \/ SetLifiAdapter(on)
      PROVE  KeysOK' /\ GrantsOK'
  BY <1>0, <1>3 DEF SetSessionKeyRegistry, SetLifiAdapter, registryVars
<1>4. ASSUME NEW s \in Relayers, NEW enabled \in BOOLEAN, SetSolver(s, enabled)
      PROVE  KeysOK' /\ GrantsOK'
  BY <1>0, <1>4 DEF SetSolver, registryVars
<1>5. CASE UNCHANGED vars
  BY <1>0, <1>5 DEF vars
<1> QED
  BY <1>1, <1>2, <1>3, <1>4, <1>5 DEF Next

(***************************************************************************)
(* A session key opens an order only while its user's last word on it was  *)
(* a grant that has not run out, and within a cap the user granted it.     *)
(***************************************************************************)
LEMMA SpendWasGranted ==
  ASSUME KeysOK, GrantsOK, NEW o \in Orders, o.signer # o.user, OpenFor(o)
  PROVE  /\ <<o.user, o.signer>> \in live
         /\ now < sessionKeys[o.user][o.signer].expiresAt
         /\ \E g \in ever : /\ g[1] = o.user /\ g[2] = o.signer
                            /\ g[3] = o.token /\ o.amount <= g[4]
<1> DEFINE u == o.user
<1> DEFINE k == o.signer
<1>1. EnforceSessionKeySpend(u, k, o.token, o.amount)
  BY DEF OpenFor
<1>2. u \in Users /\ k \in Keys /\ o.token \in Tokens /\ u \in Owners
  BY <1>1 DEF EnforceSessionKeySpend, Orders, Owners
<1>3. <<u, k>> \in live
  BY <1>1, <1>2 DEF EnforceSessionKeySpend, IsSessionKeyActive, GrantsOK
<1>4. now < sessionKeys[u][k].expiresAt
  BY <1>1 DEF EnforceSessionKeySpend, IsSessionKeyActive
<1> DEFINE g == <<u, k, o.token, caps[u][k][o.token]>>
<1>5. g \in ever
  BY <1>1, <1>2 DEF EnforceSessionKeySpend, GrantsOK
<1>6. g[1] = u /\ g[2] = k /\ g[3] = o.token /\ o.amount <= g[4]
  BY <1>1 DEF EnforceSessionKeySpend
<1> QED  BY <1>3, <1>4, <1>5, <1>6

\* The body of KeySpendsWereGranted.
LEMMA StepSpendsWhatWasGranted ==
  KeysOK /\ GrantsOK /\ [Next]_vars =>
    [opened' # opened /\ ByKey(opened') =>
       LET o == opened'
       IN  /\ <<o.user, o.signer>> \in live
           /\ now < sessionKeys[o.user][o.signer].expiresAt
           /\ \E g \in ever : /\ g[1] = o.user /\ g[2] = o.signer
                              /\ g[3] = o.token /\ o.amount <= g[4]]_vars
<1> SUFFICES ASSUME KeysOK, GrantsOK, Next, opened' # opened, ByKey(opened')
             PROVE  LET o == opened'
                    IN  /\ <<o.user, o.signer>> \in live
                        /\ now < sessionKeys[o.user][o.signer].expiresAt
                        /\ \E g \in ever : /\ g[1] = o.user /\ g[2] = o.signer
                                           /\ g[3] = o.token /\ o.amount <= g[4]
  BY DEF vars
<1>1. PICK o \in Orders : Open(o) \/ OpenFor(o)
  BY DEF Next, ByKey, FulfillIntent
<1>2. opened' = [user |-> o.user, signer |-> o.signer, token |-> o.token, amount |-> o.amount]
  BY <1>1 DEF Open, OpenFor, Emit
<1>3. o.signer # o.user
  BY <1>2 DEF ByKey
<1>4. OpenFor(o)
  BY <1>1, <1>3 DEF Open
<1> QED  BY <1>2, <1>3, <1>4, SpendWasGranted

THEOREM KeysSpendWhatWasGranted == Spec => KeySpendsWereGranted
<1>1. Init => KeysOK /\ GrantsOK
  BY DEF Init, RegistryInit, KeysOK, GrantsOK, NoKey, NoCaps, Owners
<1> QED
  BY <1>1, NextKeepsGrants, StepSpendsWhatWasGranted, PTL DEF Spec, KeySpendsWereGranted

-----------------------------------------------------------------------------
(***************************************************************************)
(* Types.                                                                  *)
(***************************************************************************)
Key == [expiresAt : Nat, active : BOOLEAN]

LEMMA RegisterTyped ==
  ASSUME RegistryTypeOK, NEW u \in Users, NEW k \in Keys, NEW e \in Nat, NEW g \in Grants,
         Register(u, k, e, g)
  PROVE  /\ sessionKeys' \in [Owners -> [Keys -> Key]]
         /\ caps' \in [Owners -> [Keys -> [Tokens -> Nat]]]
         /\ ever' \subseteq Users \X Keys \X Tokens \X Nat
         /\ live' \subseteq Users \X Keys
<1> DEFINE key == [expiresAt |-> e, active |-> TRUE]
<1> DEFINE new == Listed(g, caps[u][k])
<1>1. u \in Owners /\ key \in Key
  BY DEF Owners, Key
<1>2. new \in [Tokens -> Nat]
  BY <1>1, RegistryAssumption DEF Listed, RegistryTypeOK
<1>3. /\ sessionKeys' = [sessionKeys EXCEPT ![u][k] = key]
      /\ caps' = [caps EXCEPT ![u][k] = new]
  BY DEF Register
<1> HIDE DEF key, new
<1>4. /\ sessionKeys' \in [Owners -> [Keys -> Key]]
      /\ caps' \in [Owners -> [Keys -> [Tokens -> Nat]]]
  BY <1>1, <1>2, <1>3 DEF RegistryTypeOK, Key
<1>5. \A t \in DOMAIN g : <<u, k, t, g[t]>> \in Users \X Keys \X Tokens \X Nat
  BY RegistryAssumption
<1> QED  BY <1>4, <1>5 DEF Register, RegistryTypeOK

LEMMA RegistryNextTyped ==
  ASSUME RegistryTypeOK, RegistryNext
  PROVE  RegistryTypeOK'
<1>0. UNCHANGED <<sessionKeys, caps, ever, live>> =>
        /\ sessionKeys' \in [Owners -> [Keys -> Key]]
        /\ caps' \in [Owners -> [Keys -> [Tokens -> Nat]]]
        /\ ever' \subseteq Users \X Keys \X Tokens \X Nat
        /\ live' \subseteq Users \X Keys
  BY DEF RegistryTypeOK, Key
<1>1. CASE Tick
  <2>1. now' \in 0 .. MaxTime
    BY <1>1, RegistryAssumption DEF Tick, RegistryTypeOK
  <2> QED  BY <1>0, <1>1, <2>1 DEF Tick, grants, RegistryTypeOK, Key
<1>2. ASSUME NEW u \in Users, NEW k \in Keys, NEW e \in 1 .. MaxTime + 1, NEW g \in Grants,
             RegisterSessionKey(u, k, e, g)
      PROVE  RegistryTypeOK'
  <2>1. e \in Nat
    BY RegistryAssumption
  <2> QED  BY <1>2, <2>1, RegisterTyped DEF RegisterSessionKey, RegistryTypeOK, Key
<1>3. ASSUME NEW u \in Users, NEW k \in Keys, NEW e \in 1 .. MaxTime + 1, NEW g \in Grants,
             NEW d \in 0 .. MaxTime, SignRequest(u, k, e, d, g)
      PROVE  RegistryTypeOK'
  <2> DEFINE r == [user |-> u, key |-> k, expiresAt |-> e, nonce |-> nonces[u],
                   deadline |-> d, grant |-> g]
  <2>1. signed' = signed \cup {r}
    BY <1>3 DEF SignRequest
  <2>2. e \in Nat /\ d \in Nat /\ nonces[u] \in 0 .. MaxNonce
    BY <1>3, RegistryAssumption DEF SignRequest, RegistryTypeOK
  <2>3. r \in Requests
    BY <2>2 DEF Requests
  <2> HIDE DEF r
  <2> QED  BY <1>0, <1>3, <2>1, <2>3 DEF SignRequest, grants, RegistryTypeOK, Key
<1>4. ASSUME NEW r \in signed, RegisterSessionKeyWithSig(r) PROVE RegistryTypeOK'
  <2>1. /\ r.user \in Users /\ r.key \in Keys /\ r.expiresAt \in Nat /\ r.grant \in Grants
        /\ r.nonce \in 0 .. MaxNonce
    BY DEF RegistryTypeOK, Requests
  <2>2. /\ Register(r.user, r.key, r.expiresAt, r.grant)
        /\ UNCHANGED <<now, signed>>
        /\ nonces' = [nonces EXCEPT ![r.user] = r.nonce + 1]
        /\ accepted' = [accepted EXCEPT ![r.user][r.nonce] = AtMostTwo(@ + 1)]
    BY <1>4 DEF RegisterSessionKeyWithSig
  <2>3. r.nonce + 1 \in 0 .. MaxNonce + 1
    BY <2>1, RegistryAssumption
  <2>4. nonces' \in [Users -> 0 .. MaxNonce + 1]
    BY <2>1, <2>2, <2>3 DEF RegistryTypeOK
  <2>a. accepted[r.user][r.nonce] \in 0 .. 2
    BY <2>1 DEF RegistryTypeOK
  <2>5. AtMostTwo(accepted[r.user][r.nonce] + 1) \in 0 .. 2
    BY <2>a DEF AtMostTwo
  <2> DEFINE n == AtMostTwo(accepted[r.user][r.nonce] + 1)
  <2>6. accepted' = [accepted EXCEPT ![r.user][r.nonce] = n]
    BY <2>2
  <2> HIDE DEF n
  <2>7. accepted' \in [Users -> [0 .. MaxNonce -> 0 .. 2]]
    BY <2>1, <2>5, <2>6 DEF RegistryTypeOK, n
  <2> QED  BY <2>1, <2>2, <2>4, <2>7, RegisterTyped DEF RegistryTypeOK, Key
<1>5. ASSUME NEW u \in Users, NEW k \in Keys, NEW t \in Tokens, NEW cap \in NewCaps,
             SetCap(u, k, t, cap)
      PROVE  RegistryTypeOK'
  <2>1. u \in Owners /\ cap \in Nat
    BY RegistryAssumption DEF Owners
  <2>2. caps' \in [Owners -> [Keys -> [Tokens -> Nat]]]
    BY <1>5, <2>1 DEF SetCap, RegistryTypeOK
  <2>3. ever' \subseteq Users \X Keys \X Tokens \X Nat
    BY <1>5, <2>1 DEF SetCap, RegistryTypeOK
  <2> QED  BY <1>5, <2>2, <2>3 DEF SetCap, RegistryTypeOK
<1>6. ASSUME NEW u \in Users, NEW k \in Keys, RevokeSessionKey(u, k) PROVE RegistryTypeOK'
  <2>1. u \in Owners /\ sessionKeys[u][k] \in Key
    BY DEF Owners, RegistryTypeOK, Key
  <2> DEFINE dead == [sessionKeys[u][k] EXCEPT !.active = FALSE]
  <2>2. dead \in Key
    BY <2>1 DEF Key
  <2>3. sessionKeys' = [sessionKeys EXCEPT ![u][k] = dead]
    BY <1>6 DEF RevokeSessionKey
  <2> HIDE DEF dead
  <2>4. sessionKeys' \in [Owners -> [Keys -> Key]]
    BY <2>1, <2>2, <2>3 DEF RegistryTypeOK, Key
  <2> QED  BY <1>6, <2>4 DEF RevokeSessionKey, RegistryTypeOK, Key
<1> QED
  BY <1>1, <1>2, <1>3, <1>4, <1>5, <1>6 DEF RegistryNext

LEMMA EmitTyped ==
  ASSUME TypeOK, NEW o \in Orders, UseNonce(o.user, o.nonce), Emit(o),
         UNCHANGED <<registryVars, registrySet, refusing, solvers>>
  PROVE  TypeOK'
<1>1. /\ o.user \in Users /\ o.signer \in Signers /\ o.nonce \in OrderNonces
      /\ o.token \in Tokens /\ o.amount \in Amounts
  BY DEF Orders
<1>2. opened' \in [user : Users, signer : Signers, token : Tokens, amount : Amounts]
  BY <1>1 DEF Emit
<1>3. nonceUsed' \in [Users -> SUBSET OrderNonces]
  BY <1>1 DEF UseNonce, TypeOK
<1> DEFINE n == AtMostTwo(opens[o.user][o.nonce] + 1)
<1>4. n \in 0 .. 2
  BY <1>1 DEF AtMostTwo, TypeOK
<1>5. opens' = [opens EXCEPT ![o.user][o.nonce] = n]
  BY DEF Emit
<1> HIDE DEF n
<1>6. opens' \in [Users -> [OrderNonces -> 0 .. 2]]
  BY <1>1, <1>4, <1>5 DEF TypeOK
<1> QED
  BY <1>2, <1>3, <1>6 DEF TypeOK, RegistryTypeOK, registryVars

LEMMA NextTyped == TypeOK /\ [Next]_vars => TypeOK'
<1> SUFFICES ASSUME TypeOK, [Next]_vars PROVE TypeOK'
  OBVIOUS
<1>1. ASSUME NEW o \in Orders, Open(o) \/ OpenFor(o) \/ \E s \in Relayers : FulfillIntent(s, o)
      PROVE  TypeOK'
  BY <1>1, EmitTyped DEF Open, OpenFor, FulfillIntent
<1>2. CASE opened' = None /\ RegistryNext /\ UNCHANGED <<settlerVars, opens>>
  BY <1>2, RegistryNextTyped DEF TypeOK, settlerVars
<1>3. ASSUME NEW on \in BOOLEAN, opened' = None, SetSessionKeyRegistry(on) \/ SetLifiAdapter(on)
      PROVE  TypeOK'
  BY <1>3 DEF SetSessionKeyRegistry, SetLifiAdapter, TypeOK, RegistryTypeOK, registryVars
<1>4. ASSUME NEW s \in Relayers, NEW enabled \in BOOLEAN, opened' = None, SetSolver(s, enabled)
      PROVE  TypeOK'
  BY <1>4 DEF SetSolver, TypeOK, RegistryTypeOK, registryVars
<1>5. CASE UNCHANGED vars
  BY <1>5 DEF vars, TypeOK, RegistryTypeOK
<1> QED
  BY <1>1, <1>2, <1>3, <1>4, <1>5 DEF Next

(***************************************************************************)
(* No variable of the settler or the registry leaves its type; nobody but  *)
(* a user ever owns a key, and the nonce of a request never runs further   *)
(* than one ahead of those that are signed.                                *)
(***************************************************************************)
THEOREM SettlerTyped == Spec => []TypeOK
<1>1. Init => TypeOK
  <2> SUFFICES ASSUME Init PROVE TypeOK
    OBVIOUS
  <2>1. now \in 0 .. MaxTime /\ 0 \in 0 .. MaxNonce + 1
    BY RegistryAssumption DEF Init, RegistryInit
  <2>2. NoKey \in Key /\ NoCaps \in [Tokens -> Nat]
    BY DEF NoKey, NoCaps, Key
  <2>3. /\ sessionKeys \in [Owners -> [Keys -> Key]]
        /\ caps \in [Owners -> [Keys -> [Tokens -> Nat]]]
    BY <2>2 DEF Init, RegistryInit
  <2>4. /\ nonces \in [Users -> 0 .. MaxNonce + 1]
        /\ accepted \in [Users -> [0 .. MaxNonce -> 0 .. 2]]
        /\ signed \subseteq Requests
        /\ ever \subseteq Users \X Keys \X Tokens \X Nat /\ live \subseteq Users \X Keys
    BY <2>1 DEF Init, RegistryInit
  <2>5. RegistryTypeOK
    BY <2>1, <2>3, <2>4 DEF RegistryTypeOK, Key
  <2>6. /\ nonceUsed \in [Users -> SUBSET OrderNonces] /\ solvers \subseteq Relayers
        /\ registrySet \in BOOLEAN /\ refusing \in BOOLEAN /\ opened = None
    BY DEF Init
  <2>7. opens \in [Users -> [OrderNonces -> 0 .. 2]]
    BY DEF Init
  <2> QED  BY <2>5, <2>6, <2>7 DEF TypeOK
<1> QED
  BY <1>1, NextTyped, PTL DEF Spec
=============================================================================

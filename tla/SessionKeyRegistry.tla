-------------------------- MODULE SessionKeyRegistry --------------------------
(***************************************************************************)
(* The on-chain registry of session keys: which keys a user lets act for   *)
(* them, until when, and how much a key may spend per order and token.     *)
(*                                                                         *)
(* One action is one transaction; a reverting call is a guard.  The token  *)
(* and cap arrays of a registration are one partial function, a grant: the *)
(* listed tokens get the listed caps.  block.timestamp is `now'.           *)
(***************************************************************************)
EXTENDS Integers, FiniteSets

CONSTANTS
  Users,     \* the accounts that own session keys
  Keys,      \* session-key addresses
  Tokens,
  Grants,    \* partial functions from Tokens to caps: what a user may list
  Facade,    \* FlywheelProtocol's address, as a msg.sender of the registry
  NewCaps,   \* the caps setCap is called with
  MaxTime,   \* bound on the clock
  MaxNonce,  \* bound on the nonces of signed requests
  MaxSigned  \* bound on how many requests a user signs

ASSUME RegistryAssumption ==
  /\ Facade \notin Users
  /\ MaxTime \in Nat /\ MaxNonce \in Nat /\ MaxSigned \in Nat
  /\ NewCaps \subseteq Nat
  /\ \A g \in Grants : DOMAIN g \subseteq Tokens /\ \A t \in DOMAIN g : g[t] \in Nat

Owners == Users \cup {Facade}

VARIABLES
  now,         \* block.timestamp
  sessionKeys, \* sessionKeys[user][key]: expiresAt and active
  caps,        \* caps[user][key][token]: the cap per spend
  nonces,      \* nonces[user]: the next nonce of a signed request
  signed,      \* registration requests users have signed; anyone may relay them
  accepted,    \* history: accepted[user][nonce], how many signed requests took effect
  ever,        \* history: every <<user, key, token, cap>> a user has granted
  live         \* history: <<user, key>> pairs whose user acted last by a grant

grants == <<ever, live>>
registryVars == <<now, sessionKeys, caps, nonces, signed, accepted, ever, live>>

NoKey == [expiresAt |-> 0, active |-> FALSE]
NoCaps == [t \in Tokens |-> 0]

RegistryInit ==
  /\ now = 0
  /\ sessionKeys = [u \in Owners |-> [k \in Keys |-> NoKey]]
  /\ caps = [u \in Owners |-> [k \in Keys |-> NoCaps]]
  /\ nonces = [u \in Users |-> 0]
  /\ signed = {}
  /\ accepted = [u \in Users |-> [n \in 0 .. MaxNonce |-> 0]]
  /\ ever = {}
  /\ live = {}

Tick ==
  /\ now < MaxTime
  /\ now' = now + 1
  /\ UNCHANGED <<sessionKeys, caps, nonces, signed, accepted, grants>>

\* Histories count to two: what must not happen twice.
AtMostTwo(n) == IF n > 2 THEN 2 ELSE n

\* The listed tokens get the listed caps; the others keep what they had.
Listed(g, old) == [t \in Tokens |-> IF t \in DOMAIN g THEN g[t] ELSE old[t]]

\* _register
Register(u, k, expiresAt, g) ==
  /\ expiresAt > now
  /\ sessionKeys' = [sessionKeys EXCEPT ![u][k] =
                       [expiresAt |-> expiresAt, active |-> TRUE]]
  /\ caps' = [caps EXCEPT ![u][k] = Listed(g, @)]
  /\ ever' = ever \cup {<<u, k, t, g[t]>> : t \in DOMAIN g}
  /\ live' = live \cup {<<u, k>>}

RegisterSessionKey(u, k, expiresAt, g) ==
  /\ Register(u, k, expiresAt, g)
  /\ UNCHANGED <<now, nonces, signed, accepted>>

\* A user signs a registration off chain, with the nonce the registry shows.
SignRequest(u, k, expiresAt, deadline, g) ==
  /\ nonces[u] <= MaxNonce
  /\ Cardinality({r \in signed : r.user = u}) < MaxSigned
  /\ signed' = signed \cup
       {[user |-> u, key |-> k, expiresAt |-> expiresAt, nonce |-> nonces[u],
         deadline |-> deadline, grant |-> g]}
  /\ UNCHANGED <<now, sessionKeys, caps, nonces, accepted, grants>>

\* Wrong variant: the nonce is checked and not advanced.
RegisterWithSigNonceKept(r) ==
  /\ r \in signed
  /\ now <= r.deadline
  /\ r.nonce = nonces[r.user]
  /\ Register(r.user, r.key, r.expiresAt, r.grant)
  /\ accepted' = [accepted EXCEPT ![r.user][r.nonce] = AtMostTwo(@ + 1)]
  /\ UNCHANGED <<now, nonces, signed>>

\* Wrong variant: the nonce is advanced by the check and by the call.
RegisterWithSigNonceTwice(r) ==
  /\ r \in signed
  /\ now <= r.deadline
  /\ r.nonce = nonces[r.user]
  /\ nonces' = [nonces EXCEPT ![r.user] = r.nonce + 2]
  /\ Register(r.user, r.key, r.expiresAt, r.grant)
  /\ accepted' = [accepted EXCEPT ![r.user][r.nonce] = AtMostTwo(@ + 1)]
  /\ UNCHANGED <<now, signed>>

\* registerSessionKeyWithSig: a relayer submits a signed request.  The
\* facade's registerSessionKeyWithSig is the same call, passed on.
RegisterSessionKeyWithSig(r) ==
  /\ r \in signed
  /\ now <= r.deadline
  /\ r.nonce = nonces[r.user]
  /\ nonces' = [nonces EXCEPT ![r.user] = r.nonce + 1]
  /\ Register(r.user, r.key, r.expiresAt, r.grant)
  /\ accepted' = [accepted EXCEPT ![r.user][r.nonce] = AtMostTwo(@ + 1)]
  /\ UNCHANGED <<now, signed>>

SetCap(u, k, t, cap) ==
  /\ sessionKeys[u][k].active
  /\ caps' = [caps EXCEPT ![u][k][t] = cap]
  /\ ever' = ever \cup {<<u, k, t, cap>>}
  /\ UNCHANGED <<now, sessionKeys, nonces, signed, accepted, live>>

\* revokeSessionKey, for whoever is msg.sender: a user, or the facade when a
\* user calls FlywheelProtocol.revokeSessionKey.
RevokeSessionKey(sender, k) ==
  /\ sessionKeys[sender][k].active
  /\ sessionKeys' = [sessionKeys EXCEPT ![sender][k].active = FALSE]
  /\ live' = live \ {<<sender, k>>}
  /\ UNCHANGED <<now, caps, nonces, signed, accepted, ever>>

\* Wrong variant: only the expiry decides.
IsUnexpired(u, k) == sessionKeys[u][k].expiresAt > now

IsSessionKeyActive(u, k) ==
  sessionKeys[u][k].active /\ sessionKeys[u][k].expiresAt > now

RegistryNext ==
  \/ Tick
  \/ \E u \in Users, k \in Keys, e \in 1 .. MaxTime + 1, g \in Grants :
       \/ RegisterSessionKey(u, k, e, g)
       \/ \E d \in 0 .. MaxTime : SignRequest(u, k, e, d, g)
  \/ \E r \in signed : RegisterSessionKeyWithSig(r)
  \/ \E u \in Users, k \in Keys :
       \/ \E t \in Tokens, cap \in NewCaps : SetCap(u, k, t, cap)
       \/ RevokeSessionKey(u, k)

(***************************************************************************)
(* Types.  Facade never owns a key: nobody can register one for it.        *)
(***************************************************************************)
Requests ==
  [user : Users, key : Keys, expiresAt : Nat, nonce : 0 .. MaxNonce,
   deadline : Nat, grant : Grants]

RegistryTypeOK ==
  /\ now \in 0 .. MaxTime
  /\ sessionKeys \in [Owners -> [Keys -> [expiresAt : Nat, active : BOOLEAN]]]
  /\ caps \in [Owners -> [Keys -> [Tokens -> Nat]]]
  /\ nonces \in [Users -> 0 .. MaxNonce + 1]
  /\ signed \subseteq Requests
  /\ accepted \in [Users -> [0 .. MaxNonce -> 0 .. 2]]
  /\ ever \subseteq Users \X Keys \X Tokens \X Nat
  /\ live \subseteq Users \X Keys

(***************************************************************************)
(* For each of a user's nonces at most one signed request takes effect,    *)
(* and takes effect once: signing a replacement and relaying it buries the *)
(* older request, whatever its deadline is and whoever holds a copy.       *)
(***************************************************************************)
OneRequestPerNonce ==
  \A u \in Users : \A n \in 0 .. MaxNonce : accepted[u][n] <= 1
=============================================================================

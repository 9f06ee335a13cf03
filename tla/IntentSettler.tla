----------------------------- MODULE IntentSettler -----------------------------
(***************************************************************************)
(* Opening intents: IntentSettler (open, openFor), the LI.FI adapter it    *)
(* hands an order to, and the part of FlywheelProtocol that calls both it  *)
(* and the session-key registry (fulfillIntent, setSolver,                 *)
(* revokeSessionKey).                                                      *)
(*                                                                         *)
(* An order is what the checks look at: its user, who signed it, its       *)
(* nonce, its deadlines, the token and amount it spends, and whether it    *)
(* carries LI.FI calldata.  Decoding, hashing and the resolved order that  *)
(* the Open event carries are left out.                                    *)
(***************************************************************************)
EXTENDS SessionKeyRegistry

CONSTANTS
  Amounts,      \* what an order may spend
  OrderNonces,  \* order nonces
  Relayers,     \* accounts that send openFor and fulfillIntent
  None          \* the last transaction opened no order

VARIABLES
  nonceUsed,   \* nonceUsed[user]: the order nonces consumed
  registrySet, \* sessionKeyRegistry # address(0)
  refusing,    \* lifiAdapter is set and its submit fails: no role, or the call does
  solvers,     \* holders of FlywheelProtocol.SOLVER_ROLE
  opened,      \* history: the order the last transaction opened, or None
  opens        \* history: how many Open events each user and nonce has had

settlerVars == <<nonceUsed, registrySet, refusing, solvers>>
vars == <<now, sessionKeys, caps, nonces, signed, accepted, ever, live,
          nonceUsed, registrySet, refusing, solvers, opened, opens>>

Signers == Users \cup Keys

Orders ==
  [user : Users, signer : Signers, nonce : OrderNonces, openDeadline : 0 .. MaxTime,
   fillDeadline : 0 .. MaxTime, token : Tokens, amount : Amounts, lifi : BOOLEAN]

Init ==
  /\ RegistryInit
  /\ nonceUsed = [u \in Users |-> {}]
  /\ registrySet = TRUE
  /\ refusing = FALSE
  /\ solvers = Relayers
  /\ opened = None
  /\ opens = [u \in Users |-> [n \in OrderNonces |-> 0]]

\* Wrong variant: a cap of zero means no limit.
EnforceSpendZeroUnlimited(u, signer, token, amount) ==
  /\ IsSessionKeyActive(u, signer)
  /\ caps[u][signer][token] = 0 \/ amount <= caps[u][signer][token]

\* _enforceSessionKeySpend
EnforceSessionKeySpend(u, signer, token, amount) ==
  /\ signer \in Keys
  /\ IsSessionKeyActive(u, signer)
  /\ caps[u][signer][token] # 0
  /\ amount <= caps[u][signer][token]

\* Wrong variant: the nonce is recorded and not looked up.
UseNonceUnchecked(u, n) ==
  nonceUsed' = [nonceUsed EXCEPT ![u] = @ \cup {n}]

\* _useNonce
UseNonce(u, n) ==
  /\ n \notin nonceUsed[u]
  /\ nonceUsed' = [nonceUsed EXCEPT ![u] = @ \cup {n}]

\* _submitToLifi: nothing to do, or a call that must not fail.
SubmitToLifi(o) == o.lifi => ~refusing

Emit(o) ==
  /\ opened' = [user |-> o.user, signer |-> o.signer,
                 token |-> o.token, amount |-> o.amount]
  /\ opens' = [opens EXCEPT ![o.user][o.nonce] = AtMostTwo(@ + 1)]

\* open: the user is msg.sender.
Open(o) ==
  /\ o.signer = o.user
  /\ o.fillDeadline >= now
  /\ UseNonce(o.user, o.nonce)
  /\ SubmitToLifi(o)
  /\ Emit(o)
  /\ UNCHANGED <<registryVars, registrySet, refusing, solvers>>

\* openFor: anyone, with a signature of the user or of a session key.
OpenFor(o) ==
  /\ o.openDeadline >= now /\ o.fillDeadline >= now
  /\ o.signer # o.user =>
       /\ registrySet
       /\ EnforceSessionKeySpend(o.user, o.signer, o.token, o.amount)
  /\ UseNonce(o.user, o.nonce)
  /\ SubmitToLifi(o)
  /\ Emit(o)
  /\ UNCHANGED <<registryVars, registrySet, refusing, solvers>>

\* FlywheelProtocol.fulfillIntent: openFor, for solvers.
FulfillIntent(s, o) ==
  /\ s \in solvers
  /\ OpenFor(o)

\* FlywheelProtocol.revokeSessionKey: the registry sees the facade as sender.
\* Not a disjunct of Next: the facade owns no key, so the call always reverts.
FacadeRevokeSessionKey(k) == RevokeSessionKey(Facade, k)

SetSessionKeyRegistry(on) ==
  /\ registrySet' = on
  /\ UNCHANGED <<registryVars, nonceUsed, refusing, solvers, opens>>

SetLifiAdapter(refuses) ==
  /\ refusing' = refuses
  /\ UNCHANGED <<registryVars, nonceUsed, registrySet, solvers, opens>>

SetSolver(s, enabled) ==
  /\ solvers' = IF enabled THEN solvers \cup {s} ELSE solvers \ {s}
  /\ UNCHANGED <<registryVars, nonceUsed, registrySet, refusing, opens>>

Next ==
  \/ \E o \in Orders : Open(o) \/ OpenFor(o) \/ \E s \in Relayers : FulfillIntent(s, o)
  \/ /\ opened' = None
     /\ \/ RegistryNext /\ UNCHANGED <<settlerVars, opens>>
        \/ \E on \in BOOLEAN : SetSessionKeyRegistry(on)
        \/ \E refuses \in BOOLEAN : SetLifiAdapter(refuses)
        \/ \E s \in Relayers, enabled \in BOOLEAN : SetSolver(s, enabled)

Spec == Init /\ [][Next]_vars

(***************************************************************************)
(* Types.                                                                  *)
(***************************************************************************)
TypeOK ==
  /\ RegistryTypeOK
  /\ nonceUsed \in [Users -> SUBSET OrderNonces]
  /\ registrySet \in BOOLEAN
  /\ refusing \in BOOLEAN
  /\ solvers \subseteq Relayers
  /\ opened = None
     \/ opened \in [user : Users, signer : Signers, token : Tokens, amount : Amounts]
  /\ opens \in [Users -> [OrderNonces -> 0 .. 2]]

(***************************************************************************)
(* One order per nonce: whether the user opens it, a relayer opens it with *)
(* the user's signature or a solver with a session key's, and in whatever  *)
(* order they come, a nonce yields one Open event.                         *)
(***************************************************************************)
OneOrderPerNonce ==
  \A u \in Users, n \in OrderNonces : opens[u][n] <= 1

(***************************************************************************)
(* A session key opens an order only while its user's last word on it was  *)
(* a grant that has not run out, and for no more than the user has granted *)
(* that key for that token at some time.                                   *)
(***************************************************************************)
ByKey(o) == o # None /\ o.signer # o.user

KeySpendsWereGranted ==
  [][opened' # opened /\ ByKey(opened') =>
       LET o == opened'
       IN  /\ <<o.user, o.signer>> \in live
           /\ now < sessionKeys[o.user][o.signer].expiresAt
           /\ \E g \in ever : /\ g[1] = o.user /\ g[2] = o.signer
                              /\ g[3] = o.token /\ o.amount <= g[4]]_vars
=============================================================================

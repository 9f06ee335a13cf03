--------------------------- MODULE DelegationService ---------------------------
(***************************************************************************)
(* The backend's table of session keys: DelegationService, which registers *)
(* (POST /delegation/register), revokes (POST /delegation/revoke) and      *)
(* validates keys.                                                         *)
(*                                                                         *)
(* A pair is a user with one of the user's session keys; the table has at  *)
(* most one row per pair (@@unique in schema.prisma) and rows are never    *)
(* deleted.  Calls run concurrently; a step is what a call does from one   *)
(* await to the next, that is one query with what follows its answer.  Any *)
(* await may reject, before its effect (Fail) or after it, and the call    *)
(* throws; an invalid signature is a rejection at "verify".  A client may  *)
(* send any expiry; the clock stops at MaxTime, a bound.                   *)
(***************************************************************************)
EXTENDS Integers

CONSTANTS
  Pairs,
  Registrations, \* calls of registerSessionKey
  Revocations,   \* calls of revokeSessionKey
  Validations,   \* calls of validateSessionKey
  MaxTime,       \* bound on the clock
  NoRow

Rows == [status : {"ACTIVE", "REVOKED", "EXPIRED"}, expiresAt : 1 .. MaxTime + 1]

ASSUME DelegationAssumption ==
  /\ MaxTime \in Nat
  /\ NoRow \notin Rows
  /\ Registrations \cap Revocations = {}
  /\ Validations \cap (Registrations \cup Revocations) = {}

VARIABLES
  now,
  sessionKey, \* sessionKey[pair]: the row, or NoRow
  job,        \* job[call]: its step and local variables
  seen        \* history: seen[v], had a revocation been answered when v began

vars == <<now, sessionKey, job, seen>>

Calls == Registrations \cup Revocations \cup Validations
Answers == {"registered", "conflict", "expired", "revoked", "notFound",
            "alreadyRevoked", "valid", "invalid", "threw"}
Open == {"verify", "find", "revokeOld", "create", "revoke", "expire"}

Init ==
  /\ now = 0
  /\ sessionKey = [p \in Pairs |-> NoRow]
  /\ job = [c \in Calls |-> [step |-> "idle"]]
  /\ seen = [v \in Validations |-> FALSE]

Goto(c, step) == job' = [job EXCEPT ![c].step = step]
Row(c) == sessionKey[job[c].pair]
SetStatus(p, status) == sessionKey' = [sessionKey EXCEPT ![p].status = status]

Tick ==
  /\ now < MaxTime
  /\ now' = now + 1
  /\ UNCHANGED <<sessionKey, job, seen>>

-----------------------------------------------------------------------------
(***************************************************************************)
(* registerSessionKey.                                                     *)
(***************************************************************************)
BeginRegistration(c, p, expiresAt) ==
  /\ job[c].step = "idle"
  /\ job' = [job EXCEPT ![c] = [step |-> "verify", pair |-> p, expiresAt |-> expiresAt,
                                 existing |-> FALSE]]
  /\ UNCHANGED <<now, sessionKey, seen>>

\* Wrong variant: a key that expires now is let in.
CheckExpiryLoosely(c) ==
  /\ job[c].step = "verify"
  /\ Goto(c, IF job[c].expiresAt < now THEN "expired" ELSE "find")
  /\ UNCHANGED <<now, sessionKey, seen>>

\* The signature is good; the expiry is checked once, here.
CheckExpiry(c) ==
  /\ job[c].step = "verify"
  /\ Goto(c, IF job[c].expiresAt <= now THEN "expired" ELSE "find")
  /\ UNCHANGED <<now, sessionKey, seen>>

IsActive(row) == row # NoRow /\ row.status = "ACTIVE"

FindExisting(c) ==
  /\ c \in Registrations /\ job[c].step = "find"
  /\ job' = [job EXCEPT ![c].existing = (Row(c) # NoRow),
                        ![c].step = IF IsActive(Row(c)) THEN "revokeOld" ELSE "create"]
  /\ UNCHANGED <<now, sessionKey, seen>>

RevokeOld(c) ==
  /\ job[c].step = "revokeOld"
  /\ SetStatus(job[c].pair, "REVOKED")
  /\ \E next \in {"create", "threw"} : Goto(c, next)
  /\ UNCHANGED <<now, seen>>

\* Wrong variant: the table has no unique index on the pair.
CreateUnindexed(c) ==
  /\ job[c].step = "create"
  /\ sessionKey' = [sessionKey EXCEPT ![job[c].pair] =
                      [status |-> "ACTIVE", expiresAt |-> job[c].expiresAt]]
  /\ Goto(c, "registered")
  /\ UNCHANGED <<now, seen>>

\* The unique index refuses a second row.
Create(c) ==
  /\ job[c].step = "create"
  /\ \/ /\ Row(c) = NoRow
        /\ sessionKey' = [sessionKey EXCEPT ![job[c].pair] =
                            [status |-> "ACTIVE", expiresAt |-> job[c].expiresAt]]
        /\ \E end \in {"registered", "threw"} : Goto(c, end)
     \/ /\ Row(c) # NoRow
        /\ UNCHANGED sessionKey
        /\ Goto(c, "conflict")
  /\ UNCHANGED <<now, seen>>

-----------------------------------------------------------------------------
(***************************************************************************)
(* revokeSessionKey.                                                       *)
(***************************************************************************)
BeginRevocation(c, p) ==
  /\ job[c].step = "idle"
  /\ job' = [job EXCEPT ![c] = [step |-> "find", pair |-> p]]
  /\ UNCHANGED <<now, sessionKey, seen>>

FindToRevoke(c) ==
  /\ c \in Revocations /\ job[c].step = "find"
  /\ Goto(c, IF Row(c) = NoRow THEN "notFound"
             ELSE IF IsActive(Row(c)) THEN "revoke" ELSE "alreadyRevoked")
  /\ UNCHANGED <<now, sessionKey, seen>>

Revoke(c) ==
  /\ job[c].step = "revoke"
  /\ SetStatus(job[c].pair, "REVOKED")
  /\ \E end \in {"revoked", "threw"} : Goto(c, end)
  /\ UNCHANGED <<now, seen>>

-----------------------------------------------------------------------------
(***************************************************************************)
(* validateSessionKey.  The step that expires a key writes the status from *)
(* a row it read before.                                                   *)
(***************************************************************************)
Revoked(p) ==
  \E c \in Revocations : job[c].step = "revoked" /\ job[c].pair = p

BeginValidation(v, p) ==
  /\ job[v].step = "idle"
  /\ job' = [job EXCEPT ![v] = [step |-> "find", pair |-> p]]
  /\ seen' = [seen EXCEPT ![v] = Revoked(p)]
  /\ UNCHANGED <<now, sessionKey>>

\* Wrong variant: the expiry alone decides.
JudgeByExpiry(row) ==
  IF row = NoRow THEN "invalid"
  ELSE IF row.expiresAt <= now THEN "expire" ELSE "valid"

Judge(row) ==
  IF row = NoRow THEN "invalid"
  ELSE IF row.status = "REVOKED" THEN "invalid"
  ELSE IF row.expiresAt <= now THEN "expire" ELSE "valid"

Validate(v) ==
  /\ v \in Validations /\ job[v].step = "find"
  /\ Goto(v, Judge(Row(v)))
  /\ UNCHANGED <<now, sessionKey, seen>>

Expire(v) ==
  /\ job[v].step = "expire"
  /\ SetStatus(job[v].pair, "EXPIRED")
  /\ \E end \in {"invalid", "threw"} : Goto(v, end)
  /\ UNCHANGED <<now, seen>>

\* The query a step waits for rejects.
Fail(c) ==
  /\ job[c].step \in Open
  /\ Goto(c, "threw")
  /\ UNCHANGED <<now, sessionKey, seen>>

\* getActiveKeys: the pairs of a user whose key it lists.
ActiveKeys == {p \in Pairs : IsActive(sessionKey[p]) /\ sessionKey[p].expiresAt > now}

-----------------------------------------------------------------------------
Next ==
  \/ Tick
  \/ \E c \in Registrations :
       \/ \E p \in Pairs, e \in 0 .. MaxTime + 1 : BeginRegistration(c, p, e)
       \/ CheckExpiry(c) \/ FindExisting(c) \/ RevokeOld(c) \/ Create(c)
  \/ \E c \in Revocations :
       (\E p \in Pairs : BeginRevocation(c, p)) \/ FindToRevoke(c) \/ Revoke(c)
  \/ \E v \in Validations :
       (\E p \in Pairs : BeginValidation(v, p)) \/ Validate(v) \/ Expire(v)
  \/ \E c \in Calls : Fail(c)

Spec == Init /\ [][Next]_vars

-----------------------------------------------------------------------------
(***************************************************************************)
(* Types.  No row is created with an expiry that was reached when the      *)
(* table was empty.                                                        *)
(***************************************************************************)
TypeOK ==
  /\ now \in 0 .. MaxTime
  /\ sessionKey \in [Pairs -> Rows \cup {NoRow}]
  /\ \A c \in Calls :
       \/ job[c] = [step |-> "idle"]
       \/ c \in Registrations /\
          job[c] \in [step : Open \cup Answers, pair : Pairs,
                      expiresAt : 0 .. MaxTime + 1, existing : BOOLEAN]
       \/ c \notin Registrations /\ job[c] \in [step : Open \cup Answers, pair : Pairs]
  /\ seen \in [Validations -> BOOLEAN]

(***************************************************************************)
(* Revocation sticks: a validation that begins after a revocation of the   *)
(* key was answered does not accept it, whatever registrations, expiries   *)
(* and other revocations are under way, and the key is not listed.         *)
(***************************************************************************)
RevocationSticks ==
  /\ \A v \in Validations : seen[v] => job[v].step # "valid"
  /\ \A p \in Pairs : Revoked(p) => p \notin ActiveKeys

(***************************************************************************)
(* Of the registrations that race for a pair, all having found no row, one *)
(* is answered with success; and the row in the table is what it           *)
(* registered, until a registration that found this row replaces it.       *)
(***************************************************************************)
FoundNone(c) == job[c].step = "registered" /\ ~job[c].existing
Replaces(d, p) ==
  job[d].step \in {"registered", "threw"} /\ job[d].pair = p /\ job[d].existing

OneRacerRegisters ==
  \A c \in Registrations : FoundNone(c) =>
    /\ Row(c) # NoRow
    /\ \/ Row(c).expiresAt = job[c].expiresAt
       \/ \E d \in Registrations : Replaces(d, job[c].pair)
    /\ \A d \in Registrations : FoundNone(d) /\ job[d].pair = job[c].pair => d = c

(***************************************************************************)
(* An accepted key was in the table, not revoked and not past its expiry,  *)
(* when it was accepted.                                                   *)
(***************************************************************************)
AcceptedIsLive ==
  [][\A v \in Validations :
       job[v].step # "valid" /\ job'[v].step = "valid" =>
         job'[v].pair \in ActiveKeys]_vars

(***************************************************************************)
(* "Upsert (revoke old if exists, create new)" (delegation/index.ts:40): a *)
(* registration that finds the pair registered replaces its row.           *)
(***************************************************************************)
ReRegistrationReplaces ==
  \A c \in Registrations : job[c].step = "conflict" => ~job[c].existing
=============================================================================

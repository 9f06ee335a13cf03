------------------------ MODULE DelegationServiceProofs ------------------------
(***************************************************************************)
(* The table of session keys, for any number of pairs, of concurrent calls *)
(* and any clock: what a row can become, and that a revoked key stays      *)
(* revoked.                                                                *)
(***************************************************************************)
EXTENDS DelegationService, TLAPS

(***************************************************************************)
(* The strengthening.  A row that left ACTIVE never returns to it, since   *)
(* only Create writes ACTIVE and only where there is no row; and EXPIRED   *)
(* is written only to a row whose expiry a validation saw pass.  So a call *)
(* that is about to write knows something of the row it read which is      *)
(* still true when it writes.                                              *)
(***************************************************************************)
Dead(p) == sessionKey[p] # NoRow /\ sessionKey[p].status # "ACTIVE"

ExpiredIsPast ==
  \A p \in Pairs :
    sessionKey[p] # NoRow /\ sessionKey[p].status = "EXPIRED" =>
      sessionKey[p].expiresAt <= now

CallKnows(c) ==
  /\ job[c].step \in {"revokeOld", "revoke", "expire"} => Row(c) # NoRow
  /\ job[c].step = "expire" => Row(c).expiresAt <= now
  /\ job[c].step = "revoked" => Dead(job[c].pair)
  /\ c \in Registrations /\ job[c].step \in {"find", "revokeOld", "create"} =>
       job[c].expiresAt > 0

SeenIsDead ==
  \A v \in Validations :
    seen[v] => job[v].step \notin {"idle", "valid"} /\ Dead(job[v].pair)

\* Create fills an empty place, whoever comes.
OneCreates ==
  \A c, d \in Registrations :
    /\ job[c].step = "registered" =>
         Row(c) # NoRow /\ Row(c).expiresAt = job[c].expiresAt
    /\ job[c].step = "registered" /\ job[d].step = "registered"
         /\ job[c].pair = job[d].pair => c = d

JobOf(c) ==
  IF c \in Registrations
  THEN [step : Open \cup Answers, pair : Pairs, expiresAt : 0 .. MaxTime + 1,
        existing : BOOLEAN]
  ELSE [step : Open \cup Answers, pair : Pairs]

JobOK == /\ DOMAIN job = Calls
         /\ job = [c \in Calls |-> job[c]]
         /\ \A c \in Calls : job[c] = [step |-> "idle"] \/ job[c] \in JobOf(c)

TableOK == /\ now \in 0 .. MaxTime
           /\ sessionKey \in [Pairs -> Rows \cup {NoRow}]
           /\ seen \in [Validations -> BOOLEAN]

IInv ==
  /\ TableOK
  /\ JobOK
  /\ ExpiredIsPast
  /\ \A c \in Calls : CallKnows(c)
  /\ SeenIsDead
  /\ OneCreates

(***************************************************************************)
(* What the invariant gives.                                               *)
(***************************************************************************)
LEMMA IInvTypeOK == IInv => TypeOK
  BY DEF IInv, TableOK, JobOK, JobOf, TypeOK

LEMMA IInvRevocationSticks == IInv => RevocationSticks
<1> SUFFICES ASSUME IInv PROVE RevocationSticks  OBVIOUS
<1>1. ASSUME NEW v \in Validations, seen[v] PROVE job[v].step # "valid"
  BY <1>1 DEF IInv, SeenIsDead
<1>2. ASSUME NEW p \in Pairs, Revoked(p) PROVE p \notin ActiveKeys
  <2>1. PICK c \in Revocations : job[c].step = "revoked" /\ job[c].pair = p
    BY <1>2 DEF Revoked
  <2>2. Dead(p)
    BY <2>1 DEF IInv, CallKnows, Calls
  <2> QED  BY <2>2 DEF Dead, ActiveKeys, IsActive
<1> QED  BY <1>1, <1>2 DEF RevocationSticks

LEMMA InitIInv == Init => IInv
  BY DelegationAssumption
     DEF Init, IInv, TableOK, JobOK, ExpiredIsPast, CallKnows, SeenIsDead,
         OneCreates, Calls

(***************************************************************************)
(* A step of an open call rewrites its own step and nothing else of job.   *)
(***************************************************************************)
LEMMA GotoFacts ==
  ASSUME JobOK, NEW c \in Calls, job[c].step \in Open,
         NEW s \in Open \cup Answers, Goto(c, s)
  PROVE  /\ JobOK'
         /\ job[c] \in JobOf(c)
         /\ job[c].pair \in Pairs
         /\ job'[c] = [job[c] EXCEPT !.step = s]
         /\ job'[c].step = s /\ job'[c].pair = job[c].pair
         /\ c \in Registrations => job'[c].expiresAt = job[c].expiresAt
         /\ \A d \in Calls \ {c} : job'[d] = job[d]
<1>1. job[c] \in JobOf(c)
  BY DEF JobOK, Open
<1>2. job'[c] = [job[c] EXCEPT !.step = s]
  BY DEF JobOK, Goto
<1>3. DOMAIN job' = Calls /\ job' = [d \in Calls |-> job'[d]]
  BY DEF JobOK, Goto
<1>4. \A d \in Calls \ {c} : job'[d] = job[d]
  BY DEF JobOK, Goto
<1>5. job'[c] \in JobOf(c) /\ job[c].pair \in Pairs
      /\ job'[c].step = s /\ job'[c].pair = job[c].pair
      /\ (c \in Registrations => job'[c].expiresAt = job[c].expiresAt)
  <2>1. CASE c \in Registrations  BY <1>1, <1>2, <2>1 DEF JobOf
  <2>2. CASE c \notin Registrations  BY <1>1, <1>2, <2>2 DEF JobOf
  <2> QED  BY <2>1, <2>2
<1>6. \A d \in Calls : JobOf(d)' = JobOf(d)
  BY DEF JobOf
<1>7. JobOK'
  BY <1>3, <1>4, <1>5 DEF JobOK, JobOf
<1> QED  BY <1>1, <1>2, <1>4, <1>5, <1>7

(***************************************************************************)
(* What every step leaves of a row: it stays, with its expiry, and does    *)
(* not become active again.                                                *)
(***************************************************************************)
Kept ==
  \A p \in Pairs : sessionKey[p] # NoRow =>
    /\ sessionKey'[p] # NoRow
    /\ sessionKey'[p].expiresAt = sessionKey[p].expiresAt
    /\ sessionKey[p].status # "ACTIVE" => sessionKey'[p].status # "ACTIVE"

LEMMA DeadStaysDead ==
  ASSUME Kept, NEW p \in Pairs, Dead(p)
  PROVE  Dead(p)'
  BY DEF Kept, Dead

LEMMA JobPair ==
  ASSUME JobOK, NEW c \in Calls, job[c].step # "idle"
  PROVE  job[c] \in JobOf(c) /\ job[c].pair \in Pairs
  BY DEF JobOK, JobOf

\* What a call knows outlives the steps of the others.
LEMMA KnowledgeLasts ==
  ASSUME IInv, TableOK', Kept, now' >= now, NEW d \in Calls, job'[d] = job[d]
  PROVE  CallKnows(d)'
<1>1. CASE job[d].step = "idle"
  BY <1>1 DEF CallKnows
<1>2. CASE job[d].step # "idle"
  <2>1. job[d] \in JobOf(d) /\ job[d].pair \in Pairs
    BY <1>2, JobPair DEF IInv
  <2>2. CallKnows(d)
    BY DEF IInv
  <2>3. Row(d) # NoRow => Row(d)' # NoRow /\ Row(d)'.expiresAt = Row(d).expiresAt
    BY <2>1 DEF Kept, Row
  <2>4. Row(d) # NoRow => Row(d).expiresAt \in Int
    BY <2>1, DelegationAssumption DEF IInv, TableOK, Row, Rows
  <2>5. Dead(job[d].pair) => Dead(job[d].pair)'
    BY <2>1, DeadStaysDead
  <2>6. now \in Int /\ now' \in Int
    BY DelegationAssumption DEF IInv, TableOK
  <2>7. job'[d].step = "expire" => Row(d)'.expiresAt <= now'
    BY <2>2, <2>3, <2>4, <2>6 DEF CallKnows
  <2> QED
    BY <2>2, <2>3, <2>5, <2>7 DEF CallKnows
<1> QED  BY <1>1, <1>2

(***************************************************************************)
(* A step of one call, given what it leaves of the rows and what that call *)
(* knows afterwards.                                                       *)
(***************************************************************************)
LEMMA StepIInv ==
  ASSUME IInv, TableOK', JobOK', Kept, now' = now, ExpiredIsPast',
         NEW c \in Calls, \A d \in Calls \ {c} : job'[d] = job[d],
         CallKnows(c)',
         job[c].step # "idle" => job'[c].pair = job[c].pair,
         job[c].step # "registered", job'[c].step # "registered",
         c \in Validations =>
           /\ \A v \in Validations \ {c} : seen'[v] = seen[v]
           /\ seen'[c] => job'[c].step \notin {"idle", "valid"} /\ Dead(job[c].pair)',
         c \notin Validations => seen' = seen
  PROVE  IInv'
<1>1. \A d \in Calls : CallKnows(d)'
  <2>1. now' >= now
    BY DelegationAssumption DEF IInv, TableOK
  <2> QED  BY <2>1, KnowledgeLasts
<1>2. SeenIsDead'
  <2> SUFFICES ASSUME NEW v \in Validations, seen'[v]
               PROVE job'[v].step \notin {"idle", "valid"} /\ Dead(job[v].pair)'
    BY DEF SeenIsDead
  <2>1. CASE v = c
    BY <2>1
  <2>2. CASE v # c
    <3>1. job'[v] = job[v] /\ seen[v]
      BY <2>2 DEF Calls
    <3>2. job[v].step \notin {"idle", "valid"} /\ Dead(job[v].pair)
      BY <3>1 DEF IInv, SeenIsDead
    <3>3. job[v].pair \in Pairs
      BY <3>2, JobPair DEF IInv, Calls
    <3>4. sessionKey'[job[v].pair] # NoRow /\ sessionKey'[job[v].pair].status # "ACTIVE"
      BY <3>2, <3>3 DEF Dead, Kept
    <3> QED  BY <3>1, <3>2, <3>4 DEF Dead
  <2> QED  BY <2>1, <2>2
<1>3. OneCreates'
  <2>1. ASSUME NEW d \in Registrations, job'[d].step = "registered"
        PROVE  /\ job'[d] = job[d]
               /\ Row(d)' # NoRow /\ Row(d)'.expiresAt = job'[d].expiresAt
    <3>1. job'[d] = job[d]
      BY <2>1 DEF Calls
    <3>2. Row(d) # NoRow /\ Row(d).expiresAt = job[d].expiresAt
      BY <2>1, <3>1 DEF IInv, OneCreates
    <3>3. job[d].pair \in Pairs
      BY <2>1, <3>1, JobPair DEF IInv, Calls
    <3> QED  BY <3>1, <3>2, <3>3 DEF Kept, Row
  <2> QED  BY <2>1 DEF IInv, OneCreates
<1> QED  BY <1>1, <1>2, <1>3 DEF IInv

\* A step that writes no row.
LEMMA ReadOnlyIInv ==
  ASSUME IInv, sessionKey' = sessionKey, now' = now
  PROVE  Kept /\ ExpiredIsPast'
  BY DEF IInv, Kept, ExpiredIsPast

\* A step that writes the status REVOKED, or EXPIRED past the expiry.
LEMMA SetStatusFacts ==
  ASSUME IInv, now' = now, seen' = seen,
         NEW p \in Pairs, sessionKey[p] # NoRow,
         NEW st \in {"REVOKED", "EXPIRED"}, SetStatus(p, st),
         st = "EXPIRED" => sessionKey[p].expiresAt <= now
  PROVE  TableOK' /\ Kept /\ ExpiredIsPast' /\ Dead(p)'
<1>1. sessionKey[p] \in Rows
  BY DEF IInv, TableOK
<1>2. sessionKey' = [sessionKey EXCEPT ![p] = [status |-> st, expiresAt |-> sessionKey[p].expiresAt]]
  <2>1. [sessionKey[p] EXCEPT !.status = st]
          = [status |-> st, expiresAt |-> sessionKey[p].expiresAt]
    BY <1>1 DEF Rows
  <2>2. sessionKey' = [sessionKey EXCEPT ![p] = [sessionKey[p] EXCEPT !.status = st]]
    BY DEF SetStatus
  <2> QED  BY <2>1, <2>2
<1>3. [status |-> st, expiresAt |-> sessionKey[p].expiresAt] \in Rows
  BY <1>1 DEF Rows
<1>4. /\ sessionKey'[p] = [status |-> st, expiresAt |-> sessionKey[p].expiresAt]
      /\ sessionKey'[p] # NoRow
      /\ \A q \in Pairs \ {p} : sessionKey'[q] = sessionKey[q]
  BY <1>2, <1>3, DelegationAssumption DEF IInv, TableOK
<1>5. TableOK'
  BY <1>2, <1>3 DEF IInv, TableOK
<1>6. Kept
  BY <1>4 DEF Kept
<1>7. ExpiredIsPast'
  BY <1>4 DEF IInv, ExpiredIsPast
<1>8. Dead(p)'
  BY <1>4 DEF Dead
<1> QED  BY <1>5, <1>6, <1>7, <1>8

(***************************************************************************)
(* Steps of an open call, one that only reads and one that also writes a   *)
(* status.                                                                 *)
(***************************************************************************)
LEMMA ReadIInv ==
  ASSUME IInv, NEW c \in Calls, job[c].step \in Open,
         NEW s \in (Open \cup Answers) \ {"registered"}, Goto(c, s),
         UNCHANGED <<now, sessionKey, seen>>,
         CallKnows(c)',
         c \in Validations /\ seen[c] => s # "valid"
  PROVE  IInv'
<1>1. JobOK' /\ job'[c].step = s /\ job'[c].pair = job[c].pair
      /\ \A d \in Calls \ {c} : job'[d] = job[d]
  BY GotoFacts DEF IInv
<1>2. TableOK' /\ Kept /\ ExpiredIsPast'
  BY ReadOnlyIInv DEF IInv, TableOK
<1>3. c \in Validations /\ seen'[c] =>
        job'[c].step \notin {"idle", "valid"} /\ Dead(job[c].pair)'
  BY <1>1 DEF IInv, SeenIsDead, Dead, Open, Answers
<1>4. job[c].step # "registered" /\ job'[c].step # "registered"
  BY <1>1 DEF Open
<1> QED  BY <1>1, <1>2, <1>3, <1>4, StepIInv

LEMMA WriteIInv ==
  ASSUME IInv, NEW c \in Calls, job[c].step \in Open,
         NEW s \in {"create", "revoked", "invalid", "threw"}, Goto(c, s),
         UNCHANGED <<now, seen>>,
         Row(c) # NoRow, NEW st \in {"REVOKED", "EXPIRED"},
         SetStatus(job[c].pair, st),
         st = "EXPIRED" => Row(c).expiresAt <= now,
         c \in Registrations /\ s = "create" => job[c].expiresAt > 0
  PROVE  IInv'
<1>1. JobOK' /\ job'[c].step = s /\ job'[c].pair = job[c].pair
      /\ (c \in Registrations => job'[c].expiresAt = job[c].expiresAt)
      /\ \A d \in Calls \ {c} : job'[d] = job[d]
  <2>1. s \in Open \cup Answers  BY DEF Open, Answers
  <2> QED  BY <2>1, GotoFacts DEF IInv
<1>2. PICK p \in Pairs : p = job[c].pair
  BY GotoFacts, JobPair DEF IInv, Open
<1>3. TableOK' /\ Kept /\ ExpiredIsPast' /\ Dead(p)'
  BY <1>2, SetStatusFacts DEF Row
<1>4. sessionKey'[p] # NoRow /\ sessionKey'[p].status # "ACTIVE"
  BY <1>3 DEF Dead
<1>5. CallKnows(c)'
  BY <1>1, <1>2, <1>4 DEF CallKnows, Dead
<1>6. Dead(job[c].pair)'
  BY <1>1, <1>2, <1>4 DEF Dead
<1>7. job[c].step # "registered" /\ job'[c].step \notin {"registered", "idle", "valid"}
  BY <1>1 DEF Open
<1> QED  BY <1>1, <1>3, <1>5, <1>6, <1>7, StepIInv

\* A call whose record is replaced.
LEMMA ReplaceJob ==
  ASSUME JobOK, NEW c \in Calls, NEW j \in JobOf(c), job' = [job EXCEPT ![c] = j]
  PROVE  JobOK' /\ job'[c] = j /\ \A d \in Calls \ {c} : job'[d] = job[d]
<1>1. job'[c] = j /\ \A d \in Calls \ {c} : job'[d] = job[d]
  BY DEF JobOK
<1>2. DOMAIN job' = Calls /\ job' = [d \in Calls |-> job'[d]]
  BY DEF JobOK
<1>3. ASSUME NEW d \in Calls
      PROVE  job'[d] = [step |-> "idle"] \/ job'[d] \in JobOf(d)
  <2>1. CASE d = c  BY <1>1, <2>1
  <2>2. CASE d # c  BY <1>1, <2>2 DEF JobOK
  <2> QED  BY <2>1, <2>2
<1>4. \A d \in Calls : JobOf(d)' = JobOf(d)
  BY DEF JobOf
<1>5. JobOK'
  BY <1>2, <1>3, <1>4 DEF JobOK
<1> QED  BY <1>1, <1>5

\* A call that begins, with the local variables it has then.
LEMMA BeginIInv ==
  ASSUME IInv, NEW c \in Calls, job[c].step = "idle",
         NEW j \in JobOf(c), j.step \in {"verify", "find"},
         c \in Registrations => j.step = "verify",
         job' = [job EXCEPT ![c] = j],
         UNCHANGED <<now, sessionKey>>, TableOK',
         c \in Validations =>
           /\ \A v \in Validations \ {c} : seen'[v] = seen[v]
           /\ seen'[c] => Dead(j.pair),
         c \notin Validations => seen' = seen
  PROVE  IInv'
<1>1. JobOK' /\ job'[c] = j /\ \A d \in Calls \ {c} : job'[d] = job[d]
  BY ReplaceJob DEF IInv
<1>3. Kept /\ ExpiredIsPast'
  BY ReadOnlyIInv
<1>4. CallKnows(c)'
  BY <1>1 DEF CallKnows
<1>5. SeenIsDead'
  <2> SUFFICES ASSUME NEW v \in Validations, seen'[v]
               PROVE (job[v].step \notin {"idle", "valid"} /\ Dead(job[v].pair))'
    BY DEF SeenIsDead
  <2>1. CASE v = c
    BY <1>1, <2>1 DEF Dead
  <2>2. CASE v # c
    BY <1>1, <2>2 DEF IInv, SeenIsDead, Dead, Calls
  <2> QED  BY <2>1, <2>2
<1>6. \A d \in Calls : CallKnows(d)'
  <2>1. now' >= now
    BY DelegationAssumption DEF IInv, TableOK
  <2> QED  BY <1>1, <1>3, <1>4, <2>1, KnowledgeLasts
<1>7. OneCreates'
  <2>1. \A d \in Registrations : job'[d].step = "registered" => d # c /\ job'[d] = job[d]
    BY <1>1 DEF Calls
  <2> QED  BY <2>1 DEF IInv, OneCreates, Row
<1> QED  BY <1>1, <1>3, <1>5, <1>6, <1>7 DEF IInv

(***************************************************************************)
(* registerSessionKey.                                                     *)
(***************************************************************************)
\* FindExisting writes two fields of the call's record, and keeps the others.
LEMMA TwoFields ==
  ASSUME JobOK, NEW c \in Registrations, c \in Calls, job[c] \in JobOf(c),
         NEW x \in BOOLEAN, NEW s \in Open,
         job' = [job EXCEPT ![c].existing = x, ![c].step = s]
  PROVE  job' = [job EXCEPT ![c] = [step |-> s, pair |-> job[c].pair,
                                    expiresAt |-> job[c].expiresAt, existing |-> x]]
<1>1. job[c] = [step |-> job[c].step, pair |-> job[c].pair,
                expiresAt |-> job[c].expiresAt, existing |-> job[c].existing]
  BY DEF JobOf
<1>2. [[job[c] EXCEPT !.existing = x] EXCEPT !.step = s]
        = [step |-> s, pair |-> job[c].pair,
           expiresAt |-> job[c].expiresAt, existing |-> x]
  <2> DEFINE r == [step |-> job[c].step, pair |-> job[c].pair,
                   expiresAt |-> job[c].expiresAt, existing |-> x]
  <2>1. [job[c] EXCEPT !.existing = x] = r
    BY <1>1
  <2>2. [r EXCEPT !.step = s] = [step |-> s, pair |-> job[c].pair,
                                 expiresAt |-> job[c].expiresAt, existing |-> x]
    OBVIOUS
  <2> HIDE DEF r
  <2> QED  BY <2>1, <2>2, Zenon
<1>3. job' = [job EXCEPT ![c] = [[job[c] EXCEPT !.existing = x] EXCEPT !.step = s]]
  BY DEF JobOK
<1> QED  BY <1>2, <1>3

LEMMA FindExistingIInv ==
  ASSUME IInv, NEW c \in Registrations, FindExisting(c)
  PROVE  IInv'
<1>1. /\ c \in Calls /\ c \notin Validations
      /\ job[c] \in JobOf(c) /\ job[c].pair \in Pairs /\ job[c].step = "find"
      /\ JobOK
  BY JobPair, DelegationAssumption DEF IInv, Calls, FindExisting
<1>2. job[c].expiresAt \in 0 .. MaxTime + 1 /\ job[c].expiresAt > 0
  BY <1>1 DEF JobOf, IInv, CallKnows
<1>3. PICK x \in BOOLEAN : x <=> (Row(c) # NoRow)
  BY Zenon
<1>4. PICK s \in {"revokeOld", "create"} :
        s = IF IsActive(Row(c)) THEN "revokeOld" ELSE "create"
  OBVIOUS
<1>5. PICK p \in Pairs, e \in 0 .. MaxTime + 1 : p = job[c].pair /\ e = job[c].expiresAt
  BY <1>1, <1>2
<1> DEFINE j == [step |-> s, pair |-> p, expiresAt |-> e, existing |-> x]
<1>6. job' = [job EXCEPT ![c].existing = x, ![c].step = s]
  <2>1. x = (Row(c) # NoRow)
    BY <1>3, Zenon
  <2> QED  BY <1>4, <2>1, Zenon DEF FindExisting
<1>7. job' = [job EXCEPT ![c] = j]
  <2>1. s \in Open
    BY DEF Open
  <2>2. job' = [job EXCEPT ![c] = [step |-> s, pair |-> job[c].pair,
                                   expiresAt |-> job[c].expiresAt, existing |-> x]]
    BY <1>1, <1>6, <2>1, TwoFields, Zenon
  <2> QED  BY <1>5, <2>2, Zenon
<1>8. j \in JobOf(c)
  BY DEF JobOf, Open
<1>9. JobOK' /\ job'[c] = j /\ \A d \in Calls \ {c} : job'[d] = job[d]
  BY <1>1, <1>7, <1>8, ReplaceJob
<1>10. TableOK' /\ Kept /\ ExpiredIsPast'
  BY ReadOnlyIInv DEF FindExisting, IInv, TableOK
<1>11. CallKnows(c)'
  BY <1>2, <1>4, <1>5, <1>9 DEF CallKnows, FindExisting, Row, IsActive
<1>12. now' = now /\ seen' = seen /\ job'[c].pair = job[c].pair
       /\ job[c].step # "registered" /\ job'[c].step # "registered"
  BY <1>1, <1>5, <1>9 DEF FindExisting
<1> QED
  BY <1>1, <1>9, <1>10, <1>11, <1>12, StepIInv

LEMMA CreateIInv ==
  ASSUME IInv, NEW c \in Registrations, Create(c)
  PROVE  IInv'
<1>1. c \in Calls /\ job[c] \in JobOf(c) /\ job[c].pair \in Pairs /\ job[c].step = "create"
      /\ job[c].step \in Open /\ c \notin Validations
  BY JobPair, DelegationAssumption DEF IInv, Calls, Create, Open
<1>2. CASE Row(c) # NoRow
  <2>1. Goto(c, "conflict") /\ UNCHANGED <<now, sessionKey, seen>>
    BY <1>2 DEF Create
  <2>2. job'[c].step = "conflict"
    BY <1>1, <2>1, GotoFacts DEF IInv, Answers
  <2>3. CallKnows(c)'
    BY <2>2 DEF CallKnows
  <2> QED  BY <1>1, <2>1, <2>3, ReadIInv DEF Answers
<1>3. CASE Row(c) = NoRow
  <2> DEFINE r == [status |-> "ACTIVE", expiresAt |-> job[c].expiresAt]
  <2>1. PICK end \in {"registered", "threw"} : Goto(c, end)
    BY <1>3 DEF Create
  <2>2. r \in Rows
    BY <1>1, DelegationAssumption DEF IInv, CallKnows, JobOf, Rows
  <2>3. sessionKey' = [sessionKey EXCEPT ![job[c].pair] = r] /\ UNCHANGED <<now, seen>>
    BY <1>3 DEF Create
  <2>4. /\ sessionKey'[job[c].pair] = r
        /\ \A q \in Pairs \ {job[c].pair} : sessionKey'[q] = sessionKey[q]
    BY <1>1, <2>3 DEF IInv, TableOK
  <2>5. TableOK'
    BY <1>1, <2>2, <2>3 DEF IInv, TableOK
  <2>6. sessionKey[job[c].pair] = NoRow
    BY <1>3 DEF Row
  <2>7. Kept /\ ExpiredIsPast'
    BY <2>3, <2>4, <2>6 DEF Kept, IInv, ExpiredIsPast
  <2>8. /\ JobOK' /\ job'[c].step = end /\ job'[c].pair = job[c].pair
        /\ job'[c].expiresAt = job[c].expiresAt
        /\ \A d \in Calls \ {c} : job'[d] = job[d]
    BY <1>1, <2>1, GotoFacts DEF IInv, Answers
  <2>9. CallKnows(c)'
    BY <2>8 DEF CallKnows
  <2>10. \A d \in Calls : CallKnows(d)'
    <3>1. now' >= now
      BY <2>3, DelegationAssumption DEF IInv, TableOK
    <3> QED  BY <2>5, <2>7, <2>8, <2>9, <3>1, KnowledgeLasts
  <2>11. SeenIsDead'
    <3> SUFFICES ASSUME NEW v \in Validations, seen'[v]
                 PROVE (job[v].step \notin {"idle", "valid"} /\ Dead(job[v].pair))'
      BY DEF SeenIsDead
    <3>1. job'[v] = job[v] /\ job[v].step \notin {"idle", "valid"} /\ Dead(job[v].pair)
      BY <1>1, <2>3, <2>8 DEF Calls, IInv, SeenIsDead
    <3>2. job[v].pair \in Pairs
      BY <3>1, JobPair DEF IInv, Calls
    <3> QED  BY <2>7, <3>1, <3>2 DEF Dead, Kept
  <2>12. ASSUME NEW d \in Registrations \ {c}, job'[d].step = "registered"
         PROVE  /\ job'[d] = job[d] /\ job[d].pair \in Pairs
                /\ job[d].pair # job[c].pair
                /\ Row(d)' # NoRow /\ Row(d)'.expiresAt = job'[d].expiresAt
    <3>1. job'[d] = job[d]
      BY <2>8 DEF Calls
    <3>2. Row(d) # NoRow /\ Row(d).expiresAt = job[d].expiresAt
      BY <2>12, <3>1 DEF IInv, OneCreates
    <3>3. job[d].pair \in Pairs
      BY <2>12, <3>1, JobPair DEF IInv, Calls
    <3> QED  BY <2>6, <2>7, <3>1, <3>2, <3>3 DEF Kept, Row
  <2>13. Row(c)' # NoRow /\ Row(c)'.expiresAt = job'[c].expiresAt
    BY <2>2, <2>4, <2>8, DelegationAssumption DEF Row
  <2>14. OneCreates'
    <3>1. \A d, e \in Registrations \ {c} :
            job'[d].step = "registered" /\ job'[e].step = "registered"
              /\ job'[d].pair = job'[e].pair => d = e
      BY <2>12 DEF IInv, OneCreates
    <3> QED  BY <2>8, <2>12, <2>13, <3>1 DEF OneCreates
  <2> QED  BY <2>5, <2>7, <2>8, <2>10, <2>11, <2>14 DEF IInv
<1> QED  BY <1>2, <1>3

LEMMA RegistrationIInv ==
  ASSUME IInv, NEW c \in Registrations,
         \/ \E p \in Pairs, e \in 0 .. MaxTime + 1 : BeginRegistration(c, p, e)
         \/ CheckExpiry(c) \/ FindExisting(c) \/ RevokeOld(c) \/ Create(c)
  PROVE  IInv'
<1>1. c \in Calls /\ c \notin Validations
  BY DelegationAssumption DEF Calls
<1>2. ASSUME NEW p \in Pairs, NEW e \in 0 .. MaxTime + 1, BeginRegistration(c, p, e)
      PROVE  IInv'
  <2> DEFINE j == [step |-> "verify", pair |-> p, expiresAt |-> e, existing |-> FALSE]
  <2>1. j \in JobOf(c) /\ j.step = "verify"
    BY DEF JobOf, Open
  <2>2. job' = [job EXCEPT ![c] = j] /\ job[c].step = "idle" /\ TableOK'
        /\ UNCHANGED <<now, sessionKey, seen>>
    BY <1>2 DEF BeginRegistration, IInv, TableOK
  <2> QED  BY <1>1, <2>1, <2>2, BeginIInv
<1>3. CASE CheckExpiry(c)
  <2> DEFINE s == IF job[c].expiresAt <= now THEN "expired" ELSE "find"
  <2>1. Goto(c, s) /\ job[c].step \in Open /\ s \in (Open \cup Answers) \ {"registered"}
    BY <1>3 DEF CheckExpiry, Open, Answers
  <2>2. job'[c].step = s /\ job'[c].expiresAt = job[c].expiresAt /\ job[c] \in JobOf(c)
    BY <1>1, <2>1, GotoFacts DEF IInv
  <2>3. s = "find" => job[c].expiresAt > 0
    BY <2>2, DelegationAssumption DEF JobOf, IInv, TableOK
  <2>4. CallKnows(c)'
    BY <2>2, <2>3 DEF CallKnows
  <2> QED  BY <1>1, <1>3, <2>1, <2>4, ReadIInv DEF CheckExpiry
<1>4. CASE RevokeOld(c)
  <2>1. PICK s \in {"create", "threw"} : Goto(c, s)
    BY <1>4 DEF RevokeOld
  <2>2. Row(c) # NoRow /\ job[c].expiresAt > 0 /\ job[c].step \in Open
    BY <1>1, <1>4 DEF RevokeOld, IInv, CallKnows, Open
  <2> QED  BY <1>1, <1>4, <2>1, <2>2, WriteIInv DEF RevokeOld
<1> QED  BY <1>2, <1>3, <1>4, FindExistingIInv, CreateIInv

(***************************************************************************)
(* revokeSessionKey.                                                       *)
(***************************************************************************)
LEMMA RevocationIInv ==
  ASSUME IInv, NEW c \in Revocations,
         \/ \E p \in Pairs : BeginRevocation(c, p)
         \/ FindToRevoke(c) \/ Revoke(c)
  PROVE  IInv'
<1>1. c \in Calls /\ c \notin Validations /\ c \notin Registrations
  BY DelegationAssumption DEF Calls
<1>2. ASSUME NEW p \in Pairs, BeginRevocation(c, p) PROVE IInv'
  <2> DEFINE j == [step |-> "find", pair |-> p]
  <2>1. j \in JobOf(c) /\ j.step = "find"
    BY <1>1 DEF JobOf, Open
  <2>2. job' = [job EXCEPT ![c] = j] /\ job[c].step = "idle" /\ TableOK'
        /\ UNCHANGED <<now, sessionKey, seen>>
    BY <1>2 DEF BeginRevocation, IInv, TableOK
  <2> QED  BY <1>1, <2>1, <2>2, BeginIInv
<1>3. CASE FindToRevoke(c)
  <2>1. PICK s \in {"notFound", "revoke", "alreadyRevoked"} :
          Goto(c, s) /\ (s = "revoke" => IsActive(Row(c)))
    BY <1>3 DEF FindToRevoke
  <2>2. job[c].step \in Open /\ s \in (Open \cup Answers) \ {"registered"}
    BY <1>3 DEF FindToRevoke, Open, Answers
  <2>3. job'[c].step = s /\ job'[c].pair = job[c].pair
    BY <1>1, <2>1, <2>2, GotoFacts DEF IInv
  <2>4. CallKnows(c)'
    BY <1>1, <1>3, <2>1, <2>3 DEF CallKnows, FindToRevoke, IsActive, Row
  <2> QED  BY <1>1, <1>3, <2>1, <2>2, <2>4, ReadIInv DEF FindToRevoke
<1>4. CASE Revoke(c)
  <2>1. PICK s \in {"revoked", "threw"} : Goto(c, s)
    BY <1>4 DEF Revoke
  <2>2. Row(c) # NoRow /\ job[c].step \in Open
    BY <1>1, <1>4 DEF Revoke, IInv, CallKnows, Open
  <2> QED  BY <1>1, <1>4, <2>1, <2>2, WriteIInv DEF Revoke
<1> QED  BY <1>2, <1>3, <1>4

(***************************************************************************)
(* validateSessionKey.  Only here does seen change, and only here does a   *)
(* call come to accept a key: not one whose row is no longer active.       *)
(***************************************************************************)
LEMMA RevokedIsDead ==
  ASSUME IInv, NEW p \in Pairs, Revoked(p)
  PROVE  Dead(p)
  BY DEF IInv, CallKnows, Revoked, Calls

\* Judge(row), of a row of the table.
LEMMA JudgeFacts ==
  ASSUME IInv, NEW p \in Pairs
  PROVE  /\ Judge(sessionKey[p]) \in {"invalid", "expire", "valid"}
         /\ Judge(sessionKey[p]) = "expire" =>
              sessionKey[p] # NoRow /\ sessionKey[p].expiresAt <= now
         /\ Judge(sessionKey[p]) = "valid" => p \in ActiveKeys /\ ~Dead(p)
<1>1. sessionKey[p] # NoRow => sessionKey[p] \in Rows
  BY DEF IInv, TableOK
<1>2. sessionKey[p] # NoRow /\ sessionKey[p].status = "EXPIRED" =>
        sessionKey[p].expiresAt <= now
  BY DEF IInv, ExpiredIsPast
<1>3. now \in Int
  BY DelegationAssumption DEF IInv, TableOK
<1>4. ASSUME sessionKey[p] # NoRow, sessionKey[p].status # "REVOKED",
             ~(sessionKey[p].expiresAt <= now)
      PROVE  p \in ActiveKeys /\ ~Dead(p)
  <2>1. sessionKey[p].status = "ACTIVE"
    BY <1>1, <1>2, <1>4 DEF Rows
  <2>2. sessionKey[p].expiresAt > now
    BY <1>1, <1>3, <1>4, DelegationAssumption DEF Rows
  <2> QED  BY <1>4, <2>1, <2>2 DEF ActiveKeys, IsActive, Dead
<1> QED  BY <1>4 DEF Judge

LEMMA ValidationIInv ==
  ASSUME IInv, NEW c \in Validations,
         \/ \E p \in Pairs : BeginValidation(c, p)
         \/ Validate(c) \/ Expire(c)
  PROVE  IInv'
<1>1. c \in Calls /\ c \notin Revocations /\ c \notin Registrations
  BY DelegationAssumption DEF Calls
<1>2. ASSUME NEW p \in Pairs, BeginValidation(c, p) PROVE IInv'
  <2> DEFINE j == [step |-> "find", pair |-> p]
  <2>1. j \in JobOf(c) /\ j.step = "find" /\ j.pair = p
    BY <1>1 DEF JobOf, Open
  <2>2. job' = [job EXCEPT ![c] = j] /\ job[c].step = "idle"
        /\ UNCHANGED <<now, sessionKey>>
    BY <1>2 DEF BeginValidation
  <2>3. seen' = [seen EXCEPT ![c] = Revoked(p)]
    BY <1>2 DEF BeginValidation
  <2>4. Revoked(p) \in BOOLEAN
    BY DEF Revoked
  <2>5. TableOK'
    BY <2>2, <2>3, <2>4 DEF IInv, TableOK
  <2>6. \A v \in Validations \ {c} : seen'[v] = seen[v]
    BY <2>3 DEF IInv, TableOK
  <2>7. seen'[c] => Revoked(p)
    BY <2>3 DEF IInv, TableOK
  <2>8. seen'[c] => Dead(j.pair)
    BY <2>1, <2>7, RevokedIsDead
  <2> HIDE DEF j
  <2> QED  BY <1>1, <2>1, <2>2, <2>5, <2>6, <2>8, BeginIInv
<1>3. CASE Validate(c)
  <2>1. job[c].pair \in Pairs /\ job[c].step = "find" /\ job[c].step \in Open
    BY <1>1, <1>3, JobPair DEF Validate, IInv, Open
  <2>2. PICK p \in Pairs : p = job[c].pair
    BY <2>1
  <2>3. PICK s \in {"invalid", "expire", "valid"} : s = Judge(sessionKey[p])
    BY JudgeFacts
  <2>4. Goto(c, s) /\ s \in (Open \cup Answers) \ {"registered"}
    BY <1>3, <2>2, <2>3 DEF Validate, Row, Open, Answers
  <2>5. job'[c].step = s /\ job'[c].pair = job[c].pair
    BY <1>1, <2>1, <2>4, GotoFacts DEF IInv
  <2>6. CallKnows(c)'
    BY <1>1, <1>3, <2>2, <2>3, <2>5, JudgeFacts DEF CallKnows, Validate, Row
  <2>7. seen[c] => s # "valid"
    BY <2>2, <2>3, JudgeFacts DEF IInv, SeenIsDead
  <2> QED  BY <1>1, <1>3, <2>1, <2>4, <2>6, <2>7, ReadIInv DEF Validate
<1>4. CASE Expire(c)
  <2>1. PICK s \in {"invalid", "threw"} : Goto(c, s)
    BY <1>4 DEF Expire
  <2>2. Row(c) # NoRow /\ Row(c).expiresAt <= now /\ job[c].step \in Open
    BY <1>1, <1>4 DEF Expire, IInv, CallKnows, Open
  <2> QED  BY <1>1, <1>4, <2>1, <2>2, WriteIInv DEF Expire
<1> QED  BY <1>2, <1>3, <1>4

LEMMA FailIInv ==
  ASSUME IInv, NEW c \in Calls, Fail(c)
  PROVE  IInv'
<1>1. job[c].step \in Open /\ Goto(c, "threw") /\ UNCHANGED <<now, sessionKey, seen>>
      /\ "threw" \in (Open \cup Answers) \ {"registered"}
  BY DEF Fail, Open, Answers
<1>2. job'[c].step = "threw"
  BY <1>1, GotoFacts DEF IInv
<1>3. CallKnows(c)'
  BY <1>2 DEF CallKnows
<1> QED  BY <1>1, <1>3, ReadIInv

LEMMA TickIInv ==
  ASSUME IInv, Tick
  PROVE  IInv'
<1>1. TableOK' /\ now' >= now /\ UNCHANGED <<sessionKey, job, seen>>
  BY DelegationAssumption DEF Tick, IInv, TableOK
<1>2. Kept
  BY <1>1 DEF Kept
<1>3. ExpiredIsPast'
  <2> SUFFICES ASSUME NEW p \in Pairs, sessionKey[p] # NoRow,
                      sessionKey[p].status = "EXPIRED"
               PROVE  sessionKey[p].expiresAt <= now'
    BY <1>1 DEF ExpiredIsPast
  <2>1. sessionKey[p].expiresAt \in Int /\ now \in Int /\ now' \in Int
    BY <1>1, DelegationAssumption DEF IInv, TableOK, Rows
  <2> QED  BY <1>1, <2>1 DEF IInv, ExpiredIsPast
<1>4. \A d \in Calls : CallKnows(d)'
  BY <1>1, <1>2, KnowledgeLasts
<1>5. JobOK'
  BY <1>1 DEF IInv, JobOK, JobOf
<1>6. SeenIsDead' /\ OneCreates'
  BY <1>1 DEF IInv, SeenIsDead, Dead, OneCreates, Row
<1> QED  BY <1>1, <1>3, <1>4, <1>5, <1>6 DEF IInv

LEMMA NextIInv == IInv /\ [Next]_vars => IInv'
<1> SUFFICES ASSUME IInv, [Next]_vars PROVE IInv'  OBVIOUS
<1>1. CASE UNCHANGED vars
  BY <1>1 DEF vars, IInv, TableOK, JobOK, JobOf, ExpiredIsPast, CallKnows, Row,
              SeenIsDead, Dead, OneCreates
<1>2. CASE Tick
  BY <1>2, TickIInv
<1>3. ASSUME NEW c \in Registrations,
             \/ \E p \in Pairs, e \in 0 .. MaxTime + 1 : BeginRegistration(c, p, e)
             \/ CheckExpiry(c) \/ FindExisting(c) \/ RevokeOld(c) \/ Create(c)
      PROVE  IInv'
  BY <1>3, RegistrationIInv
<1>4. ASSUME NEW c \in Revocations,
             \/ \E p \in Pairs : BeginRevocation(c, p)
             \/ FindToRevoke(c) \/ Revoke(c)
      PROVE  IInv'
  BY <1>4, RevocationIInv
<1>5. ASSUME NEW v \in Validations,
             \/ \E p \in Pairs : BeginValidation(v, p)
             \/ Validate(v) \/ Expire(v)
      PROVE  IInv'
  BY <1>5, ValidationIInv
<1>6. ASSUME NEW c \in Calls, Fail(c) PROVE IInv'
  BY <1>6, FailIInv
<1> QED  BY <1>1, <1>2, <1>3, <1>4, <1>5, <1>6 DEF Next

LEMMA AlwaysIInv == Spec => []IInv
  BY InitIInv, NextIInv, PTL DEF Spec

-----------------------------------------------------------------------------
\* Every state of the table, of the calls and of the clock has its type, and no
\* row carries an expiry that was already reached when the service started.
THEOREM TableIsTyped == Spec => []TypeOK
  BY AlwaysIInv, IInvTypeOK, PTL

\* A revocation that was answered sticks, whatever other calls are under way:
\* validateSessionKey, called after it, never accepts the key, and getActiveKeys
\* does not list it.
THEOREM RevocationIsFinal == Spec => []RevocationSticks
  BY AlwaysIInv, IInvRevocationSticks, PTL

\* Of the calls of registerSessionKey that race for a pair and find no row, the
\* unique index lets one succeed, and its row stands until one that found it
\* replaces it.
THEOREM RegisteredOnce == Spec => []OneRacerRegisters
<1>1. IInv => OneRacerRegisters
  BY DEF IInv, OneCreates, OneRacerRegisters, FoundNone
<1> QED  BY <1>1, AlwaysIInv, PTL

(***************************************************************************)
(* A validation comes to accept a key by its own step Validate only.       *)
(***************************************************************************)
Accepts(v) == job[v].step # "valid" /\ job'[v].step = "valid"

LEMMA OthersDoNotAccept ==
  ASSUME JobOK, NEW v \in Validations,
         \/ UNCHANGED vars \/ Tick
         \/ \E c \in Registrations :
              \/ \E p \in Pairs, e \in 0 .. MaxTime + 1 : BeginRegistration(c, p, e)
              \/ CheckExpiry(c) \/ FindExisting(c) \/ RevokeOld(c) \/ Create(c)
         \/ \E c \in Revocations :
              (\E p \in Pairs : BeginRevocation(c, p)) \/ FindToRevoke(c) \/ Revoke(c)
  PROVE  ~Accepts(v)
<1>1. v \notin Registrations /\ v \notin Revocations /\ v \in Calls
  BY DelegationAssumption DEF Calls
<1>2. job' = job => ~Accepts(v)
  BY DEF Accepts
<1>3. ASSUME NEW c \in Registrations,
             \/ \E p \in Pairs, e \in 0 .. MaxTime + 1 : BeginRegistration(c, p, e)
             \/ CheckExpiry(c) \/ FindExisting(c) \/ RevokeOld(c) \/ Create(c)
      PROVE  job'[v] = job[v]
  BY <1>1, <1>3 DEF JobOK, BeginRegistration, CheckExpiry, FindExisting, RevokeOld,
                    Create, Goto
<1>4. ASSUME NEW c \in Revocations,
             (\E p \in Pairs : BeginRevocation(c, p)) \/ FindToRevoke(c) \/ Revoke(c)
      PROVE  job'[v] = job[v]
  BY <1>1, <1>4 DEF JobOK, BeginRevocation, FindToRevoke, Revoke, Goto
<1> QED
  BY <1>2, <1>3, <1>4 DEF Accepts, Tick, vars

LEMMA OwnStepAccepts ==
  ASSUME IInv, NEW v \in Validations, NEW c \in Validations,
         \/ \E p \in Pairs : BeginValidation(c, p)
         \/ Validate(c) \/ Expire(c),
         Accepts(v)
  PROVE  job'[v].pair \in ActiveKeys
<1>1. c \in Calls /\ v \in Calls /\ c \notin Registrations /\ JobOK
  BY DelegationAssumption DEF Calls, IInv
<1>2. ASSUME NEW p \in Pairs, BeginValidation(c, p) PROVE FALSE
  BY <1>1, <1>2 DEF BeginValidation, JobOK, Accepts
<1>3. CASE Expire(c)
  <2>1. PICK s \in {"invalid", "threw"} : Goto(c, s)
    BY <1>3 DEF Expire
  <2>2. job[c].step \in Open /\ s \in Open \cup Answers
    BY <1>3 DEF Expire, Open, Answers
  <2>3. job'[c].step = s /\ \A d \in Calls \ {c} : job'[d] = job[d]
    BY <1>1, <2>1, <2>2, GotoFacts
  <2> QED  BY <1>1, <2>3 DEF Accepts
<1>4. CASE Validate(c)
  <2>1. job[c].pair \in Pairs /\ job[c].step \in Open
    BY <1>1, <1>4, JobPair DEF Validate, Open
  <2>2. PICK p \in Pairs : p = job[c].pair
    BY <2>1
  <2>3. PICK s \in {"invalid", "expire", "valid"} : s = Judge(sessionKey[p])
    BY JudgeFacts
  <2>4. Goto(c, s) /\ s \in Open \cup Answers
    BY <1>4, <2>2, <2>3 DEF Validate, Row, Open, Answers
  <2>5. job'[c].step = s /\ job'[c].pair = p /\ \A d \in Calls \ {c} : job'[d] = job[d]
    BY <1>1, <2>1, <2>2, <2>4, GotoFacts
  <2>6. v = c /\ s = "valid"
    BY <1>1, <2>5 DEF Accepts
  <2> QED  BY <2>3, <2>5, <2>6, JudgeFacts
<1> QED  BY <1>2, <1>3, <1>4

LEMMA FailDoesNotAccept ==
  ASSUME JobOK, NEW v \in Validations, NEW c \in Calls, Fail(c)
  PROVE  ~Accepts(v)
<1>1. job[c].step \in Open /\ Goto(c, "threw") /\ "threw" \in Open \cup Answers
  BY DEF Fail, Answers
<1>2. job'[c].step = "threw" /\ \A d \in Calls \ {c} : job'[d] = job[d]
  BY <1>1, GotoFacts
<1> QED  BY <1>2 DEF Accepts, Calls

\* validateSessionKey accepts a key only when the row it read is in the table,
\* active and before its expiry.
THEOREM AcceptedKeysAreLive == Spec => AcceptedIsLive
<1>1. ASSUME IInv, [Next]_vars, NEW v \in Validations, Accepts(v)
      PROVE  job'[v].pair \in ActiveKeys
  <2>1. \E c \in Validations :
          (\E p \in Pairs : BeginValidation(c, p)) \/ Validate(c) \/ Expire(c)
    BY <1>1, OthersDoNotAccept, FailDoesNotAccept DEF Next, IInv
  <2> QED  BY <1>1, <2>1, OwnStepAccepts
<1>2. IInv /\ [Next]_vars =>
        [\A v \in Validations :
           job[v].step # "valid" /\ job'[v].step = "valid" =>
             job'[v].pair \in ActiveKeys]_vars
  BY <1>1 DEF Accepts
<1> QED  BY <1>2, AlwaysIInv, PTL DEF Spec, AcceptedIsLive

(***************************************************************************)
(* The life of a row: once a pair is registered its row stays, with the    *)
(* expiry it was created with, and all that ever happens to it is that it  *)
(* is revoked, or marked expired past its expiry.  It is never active      *)
(* again, so a session key of a user that was revoked or has run out       *)
(* cannot be renewed: registerSessionKey revokes the old row and the       *)
(* unique index of the table refuses the new one.                          *)
(***************************************************************************)
Died(p, status) ==
  /\ sessionKey'[p] = [status |-> status, expiresAt |-> sessionKey[p].expiresAt]
  /\ status = "EXPIRED" => sessionKey[p].expiresAt <= now

OnlyDies ==
  \A p \in Pairs : sessionKey[p] # NoRow =>
    sessionKey'[p] = sessionKey[p] \/ \E st \in {"REVOKED", "EXPIRED"} : Died(p, st)

LEMMA StatusOnlyDies ==
  ASSUME IInv, NEW p \in Pairs, sessionKey[p] # NoRow,
         NEW st \in {"REVOKED", "EXPIRED"}, SetStatus(p, st),
         st = "EXPIRED" => sessionKey[p].expiresAt <= now
  PROVE  OnlyDies
<1>1. sessionKey[p] \in Rows /\ sessionKey \in [Pairs -> Rows \cup {NoRow}]
  BY DEF IInv, TableOK
<1>2. [sessionKey[p] EXCEPT !.status = st]
        = [status |-> st, expiresAt |-> sessionKey[p].expiresAt]
  BY <1>1 DEF Rows
<1>3. /\ sessionKey'[p] = [sessionKey[p] EXCEPT !.status = st]
      /\ \A q \in Pairs \ {p} : sessionKey'[q] = sessionKey[q]
  BY <1>1 DEF SetStatus
<1> QED  BY <1>2, <1>3 DEF OnlyDies, Died

LEMMA NextOnlyDies == IInv /\ [Next]_vars => OnlyDies
<1> SUFFICES ASSUME IInv, [Next]_vars PROVE OnlyDies
  OBVIOUS
<1>1. CASE sessionKey' = sessionKey
  BY <1>1 DEF OnlyDies
<1>2. ASSUME NEW c \in Calls, RevokeOld(c) \/ Revoke(c) \/ Expire(c)
      PROVE  OnlyDies
  <2>1. PICK st \in {"REVOKED", "EXPIRED"} :
          /\ SetStatus(job[c].pair, st)
          /\ st = "EXPIRED" => job[c].step = "expire"
    BY <1>2 DEF RevokeOld, Revoke, Expire
  <2>2. job[c].step \in {"revokeOld", "revoke", "expire"} /\ job[c].step \in Open
    BY <1>2 DEF RevokeOld, Revoke, Expire, Open
  <2>3. PICK p \in Pairs : p = job[c].pair
    BY <2>2, JobPair DEF IInv, Open
  <2>4. sessionKey[p] # NoRow /\ (st = "EXPIRED" => sessionKey[p].expiresAt <= now)
    BY <2>1, <2>2, <2>3 DEF IInv, CallKnows, Row
  <2> QED  BY <2>1, <2>3, <2>4, StatusOnlyDies
<1>3. ASSUME NEW c \in Registrations, Create(c), Row(c) = NoRow
      PROVE  OnlyDies
  <2>1. sessionKey' = [sessionKey EXCEPT ![job[c].pair] =
                         [status |-> "ACTIVE", expiresAt |-> job[c].expiresAt]]
    BY <1>3 DEF Create
  <2>2. \A q \in Pairs \ {job[c].pair} : sessionKey'[q] = sessionKey[q]
    BY <2>1 DEF IInv, TableOK
  <2> QED  BY <1>3, <2>2 DEF OnlyDies, Row
<1>4. \/ sessionKey' = sessionKey
      \/ \E c \in Calls : RevokeOld(c) \/ Revoke(c) \/ Expire(c)
      \/ \E c \in Registrations : Create(c) /\ Row(c) = NoRow
  BY DEF Next, vars, Tick, Calls, BeginRegistration, CheckExpiry, FindExisting, Create,
         BeginRevocation, FindToRevoke, BeginValidation, Validate, Fail
<1> QED  BY <1>1, <1>2, <1>3, <1>4

THEOREM RegistrationsOnlyDie == Spec => [][OnlyDies]_vars
  BY AlwaysIInv, NextOnlyDies, PTL DEF Spec
=============================================================================

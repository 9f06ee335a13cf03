------------------------- MODULE ClearNodeSessionProofs -------------------------
(***************************************************************************)
(* What the tables of a session say, for any number of sessions and of     *)
(* calls that race on them: the transactions are a history without gaps,   *)
(* what they record was accepted by the ClearNode, which closes a session  *)
(* with a state they had, and while no calls overlap the two agree.        *)
(***************************************************************************)
EXTENDS ClearNodeSession, FiniteSetTheorems, TLAPS

(***************************************************************************)
(* The inductive invariant.  An update that is under way has read a row    *)
(* that stays, so the nonce before its own is on record; when the answer   *)
(* is there, its allocations, or those of a new session, are accepted.     *)
(***************************************************************************)
Steps == {"idle", "connect", "login", "send", "waiting", "answered", "first", "balance",
          "publish", "done", "threw", "refused"}
Row == [status : {"OPEN", "CLOSED"}, latestState : Nat, latestNonce : Nat]

JobOK == job \in [Jobs -> [step : Steps, channel : Ids \cup {NoRow}, nonce : Nat,
                           alloc : Nat \cup {NoRow}, as : {"user", "guest"}]]
SessionOK ==
  /\ DOMAIN session = Ids
  /\ \A ch \in Ids : session[ch] # NoRow => session[ch] \in Row
TransactionOK ==
  transaction \subseteq [channel : Ids, nonce : Nat, state : Nat, by : Jobs]

UnderWay == {"send", "waiting", "answered"}

RowFound ==
  \A c \in Updates \cup Closes : job[c].step \in UnderWay =>
    job[c].channel \in Ids /\ session[job[c].channel] # NoRow
IdGiven ==
  \A c \in Inits : job[c].step \in {"answered", "first", "balance", "publish"} =>
    job[c].channel \in Ids

Recorded(ch, nonce) == \E u \in transaction : u.channel = ch /\ u.nonce = nonce

NonceBefore ==
  \A c \in Updates : job[c].step \in UnderWay =>
    /\ job[c].alloc = Alloc[c] /\ job[c].nonce > 0
    /\ job[c].nonce > 1 => Recorded(job[c].channel, job[c].nonce - 1)

AcceptedBefore ==
  /\ \A c \in Updates : job[c].step = "answered" /\ job[c].channel \in Channels =>
       <<job[c].channel, Alloc[c]>> \in accepted
  /\ \A c \in Inits : job[c].step \in {"answered", "first"} /\ job[c].channel \in Channels =>
       <<job[c].channel, Deposit[c]>> \in accepted

TransactionsAccepted ==
  \A t \in transaction : t.channel \in Channels => <<t.channel, t.state>> \in accepted

Inv ==
  /\ JobOK /\ SessionOK /\ TransactionOK
  /\ RowFound /\ IdGiven /\ NonceBefore /\ AcceptedBefore
  /\ TransactionsAreTheHistory /\ TransactionsAccepted

LEMMA InitInv == Init => Inv
  BY ClearNodeAssumption
  DEF Init, Inv, JobOK, SessionOK, TransactionOK, Steps, Row, Ids, Jobs, RowFound, IdGiven,
      UnderWay, NonceBefore, AcceptedBefore, TransactionsAreTheHistory, TransactionsAccepted

(***************************************************************************)
(* Steps that write no row of a session and record no transaction.         *)
(***************************************************************************)
LEMMA QuietInv ==
  ASSUME Inv, UNCHANGED <<session, transaction>>, accepted \subseteq accepted',
         JobOK', RowFound', IdGiven', NonceBefore', AcceptedBefore'
  PROVE  Inv'
<1>1. SessionOK' /\ TransactionOK' /\ TransactionsAreTheHistory'
  BY DEF Inv, SessionOK, TransactionOK, TransactionsAreTheHistory
<1>2. TransactionsAccepted'
  BY DEF Inv, TransactionsAccepted
<1> QED  BY <1>1, <1>2 DEF Inv

\* A call goes on, without an answer that it had not, or ends.
LEMMA GotoInv ==
  ASSUME Inv, NEW c \in Jobs, NEW step \in Steps, Goto(c, step),
         UNCHANGED <<session, transaction, accepted>>,
         \/ step = job[c].step
         \/ step \in {"connect", "login", "done", "threw", "refused"}
         \/ step = "send" /\ c \in Inits
         \/ step = "publish" /\ c \in Inits /\ job[c].step = "balance"
  PROVE  Inv'
<1>1. JobOK'
  BY DEF Inv, JobOK, Goto
<1>2. /\ job'[c].step = step
      /\ \A d \in Jobs : /\ d # c => job'[d].step = job[d].step
                         /\ job'[d].channel = job[d].channel
                         /\ job'[d].nonce = job[d].nonce
                         /\ job'[d].alloc = job[d].alloc
  BY DEF Inv, JobOK, Goto
<1>3. RowFound' /\ IdGiven'
  BY <1>2, ClearNodeAssumption DEF Inv, RowFound, IdGiven, UnderWay, Jobs
<1>4. NonceBefore'
  BY <1>2, ClearNodeAssumption DEF Inv, NonceBefore, Recorded, UnderWay, Jobs
<1>5. AcceptedBefore'
  BY <1>2, ClearNodeAssumption DEF Inv, AcceptedBefore, Jobs
<1> QED  BY <1>1, <1>3, <1>4, <1>5, QuietInv

LEMMA RequestInv ==
  ASSUME Inv, NEW c \in Jobs, Request(c)
  PROVE  Inv'
<1>0. PICK as \in {"user", "guest"} :
        job' = [job EXCEPT ![c].step = "waiting", ![c].as = as]
  BY DEF Request
<1>1. JobOK'
  BY <1>0 DEF Inv, JobOK, Steps
<1>2. /\ job[c].step = "send" /\ job'[c].step = "waiting"
      /\ \A d \in Jobs : /\ d # c => job'[d].step = job[d].step
                         /\ job'[d].channel = job[d].channel
                         /\ job'[d].nonce = job[d].nonce
                         /\ job'[d].alloc = job[d].alloc
  BY <1>0 DEF Inv, JobOK, Request
<1>3. UNCHANGED <<session, transaction, accepted>>
  BY DEF Request, tables
<1>4. RowFound' /\ IdGiven'
  BY <1>2, <1>3 DEF Inv, RowFound, IdGiven, UnderWay, Jobs
<1>5. NonceBefore'
  BY <1>2, <1>3 DEF Inv, NonceBefore, Recorded, UnderWay, Jobs
<1>6. AcceptedBefore'
  BY <1>2, <1>3 DEF Inv, AcceptedBefore, Jobs
<1> QED  BY <1>1, <1>3, <1>4, <1>5, <1>6, QuietInv

(***************************************************************************)
(* The ClearNode serves a request, whose caller may have given up.         *)
(***************************************************************************)
LEMMA RefuseInv ==
  ASSUME Inv, NEW c \in Jobs, Refuse(c), UNCHANGED tables
  PROVE  Inv'
<1>1. PICK step \in Steps : Goto(c, step) /\ step \in {job[c].step, "refused"}
  BY DEF Inv, JobOK, Refuse, Steps
<1> QED  BY <1>1, GotoInv DEF Refuse, tables

LEMMA ServeCreateInv ==
  ASSUME Inv, NEW c \in Inits, ServeCreate(c), UNCHANGED tables
  PROVE  Inv'
<1>1. PICK ch \in Channels, id \in Ids :
        /\ id \in {ch, Blank}
        /\ accepted' = accepted \cup {<<ch, Deposit[c]>>}
        /\ job' = IF job[c].step = "waiting"
                    THEN [job EXCEPT ![c].step = "answered", ![c].channel = id] ELSE job
  BY DEF ServeCreate, Ids
<1>2. c \in Jobs /\ JobOK
  BY DEF Inv, Jobs
<1>3. /\ JobOK'
      /\ \A d \in Jobs : /\ d # c => job'[d].step = job[d].step
                         /\ d # c => job'[d].channel = job[d].channel
                         /\ job'[d].nonce = job[d].nonce
                         /\ job'[d].alloc = job[d].alloc
      /\ \/ job'[c].step = job[c].step /\ job'[c].channel = job[c].channel
         \/ job'[c].step = "answered" /\ job'[c].channel = id
  <2>1. CASE job[c].step = "waiting"
    BY <1>1, <1>2, <2>1 DEF JobOK, Steps
  <2>2. CASE job[c].step # "waiting"
    BY <1>1, <1>2, <2>2 DEF JobOK
  <2> QED  BY <2>1, <2>2
<1>4. UNCHANGED <<session, transaction>>
  BY DEF tables
<1>5. /\ \A d \in Updates \cup Closes : d # c /\ d \in Jobs
      /\ \A d \in Inits : d \in Jobs
  BY ClearNodeAssumption DEF Jobs
<1>a. RowFound'
  BY <1>3, <1>4, <1>5 DEF Inv, RowFound
<1>b. IdGiven'
  BY <1>3, <1>5 DEF Inv, IdGiven
<1>6. NonceBefore'
  BY <1>3, <1>4, <1>5 DEF Inv, NonceBefore, Recorded
<1>7. AcceptedBefore'
  <2>1. ASSUME NEW d \in Inits, d # c, job'[d].step \in {"answered", "first"},
               job'[d].channel \in Channels
        PROVE  <<job'[d].channel, Deposit[d]>> \in accepted'
    <3>1. job[d].step \in {"answered", "first"} /\ job[d].channel = job'[d].channel
      BY <1>3, <1>5, <2>1
    <3>2. <<job[d].channel, Deposit[d]>> \in accepted
      BY <2>1, <3>1 DEF Inv, AcceptedBefore
    <3> QED  BY <1>1, <3>1, <3>2
  <2>2. ASSUME job'[c].step \in {"answered", "first"}, job'[c].channel \in Channels
        PROVE  <<job'[c].channel, Deposit[c]>> \in accepted'
    BY <1>1, <1>3, <2>2, ClearNodeAssumption DEF Inv, AcceptedBefore
  <2>3. ASSUME NEW d \in Updates, job'[d].step = "answered", job'[d].channel \in Channels
        PROVE  <<job'[d].channel, Alloc[d]>> \in accepted'
    <3>1. job[d].step = "answered" /\ job[d].channel = job'[d].channel
      BY <1>3, <1>5, <2>3
    <3>2. <<job[d].channel, Alloc[d]>> \in accepted
      BY <2>3, <3>1 DEF Inv, AcceptedBefore
    <3> QED  BY <1>1, <3>1, <3>2
  <2> QED  BY <2>1, <2>2, <2>3 DEF AcceptedBefore
<1> QED  BY <1>1, <1>3, <1>4, <1>a, <1>b, <1>6, <1>7, QuietInv

LEMMA ServeChangeInv ==
  ASSUME Inv, NEW c \in Updates \cup Closes, ServeChange(c), UNCHANGED tables
  PROVE  Inv'
<1>1. CASE ~remote[job[c].channel].open
  BY <1>1, RefuseInv DEF ServeChange, Jobs
<1>2. CASE remote[job[c].channel].open
  <2>1. /\ accepted' = accepted \cup {<<job[c].channel, job[c].alloc>>}
        /\ Goto(c, IF job[c].step = "waiting" THEN "answered" ELSE job[c].step)
    BY <1>2 DEF ServeChange
  <2>s. \/ Goto(c, job[c].step)
        \/ job[c].step = "waiting" /\ Goto(c, "answered")
    BY <2>1 DEF Goto
  <2>2. JobOK'
    BY <2>s DEF Inv, JobOK, Goto, Steps
  <2>3. /\ \A d \in Jobs : /\ d # c => job'[d].step = job[d].step
                           /\ job'[d].channel = job[d].channel
                           /\ job'[d].nonce = job[d].nonce
                           /\ job'[d].alloc = job[d].alloc
        /\ \/ job'[c].step = job[c].step
           \/ job[c].step = "waiting" /\ job'[c].step = "answered"
    BY <2>s DEF Inv, JobOK, Goto, Jobs
  <2>4. UNCHANGED <<session, transaction>>
    BY DEF tables
  <2>5. RowFound' /\ IdGiven'
    BY <2>3, <2>4, ClearNodeAssumption DEF Inv, RowFound, IdGiven, UnderWay, Jobs
  <2>6. NonceBefore'
    BY <2>3, <2>4 DEF Inv, NonceBefore, Recorded, UnderWay, Jobs
  <2>7. AcceptedBefore'
    BY <2>1, <2>3, ClearNodeAssumption
    DEF Inv, AcceptedBefore, NonceBefore, UnderWay, Jobs
  <2> QED  BY <2>1, <2>2, <2>4, <2>5, <2>6, <2>7, QuietInv
<1> QED  BY <1>1, <1>2

LEMMA ServeInv ==
  ASSUME Inv, NEW c \in Jobs, Serve(c)
  PROVE  Inv'
<1>1. CASE job[c].as = "guest"
  <2>1. Refuse(c)
    BY <1>1 DEF Serve
  <2>2. UNCHANGED tables
    BY DEF Serve
  <2> QED  BY <2>1, <2>2, RefuseInv
<1>2. CASE job[c].as # "guest" /\ c \in Inits
  BY <1>2, ServeCreateInv DEF Serve
<1>3. CASE job[c].as # "guest" /\ c \in Updates \cup Closes
  BY <1>3, ServeChangeInv, ClearNodeAssumption DEF Serve
<1> QED  BY <1>1, <1>2, <1>3 DEF Inv, JobOK, Jobs
(***************************************************************************)
(* initializeSession writes its row and the first transaction.             *)
(***************************************************************************)
LEMMA CreateSessionInv ==
  ASSUME Inv, NEW c \in Inits, CreateSession(c)
  PROVE  Inv'
<1> DEFINE ch == job[c].channel
<1>1. c \in Jobs /\ ch \in Ids /\ job[c].step = "answered"
  BY DEF Inv, IdGiven, CreateSession, Jobs
<1>2. CASE session[ch] # NoRow
  <2>1. Goto(c, "threw") /\ UNCHANGED <<session, transaction, accepted>>
    BY <1>2 DEF CreateSession
  <2> QED  BY <1>1, <2>1, GotoInv DEF Steps
<1>3. CASE session[ch] = NoRow
  <2> DEFINE row == [status |-> "OPEN", latestState |-> Deposit[c], latestNonce |-> 0]
  <2>1. /\ session' = [session EXCEPT ![ch] = row]
        /\ Goto(c, "first")
        /\ UNCHANGED <<transaction, accepted>>
    BY <1>3 DEF CreateSession
  <2>2. row \in Row
    BY ClearNodeAssumption DEF Row
  <2>3. JobOK'
    BY <2>1 DEF Inv, JobOK, Goto, Steps
  <2>4. \A d \in Jobs : /\ d # c => job'[d].step = job[d].step
                        /\ job'[d].channel = job[d].channel
                        /\ job'[d].nonce = job[d].nonce
                        /\ job'[d].alloc = job[d].alloc
    BY <2>1 DEF Inv, JobOK, Goto
  <2>5. DOMAIN session = Ids
    BY DEF Inv, SessionOK
  <2>6. /\ session'[ch] = row
        /\ \A x \in Ids : x # ch => session'[x] = session[x]
    BY <1>1, <2>1, <2>5
  <2>7. SessionOK'
    BY <1>1, <2>1, <2>2, <2>5, <2>6 DEF Inv, SessionOK
  <2>8. \A d \in Updates \cup Closes : d # c /\ d \in Jobs
    BY ClearNodeAssumption DEF Jobs
  <2>9. row # NoRow
    BY <2>2, ClearNodeAssumption DEF Row
  <2>10. RowFound'
    BY <1>1, <2>4, <2>6, <2>8, <2>9 DEF Inv, RowFound
  <2>11. IdGiven'
    BY <1>1, <2>4 DEF Inv, IdGiven, Jobs
  <2>12. NonceBefore'
    BY <2>1, <2>4, <2>8 DEF Inv, NonceBefore, Recorded
  <2>13. AcceptedBefore'
    BY <1>1, <2>1, <2>4, <2>8 DEF Inv, AcceptedBefore, Jobs
  <2>14. TransactionsAreTheHistory'
    BY <1>1, <2>1, <2>6 DEF Inv, TransactionsAreTheHistory
  <2>15. TransactionOK' /\ TransactionsAccepted'
    BY <2>1 DEF Inv, TransactionOK, TransactionsAccepted
  <2> QED
    BY <2>3, <2>7, <2>10, <2>11, <2>12, <2>13, <2>14, <2>15 DEF Inv
<1> QED  BY <1>2, <1>3

LEMMA FirstTransactionInv ==
  ASSUME Inv, NEW c \in Inits, FirstTransaction(c)
  PROVE  Inv'
<1> DEFINE t == [channel |-> job[c].channel, nonce |-> 0, state |-> Deposit[c], by |-> c]
<1>1. /\ c \in Jobs /\ t.channel \in Ids /\ job[c].step = "first"
      /\ Goto(c, "balance")
      /\ transaction' = transaction \cup {t}
      /\ UNCHANGED <<session, accepted>>
  BY DEF Inv, IdGiven, FirstTransaction, Jobs
<1>2. JobOK'
  BY <1>1 DEF Inv, JobOK, Goto, Steps
<1>3. /\ job'[c].step = "balance"
      /\ \A d \in Jobs : /\ d # c => job'[d].step = job[d].step
                         /\ job'[d].channel = job[d].channel
                         /\ job'[d].nonce = job[d].nonce
                         /\ job'[d].alloc = job[d].alloc
  BY <1>1 DEF Inv, JobOK, Goto
<1>4. \A d \in Updates \cup Closes : d # c /\ d \in Jobs
  BY ClearNodeAssumption DEF Jobs
<1>5. SessionOK' /\ RowFound'
  BY <1>1, <1>3, <1>4 DEF Inv, SessionOK, RowFound
<1>6. IdGiven'
  BY <1>1, <1>3 DEF Inv, IdGiven, Jobs
<1>7. TransactionOK'
  BY <1>1, ClearNodeAssumption DEF Inv, TransactionOK
<1>8. NonceBefore'
  BY <1>1, <1>3, <1>4 DEF Inv, NonceBefore, Recorded
<1>9. AcceptedBefore'
  BY <1>1, <1>3, <1>4 DEF Inv, AcceptedBefore, Jobs
<1>10. TransactionsAreTheHistory'
  BY <1>1 DEF Inv, TransactionsAreTheHistory
<1>11. TransactionsAccepted'
  BY <1>1 DEF Inv, TransactionsAccepted, AcceptedBefore
<1> QED
  BY <1>2, <1>5, <1>6, <1>7, <1>8, <1>9, <1>10, <1>11 DEF Inv

(***************************************************************************)
(* An update reads the row, and the nonce before its own is on record.     *)
(***************************************************************************)
LEMMA FindToUpdateInv ==
  ASSUME Inv, NEW c \in Updates, NEW ch \in Ids, FindToUpdate(c, ch)
  PROVE  Inv'
<1> DEFINE row == session[ch]
<1>1. c \in Jobs /\ UNCHANGED <<session, transaction, accepted>>
  BY DEF FindToUpdate, Jobs, tables
<1>2. CASE row = NoRow \/ row.status # "OPEN"
  <2>1. Goto(c, "refused")
    BY <1>2 DEF FindToUpdate
  <2> QED  BY <1>1, <2>1, GotoInv DEF Steps
<1>3. CASE ~(row = NoRow \/ row.status # "OPEN")
  <2>1. PICK step \in {"send", "answered"} :
          /\ step = "answered" => ch = Blank
          /\ job' = [job EXCEPT ![c] =
               [step |-> step, channel |-> ch, nonce |-> row.latestNonce + 1,
                alloc |-> Alloc[c], as |-> "guest"]]
    BY <1>3 DEF FindToUpdate
  <2>2. row \in Row /\ row # NoRow
    BY <1>3 DEF Inv, SessionOK
  <2>3. JobOK'
    BY <1>1, <2>1, <2>2, ClearNodeAssumption DEF Inv, JobOK, Steps, Row
  <2>4. /\ \A d \in Jobs \ {c} : job'[d] = job[d]
        /\ job'[c].step = step /\ job'[c].channel = ch
        /\ job'[c].nonce = row.latestNonce + 1 /\ job'[c].alloc = Alloc[c]
    BY <1>1, <2>1 DEF Inv, JobOK
  <2>5. RowFound'
    BY <1>1, <2>2, <2>4 DEF Inv, RowFound, Jobs
  <2>6. IdGiven'
    BY <2>4, ClearNodeAssumption DEF Inv, IdGiven, Jobs
  <2>7. row.latestNonce > 0 => Recorded(ch, row.latestNonce)
    BY <2>2 DEF Inv, TransactionsAreTheHistory, Recorded
  <2>8. NonceBefore'
    <3>1. ASSUME NEW d \in Updates, d # c, job'[d].step \in UnderWay
          PROVE  /\ job'[d].alloc = Alloc[d] /\ job'[d].nonce > 0
                 /\ job'[d].nonce > 1 => Recorded(job'[d].channel, job'[d].nonce - 1)
      BY <1>1, <2>4, <3>1 DEF Inv, NonceBefore, Recorded, Jobs
    <3>2. /\ job'[c].alloc = Alloc[c] /\ job'[c].nonce > 0
          /\ job'[c].nonce > 1 => Recorded(job'[c].channel, job'[c].nonce - 1)
      BY <1>1, <2>2, <2>4, <2>7 DEF Recorded, Row
    <3> QED  BY <1>1, <3>1, <3>2 DEF NonceBefore, Recorded
  <2>9. AcceptedBefore'
    BY <1>1, <2>1, <2>4, ClearNodeAssumption DEF Inv, AcceptedBefore, Jobs
  <2> QED  BY <1>1, <2>3, <2>5, <2>6, <2>8, <2>9, QuietInv
<1> QED  BY <1>2, <1>3

(***************************************************************************)
(* The row and its transaction, written with what was read before.         *)
(***************************************************************************)
LEMMA PersistInv ==
  ASSUME Inv, NEW c \in Updates, Persist(c)
  PROVE  Inv'
<1> DEFINE ch == job[c].channel
<1> DEFINE t == [channel |-> ch, nonce |-> job[c].nonce, state |-> job[c].alloc, by |-> c]
<1>1. /\ c \in Jobs /\ job[c].step = "answered"
      /\ session' = [session EXCEPT ![ch].latestState = job[c].alloc,
                                    ![ch].latestNonce = job[c].nonce]
      /\ transaction' = transaction \cup {t}
      /\ UNCHANGED accepted
  BY DEF Persist, Jobs
<1>2. PICK step \in {"done", "threw"} : Goto(c, step)
  BY DEF Persist, End
<1>3. /\ ch \in Ids /\ session[ch] \in Row /\ session[ch] # NoRow
      /\ job[c].alloc = Alloc[c] /\ job[c].alloc \in Nat
      /\ job[c].nonce \in Nat /\ job[c].nonce > 0
      /\ job[c].nonce > 1 => Recorded(ch, job[c].nonce - 1)
      /\ ch \in Channels => <<ch, Alloc[c]>> \in accepted
  <2>1. job[c].step \in UnderWay /\ job[c].nonce \in Nat
    BY <1>1 DEF Inv, JobOK, UnderWay
  <2>2. ch \in Ids /\ session[ch] # NoRow
    BY <2>1 DEF Inv, RowFound
  <2>3. session[ch] \in Row
    BY <2>2 DEF Inv, SessionOK
  <2>4. /\ job[c].alloc = Alloc[c] /\ job[c].nonce > 0
        /\ job[c].nonce > 1 => Recorded(ch, job[c].nonce - 1)
    BY <2>1 DEF Inv, NonceBefore
  <2>5. ch \in Channels => <<ch, Alloc[c]>> \in accepted
    BY <1>1 DEF Inv, AcceptedBefore
  <2> QED  BY <2>1, <2>2, <2>3, <2>4, <2>5, ClearNodeAssumption
<1>4. JobOK'
  BY <1>2 DEF Inv, JobOK, Goto, Steps
<1>5. /\ job'[c].step = step
      /\ \A d \in Jobs : /\ d # c => job'[d].step = job[d].step
                         /\ job'[d].channel = job[d].channel
                         /\ job'[d].nonce = job[d].nonce
                         /\ job'[d].alloc = job[d].alloc
  BY <1>1, <1>2 DEF Inv, JobOK, Goto
<1>6. DOMAIN session = Ids
  BY DEF Inv, SessionOK
<1>7. /\ DOMAIN session' = Ids
      /\ \A x \in Ids : x # ch => session'[x] = session[x]
  BY <1>1, <1>6
<1>8. /\ session'[ch] \in Row
      /\ session'[ch].latestState = job[c].alloc /\ session'[ch].latestNonce = job[c].nonce
  BY <1>1, <1>3, <1>6 DEF Row
<1>9. session'[ch] # NoRow
  BY <1>8, ClearNodeAssumption DEF Row
<1>10. SessionOK'
  BY <1>7, <1>8 DEF Inv, SessionOK
<1>11. TransactionOK'
  BY <1>1, <1>3 DEF Inv, TransactionOK
<1>12. RowFound'
  <2> SUFFICES ASSUME NEW d \in Updates \cup Closes, job'[d].step \in UnderWay
               PROVE  job'[d].channel \in Ids /\ session'[job'[d].channel] # NoRow
    BY DEF RowFound
  <2>1. d \in Jobs /\ d # c
    BY <1>5 DEF UnderWay, Jobs
  <2>2. job[d].channel \in Ids /\ session[job[d].channel] # NoRow
    BY <1>5, <2>1 DEF Inv, RowFound
  <2> QED  BY <1>5, <1>7, <1>9, <2>1, <2>2
<1>13. IdGiven'
  BY <1>5, ClearNodeAssumption DEF Inv, IdGiven, Jobs
<1>14. NonceBefore'
  <2> SUFFICES ASSUME NEW d \in Updates, job'[d].step \in UnderWay
               PROVE  /\ job'[d].alloc = Alloc[d] /\ job'[d].nonce > 0
                      /\ job'[d].nonce > 1 =>
                           \E u \in transaction' : /\ u.channel = job'[d].channel
                                                   /\ u.nonce = job'[d].nonce - 1
    BY DEF NonceBefore, Recorded
  <2>1. d \in Jobs /\ d # c
    BY <1>5 DEF UnderWay, Jobs
  <2> QED  BY <1>1, <1>5, <2>1 DEF Inv, NonceBefore, Recorded
<1>15. AcceptedBefore'
  BY <1>1, <1>5, ClearNodeAssumption DEF Inv, AcceptedBefore, Jobs
<1>16. TransactionsAreTheHistory'
  <2>1. \A u \in transaction' : u.nonce > 1 =>
          \E v \in transaction' : v.channel = u.channel /\ v.nonce = u.nonce - 1
    BY <1>1, <1>3 DEF Inv, TransactionsAreTheHistory, Recorded
  <2>2. ASSUME NEW x \in Ids, session'[x] # NoRow, session'[x].latestNonce > 0
        PROVE  \E u \in transaction' : /\ u.channel = x
                                       /\ u.nonce = session'[x].latestNonce
                                       /\ u.state = session'[x].latestState
    <3>1. CASE x = ch
      <4>1. t \in transaction'
        BY <1>1
      <4>2. t.channel = x /\ t.nonce = session'[x].latestNonce /\ t.state = session'[x].latestState
        BY <1>8, <3>1
      <4> QED  BY <4>1, <4>2
    <3>2. CASE x # ch
      BY <1>1, <1>7, <2>2, <3>2 DEF Inv, TransactionsAreTheHistory
    <3> QED  BY <3>1, <3>2
  <2> QED  BY <2>1, <2>2 DEF TransactionsAreTheHistory
<1>17. TransactionsAccepted'
  BY <1>1, <1>3 DEF Inv, TransactionsAccepted
<1> QED
  BY <1>4, <1>10, <1>11, <1>12, <1>13, <1>14, <1>15, <1>16, <1>17 DEF Inv

(***************************************************************************)
(* closeSession.                                                           *)
(***************************************************************************)
LEMMA FindToCloseInv ==
  ASSUME Inv, NEW c \in Closes, NEW ch \in Ids, FindToClose(c, ch)
  PROVE  Inv'
<1>1. c \in Jobs /\ UNCHANGED <<session, transaction, accepted>>
  BY DEF FindToClose, Jobs, tables
<1>2. CASE session[ch] = NoRow
  <2>1. Goto(c, "refused")
    BY <1>2 DEF FindToClose
  <2> QED  BY <1>1, <2>1, GotoInv DEF Steps
<1>3. CASE session[ch] # NoRow
  <2>1. PICK step \in {"send", "answered"} :
          job' = [job EXCEPT ![c] =
            [step |-> step, channel |-> ch, nonce |-> 0, alloc |-> session[ch].latestState,
             as |-> "guest"]]
    BY <1>3 DEF FindToClose
  <2>2. session[ch].latestState \in Nat
    BY <1>3 DEF Inv, SessionOK, Row
  <2>3. JobOK'
    BY <1>1, <2>1, <2>2 DEF Inv, JobOK, Steps
  <2>4. /\ \A d \in Jobs \ {c} : job'[d] = job[d]
        /\ job'[c].channel = ch
    BY <1>1, <2>1 DEF Inv, JobOK
  <2>5. RowFound'
    BY <1>1, <1>3, <2>4 DEF Inv, RowFound, Jobs
  <2>6. \A d \in Inits \cup Updates : d \in Jobs /\ d # c
    BY ClearNodeAssumption DEF Jobs
  <2>7. IdGiven'
    BY <2>4, <2>6 DEF Inv, IdGiven
  <2>8. NonceBefore'
    BY <1>1, <2>4, <2>6 DEF Inv, NonceBefore, Recorded
  <2>9. AcceptedBefore'
    BY <1>1, <2>4, <2>6 DEF Inv, AcceptedBefore
  <2> QED  BY <1>1, <2>3, <2>5, <2>7, <2>8, <2>9, QuietInv
<1> QED  BY <1>2, <1>3

LEMMA MarkInv ==
  ASSUME Inv, NEW c \in Closes, Mark(c)
  PROVE  Inv'
<1> DEFINE ch == job[c].channel
<1>1. /\ c \in Jobs /\ job[c].step = "answered"
      /\ session' = [session EXCEPT ![ch].status = "CLOSED"]
      /\ UNCHANGED <<transaction, accepted>>
  BY DEF Mark, Jobs
<1>2. PICK step \in {"done", "threw"} : Goto(c, step)
  BY DEF Mark, End
<1>3. DOMAIN session = Ids /\ ch \in Ids /\ session[ch] # NoRow /\ session[ch] \in Row
  BY <1>1 DEF Inv, RowFound, SessionOK, UnderWay
<1>4. JobOK'
  BY <1>2 DEF Inv, JobOK, Goto, Steps
<1>5. /\ job'[c].step = step
      /\ \A d \in Jobs : /\ d # c => job'[d].step = job[d].step
                         /\ job'[d].channel = job[d].channel
                         /\ job'[d].nonce = job[d].nonce
                         /\ job'[d].alloc = job[d].alloc
  BY <1>1, <1>2 DEF Inv, JobOK, Goto
<1>6. /\ DOMAIN session' = Ids
      /\ \A x \in Ids : x # ch => session'[x] = session[x]
      /\ session'[ch] \in Row
      /\ session'[ch].latestState = session[ch].latestState
      /\ session'[ch].latestNonce = session[ch].latestNonce
  BY <1>1, <1>3 DEF Row
<1>7. session'[ch] # NoRow
  BY <1>6, ClearNodeAssumption DEF Row
<1>8. SessionOK'
  BY <1>6 DEF Inv, SessionOK
<1>9. RowFound'
  <2> SUFFICES ASSUME NEW d \in Updates \cup Closes, job'[d].step \in UnderWay
               PROVE  job'[d].channel \in Ids /\ session'[job'[d].channel] # NoRow
    BY DEF RowFound
  <2>1. d \in Jobs /\ d # c
    BY <1>5 DEF UnderWay, Jobs
  <2>2. job[d].channel \in Ids /\ session[job[d].channel] # NoRow
    BY <1>5, <2>1 DEF Inv, RowFound
  <2> QED  BY <1>5, <1>6, <1>7, <2>1, <2>2
<1>10. \A d \in Inits \cup Updates : d \in Jobs /\ d # c
  BY ClearNodeAssumption DEF Jobs
<1>11. IdGiven'
  BY <1>5, <1>10 DEF Inv, IdGiven
<1>12. NonceBefore'
  BY <1>1, <1>5, <1>10 DEF Inv, NonceBefore, Recorded
<1>13. AcceptedBefore'
  BY <1>1, <1>5, <1>10 DEF Inv, AcceptedBefore
<1>14. TransactionsAreTheHistory'
  BY <1>1, <1>3, <1>6 DEF Inv, TransactionsAreTheHistory
<1>15. TransactionOK' /\ TransactionsAccepted'
  BY <1>1 DEF Inv, TransactionOK, TransactionsAccepted
<1> QED
  BY <1>4, <1>8, <1>9, <1>11, <1>12, <1>13, <1>14, <1>15 DEF Inv

(***************************************************************************)
(* One step per action.                                                    *)
(***************************************************************************)
LEMMA NextInv == Inv /\ [Next]_vars => Inv'
<1> SUFFICES ASSUME Inv, [Next]_vars PROVE Inv'
  OBVIOUS
<1>0. ASSUME UNCHANGED <<session, transaction, job, accepted>> PROVE Inv'
  BY <1>0 DEF Inv, JobOK, SessionOK, TransactionOK, RowFound, IdGiven, NonceBefore, Recorded,
              AcceptedBefore, TransactionsAreTheHistory, TransactionsAccepted
<1>1. CASE Drop \/ Reconnect \/ UNCHANGED vars
  BY <1>0, <1>1 DEF Drop, Reconnect, vars, tables
<1>2. ASSUME NEW c \in Jobs, Request(c) \/ Serve(c) PROVE Inv'
  BY <1>2, RequestInv, ServeInv
<1>3. ASSUME NEW c \in Jobs, Fail(c) PROVE Inv'
  BY <1>3, GotoInv DEF Fail, Steps, tables
<1>4. ASSUME NEW c \in Inits, Start(c) \/ Connect(c) \/ Login(c) PROVE Inv'
  <2>1. PICK step \in {"connect", "login", "send"} : Goto(c, step)
    BY <1>4 DEF Start, Connect, Login
  <2>2. c \in Jobs /\ UNCHANGED <<session, transaction, accepted>>
    BY <1>4 DEF Start, Connect, Login, tables, Jobs
  <2> QED  BY <2>1, <2>2, GotoInv DEF Steps
<1>5. ASSUME NEW c \in Inits, CreateSession(c) \/ FirstTransaction(c) PROVE Inv'
  BY <1>5, CreateSessionInv, FirstTransactionInv
<1>6. ASSUME NEW c \in Inits, UpsertBalance(c) PROVE Inv'
  BY <1>6, GotoInv DEF UpsertBalance, Steps, Jobs
<1>7. ASSUME NEW c \in Inits, PublishDeposit(c) PROVE Inv'
  <2>1. PICK step \in {"done", "threw"} : Goto(c, step)
    BY <1>7 DEF PublishDeposit, End
  <2> QED  BY <1>7, <2>1, GotoInv DEF PublishDeposit, Steps, Jobs
<1>8. ASSUME NEW c \in Updates, NEW ch \in Ids, FindToUpdate(c, ch) PROVE Inv'
  BY <1>8, FindToUpdateInv
<1>9. ASSUME NEW c \in Updates, Persist(c) PROVE Inv'
  BY <1>9, PersistInv
<1>10. ASSUME NEW c \in Closes, NEW ch \in Ids, FindToClose(c, ch) PROVE Inv'
  BY <1>10, FindToCloseInv
<1>11. ASSUME NEW c \in Closes, Mark(c) PROVE Inv'
  BY <1>11, MarkInv
<1> QED
  BY <1>1, <1>2, <1>3, <1>4, <1>5, <1>6, <1>7, <1>8, <1>9, <1>10, <1>11 DEF Next

(***************************************************************************)
(* The table of transactions is a history without gaps, and the state of a *)
(* session is one of its entries, however updates and closes overlap and   *)
(* wherever one of them fails.                                             *)
(***************************************************************************)
THEOREM HistoryHasNoGap == Spec => []TransactionsAreTheHistory
<1>1. Inv => TransactionsAreTheHistory
  BY DEF Inv
<1> QED
  BY <1>1, InitInv, NextInv, PTL DEF Spec

-----------------------------------------------------------------------------
(***************************************************************************)
(* The tables and the ClearNode.  A call on a session has found it there,  *)
(* and the state it carries to a close is one the database had.            *)
(***************************************************************************)
RemoteOK ==
  /\ DOMAIN remote = Channels
  /\ \A ch \in Channels : remote[ch] # NoRow => remote[ch] \in [open : BOOLEAN, alloc : Nat]
RemoteThere ==
  /\ \A c \in Jobs : job[c].channel \in Channels => remote[job[c].channel] # NoRow
  /\ \A ch \in Channels : session[ch] # NoRow => remote[ch] # NoRow
Asked ==
  /\ wire \subseteq Jobs
  /\ \A c \in wire : job[c].step # "idle"
  /\ \A c \in Updates \cup Closes : job[c].step \in {"send", "waiting"} \/ c \in wire =>
       job[c].channel \in Channels /\ job[c].alloc \in Nat
NotYetGiven ==
  \A c \in Inits : job[c].step \in {"idle", "connect", "login", "send", "waiting"} =>
    job[c].channel = NoRow

HadAsState(ch, alloc) ==
  \/ \E t \in transaction : t.channel = ch /\ t.state = alloc
  \/ \E c \in Inits : alloc = Deposit[c]
StateHad == \A ch \in Ids : session[ch] # NoRow => HadAsState(ch, session[ch].latestState)
CloseHad ==
  \A c \in Closes : job[c].step \in UnderWay \/ c \in wire =>
    HadAsState(job[c].channel, job[c].alloc)

RemoteInv ==
  /\ RemoteOK /\ RemoteThere /\ Asked /\ NotYetGiven
  /\ StateHad /\ CloseHad /\ ClosedWithARecordedState

\* What a step of one call leaves of the others.
LEMMA GotoPoint ==
  ASSUME Inv, NEW c \in Jobs, NEW step, Goto(c, step)
  PROVE  /\ job'[c].step = step
         /\ \A d \in Jobs : /\ d # c => job'[d] = job[d]
                            /\ job'[d].channel = job[d].channel
                            /\ job'[d].nonce = job[d].nonce
                            /\ job'[d].alloc = job[d].alloc
                            /\ job'[d].as = job[d].as
  BY DEF Inv, JobOK, Goto

LEMMA Disjoint ==
  /\ \A c \in Inits : c \in Jobs /\ c \notin Updates \cup Closes
  /\ \A c \in Updates : c \in Jobs /\ c \notin Inits \cup Closes
  /\ \A c \in Closes : c \in Jobs /\ c \notin Inits \cup Updates
  /\ \A c \in Jobs : c \in Inits \/ c \in Updates \/ c \in Closes
  BY ClearNodeAssumption DEF Jobs

LEMMA InitRemote == Init => RemoteInv
<1> SUFFICES ASSUME Init PROVE RemoteInv
  OBVIOUS
<1>1. \A c \in Jobs : job[c].step = "idle" /\ job[c].channel = NoRow
  BY DEF Init
<1>2. NoRow \notin Channels
  BY ClearNodeAssumption
<1>3. wire = {} /\ (\A ch \in Ids : session[ch] = NoRow) /\ remote = [ch \in Channels |-> NoRow]
  BY DEF Init
<1>4. \A ch \in Channels : ch \in Ids /\ remote[ch] = NoRow /\ session[ch] = NoRow
  BY <1>3 DEF Ids
<1>5. RemoteOK /\ RemoteThere /\ StateHad /\ ClosedWithARecordedState
  BY <1>1, <1>2, <1>3, <1>4 DEF RemoteOK, RemoteThere, StateHad, ClosedWithARecordedState
<1>6. Asked /\ NotYetGiven /\ CloseHad
  BY <1>1, <1>3, Disjoint DEF Asked, NotYetGiven, CloseHad, UnderWay
<1> QED  BY <1>5, <1>6 DEF RemoteInv

(***************************************************************************)
(* Steps of one call that leave the ClearNode alone and give the call      *)
(* nothing to ask.                                                         *)
(***************************************************************************)
LEMMA GotoRemote ==
  ASSUME Inv, RemoteInv, NEW c \in Jobs, NEW step, Goto(c, step),
         UNCHANGED remote, wire' \subseteq wire, transaction \subseteq transaction', StateHad',
         \A ch \in Channels : session'[ch] # NoRow => remote[ch] # NoRow,
         \/ step \in {"first", "balance", "publish", "done", "threw", "refused"}
         \/ /\ step \in {"connect", "login", "send"} /\ c \in Inits
            /\ job[c].step \in {"idle", "connect", "login"}
         \/ step = job[c].step
  PROVE  RemoteInv'
<1>1. RemoteOK' /\ RemoteThere'
  BY GotoPoint DEF RemoteInv, RemoteOK, RemoteThere
<1>2. Asked' /\ NotYetGiven'
  BY GotoPoint, Disjoint DEF RemoteInv, Asked, NotYetGiven
<1>3. CloseHad'
  BY GotoPoint, Disjoint DEF RemoteInv, CloseHad, HadAsState, UnderWay
<1>4. ClosedWithARecordedState'
  BY DEF RemoteInv, ClosedWithARecordedState
<1> QED  BY <1>1, <1>2, <1>3, <1>4 DEF RemoteInv

\* The same without a row written.
LEMMA QuietRemote ==
  ASSUME Inv, RemoteInv, NEW c \in Jobs, NEW step, Goto(c, step),
         UNCHANGED <<remote, session>>, wire' \subseteq wire, transaction \subseteq transaction',
         \/ step \in {"first", "balance", "publish", "done", "threw", "refused"}
         \/ /\ step \in {"connect", "login", "send"} /\ c \in Inits
            /\ job[c].step \in {"idle", "connect", "login"}
         \/ step = job[c].step
  PROVE  RemoteInv'
<1>1. StateHad'
  BY DEF RemoteInv, StateHad, HadAsState
<1>2. \A ch \in Channels : session'[ch] # NoRow => remote[ch] # NoRow
  BY DEF RemoteInv, RemoteThere
<1> QED  BY <1>1, <1>2, GotoRemote

LEMMA RequestRemote ==
  ASSUME Inv, RemoteInv, NEW c \in Jobs, Request(c)
  PROVE  RemoteInv'
<1>0. PICK as : job' = [job EXCEPT ![c].step = "waiting", ![c].as = as]
  BY DEF Request
<1>1. /\ job[c].step = "send" /\ job'[c].step = "waiting"
      /\ \A d \in Jobs : /\ d # c => job'[d].step = job[d].step
                         /\ job'[d].channel = job[d].channel
                         /\ job'[d].alloc = job[d].alloc
  BY <1>0 DEF Inv, JobOK, Request
<1>2. wire' = wire \cup {c} /\ UNCHANGED <<remote, session, transaction>>
  BY DEF Request, tables
<1>3. RemoteOK' /\ RemoteThere' /\ StateHad' /\ ClosedWithARecordedState'
  BY <1>1, <1>2
  DEF RemoteInv, RemoteOK, RemoteThere, StateHad, HadAsState, ClosedWithARecordedState
<1>4. Asked' /\ NotYetGiven'
  BY <1>1, <1>2, Disjoint DEF RemoteInv, Asked, NotYetGiven
<1>5. CloseHad'
  BY <1>1, <1>2, Disjoint DEF RemoteInv, CloseHad, HadAsState, UnderWay
<1> QED  BY <1>3, <1>4, <1>5 DEF RemoteInv

LEMMA ServeCreateRemote ==
  ASSUME Inv, RemoteInv, NEW c \in Inits, c \in wire, wire' = wire \ {c},
         ServeCreate(c), UNCHANGED tables
  PROVE  RemoteInv'
<1>1. PICK ch \in Channels, id \in Ids :
        /\ id \in {ch, Blank} /\ remote[ch] = NoRow
        /\ remote' = [remote EXCEPT ![ch] = [open |-> TRUE, alloc |-> Deposit[c]]]
        /\ job' = IF job[c].step = "waiting"
                    THEN [job EXCEPT ![c].step = "answered", ![c].channel = id] ELSE job
  BY DEF ServeCreate, Ids
<1>2. UNCHANGED <<session, transaction>>
  BY DEF tables
<1>3. c \in Jobs /\ Deposit[c] \in Nat /\ Blank \notin Channels
  BY ClearNodeAssumption, Disjoint
<1> DEFINE new == [open |-> TRUE, alloc |-> Deposit[c]]
<1>4. new \in [open : BOOLEAN, alloc : Nat] /\ new # NoRow /\ new.open
  <2>1. new \in [open : BOOLEAN, alloc : Nat] /\ new.open
    BY <1>3
  <2> HIDE DEF new
  <2> QED  BY <2>1, ClearNodeAssumption
<1>5. /\ DOMAIN remote' = Channels /\ remote'[ch] = new
      /\ \A x \in Channels : x # ch => remote'[x] = remote[x]
  <2> HIDE DEF new
  <2>1. remote' = [remote EXCEPT ![ch] = new]
    BY <1>1 DEF new
  <2> QED  BY <2>1 DEF RemoteInv, RemoteOK
<1> HIDE DEF new
<1>6. /\ \A d \in Jobs : /\ d # c => job'[d] = job[d]
                         /\ job'[d].alloc = job[d].alloc
      /\ \/ job'[c].step = "answered" /\ job'[c].channel = id
         \/ job[c].step # "waiting" /\ job'[c] = job[c]
  BY <1>1, <1>3 DEF Inv, JobOK
<1>7. RemoteOK' /\ ClosedWithARecordedState'
  BY <1>2, <1>4, <1>5 DEF RemoteInv, RemoteOK, ClosedWithARecordedState
<1>8. RemoteThere'
  <2>1. \A x \in Channels : remote[x] # NoRow \/ x = ch => remote'[x] # NoRow
    BY <1>4, <1>5
  <2>2. \A d \in Jobs : job'[d].channel \in Channels => remote'[job'[d].channel] # NoRow
    <3> SUFFICES ASSUME NEW d \in Jobs, job'[d].channel \in Channels
                 PROVE  job'[d].channel = job[d].channel \/ job'[d].channel = ch
      BY <1>1, <2>1 DEF RemoteInv, RemoteThere
    <3>1. id = ch \/ id \notin Channels
      BY <1>1, <1>3
    <3> QED  BY <1>6, <3>1
  <2> QED  BY <1>2, <2>1, <2>2 DEF RemoteInv, RemoteThere
<1>9. Asked' /\ NotYetGiven'
  BY <1>3, <1>6, Disjoint DEF RemoteInv, Asked, NotYetGiven
<1>10. StateHad'
  BY <1>2 DEF RemoteInv, StateHad, HadAsState
<1>11. CloseHad'
  BY <1>2, <1>6, Disjoint DEF RemoteInv, CloseHad, HadAsState
<1> QED  BY <1>7, <1>8, <1>9, <1>10, <1>11 DEF RemoteInv

LEMMA ServeChangeRemote ==
  ASSUME Inv, RemoteInv, NEW c \in Updates \cup Closes, c \in wire, wire' = wire \ {c},
         remote[job[c].channel].open, ServeChange(c), UNCHANGED tables
  PROVE  RemoteInv'
<1> DEFINE ch == job[c].channel
<1>1. /\ ch \in Channels /\ remote[ch] \in [open : BOOLEAN, alloc : Nat]
      /\ c \in Jobs
  BY Disjoint DEF RemoteInv, Asked, RemoteThere, RemoteOK
<1>2. UNCHANGED <<session, transaction>>
  BY DEF tables
<1>3. /\ remote' = [remote EXCEPT ![ch].alloc = job[c].alloc, ![ch].open = c \notin Closes]
      /\ \/ Goto(c, job[c].step)
         \/ job[c].step = "waiting" /\ Goto(c, "answered")
  BY DEF ServeChange, Goto
<1>4. job[c].alloc \in Nat
  BY DEF RemoteInv, Asked
<1> DEFINE mid == [remote EXCEPT ![ch].alloc = job[c].alloc]
<1>5. /\ DOMAIN mid = Channels /\ mid[ch] \in [open : BOOLEAN, alloc : Nat]
      /\ mid[ch].alloc = job[c].alloc
      /\ \A x \in Channels : x # ch => mid[x] = remote[x]
  BY <1>1, <1>4 DEF RemoteInv, RemoteOK
<1>6. remote' = [mid EXCEPT ![ch].open = c \notin Closes]
  BY <1>3
<1>7. /\ DOMAIN remote' = Channels /\ remote'[ch] \in [open : BOOLEAN, alloc : Nat]
      /\ remote'[ch].alloc = job[c].alloc /\ remote'[ch].open = (c \notin Closes)
      /\ \A x \in Channels : x # ch => remote'[x] = remote[x]
  <2> HIDE DEF mid
  <2> QED  BY <1>1, <1>5, <1>6
<1>8. remote'[ch] # NoRow
  BY <1>7, ClearNodeAssumption
<1> HIDE DEF mid
<1>9. /\ \A d \in Jobs : /\ d # c => job'[d] = job[d]
                         /\ job'[d].channel = job[d].channel
                         /\ job'[d].alloc = job[d].alloc
      /\ \/ job'[c].step = job[c].step
         \/ job[c].step = "waiting" /\ job'[c].step = "answered"
  BY <1>1, <1>3, GotoPoint
<1>10. RemoteOK' /\ RemoteThere'
  BY <1>2, <1>7, <1>8, <1>9 DEF RemoteInv, RemoteOK, RemoteThere
<1>11. Asked' /\ NotYetGiven'
  BY <1>1, <1>9, Disjoint DEF RemoteInv, Asked, NotYetGiven
<1>12. StateHad'
  BY <1>2 DEF RemoteInv, StateHad, HadAsState
<1>13. CloseHad'
  BY <1>2, <1>9, Disjoint DEF RemoteInv, CloseHad, HadAsState, UnderWay
<1>14. ClosedWithARecordedState'
  <2>1. c \in Closes => HadAsState(ch, job[c].alloc)
    BY DEF RemoteInv, CloseHad
  <2> QED
    BY <1>2, <1>7, <2>1 DEF RemoteInv, ClosedWithARecordedState, HadAsState
<1> QED  BY <1>10, <1>11, <1>12, <1>13, <1>14 DEF RemoteInv

LEMMA ServeRemote ==
  ASSUME Inv, RemoteInv, NEW c \in Jobs, Serve(c)
  PROVE  RemoteInv'
<1>0. c \in wire /\ wire' = wire \ {c} /\ UNCHANGED tables
  BY DEF Serve
<1>1. CASE Refuse(c)
  <2>1. PICK step \in {job[c].step, "refused"} : Goto(c, step)
    BY <1>1 DEF Refuse
  <2> QED  BY <1>0, <1>1, <2>1, QuietRemote DEF Refuse, tables
<1>2. CASE c \in Inits /\ ServeCreate(c)
  BY <1>0, <1>2, ServeCreateRemote
<1>3. CASE c \notin Inits /\ remote[job[c].channel].open /\ ServeChange(c)
  BY <1>0, <1>3, ServeChangeRemote, Disjoint
<1>4. CASE c \notin Inits /\ ~remote[job[c].channel].open /\ ServeChange(c)
  BY <1>1, <1>4 DEF ServeChange
<1> QED  BY <1>1, <1>2, <1>3, <1>4 DEF Serve

(***************************************************************************)
(* The rows.                                                               *)
(***************************************************************************)
LEMMA CreateSessionRemote ==
  ASSUME Inv, RemoteInv, NEW c \in Inits, CreateSession(c)
  PROVE  RemoteInv'
<1> DEFINE ch == job[c].channel
<1>1. /\ c \in Jobs /\ ch \in Ids /\ DOMAIN session = Ids
      /\ UNCHANGED <<remote, wire, transaction>>
  BY DEF Inv, IdGiven, SessionOK, CreateSession, Jobs
<1>2. CASE session[ch] # NoRow
  <2>1. Goto(c, "threw") /\ UNCHANGED session
    BY <1>2 DEF CreateSession
  <2> QED  BY <1>1, <2>1, QuietRemote
<1>3. CASE session[ch] = NoRow
  <2> DEFINE row == [status |-> "OPEN", latestState |-> Deposit[c], latestNonce |-> 0]
  <2>1. session' = [session EXCEPT ![ch] = row] /\ Goto(c, "first")
    BY <1>3 DEF CreateSession
  <2>2. row.latestState = Deposit[c]
    OBVIOUS
  <2> HIDE DEF row
  <2>3. StateHad'
    BY <1>1, <2>1, <2>2 DEF RemoteInv, StateHad, HadAsState
  <2>4. \A x \in Channels : session'[x] # NoRow => remote[x] # NoRow
    BY <1>1, <2>1 DEF RemoteInv, RemoteThere, Ids
  <2> QED  BY <1>1, <2>1, <2>3, <2>4, GotoRemote
<1> QED  BY <1>2, <1>3

LEMMA PersistRemote ==
  ASSUME Inv, RemoteInv, NEW c \in Updates, Persist(c)
  PROVE  RemoteInv'
<1> DEFINE ch == job[c].channel
<1> DEFINE t == [channel |-> ch, nonce |-> job[c].nonce, state |-> job[c].alloc, by |-> c]
<1>1. /\ c \in Jobs /\ job[c].step = "answered"
      /\ session' = [session EXCEPT ![ch].latestState = job[c].alloc,
                                    ![ch].latestNonce = job[c].nonce]
      /\ transaction' = transaction \cup {t}
      /\ UNCHANGED <<remote, wire>>
  BY DEF Persist, Jobs
<1>2. PICK step \in {"done", "threw"} : Goto(c, step)
  BY DEF Persist, End
<1>3. ch \in Ids /\ session[ch] # NoRow /\ DOMAIN session = Ids /\ session[ch] \in Row
  BY <1>1 DEF Inv, RowFound, SessionOK, UnderWay
<1>4. /\ session'[ch].latestState = job[c].alloc
      /\ \A x \in Ids : x # ch => session'[x] = session[x]
  BY <1>1, <1>3 DEF Row
<1>5. t \in transaction' /\ t.channel = ch /\ t.state = job[c].alloc
  BY <1>1
<1> HIDE DEF t
<1>6. StateHad'
  <2> SUFFICES ASSUME NEW x \in Ids, session'[x] # NoRow
               PROVE  \/ \E u \in transaction' : /\ u.channel = x
                                                  /\ u.state = session'[x].latestState
                      \/ \E i \in Inits : session'[x].latestState = Deposit[i]
    BY DEF StateHad, HadAsState
  <2>1. CASE x = ch
    BY <1>4, <1>5, <2>1
  <2>2. CASE x # ch
    BY <1>1, <1>4, <2>2 DEF RemoteInv, StateHad, HadAsState
  <2> QED  BY <2>1, <2>2
<1>7. \A x \in Channels : session'[x] # NoRow => remote[x] # NoRow
  BY <1>3, <1>4 DEF RemoteInv, RemoteThere, Ids
<1> QED  BY <1>1, <1>2, <1>6, <1>7, GotoRemote

LEMMA MarkRemote ==
  ASSUME Inv, RemoteInv, NEW c \in Closes, Mark(c)
  PROVE  RemoteInv'
<1> DEFINE ch == job[c].channel
<1>1. /\ c \in Jobs /\ job[c].step = "answered"
      /\ session' = [session EXCEPT ![ch].status = "CLOSED"]
      /\ UNCHANGED <<remote, wire, transaction>>
  BY DEF Mark, Jobs
<1>2. PICK step \in {"done", "threw"} : Goto(c, step)
  BY DEF Mark, End
<1>3. ch \in Ids /\ session[ch] # NoRow /\ DOMAIN session = Ids /\ session[ch] \in Row
  BY <1>1 DEF Inv, RowFound, SessionOK, UnderWay
<1>4. /\ session'[ch].latestState = session[ch].latestState
      /\ \A x \in Ids : x # ch => session'[x] = session[x]
  BY <1>1, <1>3 DEF Row
<1>5. StateHad'
  BY <1>1, <1>3, <1>4 DEF RemoteInv, StateHad, HadAsState
<1>6. \A x \in Channels : session'[x] # NoRow => remote[x] # NoRow
  BY <1>3, <1>4 DEF RemoteInv, RemoteThere, Ids
<1> QED  BY <1>1, <1>2, <1>5, <1>6, GotoRemote

(***************************************************************************)
(* An update or a close finds the row of its session.                      *)
(***************************************************************************)
LEMMA FoundRemote ==
  ASSUME Inv, RemoteInv, NEW c \in Updates \cup Closes, NEW ch \in Ids, session[ch] # NoRow,
         NEW step \in {"send", "answered"}, step = "send" => ch # Blank,
         NEW nonce, NEW alloc \in Nat,
         c \in Closes => alloc = session[ch].latestState,
         job' = [job EXCEPT ![c] = [step |-> step, channel |-> ch, nonce |-> nonce,
                                    alloc |-> alloc, as |-> "guest"]],
         job[c].step = "idle", UNCHANGED <<remote, session, wire, transaction>>
  PROVE  RemoteInv'
<1>1. c \in Jobs /\ c \notin wire
  BY DEF RemoteInv, Asked, Jobs
<1>2. /\ \A d \in Jobs \ {c} : job'[d] = job[d]
      /\ job'[c].step = step /\ job'[c].channel = ch /\ job'[c].alloc = alloc
  BY <1>1 DEF Inv, JobOK
<1>3. RemoteOK' /\ StateHad' /\ ClosedWithARecordedState'
  BY DEF RemoteInv, RemoteOK, StateHad, HadAsState, ClosedWithARecordedState
<1>4. RemoteThere'
  BY <1>1, <1>2 DEF RemoteInv, RemoteThere
<1>5. Asked' /\ NotYetGiven'
  BY <1>1, <1>2, Disjoint DEF RemoteInv, Asked, NotYetGiven, Ids
<1>6. CloseHad'
  <2>1. HadAsState(ch, session[ch].latestState)
    BY DEF RemoteInv, StateHad
  <2> QED  BY <1>1, <1>2, <2>1, Disjoint DEF RemoteInv, CloseHad, HadAsState
<1> QED  BY <1>3, <1>4, <1>5, <1>6 DEF RemoteInv

LEMMA FindToUpdateRemote ==
  ASSUME Inv, RemoteInv, NEW c \in Updates, NEW ch \in Ids, FindToUpdate(c, ch)
  PROVE  RemoteInv'
<1>1. c \in Jobs /\ job[c].step = "idle" /\ UNCHANGED <<remote, session, wire, transaction>>
  BY DEF FindToUpdate, Jobs, tables
<1>2. CASE session[ch] = NoRow \/ session[ch].status # "OPEN"
  BY <1>1, <1>2, QuietRemote DEF FindToUpdate
<1>3. CASE ~(session[ch] = NoRow \/ session[ch].status # "OPEN")
  <2>1. PICK step \in {"send", "answered"} :
          /\ step = "send" => ch # Blank
          /\ job' = [job EXCEPT ![c] =
               [step |-> step, channel |-> ch, nonce |-> session[ch].latestNonce + 1,
                alloc |-> Alloc[c], as |-> "guest"]]
    BY <1>3 DEF FindToUpdate
  <2>2. Alloc[c] \in Nat /\ c \notin Closes
    BY ClearNodeAssumption, Disjoint
  <2> QED  BY <1>1, <1>3, <2>1, <2>2, FoundRemote
<1> QED  BY <1>2, <1>3

LEMMA FindToCloseRemote ==
  ASSUME Inv, RemoteInv, NEW c \in Closes, NEW ch \in Ids, FindToClose(c, ch)
  PROVE  RemoteInv'
<1>1. c \in Jobs /\ job[c].step = "idle" /\ UNCHANGED <<remote, session, wire, transaction>>
  BY DEF FindToClose, Jobs, tables
<1>2. CASE session[ch] = NoRow
  BY <1>1, <1>2, QuietRemote DEF FindToClose
<1>3. CASE session[ch] # NoRow
  <2>1. PICK step \in {"send", "answered"} :
          /\ step = "send" => ch # Blank
          /\ job' = [job EXCEPT ![c] =
               [step |-> step, channel |-> ch, nonce |-> 0,
                alloc |-> session[ch].latestState, as |-> "guest"]]
    BY <1>3 DEF FindToClose
  <2>2. session[ch].latestState \in Nat
    BY <1>3 DEF Inv, SessionOK, Row
  <2> QED  BY <1>1, <1>3, <2>1, <2>2, FoundRemote
<1> QED  BY <1>2, <1>3

LEMMA NextRemote == Inv /\ RemoteInv /\ [Next]_vars => RemoteInv'
<1> SUFFICES ASSUME Inv, RemoteInv, [Next]_vars PROVE RemoteInv'
  OBVIOUS
<1>1. CASE Drop \/ Reconnect \/ UNCHANGED vars
  <2>1. UNCHANGED <<wire, remote, session, transaction, job>>
    BY <1>1 DEF Drop, Reconnect, vars, tables
  <2> QED
    BY <2>1 DEF RemoteInv, RemoteOK, RemoteThere, Asked, NotYetGiven, StateHad, CloseHad,
                HadAsState, ClosedWithARecordedState
<1>2. ASSUME NEW c \in Jobs, Request(c) \/ Serve(c) PROVE RemoteInv'
  BY <1>2, RequestRemote, ServeRemote
<1>3. ASSUME NEW c \in Jobs, Fail(c) PROVE RemoteInv'
  BY <1>3, QuietRemote DEF Fail, tables
<1>4. ASSUME NEW c \in Inits, Start(c) \/ Connect(c) \/ Login(c) PROVE RemoteInv'
  <2>1. PICK step \in {"connect", "login", "send"} : Goto(c, step)
    BY <1>4 DEF Start, Connect, Login
  <2>2. /\ c \in Jobs /\ UNCHANGED <<wire, remote, session, transaction>>
        /\ job[c].step \in {"idle", "connect", "login"}
    BY <1>4 DEF Start, Connect, Login, tables, Jobs
  <2> QED  BY <2>1, <2>2, QuietRemote
<1>5. ASSUME NEW c \in Inits, CreateSession(c) PROVE RemoteInv'
  BY <1>5, CreateSessionRemote
<1>6. ASSUME NEW c \in Inits, FirstTransaction(c) \/ UpsertBalance(c) PROVE RemoteInv'
  BY <1>6, QuietRemote DEF FirstTransaction, UpsertBalance, Jobs
<1>7. ASSUME NEW c \in Inits, PublishDeposit(c) PROVE RemoteInv'
  <2>1. PICK step \in {"done", "threw"} : Goto(c, step)
    BY <1>7 DEF PublishDeposit, End
  <2> QED  BY <1>7, <2>1, QuietRemote DEF PublishDeposit, Jobs
<1>8. ASSUME NEW c \in Updates, NEW ch \in Ids, FindToUpdate(c, ch) PROVE RemoteInv'
  BY <1>8, FindToUpdateRemote
<1>9. ASSUME NEW c \in Updates, Persist(c) PROVE RemoteInv'
  BY <1>9, PersistRemote
<1>10. ASSUME NEW c \in Closes, NEW ch \in Ids, FindToClose(c, ch) PROVE RemoteInv'
  BY <1>10, FindToCloseRemote
<1>11. ASSUME NEW c \in Closes, Mark(c) PROVE RemoteInv'
  BY <1>11, MarkRemote
<1> QED
  BY <1>1, <1>2, <1>3, <1>4, <1>5, <1>6, <1>7, <1>8, <1>9, <1>10, <1>11 DEF Next

(***************************************************************************)
(* The ClearNode closes a session only with allocations this database had  *)
(* as its state, however late it serves the close and whatever the updates *)
(* that race with it do.                                                   *)
(***************************************************************************)
THEOREM ClosesWithAState == Spec => []ClosedWithARecordedState
<1>1. RemoteInv => ClosedWithARecordedState
  BY DEF RemoteInv
<1>2. Init => Inv /\ RemoteInv
  BY InitInv, InitRemote
<1>3. Inv /\ RemoteInv /\ [Next]_vars => Inv' /\ RemoteInv'
  BY NextInv, NextRemote
<1> QED  BY <1>1, <1>2, <1>3, PTL DEF Spec

-----------------------------------------------------------------------------
(***************************************************************************)
(* While calls come one after the other: whoever runs on a session is      *)
(* alone and has its request on the wire only while it waits; a close      *)
(* carries the state of the row; and the row differs from the ClearNode's  *)
(* session only while an update has its answer and not stored it.          *)
(***************************************************************************)
InOrder == Channels \ (overlapped \cup failed)
Alone ==
  \A c, d \in Jobs :
    /\ job[c].step \notin Ended /\ job[d].step \notin Ended
    /\ job[c].channel = job[d].channel /\ job[c].channel \in InOrder
    => c = d
Awaited == \A c \in wire : job[c].channel \in InOrder => job[c].step = "waiting"
CarriesRow ==
  \A c \in Closes : job[c].step \notin Ended /\ job[c].channel \in InOrder =>
    job[c].alloc = session[job[c].channel].latestState
AnswerIsRemote ==
  \A c \in Inits \cup Updates : job[c].step = "answered" /\ job[c].channel \in InOrder =>
    remote[job[c].channel].alloc = IF c \in Inits THEN Deposit[c] ELSE job[c].alloc
RowIsRemote ==
  \A ch \in InOrder :
    /\ session[ch] # NoRow
    /\ \A c \in Updates : ~(job[c].step = "answered" /\ job[c].channel = ch)
    => session[ch].latestState = remote[ch].alloc

OrderInv == Alone /\ Awaited /\ CarriesRow /\ AnswerIsRemote /\ RowIsRemote

LEMMA InitOrder == Init => OrderInv
<1> SUFFICES ASSUME Init PROVE OrderInv
  OBVIOUS
<1>1. (\A c \in Jobs : job[c].step = "idle") /\ wire = {} /\ session = [ch \in Ids |-> NoRow]
  BY DEF Init
<1>2. \A c \in Jobs : job[c].step \in Ended /\ job[c].step # "answered"
  BY <1>1 DEF Ended
<1>3. Alone /\ Awaited /\ CarriesRow /\ AnswerIsRemote
  BY <1>1, <1>2, Disjoint DEF Alone, Awaited, CarriesRow, AnswerIsRemote
<1>4. RowIsRemote
  BY <1>1 DEF RowIsRemote, InOrder, Ids
<1> QED  BY <1>3, <1>4 DEF OrderInv

LEMMA OrderShrinks ==
  ASSUME overlapped \subseteq overlapped', failed \subseteq failed'
  PROVE  InOrder' \subseteq InOrder /\ InOrder' \subseteq Channels
  BY DEF InOrder

(***************************************************************************)
(* Steps of one call that write no row and get no answer.  An update that  *)
(* has its answer does not lose it without having failed.                  *)
(***************************************************************************)
LEMMA GotoOrder ==
  ASSUME Inv, RemoteInv, OrderInv, NEW c \in Jobs, NEW step, Goto(c, step),
         UNCHANGED <<remote, session, overlapped>>, wire' \subseteq wire, failed \subseteq failed',
         job[c].channel \in InOrder' =>
           /\ step \in Ended \/ job[c].step \notin Ended
           /\ step # "answered"
           /\ job[c].step = "waiting" => c \notin wire'
           /\ job[c].step = "answered" => c \notin Updates
  PROVE  OrderInv'
<1>1. /\ job'[c].step = step
      /\ \A d \in Jobs : /\ d # c => job'[d].step = job[d].step
                         /\ job'[d].channel = job[d].channel
                         /\ job'[d].alloc = job[d].alloc
  BY GotoPoint
<1>2. InOrder' \subseteq InOrder
  BY OrderShrinks
<1>3. Alone'
  BY <1>1, <1>2 DEF OrderInv, Alone
<1>4. Awaited'
  BY <1>1, <1>2 DEF OrderInv, Awaited, RemoteInv, Asked
<1>5. CarriesRow'
  BY <1>1, <1>2, Disjoint DEF OrderInv, CarriesRow
<1>6. AnswerIsRemote'
  BY <1>1, <1>2, Disjoint DEF OrderInv, AnswerIsRemote
<1>7. RowIsRemote'
  BY <1>1, <1>2, Disjoint DEF OrderInv, RowIsRemote
<1> QED  BY <1>3, <1>4, <1>5, <1>6, <1>7 DEF OrderInv

LEMMA RequestOrder ==
  ASSUME Inv, RemoteInv, OrderInv, NEW c \in Jobs, Request(c)
  PROVE  OrderInv'
<1>0. PICK as : job' = [job EXCEPT ![c].step = "waiting", ![c].as = as]
  BY DEF Request
<1>1. /\ job[c].step = "send" /\ job'[c].step = "waiting"
      /\ \A d \in Jobs : /\ d # c => job'[d].step = job[d].step
                         /\ job'[d].channel = job[d].channel
                         /\ job'[d].alloc = job[d].alloc
  BY <1>0 DEF Inv, JobOK, Request
<1>2. wire' = wire \cup {c} /\ UNCHANGED <<remote, session, overlapped, failed>>
  BY DEF Request, tables
<1>3. Alone' /\ Awaited'
  BY <1>1, <1>2 DEF OrderInv, Alone, Awaited, InOrder, Ended, RemoteInv, Asked
<1>4. CarriesRow' /\ AnswerIsRemote'
  BY <1>1, <1>2, Disjoint DEF OrderInv, CarriesRow, AnswerIsRemote, InOrder, Ended
<1>5. RowIsRemote'
  BY <1>1, <1>2, Disjoint DEF OrderInv, RowIsRemote, InOrder
<1> QED  BY <1>3, <1>4, <1>5 DEF OrderInv

LEMMA ServeCreateOrder ==
  ASSUME Inv, RemoteInv, OrderInv, NEW c \in Inits, c \in wire, wire' = wire \ {c},
         ServeCreate(c), UNCHANGED <<tables, overlapped, failed>>
  PROVE  OrderInv'
<1>1. PICK ch \in Channels, id \in Ids :
        /\ id \in {ch, Blank} /\ remote[ch] = NoRow
        /\ remote' = [remote EXCEPT ![ch] = [open |-> TRUE, alloc |-> Deposit[c]]]
        /\ job' = IF job[c].step = "waiting"
                    THEN [job EXCEPT ![c].step = "answered", ![c].channel = id] ELSE job
  BY DEF ServeCreate, Ids
<1>2. UNCHANGED <<session, InOrder>> /\ InOrder \subseteq Channels
  BY DEF tables, InOrder
<1>3. c \in Jobs /\ c \notin Updates \cup Closes /\ Blank \notin Channels
  BY ClearNodeAssumption, Disjoint
<1>4. /\ remote'[ch].alloc = Deposit[c]
      /\ \A x \in Channels : x # ch => remote'[x] = remote[x]
  BY <1>1 DEF RemoteInv, RemoteOK
<1>5. /\ \A d \in Jobs \ {c} : job'[d] = job[d]
      /\ \/ /\ job'[c].step = "answered" /\ job'[c].channel = id
            /\ job[c].step = "waiting"
         \/ job'[c] = job[c] /\ job[c].step # "waiting"
  BY <1>1, <1>3 DEF Inv, JobOK
<1>6. (\A d \in Jobs : job[d].channel # ch) /\ session[ch] = NoRow
  BY <1>1 DEF RemoteInv, RemoteThere
<1>7. Alone'
  <2>1. CASE job'[c] = job[c]
    BY <1>2, <1>5, <2>1 DEF OrderInv, Alone
  <2>2. CASE job'[c].channel = id
    <3>1. job'[c].channel \in InOrder => \A d \in Jobs \ {c} : job'[d].channel # job'[c].channel
      BY <1>1, <1>2, <1>3, <1>5, <1>6, <2>2
    <3> QED  BY <1>2, <1>5, <3>1 DEF OrderInv, Alone
  <2> QED  BY <1>5, <2>1, <2>2
<1>8. Awaited'
  BY <1>2, <1>5 DEF OrderInv, Awaited, RemoteInv, Asked
<1>9. CarriesRow'
  BY <1>2, <1>3, <1>5, Disjoint DEF OrderInv, CarriesRow
<1>10. AnswerIsRemote'
  <2> SUFFICES ASSUME NEW d \in Inits \cup Updates, job'[d].step = "answered",
                      job'[d].channel \in InOrder
               PROVE  remote'[job'[d].channel].alloc =
                        IF d \in Inits THEN Deposit[d] ELSE job'[d].alloc
    BY <1>2 DEF AnswerIsRemote
  <2>1. d \in Jobs
    BY Disjoint
  <2>2. CASE job'[d] = job[d]
    <3>1. job[d].channel # ch /\ job[d].channel \in Channels
      BY <1>2, <1>6, <2>1, <2>2
    <3> QED  BY <1>4, <2>2, <3>1 DEF OrderInv, AnswerIsRemote
  <2>3. CASE d = c /\ job'[c].channel = id
    <3>1. id = ch
      BY <1>1, <1>2, <1>3, <2>3
    <3> QED  BY <1>4, <2>3, <3>1
  <2> QED  BY <1>5, <2>1, <2>2, <2>3
<1>11. RowIsRemote'
  BY <1>2, <1>3, <1>4, <1>5, <1>6, Disjoint DEF OrderInv, RowIsRemote
<1> QED  BY <1>7, <1>8, <1>9, <1>10, <1>11 DEF OrderInv

LEMMA ServeChangeOrder ==
  ASSUME Inv, RemoteInv, OrderInv, NEW c \in Updates \cup Closes, c \in wire,
         wire' = wire \ {c}, remote[job[c].channel].open, ServeChange(c),
         UNCHANGED <<tables, overlapped, failed>>
  PROVE  OrderInv'
<1> DEFINE ch == job[c].channel
<1>1. /\ ch \in Channels /\ remote[ch] \in [open : BOOLEAN, alloc : Nat]
      /\ c \in Jobs /\ c \notin Inits /\ job[c].alloc \in Nat
  BY Disjoint DEF RemoteInv, Asked, RemoteThere, RemoteOK
<1>2. UNCHANGED <<session, InOrder>> /\ InOrder \subseteq Channels
  BY DEF tables, InOrder
<1>3. /\ remote' = [remote EXCEPT ![ch].alloc = job[c].alloc, ![ch].open = c \notin Closes]
      /\ Goto(c, IF job[c].step = "waiting" THEN "answered" ELSE job[c].step)
  BY DEF ServeChange
<1>4. /\ remote'[ch].alloc = job[c].alloc
      /\ \A x \in Channels : x # ch => remote'[x] = remote[x]
  BY <1>1, <1>3 DEF RemoteInv, RemoteOK
<1>5. /\ \A d \in Jobs : /\ d # c => job'[d].step = job[d].step
                         /\ job'[d].channel = job[d].channel
                         /\ job'[d].alloc = job[d].alloc
      /\ job'[c].step = IF job[c].step = "waiting" THEN "answered" ELSE job[c].step
  BY <1>1, <1>3, GotoPoint
<1>6. ch \in InOrder => job[c].step = "waiting"
  BY DEF OrderInv, Awaited
<1>7. \A d \in Jobs : ch \in InOrder /\ job[d].channel = ch /\ job[d].step \notin Ended => d = c
  BY <1>1, <1>6 DEF OrderInv, Alone, Ended
<1>8. Alone'
  BY <1>1, <1>2, <1>5 DEF OrderInv, Alone, Ended
<1>9. Awaited'
  BY <1>1, <1>2, <1>5 DEF OrderInv, Awaited, RemoteInv, Asked
<1>10. CarriesRow'
  BY <1>1, <1>2, <1>5, Disjoint DEF OrderInv, CarriesRow, Ended
<1>11. AnswerIsRemote'
  <2> SUFFICES ASSUME NEW d \in Inits \cup Updates, job'[d].step = "answered",
                      job'[d].channel \in InOrder
               PROVE  remote'[job'[d].channel].alloc =
                        IF d \in Inits THEN Deposit[d] ELSE job'[d].alloc
    BY <1>2 DEF AnswerIsRemote
  <2>1. d \in Jobs /\ job'[d].channel = job[d].channel /\ job'[d].alloc = job[d].alloc
    BY <1>5, Disjoint
  <2>2. CASE d = c
    BY <1>1, <1>4, <2>1, <2>2
  <2>3. CASE d # c
    <3>1. job[d].step = "answered" /\ job[d].channel # ch
      BY <1>5, <1>7, <2>1, <2>3 DEF Ended
    <3> QED  BY <1>2, <1>4, <2>1, <3>1 DEF OrderInv, AnswerIsRemote
  <2> QED  BY <2>2, <2>3
<1>12. RowIsRemote'
  <2> SUFFICES ASSUME NEW x \in InOrder, session[x] # NoRow,
                      \A d \in Updates : ~(job'[d].step = "answered" /\ job'[d].channel = x)
               PROVE  session[x].latestState = remote'[x].alloc
    BY <1>2 DEF RowIsRemote
  <2>1. CASE x = ch
    <3>1. c \in Closes
      BY <1>1, <1>5, <1>6, <2>1
    <3>2. job[c].alloc = session[ch].latestState
      BY <1>6, <2>1, <3>1 DEF OrderInv, CarriesRow, Ended
    <3> QED  BY <1>4, <2>1, <3>2
  <2>2. CASE x # ch
    <3>1. \A d \in Updates : ~(job[d].step = "answered" /\ job[d].channel = x)
      BY <1>5, <2>2, Disjoint
    <3> QED  BY <1>2, <1>4, <2>2, <3>1 DEF OrderInv, RowIsRemote
  <2> QED  BY <2>1, <2>2
<1> QED  BY <1>8, <1>9, <1>10, <1>11, <1>12 DEF OrderInv

LEMMA ServeOrder ==
  ASSUME Inv, RemoteInv, OrderInv, NEW c \in Jobs, Serve(c)
  PROVE  OrderInv'
<1>0. c \in wire /\ wire' = wire \ {c} /\ UNCHANGED <<tables, overlapped, failed>>
  BY DEF Serve
<1>1. CASE Refuse(c)
  <2>1. Goto(c, IF job[c].step = "waiting" THEN "refused" ELSE job[c].step) /\ UNCHANGED remote
    BY <1>1 DEF Refuse
  <2>2. job[c].channel \in InOrder => job[c].step = "waiting"
    BY <1>0 DEF OrderInv, Awaited
  <2>3. InOrder' = InOrder
    BY <1>0 DEF InOrder
  <2> QED  BY <1>0, <2>1, <2>2, <2>3, GotoOrder DEF tables, Ended
<1>2. CASE c \in Inits /\ ServeCreate(c)
  BY <1>0, <1>2, ServeCreateOrder
<1>3. CASE c \notin Inits /\ remote[job[c].channel].open /\ ServeChange(c)
  BY <1>0, <1>3, ServeChangeOrder, Disjoint
<1>4. CASE c \notin Inits /\ ~remote[job[c].channel].open /\ ServeChange(c)
  BY <1>1, <1>4 DEF ServeChange
<1> QED  BY <1>1, <1>2, <1>3, <1>4 DEF Serve

(***************************************************************************)
(* A row written with the state that the ClearNode's session has.          *)
(***************************************************************************)
LEMMA StoreOrder ==
  ASSUME Inv, RemoteInv, OrderInv, NEW c \in Jobs, NEW step, Goto(c, step),
         UNCHANGED <<remote, wire, overlapped>>, failed \subseteq failed',
         job[c].step = "answered", step \in {"first", "done", "threw"},
         \A ch \in Channels : ch # job[c].channel => session'[ch] = session[ch],
         job[c].channel \in InOrder' =>
           session'[job[c].channel].latestState = remote[job[c].channel].alloc
  PROVE  OrderInv'
<1> DEFINE ch == job[c].channel
<1>1. /\ job'[c].step = step
      /\ \A d \in Jobs : /\ d # c => job'[d].step = job[d].step
                         /\ job'[d].channel = job[d].channel
                         /\ job'[d].alloc = job[d].alloc
  BY GotoPoint
<1>2. InOrder' \subseteq InOrder /\ InOrder \subseteq Channels
  BY OrderShrinks DEF InOrder
<1>3. \A d \in Jobs : ch \in InOrder /\ job[d].channel = ch /\ job[d].step \notin Ended => d = c
  BY DEF OrderInv, Alone, Ended
<1>4. Alone' /\ Awaited'
  BY <1>1, <1>2 DEF OrderInv, Alone, Awaited, RemoteInv, Asked, Ended
<1>5. CarriesRow'
  <2> SUFFICES ASSUME NEW d \in Closes, job'[d].step \notin Ended, job'[d].channel \in InOrder'
               PROVE  job'[d].alloc = session'[job'[d].channel].latestState
    BY DEF CarriesRow
  <2>1. d \in Jobs /\ job'[d].channel = job[d].channel /\ job'[d].alloc = job[d].alloc
    BY <1>1, Disjoint
  <2>2. job[d].step \notin Ended /\ job[d].channel \in InOrder
    BY <1>1, <1>2, <2>1 DEF Ended
  <2>3. CASE job[d].channel = ch
    <3>1. session[ch].latestState = remote[ch].alloc
      <4>1. \A e \in Updates : ~(job[e].step = "answered" /\ job[e].channel = ch)
        BY <1>3, <2>1, <2>2, <2>3, Disjoint DEF Ended
      <4>2. session[ch] # NoRow
        BY <1>3, <2>1, <2>2, <2>3 DEF Inv, RowFound, UnderWay
      <4> QED  BY <2>2, <2>3, <4>1, <4>2 DEF OrderInv, RowIsRemote
    <3>2. job[d].alloc = session[ch].latestState
      BY <2>2, <2>3 DEF OrderInv, CarriesRow
    <3> QED  BY <1>2, <2>1, <2>3, <3>1, <3>2
  <2>4. CASE job[d].channel # ch
    BY <1>2, <2>1, <2>2, <2>4 DEF OrderInv, CarriesRow
  <2> QED  BY <2>3, <2>4
<1>6. AnswerIsRemote'
  BY <1>1, <1>2, Disjoint DEF OrderInv, AnswerIsRemote
<1>7. RowIsRemote'
  <2> SUFFICES ASSUME NEW x \in InOrder', session'[x] # NoRow, x # ch,
                      \A d \in Updates : ~(job'[d].step = "answered" /\ job'[d].channel = x)
               PROVE  session'[x].latestState = remote[x].alloc
    BY DEF RowIsRemote
  <2>1. x \in InOrder /\ session'[x] = session[x]
    BY <1>2
  <2>2. \A d \in Updates : ~(job[d].step = "answered" /\ job[d].channel = x)
    BY <1>1, Disjoint
  <2> QED  BY <2>1, <2>2 DEF OrderInv, RowIsRemote
<1> QED  BY <1>4, <1>5, <1>6, <1>7 DEF OrderInv

LEMMA EndSteps ==
  ASSUME NEW c \in Jobs, End(c)
  PROVE  \E step \in {"done", "threw"} : Goto(c, step) /\ failed \subseteq failed'
  BY DEF End

LEMMA CreateSessionOrder ==
  ASSUME Inv, RemoteInv, OrderInv, NEW c \in Inits, CreateSession(c)
  PROVE  OrderInv'
<1> DEFINE ch == job[c].channel
<1>1. /\ c \in Jobs /\ c \notin Updates /\ job[c].step = "answered"
      /\ ch \in Ids /\ DOMAIN session = Ids
      /\ UNCHANGED <<remote, wire, overlapped, failed>>
  BY Disjoint DEF Inv, IdGiven, SessionOK, CreateSession
<1>2. CASE session[ch] # NoRow
  <2>1. Goto(c, "threw") /\ UNCHANGED session
    BY <1>2 DEF CreateSession
  <2> QED  BY <1>1, <2>1, GotoOrder DEF Ended
<1>3. CASE session[ch] = NoRow
  <2> DEFINE row == [status |-> "OPEN", latestState |-> Deposit[c], latestNonce |-> 0]
  <2>1. session' = [session EXCEPT ![ch] = row] /\ Goto(c, "first")
    BY <1>3 DEF CreateSession
  <2>2. row.latestState = Deposit[c]
    OBVIOUS
  <2> HIDE DEF row
  <2>3. InOrder' = InOrder
    BY <1>1 DEF InOrder
  <2>4. ch \in InOrder => remote[ch].alloc = Deposit[c]
    BY <1>1 DEF OrderInv, AnswerIsRemote
  <2>5. /\ \A x \in Channels : x # ch => session'[x] = session[x]
        /\ session'[ch].latestState = Deposit[c]
    BY <1>1, <2>1, <2>2 DEF Ids
  <2> QED  BY <1>1, <2>1, <2>3, <2>4, <2>5, StoreOrder
<1> QED  BY <1>2, <1>3

LEMMA PersistOrder ==
  ASSUME Inv, RemoteInv, OrderInv, NEW c \in Updates, Persist(c)
  PROVE  OrderInv'
<1> DEFINE ch == job[c].channel
<1>1. /\ c \in Jobs /\ c \notin Inits /\ job[c].step = "answered"
      /\ session' = [session EXCEPT ![ch].latestState = job[c].alloc,
                                    ![ch].latestNonce = job[c].nonce]
      /\ UNCHANGED <<remote, wire, overlapped>>
  BY Disjoint DEF Persist
<1>e. End(c)
  BY DEF Persist
<1>2. PICK step \in {"done", "threw"} : Goto(c, step) /\ failed \subseteq failed'
  BY <1>1, <1>e, EndSteps
<1>3. ch \in Ids /\ DOMAIN session = Ids /\ session[ch] \in Row
  BY <1>1 DEF Inv, RowFound, SessionOK, UnderWay
<1>4. /\ session'[ch].latestState = job[c].alloc
      /\ \A x \in Channels : x # ch => session'[x] = session[x]
  BY <1>1, <1>3 DEF Row, Ids
<1>5. ch \in InOrder' => remote[ch].alloc = job[c].alloc
  BY <1>1, <1>2, OrderShrinks DEF OrderInv, AnswerIsRemote
<1> QED  BY <1>1, <1>2, <1>4, <1>5, StoreOrder

LEMMA MarkOrder ==
  ASSUME Inv, RemoteInv, OrderInv, NEW c \in Closes, Mark(c)
  PROVE  OrderInv'
<1> DEFINE ch == job[c].channel
<1>1. /\ c \in Jobs /\ c \notin Updates /\ job[c].step = "answered"
      /\ session' = [session EXCEPT ![ch].status = "CLOSED"]
      /\ UNCHANGED <<remote, wire, overlapped>>
  BY Disjoint DEF Mark
<1>e. End(c)
  BY DEF Mark
<1>2. PICK step \in {"done", "threw"} : Goto(c, step) /\ failed \subseteq failed'
  BY <1>1, <1>e, EndSteps
<1>3. ch \in Ids /\ session[ch] # NoRow /\ DOMAIN session = Ids /\ session[ch] \in Row
  BY <1>1 DEF Inv, RowFound, SessionOK, UnderWay
<1>4. /\ session'[ch].latestState = session[ch].latestState
      /\ \A x \in Channels : x # ch => session'[x] = session[x]
  BY <1>1, <1>3 DEF Row, Ids
<1>5. ch \in InOrder' => session[ch].latestState = remote[ch].alloc
  <2> SUFFICES ASSUME ch \in InOrder PROVE session[ch].latestState = remote[ch].alloc
    BY <1>2, <1>1, OrderShrinks
  <2>1. \A d \in Updates : ~(job[d].step = "answered" /\ job[d].channel = ch)
    BY <1>1, Disjoint DEF OrderInv, Alone, Ended
  <2> QED  BY <1>3, <2>1 DEF OrderInv, RowIsRemote
<1> QED  BY <1>1, <1>2, <1>4, <1>5, StoreOrder

(***************************************************************************)
(* A call that starts on a session is alone there, or calls overlap.       *)
(***************************************************************************)
LEMMA FoundOrder ==
  ASSUME Inv, RemoteInv, OrderInv, NEW c \in Updates \cup Closes, NEW ch \in Ids,
         NEW step \in {"send", "answered"}, c \in Updates /\ step = "answered" => ch = Blank,
         NEW nonce, NEW alloc, c \in Closes => alloc = session[ch].latestState,
         job' = [job EXCEPT ![c] = [step |-> step, channel |-> ch, nonce |-> nonce,
                                    alloc |-> alloc, as |-> "guest"]],
         Touch(ch), job[c].step = "idle", UNCHANGED <<remote, session, wire, failed>>
  PROVE  OrderInv'
<1>1. c \in Jobs /\ c \notin wire /\ c \notin Inits /\ Blank \notin Channels
  BY ClearNodeAssumption, Disjoint DEF RemoteInv, Asked
<1>2. /\ \A d \in Jobs \ {c} : job'[d] = job[d]
      /\ job'[c].step = step /\ job'[c].channel = ch /\ job'[c].alloc = alloc
  BY <1>1 DEF Inv, JobOK
<1>3. overlapped \subseteq overlapped' /\ (ch \in InOrder' => Running(ch) = {})
  BY DEF Touch, InOrder
<1>4. InOrder' \subseteq InOrder /\ InOrder \subseteq Channels
  BY <1>3, OrderShrinks DEF InOrder
<1>5. Alone'
  <2>1. \A d \in Jobs : ch \in InOrder' /\ job[d].channel = ch => job[d].step \in Ended
    BY <1>3 DEF Running
  <2> QED  BY <1>2, <1>4, <2>1 DEF OrderInv, Alone
<1>6. Awaited'
  BY <1>1, <1>2, <1>4 DEF OrderInv, Awaited, RemoteInv, Asked
<1>7. CarriesRow'
  BY <1>2, <1>4, Disjoint DEF OrderInv, CarriesRow
<1>8. AnswerIsRemote'
  <2> SUFFICES ASSUME NEW d \in Inits \cup Updates, job'[d].step = "answered",
                      job'[d].channel \in InOrder'
               PROVE  d # c
    BY <1>2, <1>4, Disjoint DEF OrderInv, AnswerIsRemote
  <2> QED  BY <1>1, <1>2, <1>4, Disjoint
<1>9. RowIsRemote'
  BY <1>1, <1>2, <1>4, Disjoint DEF OrderInv, RowIsRemote
<1> QED  BY <1>5, <1>6, <1>7, <1>8, <1>9 DEF OrderInv

LEMMA FindToUpdateOrder ==
  ASSUME Inv, RemoteInv, OrderInv, NEW c \in Updates, NEW ch \in Ids, FindToUpdate(c, ch)
  PROVE  OrderInv'
<1>1. /\ c \in Jobs /\ c \notin Closes /\ job[c].step = "idle"
      /\ UNCHANGED <<remote, session, wire, failed>>
  BY Disjoint DEF FindToUpdate, tables
<1>2. CASE session[ch] = NoRow \/ session[ch].status # "OPEN"
  BY <1>1, <1>2, GotoOrder DEF FindToUpdate, Ended
<1>3. CASE ~(session[ch] = NoRow \/ session[ch].status # "OPEN")
  <2>1. PICK step \in {"send", "answered"} :
          /\ step = "answered" => ch = Blank
          /\ job' = [job EXCEPT ![c] =
               [step |-> step, channel |-> ch, nonce |-> session[ch].latestNonce + 1,
                alloc |-> Alloc[c], as |-> "guest"]]
    BY <1>3 DEF FindToUpdate
  <2>2. Touch(ch)
    BY <1>3 DEF FindToUpdate
  <2> QED  BY <1>1, <2>1, <2>2, FoundOrder
<1> QED  BY <1>2, <1>3

LEMMA FindToCloseOrder ==
  ASSUME Inv, RemoteInv, OrderInv, NEW c \in Closes, NEW ch \in Ids, FindToClose(c, ch)
  PROVE  OrderInv'
<1>1. /\ c \in Jobs /\ c \notin Updates /\ job[c].step = "idle"
      /\ UNCHANGED <<remote, session, wire, failed>>
  BY Disjoint DEF FindToClose, tables
<1>2. CASE session[ch] = NoRow
  BY <1>1, <1>2, GotoOrder DEF FindToClose, Ended
<1>3. CASE session[ch] # NoRow
  <2>1. PICK step \in {"send", "answered"} :
          job' = [job EXCEPT ![c] =
            [step |-> step, channel |-> ch, nonce |-> 0,
             alloc |-> session[ch].latestState, as |-> "guest"]]
    BY <1>3 DEF FindToClose
  <2>2. Touch(ch)
    BY <1>3 DEF FindToClose
  <2> QED  BY <1>1, <2>1, <2>2, FoundOrder
<1> QED  BY <1>2, <1>3

LEMMA NextOrder == Inv /\ RemoteInv /\ OrderInv /\ [Next]_vars => OrderInv'
<1> SUFFICES ASSUME Inv, RemoteInv, OrderInv, [Next]_vars PROVE OrderInv'
  OBVIOUS
<1>1. CASE Drop \/ Reconnect \/ UNCHANGED vars
  <2>1. UNCHANGED <<wire, remote, session, job, overlapped, failed>>
    BY <1>1 DEF Drop, Reconnect, vars, tables
  <2> QED
    BY <2>1 DEF OrderInv, Alone, Awaited, CarriesRow, AnswerIsRemote, RowIsRemote, InOrder
<1>2. ASSUME NEW c \in Jobs, Request(c) \/ Serve(c) PROVE OrderInv'
  BY <1>2, RequestOrder, ServeOrder
<1>3. ASSUME NEW c \in Jobs, Fail(c) PROVE OrderInv'
  <2>1. job[c].channel \notin InOrder'
    BY <1>3 DEF Fail, InOrder
  <2> QED  BY <1>3, <2>1, GotoOrder DEF Fail, tables
<1>4. ASSUME NEW c \in Inits, Start(c) \/ Connect(c) \/ Login(c) PROVE OrderInv'
  <2>1. PICK step \in {"connect", "login", "send"} : Goto(c, step)
    BY <1>4 DEF Start, Connect, Login
  <2>2. /\ c \in Jobs /\ UNCHANGED <<wire, remote, session, overlapped, failed>>
        /\ job[c].channel \notin InOrder'
    BY <1>4, ClearNodeAssumption
    DEF Start, Connect, Login, tables, Jobs, RemoteInv, NotYetGiven, InOrder
  <2> QED  BY <2>1, <2>2, GotoOrder
<1>5. ASSUME NEW c \in Inits, CreateSession(c) PROVE OrderInv'
  BY <1>5, CreateSessionOrder
<1>6. ASSUME NEW c \in Inits, FirstTransaction(c) \/ UpsertBalance(c) PROVE OrderInv'
  BY <1>6, GotoOrder DEF FirstTransaction, UpsertBalance, Jobs, Ended
<1>7. ASSUME NEW c \in Inits, PublishDeposit(c) PROVE OrderInv'
  <2>1. c \in Jobs /\ End(c)
    BY <1>7, Disjoint DEF PublishDeposit
  <2>2. PICK step \in {"done", "threw"} : Goto(c, step) /\ failed \subseteq failed'
    BY <2>1, EndSteps
  <2> QED  BY <1>7, <2>1, <2>2, GotoOrder DEF PublishDeposit, Ended
<1>8. ASSUME NEW c \in Updates, NEW ch \in Ids, FindToUpdate(c, ch) PROVE OrderInv'
  BY <1>8, FindToUpdateOrder
<1>9. ASSUME NEW c \in Updates, Persist(c) PROVE OrderInv'
  BY <1>9, PersistOrder
<1>10. ASSUME NEW c \in Closes, NEW ch \in Ids, FindToClose(c, ch) PROVE OrderInv'
  BY <1>10, FindToCloseOrder
<1>11. ASSUME NEW c \in Closes, Mark(c) PROVE OrderInv'
  BY <1>11, MarkOrder
<1> QED
  BY <1>1, <1>2, <1>3, <1>4, <1>5, <1>6, <1>7, <1>8, <1>9, <1>10, <1>11 DEF Next

(***************************************************************************)
(* While no calls overlap on a session and none throws, the database and   *)
(* the ClearNode agree on its state between calls, whatever the connection *)
(* does and however many sessions and calls there are.                     *)
(***************************************************************************)
THEOREM InSequenceTheyAgree == Spec => []AgreeInSequence
<1>1. OrderInv => AgreeInSequence
  BY Disjoint DEF OrderInv, RowIsRemote, InOrder, AgreeInSequence, Agrees, Running, Ended
<1>2. Init => Inv /\ RemoteInv /\ OrderInv
  BY InitInv, InitRemote, InitOrder
<1>3. Inv /\ RemoteInv /\ OrderInv /\ [Next]_vars => Inv' /\ RemoteInv' /\ OrderInv'
  BY NextInv, NextRemote, NextOrder
<1> QED  BY <1>1, <1>2, <1>3, PTL DEF Spec

-----------------------------------------------------------------------------
(***************************************************************************)
(* Types.  That nonces stay within the number of updates is a matter of    *)
(* counting: below a nonce every nonce is recorded, each by an update of   *)
(* its own.                                                                *)
(***************************************************************************)
NoGapBelow == \A t \in transaction : \A m \in 1 .. t.nonce : Recorded(t.channel, m)
OneEach ==
  /\ \A t, u \in transaction : t.by = u.by => t = u
  /\ \A t \in transaction : t.nonce > 0 => t.by \in Updates
  /\ \A c \in Jobs : job[c].step \notin {"balance", "publish", "done", "threw", "refused"} =>
       \A t \in transaction : t.by # c
Plain ==
  /\ link \in {"down", "up", "authed"}
  /\ userBalance \in Nat \cup {NoRow} /\ shown \in Nat \cup {NoRow}
CountInv == NoGapBelow /\ OneEach /\ Plain

LEMMA InitCount == Init => CountInv
  BY DEF Init, CountInv, NoGapBelow, OneEach, Plain

\* A step that records nothing.
LEMMA GotoCount ==
  ASSUME Inv, CountInv, NEW c \in Jobs, UNCHANGED transaction, Plain',
         \A d \in Jobs \ {c} : job'[d].step = job[d].step,
         \/ job[c].step \notin {"balance", "publish", "done", "threw", "refused"}
         \/ job'[c].step \in {"balance", "publish", "done", "threw", "refused"}
  PROVE  CountInv'
  BY DEF CountInv, NoGapBelow, OneEach, Recorded

\* A step that records the transaction of a call.
LEMMA RecordCount ==
  ASSUME Inv, CountInv, NEW c \in Jobs, NEW t,
         t \in [channel : Ids, nonce : Nat, state : Nat, by : Jobs],
         transaction' = transaction \cup {t}, Plain', t.by = c,
         \A d \in Jobs \ {c} : job'[d].step = job[d].step,
         job[c].step \in {"first", "answered"}, job'[c].step \in {"balance", "done", "threw"},
         t.nonce > 0 => c \in Updates,
         t.nonce > 1 => Recorded(t.channel, t.nonce - 1)
  PROVE  CountInv'
<1>1. \A u \in transaction : u.by # c
  BY DEF CountInv, OneEach
<1>2. OneEach'
  BY <1>1 DEF CountInv, OneEach
<1>3. ASSUME NEW m \in 1 .. t.nonce PROVE \E u \in transaction' : u.channel = t.channel /\ u.nonce = m
  <2>1. CASE m = t.nonce
    BY <2>1
  <2>2. CASE m # t.nonce
    <3>1. t.nonce > 1 /\ m \in 1 .. t.nonce - 1
      BY <2>2
    <3>2. PICK u \in transaction : u.channel = t.channel /\ u.nonce = t.nonce - 1
      BY <3>1 DEF Recorded
    <3>3. Recorded(t.channel, m)
      BY <3>1, <3>2 DEF CountInv, NoGapBelow
    <3> QED  BY <3>3 DEF Recorded
  <2> QED  BY <2>1, <2>2
<1>4. NoGapBelow'
  BY <1>3 DEF CountInv, NoGapBelow, Recorded
<1> QED  BY <1>2, <1>4 DEF CountInv

LEMMA NextCount == Inv /\ CountInv /\ [Next]_vars => CountInv'
<1> SUFFICES ASSUME Inv, CountInv, [Next]_vars PROVE CountInv'
  OBVIOUS
<1>0. ASSUME NEW c \in Jobs, NEW step, Goto(c, step), UNCHANGED transaction, Plain',
             \/ job[c].step \notin {"balance", "publish", "done", "threw", "refused"}
             \/ step \in {"balance", "publish", "done", "threw", "refused"}
      PROVE  CountInv'
  BY <1>0, GotoPoint, GotoCount
<1>a. ASSUME UNCHANGED <<link, userBalance, shown>> PROVE Plain'
  BY <1>a DEF CountInv, Plain
<1>1. CASE Drop \/ Reconnect \/ UNCHANGED vars
  BY <1>1 DEF Drop, Reconnect, vars, tables, CountInv, NoGapBelow, OneEach, Plain, Recorded
<1>2. ASSUME NEW c \in Jobs, Request(c) PROVE CountInv'
  <2>0. PICK as : job' = [job EXCEPT ![c].step = "waiting", ![c].as = as]
    BY <1>2 DEF Request
  <2>1. job[c].step = "send" /\ \A d \in Jobs \ {c} : job'[d].step = job[d].step
    BY <1>2, <2>0 DEF Request, Inv, JobOK
  <2> QED  BY <1>2, <1>a, <2>1, GotoCount DEF Request, tables
<1>3. ASSUME NEW c \in Jobs, Serve(c) PROVE CountInv'
  <2>1. UNCHANGED transaction /\ Plain'
    BY <1>3, <1>a DEF Serve, tables
  <2>2. CASE Goto(c, job[c].step)
    BY <1>0, <2>1, <2>2
  <2>3. ASSUME job[c].step = "waiting", NEW step \in {"answered", "refused"}, Goto(c, step)
        PROVE  CountInv'
    BY <1>0, <2>1, <2>3
  <2>4. CASE Refuse(c)
    BY <2>2, <2>3, <2>4 DEF Refuse
  <2>5. CASE ServeChange(c)
    BY <2>2, <2>3, <2>4, <2>5 DEF ServeChange
  <2>6. CASE c \in Inits /\ ServeCreate(c)
    <3>1. PICK id : job' = IF job[c].step = "waiting"
                             THEN [job EXCEPT ![c].step = "answered", ![c].channel = id] ELSE job
      BY <2>6 DEF ServeCreate
    <3>2. /\ \A d \in Jobs \ {c} : job'[d].step = job[d].step
          /\ job[c].step = "waiting" \/ job'[c].step = job[c].step
      BY <3>1 DEF Inv, JobOK
    <3> QED  BY <2>1, <3>2, GotoCount
  <2> QED  BY <1>3, <2>4, <2>5, <2>6 DEF Serve
<1>4. ASSUME NEW c \in Jobs, Fail(c) PROVE CountInv'
  BY <1>0, <1>a, <1>4 DEF Fail, tables
<1>5. ASSUME NEW c \in Inits, Start(c) \/ Connect(c) \/ Login(c) PROVE CountInv'
  <2>1. PICK step : Goto(c, step)
    BY <1>5 DEF Start, Connect, Login
  <2>2. Plain'
    BY <1>5 DEF CountInv, Plain, Start, Connect, Login, tables
  <2>3. c \in Jobs /\ UNCHANGED transaction /\ job[c].step \in {"idle", "connect", "login"}
    BY <1>5, Disjoint DEF Start, Connect, Login, tables
  <2> QED  BY <1>0, <2>1, <2>2, <2>3
<1>6. ASSUME NEW c \in Inits, CreateSession(c) PROVE CountInv'
  <2>1. PICK step : Goto(c, step)
    BY <1>6 DEF CreateSession
  <2>2. c \in Jobs /\ UNCHANGED transaction /\ job[c].step = "answered"
    BY <1>6, Disjoint DEF CreateSession
  <2> QED  BY <1>0, <1>6, <1>a, <2>1, <2>2 DEF CreateSession
<1>7. ASSUME NEW c \in Inits, FirstTransaction(c) PROVE CountInv'
  <2> DEFINE t == [channel |-> job[c].channel, nonce |-> 0, state |-> Deposit[c], by |-> c]
  <2>1. /\ c \in Jobs /\ t \in [channel : Ids, nonce : Nat, state : Nat, by : Jobs]
        /\ t.by = c /\ t.nonce = 0
    BY <1>7, ClearNodeAssumption, Disjoint DEF FirstTransaction, Inv, IdGiven
  <2>2. /\ transaction' = transaction \cup {t} /\ Goto(c, "balance") /\ job[c].step = "first"
        /\ Plain'
    BY <1>7, <1>a DEF FirstTransaction
  <2> HIDE DEF t
  <2> QED  BY <2>1, <2>2, GotoPoint, RecordCount
<1>8. ASSUME NEW c \in Inits, UpsertBalance(c) \/ PublishDeposit(c) PROVE CountInv'
  <2>1. PICK step \in {"publish", "done", "threw"} : Goto(c, step)
    BY <1>8 DEF UpsertBalance, PublishDeposit, End
  <2>2. c \in Jobs /\ UNCHANGED transaction
    BY <1>8, Disjoint DEF UpsertBalance, PublishDeposit
  <2>3. Plain'
    BY <1>8, ClearNodeAssumption DEF CountInv, Plain, UpsertBalance, PublishDeposit
  <2> QED  BY <1>0, <2>1, <2>2, <2>3
<1>9. ASSUME NEW c \in Updates, NEW ch \in Ids, FindToUpdate(c, ch) PROVE CountInv'
  <2>1. c \in Jobs /\ UNCHANGED transaction /\ job[c].step = "idle" /\ Plain'
    BY <1>9, <1>a, Disjoint DEF FindToUpdate, tables
  <2>2. \A d \in Jobs \ {c} : job'[d].step = job[d].step
    BY <1>9 DEF FindToUpdate, Goto, Inv, JobOK
  <2> QED  BY <2>1, <2>2, GotoCount
<1>10. ASSUME NEW c \in Closes, NEW ch \in Ids, FindToClose(c, ch) PROVE CountInv'
  <2>1. c \in Jobs /\ UNCHANGED transaction /\ job[c].step = "idle" /\ Plain'
    BY <1>10, <1>a, Disjoint DEF FindToClose, tables
  <2>2. \A d \in Jobs \ {c} : job'[d].step = job[d].step
    BY <1>10 DEF FindToClose, Goto, Inv, JobOK
  <2> QED  BY <2>1, <2>2, GotoCount
<1>11. ASSUME NEW c \in Updates, Persist(c) PROVE CountInv'
  <2> DEFINE t == [channel |-> job[c].channel, nonce |-> job[c].nonce, state |-> job[c].alloc,
                   by |-> c]
  <2>1. /\ c \in Jobs /\ job[c].step = "answered" /\ End(c) /\ transaction' = transaction \cup {t}
        /\ Plain'
    BY <1>11, <1>a, Disjoint DEF Persist
  <2>2. /\ job[c].channel \in Ids /\ job[c].nonce \in Nat /\ job[c].alloc = Alloc[c]
        /\ job[c].nonce > 1 => Recorded(job[c].channel, job[c].nonce - 1)
    BY <2>1 DEF Inv, JobOK, RowFound, NonceBefore, UnderWay
  <2>3. /\ t \in [channel : Ids, nonce : Nat, state : Nat, by : Jobs] /\ t.by = c
        /\ t.nonce = job[c].nonce /\ t.channel = job[c].channel
    BY <2>1, <2>2, ClearNodeAssumption
  <2> HIDE DEF t
  <2>4. PICK step \in {"done", "threw"} : Goto(c, step)
    BY <2>1, EndSteps
  <2> QED  BY <2>1, <2>2, <2>3, <2>4, GotoPoint, RecordCount
<1>12. ASSUME NEW c \in Closes, Mark(c) PROVE CountInv'
  <2>1. c \in Jobs /\ End(c) /\ UNCHANGED transaction /\ Plain'
    BY <1>12, <1>a, Disjoint DEF Mark
  <2>2. PICK step \in {"done", "threw"} : Goto(c, step)
    BY <2>1, EndSteps
  <2> QED  BY <1>0, <2>1, <2>2
<1> QED
  BY <1>1, <1>2, <1>3, <1>4, <1>5, <1>6, <1>7, <1>8, <1>9, <1>10, <1>11, <1>12 DEF Next

LEMMA NonceBound ==
  ASSUME IsFiniteSet(Updates), Inv, CountInv, NEW ch \in Ids, session[ch] # NoRow
  PROVE  session[ch].latestNonce \in 0 .. Cardinality(Updates)
<1> DEFINE n == session[ch].latestNonce
<1>1. n \in Nat /\ Cardinality(Updates) \in Nat
  BY FS_CardinalityType DEF Inv, SessionOK, Row
<1>2. CASE n = 0
  BY <1>1, <1>2
<1>3. CASE n > 0
  <2>1. \A m \in 1 .. n : Recorded(ch, m)
    <3>1. PICK t \in transaction : t.channel = ch /\ t.nonce = n
      BY <1>3 DEF Inv, TransactionsAreTheHistory
    <3> QED  BY <3>1 DEF CountInv, NoGapBelow
  <2> DEFINE row(m) == CHOOSE u \in transaction : u.channel = ch /\ u.nonce = m
  <2>2. \A m \in 1 .. n : row(m) \in transaction /\ row(m).nonce = m
    BY <2>1 DEF Recorded
  <2> DEFINE f == [m \in 1 .. n |-> row(m).by]
  <2>3. ASSUME NEW m \in 1 .. n PROVE f[m] \in Updates
    BY <1>1, <2>2 DEF CountInv, OneEach
  <2>4. ASSUME NEW m \in 1 .. n, NEW k \in 1 .. n, f[m] = f[k] PROVE m = k
    <3>1. row(m) = row(k)
      BY <2>2, <2>4 DEF CountInv, OneEach
    <3> QED  BY <2>2, <3>1
  <2>5. f \in Injection(1 .. n, Updates)
    BY <2>3, <2>4 DEF Injection, IsInjective
  <2> HIDE DEF f
  <2>6. Cardinality(1 .. n) <= Cardinality(Updates)
    BY <2>5, FS_Injection
  <2>7. Cardinality(1 .. n) = n
    BY <1>1, <1>3, FS_Interval
  <2> QED  BY <1>1, <2>6, <2>7
<1> QED  BY <1>1, <1>2, <1>3

(***************************************************************************)
(* No table leaves its type, and no nonce runs ahead of the number of      *)
(* updates, although updates count from rows that may be stale.            *)
(***************************************************************************)
THEOREM SessionsTyped == ASSUME IsFiniteSet(Updates) PROVE Spec => []TypeOK
<1>1. Inv /\ RemoteInv /\ CountInv => TypeOK
  <2> SUFFICES ASSUME Inv, RemoteInv, CountInv PROVE TypeOK
    OBVIOUS
  <2>1. ASSUME NEW ch \in Ids, session[ch] # NoRow PROVE session[ch] \in Rows
    BY <2>1, NonceBound DEF Inv, SessionOK, Row, Rows
  <2> QED
    BY <2>1 DEF TypeOK, RemoteInv, RemoteOK, Asked, Inv, TransactionOK, CountInv, Plain
<1>2. Init => Inv /\ RemoteInv /\ CountInv
  BY InitInv, InitRemote, InitCount
<1>3. Inv /\ RemoteInv /\ CountInv /\ [Next]_vars => Inv' /\ RemoteInv' /\ CountInv'
  BY NextInv, NextRemote, NextCount
<1> QED  BY <1>1, <1>2, <1>3, PTL DEF Spec

-----------------------------------------------------------------------------
(***************************************************************************)
(* What a call that fails half way leaves.  Each write of a call rests on  *)
(* the one before: rows stay and transactions stay, so what the call has   *)
(* written by its last step is still there when the next is taken.         *)
(***************************************************************************)
RowThere(ch) == ch \in Ids /\ session[ch] # NoRow
PrefixInv ==
  /\ \A t \in transaction : RowThere(t.channel)
  /\ \A c \in Inits : job[c].step = "first" => RowThere(job[c].channel)
  /\ \A c \in Inits : job[c].step \in {"balance", "publish"} => DepositOnRecord(Deposit[c])
  /\ userBalance # NoRow => DepositOnRecord(userBalance)
  /\ shown # NoRow => DepositOnRecord(shown)

LEMMA InitPrefix == Init => PrefixInv
  BY ClearNodeAssumption DEF Init, PrefixInv, Jobs

\* Steps that take no row away, record no transaction and show no balance.
LEMMA GotoPrefix ==
  ASSUME Inv, PrefixInv, NEW c \in Jobs,
         UNCHANGED <<transaction, userBalance, shown>>,
         \A ch \in Ids : session[ch] # NoRow => session'[ch] # NoRow,
         \A d \in Jobs \ {c} : job'[d].step = job[d].step /\ job'[d].channel = job[d].channel,
         c \in Inits => \/ job'[c].step \notin {"first", "balance", "publish"}
                        \/ job'[c].step = job[c].step /\ job'[c].channel = job[c].channel
  PROVE  PrefixInv'
<1>1. \A d \in Inits : job'[d].step \in {"first", "balance", "publish"} =>
        job'[d].step = job[d].step /\ job'[d].channel = job[d].channel
  BY Disjoint
<1>2. \A d \in Inits : job'[d].step = "first" =>
        job'[d].channel \in Ids /\ session'[job'[d].channel] # NoRow
  BY <1>1 DEF PrefixInv, RowThere
<1>3. \A t \in transaction : t.channel \in Ids /\ session'[t.channel] # NoRow
  BY DEF PrefixInv, RowThere
<1> QED  BY <1>1, <1>2, <1>3 DEF PrefixInv, RowThere, DepositOnRecord

\* An update and a close leave the rows there are.
LEMMA PersistKeeps ==
  ASSUME Inv, NEW c \in Updates, Persist(c)
  PROVE  \A x \in Ids : session[x] # NoRow => session'[x] # NoRow
<1> DEFINE ch == job[c].channel
<1>1. /\ job[c].step = "answered" /\ c \in Jobs
      /\ session' = [session EXCEPT ![ch].latestState = job[c].alloc,
                                    ![ch].latestNonce = job[c].nonce]
  BY DEF Persist, Jobs
<1>2. ch \in Ids /\ session[ch] # NoRow /\ session[ch] \in Row /\ DOMAIN session = Ids
  BY <1>1 DEF Inv, RowFound, SessionOK, UnderWay
<1>3. job[c].alloc \in Nat /\ job[c].nonce \in Nat
  BY <1>1, ClearNodeAssumption DEF Inv, JobOK, NonceBefore, UnderWay
<1>4. /\ session'[ch] \in Row
      /\ \A x \in Ids : x # ch => session'[x] = session[x]
  BY <1>1, <1>2, <1>3 DEF Row
<1>5. session'[ch] # NoRow
  BY <1>4, ClearNodeAssumption DEF Row
<1> QED  BY <1>4, <1>5

LEMMA MarkKeeps ==
  ASSUME Inv, NEW c \in Closes, Mark(c)
  PROVE  \A x \in Ids : session[x] # NoRow => session'[x] # NoRow
<1> DEFINE ch == job[c].channel
<1>1. /\ job[c].step = "answered"
      /\ session' = [session EXCEPT ![ch].status = "CLOSED"]
  BY DEF Mark
<1>2. ch \in Ids /\ session[ch] # NoRow /\ session[ch] \in Row /\ DOMAIN session = Ids
  BY <1>1 DEF Inv, RowFound, SessionOK, UnderWay
<1>3. /\ session'[ch] \in Row
      /\ \A x \in Ids : x # ch => session'[x] = session[x]
  BY <1>1, <1>2 DEF Row
<1>4. session'[ch] # NoRow
  BY <1>3, ClearNodeAssumption DEF Row
<1> QED  BY <1>3, <1>4

LEMMA NextPrefix == Inv /\ PrefixInv /\ [Next]_vars => PrefixInv'
<1> SUFFICES ASSUME Inv, PrefixInv, [Next]_vars PROVE PrefixInv'
  OBVIOUS
<1> DEFINE Later == {"first", "balance", "publish"}
<1>0. ASSUME NEW c \in Jobs, NEW step, Goto(c, step), step \notin Later,
             UNCHANGED <<session, transaction, userBalance, shown>>
      PROVE  PrefixInv'
  BY <1>0, GotoPoint, GotoPrefix
<1>1. CASE Drop \/ Reconnect \/ UNCHANGED vars
  BY <1>1 DEF Drop, Reconnect, vars, tables, PrefixInv, RowThere, DepositOnRecord
<1>2. ASSUME NEW c \in Jobs, Request(c) PROVE PrefixInv'
  <2>1. PICK as \in {"user", "guest"} : job' = [job EXCEPT ![c].step = "waiting", ![c].as = as]
    BY <1>2 DEF Request
  <2>2. /\ job'[c].step = "waiting"
        /\ \A d \in Jobs \ {c} : job'[d].step = job[d].step /\ job'[d].channel = job[d].channel
    BY <2>1 DEF Inv, JobOK
  <2>3. UNCHANGED <<session, transaction, userBalance, shown>>
    BY <1>2 DEF Request, tables
  <2>4. job'[c].step \notin Later
    BY <2>2
  <2> QED  BY <1>2, <2>2, <2>3, <2>4, GotoPrefix
<1>3. ASSUME NEW c \in Jobs, Serve(c) PROVE PrefixInv'
  <2>1. UNCHANGED <<session, transaction, userBalance, shown>>
    BY <1>3 DEF Serve, tables
  <2>2. CASE Goto(c, job[c].step)
    BY <2>1, <2>2, GotoPoint, GotoPrefix
  <2>3. ASSUME NEW step \in {"answered", "refused"}, Goto(c, step) PROVE PrefixInv'
    BY <1>0, <2>1, <2>3
  <2>4. CASE Refuse(c)
    BY <2>2, <2>3, <2>4 DEF Refuse
  <2>5. CASE ServeChange(c)
    BY <2>2, <2>3, <2>4, <2>5 DEF ServeChange
  <2>6. CASE c \in Inits /\ ServeCreate(c)
    <3>1. PICK id \in Ids :
            job' = IF job[c].step = "waiting"
                     THEN [job EXCEPT ![c].step = "answered", ![c].channel = id] ELSE job
      BY <2>6 DEF ServeCreate, Ids
    <3>2. /\ \A d \in Jobs \ {c} : job'[d].step = job[d].step /\ job'[d].channel = job[d].channel
          /\ \/ job'[c].step = "answered"
             \/ job'[c].step = job[c].step /\ job'[c].channel = job[c].channel
      BY <3>1 DEF Inv, JobOK
    <3>3. \/ job'[c].step \notin Later
          \/ job'[c].step = job[c].step /\ job'[c].channel = job[c].channel
      BY <3>2
    <3> QED  BY <1>3, <2>1, <3>2, <3>3, GotoPrefix
  <2> QED  BY <1>3, <2>4, <2>5, <2>6 DEF Serve
<1>4. ASSUME NEW c \in Jobs, Fail(c) PROVE PrefixInv'
  BY <1>0, <1>4 DEF Fail, tables
<1>5. ASSUME NEW c \in Inits, Start(c) \/ Connect(c) \/ Login(c) PROVE PrefixInv'
  <2>1. PICK step \in {"connect", "login", "send"} : Goto(c, step)
    BY <1>5 DEF Start, Connect, Login
  <2>2. c \in Jobs /\ UNCHANGED <<session, transaction, userBalance, shown>>
    BY <1>5, Disjoint DEF Start, Connect, Login, tables
  <2> QED  BY <1>0, <2>1, <2>2
<1>6. ASSUME NEW c \in Inits, CreateSession(c) PROVE PrefixInv'
  <2> DEFINE ch == job[c].channel
  <2>1. c \in Jobs /\ ch \in Ids /\ UNCHANGED <<transaction, userBalance, shown>>
    BY <1>6, Disjoint DEF CreateSession, Inv, IdGiven
  <2>2. CASE session[ch] # NoRow
    BY <1>0, <1>6, <2>1, <2>2 DEF CreateSession
  <2>3. CASE session[ch] = NoRow
    <3> DEFINE row == [status |-> "OPEN", latestState |-> Deposit[c], latestNonce |-> 0]
    <3>1. row \in Row
      BY ClearNodeAssumption DEF Row
    <3>2. session' = [session EXCEPT ![ch] = row] /\ Goto(c, "first")
      BY <1>6, <2>3 DEF CreateSession
    <3>3. row # NoRow
      BY <3>1, ClearNodeAssumption DEF Row
    <3> HIDE DEF row
    <3>4. session'[ch] # NoRow /\ \A x \in Ids : session[x] # NoRow => session'[x] # NoRow
      BY <2>1, <3>2, <3>3 DEF Inv, SessionOK
    <3>5. /\ job'[c].step = "first" /\ job'[c].channel = ch
          /\ \A d \in Inits \ {c} : job'[d] = job[d]
      BY <2>1, <3>2, GotoPoint, Disjoint
    <3>6. \A d \in Inits : job'[d].step = "first" =>
            job'[d].channel \in Ids /\ session'[job'[d].channel] # NoRow
      BY <2>1, <3>4, <3>5 DEF PrefixInv, RowThere
    <3>7. \A d \in Inits : job'[d].step \in {"balance", "publish"} =>
            d # c /\ job[d].step \in {"balance", "publish"}
      BY <3>5
    <3> QED  BY <2>1, <3>4, <3>6, <3>7 DEF PrefixInv, RowThere, DepositOnRecord
  <2> QED  BY <2>2, <2>3
<1>7. ASSUME NEW c \in Inits, FirstTransaction(c) PROVE PrefixInv'
  <2> DEFINE t == [channel |-> job[c].channel, nonce |-> 0, state |-> Deposit[c], by |-> c]
  <2>1. /\ t.by = c /\ t.nonce = 0 /\ t.state = Deposit[c] /\ t.channel = job[c].channel
        /\ transaction' = transaction \cup {t} /\ Goto(c, "balance")
        /\ job[c].step = "first" /\ c \in Jobs
        /\ UNCHANGED <<session, userBalance, shown>>
    BY <1>7, Disjoint DEF FirstTransaction
  <2> HIDE DEF t
  <2>2. job'[c].step = "balance" /\ \A d \in Inits \ {c} : job'[d] = job[d]
    BY <2>1, GotoPoint, Disjoint
  <2>3. \A u \in transaction' : u.channel \in Ids /\ session'[u.channel] # NoRow
    BY <2>1 DEF PrefixInv, RowThere
  <2>4. \E u \in transaction' : u.by \in Inits /\ u.nonce = 0 /\ u.state = Deposit[c]
    BY <2>1
  <2>5. \A d \in Inits : job'[d].step = "first" =>
          job'[d].channel \in Ids /\ session'[job'[d].channel] # NoRow
    BY <2>1, <2>2 DEF PrefixInv, RowThere
  <2>6. \A d \in Inits : job'[d].step \in {"balance", "publish"} =>
          d = c \/ job[d].step \in {"balance", "publish"}
    BY <2>2
  <2> QED  BY <2>1, <2>3, <2>4, <2>5, <2>6 DEF PrefixInv, RowThere, DepositOnRecord
<1>8. ASSUME NEW c \in Inits, UpsertBalance(c) \/ PublishDeposit(c) PROVE PrefixInv'
  <2>1. PICK step \in {"publish", "done", "threw"} : Goto(c, step)
    BY <1>8 DEF UpsertBalance, PublishDeposit, End
  <2>2. /\ c \in Jobs /\ UNCHANGED <<session, transaction>>
        /\ job[c].step \in {"balance", "publish"}
        /\ userBalance' \in {userBalance, Deposit[c]} /\ shown' \in {shown, Deposit[c]}
    BY <1>8, Disjoint DEF UpsertBalance, PublishDeposit
  <2>3. job'[c].step \in {"publish", "done", "threw"} /\ \A d \in Inits \ {c} : job'[d] = job[d]
    BY <2>1, <2>2, GotoPoint, Disjoint
  <2>4. \A d \in Inits :
          /\ job'[d].step = "first" => d # c
          /\ job'[d].step \in {"balance", "publish"} => job[d].step \in {"balance", "publish"}
    BY <2>2, <2>3
  <2> QED  BY <2>2, <2>3, <2>4 DEF PrefixInv, RowThere, DepositOnRecord
<1>9. ASSUME NEW c \in Updates, NEW ch \in Ids, FindToUpdate(c, ch) PROVE PrefixInv'
  <2>1. c \in Jobs /\ c \notin Inits /\ UNCHANGED <<session, transaction, userBalance, shown>>
    BY <1>9, Disjoint DEF FindToUpdate, tables
  <2>2. \A d \in Jobs \ {c} : job'[d] = job[d]
    BY <1>9 DEF FindToUpdate, Goto, Inv, JobOK
  <2> QED  BY <2>1, <2>2, GotoPrefix
<1>10. ASSUME NEW c \in Closes, NEW ch \in Ids, FindToClose(c, ch) PROVE PrefixInv'
  <2>1. c \in Jobs /\ c \notin Inits /\ UNCHANGED <<session, transaction, userBalance, shown>>
    BY <1>10, Disjoint DEF FindToClose, tables
  <2>2. \A d \in Jobs \ {c} : job'[d] = job[d]
    BY <1>10 DEF FindToClose, Goto, Inv, JobOK
  <2> QED  BY <2>1, <2>2, GotoPrefix
<1>11. ASSUME NEW c \in Updates, Persist(c) PROVE PrefixInv'
  <2> DEFINE ch == job[c].channel
             t == [channel |-> ch, nonce |-> job[c].nonce, state |-> job[c].alloc, by |-> c]
  <2>1. /\ c \in Jobs /\ c \notin Inits /\ ch \in Ids /\ session[ch] # NoRow
        /\ transaction' = transaction \cup {t} /\ t.channel = ch
        /\ End(c) /\ UNCHANGED <<userBalance, shown>>
    BY <1>11, Disjoint DEF Persist, Inv, RowFound, UnderWay
  <2>2. \A x \in Ids : session[x] # NoRow => session'[x] # NoRow
    BY <1>11, <2>1, PersistKeeps
  <2>3. PICK step \in {"done", "threw"} : Goto(c, step)
    BY <2>1, EndSteps
  <2>4. \A d \in Inits : job'[d] = job[d]
    BY <2>1, <2>3, GotoPoint, Disjoint
  <2> HIDE DEF t
  <2>5. \A u \in transaction' : u.channel \in Ids /\ session'[u.channel] # NoRow
    BY <2>1, <2>2 DEF PrefixInv, RowThere
  <2> QED  BY <2>1, <2>2, <2>4, <2>5 DEF PrefixInv, RowThere, DepositOnRecord
<1>12. ASSUME NEW c \in Closes, Mark(c) PROVE PrefixInv'
  <2>1. c \in Jobs /\ c \notin Inits /\ End(c) /\ UNCHANGED <<transaction, userBalance, shown>>
    BY <1>12, Disjoint DEF Mark
  <2>2. PICK step \in {"done", "threw"} : Goto(c, step)
    BY <2>1, EndSteps
  <2>3. \A x \in Ids : session[x] # NoRow => session'[x] # NoRow
    BY <1>12, MarkKeeps
  <2> QED  BY <2>1, <2>2, <2>3, GotoPoint, GotoPrefix
<1> QED
  BY <1>1, <1>2, <1>3, <1>4, <1>5, <1>6, <1>7, <1>8, <1>9, <1>10, <1>11, <1>12 DEF Next

(***************************************************************************)
(* Whatever calls fail half way, race or are never answered: no allocation *)
(* is recorded for a session of the ClearNode before the ClearNode         *)
(* accepted it, no transaction is without the row of its session, and no   *)
(* balance is stored or shown without the transaction of its deposit.      *)
(***************************************************************************)
THEOREM NothingRecordedAhead == Spec => []RecordedWasAccepted
<1>1. Inv /\ PrefixInv => RecordedWasAccepted
  BY DEF Inv, TransactionsAccepted, PrefixInv, RowThere, RecordedWasAccepted
<1>2. Init => Inv /\ PrefixInv
  BY InitInv, InitPrefix
<1>3. Inv /\ PrefixInv /\ [Next]_vars => Inv' /\ PrefixInv'
  BY NextInv, NextPrefix
<1> QED  BY <1>1, <1>2, <1>3, PTL DEF Spec
=============================================================================

---------------------------- MODULE ClearNodeSession ----------------------------
(***************************************************************************)
(* The backend's sessions with a ClearNode: ClearNodeService, its tables   *)
(* and, outside the repository, the ClearNode's own sessions.              *)
(*                                                                         *)
(* Calls run concurrently; a step is what a call does from one await to    *)
(* the next.  Any await may reject, before its effect (Fail) or after it   *)
(* (the "threw" of a last step).  A request to the ClearNode is under way  *)
(* in "wire" until it is served, which may be after the caller has given   *)
(* up, or never; YellowClient models the connection itself, of which only  *)
(* "link" is left here: a request needs a socket, and one that is served   *)
(* without authentication is refused.  A ClearNode is taken to refuse by   *)
(* an err message: the code takes any other response for success, also one *)
(* that says otherwise, and would record what was refused.                 *)
(***************************************************************************)
EXTENDS Integers, FiniteSets

CONSTANTS
  Inits, Updates, Closes, \* calls of the three operations
  Channels,               \* ids the ClearNode gives to app sessions
  Blank,                  \* '': the id used when its answer has none
  Deposit,                \* Deposit[c]: the allocation of a new session
  Alloc,                  \* Alloc[c]: the allocations of a state update
  NoRow

ASSUME ClearNodeAssumption ==
  /\ Inits \cap Updates = {} /\ Inits \cap Closes = {} /\ Updates \cap Closes = {}
  /\ Blank \notin Channels /\ NoRow \notin Channels \cup {Blank}
  /\ Deposit \in [Inits -> Nat] /\ Alloc \in [Updates -> Nat]
  /\ NoRow \notin [status : {"OPEN", "CLOSED"}, latestState : Nat, latestNonce : Nat]
  /\ NoRow \notin [open : BOOLEAN, alloc : Nat]

VARIABLES
  link,        \* the YellowClient: "down", "up" (connected) or "authed"
  wire,        \* calls whose request is under way to the ClearNode
  remote,      \* remote[ch]: the ClearNode's session, or NoRow
  session,     \* session[ch]: the row, or NoRow
  transaction, \* rows of the table of transactions
  userBalance, \* the user's balance row, or NoRow
  shown,       \* the balance published last, or NoRow
  job,         \* job[c]: step and local variables
  accepted,    \* history: allocations the ClearNode accepted, by channel
  overlapped,  \* history: channels on which calls overlapped
  failed       \* history: channels on which a call threw

tables == <<session, transaction, userBalance, shown>>
vars == <<link, wire, remote, tables, job, accepted, overlapped, failed>>

Jobs == Inits \cup Updates \cup Closes
Ids == Channels \cup {Blank}
Ended == {"idle", "done", "threw", "refused"}
Running(ch) == {c \in Jobs : job[c].channel = ch /\ job[c].step \notin Ended}

Init ==
  /\ link = "down"
  /\ wire = {}
  /\ remote = [ch \in Channels |-> NoRow]
  /\ session = [ch \in Ids |-> NoRow]
  /\ transaction = {}
  /\ userBalance = NoRow /\ shown = NoRow
  /\ job = [c \in Jobs |-> [step |-> "idle", channel |-> NoRow, nonce |-> 0,
                            alloc |-> NoRow, as |-> "guest"]]
  /\ accepted = {}
  /\ overlapped = {}
  /\ failed = {}

Goto(c, step) == job' = [job EXCEPT ![c].step = step]
\* The effect is there, and the answer may be lost.
End(c) == \E step \in {"done", "threw"} :
  /\ Goto(c, step)
  /\ failed' = IF step = "threw" THEN failed \cup {job[c].channel} ELSE failed
Touch(ch) == overlapped' = IF Running(ch) = {} THEN overlapped ELSE overlapped \cup {ch}

-----------------------------------------------------------------------------
(***************************************************************************)
(* The connection and the requests.                                        *)
(***************************************************************************)
Drop ==
  /\ link # "down"
  /\ link' = "down"
  /\ UNCHANGED <<wire, remote, tables, job, accepted, overlapped, failed>>

Reconnect ==
  /\ link = "down"
  /\ link' = "up"
  /\ UNCHANGED <<wire, remote, tables, job, accepted, overlapped, failed>>

Request(c) ==
  /\ job[c].step = "send"
  /\ link # "down"
  /\ wire' = wire \cup {c}
  /\ job' = [job EXCEPT ![c].step = "waiting",
                        ![c].as = IF link = "authed" THEN "user" ELSE "guest"]
  /\ UNCHANGED <<link, remote, tables, accepted, overlapped, failed>>

Refuse(c) ==
  /\ Goto(c, IF job[c].step = "waiting" THEN "refused" ELSE job[c].step)
  /\ UNCHANGED <<remote, accepted>>

\* createAppSession: a new session, its id in the answer, or not.
ServeCreate(c) ==
  \E ch \in {x \in Channels : remote[x] = NoRow} : \E id \in {ch, Blank} :
    /\ remote' = [remote EXCEPT ![ch] = [open |-> TRUE, alloc |-> Deposit[c]]]
    /\ accepted' = accepted \cup {<<ch, Deposit[c]>>}
    /\ job' = IF job[c].step = "waiting"
                THEN [job EXCEPT ![c].step = "answered", ![c].channel = id] ELSE job

\* submitAppState and closeAppSession: on a session that is open.
ServeChange(c) ==
  LET ch == job[c].channel IN
  IF remote[ch].open
    THEN /\ remote' = [remote EXCEPT ![ch].alloc = job[c].alloc,
                                     ![ch].open = c \notin Closes]
         /\ accepted' = accepted \cup {<<ch, job[c].alloc>>}
         /\ Goto(c, IF job[c].step = "waiting" THEN "answered" ELSE job[c].step)
    ELSE Refuse(c)

Serve(c) ==
  /\ c \in wire
  /\ wire' = wire \ {c}
  /\ IF job[c].as = "guest" THEN Refuse(c)
     ELSE IF c \in Inits THEN ServeCreate(c) ELSE ServeChange(c)
  /\ UNCHANGED <<link, tables, overlapped, failed>>

-----------------------------------------------------------------------------
(***************************************************************************)
(* initializeSession.                                                      *)
(***************************************************************************)
Start(c) ==
  /\ c \in Inits /\ job[c].step = "idle"
  /\ Goto(c, CASE link = "down" -> "connect" [] link = "up" -> "login" [] OTHER -> "send")
  /\ UNCHANGED <<link, wire, remote, tables, accepted, overlapped, failed>>

\* A connect of its own, or somebody else's in the meantime.
Connect(c) ==
  /\ job[c].step = "connect"
  /\ link' = IF link = "down" THEN "up" ELSE link
  /\ Goto(c, IF link = "authed" THEN "send" ELSE "login")
  /\ UNCHANGED <<wire, remote, tables, accepted, overlapped, failed>>

Login(c) ==
  /\ job[c].step = "login"
  /\ link # "down"
  /\ link' = "authed"
  /\ Goto(c, "send")
  /\ UNCHANGED <<wire, remote, tables, accepted, overlapped, failed>>

\* channelId is unique: a second session without an id is refused.
CreateSession(c) ==
  /\ c \in Inits /\ job[c].step = "answered"
  /\ LET ch == job[c].channel
     IN  IF session[ch] # NoRow THEN Goto(c, "threw") /\ UNCHANGED session
         ELSE /\ session' = [session EXCEPT ![ch] =
                   [status |-> "OPEN", latestState |-> Deposit[c], latestNonce |-> 0]]
              /\ Goto(c, "first")
  /\ UNCHANGED <<link, wire, remote, transaction, userBalance, shown, accepted, overlapped, failed>>

FirstTransaction(c) ==
  /\ job[c].step = "first"
  /\ transaction' = transaction \cup
       {[channel |-> job[c].channel, nonce |-> 0, state |-> Deposit[c], by |-> c]}
  /\ Goto(c, "balance")
  /\ UNCHANGED <<link, wire, remote, session, userBalance, shown, accepted, overlapped, failed>>

\* "In MVP, set directly".
UpsertBalance(c) ==
  /\ job[c].step = "balance"
  /\ userBalance' = Deposit[c]
  /\ Goto(c, "publish")
  /\ UNCHANGED <<link, wire, remote, session, transaction, shown, accepted, overlapped, failed>>

PublishDeposit(c) ==
  /\ job[c].step = "publish"
  /\ shown' = Deposit[c]
  /\ End(c)
  /\ UNCHANGED <<link, wire, remote, session, transaction, userBalance, accepted, overlapped>>

-----------------------------------------------------------------------------
(***************************************************************************)
(* submitStateUpdate.                                                      *)
(***************************************************************************)
FindToUpdate(c, ch) ==
  /\ c \in Updates /\ job[c].step = "idle"
  /\ LET row == session[ch]
     IN  IF row = NoRow \/ row.status # "OPEN"
           THEN Goto(c, "refused") /\ UNCHANGED overlapped
           ELSE /\ job' = [job EXCEPT ![c] =
                     [step |-> IF ch = Blank THEN "answered" ELSE "send", channel |-> ch,
                      nonce |-> row.latestNonce + 1, alloc |-> Alloc[c], as |-> "guest"]]
                /\ Touch(ch)
  /\ UNCHANGED <<link, wire, remote, tables, accepted, failed>>

\* Wrong variant: the row is stored, and its transaction forgotten.
PersistRow(c) ==
  /\ c \in Updates /\ job[c].step = "answered"
  /\ session' = [session EXCEPT ![job[c].channel].latestState = job[c].alloc,
                                ![job[c].channel].latestNonce = job[c].nonce]
  /\ End(c)
  /\ UNCHANGED <<link, wire, remote, transaction, userBalance, shown, accepted, overlapped>>

\* Wrong variant: the state is stored before the ClearNode has it.
PersistEarly(c) ==
  /\ c \in Updates /\ job[c].step \in {"send", "answered"}
  /\ session' = [session EXCEPT ![job[c].channel].latestState = job[c].alloc,
                                ![job[c].channel].latestNonce = job[c].nonce]
  /\ transaction' = transaction \cup {[channel |-> job[c].channel, nonce |-> job[c].nonce,
                                       state |-> job[c].alloc, by |-> c]}
  /\ End(c)
  /\ UNCHANGED <<link, wire, remote, userBalance, shown, accepted, overlapped>>

\* Wrong variant: the nonce is counted twice.
PersistNonceTwice(c) ==
  /\ c \in Updates /\ job[c].step = "answered"
  /\ session' = [session EXCEPT ![job[c].channel].latestState = job[c].alloc,
                                ![job[c].channel].latestNonce = job[c].nonce + 1]
  /\ transaction' = transaction \cup {[channel |-> job[c].channel, nonce |-> job[c].nonce,
                                       state |-> job[c].alloc, by |-> c]}
  /\ End(c)
  /\ UNCHANGED <<link, wire, remote, userBalance, shown, accepted, overlapped>>

\* One transaction, with the nonce of the row that was read.
Persist(c) ==
  /\ c \in Updates /\ job[c].step = "answered"
  /\ session' = [session EXCEPT ![job[c].channel].latestState = job[c].alloc,
                                ![job[c].channel].latestNonce = job[c].nonce]
  /\ transaction' = transaction \cup {[channel |-> job[c].channel, nonce |-> job[c].nonce,
                                       state |-> job[c].alloc, by |-> c]}
  /\ End(c)
  /\ UNCHANGED <<link, wire, remote, userBalance, shown, accepted, overlapped>>

-----------------------------------------------------------------------------
(***************************************************************************)
(* closeSession.  The status of the row is not looked at; without an id or *)
(* authentication the ClearNode is not asked.                              *)
(***************************************************************************)
\* Wrong variant: the allocations are looked up under another key.
FindToCloseEmpty(c, ch) ==
  /\ c \in Closes /\ job[c].step = "idle"
  /\ IF session[ch] = NoRow THEN Goto(c, "refused") /\ UNCHANGED overlapped
     ELSE /\ job' = [job EXCEPT ![c] =
               [step |-> IF ch # Blank /\ link = "authed" THEN "send" ELSE "answered",
                channel |-> ch, nonce |-> 0, alloc |-> NoRow, as |-> "guest"]]
          /\ Touch(ch)
  /\ UNCHANGED <<link, wire, remote, tables, accepted, failed>>

FindToClose(c, ch) ==
  /\ c \in Closes /\ job[c].step = "idle"
  /\ IF session[ch] = NoRow THEN Goto(c, "refused") /\ UNCHANGED overlapped
     ELSE /\ job' = [job EXCEPT ![c] =
               [step |-> IF ch # Blank /\ link = "authed" THEN "send" ELSE "answered",
                channel |-> ch, nonce |-> 0, alloc |-> session[ch].latestState,
                as |-> "guest"]]
          /\ Touch(ch)
  /\ UNCHANGED <<link, wire, remote, tables, accepted, failed>>

Mark(c) ==
  /\ c \in Closes /\ job[c].step = "answered"
  /\ session' = [session EXCEPT ![job[c].channel].status = "CLOSED"]
  /\ End(c)
  /\ UNCHANGED <<link, wire, remote, transaction, userBalance, shown, accepted, overlapped>>

\* An await rejects: no socket, a timeout, a lost answer, a failed query.
Fail(c) ==
  /\ job[c].step \notin Ended
  /\ Goto(c, "threw")
  /\ failed' = failed \cup {job[c].channel}
  /\ UNCHANGED <<link, wire, remote, tables, accepted, overlapped>>

Next ==
  \/ Drop \/ Reconnect
  \/ \E c \in Jobs : Request(c) \/ Serve(c) \/ Fail(c)
  \/ \E c \in Inits : \/ Start(c) \/ Connect(c) \/ Login(c) \/ CreateSession(c)
                      \/ FirstTransaction(c) \/ UpsertBalance(c) \/ PublishDeposit(c)
  \/ \E c \in Updates, ch \in Ids : FindToUpdate(c, ch)
  \/ \E c \in Updates : Persist(c)
  \/ \E c \in Closes, ch \in Ids : FindToClose(c, ch)
  \/ \E c \in Closes : Mark(c)

Spec == Init /\ [][Next]_vars

-----------------------------------------------------------------------------
(***************************************************************************)
(* Types: nonces stay within the number of updates.                        *)
(***************************************************************************)
Rows == [status : {"OPEN", "CLOSED"}, latestState : Nat, latestNonce : 0 .. Cardinality(Updates)]
TypeOK ==
  /\ link \in {"down", "up", "authed"} /\ wire \subseteq Jobs
  /\ \A ch \in Channels : remote[ch] = NoRow \/ remote[ch] \in [open : BOOLEAN, alloc : Nat]
  /\ \A ch \in Ids : session[ch] = NoRow \/ session[ch] \in Rows
  /\ transaction \subseteq [channel : Ids, nonce : Nat, state : Nat, by : Jobs]
  /\ userBalance = NoRow \/ userBalance \in Nat
  /\ shown = NoRow \/ shown \in Nat

(***************************************************************************)
(* The transaction table is the history of a session: it has no gap, below *)
(* every recorded nonce of an update the one before is recorded too; and   *)
(* the state of the session is one of its recorded transitions, of the     *)
(* nonce it shows.  Although updates compute their nonces from rows they   *)
(* read before the ClearNode answered, whichever writes last, and although *)
(* the nonce of a session may go back.                                     *)
(***************************************************************************)
TransactionsAreTheHistory ==
  /\ \A t \in transaction : t.nonce > 1 =>
       \E u \in transaction : u.channel = t.channel /\ u.nonce = t.nonce - 1
  /\ \A ch \in Ids : session[ch] # NoRow /\ session[ch].latestNonce > 0 =>
       \E t \in transaction : /\ t.channel = ch
                              /\ t.nonce = session[ch].latestNonce
                              /\ t.state = session[ch].latestState

(***************************************************************************)
(* What the tables hold has its cause, whatever call failed half way:      *)
(* allocations recorded for a session the ClearNode knows were accepted by *)
(* the ClearNode before; a transaction has the row of its session; and a   *)
(* balance, in the table or shown, is the deposit of a session whose first *)
(* transaction is recorded.  So a session that was created half is missing *)
(* only what comes last, and money never shows without its record.         *)
(***************************************************************************)
DepositOnRecord(amount) ==
  \E t \in transaction : t.by \in Inits /\ t.nonce = 0 /\ t.state = amount

RecordedWasAccepted ==
  /\ \A t \in transaction : /\ t.channel \in Channels => <<t.channel, t.state>> \in accepted
                            /\ session[t.channel] # NoRow
  /\ userBalance # NoRow => DepositOnRecord(userBalance)
  /\ shown # NoRow => DepositOnRecord(shown)

(***************************************************************************)
(* The ClearNode closes a session only with allocations this database had  *)
(* as its state, never with an update that was not recorded.               *)
(***************************************************************************)
ClosedWithARecordedState ==
  \A ch \in Channels : remote[ch] # NoRow /\ ~remote[ch].open =>
    \/ \E t \in transaction : t.channel = ch /\ t.state = remote[ch].alloc
    \/ \E c \in Inits : remote[ch].alloc = Deposit[c]

Agrees(ch) ==
  session[ch] # NoRow /\ Running(ch) = {} => session[ch].latestState = remote[ch].alloc

(***************************************************************************)
(* While no calls overlap on a session and none throws, the database and   *)
(* the ClearNode agree on its state between calls: through drops of the    *)
(* connection, refused requests and closes that never reach the ClearNode. *)
(***************************************************************************)
AgreeInSequence == \A ch \in Channels \ (overlapped \cup failed) : Agrees(ch)
=============================================================================

---------------------------- MODULE FrontendSession ----------------------------
(***************************************************************************)
(* The app on the phone between its launches: the wallet connection, the   *)
(* delegation and onboarding stores with what they persist, and the        *)
(* screens Bootstrap and Connect choose.                                   *)
(*                                                                         *)
(* Both stores use zustand's persist: a change is written to the phone     *)
(* asynchronously, and nothing is read before Bootstrap asks for it        *)
(* (skipHydration).  The operations on one key take effect in the order    *)
(* they were issued; each may fail, and a kill of the app loses what is    *)
(* under way.  A store's value is a number: the delegation's expiresAt, 0  *)
(* for none; 1 for a completed onboarding, 0 before.                       *)
(*                                                                         *)
(* External: the wallet session AppKit keeps, which may end or change      *)
(* while the app is closed and is restored some time after a launch; and   *)
(* the screens that will delegate and complete the onboarding, which are   *)
(* placeholders so far: Delegate and Complete call the stores from there.  *)
(* MaxTime bounds the clock, MaxOps the operations under way.              *)
(***************************************************************************)
EXTENDS Integers, Sequences

CONSTANTS Wallets, Nobody, Absent, MaxTime, MaxOps

\* What is not on the phone is no value of a store, which are numbers.
ASSUME SessionAssumption == MaxTime \in Nat /\ MaxOps \in Nat /\ Absent \notin Nat

VARIABLES
  session,  \* the wallet session, outside the app
  account,  \* useAccount()
  seen,     \* account in the last run of useWalletSync's effect
  wallet,   \* walletStore
  memory,   \* memory[k]: the value of store k
  stored,   \* stored[k]: its value on the phone, or Absent
  ops,      \* ops[k]: operations under way
  fetched,  \* fetched[k]: what a read found, not merged yet
  loaded,   \* stores hydrated since Bootstrap was mounted
  screen,   \* "off" when the app does not run
  now,
  wiped,    \* history: what the last disconnect asked of the phone, "asked" or "done"
  overtaken,\* history: it came while the delegation was being hydrated
  astray    \* history: stores that failed, or changed while being hydrated

phone == <<memory, stored, ops, fetched, loaded>>
sessionVars == <<session, account, seen, wallet, phone, screen, now, wiped, overtaken, astray>>

Stores == {"delegation", "onboarding"}
Running == screen # "off"
Get == [do |-> "get", value |-> 0]
Delete == [do |-> "delete", value |-> 0]
Put(v) == [do |-> "set", value |-> v]
Pending(k, kind) == \E i \in DOMAIN ops[k] : ops[k][i].do = kind
Hydrating(k) == Pending(k, "get") \/ fetched[k] # <<>>

SessionInit ==
  /\ session \in Wallets \cup {Nobody}
  /\ account = Nobody /\ seen = Nobody /\ wallet = Nobody
  /\ memory = [k \in Stores |-> 0]
  /\ stored = [k \in Stores |-> Absent]
  /\ ops = [k \in Stores |-> <<>>]
  /\ fetched = [k \in Stores |-> <<>>]
  /\ loaded = {}
  /\ screen = "off"
  /\ now = 0
  /\ wiped = "no" /\ overtaken = FALSE
  /\ astray = {}

-----------------------------------------------------------------------------
(***************************************************************************)
(* The life of the app.                                                    *)
(***************************************************************************)
\* Bootstrap is mounted, and asks for both stores.
Mount ==
  /\ screen' = "boot"
  /\ loaded' = {}
  /\ ops' = [k \in Stores |-> Append(ops[k], Get)]
  /\ UNCHANGED <<memory, stored, fetched>>

\* The session may be restored before the first render.
Launch ==
  /\ screen = "off"
  /\ Mount
  /\ \E a \in {Nobody, session} : account' = a /\ seen' = a /\ wallet' = a
  /\ UNCHANGED <<session, now, wiped, overtaken, astray>>

\* A link to "/".
OpenRoot ==
  /\ screen \notin {"off", "boot"}
  /\ \A k \in Stores : Len(ops[k]) < MaxOps
  /\ Mount
  /\ UNCHANGED <<session, account, seen, wallet, now, wiped, overtaken, astray>>

Kill ==
  /\ Running
  /\ screen' = "off"
  /\ account' = Nobody /\ seen' = Nobody /\ wallet' = Nobody
  /\ memory' = [k \in Stores |-> 0]
  /\ ops' = [k \in Stores |-> <<>>]
  /\ fetched' = [k \in Stores |-> <<>>]
  /\ loaded' = {}
  /\ wiped' = IF wiped = "done" THEN "done" ELSE "no"
  /\ overtaken' = FALSE
  /\ astray' = {}
  /\ UNCHANGED <<session, stored, now>>

Tick ==
  /\ now < MaxTime
  /\ now' = now + 1
  /\ UNCHANGED <<session, account, seen, wallet, phone, screen, wiped, overtaken, astray>>

-----------------------------------------------------------------------------
(***************************************************************************)
(* The persisted stores.                                                   *)
(***************************************************************************)
\* A store is set, and the value written.
Set(k, v, more) ==
  /\ memory' = [memory EXCEPT ![k] = v]
  /\ ops' = [ops EXCEPT ![k] = @ \o <<Put(v)>> \o more]
  /\ astray' = IF Hydrating(k) THEN astray \cup {k} ELSE astray
  /\ UNCHANGED <<stored, fetched, loaded>>

\* What is left of a wipe after the operation op, with rest behind it: it
\* is done once one of its two operations took effect and nothing behind
\* undoes it, and off when both failed.
Wipes(op) == op.do # "get" /\ op.value = 0
Grants(op) == op.do = "set" /\ op.value # 0
WipedAfter(op, rest, ok) ==
  IF wiped # "asked" THEN wiped
  ELSE IF ok /\ Wipes(op) /\ ~\E i \in DOMAIN rest : Grants(rest[i]) THEN "done"
  ELSE IF \E i \in DOMAIN rest : Wipes(rest[i]) THEN "asked" ELSE "no"

\* The phone does the first operation, or fails to.
Store(k, ok) ==
  /\ ops[k] # <<>>
  /\ ops' = [ops EXCEPT ![k] = Tail(@)]
  /\ LET op == Head(ops[k])
     IN  /\ stored' = IF ~ok \/ op.do = "get" THEN stored
                      ELSE [stored EXCEPT ![k] = IF op.do = "set" THEN op.value ELSE Absent]
         /\ fetched' = IF op.do # "get" THEN fetched
                       ELSE [fetched EXCEPT ![k] = <<IF ok THEN stored[k] ELSE Absent>>]
         /\ wiped' = IF k = "delegation" THEN WipedAfter(op, Tail(ops[k]), ok) ELSE wiped
  /\ astray' = IF ok THEN astray ELSE astray \cup {k}
  /\ UNCHANGED <<session, account, seen, wallet, memory, loaded, screen, now, overtaken>>

\* Wrong variant: a store that finds nothing is not reported as hydrated.
RehydrateFound(k) ==
  /\ fetched[k] # <<>>
  /\ LET found == fetched[k][1]
     IN  /\ memory' = [memory EXCEPT ![k] = IF found = Absent THEN @ ELSE found]
         /\ loaded' = IF found = Absent THEN loaded ELSE loaded \cup {k}
  /\ fetched' = [fetched EXCEPT ![k] = <<>>]
  /\ UNCHANGED <<session, account, seen, wallet, stored, ops, screen, now, wiped, overtaken, astray>>

\* Wrong variant: the merge prefers what the store has.
RehydrateKeeping(k) ==
  /\ fetched[k] # <<>>
  /\ loaded' = loaded \cup {k}
  /\ fetched' = [fetched EXCEPT ![k] = <<>>]
  /\ UNCHANGED <<session, account, seen, wallet, memory, stored, ops, screen, now, wiped, overtaken, astray>>

\* What was found overrides the store; nothing found, or an error, leaves it.
Rehydrate(k) ==
  /\ fetched[k] # <<>>
  /\ LET found == fetched[k][1]
     IN  memory' = [memory EXCEPT ![k] = IF found = Absent THEN @ ELSE found]
  /\ loaded' = loaded \cup {k}
  /\ fetched' = [fetched EXCEPT ![k] = <<>>]
  /\ UNCHANGED <<session, account, seen, wallet, stored, ops, screen, now, wiped, overtaken, astray>>

-----------------------------------------------------------------------------
(***************************************************************************)
(* The wallet.                                                             *)
(***************************************************************************)
\* Wrong variant: the store is cleared, and what it persisted stays.
ClearMemory ==
  /\ memory' = [memory EXCEPT !["delegation"] = 0]
  /\ UNCHANGED <<stored, ops, fetched, loaded, astray>>

\* clear(), which also writes, and the deletion of the item.
Clear == Set("delegation", 0, <<Delete>>)

\* History of a clear.
AskToWipe ==
  /\ wiped' = IF wiped = "done" THEN "done" ELSE "asked"
  /\ overtaken' = Hydrating("delegation")

\* Wrong variant: prevConnected is not reset by a disconnect.
WalletSyncAgain ==
  /\ Running /\ account # seen
  /\ wallet' = account
  /\ IF account # Nobody
       THEN seen' = account /\ UNCHANGED <<phone, wiped, overtaken, astray>>
       ELSE Clear /\ AskToWipe /\ UNCHANGED seen
  /\ UNCHANGED <<session, account, screen, now>>

\* The effect of useWalletSync; several changes may come to it as one.
WalletSync ==
  /\ Running /\ account # seen
  /\ seen' = account /\ wallet' = account
  /\ IF account # Nobody
       THEN UNCHANGED <<phone, wiped, overtaken, astray>>
       ELSE Clear /\ AskToWipe
  /\ UNCHANGED <<session, account, screen, now>>

\* The user connects a wallet from the connect screen.
Approve(w) ==
  /\ screen = "connect" /\ account = Nobody
  /\ session' = w /\ account' = w
  /\ UNCHANGED <<seen, wallet, phone, screen, now, wiped, overtaken, astray>>

\* "Disconnect Wallet" in the settings.
Disconnect ==
  /\ screen = "home" /\ account # Nobody
  /\ \A k \in Stores : Len(ops[k]) < MaxOps
  /\ session' = Nobody /\ account' = Nobody
  /\ UNCHANGED <<seen, wallet, phone, screen, now, wiped, overtaken, astray>>

\* The wallet ends the session or switches its account.
SessionChanges(w) ==
  /\ session # Nobody /\ w # session
  /\ session' = w
  /\ UNCHANGED <<account, seen, wallet, phone, screen, now, wiped, overtaken, astray>>

\* AppKit restores the session, or hears of a change.
Learn ==
  /\ Running /\ account # session
  /\ \A k \in Stores : Len(ops[k]) < MaxOps
  /\ account' = session
  /\ UNCHANGED <<session, seen, wallet, phone, screen, now, wiped, overtaken, astray>>

-----------------------------------------------------------------------------
(***************************************************************************)
(* Screens.                                                                *)
(***************************************************************************)
HasActiveDelegation == memory["delegation"] > now
HasCompletedOnboarding == memory["onboarding"] = 1

Redirect ==
  /\ screen = "boot" /\ loaded = Stores
  /\ screen' = IF wallet = Nobody THEN "connect"
               ELSE IF ~HasActiveDelegation THEN "delegate"
               ELSE IF ~HasCompletedOnboarding THEN "select-tokens" ELSE "home"
  /\ UNCHANGED <<session, account, seen, wallet, phone, now, wiped, overtaken, astray>>

LeaveConnect ==
  /\ screen = "connect" /\ account # Nobody
  /\ screen' = "delegate"
  /\ UNCHANGED <<session, account, seen, wallet, phone, now, wiped, overtaken, astray>>

\* setActive.
Delegate ==
  /\ screen = "delegate" /\ account # Nobody
  /\ Len(ops["delegation"]) < MaxOps
  /\ Set("delegation", now + 1, <<>>)
  /\ wiped' = "no" /\ overtaken' = FALSE
  /\ screen' = "select-tokens"
  /\ UNCHANGED <<session, account, seen, wallet, now>>

\* completeOnboarding.
Complete ==
  /\ screen = "select-tokens" /\ account # Nobody
  /\ Len(ops["onboarding"]) < MaxOps
  /\ Set("onboarding", 1, <<>>)
  /\ screen' = "home"
  /\ UNCHANGED <<session, account, seen, wallet, now, wiped, overtaken>>

SessionNext ==
  \/ Launch \/ OpenRoot \/ Kill \/ Tick
  \/ WalletSync \/ Disconnect \/ Learn
  \/ Redirect \/ LeaveConnect \/ Delegate \/ Complete
  \/ \E k \in Stores, ok \in BOOLEAN : Store(k, ok)
  \/ \E k \in Stores : Rehydrate(k)
  \/ \E w \in Wallets : Approve(w)
  \/ \E w \in Wallets \cup {Nobody} : SessionChanges(w)

SessionSpec == SessionInit /\ [][SessionNext]_sessionVars

\* While the app runs, the phone answers and effects run.
SessionFairness ==
  /\ \A k \in Stores : WF_sessionVars(\E ok \in BOOLEAN : Store(k, ok)) /\ WF_sessionVars(Rehydrate(k))
  /\ WF_sessionVars(Redirect) /\ WF_sessionVars(LeaveConnect) /\ WF_sessionVars(WalletSync)

FairSessionSpec == SessionSpec /\ SessionFairness

-----------------------------------------------------------------------------
Values == 0 .. MaxTime + 1

(***************************************************************************)
(* Types; and no operations pile up beyond the two a clear adds.           *)
(***************************************************************************)
SessionTypeOK ==
  /\ {session, account, seen, wallet} \subseteq Wallets \cup {Nobody}
  /\ memory \in [Stores -> Values]
  /\ stored \in [Stores -> Values \cup {Absent}]
  /\ \A k \in Stores : /\ Len(ops[k]) <= MaxOps + 2
                       /\ \A i \in DOMAIN ops[k] : ops[k][i].value \in Values
                       /\ fetched[k] # <<>> => fetched[k][1] \in Values \cup {Absent}
  /\ loaded \subseteq Stores /\ astray \subseteq Stores
  /\ screen \in {"off", "boot", "connect", "delegate", "select-tokens", "home"}
  /\ now \in 0 .. MaxTime /\ wiped \in {"no", "asked", "done"} /\ overtaken \in BOOLEAN

(***************************************************************************)
(* A disconnect the app saw ends the delegation, in whatever order it      *)
(* meets hydrations, earlier writes still under way, failures and kills.   *)
(* Its two operations, the write of the cleared store and the deletion,    *)
(* stay under way until one takes effect, both fail or the app is killed:  *)
(* nothing the app does takes them back.  Once one took effect, the phone  *)
(* has no delegation, and nothing under way gives it one, for any number   *)
(* of launches, kills, failures and other wallets, until the user          *)
(* delegates again.  And from the disconnect on the store has none either, *)
(* in this life of the app unless a hydration was under way, which may     *)
(* bring it back, and in the next ones without exception.                  *)
(***************************************************************************)
WipeHolds ==
  /\ wiped = "asked" => \E i \in DOMAIN ops["delegation"] : Wipes(ops["delegation"][i])
  /\ wiped = "done" =>
       /\ stored["delegation"] \in {Absent, 0}
       /\ ~\E i \in DOMAIN ops["delegation"] : Grants(ops["delegation"][i])
  /\ wiped # "no" /\ ~overtaken => memory["delegation"] = 0

(***************************************************************************)
(* What the next launch would restore is what the app shows now: once a    *)
(* store is hydrated and its writes have reached the phone, both agree,    *)
(* unless an operation failed or the store changed under a hydration.      *)
(***************************************************************************)
RestartRestores ==
  \A k \in loaded \ astray :
    ~Pending(k, "set") /\ ~Pending(k, "delete") =>
      memory[k] = (IF stored[k] = Absent THEN 0 ELSE stored[k])

(***************************************************************************)
(* The app gets going: Bootstrap sends the user on after each launch, with *)
(* stores that are empty, unreadable or full; and a connected user is not  *)
(* kept at the connect screen.                                             *)
(***************************************************************************)
GetsGoing ==
  /\ screen = "boot" ~> screen # "boot"
  /\ screen = "connect" /\ account # Nobody ~> screen # "connect" \/ account = Nobody
=============================================================================

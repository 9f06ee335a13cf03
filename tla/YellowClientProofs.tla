--------------------------- MODULE YellowClientProofs ---------------------------
(***************************************************************************)
(* For any number of calls, sockets and attempts: whoever waits for an     *)
(* answer of the ClearNode is held by the request table and its timer, the *)
(* client is connected and logged in when its flags say so, and a call is  *)
(* answered only as the abstract specification of calls allows.            *)
(***************************************************************************)
EXTENDS YellowClient, TLAPS

(***************************************************************************)
(* WaitersAreHeld is inductive with the shape of job: only then does an    *)
(* EXCEPT change the step it names and no other.                           *)
(***************************************************************************)
Steps == {"idle", "signing", "waiting", "challenged"} \cup Settled
JobOK == job \in [Jobs -> [step : Steps, phase : {"call", "request", "verify"}]]
Held == JobOK /\ WaitersAreHeld

LEMMA InitHeld == Init => Held
  BY DEF Init, Held, JobOK, WaitersAreHeld, Steps, Settled

(***************************************************************************)
(* What a step that rejects everything, and a step that touches one call,  *)
(* leave behind.                                                           *)
(***************************************************************************)
LEMMA RejectAllHeld ==
  ASSUME Held, RejectAllPending
  PROVE  Held'
<1>1. JobOK'
  BY DEF Held, JobOK, RejectAllPending, Steps, Settled
<1>2. requestMap' = timers'
  BY DEF Held, WaitersAreHeld, RejectAllPending
<1>3. ASSUME NEW c \in Jobs, job'[c].step = "waiting" PROVE FALSE
  BY <1>3 DEF Held, JobOK, WaitersAreHeld, RejectAllPending, Steps, Settled
<1> QED
  BY <1>1, <1>2, <1>3 DEF Held, WaitersAreHeld

\* A call that is not left waiting may lose its entry together with its timer.
LEMMA StepHeld ==
  ASSUME Held, NEW c \in Jobs, NEW step \in Steps, Set(c, step),
         requestMap' = timers',
         \A d \in Jobs \ {c} : d \in requestMap => d \in requestMap',
         step = "waiting" => c \in requestMap'
  PROVE  Held'
<1>1. JobOK'
  BY DEF Held, JobOK, Set
<1>2. ASSUME NEW d \in Jobs, job'[d].step = "waiting" PROVE d \in requestMap'
  <2>1. CASE d = c
    BY <1>2, <2>1 DEF Held, JobOK, Set
  <2>2. CASE d # c
    BY <1>2, <2>2 DEF Held, JobOK, WaitersAreHeld, Set
  <2> QED  BY <2>1, <2>2
<1> QED
  BY <1>1, <1>2 DEF Held, WaitersAreHeld

LEMMA CallHeld ==
  ASSUME Held, NEW c \in Jobs, Begin(c) \/ Send(c) \/ RequestTimer(c)
  PROVE  Held'
<1>0. requestMap = timers /\ job[c].step \in Steps
  BY DEF Held, JobOK, WaitersAreHeld
<1>1. CASE Begin(c)
  <2>1. PICK step \in {"signing", "rejected"} : Set(c, step)
    BY <1>1 DEF Begin
  <2> QED  BY <1>0, <1>1, <2>1, StepHeld DEF Begin, Steps, Settled
<1>2. CASE Send(c)
  <2>1. PICK step \in {"waiting", "rejected"} : Set(c, step)
    BY <1>2 DEF Send
  <2> QED  BY <1>0, <1>2, <2>1, StepHeld DEF Send, Steps, Settled
<1>3. CASE RequestTimer(c)
  <2>1. PICK step \in Steps \ {"waiting"} : Set(c, step)
    BY <1>0, <1>3 DEF RequestTimer, Steps, Settled
  <2> QED  BY <1>0, <1>3, <2>1, StepHeld DEF RequestTimer
<1> QED  BY <1>1, <1>2, <1>3

(***************************************************************************)
(* An answer, awaited or late.                                             *)
(***************************************************************************)
LEMMA AcceptHeld ==
  ASSUME Held, NEW c \in Jobs, NEW answer \in Responses, Accept(c, answer),
         requestMap' = requestMap \ {c}, timers' = timers \ {c}
  PROVE  Held'
<1>1. CASE job' = [job EXCEPT ![c] = [step |-> "challenged", phase |-> "verify"]]
  <2>2. JobOK'
    BY <1>1 DEF Held, JobOK, Steps
  <2>3. ASSUME NEW d \in Jobs, job'[d].step = "waiting" PROVE d \in requestMap'
    BY <1>1, <2>3 DEF Held, JobOK, WaitersAreHeld
  <2> QED  BY <2>2, <2>3 DEF Held, WaitersAreHeld
<1>2. CASE Set(c, "answered") \/ Set(c, "rejected")
  BY <1>2, StepHeld DEF Held, WaitersAreHeld, Steps, Settled
<1> QED  BY <1>1, <1>2 DEF Accept

LEMMA OnMessageHeld ==
  ASSUME Held, NEW s \in Sockets, NEW c \in Jobs, NEW answer \in Answers, OnMessage(s, c, answer)
  PROVE  Held'
<1>1. CASE c \notin requestMap
  <2>1. UNCHANGED pending
    BY <1>1 DEF OnMessage, HandleMessage
  <2> QED  BY <2>1 DEF Held, JobOK, WaitersAreHeld, pending
<1>2. CASE c \in requestMap /\ answer # "error"
  <2>1. Accept(c, answer) /\ requestMap' = requestMap \ {c} /\ timers' = timers \ {c}
    BY <1>2 DEF OnMessage, HandleMessage
  <2> QED  BY <1>2, <2>1, AcceptHeld DEF Answers
<1>3. CASE c \in requestMap /\ answer = "error"
  <2>1. Set(c, "rejected") /\ requestMap' = requestMap \ {c} /\ timers' = timers \ {c}
    BY <1>3 DEF OnMessage, HandleMessage
  <2> QED  BY <2>1, StepHeld DEF Held, WaitersAreHeld, Steps, Settled
<1> QED  BY <1>1, <1>2, <1>3

(***************************************************************************)
(* A crash loses every call together with the table.                       *)
(***************************************************************************)
LEMMA CrashHeld ==
  ASSUME Held, Crash
  PROVE  Held'
<1>1. JobOK'
  BY DEF Held, JobOK, Crash, Steps, Settled
<1>2. ASSUME NEW c \in Jobs, job'[c].step = "waiting" PROVE FALSE
  BY <1>2 DEF Held, JobOK, Crash, Steps, Settled
<1> QED  BY <1>1, <1>2 DEF Held, WaitersAreHeld, Crash

LEMMA NextHeld == Held /\ [Next]_vars => Held'
<1> SUFFICES ASSUME Held, [Next]_vars PROVE Held'
  OBVIOUS
<1>0. ASSUME UNCHANGED pending PROVE Held'
  BY <1>0 DEF Held, JobOK, WaitersAreHeld, pending
<1>1. CASE Connect \/ ReconnectTimer
  BY <1>0, <1>1 DEF Connect, ReconnectTimer
<1>2. CASE Disconnect
  BY <1>2, RejectAllHeld DEF Disconnect
<1>3. ASSUME NEW s \in Sockets, OnOpen(s) \/ ConnectTimeout(s) \/ OnClosing(s) PROVE Held'
  BY <1>0, <1>3 DEF OnOpen, ConnectTimeout, OnClosing
<1>4. ASSUME NEW s \in Sockets, OnError(s) PROVE Held'
  BY <1>0, <1>4, CrashHeld DEF OnError
<1>5. ASSUME NEW s \in Sockets, NEW normal \in BOOLEAN, OnClose(s, normal) PROVE Held'
  BY <1>5, RejectAllHeld DEF OnClose
<1>6. ASSUME NEW c \in Jobs, Begin(c) \/ Send(c) \/ RequestTimer(c) PROVE Held'
  BY <1>6, CallHeld
<1>7. ASSUME NEW s \in Sockets, NEW c \in Jobs, NEW answer \in Answers, OnMessage(s, c, answer)
      PROVE  Held'
  BY <1>7, OnMessageHeld
<1>8. CASE UNCHANGED vars
  BY <1>0, <1>8 DEF vars
<1> QED
  BY <1>1, <1>2, <1>3, <1>4, <1>5, <1>6, <1>7, <1>8 DEF Next

(***************************************************************************)
(* Through disconnects, closes of sockets old and new, late answers, sends *)
(* that throw and crashes, every call that waits has an entry in           *)
(* requestMap, and every entry has a running timer.                        *)
(***************************************************************************)
THEOREM EveryWaiterIsHeld == Spec => []WaitersAreHeld
<1>1. Held => WaitersAreHeld
  BY DEF Held
<1> QED
  BY <1>1, InitHeld, NextHeld, PTL DEF Spec

-----------------------------------------------------------------------------
(***************************************************************************)
(* Types.                                                                  *)
(***************************************************************************)
SocketStates == {"none", "connecting", "aborting", "open", "closing", "failed", "closed"}
AttemptStates == {"none", "pending", "resolved", "rejected", "lost"}

LEMMA DialTyped ==
  ASSUME TypeOK, Dial
  PROVE  /\ sock' \in [Sockets -> SocketStates] /\ attempt' \in [Sockets -> AttemptStates]
         /\ ws' \in Sockets
  BY DEF Dial, TypeOK, Unused, SocketStates, AttemptStates

LEMMA ReconnectTyped ==
  ASSUME TypeOK, AttemptReconnect
  PROVE  reconnectAttempts' \in 0 .. MaxAttempts /\ retries' \in Nat
  BY YellowAssumption DEF AttemptReconnect, TypeOK

\* What the handlers leave of the sockets, attempts and flags.
LEMMA SocketsTyped ==
  ASSUME TypeOK, JobOK', requestMap' \subseteq Jobs, timers' \subseteq Jobs, heard' = heard,
         isConnected' \in BOOLEAN, isAuthenticated' \in BOOLEAN,
         sock' \in [Sockets -> SocketStates], attempt' \in [Sockets -> AttemptStates],
         ws' \in Sockets \cup {Null},
         reconnectAttempts' \in 0 .. MaxAttempts, retries' \in Nat,
         inflight' \in [Sockets -> SUBSET Jobs], verdicts' \in [Sockets -> SUBSET Responses]
  PROVE  TypeOK'
  BY DEF TypeOK, JobOK, Steps, SocketStates, AttemptStates

LEMMA InitTyped == Init => TypeOK
<1> SUFFICES ASSUME Init PROVE TypeOK
  OBVIOUS
<1>1. JobOK
  BY InitHeld DEF Held
<1>2. reconnectAttempts \in 0 .. MaxAttempts /\ retries \in Nat
  BY YellowAssumption DEF Init
<1>3. /\ heard \in BOOLEAN /\ isConnected \in BOOLEAN /\ isAuthenticated \in BOOLEAN
      /\ ws \in Sockets \cup {Null}
      /\ requestMap \subseteq Jobs /\ timers \subseteq Jobs
      /\ verdicts \in [Sockets -> SUBSET Responses]
  BY DEF Init
<1>4. /\ sock \in [Sockets -> SocketStates] /\ attempt \in [Sockets -> AttemptStates]
      /\ inflight \in [Sockets -> SUBSET Jobs]
  BY DEF Init, SocketStates, AttemptStates
<1> QED
  BY <1>1, <1>2, <1>3, <1>4 DEF TypeOK, JobOK, Steps, SocketStates, AttemptStates

LEMMA NextTyped == TypeOK /\ Held /\ [Next]_vars => TypeOK'
<1> SUFFICES ASSUME TypeOK, Held, [Next]_vars PROVE TypeOK'
  OBVIOUS
<1>1. JobOK' /\ requestMap' = timers'
  BY NextHeld DEF Held, WaitersAreHeld
<1>2. /\ heard \in BOOLEAN /\ isConnected \in BOOLEAN /\ isAuthenticated \in BOOLEAN
      /\ sock \in [Sockets -> SocketStates] /\ attempt \in [Sockets -> AttemptStates]
      /\ ws \in Sockets \cup {Null}
      /\ reconnectAttempts \in 0 .. MaxAttempts /\ retries \in Nat
      /\ requestMap \subseteq Jobs /\ timers \subseteq Jobs
      /\ inflight \in [Sockets -> SUBSET Jobs] /\ verdicts \in [Sockets -> SUBSET Responses]
      /\ 0 \in 0 .. MaxAttempts
  BY YellowAssumption DEF TypeOK, SocketStates, AttemptStates
<1>3. CASE Connect
  BY <1>1, <1>2, <1>3, DialTyped, SocketsTyped DEF Connect, flags, pending
<1>4. CASE ReconnectTimer
  <2>1. retries' \in Nat
    BY <1>2, <1>4 DEF ReconnectTimer
  <2> QED  BY <1>1, <1>2, <1>4, <2>1, DialTyped, SocketsTyped DEF ReconnectTimer, flags, pending
<1>5. CASE Disconnect
  <2>1. sock' \in [Sockets -> SocketStates]
    BY <1>2, <1>5 DEF Disconnect, SocketStates
  <2> QED
    BY <1>1, <1>2, <1>5, <2>1, SocketsTyped DEF Disconnect, RejectAllPending
<1>6. ASSUME NEW s \in Sockets, OnOpen(s) PROVE TypeOK'
  <2>1. sock' \in [Sockets -> SocketStates] /\ attempt' \in [Sockets -> AttemptStates]
    BY <1>2, <1>6 DEF OnOpen, Resolve, SocketStates, AttemptStates
  <2> QED  BY <1>1, <1>2, <1>6, <2>1, SocketsTyped DEF OnOpen, pending
<1>7. ASSUME NEW s \in Sockets, ConnectTimeout(s) PROVE TypeOK'
  <2>1. attempt' \in [Sockets -> AttemptStates]
    BY <1>2, <1>7 DEF ConnectTimeout, Resolve, AttemptStates
  <2> QED  BY <1>1, <1>2, <1>7, <2>1, SocketsTyped DEF ConnectTimeout, pending, flags
<1>8. ASSUME NEW s \in Sockets, OnClosing(s) PROVE TypeOK'
  <2>1. sock' \in [Sockets -> SocketStates]
    BY <1>2, <1>8 DEF OnClosing, SocketStates
  <2> QED  BY <1>1, <1>2, <1>8, <2>1, SocketsTyped DEF OnClosing, pending, flags
<1>9. ASSUME NEW s \in Sockets, OnError(s) PROVE TypeOK'
  <2>1. CASE heard
    <3>1. sock' \in [Sockets -> SocketStates] /\ attempt' \in [Sockets -> AttemptStates]
      BY <1>2, <1>9, <2>1 DEF OnError, Resolve, SocketStates, AttemptStates
    <3>2. UNCHANGED <<heard, ws, flags, retries, pending, inflight, verdicts>>
      BY <1>9, <2>1 DEF OnError
    <3> QED  BY <1>1, <1>2, <3>1, <3>2, SocketsTyped DEF pending, flags
  <2>2. CASE ~heard
    <3>1. Crash
      BY <1>9, <2>2 DEF OnError
    <3>2. sock' \in [Sockets -> SocketStates] /\ attempt' \in [Sockets -> AttemptStates]
      BY <1>2, <3>1 DEF Crash, SocketStates, AttemptStates
    <3>3. inflight' \in [Sockets -> SUBSET Jobs] /\ requestMap' = {}
      BY <3>1 DEF Crash
    <3> QED  BY <1>1, <1>2, <3>1, <3>2, <3>3, SocketsTyped DEF Crash, Null
  <2> QED  BY <2>1, <2>2
<1>10. ASSUME NEW s \in Sockets, NEW normal \in BOOLEAN, OnClose(s, normal) PROVE TypeOK'
  <2>1. sock' \in [Sockets -> SocketStates] /\ inflight' \in [Sockets -> SUBSET Jobs]
    BY <1>2, <1>10 DEF OnClose, SocketStates
  <2>2. reconnectAttempts' \in 0 .. MaxAttempts /\ retries' \in Nat
    BY <1>2, <1>10, ReconnectTyped DEF OnClose
  <2> QED
    BY <1>1, <1>2, <1>10, <2>1, <2>2, SocketsTyped DEF OnClose, RejectAllPending
<1>11. ASSUME NEW c \in Jobs, Begin(c) \/ RequestTimer(c) PROVE TypeOK'
  BY <1>1, <1>2, <1>11, SocketsTyped DEF Begin, RequestTimer, flags
<1>12. ASSUME NEW c \in Jobs, Send(c) PROVE TypeOK'
  <2>1. inflight' \in [Sockets -> SUBSET Jobs]
    BY <1>2, <1>12 DEF Send
  <2>2. requestMap' \subseteq Jobs
    BY <1>2, <1>12 DEF Send
  <2> QED  BY <1>1, <1>2, <1>12, <2>1, <2>2, SocketsTyped DEF Send, flags
<1>13. ASSUME NEW s \in Sockets, NEW c \in Jobs, NEW answer \in Answers, OnMessage(s, c, answer)
       PROVE  TypeOK'
  <2>1. inflight' \in [Sockets -> SUBSET Jobs] /\ verdicts' \in [Sockets -> SUBSET Responses]
    BY <1>2, <1>13 DEF OnMessage
  <2>2. isAuthenticated' \in BOOLEAN /\ requestMap' \subseteq Jobs
    BY <1>2, <1>13 DEF OnMessage, HandleMessage, Accept, pending
  <2> QED  BY <1>1, <1>2, <1>13, <2>1, <2>2, SocketsTyped DEF OnMessage
<1>14. CASE UNCHANGED vars
  BY <1>14 DEF vars, TypeOK, flags, pending
<1> QED
  BY <1>3, <1>4, <1>5, <1>6, <1>7, <1>8, <1>9, <1>10, <1>11, <1>12, <1>13, <1>14 DEF Next

(***************************************************************************)
(* No variable of the client leaves its type; in particular reconnect      *)
(* attempts stay within MaxAttempts.                                       *)
(***************************************************************************)
THEOREM ClientTyped == Spec => []TypeOK
<1>1. Init => TypeOK /\ Held
  BY InitTyped, InitHeld
<1>2. TypeOK /\ Held /\ [Next]_vars => TypeOK' /\ Held'
  BY NextTyped, NextHeld
<1> QED  BY <1>1, <1>2, PTL DEF Spec
-----------------------------------------------------------------------------
(***************************************************************************)
(* The flags.  Whichever socket is the current one, a set flag has some    *)
(* socket that opened and whose end the client has not yet seen: it is     *)
(* this that is inductive, and FlagsTellTheTruth is what it comes to when  *)
(* the current socket is the only one left.                                *)
(***************************************************************************)
Opened == {"open", "closing", "failed"}
Backed ==
  /\ isConnected => \E s \in Sockets : sock[s] \in Opened
  /\ isAuthenticated => \E s \in Sockets : sock[s] \in Opened /\ verdicts[s] # {}

LEMMA InitBacked == Init => Backed
  BY DEF Init, Backed

\* A step that leaves every opened socket opened, and sets no flag.
LEMMA StillBacked ==
  ASSUME Backed, isConnected' => isConnected, isAuthenticated' => isAuthenticated,
         \A s \in Sockets : sock[s] \in Opened => sock'[s] \in Opened,
         \A s \in Sockets : verdicts[s] \subseteq verdicts'[s]
  PROVE  Backed'
  BY DEF Backed

LEMMA NextBacked == TypeOK /\ Backed /\ [Next]_vars => Backed'
<1> SUFFICES ASSUME TypeOK, Backed, [Next]_vars PROVE Backed'
  OBVIOUS
<1>0. ASSUME ~isConnected', ~isAuthenticated' PROVE Backed'
  BY <1>0 DEF Backed
<1>1. CASE Connect \/ ReconnectTimer
  <2>1. \A s \in Sockets : sock[s] \in Opened => sock'[s] \in Opened
    BY <1>1 DEF Connect, ReconnectTimer, Dial, Unused, Opened, TypeOK
  <2> QED  BY <1>1, <2>1, StillBacked DEF Connect, ReconnectTimer, flags
<1>2. CASE Disconnect
  BY <1>0, <1>2 DEF Disconnect
<1>3. ASSUME NEW s \in Sockets, OnOpen(s) PROVE Backed'
  <2>1. sock'[s] \in Opened
    BY <1>3 DEF OnOpen, Opened, TypeOK
  <2>2. \A t \in Sockets : sock[t] \in Opened => sock'[t] \in Opened
    BY <1>3 DEF OnOpen, Opened, TypeOK
  <2> QED  BY <1>3, <2>1, <2>2 DEF OnOpen, Backed
<1>4. ASSUME NEW s \in Sockets, ConnectTimeout(s) \/ OnClosing(s) PROVE Backed'
  <2>1. \A t \in Sockets : sock[t] \in Opened => sock'[t] \in Opened
    BY <1>4 DEF ConnectTimeout, OnClosing, Opened, TypeOK
  <2> QED  BY <1>4, <2>1, StillBacked DEF ConnectTimeout, OnClosing, flags
<1>5. ASSUME NEW s \in Sockets, OnError(s) PROVE Backed'
  <2>1. CASE heard
    <3>1. \A t \in Sockets : sock[t] \in Opened => sock'[t] \in Opened
      BY <1>5, <2>1 DEF OnError, Opened, TypeOK
    <3>2. UNCHANGED <<flags, verdicts>>
      BY <1>5, <2>1 DEF OnError
    <3> QED  BY <3>1, <3>2, StillBacked DEF flags
  <2>2. CASE ~heard
    BY <1>0, <1>5, <2>2 DEF OnError, Crash
  <2> QED  BY <2>1, <2>2
<1>6. ASSUME NEW s \in Sockets, NEW normal \in BOOLEAN, OnClose(s, normal) PROVE Backed'
  BY <1>0, <1>6 DEF OnClose
<1>7. ASSUME NEW c \in Jobs, Begin(c) \/ Send(c) \/ RequestTimer(c) PROVE Backed'
  BY <1>7, StillBacked DEF Begin, Send, RequestTimer, flags
<1>8. ASSUME NEW s \in Sockets, NEW c \in Jobs, NEW answer \in Answers, OnMessage(s, c, answer)
      PROVE  Backed'
  <2>1. UNCHANGED <<isConnected, sock>> /\ \A t \in Sockets : verdicts[t] \subseteq verdicts'[t]
    BY <1>8 DEF OnMessage, TypeOK
  <2>2. CASE isAuthenticated' => isAuthenticated
    BY <2>1, <2>2, StillBacked
  <2>3. CASE isAuthenticated' /\ ~isAuthenticated
    <3>1. answer \in Responses /\ job[c].phase = "verify"
      BY <1>8, <2>3 DEF OnMessage, HandleMessage, Accept, Answers
    <3>2. sock'[s] \in Opened /\ verdicts'[s] # {}
      BY <1>8, <2>1, <3>1 DEF OnMessage, Opened, TypeOK
    <3> QED  BY <2>1, <3>2 DEF Backed
  <2> QED  BY <2>2, <2>3
<1>9. CASE UNCHANGED vars
  BY <1>9, StillBacked DEF vars, flags
<1> QED
  BY <1>1, <1>2, <1>3, <1>4, <1>5, <1>6, <1>7, <1>8, <1>9 DEF Next

(***************************************************************************)
(* Once every other socket has closed, connected means that the current    *)
(* socket is there, and authenticated that a login was answered by a       *)
(* response on that socket and not on one that it replaced.  Whether the   *)
(* response granted it is what the client does not look at.                *)
(***************************************************************************)
THEOREM FlagsAreTrue == Spec => []FlagsTellTheTruth
<1>1. Init => TypeOK /\ Held /\ Backed
  BY InitTyped, InitHeld, InitBacked
<1>2. TypeOK /\ Held /\ Backed /\ [Next]_vars => TypeOK' /\ Held' /\ Backed'
  BY NextTyped, NextHeld, NextBacked
<1>3. TypeOK /\ Backed => FlagsTellTheTruth
  <2> SUFFICES ASSUME TypeOK, Backed, Live \subseteq {ws}
               PROVE  /\ isConnected => ws # Null /\ sock[ws] \in Opened
                      /\ isAuthenticated => ws # Null /\ verdicts[ws] # {}
    BY DEF FlagsTellTheTruth, Opened
  <2>1. ASSUME NEW s \in Sockets, sock[s] \in Opened PROVE s = ws /\ ws # Null
    BY <2>1, YellowAssumption DEF Live, Opened, Null
  <2> QED  BY <2>1 DEF Backed
<1> QED  BY <1>1, <1>2, <1>3, PTL DEF Spec

-----------------------------------------------------------------------------
(***************************************************************************)
(* What a caller relies on.  A call has at most one message on the wire,   *)
(* it has one only while it waits or after it was rejected, and then the   *)
(* table has forgotten it: so an answer that finds an entry finds a caller *)
(* who waits for that answer.                                              *)
(***************************************************************************)
Phases == \A c \in Jobs : job[c].phase = "call" <=> c \notin Logins
OnTheWire ==
  \A c \in Jobs, s \in Sockets : c \in inflight[s] =>
    /\ job[c].step \in {"waiting", "rejected"}
    /\ c \in requestMap => job[c].step = "waiting"
    /\ \A t \in Sockets : c \in inflight[t] => t = s
CallInv == TypeOK /\ Held /\ Phases /\ OnTheWire
LEMMA InitCallInv == Init => CallInv
<1>1. ASSUME Init, NEW c \in Jobs
      PROVE  job[c].phase = IF c \in Logins THEN "request" ELSE "call"
  BY <1>1 DEF Init
<1>2. Init => Phases
  BY <1>1 DEF Phases
<1>3. Init => OnTheWire
  BY DEF Init, OnTheWire
<1> QED  BY <1>2, <1>3, InitTyped, InitHeld DEF CallInv

\* What is left on the wire when a call changes its step, or several lose theirs.
LEMMA PhasesKept ==
  ASSUME CallInv, \A c \in Jobs : job'[c].phase = job[c].phase
  PROVE  Phases'
  BY DEF CallInv, Phases

LEMMA WireShrinks ==
  ASSUME CallInv, requestMap' \subseteq requestMap,
         \A s \in Sockets : inflight'[s] \subseteq inflight[s],
         \A c \in Jobs, s \in Sockets : c \in inflight'[s] =>
           \/ job'[c].step = job[c].step
           \/ job'[c].step = "rejected" /\ c \notin requestMap'
  PROVE  OnTheWire'
  BY DEF CallInv, OnTheWire

LEMMA SetOne ==
  ASSUME CallInv, NEW c \in Jobs, NEW step, Set(c, step)
  PROVE  /\ job'[c].step = step
         /\ \A d \in Jobs : job'[d].phase = job[d].phase
         /\ \A d \in Jobs \ {c} : job'[d] = job[d]
  BY DEF CallInv, Held, JobOK, Set

LEMMA RejectAllWire ==
  ASSUME CallInv, RejectAllPending, \A s \in Sockets : inflight'[s] \subseteq inflight[s]
  PROVE  Phases' /\ OnTheWire'
<1>1. \A c \in Jobs : /\ job'[c].phase = job[c].phase
                      /\ job'[c].step \in {job[c].step, "rejected"}
  BY DEF RejectAllPending, CallInv, Held, JobOK
<1>2. requestMap' = {}
  BY DEF RejectAllPending
<1> QED  BY <1>1, <1>2, PhasesKept, WireShrinks

LEMMA CallWire ==
  ASSUME CallInv, NEW c \in Jobs, Begin(c) \/ Send(c) \/ RequestTimer(c)
  PROVE  Phases' /\ OnTheWire'
<1>1. CASE Begin(c)
  <2>1. PICK step : Set(c, step)
    BY <1>1 DEF Begin
  <2>2. \A s \in Sockets : c \notin inflight[s]
    BY <1>1 DEF Begin, CallInv, OnTheWire
  <2> QED  BY <1>1, <2>1, <2>2, SetOne, PhasesKept, WireShrinks DEF Begin
<1>2. CASE Send(c)
  <2>1. \A s \in Sockets : c \notin inflight[s]
    BY <1>2 DEF Send, CallInv, OnTheWire
  <2>2. CASE ws # Null /\ sock[ws] = "open"
    <3>1. /\ Set(c, "waiting") /\ requestMap' = requestMap \cup {c}
          /\ inflight' = [inflight EXCEPT ![ws] = @ \cup {c}] /\ ws \in Sockets
      BY <1>2, <2>2 DEF Send, CallInv, TypeOK
    <3>2. \A s \in Sockets : inflight'[s] = IF s = ws THEN inflight[s] \cup {c} ELSE inflight[s]
      BY <3>1 DEF CallInv, TypeOK
    <3>3. ASSUME NEW d \in Jobs, NEW s \in Sockets, d \in inflight'[s]
          PROVE  /\ job'[d].step \in {"waiting", "rejected"}
                 /\ d \in requestMap' => job'[d].step = "waiting"
                 /\ \A t \in Sockets : d \in inflight'[t] => t = s
      <4>1. CASE d = c
        BY <2>1, <3>1, <3>2, <3>3, <4>1, SetOne
      <4>2. CASE d # c
        BY <3>1, <3>2, <3>3, <4>2, SetOne DEF CallInv, OnTheWire
      <4> QED  BY <4>1, <4>2
    <3> QED  BY <3>1, <3>3, SetOne, PhasesKept DEF OnTheWire
  <2>3. CASE ~(ws # Null /\ sock[ws] = "open")
    <3>1. PICK step : Set(c, step)
      BY <1>2 DEF Send
    <3>2. inflight' = inflight /\ requestMap' = requestMap \cup {c}
      BY <1>2, <2>3 DEF Send
    <3> QED  BY <2>1, <3>1, <3>2, SetOne, PhasesKept DEF CallInv, OnTheWire
  <2> QED  BY <2>2, <2>3
<1>3. CASE RequestTimer(c)
  <2>1. PICK step \in {job[c].step, "rejected"} : Set(c, step)
    BY <1>3 DEF RequestTimer
  <2>2. inflight' = inflight /\ requestMap' = requestMap \ {c}
    BY <1>3 DEF RequestTimer
  <2> QED  BY <2>1, <2>2, SetOne, PhasesKept, WireShrinks
<1> QED  BY <1>1, <1>2, <1>3

LEMMA OnMessageWire ==
  ASSUME CallInv, NEW s \in Sockets, NEW c \in Jobs, NEW answer \in Answers, OnMessage(s, c, answer)
  PROVE  Phases' /\ OnTheWire'
<1>1. \A t \in Sockets : inflight'[t] = IF t = s THEN inflight[t] \ {c} ELSE inflight[t]
  BY DEF OnMessage, CallInv, TypeOK
<1>2. \A t \in Sockets : c \notin inflight'[t]
  BY <1>1 DEF OnMessage, CallInv, OnTheWire
<1>3. CASE c \notin requestMap
  <2>1. UNCHANGED pending
    BY <1>3 DEF OnMessage, HandleMessage
  <2> QED  BY <1>1, <2>1, PhasesKept, WireShrinks DEF pending
<1>4. ASSUME NEW step, c \in requestMap, Set(c, step) PROVE Phases' /\ OnTheWire'
  <2>1. requestMap' = requestMap \ {c}
    BY <1>4 DEF OnMessage, HandleMessage
  <2> QED  BY <1>1, <1>2, <1>4, <2>1, SetOne, PhasesKept, WireShrinks
<1>5. CASE /\ c \in requestMap /\ job[c].phase = "request"
           /\ job' = [job EXCEPT ![c] = [step |-> "challenged", phase |-> "verify"]]
  <2>1. requestMap' = requestMap \ {c}
    BY <1>5 DEF OnMessage, HandleMessage
  <2>2. /\ job'[c].phase = "verify"
        /\ \A d \in Jobs \ {c} : job'[d] = job[d]
    BY <1>5 DEF CallInv, Held, JobOK
  <2>3. Phases'
    BY <1>5, <2>2 DEF CallInv, Phases
  <2> QED  BY <1>1, <1>2, <2>1, <2>2, <2>3, WireShrinks
<1>6. CASE c \in requestMap
  BY <1>4, <1>5, <1>6 DEF OnMessage, HandleMessage, Accept
<1> QED  BY <1>3, <1>6

LEMMA NextCallInv == CallInv /\ [Next]_vars => CallInv'
<1> SUFFICES ASSUME CallInv, [Next]_vars PROVE Phases' /\ OnTheWire'
  BY NextTyped, NextHeld DEF CallInv
<1>0. ASSUME UNCHANGED <<pending, inflight>> PROVE Phases' /\ OnTheWire'
  BY <1>0, PhasesKept, WireShrinks DEF pending
<1>1. CASE Connect \/ ReconnectTimer
  BY <1>0, <1>1 DEF Connect, ReconnectTimer
<1>2. CASE Disconnect
  BY <1>2, RejectAllWire DEF Disconnect
<1>3. ASSUME NEW s \in Sockets, OnOpen(s) \/ ConnectTimeout(s) \/ OnClosing(s)
      PROVE  Phases' /\ OnTheWire'
  BY <1>0, <1>3 DEF OnOpen, ConnectTimeout, OnClosing
<1>4. ASSUME NEW s \in Sockets, OnError(s) PROVE Phases' /\ OnTheWire'
  <2>1. CASE ~heard
    <3>1. Crash
      BY <1>4, <2>1 DEF OnError
    <3>2. \A c \in Jobs : job'[c].phase = job[c].phase
      BY <3>1 DEF Crash, CallInv, Held, JobOK
    <3>3. \A t \in Sockets : inflight'[t] = {}
      BY <3>1 DEF Crash
    <3> QED  BY <3>2, <3>3, PhasesKept DEF OnTheWire
  <2> QED  BY <1>0, <1>4, <2>1 DEF OnError
<1>5. ASSUME NEW s \in Sockets, NEW normal \in BOOLEAN, OnClose(s, normal)
      PROVE  Phases' /\ OnTheWire'
  <2>1. \A t \in Sockets : inflight'[t] \subseteq inflight[t]
    BY <1>5 DEF OnClose, CallInv, TypeOK
  <2> QED  BY <1>5, <2>1, RejectAllWire DEF OnClose
<1>6. ASSUME NEW c \in Jobs, Begin(c) \/ Send(c) \/ RequestTimer(c) PROVE Phases' /\ OnTheWire'
  BY <1>6, CallWire
<1>7. ASSUME NEW s \in Sockets, NEW c \in Jobs, NEW answer \in Answers, OnMessage(s, c, answer)
      PROVE  Phases' /\ OnTheWire'
  BY <1>7, OnMessageWire
<1>8. CASE UNCHANGED vars
  BY <1>0, <1>8 DEF vars
<1> QED
  BY <1>1, <1>2, <1>3, <1>4, <1>5, <1>6, <1>7, <1>8 DEF Next
(***************************************************************************)
(* The steps of the client seen by its callers: Told is what outcome makes *)
(* of a step.                                                              *)
(***************************************************************************)
Told(step) == CASE step = "idle" -> "new"
                [] step \in {"signing", "challenged"} -> "made"
                [] OTHER -> step

Unseen == UNCHANGED <<outcome, isAuthenticated>>

LEMMA OutcomeIs ==
  /\ outcome = [c \in Jobs |-> Told(job[c].step)]
  /\ outcome' = [c \in Jobs |-> Told(job'[c].step)]
  BY DEF outcome, Told

LEMMA SetTells ==
  ASSUME CallInv, NEW c \in Jobs, NEW step, Set(c, step)
  PROVE  /\ outcome[c] = Told(job[c].step)
         /\ outcome' = [outcome EXCEPT ![c] = Told(step)]
  BY SetOne, OutcomeIs

LEMMA BecomeSteps ==
  ASSUME NEW c \in Jobs, isAuthenticated' = isAuthenticated,
         \/ Caller!Become(c, {"new"}, "made")
         \/ Caller!Become(c, {"made"}, "waiting")
         \/ Caller!Become(c, {"new", "made", "waiting"}, "rejected")
  PROVE  Caller!Next
  BY DEF Caller!Next, Caller!Jobs, Jobs, Caller!Make, Caller!Submit, Caller!Reject

LEMMA CallIsSeen ==
  ASSUME CallInv, NEW c \in Jobs, Begin(c) \/ Send(c) \/ RequestTimer(c)
  PROVE  Caller!Next \/ Unseen
<1>0. isAuthenticated' = isAuthenticated
  BY DEF Begin, Send, RequestTimer, flags
<1>1. CASE Begin(c)
  <2>1. PICK step \in {"signing", "rejected"} : Set(c, step)
    BY <1>1 DEF Begin
  <2>2. outcome[c] = IF job[c].step = "idle" THEN "new" ELSE "made"
    BY <1>1, <2>1, SetTells DEF Begin, Told
  <2>3. outcome' = [outcome EXCEPT ![c] = IF step = "signing" THEN "made" ELSE "rejected"]
    BY <2>1, SetTells DEF Told
  <2>4. CASE step = "signing" /\ job[c].step # "idle"
    BY <1>0, <2>2, <2>3, <2>4, OutcomeIs DEF Unseen
  <2>5. CASE ~(step = "signing" /\ job[c].step # "idle")
    BY <1>0, <2>1, <2>2, <2>3, <2>5, BecomeSteps DEF Caller!Become
  <2> QED  BY <2>4, <2>5
<1>2. CASE Send(c)
  <2>1. PICK step \in {"waiting", "rejected"} : Set(c, step)
    BY <1>2 DEF Send
  <2>2. outcome[c] = "made" /\ outcome' = [outcome EXCEPT ![c] = step]
    BY <1>2, <2>1, SetTells DEF Send, Told
  <2> QED  BY <1>0, <2>1, <2>2, BecomeSteps DEF Caller!Become
<1>3. CASE RequestTimer(c)
  <2>1. CASE job[c].step = "waiting"
    <3>1. Set(c, "rejected")
      BY <1>3, <2>1 DEF RequestTimer
    <3>2. outcome[c] = "waiting" /\ outcome' = [outcome EXCEPT ![c] = "rejected"]
      BY <2>1, <3>1, SetTells DEF Told
    <3> QED  BY <1>0, <3>2, BecomeSteps DEF Caller!Become
  <2>2. CASE job[c].step # "waiting"
    <3>1. Set(c, job[c].step)
      BY <1>3, <2>2 DEF RequestTimer
    <3> QED  BY <1>0, <3>1, SetTells, OutcomeIs DEF Unseen
  <2> QED  BY <2>1, <2>2
<1> QED  BY <1>1, <1>2, <1>3

LEMMA OnMessageIsSeen ==
  ASSUME CallInv, NEW s \in Sockets, NEW c \in Jobs, NEW answer \in Answers, OnMessage(s, c, answer)
  PROVE  Caller!Next \/ Unseen
<1>1. CASE c \notin requestMap
  <2>1. UNCHANGED pending /\ UNCHANGED isAuthenticated
    BY <1>1 DEF OnMessage, HandleMessage
  <2> QED  BY <2>1, OutcomeIs DEF Unseen, pending
<1>2. CASE c \in requestMap
  <2>1. job[c].step = "waiting" /\ outcome[c] = "waiting"
    BY <1>2, OutcomeIs DEF OnMessage, CallInv, OnTheWire, Told
  <2>2. CASE Set(c, "rejected") /\ UNCHANGED isAuthenticated
    <3>1. outcome' = [outcome EXCEPT ![c] = "rejected"]
      BY <2>2, SetTells DEF Told
    <3> QED  BY <2>1, <2>2, <3>1, BecomeSteps DEF Caller!Become
  <2>3. CASE /\ job[c].phase = "request" /\ UNCHANGED isAuthenticated
             /\ job' = [job EXCEPT ![c] = [step |-> "challenged", phase |-> "verify"]]
    <3>2. \A d \in Jobs : job'[d].step = IF d = c THEN "challenged" ELSE job[d].step
      BY <2>3 DEF CallInv, Held, JobOK
    <3>3. outcome' = [outcome EXCEPT ![c] = "made"]
      BY <3>2, OutcomeIs DEF Told
    <3>4. c \in Logins
      BY <2>3 DEF CallInv, Phases
    <3> QED
      BY <2>1, <2>3, <3>3, <3>4 DEF Caller!Next, Caller!Challenge, Caller!Become, Caller!Jobs
  <2>4. CASE /\ job[c].phase # "request" /\ Set(c, "answered")
             /\ isAuthenticated' = (isAuthenticated \/ job[c].phase = "verify")
    <3>2. outcome' = [outcome EXCEPT ![c] = "answered"]
      BY <2>4, SetTells DEF Told
    <3>3. job[c].phase = "verify" <=> c \in Logins
      BY <2>4 DEF CallInv, Phases, Held, JobOK
    <3> QED
      BY <2>1, <2>4, <3>2, <3>3
      DEF Caller!Next, Caller!Answer, Caller!Become, Caller!Jobs, Jobs
  <2> QED
    BY <1>2, <2>2, <2>3, <2>4 DEF OnMessage, HandleMessage, Accept
<1> QED  BY <1>1, <1>2

\* Everything at once: what waits is rejected or lost, what is made stays or is lost.
LEMMA DropIsSeen ==
  ASSUME CallInv, isAuthenticated' = FALSE,
         \A c \in Jobs :
           \/ job[c].step = "waiting" /\ job'[c].step \in {"rejected", "lost"}
           \/ job[c].step \in {"signing", "challenged"} /\ job'[c].step = "lost"
           \/ job[c].step # "waiting" /\ job'[c].step = job[c].step
  PROVE  Caller!Next
<1>1. DOMAIN outcome' = Jobs
  BY OutcomeIs
<1>2. ASSUME NEW c \in Jobs
      PROVE  \/ outcome[c] = "waiting" /\ outcome'[c] \in {"rejected", "lost"}
             \/ outcome[c] = "made" /\ outcome'[c] \in {"made", "lost"}
             \/ outcome[c] \notin {"waiting", "made"} /\ outcome'[c] = outcome[c]
  <2>1. /\ outcome[c] = Told(job[c].step) /\ outcome'[c] = Told(job'[c].step)
        /\ job[c].step \in Steps
    BY OutcomeIs DEF CallInv, Held, JobOK
  <2> QED  BY <2>1 DEF Told, Steps, Settled
<1> QED  BY <1>1, <1>2 DEF Caller!Next, Caller!Drop, Caller!Jobs, Jobs

LEMMA RejectAllIsSeen ==
  ASSUME CallInv, RejectAllPending, isAuthenticated' = FALSE
  PROVE  Caller!Next
<1>1. ASSUME NEW c \in Jobs
      PROVE  job'[c].step = IF job[c].step = "waiting" THEN "rejected" ELSE job[c].step
  BY DEF RejectAllPending, CallInv, Held, JobOK, WaitersAreHeld
<1> QED  BY <1>1, DropIsSeen

LEMMA NextIsSeen == CallInv /\ [Next]_vars => [Caller!Next]_(Caller!vars)
<1> SUFFICES ASSUME CallInv, [Next]_vars PROVE Caller!Next \/ Unseen
  BY DEF Unseen, Caller!vars
<1>0. ASSUME UNCHANGED <<job, isAuthenticated>> PROVE Unseen
  BY <1>0, OutcomeIs DEF Unseen
<1>1. CASE Connect \/ ReconnectTimer
  BY <1>0, <1>1 DEF Connect, ReconnectTimer, flags, pending
<1>2. CASE Disconnect
  BY <1>2, RejectAllIsSeen DEF Disconnect
<1>3. ASSUME NEW s \in Sockets, OnOpen(s) \/ ConnectTimeout(s) \/ OnClosing(s) PROVE Unseen
  BY <1>0, <1>3 DEF OnOpen, ConnectTimeout, OnClosing, flags, pending
<1>4. ASSUME NEW s \in Sockets, OnError(s) PROVE Caller!Next \/ Unseen
  <2>1. CASE ~heard
    <3>1. Crash
      BY <1>4, <2>1 DEF OnError
    <3>2. ASSUME NEW c \in Jobs
          PROVE  job'[c].step = IF job[c].step \in {"idle"} \cup Settled
                                  THEN job[c].step ELSE "lost"
      BY <3>1 DEF Crash, CallInv, Held, JobOK
    <3>3. \A c \in Jobs : job[c].step \in Steps
      BY DEF CallInv, Held, JobOK
    <3> QED  BY <3>1, <3>2, <3>3, DropIsSeen DEF Crash, Steps, Settled
  <2> QED  BY <1>0, <1>4, <2>1 DEF OnError, flags, pending
<1>5. ASSUME NEW s \in Sockets, NEW normal \in BOOLEAN, OnClose(s, normal) PROVE Caller!Next
  BY <1>5, RejectAllIsSeen DEF OnClose
<1>6. ASSUME NEW c \in Jobs, Begin(c) \/ Send(c) \/ RequestTimer(c)
      PROVE  Caller!Next \/ Unseen
  BY <1>6, CallIsSeen
<1>7. ASSUME NEW s \in Sockets, NEW c \in Jobs, NEW answer \in Answers, OnMessage(s, c, answer)
      PROVE  Caller!Next \/ Unseen
  BY <1>7, OnMessageIsSeen
<1>8. CASE UNCHANGED vars
  BY <1>0, <1>8 DEF vars, flags, pending
<1> QED
  BY <1>1, <1>2, <1>3, <1>4, <1>5, <1>6, <1>7, <1>8 DEF Next

LEMMA InitIsSeen == Init => Caller!Init
<1> SUFFICES ASSUME Init PROVE Caller!Init
  OBVIOUS
<1>1. ASSUME NEW c \in Jobs PROVE Told(job[c].step) = "new"
  BY <1>1 DEF Init, Told
<1>2. outcome = [c \in Jobs |-> "new"]
  BY <1>1, OutcomeIs
<1> QED  BY <1>2 DEF Init, Caller!Init, Caller!Jobs, Jobs

(***************************************************************************)
(* The safety of KeepsItsCalls: whatever the network does, what the client *)
(* does to a call is a step of ClearNodeCalls.  A call settles at most     *)
(* once; only the answer of a login authenticates; and when the            *)
(* authentication goes, no call is left that waits for an answer of the    *)
(* session that ended.                                                     *)
(***************************************************************************)
THEOREM SettlesOnceInItsSession == Spec => Caller!Init /\ [][Caller!Next]_(Caller!vars)
<1>1. Init => CallInv /\ Caller!Init
  BY InitCallInv, InitIsSeen
<1>2. CallInv /\ [Next]_vars => CallInv' /\ [Caller!Next]_(Caller!vars)
  BY NextCallInv, NextIsSeen
<1> QED  BY <1>1, <1>2, PTL DEF Spec

(***************************************************************************)
(* What the callers of rejectAllPending and authenticate rely on, read off *)
(* that refinement.  A call that is settled stays as it is, so a late      *)
(* answer or timer changes nothing for its caller; the client becomes      *)
(* authenticated only in the step that answers a waiting login; and in the *)
(* step in which it ceases to be, no call goes on waiting.                 *)
(***************************************************************************)
SettledStays ==
  \A c \in Jobs : outcome[c] \in Caller!Settled => outcome'[c] = outcome[c]

LoginAuthenticates ==
  ~isAuthenticated /\ isAuthenticated'
    => \E c \in Logins : outcome[c] = "waiting" /\ outcome'[c] = "answered"

NoneWaitsAcross ==
  isAuthenticated /\ ~isAuthenticated' => \A c \in Jobs : outcome'[c] # "waiting"

THEOREM NoAnswerCrossesSessions ==
  Spec => [][SettledStays /\ LoginAuthenticates /\ NoneWaitsAcross]_vars
<1>1. ASSUME CallInv, [Next]_vars
      PROVE  SettledStays /\ LoginAuthenticates /\ NoneWaitsAcross
  <2>1. [Caller!Next]_(Caller!vars)
    BY <1>1, NextIsSeen
  <2>2. isAuthenticated \in BOOLEAN /\ DOMAIN outcome = Jobs
    BY <1>1 DEF CallInv, TypeOK, outcome
  <2>3. CASE UNCHANGED Caller!vars
    BY <2>3 DEF Caller!vars, SettledStays, LoginAuthenticates, NoneWaitsAcross
  <2>4. CASE Caller!Drop
    BY <2>2, <2>4 DEF Caller!Drop, Caller!Settled, Caller!Jobs, Jobs,
                      SettledStays, LoginAuthenticates, NoneWaitsAcross
  <2>5. ASSUME NEW c \in Jobs,
               \/ Caller!Make(c) \/ Caller!Submit(c) \/ Caller!Reject(c)
               \/ Caller!Challenge(c) \/ Caller!Answer(c)
        PROVE  SettledStays /\ LoginAuthenticates /\ NoneWaitsAcross
    BY <2>2, <2>5 DEF Caller!Make, Caller!Submit, Caller!Reject, Caller!Challenge,
                      Caller!Answer, Caller!Become, Caller!Settled,
                      SettledStays, LoginAuthenticates, NoneWaitsAcross
  <2> QED  BY <2>1, <2>3, <2>4, <2>5 DEF Caller!Next, Caller!Jobs, Jobs
<1> QED
  BY <1>1, InitCallInv, NextCallInv, PTL DEF Spec
=============================================================================

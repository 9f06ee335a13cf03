------------------------------ MODULE YellowClient ------------------------------
(***************************************************************************)
(* The backend's client of a ClearNode: YellowClient, one JavaScript       *)
(* object with a current socket, two flags, a map of pending requests and  *)
(* timers.  An action is one task of the event loop: a call up to its      *)
(* first await, a socket event, a timer, or the answer of the signer, with *)
(* the promise reactions that run before the next task.                    *)
(*                                                                         *)
(* connect() never looks at the socket it replaces, so several sockets may *)
(* be alive, each with its handlers on this one object; ws is the last     *)
(* one.  A request is named by the call that makes it: request ids are     *)
(* taken to be distinct (createRequest is in a library).  Sockets is a     *)
(* bound on the number of sockets ever made.                               *)
(***************************************************************************)
EXTENDS Integers

CONSTANTS
  Calls,       \* calls of sendRequest, by the channel and session operations
  Logins,      \* calls of authenticate
  Sockets,     \* 1 .. n: the sockets, in the order they are made
  MaxAttempts  \* maxReconnectAttempts

ASSUME YellowAssumption ==
  /\ Sockets \subseteq Nat \ {0}
  /\ Calls \cap Logins = {}
  /\ MaxAttempts \in Nat

VARIABLES
  heard,            \* does the process listen to the client's "error" events
  sock,             \* sock[s]: the life of socket s
  attempt,          \* attempt[s]: the promise of the connect() that made s
  ws,               \* this.ws: a socket, or 0 for null
  isConnected,
  isAuthenticated,
  reconnectAttempts,
  retries,          \* reconnect timers that are running
  requestMap,       \* calls with an entry in requestMap
  timers,           \* calls whose request timer is running
  job,              \* job[c]: step and phase of a call
  inflight,         \* inflight[s]: requests sent on s and not answered
  verdicts          \* verdicts[s]: how logins were judged by responses on s

flags == <<isConnected, isAuthenticated, reconnectAttempts>>
pending == <<requestMap, timers, job>>
vars == <<heard, sock, attempt, ws, flags, retries, pending, inflight, verdicts>>

Jobs == Calls \cup Logins
Null == 0
Unused == {s \in Sockets : sock[s] = "none"}
Live == {s \in Sockets : sock[s] \notin {"none", "closed"}}
Settled == {"answered", "rejected", "lost"}

\* The ClearNode may do what was asked, refuse it in a response all the same
\* (success false, or a method "error"), or answer with an err message.
Responses == {"granted", "refused"}
Answers == Responses \cup {"error"}

Init ==
  /\ heard \in BOOLEAN
  /\ sock = [s \in Sockets |-> "none"]
  /\ attempt = [s \in Sockets |-> "none"]
  /\ ws = Null
  /\ isConnected = FALSE /\ isAuthenticated = FALSE /\ reconnectAttempts = 0
  /\ retries = 0
  /\ requestMap = {} /\ timers = {}
  /\ job = [c \in Jobs |-> [step |-> "idle",
                            phase |-> IF c \in Logins THEN "request" ELSE "call"]]
  /\ inflight = [s \in Sockets |-> {}]
  /\ verdicts = [s \in Sockets |-> {}]

-----------------------------------------------------------------------------
(***************************************************************************)
(* Connecting.                                                             *)
(***************************************************************************)
Dial ==
  \E s \in Unused :
    /\ \A t \in Unused : s <= t
    /\ sock' = [sock EXCEPT ![s] = "connecting"]
    /\ attempt' = [attempt EXCEPT ![s] = "pending"]
    /\ ws' = s

\* The service calls connect() when the flag says it is not connected.
Connect ==
  /\ ~isConnected
  /\ Dial
  /\ UNCHANGED <<heard, flags, retries, pending, inflight, verdicts>>

\* setTimeout of attemptReconnect: whatever happened since, it connects.
ReconnectTimer ==
  /\ retries > 0
  /\ retries' = retries - 1
  /\ Dial
  /\ UNCHANGED <<heard, flags, pending, inflight, verdicts>>

Resolve(s, outcome) ==
  attempt' = [attempt EXCEPT ![s] = IF @ = "pending" THEN outcome ELSE @]

OnOpen(s) ==
  /\ sock[s] = "connecting"
  /\ sock' = [sock EXCEPT ![s] = "open"]
  /\ isConnected' = TRUE
  /\ reconnectAttempts' = 0
  /\ Resolve(s, "resolved")
  /\ UNCHANGED <<heard, ws, isAuthenticated, retries, pending, inflight, verdicts>>

\* Wrong variant: the timeout is given up once the socket stops connecting.
ConnectTimeoutWhileConnecting(s) ==
  /\ attempt[s] = "pending" /\ sock[s] = "connecting"
  /\ Resolve(s, "rejected")
  /\ UNCHANGED <<heard, sock, ws, flags, retries, pending, inflight, verdicts>>

\* withTimeout rejects the promise; the socket goes on connecting.
ConnectTimeout(s) ==
  /\ attempt[s] = "pending"
  /\ Resolve(s, "rejected")
  /\ UNCHANGED <<heard, sock, ws, flags, retries, pending, inflight, verdicts>>

-----------------------------------------------------------------------------
(***************************************************************************)
(* Losing a connection.                                                    *)
(***************************************************************************)
\* Wrong variant: the entries go, and nobody is told.
RejectAllSilently ==
  /\ requestMap' = {}
  /\ timers' = timers \ requestMap
  /\ UNCHANGED job

RejectAllPending ==
  /\ requestMap' = {}
  /\ timers' = timers \ requestMap
  /\ job' = [c \in Jobs |->
       IF c \in requestMap /\ job[c].step = "waiting"
         THEN [job[c] EXCEPT !.step = "rejected"] ELSE job[c]]

\* Wrong variant: one attempt too many.
AttemptReconnectOnceMore ==
  IF reconnectAttempts > MaxAttempts
    THEN UNCHANGED <<reconnectAttempts, retries>>
    ELSE /\ reconnectAttempts' = reconnectAttempts + 1
         /\ retries' = retries + 1

AttemptReconnect ==
  IF reconnectAttempts >= MaxAttempts
    THEN UNCHANGED <<reconnectAttempts, retries>>
    ELSE /\ reconnectAttempts' = reconnectAttempts + 1
         /\ retries' = retries + 1

\* An EventEmitter without a listener throws what is emitted as "error": from a
\* socket's event that ends the process, which starts again with nothing.
Crash ==
  /\ sock' = [s \in Sockets |-> IF sock[s] = "none" THEN "none" ELSE "closed"]
  /\ attempt' = [s \in Sockets |-> IF attempt[s] = "pending" THEN "lost" ELSE attempt[s]]
  /\ ws' = Null
  /\ isConnected' = FALSE /\ isAuthenticated' = FALSE /\ reconnectAttempts' = 0
  /\ retries' = 0
  /\ requestMap' = {} /\ timers' = {}
  /\ job' = [c \in Jobs |-> IF job[c].step \in {"idle"} \cup Settled
                              THEN job[c] ELSE [job[c] EXCEPT !.step = "lost"]]
  /\ inflight' = [s \in Sockets |-> {}]
  /\ UNCHANGED <<heard, verdicts>>

OnError(s) ==
  /\ sock[s] \in {"connecting", "aborting", "open", "closing"}
  /\ IF heard
       THEN /\ sock' = [sock EXCEPT ![s] = "failed"]
            /\ IF isConnected THEN UNCHANGED attempt ELSE Resolve(s, "rejected")
            /\ UNCHANGED <<heard, ws, flags, retries, pending, inflight, verdicts>>
       ELSE Crash

\* Wrong variant: the authentication outlives its socket.
OnCloseAuthenticated(s, normal) ==
  /\ sock[s] \in {"open", "closing", "failed"}
  /\ normal => sock[s] # "failed"
  /\ sock' = [sock EXCEPT ![s] = "closed"]
  /\ inflight' = [inflight EXCEPT ![s] = {}]
  /\ isConnected' = FALSE
  /\ RejectAllPending
  /\ IF normal THEN UNCHANGED <<reconnectAttempts, retries>> ELSE AttemptReconnect
  /\ UNCHANGED <<heard, attempt, ws, isAuthenticated, verdicts>>

\* The handler of any socket, current or not, acts on the whole object.
OnClose(s, normal) ==
  /\ sock[s] \in {"open", "closing", "failed"}
  /\ normal => sock[s] # "failed"
  /\ sock' = [sock EXCEPT ![s] = "closed"]
  /\ inflight' = [inflight EXCEPT ![s] = {}]
  /\ isConnected' = FALSE /\ isAuthenticated' = FALSE
  /\ RejectAllPending
  /\ IF normal THEN UNCHANGED <<reconnectAttempts, retries>> ELSE AttemptReconnect
  /\ UNCHANGED <<heard, attempt, ws, verdicts>>

\* The other side starts to close: sends are dropped from here on.
OnClosing(s) ==
  /\ sock[s] = "open"
  /\ sock' = [sock EXCEPT ![s] = "closing"]
  /\ UNCHANGED <<heard, attempt, ws, flags, retries, pending, inflight, verdicts>>

\* ws.close(1000): a socket still connecting is aborted, with an error event.
Disconnect ==
  /\ RejectAllPending
  /\ sock' = IF ws = Null THEN sock
             ELSE [sock EXCEPT ![ws] = CASE @ = "connecting" -> "aborting"
                                         [] @ = "open" -> "closing"
                                         [] OTHER -> @]
  /\ ws' = Null
  /\ isConnected' = FALSE /\ isAuthenticated' = FALSE
  /\ UNCHANGED <<heard, attempt, reconnectAttempts, retries, inflight, verdicts>>

-----------------------------------------------------------------------------
(***************************************************************************)
(* Requests and authentication.                                            *)
(***************************************************************************)
Set(c, step) == job' = [job EXCEPT ![c].step = step]

\* sendRequest up to the signature.
Begin(c) ==
  /\ job[c].step \in {"idle", "challenged"}
  /\ job[c].phase = "request" => ~isAuthenticated
  /\ Set(c, IF /\ ws # Null
               /\ sock[ws] = "open"
               /\ job[c].phase = "request" => isConnected
              THEN "signing" ELSE "rejected")
  /\ UNCHANGED <<heard, sock, attempt, ws, flags, retries, requestMap, timers,
                 inflight, verdicts>>

\* The signature is there: the entry and its timer are made, then the message
\* is sent on what is the current socket now.  With no socket, or one that is
\* connecting, send throws and the call is rejected, entry and timer stay; a
\* socket that is closing or closed drops the message.
Send(c) ==
  /\ job[c].step = "signing"
  /\ requestMap' = requestMap \cup {c}
  /\ timers' = timers \cup {c}
  /\ LET sends == ws # Null /\ sock[ws] # "connecting"
     IN  /\ Set(c, IF sends THEN "waiting" ELSE "rejected")
         /\ inflight' = IF sends /\ sock[ws] = "open"
                          THEN [inflight EXCEPT ![ws] = @ \cup {c}] ELSE inflight
  /\ UNCHANGED <<heard, sock, attempt, ws, flags, retries, verdicts>>

RequestTimer(c) ==
  /\ c \in timers
  /\ requestMap' = requestMap \ {c}
  /\ timers' = timers \ {c}
  /\ Set(c, IF job[c].step = "waiting" THEN "rejected" ELSE job[c].step)
  /\ UNCHANGED <<heard, sock, attempt, ws, flags, retries, inflight, verdicts>>

\* What the caller does with a response, whose parameters it does not judge.  A
\* login takes any first parameter for the challenge, and fails without one; any
\* response to its second request makes the client authenticated.
Accept(c, answer) ==
  \/ /\ job[c].phase = "request"
     /\ job' = [job EXCEPT ![c] = [step |-> "challenged", phase |-> "verify"]]
     /\ UNCHANGED isAuthenticated
  \/ /\ job[c].phase = "request" /\ answer = "refused"
     /\ Set(c, "rejected")
     /\ UNCHANGED isAuthenticated
  \/ /\ job[c].phase # "request"
     /\ Set(c, "answered")
     /\ isAuthenticated' = (isAuthenticated \/ job[c].phase = "verify")

\* Wrong variant: an error answer leaves the request timer running.
HandleMessageTimed(c, answer) ==
  IF c \notin requestMap THEN UNCHANGED <<pending, isAuthenticated>>
  ELSE /\ requestMap' = requestMap \ {c}
       /\ timers' = IF answer = "error" THEN timers ELSE timers \ {c}
       /\ IF answer = "error" THEN Set(c, "rejected") /\ UNCHANGED isAuthenticated
          ELSE Accept(c, answer)

\* An answer nobody waits for any more is taken for an event of the server.
HandleMessage(c, answer) ==
  IF c \notin requestMap THEN UNCHANGED <<pending, isAuthenticated>>
  ELSE /\ requestMap' = requestMap \ {c}
       /\ timers' = timers \ {c}
       /\ IF answer = "error" THEN Set(c, "rejected") /\ UNCHANGED isAuthenticated
          ELSE Accept(c, answer)

OnMessage(s, c, answer) ==
  /\ sock[s] \in {"open", "closing"}
  /\ c \in inflight[s]
  /\ inflight' = [inflight EXCEPT ![s] = @ \ {c}]
  /\ verdicts' = IF answer \in Responses /\ job[c].phase = "verify"
                   THEN [verdicts EXCEPT ![s] = @ \cup {answer}] ELSE verdicts
  /\ HandleMessage(c, answer)
  /\ UNCHANGED <<heard, sock, attempt, ws, isConnected, reconnectAttempts, retries>>

-----------------------------------------------------------------------------
Next ==
  \/ Connect \/ ReconnectTimer \/ Disconnect
  \/ \E s \in Sockets : OnOpen(s) \/ ConnectTimeout(s) \/ OnError(s) \/ OnClosing(s)
  \/ \E s \in Sockets, normal \in BOOLEAN : OnClose(s, normal)
  \/ \E c \in Jobs : Begin(c) \/ Send(c) \/ RequestTimer(c)
  \/ \E s \in Sockets, c \in Jobs, answer \in Answers : OnMessage(s, c, answer)

Spec == Init /\ [][Next]_vars

\* Timers fire, signatures arrive, and authenticate goes on from a challenge.
\* Nothing is assumed of the network.
Fairness ==
  /\ \A c \in Jobs : WF_vars(Send(c)) /\ WF_vars(RequestTimer(c))
  /\ \A c \in Logins : WF_vars(job[c].phase = "verify" /\ Begin(c))
  /\ \A s \in Sockets : WF_vars(ConnectTimeout(s))

FairSpec == Spec /\ Fairness
-----------------------------------------------------------------------------
(***************************************************************************)
(* Types.  The client never has more than MaxAttempts attempts on record.  *)
(***************************************************************************)
TypeOK ==
  /\ heard \in BOOLEAN
  /\ isConnected \in BOOLEAN /\ isAuthenticated \in BOOLEAN
  /\ sock \in [Sockets -> {"none", "connecting", "aborting", "open", "closing",
                            "failed", "closed"}]
  /\ attempt \in [Sockets -> {"none", "pending", "resolved", "rejected", "lost"}]
  /\ ws \in Sockets \cup {Null}
  /\ reconnectAttempts \in 0 .. MaxAttempts /\ retries \in Nat
  /\ requestMap \subseteq Jobs /\ timers \subseteq Jobs
  /\ job \in [Jobs -> [step : {"idle", "signing", "waiting", "challenged"} \cup Settled,
                       phase : {"call", "request", "verify"}]]
  /\ inflight \in [Sockets -> SUBSET Jobs]
  /\ verdicts \in [Sockets -> SUBSET Responses]

(***************************************************************************)
(* Whoever waits for an answer has an entry in requestMap, and every entry *)
(* has a running timer that will remove it, through disconnects, closes of *)
(* old sockets, late answers and sends that throw.                         *)
(***************************************************************************)
WaitersAreHeld ==
  /\ requestMap = timers
  /\ \A c \in Jobs : job[c].step = "waiting" => c \in requestMap

(***************************************************************************)
(* Once every other socket of the client has closed, its flags are about   *)
(* the current one: connected means that it is there, and authenticated    *)
(* that a login was answered by a response on that socket, and not on one  *)
(* that it replaced.  The ClearNode need not have granted it: the client   *)
(* takes any response for success, so the flag is the ClearNode's word     *)
(* only where verdicts[ws] is {"granted"}.                                 *)
(***************************************************************************)
FlagsTellTheTruth ==
  Live \subseteq {ws} =>
    /\ isConnected => ws # Null /\ sock[ws] \in {"open", "closing", "failed"}
    /\ isAuthenticated => ws # Null /\ verdicts[ws] # {}

(***************************************************************************)
(* The client does for its callers what ClearNodeCalls says, whatever the  *)
(* network does: through disconnects, closes of sockets old and new, sends *)
(* that throw, late answers, timeouts and crashes every call settles, once *)
(* and in its own session.                                                 *)
(***************************************************************************)
outcome == [c \in Jobs |-> CASE job[c].step = "idle" -> "new"
                              [] job[c].step \in {"signing", "challenged"} -> "made"
                              [] OTHER -> job[c].step]

Caller == INSTANCE ClearNodeCalls WITH authenticated <- isAuthenticated

KeepsItsCalls == Caller!Spec

(***************************************************************************)
(* Every promise of connect() settles or is lost in a crash: by opening,   *)
(* by an error, or by the timeout when an error was kept from it because   *)
(* another socket had the client connected.                                *)
(***************************************************************************)
ConnectSettles == \A s \in Sockets : attempt[s] = "pending" ~> attempt[s] # "pending"
=============================================================================

-------------------------------- MODULE ApiCalls --------------------------------
(***************************************************************************)
(* The app's calls of the backend over HTTP: the mutations that request a  *)
(* withdrawal and register or revoke a delegation, and the query that      *)
(* polls a withdrawal's status; the routes, their rate limits and errors;  *)
(* and how an error travels back to what the user is told.                 *)
(*                                                                         *)
(* A press is one call of a mutation, which is not retried by itself; the  *)
(* server goes on with a request whose connection broke.  What a route     *)
(* writes is counted here; SolverPool and DelegationService model it.      *)
(* External: the network, and the operator who processes withdrawals.      *)
(***************************************************************************)
EXTENDS Integers

CONSTANTS
  Presses,           \* calls of a mutation
  MaxPost, MaxGet,   \* requests a POST route and the server accept in a window
  Retries            \* retries of a query

ASSUME LimitsAssumption == MaxPost \in Nat /\ MaxGet \in Nat /\ Retries \in Nat

VARIABLES
  kind,      \* kind[p]: the mutation, or "none"
  request,   \* request[p]: where the request of p is
  answer,    \* answer[p]: the server's answer, once it has one
  told,      \* told[p]: what the user was told, or "nothing"
  used,      \* requests of this window: by POST route, and used.get
  status,    \* status[p]: of the withdrawal request p created, or "none"
  poll,      \* poll[p]: the status query: step and number of failures
  reply,     \* reply[p]: the answer of the status route on its way
  shown,     \* shown[p]: the status the app shows, or "none"
  raised,    \* history: the error p met on the server, or "none"
  done,      \* history: done[p], writes made for p
  broken     \* history: presses whose connection broke

Kinds == {"withdraw", "register", "revoke"}
mutation == <<kind, request, answer, told>>
query == <<poll, reply, shown>>
history == <<raised, done, broken>>
callsVars == <<mutation, used, status, query, history>>

ErrorCode ==
  {"INTERNAL_ERROR", "VALIDATION_ERROR", "NOT_FOUND", "UNAUTHORIZED", "RATE_LIMITED",
   "AUTH_FAILED", "SESSION_NOT_FOUND", "SESSION_EXPIRED", "SESSION_KEY_INVALID",
   "SESSION_KEY_EXPIRED", "SESSION_KEY_REVOKED", "INSUFFICIENT_FUNDS",
   "INSUFFICIENT_LIQUIDITY", "STALE_STATE", "INVALID_SIGNATURE", "ALLOCATION_MISMATCH",
   "CONNECTION_FAILED", "TIMEOUT", "WITHDRAWAL_FAILED", "WITHDRAWAL_PENDING"}

-----------------------------------------------------------------------------
(***************************************************************************)
(* The way of an error.                                                    *)
(***************************************************************************)
STATUS_MAP(code) ==
  CASE code \in {"INTERNAL_ERROR", "WITHDRAWAL_FAILED"} -> 500
    [] code \in {"UNAUTHORIZED", "AUTH_FAILED"} -> 401
    [] code \in {"NOT_FOUND", "SESSION_NOT_FOUND"} -> 404
    [] code \in {"STALE_STATE", "WITHDRAWAL_PENDING"} -> 409
    [] code \in {"SESSION_EXPIRED", "SESSION_KEY_EXPIRED", "SESSION_KEY_REVOKED"} -> 410
    [] code = "RATE_LIMITED" -> 429
    [] code \in {"INSUFFICIENT_LIQUIDITY", "CONNECTION_FAILED"} -> 503
    [] code = "TIMEOUT" -> 504
    [] OTHER -> 400

Ok == [status |-> 200, code |-> "none"]
NoAnswer == [status |-> 0, code |-> "none"]
BadGateway == [status |-> 502, code |-> "none"]

\* The limiter's error is no AppError, but has its status.
ErrorHandler(error) ==
  CASE error \in ErrorCode -> [status |-> STATUS_MAP(error), code |-> error]
    [] error = "limit" -> [status |-> 429, code |-> "RATE_LIMITED"]
    [] OTHER -> [status |-> 500, code |-> "INTERNAL_ERROR"]

HandleResponse(a) ==
  IF a.status = 429 THEN "RATE_LIMITED"
  ELSE IF a.status \in 200 .. 299 THEN "ok"
  ELSE IF a.code # "none" THEN a.code
  ELSE "UNKNOWN"

\* Messages are named by their codes; UNKNOWN has the text of the fallback.
UserMessages == ErrorCode \cup {"NETWORK_ERROR", "INVALID_ADDRESS", "CHANNEL_NOT_FOUND"}
GetErrorMessage(code) == IF code \in UserMessages THEN code ELSE "Something Went Wrong"

-----------------------------------------------------------------------------
Unused == [route \in Kinds \cup {"get"} |-> 0]

CallsInit ==
  /\ kind = [p \in Presses |-> "none"]
  /\ request = [p \in Presses |-> "none"]
  /\ answer = [p \in Presses |-> NoAnswer]
  /\ told = [p \in Presses |-> "nothing"]
  /\ used = Unused
  /\ status = [p \in Presses |-> "none"]
  /\ poll = [p \in Presses |-> [step |-> "off", failures |-> 0]]
  /\ reply = [p \in Presses |-> NoAnswer]
  /\ shown = [p \in Presses |-> "none"]
  /\ raised = [p \in Presses |-> "none"]
  /\ done = [p \in Presses |-> 0]
  /\ broken = {}

\* A request comes within its limit or is refused with "limit".
Admitted(route, max) ==
  /\ used[route] < max
  /\ used' = [used EXCEPT ![route] = @ + 1]

WindowEnds ==
  /\ used # Unused
  /\ used' = Unused
  /\ UNCHANGED <<mutation, status, query, history>>

-----------------------------------------------------------------------------
(***************************************************************************)
(* Mutations.                                                              *)
(***************************************************************************)
Press(p, k) ==
  /\ kind[p] = "none"
  /\ kind' = [kind EXCEPT ![p] = k]
  /\ request' = [request EXCEPT ![p] = "arriving"]
  /\ UNCHANGED <<answer, told, used, status, query, history>>

Go(p, step) == request' = [request EXCEPT ![p] = step]

Throw(p, error) ==
  /\ Go(p, "answered")
  /\ answer' = [answer EXCEPT ![p] = ErrorHandler(error)]
  /\ raised' = [raised EXCEPT ![p] = ErrorHandler(error).code]

Arrive(p) ==
  /\ request[p] = "arriving"
  /\ \/ Admitted(kind[p], MaxPost) /\ Go(p, "check") /\ UNCHANGED <<answer, raised>>
     \/ used[kind[p]] = MaxPost /\ Throw(p, "limit") /\ UNCHANGED used
  /\ UNCHANGED <<kind, told, status, query, done, broken>>

Refusals ==
  [withdraw |-> {"VALIDATION_ERROR", "INSUFFICIENT_FUNDS"},
   register |-> {"VALIDATION_ERROR", "INVALID_SIGNATURE", "SESSION_KEY_EXPIRED"},
   revoke |-> {"VALIDATION_ERROR", "NOT_FOUND", "SESSION_KEY_REVOKED"}]

\* Validation and reads: the route refuses, a query fails, or it goes on.
Check(p) ==
  /\ request[p] = "check"
  /\ \/ Go(p, "write") /\ UNCHANGED <<answer, raised>>
     \/ \E error \in Refusals[kind[p]] \cup {"failed"} : Throw(p, error)
  /\ UNCHANGED <<kind, told, used, status, query, done, broken>>

\* Wrong variant: a duplicate is noticed when it has been written.
WriteThenRefuse(p) ==
  /\ request[p] = "write"
  /\ done' = [done EXCEPT ![p] = @ + 1]
  /\ status' = [status EXCEPT ![p] = IF kind[p] = "withdraw" THEN "PENDING" ELSE @]
  /\ \/ Go(p, "finish") /\ UNCHANGED <<answer, raised>>
     \/ Throw(p, "VALIDATION_ERROR")
  /\ UNCHANGED <<kind, told, used, query, broken>>

\* The row is created or updated, or the query fails.
WriteRow(p) ==
  /\ request[p] = "write"
  /\ \/ /\ Go(p, "finish")
        /\ done' = [done EXCEPT ![p] = @ + 1]
        /\ status' = [status EXCEPT ![p] = IF kind[p] = "withdraw" THEN "PENDING" ELSE @]
        /\ UNCHANGED <<answer, raised>>
     \/ Throw(p, "failed") /\ UNCHANGED <<done, status>>
  /\ UNCHANGED <<kind, told, used, query, broken>>

\* The publication of the balance, or the second write of a registration, may
\* fail when the first write is made.
Finish(p) ==
  /\ request[p] = "finish"
  /\ \/ /\ Go(p, "answered")
        /\ answer' = [answer EXCEPT ![p] = Ok]
        /\ UNCHANGED raised
     \/ kind[p] # "revoke" /\ Throw(p, "failed")
  /\ UNCHANGED <<kind, told, used, status, query, done, broken>>

Tell(p, code) == told' = [told EXCEPT ![p] = IF code = "ok" THEN "ok" ELSE GetErrorMessage(code)]

\* The answer arrives; a withdrawal request is watched from here on.
ReceiveAnswer(p) ==
  /\ request[p] = "answered" /\ told[p] = "nothing"
  /\ Tell(p, HandleResponse(answer[p]))
  /\ poll' = IF answer[p] = Ok /\ kind[p] = "withdraw"
               THEN [poll EXCEPT ![p].step = "waiting"] ELSE poll
  /\ UNCHANGED <<kind, request, answer, used, status, reply, shown, history>>

\* fetch rejects, with no code, or something between answers without JSON.
BreakCall(p) ==
  /\ request[p] # "none" /\ told[p] = "nothing"
  /\ \/ Tell(p, "")
     \/ Tell(p, HandleResponse(BadGateway))
  /\ broken' = broken \cup {p}
  /\ UNCHANGED <<kind, request, answer, used, status, query, raised, done>>

-----------------------------------------------------------------------------
(***************************************************************************)
(* The status of a withdrawal.                                             *)
(***************************************************************************)
Final == {"COMPLETED", "FAILED"}

\* The operator.
Process(p) ==
  /\ \/ status[p] = "PENDING" /\ status' = [status EXCEPT ![p] = "PROCESSING"]
     \/ status[p] = "PROCESSING" /\ \E s \in Final : status' = [status EXCEPT ![p] = s]
  /\ UNCHANGED <<mutation, used, query, history>>

\* GET /withdrawal/status/:id, as far as it succeeds.
ServeStatus(p) ==
  /\ poll[p].step = "waiting" /\ reply[p] = NoAnswer
  /\ Admitted("get", MaxGet)
  /\ reply' = [reply EXCEPT ![p] = [status |-> 200, code |-> status[p]]]
  /\ UNCHANGED <<mutation, status, poll, shown, history>>

RefuseStatus(p) ==
  /\ poll[p].step = "waiting" /\ reply[p] = NoAnswer
  /\ \/ used.get = MaxGet /\ reply' = [reply EXCEPT ![p] = ErrorHandler("limit")] /\ UNCHANGED used
     \/ Admitted("get", MaxGet) /\ reply' = [reply EXCEPT ![p] = ErrorHandler("failed")]
  /\ UNCHANGED <<mutation, status, poll, shown, history>>

\* refetchInterval.
PollAgain(s) == s \notin Final

\* Wrong variant: the last retry is the end of the query.
QueryFailsForGood(p) ==
  poll' = [poll EXCEPT ![p] = IF @.failures < Retries
                                THEN [step |-> "backoff", failures |-> @.failures + 1]
                                ELSE [step |-> "stopped", failures |-> 0]]

\* Wrong variant: one retry too many.
QueryFailsOnceMore(p) ==
  poll' = [poll EXCEPT ![p] = IF @.failures <= Retries
                                THEN [step |-> "backoff", failures |-> @.failures + 1]
                                ELSE [step |-> "idle", failures |-> 0]]

\* A failed fetch is retried some times, then left to the interval.
QueryFails(p) ==
  poll' = [poll EXCEPT ![p] = IF @.failures < Retries
                                THEN [step |-> "backoff", failures |-> @.failures + 1]
                                ELSE [step |-> "idle", failures |-> 0]]

ReceiveStatus(p) ==
  /\ reply[p] # NoAnswer
  /\ reply' = [reply EXCEPT ![p] = NoAnswer]
  /\ IF HandleResponse(reply[p]) = "ok"
       THEN LET s == reply[p].code
            IN  /\ shown' = [shown EXCEPT ![p] = s]
                /\ poll' = [poll EXCEPT ![p] = [step |-> IF PollAgain(s) THEN "idle" ELSE "stopped",
                                                failures |-> 0]]
       ELSE QueryFails(p) /\ UNCHANGED shown
  /\ UNCHANGED <<mutation, used, status, history>>

BreakStatus(p) ==
  /\ poll[p].step = "waiting"
  /\ reply' = [reply EXCEPT ![p] = NoAnswer]
  /\ QueryFails(p)
  /\ UNCHANGED <<mutation, used, status, shown, history>>

\* The interval, or the delay of a retry.
Refetch(p) ==
  /\ poll[p].step \in {"idle", "backoff"}
  /\ poll' = [poll EXCEPT ![p].step = "waiting"]
  /\ UNCHANGED <<mutation, used, status, reply, shown, history>>

CallsNext ==
  \/ WindowEnds
  \/ \E p \in Presses :
       \/ \E k \in Kinds : Press(p, k)
       \/ Arrive(p) \/ Check(p) \/ WriteRow(p) \/ Finish(p) \/ ReceiveAnswer(p) \/ BreakCall(p)
       \/ Process(p) \/ ServeStatus(p) \/ RefuseStatus(p) \/ ReceiveStatus(p)
       \/ BreakStatus(p) \/ Refetch(p)

CallsSpec == CallsInit /\ [][CallsNext]_callsVars

\* Windows end and timers fire, a request is answered or breaks; of those the
\* app repeats for ever some are served, and some answers arrive.
CallsFairness ==
  /\ WF_callsVars(WindowEnds)
  /\ \A p \in Presses :
       /\ WF_callsVars(Refetch(p))
       /\ WF_callsVars(ReceiveStatus(p) \/ BreakStatus(p))
       /\ []<><<Refetch(p)>>_callsVars => []<><<ServeStatus(p)>>_callsVars
       /\ []<><<ServeStatus(p)>>_callsVars
            => []<><<reply[p].status = 200 /\ ReceiveStatus(p)>>_callsVars

FairCallsSpec == CallsSpec /\ CallsFairness

-----------------------------------------------------------------------------
Told == {"nothing", "ok", "Something Went Wrong"} \cup UserMessages
(***************************************************************************)
(* Types; a fetch of the status is retried at most Retries times in a row. *)
(***************************************************************************)
CallsTypeOK ==
  /\ request \in [Presses -> {"none", "arriving", "check", "write", "finish", "answered"}]
  /\ told \in [Presses -> Told]
  /\ \A route \in Kinds : used[route] \in 0 .. MaxPost
  /\ used.get \in 0 .. MaxGet
  /\ status \in [Presses -> {"none", "PENDING", "PROCESSING"} \cup Final]
  /\ poll \in [Presses -> [step : {"off", "waiting", "backoff", "idle", "stopped"},
                           failures : 0 .. Retries]]
  /\ shown \in [Presses -> {"none", "PENDING", "PROCESSING"} \cup Final]
  /\ done \in [Presses -> 0 .. 1]

(***************************************************************************)
(* What the user is told is true.  It is what happened on the server:       *)
(* success, or the error met there, through every layer it passes; only    *)
(* when the connection broke it is that something went wrong.  Success     *)
(* means that something was written for this press; a reason of the route  *)
(* or its limit means that nothing was, so trying again is safe.           *)
(***************************************************************************)
ToldIsTrue ==
  \A p \in Presses : told[p] # "nothing" =>
    /\ told[p] = IF p \in broken THEN "Something Went Wrong"
                 ELSE IF raised[p] = "none" THEN "ok" ELSE raised[p]
    /\ told[p] = "ok" => done[p] = 1
    /\ told[p] \in Refusals[kind[p]] \cup {"RATE_LIMITED"} => done[p] = 0

(***************************************************************************)
(* A withdrawal the user was told of is shown as completed or failed some  *)
(* time after it is, through rate limits, failures and retries, and then   *)
(* the app stops asking.                                                   *)
(***************************************************************************)
FinalIsShown ==
  \A p \in Presses :
    told[p] = "ok" /\ status[p] \in Final ~> shown[p] = status[p] /\ poll[p].step = "stopped"
=============================================================================

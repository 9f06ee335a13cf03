----------------------------- MODULE ClearNodeCalls -----------------------------
(***************************************************************************)
(* What a caller of the YellowClient may rely on.  A call that was made is *)
(* settled at last, and only once; a login that is answered by a response, *)
(* and nothing else, makes the client say that it is authenticated; and    *)
(* when it ceases to say so, every call that was waiting is gone: no       *)
(* answer crosses the end of a session with the ClearNode.  "Answered" is  *)
(* that a response came back, and not that the ClearNode granted anything: *)
(* of that the client promises nothing.                                    *)
(***************************************************************************)
CONSTANTS Calls, Logins

VARIABLES outcome, authenticated

vars == <<outcome, authenticated>>
Jobs == Calls \cup Logins
Settled == {"answered", "rejected", "lost"}

Init ==
  /\ outcome = [c \in Jobs |-> "new"]
  /\ authenticated = FALSE

Become(c, from, to) == outcome[c] \in from /\ outcome' = [outcome EXCEPT ![c] = to]

Make(c) == Become(c, {"new"}, "made") /\ UNCHANGED authenticated
Submit(c) == Become(c, {"made"}, "waiting") /\ UNCHANGED authenticated
Reject(c) == Become(c, {"new", "made", "waiting"}, "rejected") /\ UNCHANGED authenticated

\* A login makes two requests.
Challenge(c) == c \in Logins /\ Become(c, {"waiting"}, "made") /\ UNCHANGED authenticated

Answer(c) ==
  /\ Become(c, {"waiting"}, "answered")
  /\ authenticated' = (authenticated \/ c \in Logins)

\* A disconnect, a closed socket or a crash.
Drop ==
  /\ authenticated' = FALSE
  /\ \A c \in Jobs :
       \/ outcome[c] = "waiting" /\ outcome'[c] \in {"rejected", "lost"}
       \/ outcome[c] = "made" /\ outcome'[c] \in {"made", "lost"}
       \/ outcome[c] \notin {"waiting", "made"} /\ outcome'[c] = outcome[c]
  /\ DOMAIN outcome' = Jobs

Next ==
  \/ \E c \in Jobs : Make(c) \/ Submit(c) \/ Reject(c) \/ Challenge(c) \/ Answer(c)
  \/ Drop

EverySettles ==
  \A c \in Jobs : outcome[c] = "made" ~> outcome[c] \in Settled

Spec == Init /\ [][Next]_vars /\ EverySettles
=============================================================================

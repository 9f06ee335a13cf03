------------------------------ MODULE BalanceFeed ------------------------------
(***************************************************************************)
(* The feed of balance updates: services publish to a Redis channel, the   *)
(* websocket server (websocket/server.ts) forwards what it hears to the    *)
(* clients connected to it.                                                *)
(*                                                                         *)
(* A publisher is a call of a service; awaits lie between its steps, at    *)
(* which it may fail.  initializeSession sets the balance and publishes    *)
(* it; fulfillIntent makes the row if there is none, reads it later and    *)
(* publishes what it read; a withdrawal request reads the balance and      *)
(* publishes it less its amount, although the row stays as it is.  Of one  *)
(* user one asset is modelled.  Redis hands a message over once, in the    *)
(* order it was published, and what comes while the server's subscriber is *)
(* away is lost.  Frames travel in order until the connection breaks.  A   *)
(* client sends one message at a time and waits for its answer;            *)
(* MaxMessages bounds how many.                                            *)
(***************************************************************************)
EXTENDS Integers, Sequences

CONSTANTS
  Users, Clients,
  Sessions, Fulfilments, Withdrawals,  \* the publishers
  Amounts,                             \* of a deposit, a reward, a withdrawal
  MaxMessages, None

ASSUME FeedAssumption == Amounts \subseteq Nat /\ None \notin Nat

VARIABLES
  balance,  \* balance[u]: the row, or None
  job,      \* job[p]: step, user and value of a publisher
  channel,  \* published, and not yet heard by the server
  conn,     \* conn[b]: the connection: "off", "open", or "broken"
  clients,  \* clients with an entry in the server's map
  subscriptions,
  up, down, \* up[b], down[b]: frames under way from and to the client
  mine,     \* client: users with a confirmed subscription
  view,     \* client: view[b][u], last balance since the confirmation, or None
  sent,     \* number of messages clients sent, for the bound
  asked,    \* history: users b subscribed to on this connection
  owed,     \* history: updates published for b since it was confirmed
  taken,    \* history: what the last publisher for u took off the balance
  blurred   \* history: users whose publishers overlapped or failed, or whose
            \* updates were lost, with no publication alone since

server == <<clients, subscriptions>>
client == <<up, down, mine, view, sent, asked>>
vars == <<balance, job, channel, conn, server, client, owed, taken, blurred>>

Publishers == Sessions \cup Fulfilments \cup Withdrawals
Messages == [type : {"subscribe", "unsubscribe"}, user : Users]
              \cup [type : {"ping", "invalid"}, user : {None}]

Init ==
  /\ balance = [u \in Users |-> None]
  /\ job = [p \in Publishers |-> [step |-> "idle", user |-> None, value |-> 0]]
  /\ channel = <<>>
  /\ conn = [b \in Clients |-> "off"]
  /\ clients = {}
  /\ subscriptions = [b \in Clients |-> {}]
  /\ up = [b \in Clients |-> <<>>] /\ down = [b \in Clients |-> <<>>]
  /\ mine = [b \in Clients |-> {}]
  /\ view = [b \in Clients |-> [u \in Users |-> None]]
  /\ sent = 0
  /\ asked = [b \in Clients |-> {}]
  /\ owed = [b \in Clients |-> {}]
  /\ taken = [u \in Users |-> 0]
  /\ blurred = {}

-----------------------------------------------------------------------------
(***************************************************************************)
(* Publishing.                                                             *)
(***************************************************************************)
Held(u) == IF balance[u] = None THEN 0 ELSE balance[u]
Active(p, u) == job[p].step \in {"credited", "publish"} /\ job[p].user = u

\* A publisher alone with its user makes good what was blurred.
Start(p, u, step, value) ==
  /\ job[p].step = "idle"
  /\ job' = [job EXCEPT ![p] = [step |-> step, user |-> u, value |-> value]]
  /\ blurred' = IF \E q \in Publishers : Active(q, u)
                  THEN blurred \cup {u} ELSE blurred \ {u}
  /\ UNCHANGED <<channel, conn, server, client, owed>>

\* Wrong variant: the balance from before the write is published.
DepositLate(p, u, amount) ==
  /\ balance' = [balance EXCEPT ![u] = amount]
  /\ taken' = [taken EXCEPT ![u] = 0]
  /\ Start(p, u, "publish", Held(u))

Deposit(p, u, amount) ==
  /\ balance' = [balance EXCEPT ![u] = amount]
  /\ taken' = [taken EXCEPT ![u] = 0]
  /\ Start(p, u, "publish", amount)

\* The transaction of fulfillIntent: the upsert updates nothing.
Credit(p, u, reward) ==
  /\ balance' = [balance EXCEPT ![u] = IF @ = None THEN reward ELSE @]
  /\ Start(p, u, "credited", 0)
  /\ UNCHANGED taken

Read(p) ==
  LET u == job[p].user
  IN  /\ job[p].step = "credited"
      /\ job' = [job EXCEPT ![p] = [step |-> "publish", user |-> u, value |-> Held(u)]]
      /\ taken' = [taken EXCEPT ![u] = 0]
      /\ UNCHANGED <<balance, channel, conn, server, client, owed, blurred>>

Withdraw(p, u, amount) ==
  /\ balance[u] # None /\ amount <= Held(u)
  /\ taken' = [taken EXCEPT ![u] = amount]
  /\ Start(p, u, "publish", Held(u) - amount)
  /\ UNCHANGED balance

Over(p) == job' = [job EXCEPT ![p] = [step |-> "over", user |-> None, value |-> 0]]

\* publishBalanceUpdate.
Publish(p) ==
  /\ job[p].step = "publish"
  /\ LET bu == [type |-> "bu", user |-> job[p].user, value |-> job[p].value, by |-> p]
     IN  /\ channel' = Append(channel, bu)
         /\ owed' = [b \in Clients |-> IF bu.user \in mine[b]
                                         THEN owed[b] \cup {<<p, bu.user>>} ELSE owed[b]]
  /\ Over(p)
  /\ UNCHANGED <<balance, conn, server, client, taken, blurred>>

Fail(p) ==
  /\ job[p].step \in {"credited", "publish"}
  /\ Over(p)
  /\ blurred' = blurred \cup {job[p].user}
  /\ UNCHANGED <<balance, channel, conn, server, client, owed, taken>>

-----------------------------------------------------------------------------
(***************************************************************************)
(* The server.  "invalid" stands for an unknown type, an address that is   *)
(* none and a text that is no JSON: the answer is an error.                *)
(***************************************************************************)
Transmit(b, frame) ==
  down' = IF conn[b] = "open" THEN [down EXCEPT ![b] = Append(@, frame)] ELSE down

Reply(m) == [type |-> CASE m.type = "subscribe" -> "subscribed"
                        [] m.type = "unsubscribe" -> "unsubscribed"
                        [] m.type = "ping" -> "pong"
                        [] OTHER -> "error",
             user |-> m.user]

\* Wrong variant: the latest subscription replaces the others.
SubscribedReplacing(subs, m) ==
  CASE m.type = "subscribe" -> {m.user}
    [] m.type = "unsubscribe" -> subs \ {m.user}
    [] OTHER -> subs

Subscribed(subs, m) ==
  CASE m.type = "subscribe" -> subs \cup {m.user}
    [] m.type = "unsubscribe" -> subs \ {m.user}
    [] OTHER -> subs

HandleClientMessage(b) ==
  /\ conn[b] # "off" /\ up[b] # <<>>
  /\ up' = [up EXCEPT ![b] = Tail(@)]
  /\ LET m == Head(up[b])
     IN  IF b \notin clients THEN UNCHANGED <<down, subscriptions>>
         ELSE /\ Transmit(b, Reply(m))
              /\ subscriptions' = [subscriptions EXCEPT ![b] = Subscribed(@, m)]
  /\ UNCHANGED <<balance, job, channel, conn, clients, mine, view, sent, asked, owed, taken, blurred>>

\* Wrong variant: a client hears everything.
RoutedToAll(bu) == {b \in clients : conn[b] = "open"}

\* A client without subscriptions hears everything.
Routed(bu) ==
  {b \in clients : /\ conn[b] = "open"
                   /\ subscriptions[b] = {} \/ bu.user \in subscriptions[b]}

Route ==
  /\ channel # <<>>
  /\ channel' = Tail(channel)
  /\ LET bu == Head(channel)
         to == Routed(bu)
     IN  down' = [b \in Clients |-> IF b \in to THEN Append(down[b], bu) ELSE down[b]]
  /\ UNCHANGED <<balance, job, conn, server, up, mine, view, sent, asked, owed, taken, blurred>>

\* The subscriber's connection to Redis is lost, and made again.
Unheard ==
  /\ channel # <<>>
  /\ channel' = <<>>
  /\ owed' = [b \in Clients |-> {}]
  /\ blurred' = blurred \cup {channel[i].user : i \in DOMAIN channel}
  /\ UNCHANGED <<balance, job, conn, server, client, taken>>

-----------------------------------------------------------------------------
(***************************************************************************)
(* Connections.                                                            *)
(***************************************************************************)
Open(b) ==
  /\ conn[b] = "off"
  /\ conn' = [conn EXCEPT ![b] = "open"]
  /\ clients' = clients \cup {b}
  /\ subscriptions' = [subscriptions EXCEPT ![b] = {}]
  /\ UNCHANGED <<balance, job, channel, client, owed, taken, blurred>>

\* The client's side of the connection is gone.
Forget(b) ==
  /\ down' = [down EXCEPT ![b] = <<>>]
  /\ mine' = [mine EXCEPT ![b] = {}]
  /\ view' = [view EXCEPT ![b] = [u \in Users |-> None]]
  /\ asked' = [asked EXCEPT ![b] = {}]
  /\ owed' = [owed EXCEPT ![b] = {}]

Break(b) ==
  /\ conn[b] = "open"
  /\ conn' = [conn EXCEPT ![b] = "broken"]
  /\ Forget(b)
  /\ UNCHANGED <<balance, job, channel, server, up, sent, taken, blurred>>

OnError(b) ==
  /\ conn[b] # "off"
  /\ conn' = [conn EXCEPT ![b] = "broken"]
  /\ clients' = clients \ {b}
  /\ Forget(b)
  /\ UNCHANGED <<balance, job, channel, subscriptions, up, sent, taken, blurred>>

\* Wrong variant: the entry stays.
OnCloseKeeping(b) ==
  /\ conn[b] = "broken"
  /\ conn' = [conn EXCEPT ![b] = "off"]
  /\ up' = [up EXCEPT ![b] = <<>>]
  /\ UNCHANGED <<balance, job, channel, server, down, mine, view, sent, asked, owed, taken, blurred>>

OnClose(b) ==
  /\ conn[b] = "broken"
  /\ conn' = [conn EXCEPT ![b] = "off"]
  /\ clients' = clients \ {b}
  /\ up' = [up EXCEPT ![b] = <<>>]
  /\ UNCHANGED <<balance, job, channel, subscriptions, down, mine, view, sent, asked,
                 owed, taken, blurred>>

-----------------------------------------------------------------------------
(***************************************************************************)
(* A client.                                                               *)
(***************************************************************************)
Waits(b) == up[b] # <<>> \/ \E i \in DOMAIN down[b] : down[b][i].type # "bu"
Lose(b, u) ==
  /\ mine' = [mine EXCEPT ![b] = @ \ {u}]
  /\ view' = [view EXCEPT ![b][u] = None]
  /\ owed' = [owed EXCEPT ![b] = {o \in @ : o[2] # u}]

Say(b, m) ==
  /\ conn[b] = "open" /\ ~Waits(b)
  /\ sent < MaxMessages
  /\ sent' = sent + 1
  /\ up' = [up EXCEPT ![b] = Append(@, m)]
  /\ asked' = IF m.type = "subscribe" THEN [asked EXCEPT ![b] = @ \cup {m.user}] ELSE asked
  /\ IF m.type = "unsubscribe" THEN Lose(b, m.user) ELSE UNCHANGED <<mine, view, owed>>
  /\ UNCHANGED <<balance, job, channel, conn, server, down, taken, blurred>>

Receive(b) ==
  /\ down[b] # <<>>
  /\ down' = [down EXCEPT ![b] = Tail(@)]
  /\ LET f == Head(down[b])
     IN  CASE f.type = "bu" /\ f.user \in mine[b] ->
                /\ view' = [view EXCEPT ![b][f.user] = f.value]
                /\ owed' = [owed EXCEPT ![b] = @ \ {<<f.by, f.user>>}]
                /\ UNCHANGED mine
           [] f.type = "subscribed" ->
                /\ mine' = [mine EXCEPT ![b] = @ \cup {f.user}]
                /\ view' = [view EXCEPT ![b][f.user] = IF f.user \in mine[b] THEN @ ELSE None]
                /\ UNCHANGED owed
           [] OTHER -> UNCHANGED <<mine, view, owed>>
  /\ UNCHANGED <<balance, job, channel, conn, server, up, sent, asked, taken, blurred>>

Next ==
  \/ \E u \in Users, amount \in Amounts :
       \/ \E p \in Sessions : Deposit(p, u, amount)
       \/ \E p \in Fulfilments : Credit(p, u, amount)
       \/ \E p \in Withdrawals : Withdraw(p, u, amount)
  \/ \E p \in Publishers : Read(p) \/ Publish(p) \/ Fail(p)
  \/ Route \/ Unheard
  \/ \E b \in Clients : \/ Open(b) \/ Break(b) \/ OnError(b) \/ OnClose(b)
                        \/ HandleClientMessage(b) \/ Receive(b)
  \/ \E b \in Clients, m \in Messages : Say(b, m)

Spec == Init /\ [][Next]_vars

\* Redis hands over what it has, frames arrive, and a broken connection is
\* noticed.  Nothing is assumed of publishers and clients.
Fairness ==
  /\ WF_vars(Route)
  /\ \A b \in Clients : WF_vars(Receive(b)) /\ WF_vars(OnClose(b))

FairSpec == Spec /\ Fairness

-----------------------------------------------------------------------------
Frames == [type : {"bu"}, user : Users, value : Nat, by : Publishers]
           \cup [type : {"subscribed", "unsubscribed", "pong", "error"}, user : Users \cup {None}]

(***************************************************************************)
(* Types; and the map has an entry for no connection that is gone.         *)
(***************************************************************************)
TypeOK ==
  /\ balance \in [Users -> Nat \cup {None}] /\ taken \in [Users -> Nat]
  /\ job \in [Publishers -> [step : {"idle", "credited", "publish", "over"},
                             user : Users \cup {None}, value : Nat]]
  /\ \A i \in DOMAIN channel : channel[i] \in Frames
  /\ conn \in [Clients -> {"off", "open", "broken"}]
  /\ clients \subseteq {b \in Clients : conn[b] # "off"}
  /\ subscriptions \in [Clients -> SUBSET Users]
  /\ \A b \in Clients : /\ \A i \in DOMAIN up[b] : up[b][i] \in Messages
                        /\ \A i \in DOMAIN down[b] : down[b][i] \in Frames
  /\ mine \in [Clients -> SUBSET Users] /\ asked \in [Clients -> SUBSET Users]
  /\ view \in [Clients -> [Users -> Nat \cup {None}]]

(***************************************************************************)
(* A client with a confirmed subscription hears of nobody it did not       *)
(* subscribe to, although frames sent while it had no subscription, and so *)
(* heard everything, may still have been under way.                        *)
(***************************************************************************)
OnlyTheSubscribed ==
  \A b \in Clients : mine[b] # {} =>
    \A i \in DOMAIN down[b] : down[b][i].type = "bu" => down[b][i].user \in asked[b]

(***************************************************************************)
(* "All connected WebSocket clients subscribed to this user will receive   *)
(* it" (websocket/server.ts:140): an update published after the            *)
(* subscription was confirmed arrives, unless the client unsubscribes or   *)
(* its connection or the server's to Redis is lost.                        *)
(***************************************************************************)
UpdatesArrive ==
  \A b \in Clients, p \in Publishers, u \in Users :
    <<p, u>> \in owed[b] ~> <<p, u>> \notin owed[b]

Quiet(u) ==
  /\ \A p \in Publishers : ~Active(p, u)
  /\ \A i \in DOMAIN channel : channel[i].user # u
Behind(b, u) == \E i \in DOMAIN down[b] : down[b][i].user = u

(***************************************************************************)
(* What a subscribed client was shown last is the balance in the table,    *)
(* less the amount of the withdrawal request that announced it last, if    *)
(* one did: no row ever holds that value.  One publication with no other   *)
(* of its user under way is enough for it, whatever overlapped, failed or  *)
(* was lost before.                                                        *)
(***************************************************************************)
ShownInSequence ==
  \A b \in Clients : \A u \in mine[b] \ blurred :
    Quiet(u) /\ ~Behind(b, u) => view[b][u] \in {None, Held(u) - taken[u]}
=============================================================================

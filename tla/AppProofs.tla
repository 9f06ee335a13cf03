--------------------------- MODULE AppProofs ---------------------------
(***************************************************************************)
(* What the app hears, keeps and asks for, for every value of the          *)
(* constants: the feed of balance updates (BalanceFeed), the phone's       *)
(* stores (FrontendSession) and the calls of the backend (ApiCalls).  The  *)
(* three share no variable; each has its inductive invariant, one lemma    *)
(* per action and its theorems.  What is needed of sequences comes once.   *)
(***************************************************************************)
EXTENDS BalanceFeed, FrontendSession, ApiCalls, SequenceTheorems, TLAPS

-----------------------------------------------------------------------------
(***************************************************************************)
(* The inductive invariant.  Its first part says of one client what is     *)
(* under way to and from it; m, d, s and a are what it takes for           *)
(* confirmed, the frames under way to it, its subscriptions at the server  *)
(* and the users it asked for.                                             *)
(***************************************************************************)
Published == [type : {"bu"}, user : Users, value : Nat, by : Publishers]

Typed ==
  /\ TypeOK
  /\ channel \in Seq(Published)
  /\ up \in [Clients -> Seq(Messages)] /\ down \in [Clients -> Seq(Frames)]
  /\ \A p \in Publishers : job[p].step \in {"credited", "publish"} => job[p].user \in Users

\* One message at a time, and nothing under way once the connection is gone.
OneAtATime(b) ==
  /\ conn[b] # "open" => down[b] = <<>> /\ mine[b] = {} /\ asked[b] = {}
  /\ conn[b] = "off" => up[b] = <<>>
  /\ conn[b] = "open" => b \in clients
  /\ Len(up[b]) <= 1
  /\ up[b] # <<>> => \A i \in DOMAIN down[b] : down[b][i].type = "bu"

\* The server has what the client takes for confirmed, or will, and nothing
\* the client did not ask for.
Granted(d, s) == \A i \in DOMAIN d : d[i].type = "subscribed" => d[i].user \in s
Confirmed(b) ==
  conn[b] = "open" =>
    /\ mine[b] \subseteq subscriptions[b] /\ subscriptions[b] \subseteq asked[b]
    /\ Granted(down[b], subscriptions[b])
    /\ up[b] # <<>> =>
         /\ Head(up[b]).type = "subscribe" => Head(up[b]).user \in asked[b]
         /\ Head(up[b]).type = "unsubscribe" => Head(up[b]).user \notin mine[b]

\* An update is for a user asked for when it finds a confirmed subscription,
\* or will, because a confirmation is ahead of it.
Filtered(m, d, a) ==
  \A i \in DOMAIN d :
    /\ d[i].type = "bu"
    /\ m # {} \/ \E j \in DOMAIN d : j < i /\ d[j].type = "subscribed"
    => d[i].user \in a

ClientInv(b) ==
  OneAtATime(b) /\ Confirmed(b) /\ Filtered(mine[b], down[b], asked[b])

(***************************************************************************)
(* The second part follows the value v of user u from the publisher to the *)
(* client: the last update under way that will count has it.               *)
(***************************************************************************)
IsNews(f, u) == f.type = "bu" /\ f.user = u
NoNews(d, u) == \A i \in DOMAIN d : ~IsNews(d[i], u)
IsLast(d, i, u) == IsNews(d[i], u) /\ \A k \in DOMAIN d : k > i => ~IsNews(d[k], u)
Counted(m, d, i, u) ==
  u \in m \/ \E j \in DOMAIN d : j < i /\ d[j].type = "subscribed" /\ d[j].user = u
EndsWith(m, d, u, v) ==
  \A i \in DOMAIN d : IsLast(d, i, u) /\ Counted(m, d, i, u) => d[i].value = v

Publishes(p, u) == job[p].step = "publish" /\ job[p].user = u
Announced(u) == Held(u) - taken[u]

Alone(u) ==
  /\ \A p \in Publishers : Publishes(p, u) => job[p].value = Announced(u)
  /\ \A p, q \in Publishers : Active(p, u) /\ Active(q, u) => p = q

Shown(b, u) ==
  /\ EndsWith(mine[b], down[b], u, Announced(u))
  /\ u \in mine[b] /\ NoNews(down[b], u) => view[b][u] \in {None, Announced(u)}

Fresh(u) ==
  (\A p \in Publishers : ~Active(p, u)) =>
    /\ EndsWith({u}, channel, u, Announced(u))
    /\ NoNews(channel, u) => \A b \in Clients : Shown(b, u)

InSequence == \A u \in Users \ blurred : Alone(u) /\ Fresh(u)

IInv == Typed /\ (\A b \in Clients : ClientInv(b)) /\ InSequence

-----------------------------------------------------------------------------
(***************************************************************************)
(* Sequences.  A frame e is appended to d, or the first frame taken off.   *)
(***************************************************************************)
LEMMA AppendIs ==
  ASSUME NEW S, NEW d \in Seq(S), NEW e \in S
  PROVE  /\ Append(d, e) \in Seq(S) /\ Append(d, e) # <<>>
         /\ Len(d) \in Nat /\ DOMAIN d = 1 .. Len(d)
         /\ Len(Append(d, e)) = Len(d) + 1
         /\ DOMAIN Append(d, e) = 1 .. Len(d) + 1
         /\ \A i \in 1 .. Len(d) : Append(d, e)[i] = d[i]
         /\ Append(d, e)[Len(d) + 1] = e
  BY AppendProperties, LenProperties

LEMMA TailIs ==
  ASSUME NEW S, NEW d \in Seq(S), d # <<>>
  PROVE  /\ Head(d) \in S /\ Head(d) = d[1]
         /\ Len(d) \in Nat \ {0} /\ DOMAIN d = 1 .. Len(d)
         /\ Tail(d) \in Seq(S) /\ Len(Tail(d)) = Len(d) - 1
         /\ DOMAIN Tail(d) = 1 .. Len(d) - 1
         /\ \A i \in 1 .. Len(d) - 1 : Tail(d)[i] = d[i + 1]
<1>1. Head(d) \in S /\ Tail(d) \in Seq(S) /\ Len(Tail(d)) = Len(d) - 1
      /\ \A i \in 1 .. Len(Tail(d)) : Tail(d)[i] = d[i + 1]
  BY HeadTailProperties
<1>2. Len(d) \in Nat \ {0}
  BY EmptySeq
<1>3. DOMAIN d = 1 .. Len(d) /\ DOMAIN Tail(d) = 1 .. Len(Tail(d))
  BY <1>1, LenProperties
<1>4. Head(d) = d[1]
  OBVIOUS
<1> QED BY <1>1, <1>2, <1>3, <1>4

LEMMA Nothing ==
  /\ DOMAIN << >> = {} /\ Len(<< >>) = 0
  /\ \A S : << >> \in Seq(S)
<1>1. \A S : << >> \in Seq(S) /\ Len(<< >>) = 0
  BY EmptySeq
<1>2. DOMAIN << >> = 1 .. 0
  BY <1>1, LenProperties
<1> QED BY <1>1, <1>2

\* What was true of the updates under way stays true of fewer subscriptions
\* and more that was asked for.
LEMMA FilteredForLess ==
  ASSUME NEW m, NEW n, NEW d, NEW a, NEW c, Filtered(m, d, a), n \subseteq m, a \subseteq c
  PROVE  Filtered(n, d, c)
  BY DEF Filtered

LEMMA FilteredAppend ==
  ASSUME NEW S, NEW d \in Seq(S), NEW e \in S, NEW m, NEW a,
         Filtered(m, d, a),
         e.type = "bu" /\ (m # {} \/ \E j \in DOMAIN d : d[j].type = "subscribed")
           => e.user \in a
  PROVE  Filtered(m, Append(d, e), a)
<1> DEFINE g == Append(d, e)
<1>1. /\ Len(d) \in Nat /\ DOMAIN d = 1 .. Len(d) /\ DOMAIN g = 1 .. Len(d) + 1
      /\ \A i \in 1 .. Len(d) : g[i] = d[i]
      /\ g[Len(d) + 1] = e
  BY AppendIs
<1> HIDE DEF g
<1> SUFFICES ASSUME NEW i \in DOMAIN g, g[i].type = "bu",
                    m # {} \/ \E j \in DOMAIN g : j < i /\ g[j].type = "subscribed"
             PROVE  g[i].user \in a
  BY DEF Filtered, g
<1>2. \A j \in DOMAIN g : j < i => j \in DOMAIN d /\ g[j] = d[j]
  BY <1>1
<1>3. CASE i \in DOMAIN d
  BY <1>1, <1>2, <1>3 DEF Filtered
<1>4. CASE i = Len(d) + 1
  BY <1>1, <1>2, <1>4
<1> QED BY <1>1, <1>3, <1>4

LEMMA FilteredTail ==
  ASSUME NEW S, NEW d \in Seq(S), d # <<>>, NEW m, NEW n, NEW a,
         Filtered(m, d, a),
         n # {} => m # {} \/ d[1].type = "subscribed"
  PROVE  Filtered(n, Tail(d), a)
<1> DEFINE g == Tail(d)
<1>1. /\ Len(d) \in Nat \ {0} /\ DOMAIN d = 1 .. Len(d) /\ DOMAIN g = 1 .. Len(d) - 1
      /\ \A i \in 1 .. Len(d) - 1 : g[i] = d[i + 1]
  BY TailIs
<1> HIDE DEF g
<1> SUFFICES ASSUME NEW i \in DOMAIN g, g[i].type = "bu",
                    n # {} \/ \E j \in DOMAIN g : j < i /\ g[j].type = "subscribed"
             PROVE  g[i].user \in a
  BY DEF Filtered, g
<1>2. i + 1 \in DOMAIN d /\ g[i] = d[i + 1] /\ 1 \in DOMAIN d /\ 1 < i + 1
  BY <1>1
<1>3. m # {} \/ \E k \in DOMAIN d : k < i + 1 /\ d[k].type = "subscribed"
  <2>1. CASE n # {}
    BY <1>2, <2>1
  <2>2. CASE \E j \in DOMAIN g : j < i /\ g[j].type = "subscribed"
    <3>1. PICK j \in DOMAIN g : j < i /\ g[j].type = "subscribed"
      BY <2>2
    <3>2. j + 1 \in DOMAIN d /\ j + 1 < i + 1 /\ d[j + 1] = g[j]
      BY <1>1, <3>1
    <3> QED BY <3>1, <3>2
  <2> QED BY <2>1, <2>2
<1> QED BY <1>2, <1>3 DEF Filtered

\* An update that does not count, or has the value, or is for another user.
LEMMA EndsWithAppend ==
  ASSUME NEW S, NEW d \in Seq(S), NEW e \in S, NEW m, NEW u, NEW v,
         EndsWith(m, d, u, v), ~IsNews(e, u)
  PROVE  EndsWith(m, Append(d, e), u, v) /\ (NoNews(Append(d, e), u) => NoNews(d, u))
<1> DEFINE g == Append(d, e)
<1>1. /\ Len(d) \in Nat /\ DOMAIN d = 1 .. Len(d) /\ DOMAIN g = 1 .. Len(d) + 1
      /\ \A i \in 1 .. Len(d) : g[i] = d[i]
      /\ g[Len(d) + 1] = e
  BY AppendIs
<1> HIDE DEF g
<1>2. ASSUME NEW i \in DOMAIN g, IsLast(g, i, u), Counted(m, g, i, u)
      PROVE  g[i].value = v
  <2>1. i \in DOMAIN d /\ g[i] = d[i]
    BY <1>1, <1>2 DEF IsLast
  <2>2. IsLast(d, i, u)
    BY <1>1, <1>2, <2>1 DEF IsLast
  <2>3. \A j \in DOMAIN g : j < i => j \in DOMAIN d /\ g[j] = d[j]
    BY <1>1
  <2>4. Counted(m, d, i, u)
    BY <1>2, <2>3 DEF Counted
  <2> QED BY <2>1, <2>2, <2>4 DEF EndsWith
<1>3. NoNews(g, u) => NoNews(d, u)
  BY <1>1 DEF NoNews
<1> QED BY <1>2, <1>3 DEF EndsWith, g

LEMMA EndsWithNews ==
  ASSUME NEW S, NEW d \in Seq(S), NEW e \in S, NEW m, NEW u, IsNews(e, u)
  PROVE  EndsWith(m, Append(d, e), u, e.value) /\ ~NoNews(Append(d, e), u)
<1> DEFINE g == Append(d, e)
<1>1. /\ Len(d) \in Nat /\ DOMAIN g = 1 .. Len(d) + 1 /\ g[Len(d) + 1] = e
  BY AppendIs
<1> HIDE DEF g
<1>2. \A i \in DOMAIN g : IsLast(g, i, u) => i = Len(d) + 1
  BY <1>1 DEF IsLast
<1> QED BY <1>1, <1>2 DEF EndsWith, NoNews, g

LEMMA EndsWithTail ==
  ASSUME NEW S, NEW d \in Seq(S), d # <<>>, NEW m, NEW n, NEW u, NEW v,
         EndsWith(m, d, u, v),
         u \in n => u \in m \/ (d[1].type = "subscribed" /\ d[1].user = u)
  PROVE  EndsWith(n, Tail(d), u, v)
<1> DEFINE g == Tail(d)
<1>1. /\ Len(d) \in Nat \ {0} /\ DOMAIN d = 1 .. Len(d) /\ DOMAIN g = 1 .. Len(d) - 1
      /\ \A i \in 1 .. Len(d) - 1 : g[i] = d[i + 1]
  BY TailIs
<1> HIDE DEF g
<1> SUFFICES ASSUME NEW i \in DOMAIN g, IsLast(g, i, u), Counted(n, g, i, u)
             PROVE  g[i].value = v
  BY DEF EndsWith, g
<1>2. i + 1 \in DOMAIN d /\ g[i] = d[i + 1] /\ 1 \in DOMAIN d /\ 1 < i + 1
  BY <1>1
<1>3. IsLast(d, i + 1, u)
  <2>1. \A k \in DOMAIN d : k > i + 1 => k - 1 \in DOMAIN g /\ k - 1 > i /\ g[k - 1] = d[k]
    BY <1>1
  <2> QED BY <1>2, <2>1 DEF IsLast
<1>4. Counted(m, d, i + 1, u)
  <2>1. CASE u \in n
    BY <1>2, <2>1 DEF Counted
  <2>2. CASE \E j \in DOMAIN g : j < i /\ g[j].type = "subscribed" /\ g[j].user = u
    <3>1. PICK j \in DOMAIN g : j < i /\ g[j].type = "subscribed" /\ g[j].user = u
      BY <2>2
    <3>2. j + 1 \in DOMAIN d /\ j + 1 < i + 1 /\ d[j + 1] = g[j]
      BY <1>1, <3>1
    <3> QED BY <3>1, <3>2 DEF Counted
  <2> QED BY <2>1, <2>2 DEF Counted
<1> QED BY <1>2, <1>3, <1>4 DEF EndsWith

\* The first frame of d was the last news there was, or there is none.
LEMMA NoNewsTail ==
  ASSUME NEW S, NEW d \in Seq(S), d # <<>>, NEW u, NoNews(Tail(d), u)
  PROVE  IF IsNews(d[1], u) THEN IsLast(d, 1, u) ELSE NoNews(d, u)
<1> DEFINE g == Tail(d)
<1>1. /\ Len(d) \in Nat \ {0} /\ DOMAIN d = 1 .. Len(d) /\ DOMAIN g = 1 .. Len(d) - 1
      /\ \A i \in 1 .. Len(d) - 1 : g[i] = d[i + 1]
  BY TailIs
<1>2. NoNews(g, u)
  OBVIOUS
<1> HIDE DEF g
<1>3. \A k \in DOMAIN d : k > 1 => k - 1 \in DOMAIN g /\ g[k - 1] = d[k]
  BY <1>1
<1>4. \A k \in DOMAIN d : k > 1 => ~IsNews(d[k], u)
  BY <1>2, <1>3 DEF NoNews
<1> QED BY <1>1, <1>4 DEF IsLast, NoNews

-----------------------------------------------------------------------------
(***************************************************************************)
(* What the variables hold.                                                *)
(***************************************************************************)
Jobs == [step : {"idle", "credited", "publish", "over"}, user : Users \cup {None}, value : Nat]
JobsTyped ==
  /\ balance \in [Users -> Nat \cup {None}] /\ taken \in [Users -> Nat]
  /\ job \in [Publishers -> Jobs]
  /\ \A p \in Publishers : job[p].step \in {"credited", "publish"} => job[p].user \in Users
ServerTyped ==
  /\ channel \in Seq(Published)
  /\ conn \in [Clients -> {"off", "open", "broken"}]
  /\ clients \subseteq {b \in Clients : conn[b] # "off"}
  /\ subscriptions \in [Clients -> SUBSET Users]
ClientTyped ==
  /\ up \in [Clients -> Seq(Messages)] /\ down \in [Clients -> Seq(Frames)]
  /\ mine \in [Clients -> SUBSET Users] /\ asked \in [Clients -> SUBSET Users]
  /\ view \in [Clients -> [Users -> Nat \cup {None}]]

LEMMA TypedIs == Typed <=> JobsTyped /\ ServerTyped /\ ClientTyped
<1>1. ASSUME JobsTyped, ServerTyped, ClientTyped PROVE Typed
  <2>1. \A i \in DOMAIN channel : channel[i] \in Frames
    <3>1. \A i \in DOMAIN channel : channel[i] \in Published
      BY <1>1, LenProperties, ElementOfSeq DEF ServerTyped
    <3> QED BY <3>1 DEF Published, Frames
  <2>2. ASSUME NEW b \in Clients
        PROVE  /\ \A i \in DOMAIN up[b] : up[b][i] \in Messages
               /\ \A i \in DOMAIN down[b] : down[b][i] \in Frames
    <3>1. up[b] \in Seq(Messages) /\ down[b] \in Seq(Frames)
      BY <1>1 DEF ClientTyped
    <3> QED BY <3>1, LenProperties, ElementOfSeq
  <2> QED BY <1>1, <2>1, <2>2 DEF Typed, TypeOK, JobsTyped, ServerTyped, ClientTyped, Jobs
<1>2. ASSUME Typed PROVE JobsTyped /\ ServerTyped /\ ClientTyped
  BY <1>2 DEF Typed, TypeOK, JobsTyped, ServerTyped, ClientTyped, Jobs
<1> QED BY <1>1, <1>2

LEMMA TypedIsNext == Typed' <=> JobsTyped' /\ ServerTyped' /\ ClientTyped'
BY TypedIs, PTL

LEMMA HeldIs == ASSUME JobsTyped, NEW u \in Users PROVE Held(u) \in Nat
BY DEF JobsTyped, Held

\* A publisher gets a new job.
LEMMA JobTyped ==
  ASSUME JobsTyped, NEW p \in Publishers, NEW new \in Jobs,
         new.step \in {"credited", "publish"} => new.user \in Users,
         job' = [job EXCEPT ![p] = new]
  PROVE  /\ job' \in [Publishers -> Jobs]
         /\ job'[p] = new
         /\ \A q \in Publishers \ {p} : job'[q] = job[q]
         /\ \A q \in Publishers :
              job'[q].step \in {"credited", "publish"} => job'[q].user \in Users
<1>1. job' \in [Publishers -> Jobs] /\ job'[p] = new /\ \A q \in Publishers \ {p} : job'[q] = job[q]
  BY DEF JobsTyped
<1> QED BY <1>1 DEF JobsTyped

LEMMA StartTyped ==
  ASSUME JobsTyped, NEW p \in Publishers, NEW u \in Users, NEW step \in {"credited", "publish"},
         NEW value \in Nat, Start(p, u, step, value)
  PROVE  /\ job' \in [Publishers -> Jobs]
         /\ job'[p] = [step |-> step, user |-> u, value |-> value]
         /\ \A q \in Publishers \ {p} : job'[q] = job[q]
         /\ \A q \in Publishers :
              job'[q].step \in {"credited", "publish"} => job'[q].user \in Users
<1> DEFINE new == [step |-> step, user |-> u, value |-> value]
<1>1. new \in Jobs /\ new.user = u
  BY DEF Jobs
<1>2. job' = [job EXCEPT ![p] = new]
  BY DEF Start
<1> HIDE DEF new
<1> QED BY <1>1, <1>2, JobTyped DEF new

\* What the three kinds of publishers have in common when they start.
Starts(p, u) ==
  \E amount \in Amounts :
    \/ p \in Sessions /\ Deposit(p, u, amount)
    \/ p \in Fulfilments /\ Credit(p, u, amount)
    \/ p \in Withdrawals /\ Withdraw(p, u, amount)

LEMMA StartsIs ==
  ASSUME JobsTyped, NEW p \in Publishers, NEW u \in Users, Starts(p, u)
  PROVE  \E step \in {"credited", "publish"}, value \in Nat :
           /\ Start(p, u, step, value)
           /\ balance' \in [Users -> Nat \cup {None}] /\ taken' \in [Users -> Nat]
           /\ \A w \in Users \ {u} : balance'[w] = balance[w] /\ taken'[w] = taken[w]
           /\ step = "publish" => value = Announced(u)'
<1>1. PICK amount \in Amounts :
        Deposit(p, u, amount) \/ Credit(p, u, amount) \/ Withdraw(p, u, amount)
  BY DEF Starts
<1>2. amount \in Nat /\ Held(u) \in Nat
  BY FeedAssumption, HeldIs
<1>3. CASE Deposit(p, u, amount)
  <2>1. balance'[u] = amount /\ taken'[u] = 0
    BY <1>3 DEF Deposit, JobsTyped
  <2>2. amount = Announced(u)'
    BY <1>2, <2>1, FeedAssumption DEF Announced, Held
  <2> QED BY <1>2, <1>3, <2>2 DEF Deposit, JobsTyped
<1>4. CASE Credit(p, u, amount)
  BY <1>2, <1>4 DEF Credit, JobsTyped
<1>5. CASE Withdraw(p, u, amount)
  <2>1. balance' = balance /\ taken'[u] = amount
    BY <1>5 DEF Withdraw, JobsTyped
  <2>2. Held(u) - amount \in Nat /\ Held(u) - amount = Announced(u)'
    BY <1>2, <1>5, <2>1 DEF Withdraw, Announced, Held
  <2> QED BY <1>2, <1>5, <2>2 DEF Withdraw, JobsTyped
<1> QED BY <1>1, <1>3, <1>4, <1>5

LEMMA StartsTyped ==
  ASSUME Typed, NEW p \in Publishers, NEW u \in Users, Starts(p, u)
  PROVE  Typed'
<1>1. JobsTyped /\ ServerTyped /\ ClientTyped
  BY TypedIs
<1>2. PICK step \in {"credited", "publish"}, value \in Nat :
        /\ Start(p, u, step, value)
        /\ balance' \in [Users -> Nat \cup {None}] /\ taken' \in [Users -> Nat]
  BY <1>1, StartsIs
<1>3. JobsTyped'
  BY <1>1, <1>2, StartTyped DEF JobsTyped
<1>4. ServerTyped' /\ ClientTyped'
  BY <1>1, <1>2 DEF Start, ServerTyped, ClientTyped, server, client
<1> QED BY <1>3, <1>4, TypedIsNext

LEMMA ReadIs ==
  ASSUME JobsTyped, NEW p \in Publishers, Read(p)
  PROVE  LET u == job[p].user
             new == [step |-> "publish", user |-> u, value |-> Held(u)]
         IN  /\ u \in Users /\ new \in Jobs
             /\ job' = [job EXCEPT ![p] = new]
             /\ taken' \in [Users -> Nat] /\ taken'[u] = 0
             /\ \A w \in Users \ {u} : taken'[w] = taken[w]
<1> DEFINE u == job[p].user
<1>1. u \in Users /\ Held(u) \in Nat
  BY HeldIs DEF Read, JobsTyped
<1>2. taken' = [taken EXCEPT ![u] = 0] /\ taken \in [Users -> Nat]
  BY DEF Read, JobsTyped
<1>3. job' = [job EXCEPT ![p] = [step |-> "publish", user |-> u, value |-> Held(u)]]
  BY DEF Read
<1> HIDE DEF u
<1>4. taken' \in [Users -> Nat] /\ taken'[u] = 0 /\ \A w \in Users \ {u} : taken'[w] = taken[w]
  BY <1>1, <1>2
<1>5. [step |-> "publish", user |-> u, value |-> Held(u)] \in Jobs
  BY <1>1 DEF Jobs
<1> QED BY <1>1, <1>3, <1>4, <1>5 DEF u

LEMMA ReadTyped ==
  ASSUME Typed, NEW p \in Publishers, Read(p)
  PROVE  Typed'
<1>1. JobsTyped /\ ServerTyped /\ ClientTyped
  BY TypedIs
<1> DEFINE new == [step |-> "publish", user |-> job[p].user, value |-> Held(job[p].user)]
<1>2. /\ new \in Jobs /\ new.user \in Users
      /\ job' = [job EXCEPT ![p] = new]
      /\ taken' \in [Users -> Nat]
  BY <1>1, ReadIs
<1> HIDE DEF new
<1>3. JobsTyped'
  BY <1>1, <1>2, JobTyped DEF JobsTyped, Read
<1>4. ServerTyped' /\ ClientTyped'
  BY <1>1 DEF Read, ServerTyped, ClientTyped, server, client
<1> QED BY <1>3, <1>4, TypedIsNext

LEMMA OverTyped ==
  ASSUME JobsTyped, NEW p \in Publishers, Over(p)
  PROVE  /\ job' \in [Publishers -> Jobs]
         /\ job'[p].step = "over"
         /\ \A q \in Publishers \ {p} : job'[q] = job[q]
         /\ \A q \in Publishers :
              job'[q].step \in {"credited", "publish"} => job'[q].user \in Users
<1> DEFINE new == [step |-> "over", user |-> None, value |-> 0]
<1>1. new \in Jobs /\ new.step = "over"
  BY DEF Jobs
<1>2. job' = [job EXCEPT ![p] = new]
  BY DEF Over
<1> HIDE DEF new
<1> QED BY <1>1, <1>2, JobTyped

LEMMA PublishTyped ==
  ASSUME Typed, NEW p \in Publishers, Publish(p) \/ Fail(p)
  PROVE  Typed'
<1>1. JobsTyped /\ ServerTyped /\ ClientTyped
  BY TypedIs
<1>2. JobsTyped'
  BY <1>1, OverTyped DEF JobsTyped, Publish, Fail
<1>3. channel' \in Seq(Published)
  <2>1. CASE Publish(p)
    <3>1. [type |-> "bu", user |-> job[p].user, value |-> job[p].value, by |-> p] \in Published
      BY <1>1, <2>1 DEF JobsTyped, Jobs, Published, Publish
    <3> QED BY <1>1, <2>1, <3>1, AppendIs DEF Publish, ServerTyped
  <2> QED BY <1>1, <2>1 DEF Fail, ServerTyped
<1>4. ServerTyped' /\ ClientTyped'
  BY <1>1, <1>3 DEF Publish, Fail, ServerTyped, ClientTyped, server, client
<1> QED BY <1>2, <1>4, TypedIsNext

LEMMA RouteTyped ==
  ASSUME Typed, Route \/ Unheard
  PROVE  Typed'
<1>1. JobsTyped /\ ServerTyped /\ ClientTyped
  BY TypedIs
<1>2. channel' \in Seq(Published)
  <2>1. CASE Route
    BY <1>1, <2>1, TailIs DEF ServerTyped, Route
  <2>2. CASE Unheard
    BY <2>2, Nothing DEF Unheard
  <2> QED BY <2>1, <2>2
<1>3. down' \in [Clients -> Seq(Frames)]
  <2>1. CASE Route
    <3>1. Head(channel) \in Frames
      BY <1>1, <2>1, TailIs DEF Published, Frames, ServerTyped, Route
    <3>2. \A b \in Clients : Append(down[b], Head(channel)) \in Seq(Frames)
      BY <1>1, <3>1, AppendIs DEF ClientTyped
    <3> QED BY <1>1, <2>1, <3>2 DEF Route, ClientTyped
  <2> QED BY <1>1, <2>1 DEF Unheard, client, ClientTyped
<1>4. JobsTyped' /\ ServerTyped' /\ ClientTyped'
  BY <1>1, <1>2, <1>3 DEF Route, Unheard, JobsTyped, ServerTyped, ClientTyped, server, client
<1> QED BY <1>4, TypedIsNext

LEMMA ConnectionTyped ==
  ASSUME Typed, NEW c \in Clients, Open(c) \/ Break(c) \/ OnError(c) \/ OnClose(c)
  PROVE  Typed'
<1>1. JobsTyped /\ ServerTyped /\ ClientTyped
  BY TypedIs
<1>2. ServerTyped'
  BY <1>1 DEF ServerTyped, Open, Break, OnError, OnClose, server
<1>3. ClientTyped'
  <2>1. << >> \in Seq(Messages) /\ << >> \in Seq(Frames)
    BY Nothing
  <2>2. [u \in Users |-> None] \in [Users -> Nat \cup {None}]
    OBVIOUS
  <2>3. CASE Open(c)
    BY <1>1, <2>3 DEF ClientTyped, Open, client
  <2>4. CASE OnClose(c)
    BY <1>1, <2>1, <2>4 DEF ClientTyped, OnClose
  <2>5. CASE Break(c) \/ OnError(c)
    <3>1. Forget(c) /\ up' = up
      BY <2>5 DEF Break, OnError
    <3>2. down' \in [Clients -> Seq(Frames)]
      BY <1>1, <2>1, <3>1 DEF ClientTyped, Forget
    <3>3. /\ mine' \in [Clients -> SUBSET Users] /\ asked' \in [Clients -> SUBSET Users]
          /\ view' \in [Clients -> [Users -> Nat \cup {None}]]
      BY <1>1, <2>2, <3>1 DEF ClientTyped, Forget
    <3> QED BY <1>1, <3>1, <3>2, <3>3 DEF ClientTyped
  <2> QED BY <2>3, <2>4, <2>5
<1>4. JobsTyped'
  BY <1>1 DEF JobsTyped, Open, Break, OnError, OnClose
<1> QED BY <1>2, <1>3, <1>4, TypedIsNext

LEMMA ReplyIs ==
  ASSUME NEW m \in Messages
  PROVE  /\ Reply(m) \in Frames /\ Reply(m).user = m.user
         /\ Reply(m).type # "bu"
         /\ Reply(m).type = "subscribed" <=> m.type = "subscribe"
         /\ m.type = "subscribe" => m.user \in Users
         /\ m.type = "unsubscribe" => m.user \in Users
         /\ \A s \in SUBSET Users : Subscribed(s, m) \in SUBSET Users
  BY DEF Messages, Frames, Reply, Subscribed

LEMMA HandleTyped ==
  ASSUME Typed, NEW c \in Clients, HandleClientMessage(c)
  PROVE  Typed'
<1>1. JobsTyped /\ ServerTyped /\ ClientTyped
  BY TypedIs
<1>2. Head(up[c]) \in Messages /\ Tail(up[c]) \in Seq(Messages)
  BY <1>1, TailIs DEF ClientTyped, HandleClientMessage
<1>3. down' \in [Clients -> Seq(Frames)] /\ subscriptions' \in [Clients -> SUBSET Users]
  <2>1. Append(down[c], Reply(Head(up[c]))) \in Seq(Frames)
    BY <1>1, <1>2, ReplyIs, AppendIs DEF ClientTyped
  <2>2. Subscribed(subscriptions[c], Head(up[c])) \in SUBSET Users
    BY <1>1, <1>2, ReplyIs DEF ServerTyped
  <2> QED BY <1>1, <2>1, <2>2 DEF HandleClientMessage, Transmit, ClientTyped, ServerTyped
<1>4. up' \in [Clients -> Seq(Messages)]
  BY <1>1, <1>2 DEF HandleClientMessage, ClientTyped
<1>5. JobsTyped' /\ ServerTyped' /\ ClientTyped'
  BY <1>1, <1>3, <1>4 DEF HandleClientMessage, JobsTyped, ServerTyped, ClientTyped
<1> QED BY <1>5, TypedIsNext

LEMMA SayTyped ==
  ASSUME Typed, NEW c \in Clients, NEW m \in Messages, Say(c, m)
  PROVE  Typed'
<1>1. JobsTyped /\ ServerTyped /\ ClientTyped
  BY TypedIs
<1>2. up' \in [Clients -> Seq(Messages)]
  BY <1>1, AppendIs DEF ClientTyped, Say
<1>3. asked' \in [Clients -> SUBSET Users] /\ mine' \in [Clients -> SUBSET Users]
  <2>1. m.type = "subscribe" => asked[c] \cup {m.user} \in SUBSET Users
    BY <1>1, ReplyIs DEF ClientTyped
  <2>2. mine[c] \ {m.user} \in SUBSET Users
    BY <1>1 DEF ClientTyped
  <2> QED BY <1>1, <2>1, <2>2 DEF ClientTyped, Say, Lose
<1>4. view' \in [Clients -> [Users -> Nat \cup {None}]]
  <2>1. view[c] \in [Users -> Nat \cup {None}]
    BY <1>1 DEF ClientTyped
  <2> DEFINE new == [view[c] EXCEPT ![m.user] = None]
  <2>2. new \in [Users -> Nat \cup {None}]
    BY <2>1
  <2>3. view' = view \/ view' = [view EXCEPT ![c] = new]
    BY <1>1 DEF Say, Lose, ClientTyped
  <2> HIDE DEF new
  <2> QED BY <1>1, <2>2, <2>3 DEF ClientTyped
<1>5. JobsTyped' /\ ServerTyped' /\ ClientTyped'
  BY <1>1, <1>2, <1>3, <1>4 DEF Say, JobsTyped, ServerTyped, ClientTyped, server
<1> QED BY <1>5, TypedIsNext

LEMMA ReceiveTyped ==
  ASSUME IInv, NEW c \in Clients, Receive(c)
  PROVE  Typed'
<1>1. JobsTyped /\ ServerTyped /\ ClientTyped
  BY TypedIs DEF IInv
<1>2. /\ Head(down[c]) \in Frames /\ Head(down[c]) = down[c][1] /\ 1 \in DOMAIN down[c]
      /\ Tail(down[c]) \in Seq(Frames)
  BY <1>1, TailIs DEF ClientTyped, Receive
<1>3. Head(down[c]).type = "subscribed" => Head(down[c]).user \in Users
  <2>1. ClientInv(c) /\ conn[c] = "open"
    BY DEF IInv, ClientInv, OneAtATime, Receive
  <2> QED BY <1>1, <1>2, <2>1 DEF ClientInv, Confirmed, Granted, ServerTyped
<1>4. down' \in [Clients -> Seq(Frames)]
  BY <1>1, <1>2 DEF ClientTyped, Receive
<1>5. mine' \in [Clients -> SUBSET Users]
  <2> DEFINE f == Head(down[c])
             new == mine[c] \cup {f.user}
  <2>1. mine' = mine \/ (f.type = "subscribed" /\ mine' = [mine EXCEPT ![c] = new])
    BY DEF Receive
  <2>2. f.type = "subscribed" => new \in SUBSET Users
    BY <1>1, <1>3 DEF ClientTyped
  <2> HIDE DEF new, f
  <2> QED BY <1>1, <2>1, <2>2 DEF ClientTyped
<1>6. view' \in [Clients -> [Users -> Nat \cup {None}]]
  <2> DEFINE f == Head(down[c])
  <2>1. f.type = "bu" => f.value \in Nat
    BY <1>2 DEF Frames
  <2>2. f \in Frames
    BY <1>2
  <2> HIDE DEF f
  <2>3. view[c] \in [Users -> Nat \cup {None}]
    BY <1>1 DEF ClientTyped
  <2>4. CASE f.type = "bu" /\ f.user \in mine[c]
    <3>1. view' = [view EXCEPT ![c][f.user] = f.value]
      BY <2>4 DEF Receive, f
    <3> QED BY <1>1, <2>1, <2>3, <2>4, <3>1 DEF ClientTyped
  <2>5. CASE f.type = "subscribed"
    <3>1. view' = [view EXCEPT ![c][f.user] = IF f.user \in mine[c] THEN @ ELSE None]
      BY <2>5 DEF Receive, f
    <3>2. f.user \in Users
      BY <1>3, <2>5 DEF f
    <3> QED BY <1>1, <2>3, <3>1, <3>2 DEF ClientTyped
  <2>6. CASE ~(f.type = "bu" /\ f.user \in mine[c]) /\ f.type # "subscribed"
    BY <1>1, <2>6 DEF Receive, f, ClientTyped
  <2> QED BY <2>4, <2>5, <2>6
<1>7. JobsTyped' /\ ServerTyped' /\ ClientTyped'
  BY <1>1, <1>4, <1>5, <1>6 DEF Receive, JobsTyped, ServerTyped, ClientTyped, server
<1> QED BY <1>7, TypedIsNext

LEMMA NextTyped ==
  ASSUME IInv, Next
  PROVE  Typed'
<1>0. Typed
  BY DEF IInv
<1>1. ASSUME NEW p \in Publishers, NEW u \in Users, Starts(p, u) PROVE Typed'
  BY <1>0, <1>1, StartsTyped
<1>2. ASSUME NEW p \in Publishers, Read(p) \/ Publish(p) \/ Fail(p) PROVE Typed'
  BY <1>0, <1>2, ReadTyped, PublishTyped
<1>3. ASSUME Route \/ Unheard PROVE Typed'
  BY <1>0, <1>3, RouteTyped
<1>4. ASSUME NEW c \in Clients, Open(c) \/ Break(c) \/ OnError(c) \/ OnClose(c) PROVE Typed'
  BY <1>0, <1>4, ConnectionTyped
<1>5. ASSUME NEW c \in Clients, HandleClientMessage(c) PROVE Typed'
  BY <1>0, <1>5, HandleTyped
<1>6. ASSUME NEW c \in Clients, Receive(c) PROVE Typed'
  BY <1>6, ReceiveTyped
<1>7. ASSUME NEW c \in Clients, NEW m \in Messages, Say(c, m) PROVE Typed'
  BY <1>0, <1>7, SayTyped
<1> QED BY <1>1, <1>2, <1>3, <1>4, <1>5, <1>6, <1>7 DEF Next, Starts, Publishers

-----------------------------------------------------------------------------
(***************************************************************************)
(* One client.                                                             *)
(***************************************************************************)
At(c) ==
  \/ Open(c) \/ Break(c) \/ OnError(c) \/ OnClose(c)
  \/ HandleClientMessage(c) \/ Receive(c)
  \/ \E m \in Messages : Say(c, m)

LEMMA NextIs ==
  Next <=> \/ \E p \in Publishers, u \in Users : Starts(p, u)
           \/ \E p \in Publishers : Read(p) \/ Publish(p) \/ Fail(p)
           \/ Route \/ Unheard
           \/ \E c \in Clients : At(c)
BY DEF Next, At, Starts, Publishers

\* What happens at one client does not concern the others.
LEMMA Elsewhere ==
  ASSUME Typed, NEW c \in Clients, At(c), NEW b \in Clients \ {c}
  PROVE  /\ conn'[b] = conn[b] /\ (b \in clients' <=> b \in clients)
         /\ subscriptions'[b] = subscriptions[b]
         /\ up'[b] = up[b] /\ down'[b] = down[b]
         /\ mine'[b] = mine[b] /\ asked'[b] = asked[b] /\ view'[b] = view[b]
<1>1. ServerTyped /\ ClientTyped
  BY TypedIs
<1>2. CASE Open(c)
  BY <1>1, <1>2 DEF Open, client, ServerTyped
<1>3. CASE Break(c)
  BY <1>1, <1>3 DEF Break, Forget, server, ServerTyped, ClientTyped
<1>4. CASE OnError(c)
  BY <1>1, <1>4 DEF OnError, Forget, ServerTyped, ClientTyped
<1>5. CASE OnClose(c)
  BY <1>1, <1>5 DEF OnClose, ServerTyped, ClientTyped
<1>6. CASE HandleClientMessage(c)
  BY <1>1, <1>6 DEF HandleClientMessage, Transmit, ServerTyped, ClientTyped
<1>7. CASE Receive(c)
  <2> DEFINE f == Head(down[c])
  <2>1. down'[b] = down[b]
    BY <1>1, <1>7 DEF Receive, ClientTyped
  <2>2. CASE f.type = "bu" /\ f.user \in mine[c]
    BY <1>1, <1>7, <2>1, <2>2 DEF Receive, server, ClientTyped
  <2>3. CASE f.type = "subscribed"
    BY <1>1, <1>7, <2>1, <2>3 DEF Receive, server, ClientTyped
  <2>4. CASE ~(f.type = "bu" /\ f.user \in mine[c]) /\ f.type # "subscribed"
    BY <1>1, <1>7, <2>1, <2>4 DEF Receive, server, ClientTyped
  <2> QED BY <2>2, <2>3, <2>4
<1>8. ASSUME NEW m \in Messages, Say(c, m)
      PROVE  /\ conn'[b] = conn[b] /\ (b \in clients' <=> b \in clients)
             /\ subscriptions'[b] = subscriptions[b]
             /\ up'[b] = up[b] /\ down'[b] = down[b]
             /\ mine'[b] = mine[b] /\ asked'[b] = asked[b] /\ view'[b] = view[b]
  BY <1>1, <1>8 DEF Say, Lose, server, ClientTyped
<1> QED BY <1>2, <1>3, <1>4, <1>5, <1>6, <1>7, <1>8 DEF At

LEMMA SameClient ==
  ASSUME NEW b \in Clients, ClientInv(b),
         conn'[b] = conn[b], b \in clients' <=> b \in clients,
         subscriptions'[b] = subscriptions[b],
         up'[b] = up[b], down'[b] = down[b], mine'[b] = mine[b], asked'[b] = asked[b]
  PROVE  ClientInv(b)'
BY DEF ClientInv, OneAtATime, Confirmed

\* A frame that is not the confirmation of another subscription.
LEMMA GrantedAppend ==
  ASSUME NEW S, NEW d \in Seq(S), NEW e \in S, NEW s, Granted(d, s),
         e.type = "subscribed" => e.user \in s
  PROVE  Granted(Append(d, e), s)
<1> DEFINE g == Append(d, e)
<1>1. /\ Len(d) \in Nat /\ DOMAIN d = 1 .. Len(d) /\ DOMAIN g = 1 .. Len(d) + 1
      /\ \A i \in 1 .. Len(d) : g[i] = d[i]
      /\ g[Len(d) + 1] = e
  BY AppendIs
<1> HIDE DEF g
<1> QED BY <1>1 DEF Granted, g

LEMMA GrantedTail ==
  ASSUME NEW S, NEW d \in Seq(S), d # <<>>, NEW s, Granted(d, s)
  PROVE  Granted(Tail(d), s)
BY TailIs DEF Granted

LEMMA RouteClient ==
  ASSUME IInv, Route, NEW b \in Clients
  PROVE  ClientInv(b)'
<1> DEFINE bu == Head(channel)
<1>1. ServerTyped /\ ClientTyped /\ ClientInv(b)
  BY TypedIs DEF IInv
<1>2. bu \in Frames /\ bu.type = "bu"
  <2>1. bu \in Published
    BY <1>1, TailIs DEF ServerTyped, Route
  <2> QED BY <2>1 DEF Published, Frames
<1>3. /\ conn'[b] = conn[b] /\ clients' = clients /\ subscriptions'[b] = subscriptions[b]
      /\ up'[b] = up[b] /\ mine'[b] = mine[b] /\ asked'[b] = asked[b]
  BY DEF Route, server
<1>4. down'[b] = IF b \in Routed(bu) THEN Append(down[b], bu) ELSE down[b]
  BY DEF Route
<1> HIDE DEF bu
<1>5. CASE b \notin Routed(bu)
  BY <1>1, <1>3, <1>4, <1>5, SameClient
<1>6. CASE b \in Routed(bu)
  <2>1. /\ conn[b] = "open" /\ down'[b] = Append(down[b], bu)
        /\ subscriptions[b] = {} \/ bu.user \in subscriptions[b]
    BY <1>4, <1>6 DEF Routed
  <2>2. down[b] \in Seq(Frames)
    BY <1>1 DEF ClientTyped
  <2>3. OneAtATime(b)'
    <3>1. ASSUME up[b] # <<>>, NEW i \in DOMAIN down'[b] PROVE down'[b][i].type = "bu"
      BY <1>1, <1>2, <2>1, <2>2, <3>1, AppendIs DEF ClientInv, OneAtATime
    <3> QED BY <1>1, <1>3, <2>1, <3>1 DEF ClientInv, OneAtATime
  <2>4. Confirmed(b)'
    <3>1. Granted(down'[b], subscriptions[b])
      BY <1>1, <1>2, <2>1, <2>2, GrantedAppend DEF ClientInv, Confirmed
    <3> QED BY <1>1, <1>3, <2>1, <3>1 DEF ClientInv, Confirmed
  <2>5. Filtered(mine[b], down'[b], asked[b])
    <3>1. ASSUME mine[b] # {} \/ \E j \in DOMAIN down[b] : down[b][j].type = "subscribed"
          PROVE  bu.user \in asked[b]
      BY <1>1, <2>1, <3>1 DEF ClientInv, Confirmed, Granted
    <3> QED BY <1>1, <1>2, <2>1, <2>2, <3>1, FilteredAppend DEF ClientInv
  <2> QED BY <1>3, <2>3, <2>4, <2>5 DEF ClientInv
<1> QED BY <1>5, <1>6

LEMMA ConnectionClient ==
  ASSUME IInv, NEW c \in Clients, Open(c) \/ Break(c) \/ OnError(c) \/ OnClose(c)
  PROVE  ClientInv(c)'
<1>1. ServerTyped /\ ClientTyped /\ ClientInv(c)
  BY TypedIs DEF IInv
<1>2. CASE Open(c)
  <2>1. /\ conn'[c] = "open" /\ c \in clients' /\ subscriptions'[c] = {}
        /\ up'[c] = <<>> /\ down'[c] = <<>> /\ mine'[c] = {} /\ asked'[c] = {}
    BY <1>1, <1>2 DEF Open, client, ServerTyped, ClientInv, OneAtATime
  <2> QED BY <2>1, Nothing DEF ClientInv, OneAtATime, Confirmed, Granted, Filtered
<1>3. CASE Break(c) \/ OnError(c)
  <2>1. /\ conn'[c] = "broken" /\ up'[c] = up[c]
        /\ down'[c] = <<>> /\ mine'[c] = {} /\ asked'[c] = {}
    BY <1>1, <1>3 DEF Break, OnError, Forget, ServerTyped, ClientTyped
  <2> QED BY <1>1, <2>1, Nothing DEF ClientInv, OneAtATime, Confirmed, Filtered
<1>4. CASE OnClose(c)
  <2>1. /\ conn'[c] = "off" /\ up'[c] = <<>>
        /\ down'[c] = <<>> /\ mine'[c] = {} /\ asked'[c] = {}
    BY <1>1, <1>4 DEF OnClose, ServerTyped, ClientTyped, ClientInv, OneAtATime
  <2> QED BY <2>1, Nothing DEF ClientInv, OneAtATime, Confirmed, Filtered
<1> QED BY <1>2, <1>3, <1>4

LEMMA HandleClient ==
  ASSUME IInv, NEW c \in Clients, HandleClientMessage(c)
  PROVE  ClientInv(c)'
<1> DEFINE m == Head(up[c])
<1>1. ServerTyped /\ ClientTyped /\ ClientInv(c)
  BY TypedIs DEF IInv
<1>2. up[c] \in Seq(Messages) /\ down[c] \in Seq(Frames) /\ up[c] # <<>>
  BY <1>1 DEF ClientTyped, HandleClientMessage
<1>3. m \in Messages /\ Tail(up[c]) = <<>>
  <2>1. /\ m \in Messages /\ Tail(up[c]) \in Seq(Messages)
        /\ Len(up[c]) \in Nat \ {0} /\ Len(Tail(up[c])) = Len(up[c]) - 1
    BY <1>2, TailIs
  <2>2. Len(up[c]) <= 1
    BY <1>1 DEF ClientInv, OneAtATime
  <2>3. Len(Tail(up[c])) = 0
    <3>1. \A n \in Nat \ {0} : n <= 1 => n - 1 = 0
      OBVIOUS
    <3> QED BY <2>1, <2>2, <3>1
  <2> QED BY <2>1, <2>3, EmptySeq
<1>4. /\ conn'[c] = conn[c] /\ clients' = clients /\ up'[c] = <<>>
      /\ mine'[c] = mine[c] /\ asked'[c] = asked[c]
  BY <1>1, <1>3 DEF HandleClientMessage, ClientTyped
<1>5. CASE conn[c] # "open"
  <2>1. down'[c] = down[c]
    BY <1>1, <1>5 DEF HandleClientMessage, Transmit
  <2> QED BY <1>1, <1>4, <1>5, <2>1, Nothing DEF ClientInv, OneAtATime, Confirmed
<1>6. CASE conn[c] = "open"
  <2>1. /\ down'[c] = Append(down[c], Reply(m))
        /\ subscriptions'[c] = Subscribed(subscriptions[c], m)
    BY <1>1, <1>6 DEF HandleClientMessage, Transmit, ClientInv, OneAtATime, ServerTyped, ClientTyped
  <2>2. \A i \in DOMAIN down[c] : down[c][i].type = "bu"
    BY <1>1, <1>2 DEF ClientInv, OneAtATime
  <2> HIDE DEF m
  <2>3. OneAtATime(c)'
    BY <1>1, <1>4, <1>6, Nothing DEF ClientInv, OneAtATime
  <2>4. mine[c] \subseteq subscriptions'[c] /\ subscriptions'[c] \subseteq asked[c]
    BY <1>1, <1>2, <1>6, <2>1 DEF m, ClientInv, Confirmed, Subscribed
  <2>5. Granted(down'[c], subscriptions'[c])
    <3>1. Granted(down[c], subscriptions'[c])
      BY <2>2 DEF Granted
    <3>2. Reply(m).type = "subscribed" => Reply(m).user \in subscriptions'[c]
      BY <1>3, <2>1, ReplyIs DEF Subscribed
    <3> QED BY <1>2, <1>3, <2>1, <3>1, <3>2, ReplyIs, GrantedAppend
  <2>6. Filtered(mine[c], down'[c], asked[c])
    BY <1>1, <1>2, <1>3, <2>1, ReplyIs, FilteredAppend DEF ClientInv
  <2> QED BY <1>4, <2>3, <2>4, <2>5, <2>6 DEF ClientInv, Confirmed
<1> QED BY <1>5, <1>6

LEMMA SayClient ==
  ASSUME IInv, NEW c \in Clients, NEW m \in Messages, Say(c, m)
  PROVE  ClientInv(c)'
<1>1. ServerTyped /\ ClientTyped /\ ClientInv(c)
  BY TypedIs DEF IInv
<1>2. up[c] = <<>> /\ \A i \in DOMAIN down[c] : down[c][i].type = "bu"
  BY DEF Say, Waits
<1>3. up'[c] = <<m>>
  BY <1>1, <1>2 DEF Say, ClientTyped
<1>4. /\ conn[c] = "open" /\ conn'[c] = "open" /\ clients' = clients
      /\ down'[c] = down[c] /\ subscriptions'[c] = subscriptions[c]
      /\ asked[c] \subseteq asked'[c] /\ mine'[c] \subseteq mine[c]
      /\ m.type = "subscribe" => m.user \in asked'[c]
      /\ m.type = "unsubscribe" => m.user \notin mine'[c]
  BY <1>1 DEF Say, Lose, server, ClientTyped
<1>5. <<m>> # << >> /\ Len(<<m>>) = 1 /\ Head(<<m>>) = m
  OBVIOUS
<1>6. OneAtATime(c)'
  BY <1>1, <1>2, <1>3, <1>4, <1>5 DEF ClientInv, OneAtATime
<1>7. Confirmed(c)'
  BY <1>1, <1>3, <1>4, <1>5 DEF ClientInv, Confirmed
<1>8. Filtered(mine'[c], down'[c], asked'[c])
  BY <1>1, <1>4, FilteredForLess DEF ClientInv
<1> QED BY <1>6, <1>7, <1>8 DEF ClientInv

\* What one frame does to what the client has.
LEMMA ReceiveAt ==
  ASSUME IInv, NEW c \in Clients, Receive(c)
  PROVE  /\ conn'[c] = conn[c] /\ conn[c] = "open" /\ clients' = clients
         /\ subscriptions'[c] = subscriptions[c]
         /\ up'[c] = up[c] /\ asked'[c] = asked[c]
         /\ down[c] \in Seq(Frames) /\ down[c] # <<>>
         /\ down[c][1] \in Frames /\ 1 \in DOMAIN down[c]
         /\ down'[c] = Tail(down[c])
         /\ mine'[c] = IF down[c][1].type = "subscribed"
                         THEN mine[c] \cup {down[c][1].user} ELSE mine[c]
         /\ \A u \in Users : u \in mine'[c] =>
              view'[c][u] = IF IsNews(down[c][1], u) THEN down[c][1].value
                              ELSE IF u \in mine[c] THEN view[c][u] ELSE None
<1> DEFINE f == down[c][1]
<1>1. ServerTyped /\ ClientTyped /\ ClientInv(c)
  BY TypedIs DEF IInv
<1>2. down[c] \in Seq(Frames) /\ down[c] # <<>> /\ f \in Frames /\ Head(down[c]) = f
      /\ 1 \in DOMAIN down[c]
  BY <1>1, TailIs DEF ClientTyped, Receive
<1>3. conn[c] = "open"
  BY <1>1, <1>2 DEF ClientInv, OneAtATime
<1>4. conn' = conn /\ clients' = clients /\ subscriptions' = subscriptions /\ up' = up
      /\ asked' = asked
  BY DEF Receive, server
<1>5. down'[c] = Tail(down[c])
  BY <1>1 DEF Receive, ClientTyped
<1>6. view[c] \in [Users -> Nat \cup {None}] /\ mine[c] \in SUBSET Users
  BY <1>1 DEF ClientTyped
<1> HIDE DEF f
<1>7. CASE f.type = "bu" /\ f.user \in mine[c]
  <2>1. view' = [view EXCEPT ![c][f.user] = f.value] /\ mine' = mine
    BY <1>2, <1>7 DEF Receive
  <2>2. \A u \in Users : view'[c][u] = IF u = f.user THEN f.value ELSE view[c][u]
    BY <1>1, <1>6, <2>1 DEF ClientTyped
  <2> QED BY <1>2, <1>3, <1>4, <1>5, <1>7, <2>1, <2>2 DEF f, IsNews
<1>8. CASE f.type = "subscribed"
  <2>1. /\ mine' = [mine EXCEPT ![c] = @ \cup {f.user}]
        /\ view' = [view EXCEPT ![c][f.user] = IF f.user \in mine[c] THEN @ ELSE None]
    BY <1>2, <1>8 DEF Receive
  <2>2. mine'[c] = mine[c] \cup {f.user}
    BY <1>1, <2>1 DEF ClientTyped
  <2>3. \A u \in Users : u \in mine'[c] =>
          view'[c][u] = IF u \in mine[c] THEN view[c][u] ELSE None
    BY <1>1, <1>6, <2>1, <2>2 DEF ClientTyped
  <2> QED BY <1>2, <1>3, <1>4, <1>5, <1>8, <2>2, <2>3 DEF f, IsNews
<1>9. CASE ~(f.type = "bu" /\ f.user \in mine[c]) /\ f.type # "subscribed"
  <2>1. view' = view /\ mine' = mine
    BY <1>2, <1>9 DEF Receive
  <2> QED BY <1>2, <1>3, <1>4, <1>5, <1>9, <2>1 DEF f, IsNews
<1> QED BY <1>7, <1>8, <1>9

LEMMA ReceiveClient ==
  ASSUME IInv, NEW c \in Clients, Receive(c)
  PROVE  ClientInv(c)'
<1> DEFINE d == down[c]
           f == down[c][1]
<1>1. ClientInv(c)
  BY DEF IInv
<1>2. /\ conn'[c] = conn[c] /\ conn[c] = "open" /\ clients' = clients
      /\ subscriptions'[c] = subscriptions[c]
      /\ up'[c] = up[c] /\ asked'[c] = asked[c]
      /\ d \in Seq(Frames) /\ d # <<>> /\ 1 \in DOMAIN d
      /\ down'[c] = Tail(d)
      /\ mine'[c] = IF f.type = "subscribed" THEN mine[c] \cup {f.user} ELSE mine[c]
  BY ReceiveAt
<1>3. f.type = "subscribed" => f.user \in subscriptions[c] /\ up[c] = <<>>
  BY <1>1, <1>2 DEF ClientInv, OneAtATime, Confirmed, Granted
<1>4. OneAtATime(c)'
  BY <1>1, <1>2, TailIs DEF ClientInv, OneAtATime
<1>5. Confirmed(c)'
  <2>1. Granted(Tail(d), subscriptions[c])
    BY <1>1, <1>2, GrantedTail DEF ClientInv, Confirmed
  <2> QED BY <1>1, <1>2, <1>3, <2>1 DEF ClientInv, Confirmed
<1>6. Filtered(mine'[c], Tail(d), asked[c])
  BY <1>1, <1>2, FilteredTail DEF ClientInv
<1> QED BY <1>2, <1>4, <1>5, <1>6 DEF ClientInv

LEMMA NextClient ==
  ASSUME IInv, Next, NEW b \in Clients
  PROVE  ClientInv(b)'
<1>1. Typed /\ ClientInv(b)
  BY DEF IInv
<1>2. ASSUME NEW p \in Publishers, NEW u \in Users, Starts(p, u)
      PROVE  ClientInv(b)'
  BY <1>1, <1>2, SameClient DEF Starts, Deposit, Credit, Withdraw, Start, server, client
<1>3. ASSUME NEW p \in Publishers, Read(p) \/ Publish(p) \/ Fail(p) PROVE ClientInv(b)'
  BY <1>1, <1>3, SameClient DEF Read, Publish, Fail, server, client
<1>4. ASSUME Route \/ Unheard PROVE ClientInv(b)'
  BY <1>1, <1>4, RouteClient, SameClient DEF Unheard, server, client
<1>5. ASSUME NEW c \in Clients, At(c) PROVE ClientInv(b)'
  <2>1. CASE b # c
    BY <1>1, <1>5, <2>1, Elsewhere, SameClient
  <2>2. CASE b = c
    BY <1>5, <2>2, ConnectionClient, HandleClient, SayClient, ReceiveClient DEF At
  <2> QED BY <2>1, <2>2
<1> QED BY <1>2, <1>3, <1>4, <1>5, NextIs

-----------------------------------------------------------------------------
(***************************************************************************)
(* The value of one user on its way.                                       *)
(***************************************************************************)

\* Another publisher starts, with user u or with another.
LEMMA StartInSequence ==
  ASSUME IInv, NEW p \in Publishers, NEW w \in Users, Starts(p, w),
         NEW u \in Users \ blurred'
  PROVE  Alone(u)' /\ Fresh(u)'
<1>1. JobsTyped
  BY TypedIs DEF IInv
<1>2. PICK step \in {"credited", "publish"}, value \in Nat :
        /\ Start(p, w, step, value)
        /\ \A x \in Users \ {w} : balance'[x] = balance[x] /\ taken'[x] = taken[x]
        /\ step = "publish" => value = Announced(w)'
  BY <1>1, StartsIs
<1>3. /\ job'[p] = [step |-> step, user |-> w, value |-> value]
      /\ \A q \in Publishers \ {p} : job'[q] = job[q]
      /\ job[p].step = "idle"
  BY <1>1, <1>2, StartTyped DEF Start
<1>4. IF u = w THEN \A q \in Publishers : ~Active(q, u) ELSE u \notin blurred
  BY <1>2 DEF Start
<1>5. \A q \in Publishers : Active(q, u)' <=> IF q = p THEN u = w ELSE Active(q, u)
  BY <1>3 DEF Active
<1>6. \A q \in Publishers : Publishes(q, u) => Active(q, u)
  BY DEF Publishes, Active
<1>7. \A q \in Publishers : Publishes(q, u)' =>
        IF q = p THEN step = "publish" /\ u = w ELSE Publishes(q, u)
  BY <1>3 DEF Publishes
<1>8. CASE u = w
  <2>1. \A q \in Publishers : Publishes(q, u)' => job'[q].value = Announced(u)'
    BY <1>2, <1>3, <1>4, <1>6, <1>7, <1>8
  <2>2. Alone(u)'
    BY <1>4, <1>5, <1>8, <2>1 DEF Alone
  <2>3. Fresh(u)'
    BY <1>5, <1>8 DEF Fresh
  <2> QED BY <2>2, <2>3
<1>9. CASE u # w
  <2>1. Alone(u) /\ Fresh(u)
    BY <1>4, <1>9 DEF IInv, InSequence
  <2>2. Announced(u)' = Announced(u)
    BY <1>2, <1>9 DEF Announced, Held
  <2>3. ~Active(p, u)
    BY <1>3 DEF Active
  <2>4. \A q \in Publishers : Active(q, u)' <=> Active(q, u)
    BY <1>5, <1>9, <2>3
  <2>5. \A q \in Publishers : Publishes(q, u)' => Publishes(q, u) /\ job'[q] = job[q]
    BY <1>3, <1>7, <1>9
  <2>6. Alone(u)'
    BY <2>1, <2>2, <2>4, <2>5 DEF Alone
  <2>7. channel' = channel /\ down' = down /\ mine' = mine /\ view' = view
    BY <1>2 DEF Start, client
  <2>8. \A b \in Clients : Shown(b, u) => Shown(b, u)'
    BY <2>2, <2>7 DEF Shown
  <2>9. Fresh(u)'
    BY <2>1, <2>2, <2>4, <2>7, <2>8 DEF Fresh
  <2> QED BY <2>6, <2>9
<1> QED BY <1>8, <1>9

\* fulfillIntent reads the balance.
LEMMA ReadInSequence ==
  ASSUME IInv, NEW p \in Publishers, Read(p), NEW u \in Users \ blurred'
  PROVE  Alone(u)' /\ Fresh(u)'
<1> DEFINE w == job[p].user
           new == [step |-> "publish", user |-> w, value |-> Held(w)]
<1>1. JobsTyped
  BY TypedIs DEF IInv
<1>2. /\ w \in Users /\ new \in Jobs
      /\ job' = [job EXCEPT ![p] = new]
      /\ taken'[w] = 0 /\ \A x \in Users \ {w} : taken'[x] = taken[x]
  BY <1>1, ReadIs
<1>3. /\ new.step = "publish" /\ new.user = w /\ new.value = Held(w)
      /\ job[p].step = "credited" /\ balance' = balance /\ u \notin blurred
      /\ channel' = channel /\ down' = down /\ mine' = mine /\ view' = view
  BY DEF Read, client
<1> HIDE DEF new
<1>4. job'[p] = new /\ \A q \in Publishers \ {p} : job'[q] = job[q]
  BY <1>1, <1>2 DEF JobsTyped
<1>5. Alone(u) /\ Fresh(u)
  BY <1>3 DEF IInv, InSequence
<1>6. \A q \in Publishers : Active(q, u)' <=> Active(q, u)
  BY <1>3, <1>4 DEF Active
<1>7. CASE u = w
  <2>1. Active(p, u)
    BY <1>3, <1>7 DEF Active
  <2>2. Held(u) \in Nat /\ Announced(u)' = Held(u)
    BY <1>1, <1>2, <1>3, <1>7, HeldIs DEF Announced, Held
  <2>3. ASSUME NEW q \in Publishers, Publishes(q, u)' PROVE job'[q].value = Announced(u)'
    <3>1. Active(q, u)
      BY <1>6, <2>3 DEF Publishes, Active
    <3>2. q = p
      BY <1>5, <2>1, <3>1 DEF Alone
    <3> QED BY <1>3, <1>4, <1>7, <2>2, <3>2
  <2>4. Alone(u)'
    BY <1>5, <1>6, <2>3 DEF Alone
  <2> QED BY <1>6, <2>1, <2>4 DEF Fresh
<1>8. CASE u # w
  <2>1. Announced(u)' = Announced(u)
    BY <1>2, <1>3, <1>8 DEF Announced, Held
  <2>2. \A q \in Publishers : Publishes(q, u)' => Publishes(q, u) /\ job'[q] = job[q]
    BY <1>3, <1>4, <1>8 DEF Publishes
  <2>3. Alone(u)'
    BY <1>5, <1>6, <2>1, <2>2 DEF Alone
  <2>4. \A b \in Clients : Shown(b, u) => Shown(b, u)'
    BY <1>3, <2>1 DEF Shown
  <2> QED BY <1>3, <1>5, <1>6, <2>1, <2>3, <2>4 DEF Fresh
<1> QED BY <1>7, <1>8

LEMMA PublishInSequence ==
  ASSUME IInv, NEW p \in Publishers, Publish(p) \/ Fail(p),
         NEW u \in Users \ blurred'
  PROVE  Alone(u)' /\ Fresh(u)'
<1>1. JobsTyped /\ ServerTyped
  BY TypedIs DEF IInv
<1>2. Over(p)
  BY DEF Publish, Fail
<1>3. job'[p].step = "over" /\ \A q \in Publishers \ {p} : job'[q] = job[q]
  BY <1>1, <1>2, OverTyped
<1>4. u \notin blurred /\ taken' = taken
  BY DEF Publish, Fail
<1>5. \A q \in Publishers :
        /\ Active(q, u)' <=> q # p /\ Active(q, u)
        /\ Publishes(q, u)' <=> q # p /\ Publishes(q, u)
  BY <1>3 DEF Active, Publishes
<1>6. Alone(u) /\ Fresh(u)
  BY <1>4 DEF IInv, InSequence
<1>7. balance' = balance /\ down' = down /\ mine' = mine /\ view' = view
  BY DEF Publish, Fail, client
<1>8. Announced(u)' = Announced(u)
  BY <1>4, <1>7 DEF Announced, Held
<1>9. Alone(u)'
  BY <1>3, <1>5, <1>6, <1>8 DEF Alone
<1>10. \A b \in Clients : Shown(b, u) => Shown(b, u)'
  BY <1>7, <1>8 DEF Shown
<1>11. CASE Fail(p)
  <2>1. channel' = channel /\ ~Active(p, u)
    BY <1>11 DEF Fail, Active
  <2>2. \A q \in Publishers : Active(q, u)' <=> Active(q, u)
    BY <1>5, <2>1
  <2> QED BY <1>6, <1>8, <1>9, <1>10, <2>1, <2>2 DEF Fresh
<1>12. CASE Publish(p)
  <2> DEFINE bu == [type |-> "bu", user |-> job[p].user, value |-> job[p].value, by |-> p]
  <2>1. channel' = Append(channel, bu) /\ channel \in Seq(Published)
    BY <1>1, <1>12 DEF Publish, ServerTyped
  <2>2. bu \in Published /\ bu.user = job[p].user /\ bu.value = job[p].value /\ bu.type = "bu"
    BY <1>1, <1>12 DEF JobsTyped, Jobs, Published, Publish
  <2> HIDE DEF bu
  <2>3. CASE job[p].user = u
    <3>1. IsNews(bu, u) /\ bu.value = Announced(u)
      BY <1>6, <1>12, <2>2, <2>3 DEF IsNews, Alone, Publishes, Publish
    <3>2. EndsWith({u}, channel', u, Announced(u)) /\ ~NoNews(channel', u)
      BY <2>1, <2>2, <3>1, EndsWithNews
    <3> QED BY <1>8, <1>9, <3>2 DEF Fresh
  <2>4. CASE job[p].user # u
    <3>1. ~IsNews(bu, u) /\ ~Active(p, u)
      BY <2>2, <2>4 DEF IsNews, Active
    <3>2. \A q \in Publishers : Active(q, u)' <=> Active(q, u)
      BY <1>5, <3>1
    <3>3. EndsWith({u}, channel, u, Announced(u)) =>
            EndsWith({u}, channel', u, Announced(u)) /\ (NoNews(channel', u) => NoNews(channel, u))
      BY <2>1, <2>2, <3>1, EndsWithAppend
    <3> QED BY <1>6, <1>8, <1>9, <1>10, <3>2, <3>3 DEF Fresh
  <2> QED BY <2>3, <2>4
<1> QED BY <1>11, <1>12

\* Steps that leave the publishers and the table alone.
LEMMA AloneStays ==
  ASSUME balance' = balance, taken' = taken, job' = job, NEW u, Alone(u)
  PROVE  /\ Alone(u)' /\ Announced(u)' = Announced(u)
         /\ \A p \in Publishers : Active(p, u)' <=> Active(p, u)
BY DEF Alone, Publishes, Active, Announced, Held

\* The server hands the first update of the channel to whom it concerns.
LEMMA RouteInSequence ==
  ASSUME IInv, Route, NEW u \in Users \ blurred'
  PROVE  Alone(u)' /\ Fresh(u)'
<1> DEFINE bu == Head(channel)
           v == Announced(u)
<1>1. ServerTyped /\ ClientTyped
  BY TypedIs DEF IInv
<1>2. /\ channel \in Seq(Published) /\ channel # <<>> /\ channel' = Tail(channel)
      /\ bu \in Published /\ bu = channel[1] /\ 1 \in DOMAIN channel
  BY <1>1, TailIs DEF ServerTyped, Route
<1>3. bu \in Frames /\ bu.type = "bu"
  BY <1>2 DEF Published, Frames
<1>4. balance' = balance /\ taken' = taken /\ job' = job /\ mine' = mine /\ view' = view /\ u \notin blurred
  BY DEF Route
<1>5. \A b \in Clients : down'[b] = IF b \in Routed(bu) THEN Append(down[b], bu) ELSE down[b]
  BY DEF Route
<1> HIDE DEF bu
<1>6. Alone(u) /\ Fresh(u)
  BY <1>4 DEF IInv, InSequence
<1>7. /\ Alone(u)' /\ v' = v
      /\ \A p \in Publishers : Active(p, u)' <=> Active(p, u)
  BY <1>4, <1>6, AloneStays
<1> SUFFICES ASSUME \A p \in Publishers : ~Active(p, u)
             PROVE  /\ EndsWith({u}, channel', u, v)
                    /\ NoNews(channel', u) => \A b \in Clients : Shown(b, u)'
  BY <1>4, <1>7 DEF Fresh
<1>8. EndsWith({u}, channel, u, v) /\ (NoNews(channel, u) => \A b \in Clients : Shown(b, u))
  BY <1>6 DEF Fresh
<1> HIDE DEF v
<1>9. EndsWith({u}, channel', u, v)
  BY <1>2, <1>8, EndsWithTail
<1>10. ASSUME NoNews(channel', u), NEW b \in Clients PROVE Shown(b, u)'
  <2>1. IF IsNews(bu, u) THEN IsLast(channel, 1, u) ELSE NoNews(channel, u)
    BY <1>2, <1>10, NoNewsTail
  <2>2. down[b] \in Seq(Frames) /\ ClientInv(b)
    BY <1>1 DEF ClientTyped, IInv
  <2>3. CASE ~IsNews(bu, u)
    <3>1. Shown(b, u)
      BY <1>8, <2>1, <2>3
    <3>2. EndsWith(mine[b], down'[b], u, v) /\ (NoNews(down'[b], u) => NoNews(down[b], u))
      <4>1. EndsWith(mine[b], down[b], u, v)
        BY <3>1 DEF Shown, v
      <4> QED BY <1>3, <1>5, <2>2, <2>3, <4>1, EndsWithAppend
    <3> QED BY <1>4, <1>7, <3>1, <3>2 DEF Shown, v
  <2>4. CASE IsNews(bu, u) /\ b \in Routed(bu)
    <3>1. bu.value = v
      BY <1>2, <1>8, <2>1, <2>4 DEF EndsWith, Counted
    <3>2. EndsWith(mine[b], down'[b], u, v) /\ ~NoNews(down'[b], u)
      BY <1>3, <1>5, <2>2, <2>4, <3>1, EndsWithNews
    <3> QED BY <1>4, <1>7, <3>2 DEF Shown, v
  <2>5. CASE IsNews(bu, u) /\ b \notin Routed(bu)
    <3>1. ~(conn[b] = "open" /\ u \in subscriptions[b])
      <4>1. conn[b] = "open" => b \in clients
        BY <2>2 DEF ClientInv, OneAtATime
      <4> QED BY <2>5, <4>1 DEF Routed, IsNews
    <3>2. u \notin mine[b] /\ \A i \in DOMAIN down[b] :
            ~(down[b][i].type = "subscribed" /\ down[b][i].user = u)
      BY <2>2, <3>1, Nothing DEF ClientInv, OneAtATime, Confirmed, Granted
    <3>3. \A i \in DOMAIN down[b] : ~Counted(mine[b], down[b], i, u)
      BY <3>2 DEF Counted
    <3> QED BY <1>4, <1>5, <2>5, <3>2, <3>3 DEF Shown, EndsWith
  <2> QED BY <2>3, <2>4, <2>5
<1> QED BY <1>9, <1>10

\* What came while the subscriber was away is lost.
LEMMA UnheardInSequence ==
  ASSUME IInv, Unheard, NEW u \in Users \ blurred'
  PROVE  Alone(u)' /\ Fresh(u)'
<1>1. /\ balance' = balance /\ taken' = taken /\ job' = job /\ down' = down /\ mine' = mine /\ view' = view
      /\ channel' = <<>> /\ u \notin blurred /\ NoNews(channel, u)
  BY DEF Unheard, client, NoNews, IsNews
<1>2. Alone(u) /\ Fresh(u)
  BY <1>1 DEF IInv, InSequence
<1>3. /\ Alone(u)' /\ Announced(u)' = Announced(u)
      /\ \A p \in Publishers : Active(p, u)' <=> Active(p, u)
  BY <1>1, <1>2, AloneStays
<1>4. EndsWith({u}, channel', u, Announced(u))
  BY <1>1, Nothing DEF EndsWith
<1>5. \A b \in Clients : Shown(b, u) => Shown(b, u)'
  BY <1>1, <1>3 DEF Shown
<1> QED BY <1>1, <1>2, <1>3, <1>4, <1>5 DEF Fresh

\* What a client was shown, and will be, when something happens to it.
LEMMA ShownStays ==
  ASSUME IInv, NEW c \in Clients, At(c), NEW b \in Clients, NEW u \in Users,
         balance' = balance, taken' = taken, Shown(b, u)
  PROVE  Shown(b, u)'
<1>0. Announced(u)' = Announced(u)
  BY DEF Announced, Held
<1>1. ServerTyped /\ ClientTyped /\ ClientInv(b) /\ ClientInv(c)
  BY TypedIs DEF IInv
<1>2. CASE b # c
  BY <1>0, <1>2, Elsewhere DEF IInv, Shown
<1>3. CASE b = c /\ (Open(c) \/ Break(c) \/ OnError(c) \/ OnClose(c))
  <2>1. down'[c] = <<>> /\ mine'[c] = {}
    BY <1>1, <1>3 DEF Open, Break, OnError, OnClose, Forget, client, ClientTyped,
                      ClientInv, OneAtATime
  <2> QED BY <1>3, <2>1, Nothing DEF Shown, EndsWith
<1>4. CASE b = c /\ HandleClientMessage(c)
  <2> DEFINE e == Reply(Head(up[c]))
  <2>1. down[c] \in Seq(Frames) /\ mine' = mine /\ view' = view
    BY <1>1, <1>4 DEF ClientTyped, HandleClientMessage
  <2>2. Head(up[c]) \in Messages
    BY <1>1, <1>4, TailIs DEF ClientTyped, HandleClientMessage
  <2>3. e \in Frames /\ ~IsNews(e, u)
    BY <2>2, ReplyIs DEF IsNews
  <2>4. down'[c] = down[c] \/ down'[c] = Append(down[c], e)
    BY <1>1, <1>4 DEF HandleClientMessage, Transmit, ClientTyped
  <2> HIDE DEF e
  <2>5. EndsWith(mine[c], down[c], u, Announced(u))
    BY <1>4 DEF Shown
  <2>6. /\ EndsWith(mine[c], down'[c], u, Announced(u))
        /\ NoNews(down'[c], u) => NoNews(down[c], u)
    BY <2>1, <2>3, <2>4, <2>5, EndsWithAppend
  <2> QED BY <1>0, <1>4, <2>1, <2>6 DEF Shown
<1>5. ASSUME b = c, NEW m \in Messages, Say(c, m) PROVE Shown(c, u)'
  <2>1. down' = down /\ mine'[c] \subseteq mine[c]
    BY <1>1, <1>5 DEF Say, Lose, ClientTyped
  <2>2. u \in mine'[c] => view'[c][u] = view[c][u]
    <3>1. view[c] \in [Users -> Nat \cup {None}]
      BY <1>1 DEF ClientTyped
    <3>2. CASE m.type # "unsubscribe"
      BY <1>5, <3>2 DEF Say
    <3>3. CASE m.type = "unsubscribe"
      <4>1. view' = [view EXCEPT ![c][m.user] = None] /\ mine' = [mine EXCEPT ![c] = @ \ {m.user}]
        BY <1>5, <3>3 DEF Say, Lose
      <4> QED BY <1>1, <3>1, <4>1 DEF ClientTyped
    <3> QED BY <3>2, <3>3
  <2> QED BY <1>0, <1>5, <2>1, <2>2 DEF Shown, EndsWith, Counted
<1>6. CASE b = c /\ Receive(c)
  <2> DEFINE d == down[c]
             f == d[1]
             v == Announced(u)
  <2>1. /\ d \in Seq(Frames) /\ d # <<>> /\ f \in Frames /\ 1 \in DOMAIN d
        /\ down'[c] = Tail(d)
        /\ mine'[c] = IF f.type = "subscribed" THEN mine[c] \cup {f.user} ELSE mine[c]
        /\ u \in mine'[c] =>
             view'[c][u] = IF IsNews(f, u) THEN f.value
                             ELSE IF u \in mine[c] THEN view[c][u] ELSE None
    BY <1>6, ReceiveAt
  <2>2. EndsWith(mine[c], d, u, v) /\ (u \in mine[c] /\ NoNews(d, u) => view[c][u] \in {None, v})
    BY <1>6 DEF Shown
  <2>3. EndsWith(mine'[c], Tail(d), u, v)
    BY <2>1, <2>2, EndsWithTail
  <2>4. ASSUME u \in mine'[c], NoNews(Tail(d), u) PROVE view'[c][u] \in {None, v}
    <3>1. IF IsNews(f, u) THEN IsLast(d, 1, u) ELSE NoNews(d, u)
      BY <2>1, <2>4, NoNewsTail
    <3>2. CASE IsNews(f, u)
      <4>1. u \in mine[c]
        BY <2>1, <2>4, <3>2 DEF IsNews
      <4> QED BY <2>1, <2>2, <2>4, <3>1, <3>2, <4>1 DEF EndsWith, Counted
    <3>3. CASE ~IsNews(f, u)
      BY <2>1, <2>2, <2>4, <3>1, <3>3
    <3> QED BY <3>2, <3>3
  <2>5. Announced(u)' = v
    BY <1>0
  <2> HIDE DEF v
  <2> QED BY <1>6, <2>1, <2>3, <2>4, <2>5 DEF Shown
<1> QED BY <1>2, <1>3, <1>4, <1>5, <1>6 DEF At

LEMMA AtInSequence ==
  ASSUME IInv, NEW c \in Clients, At(c), NEW u \in Users \ blurred'
  PROVE  Alone(u)' /\ Fresh(u)'
<1>1. balance' = balance /\ taken' = taken /\ job' = job /\ channel' = channel /\ blurred' = blurred
  BY DEF At, Open, Break, OnError, OnClose, HandleClientMessage, Receive, Say
<1>2. Alone(u) /\ Fresh(u)
  BY <1>1 DEF IInv, InSequence
<1>3. /\ Alone(u)' /\ Announced(u)' = Announced(u)
      /\ \A p \in Publishers : Active(p, u)' <=> Active(p, u)
  BY <1>1, <1>2, AloneStays
<1>4. \A b \in Clients : Shown(b, u) => Shown(b, u)'
  BY <1>1, ShownStays
<1> QED BY <1>1, <1>2, <1>3, <1>4 DEF Fresh

LEMMA NextInSequence ==
  ASSUME IInv, Next
  PROVE  InSequence'
<1> SUFFICES ASSUME NEW u \in Users \ blurred' PROVE Alone(u)' /\ Fresh(u)'
  BY DEF InSequence
<1> QED BY NextIs, StartInSequence, ReadInSequence, PublishInSequence, RouteInSequence, UnheardInSequence,
           AtInSequence

-----------------------------------------------------------------------------
LEMMA InitIInv == Init => IInv
<1> SUFFICES ASSUME Init PROVE IInv
  OBVIOUS
<1>1. JobsTyped /\ ServerTyped
  BY Nothing DEF Init, JobsTyped, Jobs, ServerTyped
<1>2. ClientTyped
  <2>1. << >> \in Seq(Messages) /\ << >> \in Seq(Frames)
    BY Nothing
  <2> QED BY <2>1 DEF Init, ClientTyped
<1>3. \A b \in Clients : ClientInv(b)
  BY Nothing DEF Init, ClientInv, OneAtATime, Confirmed, Filtered
<1>4. InSequence
  BY Nothing DEF Init, InSequence, Alone, Fresh, Publishes, Active, EndsWith, Shown
<1> QED BY <1>1, <1>2, <1>3, <1>4, TypedIs DEF IInv

LEMMA NextIInv == IInv /\ [Next]_vars => IInv'
<1>1. ASSUME IInv, Next PROVE IInv'
  BY <1>1, NextTyped, NextClient, NextInSequence DEF IInv
<1>2. ASSUME IInv, UNCHANGED vars PROVE IInv'
  <2>1. /\ balance' = balance /\ taken' = taken /\ job' = job /\ channel' = channel /\ conn' = conn
        /\ clients' = clients /\ subscriptions' = subscriptions
        /\ up' = up /\ down' = down /\ mine' = mine /\ view' = view
        /\ asked' = asked /\ blurred' = blurred
    BY <1>2 DEF vars, server, client
  <2>2. Typed'
    BY <1>2, <2>1 DEF IInv, Typed, TypeOK
  <2>3. \A b \in Clients : ClientInv(b)'
    BY <1>2, <2>1, SameClient DEF IInv
  <2>4. ASSUME NEW u \in Users \ blurred PROVE Alone(u)' /\ Fresh(u)'
    <3>1. Alone(u) /\ Fresh(u)
      BY <1>2 DEF IInv, InSequence
    <3>2. /\ Alone(u)' /\ Announced(u)' = Announced(u)
          /\ \A p \in Publishers : Active(p, u)' <=> Active(p, u)
      BY <2>1, <3>1, AloneStays
    <3>3. \A b \in Clients : Shown(b, u) => Shown(b, u)'
      BY <2>1, <3>2 DEF Shown
    <3> QED BY <2>1, <3>1, <3>2, <3>3 DEF Fresh
  <2> QED BY <2>1, <2>2, <2>3, <2>4 DEF IInv, InSequence
<1> QED BY <1>1, <1>2

LEMMA AlwaysIInv == Spec => []IInv
BY InitIInv, NextIInv, PTL DEF Spec

(***************************************************************************)
(* For any number of users, clients and publishers the variables have      *)
(* their types, and the server's map of clients has no entry for a         *)
(* connection that is gone.                                                *)
(***************************************************************************)
THEOREM FeedTyped == Spec => []TypeOK
<1>1. IInv => TypeOK
  BY DEF IInv, Typed
<1> QED BY <1>1, AlwaysIInv, PTL

(***************************************************************************)
(* Once a subscription is confirmed, no update under way to the client is  *)
(* for a user it did not subscribe to: neither the server's rule that a    *)
(* client without subscriptions hears everything, nor frames sent before   *)
(* the confirmation, can bring one.                                        *)
(***************************************************************************)
THEOREM HearsOnlyTheSubscribed == Spec => []OnlyTheSubscribed
<1>1. IInv => OnlyTheSubscribed
  BY DEF IInv, ClientInv, Filtered, OnlyTheSubscribed
<1> QED BY <1>1, AlwaysIInv, PTL

(***************************************************************************)
(* Whatever the connections and the other users do, and whatever           *)
(* overlapped, failed or was lost before: after a publication with no      *)
(* other of its user under way, what a subscribed client was shown last is  *)
(* the balance in the table, less the amount of the withdrawal request that *)
(* made the publication, if one did.                                        *)
(***************************************************************************)
THEOREM AlwaysShownInSequence == Spec => []ShownInSequence
<1>1. IInv => ShownInSequence
  <2> SUFFICES ASSUME IInv, NEW b \in Clients, NEW u \in mine[b] \ blurred,
                      Quiet(u), ~Behind(b, u)
               PROVE  view[b][u] \in {None, Announced(u)}
    BY DEF ShownInSequence, Announced
  <2>1. u \in Users
    BY TypedIs DEF IInv, ClientTyped
  <2>2. Fresh(u) /\ (\A p \in Publishers : ~Active(p, u)) /\ NoNews(channel, u)
        /\ NoNews(down[b], u)
    BY <2>1 DEF IInv, InSequence, Quiet, Behind, NoNews, IsNews
  <2> QED BY <2>2 DEF Fresh, Shown
<1> QED BY <1>1, AlwaysIInv, PTL

-----------------------------------------------------------------------------
(***************************************************************************)
(* The app's own state, for any number of wallets and any bounds of the    *)
(* clock and of the operations under way (FrontendSession).  The absent    *)
(* value is none of the values a store holds.                              *)
(***************************************************************************)
Ops == [do : {"get", "delete"}, value : {0}] \cup [do : {"set"}, value : Values]

AppTyped ==
  /\ {session, account, seen, wallet} \subseteq Wallets \cup {Nobody}
  /\ screen \in {"off", "boot", "connect", "delegate", "select-tokens", "home"}
  /\ now \in 0 .. MaxTime /\ wiped \in {"no", "asked", "done"} /\ overtaken \in BOOLEAN
StoresTyped ==
  /\ memory \in [Stores -> Values]
  /\ stored \in [Stores -> Values \cup {Absent}]
  /\ ops \in [Stores -> Seq(Ops)]
  /\ fetched \in [Stores -> Seq(Values \cup {Absent})]
  /\ loaded \subseteq Stores /\ astray \subseteq Stores

\* A clear, which adds two operations, comes only after a disconnect.
Room ==
  /\ \A k \in Stores : Len(ops[k]) <= MaxOps + 2
  /\ account = Nobody /\ seen # Nobody => Len(ops["delegation"]) <= MaxOps
  /\ ~Running => /\ seen = account
                 /\ \A k \in Stores : ops[k] = <<>> /\ fetched[k] = <<>>

\* One read of a store for each visit of Bootstrap, which waits for it.
HasGet(d) == \E i \in DOMAIN d : d[i].do = "get"
OneGet(d) == \A i, j \in DOMAIN d : d[i].do = "get" /\ d[j].do = "get" => i = j
OneRead(k) ==
  /\ k \in loaded => ~HasGet(ops[k]) /\ fetched[k] = <<>>
  /\ fetched[k] # <<>> => ~HasGet(ops[k])
  /\ OneGet(ops[k])
Hydrated == screen \notin {"off", "boot"} => loaded = Stores

(***************************************************************************)
(* A wipe that is asked for is still to do: among the operations under way *)
(* the last write, at n, is one of its two, and unless it was overtaken no *)
(* read comes before it.  Once it is done no operation grants anything.    *)
(***************************************************************************)
Empty == {Absent, 0}
LastWrite(d, i) == d[i].do # "get" /\ \A j \in DOMAIN d : j > i => d[j].do = "get"
WipedAt(d, n) == n \in DOMAIN d /\ LastWrite(d, n) /\ Wipes(d[n])
ReadsAfter(d, n) == \A i \in DOMAIN d : i < n => d[i].do # "get"
NoGrants(d) == \A i \in DOMAIN d : ~Grants(d[i])
Wiped ==
  /\ wiped = "asked" =>
       \E n \in Nat : /\ WipedAt(ops["delegation"], n)
                      /\ overtaken \/ ReadsAfter(ops["delegation"], n)
  /\ wiped = "done" => stored["delegation"] \in Empty /\ NoGrants(ops["delegation"])
  /\ wiped # "no" /\ ~overtaken =>
       /\ memory["delegation"] = 0
       /\ fetched["delegation"] # <<>> => fetched["delegation"][1] \in Empty

(***************************************************************************)
(* A store in touch with the phone holds the last value under way, or,     *)
(* when nothing is written, the one on the phone; a read is the last       *)
(* operation under way, so nothing can be written after it and before what *)
(* it found is merged.                                                     *)
(***************************************************************************)
Found(v) == IF v = Absent THEN 0 ELSE v
Agree(d, x, s) ==
  /\ \A i \in DOMAIN d : LastWrite(d, i) => x = d[i].value
  /\ (\A i \in DOMAIN d : d[i].do = "get") => x = Found(s)
GetLast(d) == \A i \in DOMAIN d : d[i].do = "get" => i = Len(d)
InTouch(k) ==
  k \notin astray =>
    /\ (k \notin loaded /\ memory[k] = 0) \/ Agree(ops[k], memory[k], stored[k])
    /\ GetLast(ops[k])
    /\ fetched[k] # <<>> => ops[k] = <<>> /\ fetched[k][1] = stored[k]

AppInv ==
  /\ AppTyped /\ StoresTyped /\ Room /\ Hydrated /\ Wiped
  /\ \A k \in Stores : OneRead(k) /\ InTouch(k)

-----------------------------------------------------------------------------
(***************************************************************************)
(* Operations under way: a write e or a read is added at the end, or the   *)
(* first is done.                                                          *)
(***************************************************************************)
LEMMA NoOperations ==
  /\ ~HasGet(<< >>) /\ OneGet(<< >>) /\ GetLast(<< >>) /\ NoGrants(<< >>)
  /\ \A x, s : Agree(<< >>, x, s) <=> x = Found(s)
BY Nothing DEF HasGet, OneGet, GetLast, Agree, NoGrants

LEMMA AddGet ==
  ASSUME NEW S, NEW d \in Seq(S), NEW e \in S, e.do = "get"
  PROVE  /\ \A x, s : Agree(d, x, s) => Agree(Append(d, e), x, s)
         /\ \A n : WipedAt(d, n) => WipedAt(Append(d, e), n)
         /\ \A n : WipedAt(d, n) /\ ReadsAfter(d, n) => ReadsAfter(Append(d, e), n)
         /\ NoGrants(d) => NoGrants(Append(d, e))
         /\ ~HasGet(d) => OneGet(Append(d, e)) /\ GetLast(Append(d, e))
<1> DEFINE g == Append(d, e)
<1>1. /\ Len(d) \in Nat /\ DOMAIN d = 1 .. Len(d) /\ DOMAIN g = 1 .. Len(d) + 1
      /\ Len(g) = Len(d) + 1
      /\ \A i \in 1 .. Len(d) : g[i] = d[i]
      /\ g[Len(d) + 1] = e
  BY AppendIs
<1> HIDE DEF g
<1>2. ASSUME NEW x, NEW s, Agree(d, x, s) PROVE Agree(g, x, s)
  <2>1. ASSUME NEW i \in DOMAIN g, LastWrite(g, i) PROVE x = g[i].value
    <3>1. i \in DOMAIN d /\ g[i] = d[i]
      BY <1>1, <2>1 DEF LastWrite
    <3>2. LastWrite(d, i)
      BY <1>1, <2>1, <3>1 DEF LastWrite
    <3> QED BY <1>2, <3>1, <3>2 DEF Agree
  <2>2. (\A i \in DOMAIN g : g[i].do = "get") => \A i \in DOMAIN d : d[i].do = "get"
    BY <1>1
  <2> QED BY <1>2, <2>1, <2>2 DEF Agree
<1>3. ASSUME NEW n, WipedAt(d, n)
      PROVE  WipedAt(g, n) /\ (ReadsAfter(d, n) => ReadsAfter(g, n))
  <2>1. n \in DOMAIN d /\ n \in DOMAIN g /\ g[n] = d[n]
    BY <1>1, <1>3 DEF WipedAt
  <2>2. LastWrite(g, n)
    BY <1>1, <1>3, <2>1 DEF WipedAt, LastWrite
  <2>3. ReadsAfter(d, n) => ReadsAfter(g, n)
    BY <1>1, <2>1 DEF ReadsAfter
  <2> QED BY <1>3, <2>1, <2>2, <2>3 DEF WipedAt
<1>5. NoGrants(d) => NoGrants(g)
  BY <1>1 DEF NoGrants, Grants
<1>4. ~HasGet(d) => OneGet(g) /\ GetLast(g)
  BY <1>1 DEF HasGet, OneGet, GetLast
<1> QED BY <1>2, <1>3, <1>4, <1>5 DEF g

LEMMA AddWrite ==
  ASSUME NEW S, NEW d \in Seq(S), NEW e \in S, e.do # "get"
  PROVE  /\ \A s : Agree(Append(d, e), e.value, s)
         /\ e.value = 0 => WipedAt(Append(d, e), Len(d) + 1)
         /\ ~HasGet(d) => ReadsAfter(Append(d, e), Len(d) + 1)
         /\ NoGrants(d) /\ e.value = 0 => NoGrants(Append(d, e))
         /\ HasGet(Append(d, e)) => HasGet(d)
         /\ OneGet(d) => OneGet(Append(d, e))
         /\ ~HasGet(d) => GetLast(Append(d, e))
<1> DEFINE g == Append(d, e)
<1>1. /\ Len(d) \in Nat /\ DOMAIN d = 1 .. Len(d) /\ DOMAIN g = 1 .. Len(d) + 1
      /\ Len(g) = Len(d) + 1
      /\ \A i \in 1 .. Len(d) : g[i] = d[i]
      /\ g[Len(d) + 1] = e
  BY AppendIs
<1> HIDE DEF g
<1>2. ASSUME NEW s PROVE Agree(g, e.value, s)
  <2>1. Len(d) + 1 \in DOMAIN g
    BY <1>1
  <2>2. \A i \in DOMAIN g : LastWrite(g, i) => i = Len(d) + 1
    BY <1>1, <2>1 DEF LastWrite
  <2> QED BY <1>1, <2>1, <2>2 DEF Agree
<1>3. e.value = 0 => WipedAt(g, Len(d) + 1)
  BY <1>1 DEF WipedAt, LastWrite, Wipes
<1>4. ~HasGet(d) => ReadsAfter(g, Len(d) + 1)
  BY <1>1 DEF HasGet, ReadsAfter
<1>8. NoGrants(d) /\ e.value = 0 => NoGrants(g)
  BY <1>1 DEF NoGrants, Grants
<1>5. HasGet(g) => HasGet(d)
  BY <1>1 DEF HasGet
<1>6. OneGet(d) => OneGet(g)
  BY <1>1 DEF OneGet
<1>7. ~HasGet(d) => GetLast(g)
  BY <1>1 DEF HasGet, GetLast
<1> QED BY <1>2, <1>3, <1>4, <1>5, <1>6, <1>7, <1>8 DEF g

\* What the phone has after the operation e, when it succeeds.
After(e, s) == IF e.do = "get" THEN s ELSE IF e.do = "set" THEN e.value ELSE Absent

LEMMA DoFirst ==
  ASSUME NEW S, NEW d \in Seq(S), d # <<>>
  PROVE  /\ Head(d) = d[1]
         /\ \A x, s : Agree(d, x, s) /\ d[1] \in Ops /\ Absent \notin Nat /\ MaxTime \in Nat
              => Agree(Tail(d), x, After(d[1], s))
         /\ WipedAt(d, 1) => Wipes(d[1]) /\ \A i \in DOMAIN Tail(d) : Tail(d)[i].do = "get"
         /\ \A n : WipedAt(d, n) /\ n # 1 =>
              /\ n - 1 \in Nat /\ WipedAt(Tail(d), n - 1)
              /\ ReadsAfter(d, n) => d[1].do # "get" /\ ReadsAfter(Tail(d), n - 1)
         /\ NoGrants(d) => ~Grants(d[1]) /\ NoGrants(Tail(d))
         /\ HasGet(Tail(d)) => HasGet(d)
         /\ OneGet(d) => OneGet(Tail(d)) /\ (d[1].do = "get" => ~HasGet(Tail(d)))
         /\ d[1].do = "get" => HasGet(d)
         /\ GetLast(d) => GetLast(Tail(d)) /\ (d[1].do = "get" => Tail(d) = <<>>)
<1> DEFINE g == Tail(d)
<1>1. /\ Head(d) = d[1] /\ Len(d) \in Nat \ {0} /\ DOMAIN d = 1 .. Len(d)
      /\ DOMAIN g = 1 .. Len(d) - 1 /\ Len(g) = Len(d) - 1 /\ g \in Seq(S)
      /\ \A i \in 1 .. Len(d) - 1 : g[i] = d[i + 1]
  BY TailIs
<1>a. d[1].do = "get" /\ GetLast(d) => g = <<>>
  <2> HIDE DEF g
  <2>1. ASSUME d[1].do = "get", GetLast(d) PROVE Len(g) = 0
    BY <1>1, <2>1 DEF GetLast
  <2> QED BY <1>1, <2>1, EmptySeq
<1> HIDE DEF g
<1>2. \A j \in DOMAIN d : j > 1 => j - 1 \in DOMAIN g /\ g[j - 1] = d[j]
  BY <1>1
<1>3. \A i \in DOMAIN g : i + 1 \in DOMAIN d /\ g[i] = d[i + 1]
  BY <1>1
<1>4. ASSUME NEW x, NEW s, Agree(d, x, s), d[1] \in Ops, Absent \notin Nat, MaxTime \in Nat
      PROVE  Agree(g, x, After(d[1], s))
  <2>1. ASSUME NEW i \in DOMAIN g, LastWrite(g, i) PROVE x = g[i].value
    <3>1. LastWrite(d, i + 1)
      <4>1. ASSUME NEW j \in DOMAIN d, j > i + 1 PROVE d[j].do = "get"
        <5>1. j - 1 \in DOMAIN g /\ j - 1 > i /\ g[j - 1] = d[j]
          BY <1>1, <4>1
        <5> QED BY <2>1, <5>1 DEF LastWrite
      <4> QED BY <1>3, <2>1, <4>1 DEF LastWrite
    <3> QED BY <1>3, <1>4, <3>1 DEF Agree
  <2>2. ASSUME \A i \in DOMAIN g : g[i].do = "get" PROVE x = Found(After(d[1], s))
    <3>1. \A j \in DOMAIN d : j > 1 => d[j].do = "get"
      BY <1>2, <2>2
    <3>2. 1 \in DOMAIN d
      BY <1>1
    <3>3. CASE d[1].do = "get"
      <4>1. \A j \in DOMAIN d : d[j].do = "get"
        BY <1>1, <3>1, <3>3
      <4> QED BY <1>4, <3>3, <4>1 DEF Agree, After
    <3>4. CASE d[1].do # "get"
      <4>1. x = d[1].value
        BY <1>4, <3>1, <3>2, <3>4 DEF Agree, LastWrite
      <4>2. d[1].do = "set" => d[1].value \in Nat
        BY <1>4 DEF Ops, Values
      <4>3. d[1].do # "set" => d[1].value = 0
        BY <1>4 DEF Ops
      <4> QED BY <1>4, <3>4, <4>1, <4>2, <4>3 DEF After, Found
    <3> QED BY <3>3, <3>4
  <2> QED BY <2>1, <2>2 DEF Agree
<1>5. WipedAt(d, 1) => Wipes(d[1]) /\ \A i \in DOMAIN g : g[i].do = "get"
  BY <1>1, <1>3 DEF WipedAt, LastWrite
<1>b. ASSUME NEW n, WipedAt(d, n), n # 1
      PROVE  /\ n - 1 \in Nat /\ WipedAt(g, n - 1)
             /\ ReadsAfter(d, n) => d[1].do # "get" /\ ReadsAfter(g, n - 1)
  <2>1. n \in DOMAIN d /\ n > 1 /\ n \in Nat /\ 1 \in DOMAIN d
    BY <1>1, <1>b DEF WipedAt
  <2>2. n - 1 \in DOMAIN g /\ g[n - 1] = d[n]
    BY <1>2, <2>1
  <2>3. \A j \in DOMAIN g : j > n - 1 => j + 1 \in DOMAIN d /\ j + 1 > n /\ g[j] = d[j + 1]
    BY <1>1, <2>1
  <2>4. LastWrite(g, n - 1)
    BY <1>b, <2>2, <2>3 DEF WipedAt, LastWrite
  <2>5. \A j \in DOMAIN g : j < n - 1 => j + 1 \in DOMAIN d /\ j + 1 < n /\ g[j] = d[j + 1]
    BY <1>1, <2>1
  <2>6. ReadsAfter(d, n) => d[1].do # "get" /\ ReadsAfter(g, n - 1)
    BY <2>1, <2>5 DEF ReadsAfter
  <2> QED BY <1>b, <2>1, <2>2, <2>4, <2>6 DEF WipedAt
<1>c. NoGrants(d) => ~Grants(d[1]) /\ NoGrants(g)
  BY <1>1, <1>3 DEF NoGrants
<1>6. HasGet(g) => HasGet(d)
  BY <1>3 DEF HasGet
<1>7. OneGet(d) => OneGet(g) /\ (d[1].do = "get" => ~HasGet(g))
  BY <1>1, <1>3 DEF OneGet, HasGet
<1>8. d[1].do = "get" => HasGet(d)
  BY <1>1 DEF HasGet
<1>9. GetLast(d) => GetLast(g)
  BY <1>1, <1>3 DEF GetLast
<1> QED BY <1>1, <1>a, <1>b, <1>c, <1>4, <1>5, <1>6, <1>7, <1>8, <1>9 DEF g

-----------------------------------------------------------------------------
(***************************************************************************)
(* The stores, step by step.                                               *)
(***************************************************************************)
LEMMA SameStore ==
  ASSUME NEW k \in Stores, OneRead(k), InTouch(k),
         ops'[k] = ops[k], fetched'[k] = fetched[k],
         memory'[k] = memory[k], stored'[k] = stored[k],
         k \in loaded' <=> k \in loaded, k \in astray' <=> k \in astray
  PROVE  OneRead(k)' /\ InTouch(k)'
BY DEF OneRead, InTouch

LEMMA HydratingIs ==
  ASSUME NEW k
  PROVE  Hydrating(k) <=> HasGet(ops[k]) \/ fetched[k] # <<>>
BY DEF Hydrating, Pending, HasGet

LEMMA OperationsAreOps ==
  /\ Get \in Ops /\ Get.do = "get"
  /\ Delete \in Ops /\ Delete.do = "delete" /\ Delete.value = 0
  /\ \A v \in Values : /\ Put(v) \in Ops
                       /\ Put(v).do = "set" /\ Put(v).value = v
  /\ Values \subseteq Nat /\ 0 \in Values /\ 1 \in Values
BY SessionAssumption DEF Ops, Get, Delete, Put, Values

LEMMA SetIs ==
  ASSUME StoresTyped, NEW k \in Stores, NEW v \in Values, NEW more,
         more = <<>> \/ (more = <<Delete>> /\ v = 0), Set(k, v, more)
  PROVE  /\ StoresTyped'
         /\ memory'[k] = v /\ stored' = stored /\ fetched' = fetched /\ loaded' = loaded
         /\ \A j \in Stores \ {k} : memory'[j] = memory[j] /\ ops'[j] = ops[j]
         /\ astray' = IF Hydrating(k) THEN astray \cup {k} ELSE astray
         /\ \A s : Agree(ops'[k], v, s)
         /\ HasGet(ops'[k]) => HasGet(ops[k])
         /\ OneGet(ops[k]) => OneGet(ops'[k])
         /\ ~HasGet(ops[k]) => GetLast(ops'[k])
         /\ v = 0 => WipedAt(ops'[k], Len(ops'[k]))
         /\ ~HasGet(ops[k]) => ReadsAfter(ops'[k], Len(ops'[k]))
         /\ v = 0 /\ NoGrants(ops[k]) => NoGrants(ops'[k])
         /\ Len(ops[k]) \in Nat /\ Len(ops'[k]) <= Len(ops[k]) + 2
         /\ more = <<>> => Len(ops'[k]) = Len(ops[k]) + 1
<1> DEFINE d == ops[k]
           e == Put(v)
           g == Append(d, e)
           h == Append(g, Delete)
<1>1. d \in Seq(Ops) /\ e \in Ops /\ e.do = "set" /\ e.value = v
  BY OperationsAreOps DEF StoresTyped
<1>2. Delete \in Ops /\ Delete.do = "delete" /\ Delete.value = 0
  BY OperationsAreOps
<1>3. /\ memory' = [memory EXCEPT ![k] = v]
      /\ ops' = [ops EXCEPT ![k] = d \o <<e>> \o more]
      /\ stored' = stored /\ fetched' = fetched /\ loaded' = loaded
      /\ astray' = IF Hydrating(k) THEN astray \cup {k} ELSE astray
  BY DEF Set
<1> HIDE DEF e, d, g, h
<1>4. /\ g \in Seq(Ops) /\ Len(g) = Len(d) + 1 /\ Len(d) \in Nat
      /\ \A s : Agree(g, v, s)
      /\ v = 0 => WipedAt(g, Len(g))
      /\ ~HasGet(d) => ReadsAfter(g, Len(g))
      /\ v = 0 /\ NoGrants(d) => NoGrants(g)
      /\ HasGet(g) => HasGet(d)
      /\ OneGet(d) => OneGet(g)
      /\ ~HasGet(d) => GetLast(g)
  BY <1>1, AppendIs, AddWrite DEF g
<1>5. /\ h \in Seq(Ops) /\ Len(h) = Len(g) + 1
      /\ v = 0 => \A s : Agree(h, v, s)
      /\ WipedAt(h, Len(h))
      /\ ~HasGet(g) => ReadsAfter(h, Len(h))
      /\ NoGrants(g) => NoGrants(h)
      /\ HasGet(h) => HasGet(g)
      /\ OneGet(g) => OneGet(h)
      /\ ~HasGet(g) => GetLast(h)
  BY <1>2, <1>4, AppendIs, AddWrite DEF h
<1>6. d \o <<e>> \o more = IF more = <<>> THEN g ELSE h
  <2>1. d \o <<e>> = g
    BY <1>1, AppendIsConcat DEF g
  <2>2. g \o << >> = g /\ g \o <<Delete>> = h
    BY <1>2, <1>4, ConcatEmptySeq, AppendIsConcat DEF h
  <2>3. <<Delete>> # << >>
    OBVIOUS
  <2> QED BY <2>1, <2>2, <2>3
<1>7. ops' = [ops EXCEPT ![k] = IF more = <<>> THEN g ELSE h]
  BY <1>3, <1>6
<1>8. ops'[k] = (IF more = <<>> THEN g ELSE h) /\ ops' \in [Stores -> Seq(Ops)]
      /\ \A j \in Stores \ {k} : ops'[j] = ops[j]
  BY <1>4, <1>5, <1>7 DEF StoresTyped
<1>9. /\ memory'[k] = v /\ memory' \in [Stores -> Values]
      /\ \A j \in Stores \ {k} : memory'[j] = memory[j]
  BY <1>3 DEF StoresTyped
<1>10. StoresTyped'
  BY <1>3, <1>8, <1>9 DEF StoresTyped
<1>11. /\ \A s : Agree(ops'[k], v, s)
       /\ HasGet(ops'[k]) => HasGet(d)
       /\ OneGet(d) => OneGet(ops'[k])
       /\ ~HasGet(d) => GetLast(ops'[k])
       /\ v = 0 => WipedAt(ops'[k], Len(ops'[k]))
       /\ ~HasGet(d) => ReadsAfter(ops'[k], Len(ops'[k]))
       /\ v = 0 /\ NoGrants(d) => NoGrants(ops'[k])
  <2>1. CASE more = <<>>
    BY <1>4, <1>8, <2>1
  <2>2. CASE more # <<>>
    <3>1. v = 0 /\ ops'[k] = h
      BY <1>8, <2>2
    <3> QED BY <1>4, <1>5, <3>1
  <2> QED BY <2>1, <2>2
<1>12. /\ Len(d) \in Nat /\ Len(ops'[k]) <= Len(d) + 2
       /\ more = <<>> => Len(ops'[k]) = Len(d) + 1
  BY <1>4, <1>5, <1>8
<1> QED BY <1>3, <1>8, <1>9, <1>10, <1>11, <1>12 DEF d

\* A store that is set is in touch with the phone, or astray.
LEMMA SetKeeps ==
  ASSUME AppInv, NEW k \in Stores, NEW v \in Values, NEW more,
         more = <<>> \/ (more = <<Delete>> /\ v = 0), Set(k, v, more)
  PROVE  StoresTyped' /\ \A j \in Stores : OneRead(j)' /\ InTouch(j)'
<1>1. StoresTyped /\ \A j \in Stores : OneRead(j) /\ InTouch(j)
  BY DEF AppInv
<1>2. /\ StoresTyped'
      /\ memory'[k] = v /\ stored' = stored /\ fetched' = fetched /\ loaded' = loaded
      /\ \A j \in Stores \ {k} : memory'[j] = memory[j] /\ ops'[j] = ops[j]
      /\ astray' = IF Hydrating(k) THEN astray \cup {k} ELSE astray
      /\ \A s : Agree(ops'[k], v, s)
      /\ HasGet(ops'[k]) => HasGet(ops[k])
      /\ OneGet(ops[k]) => OneGet(ops'[k])
      /\ ~HasGet(ops[k]) => GetLast(ops'[k])
  BY <1>1, SetIs
<1>3. ASSUME NEW j \in Stores \ {k} PROVE OneRead(j)' /\ InTouch(j)'
  BY <1>1, <1>2, SameStore
<1>4. OneRead(k)'
  BY <1>1, <1>2 DEF OneRead
<1>5. InTouch(k)'
  BY <1>2, HydratingIs DEF InTouch
<1> QED BY <1>2, <1>3, <1>4, <1>5

\* Bootstrap asks for both stores.
LEMMA MountKeeps ==
  ASSUME AppInv, Mount, astray' = astray,
         screen \notin {"boot"}
  PROVE  /\ StoresTyped' /\ \A j \in Stores : OneRead(j)' /\ InTouch(j)'
         /\ \A k \in Stores : Len(ops'[k]) = Len(ops[k]) + 1
         /\ wiped' = wiped /\ overtaken' = overtaken => Wiped'
<1>1. StoresTyped /\ Wiped /\ \A j \in Stores : OneRead(j) /\ InTouch(j)
  BY DEF AppInv
<1>2. /\ loaded' = {} /\ memory' = memory /\ stored' = stored /\ fetched' = fetched
      /\ \A k \in Stores : ops'[k] = Append(ops[k], Get)
      /\ ops' = [k \in Stores |-> Append(ops[k], Get)]
  BY DEF Mount
<1>3. \A k \in Stores : ~HasGet(ops[k]) /\ fetched[k] = <<>>
  <2>1. CASE screen = "off"
    BY <2>1, NoOperations DEF AppInv, Room, Running
  <2>2. CASE screen # "off"
    BY <1>1, <2>2 DEF AppInv, Hydrated, OneRead
  <2> QED BY <2>1, <2>2
<1>4. ASSUME NEW k \in Stores
      PROVE  /\ ops'[k] \in Seq(Ops) /\ Len(ops'[k]) = Len(ops[k]) + 1
             /\ \A x, s : Agree(ops[k], x, s) => Agree(ops'[k], x, s)
             /\ \A n : WipedAt(ops[k], n) => WipedAt(ops'[k], n)
             /\ \A n : WipedAt(ops[k], n) /\ ReadsAfter(ops[k], n) => ReadsAfter(ops'[k], n)
             /\ NoGrants(ops[k]) => NoGrants(ops'[k])
             /\ OneGet(ops'[k]) /\ GetLast(ops'[k])
  <2>1. ops[k] \in Seq(Ops) /\ Get \in Ops /\ Get.do = "get"
    BY <1>1, OperationsAreOps DEF StoresTyped
  <2> QED BY <1>2, <1>3, <2>1, AppendIs, AddGet
<1>5. StoresTyped'
  BY <1>1, <1>2, <1>4 DEF StoresTyped
<1>6. ASSUME NEW k \in Stores PROVE OneRead(k)' /\ InTouch(k)'
  BY <1>1, <1>2, <1>3, <1>4 DEF OneRead, InTouch
<1>7. ASSUME wiped' = wiped, overtaken' = overtaken PROVE Wiped'
  BY <1>1, <1>2, <1>4, <1>7 DEF Wiped, Stores
<1> QED BY <1>4, <1>5, <1>6, <1>7

LEMMA LaunchStep == ASSUME AppInv, Launch PROVE AppInv'
<1>1. /\ screen = "off" /\ Mount /\ astray' = astray /\ now' = now
      /\ wiped' = wiped /\ overtaken' = overtaken
      /\ session' = session /\ screen' = "boot"
      /\ \E a \in {Nobody, session} : account' = a /\ seen' = a /\ wallet' = a
  BY DEF Launch, Mount
<1>2. AppTyped'
  BY <1>1 DEF AppInv, AppTyped
<1>3. /\ StoresTyped' /\ \A j \in Stores : OneRead(j)' /\ InTouch(j)'
      /\ \A k \in Stores : Len(ops'[k]) = Len(ops[k]) + 1
      /\ Wiped'
  BY <1>1, MountKeeps
<1>4. Room'
  <2>1. \A k \in Stores : Len(ops[k]) = 0
    BY <1>1, Nothing DEF AppInv, Room, Running
  <2> QED BY <1>1, <1>3, <2>1, SessionAssumption DEF AppInv, Room, Running
<1> QED BY <1>1, <1>2, <1>3, <1>4 DEF AppInv, Hydrated

LEMMA OpenRootStep == ASSUME AppInv, OpenRoot PROVE AppInv'
<1>1. /\ screen \notin {"off", "boot"} /\ Mount /\ astray' = astray
      /\ wiped' = wiped /\ overtaken' = overtaken /\ now' = now /\ session' = session /\ screen' = "boot"
      /\ account' = account /\ seen' = seen /\ wallet' = wallet
      /\ \A k \in Stores : Len(ops[k]) < MaxOps
  BY DEF OpenRoot, Mount
<1>2. AppTyped'
  BY <1>1 DEF AppInv, AppTyped
<1>3. /\ StoresTyped' /\ \A j \in Stores : OneRead(j)' /\ InTouch(j)'
      /\ \A k \in Stores : Len(ops'[k]) = Len(ops[k]) + 1
      /\ Wiped'
  BY <1>1, MountKeeps
<1>4. Room'
  <2>1. \A k \in Stores : Len(ops[k]) \in Nat
    BY LenProperties DEF AppInv, StoresTyped
  <2>2. \A k \in Stores : Len(ops'[k]) <= MaxOps
    BY <1>1, <1>3, <2>1, SessionAssumption
  <2> QED BY <1>1, <1>3, <2>1, <2>2, SessionAssumption DEF Room, Running, Stores
<1> QED BY <1>1, <1>2, <1>3, <1>4 DEF AppInv, Hydrated

LEMMA KillStep == ASSUME AppInv, Kill PROVE AppInv'
<1>1. /\ session' = session /\ account' = Nobody /\ seen' = Nobody /\ wallet' = Nobody
      /\ screen' = "off" /\ now' = now /\ stored' = stored /\ loaded' = {} /\ astray' = {}
      /\ memory' = [k \in Stores |-> 0] /\ ops' = [k \in Stores |-> <<>>]
      /\ fetched' = [k \in Stores |-> <<>>]
      /\ wiped' = (IF wiped = "done" THEN "done" ELSE "no") /\ overtaken' = FALSE
  BY DEF Kill
<1>2. AppTyped'
  BY <1>1 DEF AppInv, AppTyped
<1>3. StoresTyped'
  BY <1>1, Nothing, OperationsAreOps DEF AppInv, StoresTyped
<1>4. Room' /\ Hydrated'
  BY <1>1, Nothing, SessionAssumption DEF Room, Hydrated, Running, Stores
<1>5. \A k \in Stores : OneRead(k)' /\ InTouch(k)'
  BY <1>1, NoOperations DEF OneRead, InTouch
<1>6. Wiped'
  <2>1. wiped' = "done" => stored["delegation"] \in Empty
    BY <1>1 DEF AppInv, Wiped
  <2>2. wiped' # "asked"
    BY <1>1
  <2> QED BY <1>1, <2>1, <2>2, NoOperations DEF Wiped, Stores
<1> QED BY <1>2, <1>3, <1>4, <1>5, <1>6 DEF AppInv

LEMMA QuietPhone ==
  ASSUME AppInv, memory' = memory, stored' = stored, ops' = ops, fetched' = fetched,
         loaded' = loaded, astray' = astray, wiped' = wiped, overtaken' = overtaken
  PROVE  StoresTyped' /\ Wiped' /\ \A k \in Stores : OneRead(k)' /\ InTouch(k)'
BY SameStore DEF AppInv, StoresTyped, Wiped

\* The wallet, the clock and the screens, as far as no store is set.
LEMMA QuietStep ==
  ASSUME AppInv,
         \/ Tick \/ Disconnect \/ Learn \/ Redirect \/ LeaveConnect
         \/ \E w \in Wallets : Approve(w)
         \/ \E w \in Wallets \cup {Nobody} : SessionChanges(w)
         \/ WalletSync /\ account # Nobody
  PROVE  AppInv'
<1>1. StoresTyped' /\ Wiped' /\ \A k \in Stores : OneRead(k)' /\ InTouch(k)'
  BY QuietPhone DEF Tick, Disconnect, Learn, Redirect, LeaveConnect,
                    Approve, SessionChanges, WalletSync, phone
<1>2. ops' = ops /\ loaded' = loaded /\ fetched' = fetched
      /\ wiped' = wiped /\ overtaken' = overtaken
  BY DEF Tick, Disconnect, Learn, Redirect, LeaveConnect,
         Approve, SessionChanges, WalletSync, phone
<1>3. \A k \in Stores : Len(ops[k]) \in Nat
  BY LenProperties DEF AppInv, StoresTyped
<1>4. AppTyped /\ Room /\ Hydrated
  BY DEF AppInv
<1>5. CASE Tick
  <2>1. /\ now < MaxTime /\ now' = now + 1 /\ session' = session /\ account' = account
        /\ seen' = seen /\ wallet' = wallet /\ screen' = screen
    BY <1>5 DEF Tick
  <2>2. now' \in 0 .. MaxTime
    BY <1>4, <2>1, SessionAssumption DEF AppTyped
  <2> QED BY <1>1, <1>2, <1>4, <2>1, <2>2 DEF AppInv, AppTyped, Room, Hydrated, Running
<1>6. CASE Disconnect \/ Learn
  <2>1. /\ now' = now /\ account' = session' /\ session' \in {session, Nobody}
        /\ seen' = seen /\ wallet' = wallet /\ screen' = screen /\ Running
        /\ \A k \in Stores : Len(ops[k]) < MaxOps
    BY <1>6 DEF Disconnect, Learn, Running
  <2>2. Len(ops["delegation"]) <= MaxOps
    BY <1>3, <2>1, SessionAssumption DEF Stores
  <2> QED BY <1>1, <1>2, <1>4, <2>1, <2>2 DEF AppInv, AppTyped, Room, Hydrated, Running
<1>7. CASE Redirect \/ LeaveConnect
  <2>1. /\ now' = now /\ account' = account /\ session' = session
        /\ seen' = seen /\ wallet' = wallet /\ screen # "off"
        /\ screen' \in {"connect", "delegate", "select-tokens", "home"}
        /\ loaded = Stores
    BY <1>4, <1>7 DEF Redirect, LeaveConnect, Hydrated
  <2> QED BY <1>1, <1>2, <1>4, <2>1 DEF AppInv, AppTyped, Room, Hydrated, Running
<1>8. ASSUME NEW w \in Wallets, Approve(w) PROVE AppInv'
  <2>1. /\ now' = now /\ account' = w /\ session' = w /\ account = Nobody
        /\ seen' = seen /\ wallet' = wallet /\ screen' = screen /\ Running
    BY <1>8 DEF Approve, Running
  <2> QED BY <1>1, <1>2, <1>4, <2>1 DEF AppInv, AppTyped, Room, Hydrated, Running
<1>9. ASSUME NEW w \in Wallets \cup {Nobody}, SessionChanges(w) PROVE AppInv'
  <2>1. /\ now' = now /\ account' = account /\ session' = w
        /\ seen' = seen /\ wallet' = wallet /\ screen' = screen
    BY <1>9 DEF SessionChanges
  <2> QED BY <1>1, <1>2, <1>4, <2>1 DEF AppInv, AppTyped, Room, Hydrated, Running
<1>10. CASE WalletSync /\ account # Nobody
  <2>1. /\ now' = now /\ account' = account /\ session' = session
        /\ seen' = account /\ wallet' = account /\ screen' = screen /\ Running
    BY <1>10 DEF WalletSync
  <2> QED BY <1>1, <1>2, <1>4, <1>10, <2>1 DEF AppInv, AppTyped, Room, Hydrated, Running
<1> QED BY <1>5, <1>6, <1>7, <1>8, <1>9, <1>10

\* The delegation is cleared: the wipe is asked for, or done already.
LEMMA ClearStep == ASSUME AppInv, WalletSync, account = Nobody PROVE AppInv'
<1>1. /\ Set("delegation", 0, <<Delete>>) /\ account # seen /\ Running
      /\ wiped' = (IF wiped = "done" THEN "done" ELSE "asked")
      /\ overtaken' = Hydrating("delegation")
      /\ now' = now /\ account' = account /\ session' = session
      /\ seen' = account /\ wallet' = account /\ screen' = screen
  BY DEF WalletSync, Clear, AskToWipe
<1>2. "delegation" \in Stores /\ 0 \in Values
  BY OperationsAreOps DEF Stores
<1>3. StoresTyped /\ AppTyped /\ Room /\ Hydrated /\ Wiped
  BY DEF AppInv
<1>4. StoresTyped' /\ \A k \in Stores : OneRead(k)' /\ InTouch(k)'
  BY <1>1, <1>2, SetKeeps
<1> DEFINE d == ops["delegation"]
           g == ops'["delegation"]
<1>5. /\ memory'["delegation"] = 0 /\ stored' = stored /\ fetched' = fetched /\ loaded' = loaded
      /\ \A k \in Stores \ {"delegation"} : ops'[k] = ops[k]
      /\ WipedAt(g, Len(g))
      /\ ~HasGet(d) => ReadsAfter(g, Len(g))
      /\ NoGrants(d) => NoGrants(g)
      /\ Len(d) \in Nat /\ Len(g) <= Len(d) + 2
  BY <1>1, <1>2, <1>3, SetIs
<1>6. AppTyped' /\ Hydrated'
  <2>1. overtaken' \in BOOLEAN
    BY <1>1 DEF Hydrating
  <2> QED BY <1>1, <1>3, <1>5, <2>1 DEF AppTyped, Hydrated
<1>7. Room'
  <2>1. Len(d) <= MaxOps
    BY <1>1, <1>3 DEF Room
  <2>2. g \in Seq(Ops)
    BY <1>4, <1>2 DEF StoresTyped
  <2>3. Len(g) <= MaxOps + 2
    <3>1. Len(g) \in Nat
      BY <2>2, LenProperties
    <3> QED BY <1>5, <2>1, <3>1, SessionAssumption
  <2>4. \A k \in Stores : Len(ops'[k]) <= MaxOps + 2
    BY <1>3, <1>5, <2>3 DEF Room
  <2> QED BY <1>1, <2>4 DEF Room, Running
<1>8. Wiped'
  <2>1. Len(g) \in Nat
    BY <1>2, <1>4, LenProperties DEF StoresTyped
  <2>2. ~overtaken' => ~HasGet(d) /\ fetched["delegation"] = <<>>
    BY <1>1, HydratingIs
  <2>3. WipedAt(g, Len(g)) /\ (overtaken' \/ ReadsAfter(g, Len(g)))
    BY <1>5, <2>2
  <2>4. wiped' = "done" => wiped = "done"
    BY <1>1
  <2>5. wiped' = "done" => stored'["delegation"] \in Empty /\ NoGrants(g)
    BY <1>3, <1>5, <2>4 DEF Wiped
  <2>6. ~overtaken' => fetched'["delegation"] = <<>>
    BY <1>5, <2>2
  <2> QED BY <1>5, <2>1, <2>3, <2>5, <2>6 DEF Wiped
<1> QED BY <1>4, <1>6, <1>7, <1>8 DEF AppInv

LEMMA DelegateStep == ASSUME AppInv, Delegate PROVE AppInv'
<1>1. /\ Set("delegation", now + 1, <<>>) /\ account # Nobody /\ screen = "delegate"
      /\ Len(ops["delegation"]) < MaxOps /\ wiped' = "no" /\ overtaken' = FALSE /\ screen' = "select-tokens"
      /\ now' = now /\ account' = account /\ session' = session
      /\ seen' = seen /\ wallet' = wallet
  BY DEF Delegate
<1>2. "delegation" \in Stores /\ now + 1 \in Values
  BY SessionAssumption DEF Stores, Values, AppInv, AppTyped
<1>3. StoresTyped /\ AppTyped /\ Room /\ Hydrated
  BY DEF AppInv
<1>4. StoresTyped' /\ \A k \in Stores : OneRead(k)' /\ InTouch(k)'
  BY <1>1, <1>2, SetKeeps
<1>5. /\ loaded' = loaded /\ \A k \in Stores \ {"delegation"} : ops'[k] = ops[k]
      /\ Len(ops["delegation"]) \in Nat
      /\ Len(ops'["delegation"]) = Len(ops["delegation"]) + 1
  BY <1>1, <1>2, <1>3, SetIs
<1>6. AppTyped' /\ Hydrated'
  BY <1>1, <1>3, <1>5 DEF AppTyped, Hydrated
<1>7. Room'
  <2>1. Len(ops'["delegation"]) <= MaxOps + 2
    BY <1>1, <1>5, SessionAssumption
  <2> QED BY <1>1, <1>3, <1>5, <2>1 DEF Room, Running
<1> QED BY <1>1, <1>4, <1>6, <1>7 DEF AppInv, Wiped

LEMMA CompleteStep == ASSUME AppInv, Complete PROVE AppInv'
<1>1. /\ Set("onboarding", 1, <<>>) /\ account # Nobody /\ screen = "select-tokens"
      /\ Len(ops["onboarding"]) < MaxOps /\ wiped' = wiped /\ overtaken' = overtaken /\ screen' = "home"
      /\ now' = now /\ account' = account /\ session' = session
      /\ seen' = seen /\ wallet' = wallet
  BY DEF Complete
<1>2. "onboarding" \in Stores /\ "delegation" \in Stores \ {"onboarding"}
      /\ 1 \in Values
  BY OperationsAreOps DEF Stores
<1>3. StoresTyped /\ AppTyped /\ Room /\ Hydrated /\ Wiped
  BY DEF AppInv
<1>4. StoresTyped' /\ \A k \in Stores : OneRead(k)' /\ InTouch(k)'
  BY <1>1, <1>2, SetKeeps
<1>5. /\ loaded' = loaded /\ stored' = stored /\ fetched' = fetched
      /\ \A k \in Stores \ {"onboarding"} : ops'[k] = ops[k] /\ memory'[k] = memory[k]
      /\ Len(ops["onboarding"]) \in Nat
      /\ Len(ops'["onboarding"]) = Len(ops["onboarding"]) + 1
  BY <1>1, <1>2, <1>3, SetIs
<1>6. AppTyped' /\ Hydrated'
  BY <1>1, <1>3, <1>5 DEF AppTyped, Hydrated
<1>7. Room'
  <2>1. Len(ops'["onboarding"]) <= MaxOps + 2
    BY <1>1, <1>5, SessionAssumption
  <2> QED BY <1>1, <1>2, <1>3, <1>5, <2>1 DEF Room, Running
<1>8. Wiped'
  BY <1>1, <1>2, <1>3, <1>5 DEF Wiped
<1> QED BY <1>4, <1>6, <1>7, <1>8 DEF AppInv

\* The phone does, or fails to do, the first operation of a store.
LEMMA StoreIs ==
  ASSUME StoresTyped, NEW k \in Stores, NEW ok \in BOOLEAN, Store(k, ok)
  PROVE  /\ StoresTyped'
         /\ ops[k] \in Seq(Ops) /\ ops[k] # <<>> /\ ops[k][1] \in Ops /\ ops'[k] = Tail(ops[k])
         /\ stored'[k] = IF ok THEN After(ops[k][1], stored[k]) ELSE stored[k]
         /\ fetched'[k] = IF ops[k][1].do # "get" THEN fetched[k]
                          ELSE <<IF ok THEN stored[k] ELSE Absent>>
         /\ \A j \in Stores \ {k} :
              ops'[j] = ops[j] /\ stored'[j] = stored[j] /\ fetched'[j] = fetched[j]
         /\ memory' = memory /\ loaded' = loaded
         /\ astray' = IF ok THEN astray ELSE astray \cup {k}
         /\ overtaken' = overtaken
         /\ wiped' = IF k = "delegation" THEN WipedAfter(ops[k][1], Tail(ops[k]), ok) ELSE wiped
<1> DEFINE op == ops[k][1]
<1>1. /\ ops[k] \in Seq(Ops) /\ ops[k] # <<>> /\ op \in Ops /\ Head(ops[k]) = op
      /\ Tail(ops[k]) \in Seq(Ops)
  BY TailIs DEF StoresTyped, Store
<1>2. /\ ops' = [ops EXCEPT ![k] = Tail(@)]
      /\ stored' = IF ~ok \/ op.do = "get" THEN stored
                   ELSE [stored EXCEPT ![k] = IF op.do = "set" THEN op.value ELSE Absent]
      /\ fetched' = IF op.do # "get" THEN fetched
                    ELSE [fetched EXCEPT ![k] = <<IF ok THEN stored[k] ELSE Absent>>]
      /\ wiped' = (IF k = "delegation" THEN WipedAfter(op, Tail(ops[k]), ok) ELSE wiped)
      /\ overtaken' = overtaken
      /\ astray' = (IF ok THEN astray ELSE astray \cup {k})
      /\ memory' = memory /\ loaded' = loaded
  BY <1>1 DEF Store
<1> HIDE DEF op
<1>3. ops' \in [Stores -> Seq(Ops)] /\ ops'[k] = Tail(ops[k])
      /\ \A j \in Stores \ {k} : ops'[j] = ops[j]
  BY <1>1, <1>2 DEF StoresTyped
<1>4. op.do = "set" => op.value \in Values
  BY <1>1 DEF Ops
<1>5. /\ stored' \in [Stores -> Values \cup {Absent}]
      /\ stored'[k] = IF ok THEN After(op, stored[k]) ELSE stored[k]
      /\ \A j \in Stores \ {k} : stored'[j] = stored[j]
  BY <1>2, <1>4 DEF StoresTyped, After
<1>6. /\ fetched' \in [Stores -> Seq(Values \cup {Absent})]
      /\ fetched'[k] = IF op.do # "get" THEN fetched[k] ELSE <<IF ok THEN stored[k] ELSE Absent>>
      /\ \A j \in Stores \ {k} : fetched'[j] = fetched[j]
  <2> DEFINE found == IF ok THEN stored[k] ELSE Absent
  <2>1. found \in Values \cup {Absent}
    BY DEF StoresTyped
  <2>2. fetched' = IF op.do # "get" THEN fetched ELSE [fetched EXCEPT ![k] = <<found>>]
    BY <1>2
  <2> HIDE DEF found
  <2>3. <<found>> \in Seq(Values \cup {Absent})
    BY <2>1
  <2>4. /\ fetched' \in [Stores -> Seq(Values \cup {Absent})]
        /\ fetched'[k] = IF op.do # "get" THEN fetched[k] ELSE <<found>>
        /\ \A j \in Stores \ {k} : fetched'[j] = fetched[j]
    BY <2>2, <2>3 DEF StoresTyped
  <2> QED BY <2>4 DEF found
<1>7. StoresTyped'
  BY <1>2, <1>3, <1>5, <1>6 DEF StoresTyped
<1> QED BY <1>1, <1>2, <1>3, <1>5, <1>6, <1>7 DEF op

LEMMA StoreStep ==
  ASSUME AppInv, NEW k \in Stores, NEW ok \in BOOLEAN, Store(k, ok)
  PROVE  AppInv'
<1> DEFINE d == ops[k]
           op == d[1]
           s == stored[k]
<1>1. AppTyped /\ StoresTyped /\ Room /\ Hydrated /\ Wiped /\ OneRead(k) /\ InTouch(k)
      /\ \A j \in Stores : OneRead(j) /\ InTouch(j)
  BY DEF AppInv
<1>2. /\ StoresTyped'
      /\ d \in Seq(Ops) /\ d # <<>> /\ op \in Ops /\ ops'[k] = Tail(d)
      /\ stored'[k] = IF ok THEN After(op, s) ELSE s
      /\ fetched'[k] = IF op.do # "get" THEN fetched[k] ELSE <<IF ok THEN s ELSE Absent>>
      /\ \A j \in Stores \ {k} :
           ops'[j] = ops[j] /\ stored'[j] = stored[j] /\ fetched'[j] = fetched[j]
      /\ memory' = memory /\ loaded' = loaded
      /\ astray' = IF ok THEN astray ELSE astray \cup {k}
      /\ overtaken' = overtaken
      /\ wiped' = IF k = "delegation" THEN WipedAfter(op, Tail(d), ok) ELSE wiped
  BY <1>1, StoreIs
<1>3. session' = session /\ account' = account /\ seen' = seen /\ wallet' = wallet
      /\ screen' = screen /\ now' = now
  BY DEF Store
<1>4. AppTyped' /\ Hydrated'
  BY <1>1, <1>2, <1>3 DEF AppTyped, Hydrated, WipedAfter
<1>5. /\ \A x : Agree(d, x, s) => Agree(Tail(d), x, After(op, s))
      /\ WipedAt(d, 1) => Wipes(op) /\ \A i \in DOMAIN Tail(d) : Tail(d)[i].do = "get"
      /\ \A n : WipedAt(d, n) /\ n # 1 =>
           /\ n - 1 \in Nat /\ WipedAt(Tail(d), n - 1)
           /\ ReadsAfter(d, n) => op.do # "get" /\ ReadsAfter(Tail(d), n - 1)
      /\ NoGrants(d) => ~Grants(op) /\ NoGrants(Tail(d))
      /\ HasGet(Tail(d)) => HasGet(d)
      /\ OneGet(d) => OneGet(Tail(d)) /\ (op.do = "get" => ~HasGet(Tail(d)))
      /\ op.do = "get" => HasGet(d)
      /\ GetLast(d) => GetLast(Tail(d)) /\ (op.do = "get" => Tail(d) = <<>>)
  BY <1>2, DoFirst, SessionAssumption
<1>6. Len(Tail(d)) \in Nat /\ Len(d) \in Nat /\ Len(Tail(d)) <= Len(d) /\ 1 \in DOMAIN d
      /\ DOMAIN d = 1 .. Len(d)
  BY <1>2, TailIs
<1> HIDE DEF d, op, s
<1>7. Room'
  <2>1. \A j \in Stores : Len(ops[j]) \in Nat
    BY <1>1, LenProperties DEF StoresTyped
  <2>2. \A j \in Stores : Len(ops'[j]) \in Nat /\ Len(ops'[j]) <= Len(ops[j])
    <3>1. Len(ops'[k]) \in Nat /\ Len(ops'[k]) <= Len(ops[k])
      BY <1>2, <1>6 DEF d
    <3>2. \A j \in Stores \ {k} : Len(ops'[j]) \in Nat /\ Len(ops'[j]) <= Len(ops[j])
      BY <1>2, <2>1
    <3> QED BY <3>1, <3>2
  <2>3. Running
    BY <1>1, <1>2 DEF Room, d
  <2>4. "delegation" \in Stores
    BY DEF Stores
  <2>5. \A j \in Stores : Len(ops'[j]) <= MaxOps + 2
    BY <1>1, <2>1, <2>2, SessionAssumption DEF Room
  <2>6. account = Nobody /\ seen # Nobody => Len(ops'["delegation"]) <= MaxOps
    BY <1>1, <2>1, <2>2, <2>4, SessionAssumption DEF Room
  <2> QED BY <1>3, <2>3, <2>5, <2>6 DEF Room, Running
<1>8. OneRead(k)'
  BY <1>1, <1>2, <1>5 DEF OneRead, d
<1>9. InTouch(k)'
  <2> SUFFICES ASSUME k \notin astray'
               PROVE  /\ (k \notin loaded /\ memory[k] = 0)
                           \/ Agree(ops'[k], memory[k], stored'[k])
                      /\ GetLast(ops'[k])
                      /\ fetched'[k] # <<>> => ops'[k] = <<>> /\ fetched'[k][1] = stored'[k]
    BY <1>2 DEF InTouch
  <2>1. ok /\ k \notin astray
    BY <1>2
  <2>2. /\ (k \notin loaded /\ memory[k] = 0) \/ Agree(d, memory[k], s)
        /\ GetLast(d)
        /\ fetched[k] = <<>>
    BY <1>1, <1>2, <2>1 DEF InTouch, d, s
  <2>3. stored'[k] = After(op, s)
    BY <1>2, <2>1
  <2>4. op.do = "get" => fetched'[k] = <<s>> /\ stored'[k] = s /\ Tail(d) = <<>>
    BY <1>2, <1>5, <2>1, <2>2, <2>3 DEF After
  <2> QED BY <1>2, <1>5, <2>2, <2>3, <2>4
<1>10. \A j \in Stores : OneRead(j)' /\ InTouch(j)'
  <2> SUFFICES ASSUME NEW j \in Stores \ {k} PROVE OneRead(j)' /\ InTouch(j)'
    BY <1>8, <1>9
  <2> QED BY <1>1, <1>2, SameStore
<1>11. Wiped'
  <2>1. CASE k # "delegation"
    <3>1. "delegation" \in Stores \ {k}
      BY <2>1 DEF Stores
    <3> QED BY <1>1, <1>2, <2>1, <3>1 DEF Wiped
  <2>2. CASE k = "delegation"
    <3> DEFINE r == Tail(d)
    <3>1. wiped' = WipedAfter(op, r, ok)
      BY <1>2, <2>2
    <3> HIDE DEF r
    <3>2. op.do \in {"get", "set", "delete"} /\ (op.do # "set" => op.value = 0)
      BY <1>2 DEF Ops
    \* What the phone has after a wipe or after nothing was granted.
    <3>3. Wipes(op) /\ ok => stored'[k] \in Empty
      BY <1>2, <3>2 DEF Wipes, After, Empty
    <3>4. ~Grants(op) /\ s \in Empty => stored'[k] \in Empty
      BY <1>2, <3>2 DEF Grants, After, Empty
    <3>5. CASE wiped = "no"
      <4>1. wiped' = "no"
        BY <3>1, <3>5 DEF WipedAfter
      <4> QED BY <4>1 DEF Wiped
    <3>6. CASE wiped = "done"
      <4>1. wiped' = "done"
        BY <3>1, <3>6 DEF WipedAfter
      <4>2. s \in Empty /\ NoGrants(d)
        BY <1>1, <2>2, <3>6 DEF Wiped, d, s
      <4>3. stored'[k] \in Empty /\ NoGrants(r)
        BY <1>5, <3>4, <4>2 DEF r
      <4>4. op.do = "get" => fetched'[k][1] \in Empty
        BY <1>2, <4>2 DEF Empty
      <4>5. op.do # "get" => fetched'[k] = fetched[k]
        BY <1>2
      <4>6. ~overtaken => memory[k] = 0 /\ (fetched[k] # <<>> => fetched[k][1] \in Empty)
        BY <1>1, <2>2, <3>6 DEF Wiped
      <4>7. ~overtaken' => memory'[k] = 0 /\ (fetched'[k] # <<>> => fetched'[k][1] \in Empty)
        BY <1>2, <4>4, <4>5, <4>6
      <4> QED BY <1>2, <2>2, <4>1, <4>3, <4>7 DEF Wiped, r
    <3>7. CASE wiped = "asked"
      <4>1. PICK n \in Nat : WipedAt(d, n) /\ (overtaken \/ ReadsAfter(d, n))
        BY <1>1, <2>2, <3>7 DEF Wiped, d
      <4>2. ~overtaken => memory[k] = 0 /\ (fetched[k] # <<>> => fetched[k][1] \in Empty)
        BY <1>1, <2>2, <3>7 DEF Wiped
      <4>3. ~overtaken => op.do # "get"
        <5>1. CASE n = 1
          BY <1>5, <4>1, <5>1 DEF Wipes
        <5>2. CASE n # 1
          BY <1>5, <4>1, <5>2
        <5> QED BY <5>1, <5>2
      <4>4. ~overtaken' => memory'[k] = 0 /\ (fetched'[k] # <<>> => fetched'[k][1] \in Empty)
        BY <1>2, <4>2, <4>3
      <4>5. CASE wiped' = "done"
        <5>1. ok /\ Wipes(op) /\ NoGrants(r)
          BY <3>1, <3>7, <4>5 DEF WipedAfter, NoGrants
        <5> QED BY <1>2, <2>2, <3>3, <4>4, <4>5, <5>1 DEF Wiped, r
      <4>6. CASE wiped' = "asked"
        <5>1. \E i \in DOMAIN r : Wipes(r[i])
          BY <3>1, <3>7, <4>6 DEF WipedAfter
        <5>2. n # 1
          BY <1>5, <4>1, <5>1 DEF Wipes, r
        <5>3. n - 1 \in Nat /\ WipedAt(r, n - 1) /\ (overtaken \/ ReadsAfter(r, n - 1))
          BY <1>5, <4>1, <5>2 DEF r
        <5> QED BY <1>2, <2>2, <4>4, <4>6, <5>3 DEF Wiped, r
      <4>7. CASE wiped' = "no"
        BY <4>7 DEF Wiped
      <4> QED BY <3>1, <3>7, <4>5, <4>6, <4>7 DEF WipedAfter
    <3> QED BY <1>1, <3>5, <3>6, <3>7 DEF AppTyped
  <2> QED BY <2>1, <2>2
<1> QED BY <1>2, <1>4, <1>7, <1>10, <1>11 DEF AppInv

LEMMA RehydrateStep ==
  ASSUME AppInv, NEW k \in Stores, Rehydrate(k)
  PROVE  AppInv'
<1> DEFINE found == fetched[k][1]
           merged == IF found = Absent THEN memory[k] ELSE found
<1>1. AppTyped /\ StoresTyped /\ Room /\ Hydrated /\ Wiped
      /\ \A j \in Stores : OneRead(j) /\ InTouch(j)
  BY DEF AppInv
<1>2. /\ fetched[k] # <<>> /\ loaded' = loaded \cup {k}
      /\ fetched' = [fetched EXCEPT ![k] = <<>>]
      /\ memory' = [memory EXCEPT ![k] = merged]
      /\ session' = session /\ account' = account /\ seen' = seen /\ wallet' = wallet
      /\ stored' = stored /\ ops' = ops /\ screen' = screen /\ now' = now
      /\ wiped' = wiped /\ overtaken' = overtaken /\ astray' = astray
  BY DEF Rehydrate
<1>3. found \in Values \cup {Absent}
  BY <1>1, <1>2, TailIs DEF StoresTyped
<1>4. merged \in Values
  BY <1>1, <1>3 DEF StoresTyped
<1> HIDE DEF merged, found
<1>5. /\ memory'[k] = merged /\ fetched'[k] = <<>>
      /\ \A j \in Stores \ {k} : memory'[j] = memory[j] /\ fetched'[j] = fetched[j]
      /\ memory' \in [Stores -> Values]
      /\ fetched' \in [Stores -> Seq(Values \cup {Absent})]
  <2>1. << >> \in Seq(Values \cup {Absent})
    BY Nothing
  <2> QED BY <1>1, <1>2, <1>4, <2>1 DEF StoresTyped
<1>6. AppTyped' /\ StoresTyped' /\ Hydrated'
  BY <1>1, <1>2, <1>5 DEF AppTyped, StoresTyped, Hydrated
<1>7. Room'
  <2>1. Running
    BY <1>1, <1>2 DEF Room
  <2> QED BY <1>1, <1>2, <2>1 DEF Room, Running
<1>8. OneRead(k)'
  BY <1>1, <1>2, <1>5 DEF OneRead
<1>9. InTouch(k)'
  <2> SUFFICES ASSUME k \notin astray
               PROVE  Agree(ops[k], merged, stored[k]) /\ GetLast(ops[k])
    BY <1>2, <1>5 DEF InTouch
  <2>1. /\ (k \notin loaded /\ memory[k] = 0) \/ Agree(ops[k], memory[k], stored[k])
        /\ GetLast(ops[k]) /\ ops[k] = <<>> /\ found = stored[k]
    BY <1>1, <1>2 DEF InTouch, found
  <2>2. merged = Found(stored[k])
    BY <2>1, NoOperations DEF merged, Found
  <2> QED BY <2>1, <2>2, NoOperations
<1>10. \A j \in Stores : OneRead(j)' /\ InTouch(j)'
  <2> SUFFICES ASSUME NEW j \in Stores \ {k} PROVE OneRead(j)' /\ InTouch(j)'
    BY <1>8, <1>9
  <2> QED BY <1>1, <1>2, <1>5, SameStore
<1>11. Wiped'
  <2>1. CASE k # "delegation"
    <3>1. "delegation" \in Stores \ {k}
      BY <2>1 DEF Stores
    <3> QED BY <1>1, <1>2, <1>5, <3>1 DEF Wiped
  <2>2. CASE k = "delegation"
    <3>1. wiped # "no" /\ ~overtaken => found \in Empty /\ memory[k] = 0
      BY <1>1, <1>2, <2>2 DEF Wiped, found
    <3>2. wiped # "no" /\ ~overtaken => merged = 0
      BY <3>1 DEF merged, Empty
    <3> QED BY <1>1, <1>2, <1>5, <2>2, <3>2 DEF Wiped
  <2> QED BY <2>1, <2>2
<1> QED BY <1>6, <1>7, <1>10, <1>11 DEF AppInv

-----------------------------------------------------------------------------
LEMMA InitAppInv == ASSUME SessionInit PROVE AppInv
<1>1. /\ session \in Wallets \cup {Nobody}
      /\ account = Nobody /\ seen = Nobody /\ wallet = Nobody
      /\ memory = [k \in Stores |-> 0] /\ stored = [k \in Stores |-> Absent]
      /\ ops = [k \in Stores |-> <<>>] /\ fetched = [k \in Stores |-> <<>>]
      /\ loaded = {} /\ screen = "off" /\ now = 0 /\ wiped = "no" /\ overtaken = FALSE
      /\ astray = {}
  BY DEF SessionInit
<1>2. AppTyped
  <2>1. 0 \in 0 .. MaxTime
    BY SessionAssumption
  <2> QED BY <1>1, <2>1 DEF AppTyped
<1>3. StoresTyped
  BY <1>1, Nothing, OperationsAreOps DEF StoresTyped
<1>4. Room /\ Hydrated /\ Wiped
  BY <1>1, Nothing, SessionAssumption DEF Room, Hydrated, Wiped, Running, Stores
<1>5. \A k \in Stores : OneRead(k) /\ InTouch(k)
  BY <1>1, NoOperations DEF OneRead, InTouch
<1> QED BY <1>2, <1>3, <1>4, <1>5 DEF AppInv

LEMMA NextAppInv == ASSUME AppInv, [SessionNext]_(sessionVars) PROVE AppInv'
<1>1. CASE Launch \/ OpenRoot \/ Kill
  BY <1>1, LaunchStep, OpenRootStep, KillStep
<1>2. CASE WalletSync /\ account = Nobody
  BY <1>2, ClearStep
<1>3. CASE Delegate \/ Complete
  BY <1>3, DelegateStep, CompleteStep
<1>4. ASSUME NEW k \in Stores, NEW ok \in BOOLEAN, Store(k, ok) PROVE AppInv'
  BY <1>4, StoreStep
<1>5. ASSUME NEW k \in Stores, Rehydrate(k) PROVE AppInv'
  BY <1>5, RehydrateStep
<1>6. CASE \/ Tick \/ Disconnect \/ Learn \/ Redirect \/ LeaveConnect
           \/ \E w \in Wallets : Approve(w)
           \/ \E w \in Wallets \cup {Nobody} : SessionChanges(w)
           \/ WalletSync /\ account # Nobody
  BY <1>6, QuietStep
<1>7. CASE UNCHANGED sessionVars
  <2>1. /\ memory' = memory /\ stored' = stored /\ ops' = ops /\ fetched' = fetched
        /\ loaded' = loaded /\ astray' = astray /\ wiped' = wiped /\ overtaken' = overtaken
        /\ session' = session
        /\ account' = account /\ seen' = seen /\ wallet' = wallet /\ screen' = screen
        /\ now' = now
    BY <1>7 DEF sessionVars, phone
  <2> QED BY <2>1, QuietPhone DEF AppInv, AppTyped, Room, Hydrated, Running
<1> QED BY <1>1, <1>2, <1>3, <1>4, <1>5, <1>6, <1>7 DEF SessionNext

LEMMA AlwaysAppInv == SessionSpec => []AppInv
<1>1. SessionInit => AppInv
  BY InitAppInv
<1>2. AppInv /\ [SessionNext]_(sessionVars) => AppInv'
  BY NextAppInv
<1> QED BY <1>1, <1>2, PTL DEF SessionSpec

(***************************************************************************)
(* The app's variables have their types, and no more than two operations   *)
(* of a store pile up beyond the bound the app's own steps observe.        *)
(***************************************************************************)
THEOREM AppTypes == SessionSpec => []SessionTypeOK
<1>1. AppInv => SessionTypeOK
  <2> SUFFICES ASSUME AppInv PROVE SessionTypeOK
    OBVIOUS
  <2>1. AppTyped /\ StoresTyped /\ Room
    BY DEF AppInv
  <2>2. ASSUME NEW k \in Stores
        PROVE  /\ \A i \in DOMAIN ops[k] : ops[k][i].value \in Values
               /\ fetched[k] # <<>> => fetched[k][1] \in Values \cup {Absent}
    <3>1. ops[k] \in Seq(Ops) /\ fetched[k] \in Seq(Values \cup {Absent})
      BY <2>1 DEF StoresTyped
    <3>2. \A i \in DOMAIN ops[k] : ops[k][i] \in Ops
      BY <3>1, LenProperties, ElementOfSeq
    <3>3. \A op \in Ops : op.value \in Values
      BY OperationsAreOps DEF Ops
    <3> QED BY <3>1, <3>2, <3>3, TailIs
  <2> QED BY <2>1, <2>2 DEF SessionTypeOK, AppTyped, StoresTyped, Room
<1> QED BY <1>1, AlwaysAppInv, PTL

(***************************************************************************)
(* What a disconnect asked for stays under way until one of its two        *)
(* operations took effect, both failed or the app was killed; once one     *)
(* took effect no operation under way, hydration, kill, launch or other    *)
(* wallet gives the phone a delegation before the user delegates again;    *)
(* and the store has none either, but for the rest of a life of the app in *)
(* which the disconnect met a hydration under way.                         *)
(***************************************************************************)
THEOREM DisconnectWipes == SessionSpec => []WipeHolds
<1>1. AppInv => WipeHolds
  <2> SUFFICES ASSUME AppInv PROVE WipeHolds
    OBVIOUS
  <2>1. Wiped
    BY DEF AppInv
  <2> DEFINE d == ops["delegation"]
  <2>2. wiped = "asked" => \E i \in DOMAIN d : Wipes(d[i])
    BY <2>1 DEF Wiped, WipedAt
  <2>3. wiped = "done" => ~\E i \in DOMAIN d : Grants(d[i])
    BY <2>1 DEF Wiped, NoGrants
  <2> QED BY <2>1, <2>2, <2>3 DEF WipeHolds, Wiped, Empty
<1> QED BY <1>1, AlwaysAppInv, PTL

(***************************************************************************)
(* What the next launch would restore is what the app shows now, once its  *)
(* writes have reached the phone, for a store that was hydrated, did not   *)
(* change under a hydration and met no failure.                            *)
(***************************************************************************)
THEOREM LaunchRestores == SessionSpec => []RestartRestores
<1>1. AppInv => RestartRestores
  <2> SUFFICES ASSUME AppInv, NEW k \in loaded \ astray,
                      ~Pending(k, "set"), ~Pending(k, "delete")
               PROVE  memory[k] = (IF stored[k] = Absent THEN 0 ELSE stored[k])
    BY DEF RestartRestores
  <2>1. k \in Stores /\ ops[k] \in Seq(Ops)
    BY DEF AppInv, StoresTyped
  <2>2. \A i \in DOMAIN ops[k] : ops[k][i] \in Ops
    BY <2>1, LenProperties, ElementOfSeq
  <2>3. \A i \in DOMAIN ops[k] : ops[k][i].do = "get"
    BY <2>2 DEF Pending, Ops
  <2>4. Agree(ops[k], memory[k], stored[k])
    BY <2>1 DEF AppInv, InTouch
  <2> QED BY <2>3, <2>4 DEF Agree, Found
<1> QED BY <1>1, AlwaysAppInv, PTL

-----------------------------------------------------------------------------
(***************************************************************************)
(* The app's calls of the backend, for any number of presses, limits and   *)
(* retries (ApiCalls).                                                     *)
(***************************************************************************)
Errors == ErrorCode \cup {"limit", "failed"}
Thrown == {ErrorHandler(e) : e \in Errors}
Statuses == {"none", "PENDING", "PROCESSING", "COMPLETED", "FAILED"}
Steps == {"none", "arriving", "check", "write", "finish", "answered"}
PollSteps == {"off", "waiting", "backoff", "idle", "stopped"}
Served == {[status |-> 200, code |-> s] : s \in Statuses}

MutationTyped ==
  /\ kind \in [Presses -> Kinds \cup {"none"}]
  /\ request \in [Presses -> Steps]
  /\ answer \in [Presses -> {Ok, NoAnswer} \cup Thrown]
  /\ told \in [Presses -> Told]
  /\ raised \in [Presses -> ErrorCode \cup {"none"}]
  /\ done \in [Presses -> 0 .. 1]
  /\ broken \subseteq Presses
QueryTyped ==
  /\ status \in [Presses -> Statuses]
  /\ poll \in [Presses -> [step : PollSteps, failures : 0 .. Retries]]
  /\ reply \in [Presses -> {NoAnswer} \cup Served \cup Thrown]
  /\ shown \in [Presses -> Statuses]
UsedTyped ==
  /\ used \in [Kinds \cup {"get"} -> Nat]
  /\ \A route \in Kinds : used[route] <= MaxPost
  /\ used["get"] <= MaxGet

(***************************************************************************)
(* What is written, thrown, answered and told of a press, step by step; an *)
(* error that names a reason, or the limit, was thrown before any write.   *)
(***************************************************************************)
Course(p) ==
  /\ request[p] # "none" => kind[p] \in Kinds
  /\ request[p] \in {"none", "arriving", "check", "write"} => done[p] = 0
  /\ request[p] = "finish" => done[p] = 1
  /\ request[p] # "answered" => raised[p] = "none"
  /\ request[p] = "answered" =>
       \/ answer[p] = Ok /\ raised[p] = "none" /\ done[p] = 1
       \/ /\ answer[p] \in Thrown /\ raised[p] = answer[p].code
          /\ raised[p] \in Refusals[kind[p]] \cup {"RATE_LIMITED"} => done[p] = 0
  /\ told[p] # "nothing" =>
       /\ request[p] # "none"
       /\ p \notin broken =>
            request[p] = "answered" /\ told[p] = IF raised[p] = "none" THEN "ok" ELSE raised[p]
  /\ p \in broken => told[p] = "Something Went Wrong"

ApiInv == MutationTyped /\ QueryTyped /\ UsedTyped /\ \A p \in Presses : Course(p)

-----------------------------------------------------------------------------
\* The way of an error ends at the code the server threw.
LEMMA ErrorsAre ==
  ASSUME NEW e \in Errors
  PROVE  LET a == ErrorHandler(e)
         IN  /\ a.code \in ErrorCode /\ a.status \in Nat /\ a.status # 200
             /\ a.code = IF e = "limit" THEN "RATE_LIMITED"
                         ELSE IF e = "failed" THEN "INTERNAL_ERROR" ELSE e
             /\ HandleResponse(a) = a.code
             /\ GetErrorMessage(a.code) = a.code
<1> DEFINE a == ErrorHandler(e)
<1>1. \A c \in ErrorCode :
        /\ STATUS_MAP(c) \in 400 .. 504
        /\ STATUS_MAP(c) = 429 <=> c = "RATE_LIMITED"
        /\ c # "none" /\ c # "limit" /\ c # "failed"
  BY DEF STATUS_MAP, ErrorCode
<1>2. "RATE_LIMITED" \in ErrorCode /\ "INTERNAL_ERROR" \in ErrorCode
  BY DEF ErrorCode
<1>3. \E c \in ErrorCode, n \in 400 .. 504 :
        /\ a = [status |-> n, code |-> c]
        /\ n = 429 <=> c = "RATE_LIMITED"
        /\ c = IF e = "limit" THEN "RATE_LIMITED" ELSE IF e = "failed" THEN "INTERNAL_ERROR" ELSE e
  <2>1. CASE e \in ErrorCode
    <3>1. a = [status |-> STATUS_MAP(e), code |-> e]
      BY <1>1, <2>1 DEF ErrorHandler
    <3> QED BY <1>1, <2>1, <3>1
  <2>2. CASE e = "limit"
    <3>1. a = [status |-> 429, code |-> "RATE_LIMITED"]
      BY <1>1, <2>2 DEF ErrorHandler
    <3>2. 429 \in 400 .. 504
      OBVIOUS
    <3> QED BY <1>2, <2>2, <3>1, <3>2
  <2>3. CASE e = "failed"
    <3>1. a = [status |-> 500, code |-> "INTERNAL_ERROR"]
      BY <1>1, <2>3 DEF ErrorHandler
    <3>2. 500 \in 400 .. 504
      OBVIOUS
    <3> QED BY <1>2, <2>3, <3>1, <3>2
  <2> QED BY <2>1, <2>2, <2>3 DEF Errors
<1>4. PICK c \in ErrorCode, n \in 400 .. 504 :
        /\ a = [status |-> n, code |-> c]
        /\ n = 429 <=> c = "RATE_LIMITED"
        /\ c = IF e = "limit" THEN "RATE_LIMITED" ELSE IF e = "failed" THEN "INTERNAL_ERROR" ELSE e
  BY <1>3
<1> HIDE DEF a
<1>5. a.code = c /\ a.status = n /\ n \in Nat /\ n # 200 /\ n \notin 200 .. 299 /\ c # "none"
  BY <1>1, <1>4
<1>6. HandleResponse(a) = c
  BY <1>4, <1>5 DEF HandleResponse
<1>7. GetErrorMessage(c) = c
  BY DEF GetErrorMessage, UserMessages
<1> QED BY <1>4, <1>5, <1>6, <1>7 DEF a

LEMMA RefusalsAre ==
  ASSUME NEW k \in Kinds
  PROVE  /\ Refusals[k] \subseteq ErrorCode \ {"INTERNAL_ERROR", "RATE_LIMITED"}
         /\ "ok" \notin Refusals[k] /\ "Something Went Wrong" \notin Refusals[k]
<1>1. CASE k = "withdraw"
  <2>1. Refusals[k] = {"VALIDATION_ERROR", "INSUFFICIENT_FUNDS"}
    BY <1>1 DEF Refusals
  <2> QED BY <2>1 DEF ErrorCode
<1>2. CASE k = "register"
  <2>1. Refusals[k] = {"VALIDATION_ERROR", "INVALID_SIGNATURE", "SESSION_KEY_EXPIRED"}
    BY <1>2 DEF Refusals
  <2> QED BY <2>1 DEF ErrorCode
<1>3. CASE k = "revoke"
  <2>1. Refusals[k] = {"VALIDATION_ERROR", "NOT_FOUND", "SESSION_KEY_REVOKED"}
    BY <1>3 DEF Refusals
  <2> QED BY <2>1 DEF ErrorCode
<1> QED BY <1>1, <1>2, <1>3 DEF Kinds

LEMMA MessagesAre ==
  /\ ErrorCode \subseteq Told /\ {"nothing", "ok", "Something Went Wrong"} \subseteq Told
  /\ \A c \in ErrorCode : c \notin {"none", "nothing", "ok", "Something Went Wrong"}
  /\ HandleResponse(Ok) = "ok"
  /\ GetErrorMessage("") = "Something Went Wrong"
  /\ GetErrorMessage(HandleResponse(BadGateway)) = "Something Went Wrong"
BY DEF Told, UserMessages, ErrorCode, HandleResponse, Ok, BadGateway,
       GetErrorMessage

-----------------------------------------------------------------------------
(***************************************************************************)
(* Mutations.                                                              *)
(***************************************************************************)
LEMMA SameCourse ==
  ASSUME NEW q \in Presses, Course(q),
         kind'[q] = kind[q], request'[q] = request[q], answer'[q] = answer[q],
         told'[q] = told[q], raised'[q] = raised[q], done'[q] = done[q],
         q \in broken' <=> q \in broken
  PROVE  Course(q)'
BY DEF Course

LEMMA ServerThrows ==
  ASSUME ApiInv, NEW p \in Presses, NEW e \in Errors, Throw(p, e),
         request[p] \in {"arriving", "check", "write", "finish"},
         request[p] = "finish" => e = "failed",
         kind' = kind, told' = told, done' = done, broken' = broken
  PROVE  MutationTyped' /\ \A q \in Presses : Course(q)'
<1> DEFINE a == ErrorHandler(e)
<1>1. MutationTyped /\ \A q \in Presses : Course(q)
  BY DEF ApiInv
<1>2. /\ a \in Thrown /\ a.code \in ErrorCode
      /\ a.code = IF e = "limit" THEN "RATE_LIMITED"
                  ELSE IF e = "failed" THEN "INTERNAL_ERROR" ELSE e
  BY ErrorsAre DEF Thrown
<1>3. /\ request' = [request EXCEPT ![p] = "answered"]
      /\ answer' = [answer EXCEPT ![p] = a] /\ raised' = [raised EXCEPT ![p] = a.code]
  BY DEF Throw, Go
<1> HIDE DEF a
<1>4. /\ request'[p] = "answered" /\ answer'[p] = a /\ raised'[p] = a.code
      /\ \A q \in Presses \ {p} :
           request'[q] = request[q] /\ answer'[q] = answer[q] /\ raised'[q] = raised[q]
      /\ request' \in [Presses -> Steps]
      /\ answer' \in [Presses -> {Ok, NoAnswer} \cup Thrown]
      /\ raised' \in [Presses -> ErrorCode \cup {"none"}]
  BY <1>1, <1>2, <1>3 DEF MutationTyped, Steps
<1>5. MutationTyped'
  BY <1>1, <1>4 DEF MutationTyped
<1>6. Course(p)'
  <2>1. kind[p] \in Kinds /\ (request[p] # "finish" => done[p] = 0)
    BY <1>1 DEF Course
  <2>2. a.code \in Refusals[kind[p]] \cup {"RATE_LIMITED"} => done[p] = 0
    BY <1>2, <2>1, RefusalsAre
  <2>3. told[p] # "nothing" => p \in broken
    BY <1>1 DEF Course
  <2>4. p \in broken => told[p] = "Something Went Wrong"
    BY <1>1 DEF Course
  <2> QED BY <1>2, <1>4, <2>1, <2>2, <2>3, <2>4 DEF Course
<1> QED BY <1>1, <1>4, <1>5, <1>6, SameCourse

LEMMA ServerGoes ==
  ASSUME ApiInv, NEW p \in Presses, NEW step, Go(p, step),
         \/ request[p] = "arriving" /\ step = "check"
         \/ request[p] = "check" /\ step = "write"
         \/ request[p] = "write" /\ step = "finish"
         \/ request[p] = "finish" /\ step = "answered",
         answer' = IF step = "answered" THEN [answer EXCEPT ![p] = Ok] ELSE answer,
         done' = IF step = "finish" THEN [done EXCEPT ![p] = @ + 1] ELSE done,
         kind' = kind, told' = told, raised' = raised, broken' = broken
  PROVE  MutationTyped' /\ \A q \in Presses : Course(q)'
<1>1. MutationTyped /\ \A q \in Presses : Course(q)
  BY DEF ApiInv
<1>2. step \in Steps /\ request' = [request EXCEPT ![p] = step]
  BY DEF Go, Steps
<1>3. /\ request' \in [Presses -> Steps] /\ request'[p] = step
      /\ \A q \in Presses \ {p} : request'[q] = request[q]
  BY <1>1, <1>2 DEF MutationTyped
<1>4. /\ answer' \in [Presses -> {Ok, NoAnswer} \cup Thrown]
      /\ step = "answered" => answer'[p] = Ok
      /\ \A q \in Presses \ {p} : answer'[q] = answer[q]
  BY <1>1 DEF MutationTyped
<1>5. /\ done' \in [Presses -> 0 .. 1]
      /\ done'[p] = IF step \in {"finish", "answered"} THEN 1 ELSE 0
      /\ \A q \in Presses \ {p} : done'[q] = done[q]
  <2>1. done[p] = IF step = "answered" THEN 1 ELSE 0
    BY <1>1 DEF Course
  <2> QED BY <1>1, <2>1 DEF MutationTyped
<1>6. MutationTyped'
  BY <1>1, <1>3, <1>4, <1>5 DEF MutationTyped
<1>7. Course(p)'
  <2>1. kind[p] \in Kinds /\ raised[p] = "none"
    BY <1>1 DEF Course
  <2>2. told[p] # "nothing" => p \in broken
    BY <1>1 DEF Course
  <2>3. p \in broken => told[p] = "Something Went Wrong"
    BY <1>1 DEF Course
  <2> QED BY <1>3, <1>4, <1>5, <2>1, <2>2, <2>3 DEF Course
<1> QED BY <1>1, <1>3, <1>4, <1>5, <1>6, <1>7, SameCourse

LEMMA ServerStep ==
  ASSUME ApiInv, NEW p \in Presses,
         Arrive(p) \/ Check(p) \/ WriteRow(p) \/ Finish(p)
  PROVE  MutationTyped' /\ \A q \in Presses : Course(q)'
<1>1. kind' = kind /\ told' = told /\ broken' = broken
  BY DEF Arrive, Check, WriteRow, Finish
<1>2. "limit" \in Errors /\ "failed" \in Errors
  BY DEF Errors
<1>3. CASE Arrive(p)
  <2>1. request[p] = "arriving" /\ done' = done
    BY <1>3 DEF Arrive
  <2>2. CASE Go(p, "check") /\ answer' = answer /\ raised' = raised
    BY <1>1, <2>1, <2>2, ServerGoes
  <2>3. CASE Throw(p, "limit")
    BY <1>1, <1>2, <2>1, <2>3, ServerThrows
  <2> QED BY <1>3, <2>2, <2>3 DEF Arrive
<1>4. CASE Check(p)
  <2>1. request[p] = "check" /\ done' = done
    BY <1>4 DEF Check
  <2>2. CASE Go(p, "write") /\ answer' = answer /\ raised' = raised
    BY <1>1, <2>1, <2>2, ServerGoes
  <2>3. ASSUME NEW e \in Refusals[kind[p]] \cup {"failed"}, Throw(p, e)
        PROVE  MutationTyped' /\ \A q \in Presses : Course(q)'
    <3>1. kind[p] \in Kinds
      BY <2>1 DEF ApiInv, Course
    <3>2. e \in Errors
      BY <3>1, RefusalsAre DEF Errors
    <3> QED BY <1>1, <2>1, <2>3, <3>2, ServerThrows
  <2> QED BY <1>4, <2>2, <2>3 DEF Check
<1>5. CASE WriteRow(p)
  <2>1. request[p] = "write"
    BY <1>5 DEF WriteRow
  <2>2. CASE /\ Go(p, "finish") /\ done' = [done EXCEPT ![p] = @ + 1]
             /\ answer' = answer /\ raised' = raised
    BY <1>1, <2>1, <2>2, ServerGoes
  <2>3. CASE Throw(p, "failed") /\ done' = done
    BY <1>1, <1>2, <2>1, <2>3, ServerThrows
  <2> QED BY <1>5, <2>2, <2>3 DEF WriteRow
<1>6. CASE Finish(p)
  <2>1. request[p] = "finish" /\ done' = done
    BY <1>6 DEF Finish
  <2>2. CASE /\ Go(p, "answered") /\ answer' = [answer EXCEPT ![p] = Ok]
             /\ raised' = raised
    BY <1>1, <2>1, <2>2, ServerGoes
  <2>3. CASE Throw(p, "failed")
    BY <1>1, <1>2, <2>1, <2>3, ServerThrows
  <2> QED BY <1>6, <2>2, <2>3 DEF Finish
<1> QED BY <1>3, <1>4, <1>5, <1>6

LEMMA PressStep ==
  ASSUME ApiInv, NEW p \in Presses, NEW k \in Kinds, Press(p, k)
  PROVE  MutationTyped' /\ \A q \in Presses : Course(q)'
<1>1. MutationTyped /\ \A q \in Presses : Course(q)
  BY DEF ApiInv
<1>2. /\ kind[p] = "none" /\ kind' = [kind EXCEPT ![p] = k]
      /\ request' = [request EXCEPT ![p] = "arriving"]
      /\ answer' = answer /\ told' = told /\ raised' = raised /\ done' = done
      /\ broken' = broken
  BY DEF Press, history
<1>3. MutationTyped'
  BY <1>1, <1>2 DEF MutationTyped, Steps
<1>4. kind'[p] = k /\ request'[p] = "arriving"
      /\ \A q \in Presses \ {p} : kind'[q] = kind[q] /\ request'[q] = request[q]
  BY <1>1, <1>2 DEF MutationTyped
<1>5. Course(p)'
  <2>1. request[p] = "none" /\ told[p] = "nothing"
    BY <1>1, <1>2 DEF Course, Kinds
  <2>2. done[p] = 0 /\ raised[p] = "none" /\ p \notin broken
    BY <1>1, <2>1 DEF Course
  <2> QED BY <1>2, <1>4, <2>1, <2>2 DEF Course
<1> QED BY <1>1, <1>2, <1>3, <1>4, <1>5, SameCourse

\* The user is told.
LEMMA TellStep ==
  ASSUME ApiInv, NEW p \in Presses, ReceiveAnswer(p) \/ BreakCall(p)
  PROVE  MutationTyped' /\ \A q \in Presses : Course(q)'
<1>1. MutationTyped /\ Course(p) /\ \A q \in Presses : Course(q)
  BY DEF ApiInv
<1>2. /\ request[p] # "none" /\ told[p] = "nothing" /\ p \notin broken
      /\ kind' = kind /\ request' = request /\ answer' = answer
      /\ raised' = raised /\ done' = done
  BY <1>1 DEF ReceiveAnswer, BreakCall, history, Course
<1>3. \E text \in Told \ {"nothing"} :
        /\ told' = [told EXCEPT ![p] = text]
        /\ \/ /\ broken' = broken /\ request[p] = "answered"
              /\ text = IF raised[p] = "none" THEN "ok" ELSE raised[p]
           \/ broken' = broken \cup {p} /\ text = "Something Went Wrong"
  <2>1. CASE ReceiveAnswer(p)
    <3> DEFINE code == HandleResponse(answer[p])
               text == IF code = "ok" THEN "ok" ELSE GetErrorMessage(code)
    <3>1. told' = [told EXCEPT ![p] = text] /\ broken' = broken /\ request[p] = "answered"
      BY <2>1 DEF ReceiveAnswer, Tell, history
    <3>2. CASE answer[p] = Ok /\ raised[p] = "none"
      <4>1. text = "ok" /\ "ok" \in Told
        BY <3>2, MessagesAre
      <4> QED BY <3>1, <3>2, <4>1
    <3>3. CASE answer[p] \in Thrown /\ raised[p] = answer[p].code
      <4>1. PICK e \in Errors : answer[p] = ErrorHandler(e)
        BY <3>3 DEF Thrown
      <4>2. code = raised[p] /\ GetErrorMessage(code) = code /\ code \in ErrorCode
        BY <3>3, <4>1, ErrorsAre
      <4>3. text = raised[p] /\ raised[p] # "none" /\ text \in Told \ {"nothing"}
        BY <4>2, MessagesAre
      <4> QED BY <3>1, <4>3
    <3> QED BY <1>1, <3>1, <3>2, <3>3 DEF Course
  <2>2. CASE BreakCall(p)
    <3>1. /\ GetErrorMessage("") = "Something Went Wrong"
          /\ GetErrorMessage(HandleResponse(BadGateway)) = "Something Went Wrong"
          /\ "Something Went Wrong" \in Told
      BY MessagesAre
    <3>2. HandleResponse(BadGateway) = "UNKNOWN"
      BY DEF HandleResponse, BadGateway
    <3>3. told' = [told EXCEPT ![p] = "Something Went Wrong"] /\ broken' = broken \cup {p}
      BY <2>2, <3>1, <3>2 DEF BreakCall, Tell
    <3> QED BY <3>1, <3>3
  <2> QED BY <2>1, <2>2
<1>4. PICK text \in Told \ {"nothing"} :
        /\ told' = [told EXCEPT ![p] = text]
        /\ \/ /\ broken' = broken /\ request[p] = "answered"
              /\ text = IF raised[p] = "none" THEN "ok" ELSE raised[p]
           \/ broken' = broken \cup {p} /\ text = "Something Went Wrong"
  BY <1>3
<1>5. told'[p] = text /\ \A q \in Presses \ {p} : told'[q] = told[q]
  BY <1>1, <1>4 DEF MutationTyped
<1>6. MutationTyped'
  BY <1>1, <1>2, <1>4 DEF MutationTyped
<1>7. Course(p)'
  BY <1>1, <1>2, <1>4, <1>5 DEF Course
<1> QED BY <1>1, <1>2, <1>4, <1>5, <1>6, <1>7, SameCourse

-----------------------------------------------------------------------------
(***************************************************************************)
(* The status query, and the limits.                                       *)
(***************************************************************************)
LEMMA QuietMutation ==
  ASSUME ApiInv, kind' = kind, request' = request, answer' = answer, told' = told,
         raised' = raised, done' = done, broken' = broken
  PROVE  MutationTyped' /\ \A q \in Presses : Course(q)'
BY SameCourse DEF ApiInv, MutationTyped

LEMMA AdmittedTyped ==
  ASSUME UsedTyped, NEW route \in Kinds \cup {"get"},
         Admitted(route, IF route = "get" THEN MaxGet ELSE MaxPost)
  PROVE  UsedTyped'
<1> DEFINE max == IF route = "get" THEN MaxGet ELSE MaxPost
<1>1. used[route] < max /\ used' = [used EXCEPT ![route] = @ + 1]
  BY DEF Admitted
<1>2. max \in Nat /\ used[route] \in Nat
  BY LimitsAssumption DEF UsedTyped
<1> HIDE DEF max
<1>3. used[route] + 1 \in Nat /\ used[route] + 1 <= max
  BY <1>1, <1>2
<1>4. /\ used' \in [Kinds \cup {"get"} -> Nat] /\ used'[route] <= max
      /\ \A r \in Kinds \cup {"get"} : r # route => used'[r] = used[r]
  BY <1>1, <1>3 DEF UsedTyped
<1>5. "get" \notin Kinds
  BY DEF Kinds
<1> QED BY <1>4, <1>5 DEF UsedTyped, max

LEMMA FailsTyped ==
  ASSUME QueryTyped, NEW p \in Presses, QueryFails(p)
  PROVE  poll' \in [Presses -> [step : PollSteps, failures : 0 .. Retries]]
<1> DEFINE next == IF poll[p].failures < Retries
                     THEN [step |-> "backoff", failures |-> poll[p].failures + 1]
                     ELSE [step |-> "idle", failures |-> 0]
<1>1. poll' = [poll EXCEPT ![p] = next]
  BY DEF QueryFails
<1>2. poll[p].failures \in 0 .. Retries
  BY DEF QueryTyped
<1>3. next \in [step : PollSteps, failures : 0 .. Retries]
  <2>1. poll[p].failures < Retries => poll[p].failures + 1 \in 0 .. Retries
    BY <1>2, LimitsAssumption
  <2>2. 0 \in 0 .. Retries
    BY LimitsAssumption
  <2> QED BY <2>1, <2>2 DEF PollSteps
<1> HIDE DEF next
<1> QED BY <1>1, <1>3 DEF QueryTyped

\* The query for a press goes on to another step.
LEMMA StepTyped ==
  ASSUME QueryTyped, NEW p \in Presses, NEW step \in PollSteps,
         poll' = [poll EXCEPT ![p].step = step]
  PROVE  poll' \in [Presses -> [step : PollSteps, failures : 0 .. Retries]]
<1> DEFINE next == [poll[p] EXCEPT !.step = step]
<1>1. next \in [step : PollSteps, failures : 0 .. Retries]
  BY DEF QueryTyped
<1>2. poll' = [poll EXCEPT ![p] = next]
  BY DEF QueryTyped
<1> HIDE DEF next
<1> QED BY <1>1, <1>2 DEF QueryTyped

\* An answer with status 200 carries a status, and no other is taken for one.
LEMMA RepliesAre ==
  ASSUME QueryTyped, NEW p \in Presses, reply[p] # NoAnswer,
         HandleResponse(reply[p]) = "ok"
  PROVE  reply[p].code \in Statuses
<1>1. CASE reply[p] \in Thrown
  <2>1. PICK e \in Errors : reply[p] = ErrorHandler(e)
    BY <1>1 DEF Thrown
  <2>2. HandleResponse(reply[p]) \in ErrorCode
    BY <2>1, ErrorsAre
  <2> QED BY <2>2, MessagesAre
<1>2. CASE reply[p] \in Served
  BY <1>2 DEF Served
<1> QED BY <1>1, <1>2 DEF QueryTyped

LEMMA ReceiveStatusTyped ==
  ASSUME QueryTyped, NEW p \in Presses, ReceiveStatus(p)
  PROVE  QueryTyped'
<1>1. reply' = [reply EXCEPT ![p] = NoAnswer] /\ status' = status /\ reply[p] # NoAnswer
  BY DEF ReceiveStatus
<1>2. reply' \in [Presses -> {NoAnswer} \cup Served \cup Thrown]
  BY <1>1 DEF QueryTyped
<1>3. CASE HandleResponse(reply[p]) = "ok"
  <2> DEFINE s == reply[p].code
             step == IF PollAgain(s) THEN "idle" ELSE "stopped"
             next == [step |-> step, failures |-> 0]
  <2>1. s \in Statuses
    BY <1>1, <1>3, RepliesAre
  <2>2. shown' = [shown EXCEPT ![p] = s] /\ poll' = [poll EXCEPT ![p] = next]
    BY <1>3 DEF ReceiveStatus
  <2>3. next \in [step : PollSteps, failures : 0 .. Retries]
    BY LimitsAssumption DEF PollSteps
  <2> HIDE DEF s, next
  <2> QED BY <1>1, <1>2, <2>1, <2>2, <2>3 DEF QueryTyped
<1>4. CASE HandleResponse(reply[p]) # "ok"
  <2>1. QueryFails(p) /\ shown' = shown
    BY <1>4 DEF ReceiveStatus
  <2>2. poll' \in [Presses -> [step : PollSteps, failures : 0 .. Retries]]
    BY <2>1, FailsTyped
  <2> QED BY <1>1, <1>2, <2>1, <2>2 DEF QueryTyped
<1> QED BY <1>3, <1>4

\* The steps of the query, of the operator and of the limits.
LEMMA QueryStep ==
  ASSUME ApiInv, NEW p \in Presses,
         \/ Process(p) \/ ServeStatus(p) \/ RefuseStatus(p)
         \/ ReceiveStatus(p) \/ BreakStatus(p) \/ Refetch(p)
  PROVE  ApiInv'
<1>1. MutationTyped' /\ \A q \in Presses : Course(q)'
  BY QuietMutation DEF Process, ServeStatus, RefuseStatus, ReceiveStatus,
                       BreakStatus, Refetch, mutation, history
<1>2. QueryTyped /\ UsedTyped
  BY DEF ApiInv
<1>3. CASE Process(p)
  <2>1. \E s \in Statuses : status' = [status EXCEPT ![p] = s]
    BY <1>3 DEF Process, Final, Statuses
  <2>2. used' = used /\ poll' = poll /\ reply' = reply /\ shown' = shown
    BY <1>3 DEF Process, query
  <2> QED BY <1>1, <1>2, <2>1, <2>2 DEF ApiInv, QueryTyped, UsedTyped
<1>4. CASE ServeStatus(p) \/ RefuseStatus(p)
  <2>1. status' = status /\ poll' = poll /\ shown' = shown
    BY <1>4 DEF ServeStatus, RefuseStatus
  <2>2. UsedTyped'
    <3>1. CASE used' = used
      BY <1>2, <3>1 DEF UsedTyped
    <3>2. CASE Admitted("get", MaxGet)
      BY <1>2, <3>2, AdmittedTyped
    <3> QED BY <1>4, <3>1, <3>2 DEF ServeStatus, RefuseStatus
  <2>3. \E a \in Served \cup Thrown : reply' = [reply EXCEPT ![p] = a]
    <3>1. [status |-> 200, code |-> status[p]] \in Served
      BY <1>2 DEF QueryTyped, Served
    <3>2. ErrorHandler("limit") \in Thrown /\ ErrorHandler("failed") \in Thrown
      BY DEF Thrown, Errors
    <3> QED BY <1>4, <3>1, <3>2 DEF ServeStatus, RefuseStatus
  <2>4. QueryTyped'
    BY <1>2, <2>1, <2>3 DEF QueryTyped
  <2> QED BY <1>1, <2>2, <2>4 DEF ApiInv
<1>5. CASE ReceiveStatus(p)
  <2>1. used' = used
    BY <1>5 DEF ReceiveStatus
  <2> QED BY <1>1, <1>2, <1>5, <2>1, ReceiveStatusTyped DEF ApiInv, UsedTyped
<1>6. CASE BreakStatus(p)
  <2>1. /\ used' = used /\ status' = status /\ shown' = shown
        /\ reply' = [reply EXCEPT ![p] = NoAnswer] /\ QueryFails(p)
    BY <1>6 DEF BreakStatus
  <2>2. poll' \in [Presses -> [step : PollSteps, failures : 0 .. Retries]]
    BY <1>2, <2>1, FailsTyped
  <2> QED BY <1>1, <1>2, <2>1, <2>2 DEF ApiInv, QueryTyped, UsedTyped
<1>7. CASE Refetch(p)
  <2>1. /\ used' = used /\ status' = status /\ shown' = shown /\ reply' = reply
        /\ poll' = [poll EXCEPT ![p].step = "waiting"]
    BY <1>7 DEF Refetch
  <2>2. poll' \in [Presses -> [step : PollSteps, failures : 0 .. Retries]]
    BY <1>2, <2>1, StepTyped DEF PollSteps
  <2> QED BY <1>1, <1>2, <2>1, <2>2 DEF ApiInv, QueryTyped, UsedTyped
<1> QED BY <1>3, <1>4, <1>5, <1>6, <1>7

LEMMA MutationStep ==
  ASSUME ApiInv, NEW p \in Presses,
         \/ \E k \in Kinds : Press(p, k)
         \/ Arrive(p) \/ Check(p) \/ WriteRow(p) \/ Finish(p)
         \/ ReceiveAnswer(p) \/ BreakCall(p)
  PROVE  ApiInv'
<1>1. MutationTyped' /\ \A q \in Presses : Course(q)'
  BY PressStep, ServerStep, TellStep
<1>2. QueryTyped /\ UsedTyped
  BY DEF ApiInv
<1>3. UsedTyped'
  <2>1. CASE used' = used
    BY <1>2, <2>1 DEF UsedTyped
  <2>2. CASE Arrive(p) /\ Admitted(kind[p], MaxPost)
    <3>1. kind[p] \in Kinds /\ kind[p] # "get"
      BY <2>2 DEF Arrive, ApiInv, Course, Kinds
    <3> QED BY <1>2, <2>2, <3>1, AdmittedTyped
  <2> QED BY <2>1, <2>2 DEF Press, Arrive, Check, WriteRow, Finish,
                            ReceiveAnswer, BreakCall
<1>4. status' \in [Presses -> Statuses]
  <2>1. CASE status' = status
    BY <1>2, <2>1 DEF QueryTyped
  <2>2. CASE WriteRow(p) /\ status' = [status EXCEPT ![p] = IF kind[p] = "withdraw"
                                                               THEN "PENDING" ELSE @]
    BY <1>2, <2>2 DEF QueryTyped, Statuses
  <2> QED BY <2>1, <2>2 DEF Press, Arrive, Check, WriteRow, Finish,
                            ReceiveAnswer, BreakCall
<1>5. poll' \in [Presses -> [step : PollSteps, failures : 0 .. Retries]]
  <2>1. CASE poll' = poll
    BY <1>2, <2>1 DEF QueryTyped
  <2>2. CASE poll' = [poll EXCEPT ![p].step = "waiting"]
    BY <1>2, <2>2, StepTyped DEF PollSteps
  <2> QED BY <2>1, <2>2 DEF Press, Arrive, Check, WriteRow, Finish,
                            ReceiveAnswer, BreakCall, query
<1>6. reply' = reply /\ shown' = shown
  BY DEF Press, Arrive, Check, WriteRow, Finish, ReceiveAnswer, BreakCall,
         query
<1> QED BY <1>1, <1>2, <1>3, <1>4, <1>5, <1>6 DEF ApiInv, QueryTyped

LEMMA UnusedIs ==
  ASSUME used' = Unused
  PROVE  UsedTyped'
BY LimitsAssumption DEF UsedTyped, Unused

LEMMA NextApiInv == ASSUME ApiInv, [CallsNext]_(callsVars) PROVE ApiInv'
<1>1. CASE WindowEnds
  <2>1. MutationTyped' /\ \A q \in Presses : Course(q)'
    BY <1>1, QuietMutation DEF WindowEnds, mutation, history
  <2>2. UsedTyped'
    BY <1>1, UnusedIs DEF WindowEnds
  <2>3. QueryTyped'
    BY <1>1 DEF ApiInv, QueryTyped, WindowEnds, query
  <2> QED BY <2>1, <2>2, <2>3 DEF ApiInv
<1>2. ASSUME NEW p \in Presses,
             \/ \E k \in Kinds : Press(p, k)
             \/ Arrive(p) \/ Check(p) \/ WriteRow(p) \/ Finish(p)
             \/ ReceiveAnswer(p) \/ BreakCall(p)
      PROVE  ApiInv'
  BY <1>2, MutationStep
<1>3. ASSUME NEW p \in Presses,
             \/ Process(p) \/ ServeStatus(p) \/ RefuseStatus(p)
             \/ ReceiveStatus(p) \/ BreakStatus(p) \/ Refetch(p)
      PROVE  ApiInv'
  BY <1>3, QueryStep
<1>4. CASE UNCHANGED callsVars
  <2>1. /\ MutationTyped' /\ \A q \in Presses : Course(q)'
    BY <1>4, QuietMutation DEF callsVars, mutation, history
  <2> QED BY <1>4, <2>1 DEF ApiInv, QueryTyped, UsedTyped, callsVars, query
<1> QED BY <1>1, <1>2, <1>3, <1>4 DEF CallsNext

LEMMA InitApiInv == ASSUME CallsInit PROVE ApiInv
<1>1. MutationTyped
  <2>1. kind \in [Presses -> Kinds \cup {"none"}] /\ request \in [Presses -> Steps]
    BY DEF CallsInit, Steps
  <2>2. /\ answer \in [Presses -> {Ok, NoAnswer} \cup Thrown]
        /\ raised \in [Presses -> ErrorCode \cup {"none"}]
    <3>1. /\ answer = [p \in Presses |-> NoAnswer]
          /\ raised = [p \in Presses |-> "none"]
      BY DEF CallsInit
    <3> QED BY <3>1
  <2>3. told \in [Presses -> Told]
    BY MessagesAre DEF CallsInit
  <2>4. done \in [Presses -> 0 .. 1] /\ broken \subseteq Presses
    BY DEF CallsInit
  <2> QED BY <2>1, <2>2, <2>3, <2>4 DEF MutationTyped
<1>2. QueryTyped
  BY LimitsAssumption DEF CallsInit, QueryTyped, Statuses, PollSteps
<1>3. UsedTyped
  BY LimitsAssumption DEF CallsInit, UsedTyped, Unused
<1>4. \A p \in Presses : Course(p)
  BY DEF CallsInit, Course
<1> QED BY <1>1, <1>2, <1>3, <1>4 DEF ApiInv

LEMMA AlwaysApiInv == CallsSpec => []ApiInv
<1>1. CallsInit => ApiInv
  BY InitApiInv
<1>2. ApiInv /\ [CallsNext]_(callsVars) => ApiInv'
  BY NextApiInv
<1> QED BY <1>1, <1>2, PTL DEF CallsSpec

(***************************************************************************)
(* No route admits more than its limit in a window, no press is written    *)
(* twice, and a fetch of the status is retried at most Retries times.      *)
(***************************************************************************)
THEOREM CallsTyped == CallsSpec => []CallsTypeOK
<1>1. ApiInv => CallsTypeOK
  BY DEF ApiInv, MutationTyped, QueryTyped, UsedTyped, CallsTypeOK, Steps, PollSteps, Statuses,
         Final
<1> QED BY <1>1, AlwaysApiInv, PTL

(***************************************************************************)
(* What the user is told of a press is what happened on the server, except *)
(* when the connection broke; success means that something was written, a  *)
(* reason of the route or the limit that nothing was.                      *)
(***************************************************************************)
THEOREM UsersAreToldTheTruth == CallsSpec => []ToldIsTrue
<1>1. ApiInv => ToldIsTrue
  <2> SUFFICES ASSUME ApiInv, NEW p \in Presses, told[p] # "nothing"
               PROVE  /\ told[p] = IF p \in broken THEN "Something Went Wrong"
                                   ELSE IF raised[p] = "none" THEN "ok" ELSE raised[p]
                      /\ told[p] = "ok" => done[p] = 1
                      /\ told[p] \in Refusals[kind[p]] \cup {"RATE_LIMITED"} => done[p] = 0
    BY DEF ToldIsTrue
  <2>1. Course(p) /\ kind[p] \in Kinds
    BY DEF ApiInv, Course
  <2>2. CASE p \in broken
    BY <2>1, <2>2, RefusalsAre DEF Course
  <2>3. CASE p \notin broken /\ raised[p] = "none"
    <3>1. \A t \in Thrown : t.code # "none"
      <4> SUFFICES ASSUME NEW e \in Errors PROVE ErrorHandler(e).code # "none"
        BY DEF Thrown
      <4> QED BY ErrorsAre, MessagesAre
    <3>2. told[p] = "ok" /\ request[p] = "answered"
      BY <2>1, <2>3 DEF Course
    <3>3. done[p] = 1
      BY <2>1, <2>3, <3>1, <3>2 DEF Course
    <3> QED BY <2>1, <2>3, <3>2, <3>3, RefusalsAre
  <2>4. CASE p \notin broken /\ raised[p] # "none"
    <3>1. raised[p] \in ErrorCode
      BY <2>4 DEF ApiInv, MutationTyped
    <3> QED BY <2>1, <2>4, <3>1, MessagesAre DEF Course
  <2> QED BY <2>2, <2>3, <2>4
<1> QED BY <1>1, AlwaysApiInv, PTL
=============================================================================

---------------------------- MODULE SessionProofs ----------------------------
(***************************************************************************)
(* Proofs about Session.tla, for any number of clients.                    *)
(*                                                                         *)
(* What the properties need of the dispatcher's tasks are four sets read   *)
(* off the sequence: the clients with a login, a connect or a release in   *)
(* it, and whether sendAll is in it; that no client has two beginnings     *)
(* (login or connect); and that a login stands before the release of its   *)
(* client. Lemmas about appending a task and taking the first one say how  *)
(* these change. On top of them the invariant says that a client whose     *)
(* login or connect is still to come has no player, and that the object a  *)
(* login will make does not exist yet.                                     *)
(*                                                                         *)
(* How many calls of sendAll there can be needs a count: none is more than *)
(* one for each client whose login has begun (SendsBound).                 *)
(***************************************************************************)
EXTENDS Session, FiniteSetTheorems, TLAPS

ConnStates == {"none", "open", "closed", "gone"}

\* The clients with a task of this operation in the sequence.
Of(op, s) == {c \in Clients : \E i \in DOMAIN s : s[i].op = op /\ s[i].client = c}

Begins(t) == t.op \in {"login", "connect"}

\* No client is to begin twice.
Single(s) ==
    \A i, j \in DOMAIN s :
        Begins(s[i]) /\ Begins(s[j]) /\ s[i].client = s[j].client => i = j

\* A login comes before the release of the same client.
Ordered(s) ==
    \A i, j \in DOMAIN s :
        s[i].op = "login" /\ s[j].op = "release" /\ s[i].client = s[j].client => i < j

SendIn(s) == [op |-> "sendAll"] \in Range(s)

Types ==
    /\ conn \in [Clients -> ConnStates]
    /\ parsing \in Clients \cup {NoClient}
    /\ player \in [Clients -> Clients \cup {NoPlayer}]
    /\ owner \in [Clients -> Clients \cup {NoClient}]
    /\ refs \in [Clients -> Int]
    /\ asked \subseteq Clients /\ released \subseteq Clients
    /\ inGame \subseteq Clients /\ leaving \subseteq Clients
    /\ autosend \subseteq Clients
    /\ tasks \in Seq(Task)
    /\ connects \subseteq [client : Clients, player : Clients]
    /\ sends \in Nat

Cut(c) == conn[c] \in {"closed", "gone"}

\* Clients whose connect event is armed.
Waiting == {c \in Clients : \E e \in connects : e.client = c}

\* Where a client stands between its first packet and its release.
Queued ==
    /\ Single(tasks) /\ Ordered(tasks)
    /\ Of("login", tasks) \cup Of("connect", tasks) \cup Waiting \subseteq asked
    /\ (Of("login", tasks) \cup Of("connect", tasks)) \cap Waiting = {}
    /\ \A e, f \in connects : e.client = f.client => e = f
    /\ Of("login", tasks) \cap released = {}
    /\ \A c \in Of("release", tasks) \cup released : Cut(c)
    /\ parsing # NoClient => conn[parsing] = "open"

\* The Player object that the login of c would make.
Unborn(c) ==
    /\ owner[c] = NoClient /\ refs[c] = 0 /\ c \notin inGame \cup leaving
    /\ \A d \in Clients : player[d] # c

\* References, counted by way of the one owner.
Counted ==
    \A p \in Clients :
        refs[p] = (IF owner[p] = NoClient THEN 0 ELSE 1)
                    + (IF p \in inGame \cup leaving THEN 1 ELSE 0)

Bodies ==
    /\ OneController /\ Counted
    /\ \A c \in Of("login", tasks) \cup Of("connect", tasks) \cup Waiting \cup (Clients \ asked) :
          player[c] = NoPlayer
    /\ \A c \in Of("login", tasks) \cup (Clients \ asked) : Unborn(c)
    /\ inGame \cap leaving = {}
    /\ \A p, q \in inGame : p = q

Outputs == AutosendLive /\ (autosend # {} => sends > 0 \/ SendIn(tasks))

SessionInv == Types /\ Queued /\ Bodies /\ Outputs

-----------------------------------------------------------------------------
(* The sequence of tasks. *)

\* A task that begins or ends nothing leaves everything as it is.
LEMMA AppendOther ==
  ASSUME NEW s \in Seq(Task), NEW t \in Task, t.op \in {"logout", "sendAll"}
  PROVE  /\ Append(s, t) \in Seq(Task)
         /\ Single(s) => Single(Append(s, t))
         /\ Ordered(s) => Ordered(Append(s, t))
         /\ \A op \in {"login", "connect", "release"} : Of(op, Append(s, t)) = Of(op, s)
         /\ SendIn(s) => SendIn(Append(s, t))
  <1> DEFINE u == Append(s, t)
  <1>1. /\ u \in Seq(Task) /\ DOMAIN s = 1..Len(s) /\ DOMAIN u = 1..(Len(s) + 1)
        /\ \A i \in DOMAIN s : u[i] = s[i] /\ i \in DOMAIN u
        /\ u[Len(s) + 1] = t /\ Len(s) \in Nat
    OBVIOUS
  <1>2. \A i \in DOMAIN u : i \in DOMAIN s \/ i = Len(s) + 1
    BY <1>1
  <1> HIDE DEF u
  <1>3. Single(s) => Single(u)
    BY <1>1, <1>2 DEF Single, Begins
  <1>4. Ordered(s) => Ordered(u)
    BY <1>1, <1>2 DEF Ordered
  <1>5. ASSUME NEW op \in {"login", "connect", "release"} PROVE Of(op, u) = Of(op, s)
    BY <1>1, <1>2 DEF Of
  <1>6. SendIn(s) => SendIn(u)
    BY <1>1 DEF SendIn, Range
  <1> QED
    BY <1>1, <1>3, <1>4, <1>5, <1>6 DEF u

\* A release may be appended at any time.
LEMMA AppendRelease ==
  ASSUME NEW s \in Seq(Task), NEW c \in Clients
  PROVE  LET u == Append(s, [op |-> "release", client |-> c]) IN
         /\ u \in Seq(Task)
         /\ Single(s) => Single(u)
         /\ Ordered(s) => Ordered(u)
         /\ Of("login", u) = Of("login", s) /\ Of("connect", u) = Of("connect", s)
         /\ Of("release", u) = Of("release", s) \cup {c}
         /\ SendIn(s) => SendIn(u)
  <1> DEFINE t == [op |-> "release", client |-> c]
             u == Append(s, t)
  <1>0. t \in Task /\ t.op = "release" /\ t.client = c
    BY DEF Task
  <1> HIDE DEF t
  <1>1. /\ u \in Seq(Task) /\ DOMAIN s = 1..Len(s) /\ DOMAIN u = 1..(Len(s) + 1)
        /\ \A i \in DOMAIN s : u[i] = s[i] /\ i \in DOMAIN u /\ i < Len(s) + 1
        /\ Len(s) + 1 \in DOMAIN u /\ u[Len(s) + 1] = t
    BY <1>0
  <1>2. \A i \in DOMAIN u : i \in DOMAIN s \/ i = Len(s) + 1
    BY <1>1
  <1> HIDE DEF u
  <1>3. Single(s) => Single(u)
    BY <1>0, <1>1, <1>2 DEF Single, Begins
  <1>4. Ordered(s) => Ordered(u)
    BY <1>0, <1>1, <1>2 DEF Ordered
  <1>5. Of("login", u) = Of("login", s) /\ Of("connect", u) = Of("connect", s)
    BY <1>0, <1>1, <1>2 DEF Of
  <1>6. Of("release", u) = Of("release", s) \cup {c}
    BY <1>0, <1>1, <1>2 DEF Of
  <1>7. SendIn(s) => SendIn(u)
    BY <1>1 DEF SendIn, Range
  <1> QED
    BY <1>1, <1>3, <1>4, <1>5, <1>6, <1>7 DEF u, t

\* A beginning may be appended for a client that has none, a login if it has no
\* release either.
LEMMA AppendBegin ==
  ASSUME NEW s \in Seq(Task), NEW t \in Task, Begins(t), Single(s), Ordered(s),
         t.client \notin Of("login", s) \cup Of("connect", s),
         t.op = "login" => t.client \notin Of("release", s)
  PROVE  /\ Append(s, t) \in Seq(Task) /\ Single(Append(s, t)) /\ Ordered(Append(s, t))
         /\ t.client \in Clients
         /\ \A op \in {"login", "connect", "release"} :
               Of(op, Append(s, t)) = Of(op, s) \cup (IF t.op = op THEN {t.client} ELSE {})
         /\ SendIn(s) => SendIn(Append(s, t))
  <1> DEFINE u == Append(s, t)
  <1>0. t.client \in Clients /\ t.op \in {"login", "connect"}
    BY DEF Task, Begins
  <1>1. /\ u \in Seq(Task) /\ DOMAIN s = 1..Len(s) /\ DOMAIN u = 1..(Len(s) + 1)
        /\ \A i \in DOMAIN s : u[i] = s[i] /\ i \in DOMAIN u /\ i < Len(s) + 1
        /\ Len(s) + 1 \in DOMAIN u /\ u[Len(s) + 1] = t
    OBVIOUS
  <1>2. \A i \in DOMAIN u : i \in DOMAIN s \/ i = Len(s) + 1
    BY <1>1
  <1> HIDE DEF u
  <1>3. \A i \in DOMAIN s : Begins(s[i]) => s[i].client # t.client
    BY <1>0 DEF Of, Begins
  <1>4. Single(u)
    BY <1>1, <1>2, <1>3 DEF Single, Begins
  <1>5. t.op = "login" => \A i \in DOMAIN s : s[i].op = "release" => s[i].client # t.client
    BY <1>0 DEF Of
  <1>6. Ordered(u)
    BY <1>0, <1>1, <1>2, <1>5 DEF Ordered
  <1>7. ASSUME NEW op \in {"login", "connect", "release"}
        PROVE  Of(op, u) = Of(op, s) \cup (IF t.op = op THEN {t.client} ELSE {})
    BY <1>0, <1>1, <1>2 DEF Of
  <1>8. SendIn(s) => SendIn(u)
    BY <1>1 DEF SendIn, Range
  <1> QED
    BY <1>0, <1>1, <1>4, <1>6, <1>7, <1>8 DEF u

\* The first task is taken: a client that begins now does not begin again later, and
\* none that is released now has its login still to come.
LEMMA TailFacts ==
  ASSUME NEW s \in Seq(Task), s # <<>>, Single(s), Ordered(s)
  PROVE  /\ Tail(s) \in Seq(Task) /\ Single(Tail(s)) /\ Ordered(Tail(s))
         /\ Head(s) \in Task
         /\ \A op \in {"login", "connect", "release"} : Of(op, Tail(s)) \subseteq Of(op, s)
         /\ Head(s).op \in {"login", "connect", "release"}
               => Head(s).client \in Of(Head(s).op, s)
         /\ Begins(Head(s))
               => Head(s).client \notin Of("login", Tail(s)) \cup Of("connect", Tail(s))
         /\ Head(s).op = "release" => Head(s).client \notin Of("login", Tail(s))
         /\ Head(s).op # "sendAll" /\ SendIn(s) => SendIn(Tail(s))
  <1> DEFINE u == Tail(s)
  <1>1. /\ u \in Seq(Task) /\ DOMAIN s = 1..Len(s) /\ DOMAIN u = 1..(Len(s) - 1)
        /\ \A i \in DOMAIN u : u[i] = s[i + 1] /\ i + 1 \in DOMAIN s /\ i + 1 # 1
        /\ 1 \in DOMAIN s /\ Head(s) = s[1] /\ Head(s) \in Task
    OBVIOUS
  <1>2. \A i \in DOMAIN s : i = 1 \/ (i - 1 \in DOMAIN u /\ s[i] = u[i - 1])
    BY <1>1
  <1> HIDE DEF u
  <1>3. \A i, j \in DOMAIN u : /\ i + 1 = j + 1 => i = j
                               /\ i + 1 < j + 1 => i < j
    BY <1>1
  <1>4. Single(u)
    BY <1>1, <1>3 DEF Single
  <1>5. Ordered(u)
    BY <1>1, <1>3 DEF Ordered
  <1>6. ASSUME NEW op \in {"login", "connect", "release"} PROVE Of(op, u) \subseteq Of(op, s)
    BY <1>1 DEF Of
  <1>7. Head(s).op \in {"login", "connect", "release"} => Head(s).client \in Of(Head(s).op, s)
    BY <1>1 DEF Of, Task
  <1>8. Begins(Head(s)) => Head(s).client \notin Of("login", u) \cup Of("connect", u)
    BY <1>1 DEF Of, Single, Begins
  <1>9. Head(s).op = "release" => Head(s).client \notin Of("login", u)
    <2>1. \A i \in DOMAIN u : ~(i + 1 < 1)
      BY <1>1
    <2> QED
      BY <1>1, <2>1 DEF Of, Ordered
  <1>10. Head(s).op # "sendAll" /\ SendIn(s) => SendIn(u)
    BY <1>1, <1>2 DEF SendIn, Range
  <1> QED
    BY <1>1, <1>4, <1>5, <1>6, <1>7, <1>8, <1>9, <1>10 DEF u

-----------------------------------------------------------------------------
(* Steps that give the dispatcher nothing new to begin. *)

\* Between the two states no client is to begin that was not before, clients that are
\* cut off stay so, and only such are released.
Shrinks ==
    /\ conn' \in [Clients -> ConnStates]
    /\ tasks' \in Seq(Task) /\ Single(tasks') /\ Ordered(tasks')
    /\ Of("login", tasks') \subseteq Of("login", tasks)
    /\ Of("connect", tasks') \subseteq Of("connect", tasks)
    /\ \A c \in Clients : Cut(c) => Cut(c)'
    /\ \A c \in Of("release", tasks') : c \in Of("release", tasks) \/ Cut(c)'
    /\ parsing' # NoClient => conn'[parsing'] = "open"

\* Such a step keeps every client in its place.
LEMMA QueuedStep ==
  ASSUME SessionInv, Shrinks, asked \subseteq asked', connects' = connects,
         \A c \in released' : c \in released \/ (c \in Clients /\ c \notin Of("login", tasks') /\ Cut(c)')
  PROVE  Queued'
  <1>1. Of("login", tasks') \cup Of("connect", tasks') \cup Waiting' \subseteq asked'
    BY DEF SessionInv, Queued, Shrinks, Waiting
  <1>2. (Of("login", tasks') \cup Of("connect", tasks')) \cap Waiting' = {}
    BY DEF SessionInv, Queued, Shrinks, Waiting
  <1>3. \A e, f \in connects' : e.client = f.client => e = f
    BY DEF SessionInv, Queued
  <1>4. Of("login", tasks') \cap released' = {}
    BY DEF SessionInv, Queued, Shrinks
  <1>5. \A c \in Of("release", tasks') \cup released' : Cut(c)'
    BY DEF SessionInv, Types, Queued, Shrinks, Of
  <1> QED
    BY <1>1, <1>2, <1>3, <1>4, <1>5 DEF Queued, Shrinks

\* Nor does it disturb the players, when it at most removes some from the game.
LEMMA BodiesStep ==
  ASSUME SessionInv, Shrinks, asked \subseteq asked', connects' = connects,
         UNCHANGED <<player, owner, refs>>,
         inGame' \cup leaving' = inGame \cup leaving,
         inGame' \subseteq inGame, inGame' \cap leaving' = {}
  PROVE  Bodies'
  <1>1. OneController'
    BY DEF SessionInv, Bodies, OneController
  <1>2. Counted'
    BY DEF SessionInv, Bodies, Counted
  <1>3. \A c \in Of("login", tasks') \cup Of("connect", tasks') \cup Waiting' \cup (Clients \ asked') :
           player'[c] = NoPlayer
    BY DEF SessionInv, Bodies, Shrinks, Waiting
  <1>4. \A c \in Of("login", tasks') \cup (Clients \ asked') : Unborn(c)'
    BY DEF SessionInv, Bodies, Shrinks, Unborn
  <1>5. \A p, q \in inGame' : p = q
    BY DEF SessionInv, Bodies
  <1> QED
    BY <1>1, <1>2, <1>3, <1>4, <1>5 DEF Bodies

\* The autosend list is served as before while its tasks are not taken.
LEMMA OutputsStep ==
  ASSUME SessionInv, released' = released, UNCHANGED <<autosend, sends>>,
         SendIn(tasks) => SendIn(tasks')
  PROVE  Outputs'
  BY DEF SessionInv, Outputs, AutosendLive

\* Neither queue nor connections change.
LEMMA StillShrinks ==
  ASSUME SessionInv, UNCHANGED <<conn, tasks>>,
         parsing' = parsing \/ parsing' = NoClient \/ conn[parsing'] = "open"
  PROVE  Shrinks
  BY DEF SessionInv, Types, Queued, Shrinks, Cut

\* A task is taken.
LEMMA TakenShrinks ==
  ASSUME SessionInv, UNCHANGED <<conn, parsing>>, tasks # <<>>, tasks' = Tail(tasks)
  PROVE  /\ Shrinks
         /\ Head(tasks).op # "sendAll" => (SendIn(tasks) => SendIn(tasks'))
  <1>1. tasks \in Seq(Task) /\ Single(tasks) /\ Ordered(tasks)
    BY DEF SessionInv, Types, Queued
  <1>2. tasks' \in Seq(Task) /\ Single(tasks') /\ Ordered(tasks')
    BY <1>1, TailFacts
  <1>3. \A op \in {"login", "connect", "release"} : Of(op, tasks') \subseteq Of(op, tasks)
    BY <1>1, TailFacts
  <1>4. Head(tasks).op # "sendAll" => (SendIn(tasks) => SendIn(tasks'))
    BY <1>1, TailFacts
  <1> QED
    BY <1>2, <1>3, <1>4 DEF SessionInv, Types, Queued, Shrinks, Cut

\* A connection is closed, when rest is left of the tasks.
LEMMA CloseShrinks ==
  ASSUME SessionInv, NEW c \in Clients, NEW rest,
         rest = tasks \/ (tasks # <<>> /\ rest = Tail(tasks)),
         CloseBehind(c, rest), parsing' # c, parsing' = parsing \/ parsing' = NoClient
  PROVE  /\ Shrinks
         /\ Of("login", tasks') = Of("login", rest) /\ Of("connect", tasks') = Of("connect", rest)
         /\ rest = tasks \/ Head(tasks).op # "sendAll" => (SendIn(tasks) => SendIn(tasks'))
  <1>1. tasks \in Seq(Task) /\ Single(tasks) /\ Ordered(tasks) /\ conn \in [Clients -> ConnStates]
    BY DEF SessionInv, Types, Queued
  <1>2. /\ rest \in Seq(Task) /\ Single(rest) /\ Ordered(rest)
        /\ \A op \in {"login", "connect", "release"} : Of(op, rest) \subseteq Of(op, tasks)
        /\ rest = tasks \/ Head(tasks).op # "sendAll" => (SendIn(tasks) => SendIn(rest))
    <2>1. CASE rest = tasks
      BY <1>1, <2>1
    <2>2. CASE tasks # <<>> /\ rest = Tail(tasks)
      BY <1>1, <2>2, TailFacts
    <2> QED
      BY <2>1, <2>2
  <1>3. /\ conn' \in [Clients -> ConnStates]
        /\ conn[c] = "open" => Cut(c)'
        /\ \A d \in Clients : Cut(d) => Cut(d)'
        /\ \A d \in Clients \ {c} : conn'[d] = conn[d]
    BY <1>1 DEF CloseBehind, ConnStates, Cut
  <1>4. parsing' # NoClient => conn'[parsing'] = "open"
    BY <1>3 DEF SessionInv, Types, Queued
  <1>5. /\ tasks' \in Seq(Task) /\ Single(tasks') /\ Ordered(tasks')
        /\ Of("login", tasks') = Of("login", rest) /\ Of("connect", tasks') = Of("connect", rest)
        /\ \A d \in Of("release", tasks') : d \in Of("release", rest) \/ Cut(d)'
        /\ SendIn(rest) => SendIn(tasks')
    <2>1. CASE conn[c] = "open"
      <3>1. tasks' = Append(rest, [op |-> "release", client |-> c])
        BY <2>1 DEF CloseBehind
      <3> QED
        BY <1>2, <1>3, <2>1, <3>1, AppendRelease
    <2>2. CASE conn[c] # "open"
      BY <1>2, <2>2 DEF CloseBehind
    <2> QED
      BY <2>1, <2>2
  <1> QED
    BY <1>2, <1>3, <1>4, <1>5 DEF Shrinks
\* A step that touches the tasks, the connections and who is in the game, and
\* nothing else, keeps the invariant.
LEMMA QuietStep ==
  ASSUME SessionInv, Shrinks, asked \subseteq asked', asked' \subseteq Clients,
         parsing' = parsing \/ parsing' \in Clients \cup {NoClient},
         UNCHANGED <<player, owner, refs, released, connects, autosend, sends>>,
         inGame' \cup leaving' = inGame \cup leaving,
         inGame' \subseteq inGame, inGame' \cap leaving' = {},
         SendIn(tasks) => SendIn(tasks')
  PROVE  SessionInv'
  <1>1. Types'
    BY DEF SessionInv, Types, Shrinks
  <1>2. Queued'
    BY QueuedStep
  <1>3. Bodies'
    BY BodiesStep
  <1>4. Outputs'
    BY OutputsStep
  <1> QED
    BY <1>1, <1>2, <1>3, <1>4 DEF SessionInv

\* A logout or a call of sendAll is queued.
LEMMA OtherQueued ==
  ASSUME SessionInv, NEW t \in Task, t.op \in {"logout", "sendAll"},
         tasks' = Append(tasks, t), conn' = conn, parsing' = parsing \/ parsing' = NoClient
  PROVE  Shrinks /\ (SendIn(tasks) => SendIn(tasks'))
  <1>1. tasks \in Seq(Task) /\ Single(tasks) /\ Ordered(tasks)
    BY DEF SessionInv, Types, Queued
  <1>2. /\ tasks' \in Seq(Task) /\ Single(tasks') /\ Ordered(tasks')
        /\ \A op \in {"login", "connect", "release"} : Of(op, tasks') = Of(op, tasks)
        /\ SendIn(tasks) => SendIn(tasks')
    BY <1>1, AppendOther
  <1> QED
    BY <1>2 DEF SessionInv, Types, Queued, Shrinks, Cut

\* Connections come and go.
LEMMA NetStepPreserves ==
  ASSUME SessionInv, NEW c \in Clients, NetStep(c)
  PROVE  SessionInv'
  <1> USE DEF protoVars, worldVars, playerVars, poolVars
  <1>0. inGame \cap leaving = {} /\ asked \subseteq Clients
    BY DEF SessionInv, Bodies, Types
  <1>1. CASE Accept(c)
    <2>1. Shrinks
      BY <1>1 DEF Accept, SessionInv, Types, Queued, Shrinks, Cut, ConnStates
    <2> QED
      BY <1>0, <1>1, <2>1, QuietStep DEF Accept
  <1>2. CASE NetCloses(c)
    <2>1. parsing # c /\ CloseBehind(c, tasks) /\ parsing' = parsing
      BY <1>2 DEF NetCloses, Close
    <2>2. Shrinks /\ (SendIn(tasks) => SendIn(tasks'))
      BY <2>1, CloseShrinks
    <2> QED
      BY <1>0, <1>2, <2>2, QuietStep DEF NetCloses
  <1>3. CASE ConnectionDestroyed(c)
    <2>1. Shrinks
      BY <1>3 DEF ConnectionDestroyed, SessionInv, Types, Queued, Shrinks, Cut, ConnStates
    <2> QED
      BY <1>0, <1>3, <2>1, QuietStep DEF ConnectionDestroyed
  <1>4. CASE ParseBegins(c)
    <2>1. Shrinks
      BY <1>4, StillShrinks DEF ParseBegins
    <2> QED
      BY <1>0, <1>4, <2>1, QuietStep DEF ParseBegins
  <1> QED
    BY <1>1, <1>2, <1>3, <1>4 DEF NetStep

\* A packet is parsed to its end. A first packet finds the connection open, so that its
\* client has nothing queued or released yet.
LEMMA ParsePreserves ==
  ASSUME SessionInv, NEW c \in Clients, ParseEnds(c)
  PROVE  SessionInv'
  <1> USE DEF protoVars, worldVars, playerVars, poolVars
  <1>0. /\ inGame \cap leaving = {} /\ asked \subseteq Clients /\ NoClient # c
        /\ tasks \in Seq(Task) /\ Single(tasks) /\ Ordered(tasks)
    BY SessionAssumption DEF SessionInv, Bodies, Types, Queued
  <1>1. CASE ParseLogin(c)
    <2> DEFINE t == [op |-> "login", client |-> c]
    <2>1. /\ parsing = c /\ c \notin asked /\ asked' = asked \cup {c}
          /\ tasks' = Append(tasks, t) /\ parsing' = NoClient
          /\ UNCHANGED <<conn, player, owner, refs, released, connects, inGame, leaving,
                         autosend, sends>>
      BY <1>1 DEF ParseLogin
    <2>2. ~Cut(c)
      BY <1>0, <2>1 DEF SessionInv, Types, Queued, Cut
    <2>3. c \notin Of("login", tasks) \cup Of("connect", tasks) \cup Of("release", tasks) \cup released
      BY <2>1, <2>2 DEF SessionInv, Queued
    <2>4. t \in Task /\ Begins(t) /\ t.client = c /\ t.op = "login"
      BY DEF Task, Begins
    <2>5. /\ tasks' \in Seq(Task) /\ Single(tasks') /\ Ordered(tasks')
          /\ Of("login", tasks') = Of("login", tasks) \cup {c}
          /\ Of("connect", tasks') = Of("connect", tasks)
          /\ Of("release", tasks') = Of("release", tasks)
          /\ SendIn(tasks) => SendIn(tasks')
      <3> HIDE DEF t
      <3>1. PICK u : u = Append(tasks, t)
        OBVIOUS
      <3>2. /\ u \in Seq(Task) /\ Single(u) /\ Ordered(u) /\ (SendIn(tasks) => SendIn(u))
            /\ \A op \in {"login", "connect", "release"} :
                  Of(op, u) = Of(op, tasks) \cup (IF t.op = op THEN {t.client} ELSE {})
        BY <1>0, <2>3, <2>4, <3>1, AppendBegin
      <3>3. /\ Of("login", u) = Of("login", tasks) \cup {c}
            /\ Of("connect", u) = Of("connect", tasks) /\ Of("release", u) = Of("release", tasks)
        BY <2>4, <3>2
      <3> QED
        BY <2>1, <3>1, <3>2, <3>3
    <2>6. Types'
      BY <2>1, <2>5 DEF SessionInv, Types
    <2>7. Queued'
      <3>1. c \notin Waiting /\ Waiting' = Waiting
        BY <2>1 DEF SessionInv, Queued, Waiting
      <3> QED
        BY <2>1, <2>3, <2>5, <3>1 DEF SessionInv, Queued, Cut
    <2>8. Bodies'
      <3>1. OneController' /\ Counted'
        BY <2>1 DEF SessionInv, Bodies, OneController, Counted
      <3> QED
        BY <2>1, <2>5, <3>1 DEF SessionInv, Bodies, Unborn, Waiting, NoPlayer
    <2>9. Outputs'
      BY <2>1, <2>5, OutputsStep
    <2> QED
      BY <2>6, <2>7, <2>8, <2>9 DEF SessionInv
  <1>2. CASE ParseLogout(c)
    <2> DEFINE t == [op |-> "logout", client |-> c]
    <2>1. /\ tasks' = Append(tasks, t) /\ parsing' = NoClient
          /\ UNCHANGED <<conn, asked, player, owner, refs, released, connects, inGame, leaving,
                         autosend, sends>>
      BY <1>2 DEF ParseLogout
    <2>2. t \in Task /\ t.op = "logout"
      BY DEF Task
    <2>3. Shrinks /\ (SendIn(tasks) => SendIn(tasks'))
      <3> HIDE DEF t
      <3> QED
        BY <2>1, <2>2, OtherQueued
    <2> QED
      BY <1>0, <2>1, <2>3, QuietStep
  <1>3. CASE ParseOther(c)
    <2>1. Shrinks
      BY <1>3, StillShrinks DEF ParseOther
    <2> QED
      BY <1>0, <1>3, <2>1, QuietStep DEF ParseOther
  <1>4. CASE ParseFails(c)
    <2>1. Shrinks /\ (SendIn(tasks) => SendIn(tasks'))
      BY <1>0, <1>4, CloseShrinks DEF ParseFails
    <2> QED
      BY <1>0, <1>4, <2>1, QuietStep DEF ParseFails
  <1> QED
    BY <1>1, <1>2, <1>3, <1>4 DEF ParseEnds

-----------------------------------------------------------------------------
(* Leaving the game. *)

\* Players leave the game by logging out, by being kicked, and by dying: the object
\* goes from the game to the list that Game::cleanup empties.
LEMMA LeavePreserves ==
  ASSUME SessionInv,
         (\E c \in Clients : Logout(c) \/ GameKicks(c) \/ PingTimesOut(c) \/ PlayerDies(c))
  PROVE  SessionInv'
  <1> USE DEF protoVars, worldVars, playerVars, poolVars, connVars
  <1>0. /\ inGame \cap leaving = {} /\ asked \subseteq Clients
        /\ owner \in [Clients -> Clients \cup {NoClient}]
    BY DEF SessionInv, Bodies, Types
  <1>1. ASSUME NEW c \in Clients, Logout(c) PROVE SessionInv'
    <2>1. CASE tasks' = Tail(tasks) /\ UNCHANGED <<conn, worldVars>>
      <3>1. Shrinks /\ (SendIn(tasks) => SendIn(tasks'))
        BY <1>1, <2>1, TakenShrinks DEF Logout, IsNext
      <3> QED
        BY <1>0, <1>1, <2>1, <3>1, QuietStep DEF Logout
    <2>2. CASE LoggedOut(c, Tail(tasks))
      <3>1. Shrinks /\ (SendIn(tasks) => SendIn(tasks'))
        BY <1>1, <2>2, CloseShrinks DEF Logout, IsNext, LoggedOut, Close
      <3>2. /\ inGame' \cup leaving' = inGame \cup leaving
            /\ inGame' \subseteq inGame /\ inGame' \cap leaving' = {}
        BY <1>0, <2>2 DEF LoggedOut
      <3> QED
        BY <1>0, <1>1, <3>1, <3>2, QuietStep DEF Logout
    <2> QED
      BY <1>1, <2>1, <2>2 DEF Logout
  <1>2. ASSUME NEW p \in Clients, p \in inGame, Kicked(p),
               UNCHANGED <<parsing, asked, protoVars, playerVars, connects, poolVars>>
        PROVE  SessionInv'
    <2>1. CASE HasClient(p) /\ LoggedOut(owner[p], tasks)
      <3>1. owner[p] \in Clients
        BY <1>0, <2>1 DEF HasClient
      <3>2. Shrinks /\ (SendIn(tasks) => SendIn(tasks'))
        BY <1>2, <2>1, <3>1, CloseShrinks DEF LoggedOut, Close
      <3>3. /\ inGame' \cup leaving' = inGame \cup leaving
            /\ inGame' \subseteq inGame /\ inGame' \cap leaving' = {}
        BY <1>0, <2>1 DEF LoggedOut
      <3> QED
        BY <1>0, <1>2, <3>2, <3>3, QuietStep
    <2>2. CASE ~HasClient(p) /\ inGame' = inGame \ {p} /\ leaving' = leaving \cup {p}
               /\ UNCHANGED <<conn, tasks>>
      <3>1. Shrinks
        BY <1>2, <2>2, StillShrinks
      <3>2. /\ inGame' \cup leaving' = inGame \cup leaving
            /\ inGame' \subseteq inGame /\ inGame' \cap leaving' = {}
        BY <1>0, <1>2, <2>2
      <3> QED
        BY <1>0, <1>2, <2>2, <3>1, <3>2, QuietStep
    <2> QED
      BY <1>2, <2>1, <2>2 DEF Kicked
  <1>3. ASSUME NEW p \in Clients, PlayerDies(p) PROVE SessionInv'
    <2>1. Shrinks
      BY <1>3, StillShrinks DEF PlayerDies
    <2>2. /\ inGame' \cup leaving' = inGame \cup leaving
          /\ inGame' \subseteq inGame /\ inGame' \cap leaving' = {}
      BY <1>0, <1>3 DEF PlayerDies
    <2> QED
      BY <1>0, <1>3, <2>1, <2>2, QuietStep DEF PlayerDies
  <1> QED
    BY <1>1, <1>2, <1>3 DEF GameKicks, PingTimesOut

\* Game::cleanup gives back the world's reference to each object that has left.
LEMMA CleanupPreserves ==
  ASSUME SessionInv, Cleanup
  PROVE  SessionInv'
  <1> USE DEF protoVars, worldVars, playerVars, poolVars, connVars
  <1>1. Shrinks
    BY StillShrinks DEF Cleanup
  <1>2. Types'
    BY <1>1 DEF SessionInv, Types, Cleanup
  <1>3. Queued'
    BY <1>1, QueuedStep DEF Cleanup, SessionInv, Types
  <1>4. Bodies'
    <2>1. OneController'
      BY DEF Cleanup, SessionInv, Bodies, OneController
    <2>2. Counted'
      BY DEF Cleanup, SessionInv, Bodies, Types, Counted
    <2>3. \A c \in Of("login", tasks') \cup Of("connect", tasks') \cup Waiting' \cup (Clients \ asked') :
             player'[c] = NoPlayer
      BY DEF Cleanup, SessionInv, Bodies, Waiting
    <2>4. \A c \in Of("login", tasks') \cup (Clients \ asked') : Unborn(c)'
      BY DEF Cleanup, SessionInv, Bodies, Unborn, Of
    <2> QED
      BY <2>1, <2>2, <2>3, <2>4 DEF Cleanup, SessionInv, Bodies
  <1>5. Outputs'
    BY OutputsStep DEF Cleanup
  <1> QED
    BY <1>2, <1>3, <1>4, <1>5 DEF SessionInv

\* ProtocolGame::release lets go of the player its client owns.
LEMMA ReleasePreserves ==
  ASSUME SessionInv, NEW c \in Clients, Release(c)
  PROVE  SessionInv'
  <1> USE DEF protoVars, worldVars, playerVars, poolVars, connVars
  <1>1. /\ tasks # <<>> /\ Head(tasks).op = "release" /\ Head(tasks).client = c
        /\ tasks' = Tail(tasks) /\ LetGo(c)
        /\ autosend' = autosend \ {c} /\ released' = released \cup {c}
        /\ UNCHANGED <<conn, parsing, asked, inGame, leaving, connects, sends>>
    BY DEF Release, IsNext
  <1>2. Shrinks /\ (SendIn(tasks) => SendIn(tasks'))
    BY <1>1, TakenShrinks
  <1>3. c \in Of("release", tasks) /\ c \notin Of("login", tasks')
    BY <1>1, TailFacts DEF SessionInv, Types, Queued
  <1>4. Cut(c)
    BY <1>3 DEF SessionInv, Queued
  <1>5. /\ player' \in [Clients -> Clients \cup {NoPlayer}]
        /\ owner' \in [Clients -> Clients \cup {NoClient}]
        /\ refs' \in [Clients -> Int]
    <2>1. CASE player[c] = NoPlayer
      BY <1>1, <2>1 DEF SessionInv, Types, LetGo
    <2>2. CASE player[c] # NoPlayer
      <3>1. /\ player' = [player EXCEPT ![c] = NoPlayer]
            /\ owner' = [owner EXCEPT ![player[c]] = IF @ = c THEN NoClient ELSE @]
            /\ refs' = [refs EXCEPT ![player[c]] = @ - 1]
        BY <1>1, <2>2 DEF LetGo
      <3>2. player' \in [Clients -> Clients \cup {NoPlayer}]
        BY <3>1 DEF SessionInv, Types
      <3>3. owner' \in [Clients -> Clients \cup {NoClient}]
        BY <3>1 DEF SessionInv, Types
      <3>4. refs' \in [Clients -> Int]
        <4>1. refs \in [Clients -> Int] /\ player[c] \in Clients
          BY <2>2 DEF SessionInv, Types
        <4>2. refs[player[c]] - 1 \in Int
          BY <4>1
        <4> QED
          BY <3>1, <4>1, <4>2
      <3> QED
        BY <3>2, <3>3, <3>4
    <2> QED
      BY <2>1, <2>2
  <1>6. Types'
    BY <1>1, <1>2, <1>5 DEF SessionInv, Types, Shrinks
  <1>7. Queued'
    BY <1>1, <1>2, <1>3, <1>4, QueuedStep DEF Shrinks
  <1>8. OneController' /\ Counted'
    <2>1. CASE player[c] = NoPlayer
      BY <1>1, <2>1 DEF LetGo, SessionInv, Bodies, OneController, Counted
    <2>2. CASE player[c] # NoPlayer
      <3>1. player[c] \in Clients /\ owner[player[c]] = c /\ c # NoClient
        BY <2>2, SessionAssumption DEF SessionInv, Types, Bodies, OneController
      <3>2. /\ player' = [player EXCEPT ![c] = NoPlayer]
            /\ owner' = [owner EXCEPT ![player[c]] = NoClient]
            /\ refs' = [refs EXCEPT ![player[c]] = @ - 1]
        BY <1>1, <2>2, <3>1 DEF LetGo, SessionInv, Types
      <3>3. OneController'
        BY <3>1, <3>2, SessionAssumption DEF SessionInv, Types, Bodies, OneController, NoPlayer
      <3>4. Counted'
        BY <1>1, <3>1, <3>2 DEF SessionInv, Types, Bodies, Counted
      <3> QED
        BY <3>3, <3>4
    <2> QED
      BY <2>1, <2>2
  <1>9. \A d \in Clients : /\ player'[d] = player[d] \/ (d = c /\ player'[d] = NoPlayer)
                           /\ Unborn(d) => Unborn(d)'
    BY <1>1, SessionAssumption DEF LetGo, SessionInv, Types, Unborn, NoPlayer
  <1>10. Bodies'
    <2>1. \A d \in Of("login", tasks') \cup Of("connect", tasks') \cup Waiting' \cup (Clients \ asked') :
             player'[d] = NoPlayer
      BY <1>1, <1>2, <1>9 DEF SessionInv, Bodies, Shrinks, Waiting, Of
    <2>2. \A d \in Of("login", tasks') \cup (Clients \ asked') : Unborn(d)'
      BY <1>1, <1>2, <1>9 DEF SessionInv, Bodies, Shrinks, Of
    <2> QED
      BY <1>1, <1>8, <2>1, <2>2 DEF SessionInv, Bodies
  <1>11. Outputs'
    BY <1>1, <1>2 DEF SessionInv, Outputs, AutosendLive
  <1> QED
    BY <1>6, <1>7, <1>10, <1>11 DEF SessionInv

-----------------------------------------------------------------------------
(* Timers, sendAll and connect. *)

\* A call of sendAll runs and is asked for again while a protocol is left.
LEMMA SendAllPreserves ==
  ASSUME SessionInv, SendAll
  PROVE  SessionInv'
  <1> USE DEF protoVars, worldVars, playerVars, poolVars, connVars
  <1>1. Shrinks
    BY TakenShrinks DEF SendAll, IsNext
  <1>2. Types'
    BY <1>1 DEF SessionInv, Types, Shrinks, SendAll
  <1>3. Queued'
    BY <1>1, QueuedStep DEF SendAll, SessionInv, Types
  <1>4. Bodies'
    BY <1>1, BodiesStep DEF SendAll, SessionInv, Types, Bodies
  <1>5. Outputs'
    BY DEF SendAll, SessionInv, Types, Outputs, AutosendLive
  <1> QED
    BY <1>2, <1>3, <1>4, <1>5 DEF SessionInv

\* A timer expires: the call of connect it stands for is queued, or one of sendAll.
LEMMA TimersPreserve ==
  ASSUME SessionInv, Timers
  PROVE  SessionInv'
  <1> USE DEF protoVars, worldVars, playerVars, poolVars, connVars
  <1>1. CASE SendExpires
    <2> DEFINE t == [op |-> "sendAll"]
    <2>1. /\ tasks' = Append(tasks, t) /\ sends' = sends - 1 /\ sends > 0
          /\ UNCHANGED <<conn, parsing, asked, player, owner, refs, released, connects, inGame,
                         leaving, autosend>>
      BY <1>1 DEF SendExpires
    <2>2. t \in Task /\ t.op = "sendAll"
      BY DEF Task
    <2>3. Shrinks
      <3> HIDE DEF t
      <3> QED
        BY <2>1, <2>2, OtherQueued
    <2>4. SendIn(tasks')
      BY <2>1 DEF SendIn, Range, SessionInv, Types
    <2>5. Types'
      BY <2>1, <2>3 DEF SessionInv, Types, Shrinks
    <2>6. Queued'
      BY <2>1, <2>3, QueuedStep
    <2>7. Bodies'
      BY <2>1, <2>3, BodiesStep DEF SessionInv, Types, Bodies
    <2>8. Outputs'
      BY <2>1, <2>4 DEF SessionInv, Outputs, AutosendLive
    <2> QED
      BY <2>5, <2>6, <2>7, <2>8 DEF SessionInv
  <1>2. ASSUME NEW e \in connects, ConnectExpires(e) PROVE SessionInv'
    <2> DEFINE c == e.client
               t == [op |-> "connect", client |-> c, player |-> e.player]
    <2>1. /\ tasks' = Append(tasks, t) /\ connects' = connects \ {e}
          /\ UNCHANGED <<conn, parsing, asked, player, owner, refs, released, inGame, leaving,
                         autosend, sends>>
      BY <1>2 DEF ConnectExpires
    <2>2. e \in [client : Clients, player : Clients]
      BY DEF SessionInv, Types
    <2>3. t \in Task /\ Begins(t) /\ t.client = c /\ t.op = "connect" /\ c \in Clients
      BY <2>2 DEF Task, Begins
    <2>4. c \in Waiting /\ Waiting' = Waiting \ {c}
      BY <2>1, <2>3 DEF SessionInv, Queued, Waiting
    <2>5. c \notin Of("login", tasks) \cup Of("connect", tasks)
      BY <2>4 DEF SessionInv, Queued
    <2> HIDE DEF c, t
    <2>6. /\ tasks' \in Seq(Task) /\ Single(tasks') /\ Ordered(tasks')
          /\ Of("login", tasks') = Of("login", tasks)
          /\ Of("connect", tasks') = Of("connect", tasks) \cup {c}
          /\ Of("release", tasks') = Of("release", tasks)
          /\ SendIn(tasks) => SendIn(tasks')
      BY <2>1, <2>3, <2>5, AppendBegin DEF SessionInv, Types, Queued
    <2>7. Types'
      BY <2>1, <2>6 DEF SessionInv, Types
    <2>8. Queued'
      <3>1. \A d, f \in connects' : d.client = f.client => d = f
        BY <2>1 DEF SessionInv, Queued
      <3> QED
        BY <2>1, <2>4, <2>5, <2>6, <3>1 DEF SessionInv, Queued, Cut
    <2>9. Bodies'
      <3>1. OneController' /\ Counted'
        BY <2>1 DEF SessionInv, Bodies, OneController, Counted
      <3> QED
        BY <2>1, <2>4, <2>6, <3>1 DEF SessionInv, Bodies, Unborn
    <2>10. Outputs'
      BY <2>1, <2>6, OutputsStep
    <2> QED
      BY <2>7, <2>8, <2>9, <2>10 DEF SessionInv
  <1> QED
    BY <1>1, <1>2 DEF Timers

\* The client whose login or connect is taken has no player, and nothing else of its
\* kind is left for it.
LEMMA BeginFacts ==
  ASSUME SessionInv, tasks # <<>>, Begins(Head(tasks))
  PROVE  LET c == Head(tasks).client IN
         /\ c \in asked /\ c \in Clients /\ c \notin Waiting
         /\ player[c] = NoPlayer
         /\ c \notin Of("login", Tail(tasks)) \cup Of("connect", Tail(tasks))
         /\ Head(tasks).op = "login" => Unborn(c) /\ c \notin released
         /\ Head(tasks).op # "sendAll"
  <1>1. Head(tasks).op \in {"login", "connect"}
    BY DEF Begins
  <1>2. /\ Head(tasks).client \in Of(Head(tasks).op, tasks)
        /\ Head(tasks).client \notin Of("login", Tail(tasks)) \cup Of("connect", Tail(tasks))
    BY <1>1, TailFacts DEF SessionInv, Types, Queued
  <1>3. Head(tasks).client \in Of("login", tasks) \cup Of("connect", tasks)
    BY <1>1, <1>2
  <1> QED
    BY <1>1, <1>2, <1>3 DEF SessionInv, Queued, Bodies, Of

\* A client without a player takes over one in the game that nobody owns.
LEMMA AttachFacts ==
  ASSUME SessionInv, NEW c \in Clients, NEW p \in inGame, Attach(c, p),
         player[c] = NoPlayer, ~HasClient(p), inGame' = inGame, leaving' = leaving
  PROVE  /\ player' \in [Clients -> Clients \cup {NoPlayer}]
         /\ owner' \in [Clients -> Clients \cup {NoClient}]
         /\ refs' \in [Clients -> Int]
         /\ OneController' /\ Counted'
         /\ \A d \in Clients \ {c} : player'[d] = player[d]
         /\ \A d \in Clients : Unborn(d) => Unborn(d)'
         /\ released' = released
  <1>1. /\ p \in Clients /\ owner[p] = NoClient
        /\ player \in [Clients -> Clients \cup {NoPlayer}]
        /\ owner \in [Clients -> Clients \cup {NoClient}]
        /\ refs \in [Clients -> Int]
    BY DEF SessionInv, Types, HasClient
  <1>2. /\ player' = [player EXCEPT ![c] = p]
        /\ owner' = [owner EXCEPT ![p] = c]
        /\ refs' = [refs EXCEPT ![p] = @ + 1]
        /\ released' = released
    BY DEF Attach
  <1>3. refs[p] + 1 \in Int
    BY <1>1
  <1>4. /\ player' \in [Clients -> Clients \cup {NoPlayer}]
        /\ owner' \in [Clients -> Clients \cup {NoClient}]
        /\ refs' \in [Clients -> Int]
    BY <1>1, <1>2, <1>3
  <1>5. OneController'
    BY <1>1, <1>2, SessionAssumption DEF SessionInv, Bodies, OneController, NoPlayer
  <1>6. Counted'
    BY <1>1, <1>2, SessionAssumption DEF SessionInv, Bodies, Counted
  <1>7. \A d \in Clients : Unborn(d) => Unborn(d)'
    BY <1>1, <1>2 DEF Unborn
  <1> QED
    BY <1>1, <1>2, <1>4, <1>5, <1>6, <1>7

\* The task of a client that begins is taken, and some connection may be closed.
LEMMA BeginShrinks ==
  ASSUME SessionInv, tasks # <<>>, Begins(Head(tasks)), parsing' = parsing,
         \/ tasks' = Tail(tasks) /\ conn' = conn
         \/ \E d \in Clients : Close(d, Tail(tasks))
  PROVE  /\ Shrinks
         /\ SendIn(tasks) => SendIn(tasks')
         /\ Head(tasks).client \notin Of("login", tasks') \cup Of("connect", tasks')
  <1>1. /\ Head(tasks).op # "sendAll"
        /\ Head(tasks).client \notin Of("login", Tail(tasks)) \cup Of("connect", Tail(tasks))
    BY BeginFacts
  <1>2. CASE tasks' = Tail(tasks) /\ conn' = conn
    BY <1>1, <1>2, TakenShrinks
  <1>3. ASSUME NEW d \in Clients, Close(d, Tail(tasks))
        PROVE  /\ Shrinks
               /\ SendIn(tasks) => SendIn(tasks')
               /\ Head(tasks).client \notin Of("login", tasks') \cup Of("connect", tasks')
    BY <1>1, <1>3, CloseShrinks DEF Close
  <1> QED
    BY <1>2, <1>3

\* A client that begins may get a player: nobody else that is still to begin does.
LEMMA PlayedBodies ==
  ASSUME SessionInv, Shrinks, NEW c \in asked, c \notin Waiting,
         c \notin Of("login", tasks') \cup Of("connect", tasks'),
         asked' = asked, connects' = connects,
         OneController', Counted',
         \A d \in Clients \ {c} : player'[d] = player[d] /\ (Unborn(d) => Unborn(d)'),
         inGame' \cap leaving' = {}, \A p, q \in inGame' : p = q
  PROVE  Bodies'
  <1>1. \A d \in Of("login", tasks') \cup Of("connect", tasks') \cup Waiting' \cup (Clients \ asked') :
           d \in Clients \ {c} /\ player'[d] = NoPlayer
    <2>1. Waiting' = Waiting
      BY DEF Waiting
    <2>2. \A d \in Of("login", tasks') \cup Of("connect", tasks') \cup Waiting \cup (Clients \ asked) :
             d \in Clients \ {c}
      BY DEF Waiting, Of
    <2>3. \A d \in Of("login", tasks') \cup Of("connect", tasks') \cup Waiting \cup (Clients \ asked) :
             player[d] = NoPlayer
      BY DEF SessionInv, Bodies, Shrinks
    <2> QED
      BY <2>1, <2>2, <2>3
  <1>2. \A d \in Of("login", tasks') \cup (Clients \ asked') : Unborn(d)'
    BY DEF SessionInv, Bodies, Shrinks, Of
  <1> QED
    BY <1>1, <1>2 DEF Bodies

\* ProtocolGame::connect.
LEMMA ConnectPreserves ==
  ASSUME SessionInv, tasks # <<>>, Begins(Head(tasks)), NEW p \in Clients,
         Connect(Head(tasks).client, p, Tail(tasks)),
         UNCHANGED <<parsing, asked, inGame, leaving, connects>>,
         autosend' \subseteq Clients, sends' \in Nat
  PROVE  /\ Types' /\ Queued' /\ Bodies'
         /\ released' = released /\ (SendIn(tasks) => SendIn(tasks'))
  <1> USE DEF protoVars, worldVars, playerVars, poolVars, connVars
  <1> DEFINE c == Head(tasks).client
  <1>1. /\ c \in asked /\ c \in Clients /\ c \notin Waiting /\ player[c] = NoPlayer
    BY BeginFacts
  <1>2. \/ tasks' = Tail(tasks) /\ conn' = conn
        \/ \E d \in Clients : Close(d, Tail(tasks))
    BY <1>1 DEF Connect
  <1>3. /\ Shrinks /\ (SendIn(tasks) => SendIn(tasks'))
        /\ c \notin Of("login", tasks') \cup Of("connect", tasks')
    BY <1>2, BeginShrinks
  <1> HIDE DEF c
  <1>4. CASE UNCHANGED <<protoVars, playerVars>>
    <2>1. Types'
      BY <1>3, <1>4 DEF SessionInv, Types, Shrinks
    <2>2. Queued'
      BY <1>3, <1>4, QueuedStep
    <2>3. Bodies'
      BY <1>3, <1>4, BodiesStep DEF SessionInv, Types, Bodies
    <2> QED
      BY <1>3, <1>4, <2>1, <2>2, <2>3
  <1>5. CASE p \in inGame /\ ~HasClient(p) /\ Attach(c, p)
    <2>1. /\ player' \in [Clients -> Clients \cup {NoPlayer}]
          /\ owner' \in [Clients -> Clients \cup {NoClient}]
          /\ refs' \in [Clients -> Int]
          /\ OneController' /\ Counted'
          /\ \A d \in Clients \ {c} : player'[d] = player[d]
          /\ \A d \in Clients : Unborn(d) => Unborn(d)'
          /\ released' = released
      BY <1>1, <1>5, AttachFacts
    <2>2. Types'
      BY <1>3, <2>1 DEF SessionInv, Types, Shrinks
    <2>3. Queued'
      BY <1>3, <2>1, QueuedStep
    <2>4. Bodies'
      <3>1. inGame' \cap leaving' = {} /\ \A x, y \in inGame' : x = y
        BY DEF SessionInv, Bodies
      <3> QED
        BY <1>1, <1>3, <2>1, <3>1, PlayedBodies
    <2> QED
      BY <1>3, <2>1, <2>2, <2>3, <2>4
  <1> QED
    BY <1>4, <1>5 DEF Connect, c

\* The event that calls connect has expired, and its task runs.
LEMMA ConnectRunsPreserves ==
  ASSUME SessionInv, ConnectRuns
  PROVE  SessionInv'
  <1> USE DEF protoVars, worldVars, playerVars, poolVars, connVars
  <1>1. /\ tasks # <<>> /\ Head(tasks).op = "connect" /\ Begins(Head(tasks))
        /\ Connect(Head(tasks).client, Head(tasks).player, Tail(tasks))
        /\ UNCHANGED <<parsing, asked, inGame, leaving, connects, autosend, sends>>
    BY DEF ConnectRuns, IsNext, Begins
  <1>2. Head(tasks).player \in Clients
    <2>1. Head(tasks) \in Task
      BY <1>1 DEF SessionInv, Types
    <2> QED
      BY <1>1, <2>1 DEF Task
  <1>3. autosend' \subseteq Clients /\ sends' \in Nat
    BY <1>1 DEF SessionInv, Types
  <1>4. /\ Types' /\ Queued' /\ Bodies'
        /\ released' = released /\ (SendIn(tasks) => SendIn(tasks'))
    BY <1>1, <1>2, <1>3, ConnectPreserves
  <1>5. Outputs'
    BY <1>1, <1>4, OutputsStep
  <1> QED
    BY <1>4, <1>5 DEF SessionInv

-----------------------------------------------------------------------------
(* Logins. *)

\* Joining the autosend list with the list empty schedules sendAll; otherwise some call
\* was on its way already, and a login does not take it.
LEMMA AutosendStep ==
  ASSUME SessionInv, NEW c \in Clients, AddToAutosend(c), c \notin released,
         released' = released, SendIn(tasks) => SendIn(tasks')
  PROVE  autosend' \subseteq Clients /\ sends' \in Nat /\ Outputs'
  BY DEF AddToAutosend, SessionInv, Types, Outputs, AutosendLive

\* A login that finds nobody in the game makes a Player object, which may enter the game
\* or the list of those who left it, and counts who holds it.
LEMMA NewPlayerPreserves ==
  ASSUME SessionInv, NEW c \in Clients, Asks(c), inGame = {},
         NEW n \in Nat, NewPlayer(c, n),
         n = 1 + (IF c \in inGame' \cup leaving' THEN 1 ELSE 0),
         inGame' \subseteq {c}, leaving \subseteq leaving', leaving' \subseteq leaving \cup {c},
         inGame' \cap leaving' = {},
         UNCHANGED <<parsing, asked, connects>>,
         \/ tasks' = Tail(tasks) /\ conn' = conn
         \/ \E d \in Clients : Close(d, Tail(tasks)),
         AddToAutosend(c) \/ UNCHANGED <<autosend, sends>>
  PROVE  SessionInv'
  <1>1. tasks # <<>> /\ Begins(Head(tasks)) /\ Head(tasks).client = c /\ Head(tasks).op = "login"
    BY DEF Asks, IsNext, Begins
  <1>2. /\ c \in asked /\ c \notin Waiting /\ player[c] = NoPlayer
        /\ Unborn(c) /\ c \notin released
    BY <1>1, BeginFacts
  <1>3. /\ Shrinks /\ (SendIn(tasks) => SendIn(tasks'))
        /\ c \notin Of("login", tasks') \cup Of("connect", tasks')
    BY <1>1, BeginShrinks
  <1>4. /\ player' = [player EXCEPT ![c] = c]
        /\ owner' = [owner EXCEPT ![c] = c]
        /\ refs' = [refs EXCEPT ![c] = n]
        /\ released' = released
    BY DEF NewPlayer
  <1>5. /\ player' \in [Clients -> Clients \cup {NoPlayer}]
        /\ owner' \in [Clients -> Clients \cup {NoClient}]
        /\ refs' \in [Clients -> Int]
    BY <1>4 DEF SessionInv, Types
  <1>6. OneController'
    BY <1>2, <1>4, SessionAssumption
       DEF SessionInv, Types, Bodies, OneController, Unborn, NoPlayer
  <1>7. Counted'
    BY <1>4, <1>5, SessionAssumption DEF SessionInv, Types, Bodies, Counted
  <1>8. \A d \in Clients \ {c} : player'[d] = player[d] /\ (Unborn(d) => Unborn(d)')
    BY <1>4 DEF SessionInv, Types, Unborn
  <1>9. autosend' \subseteq Clients /\ sends' \in Nat /\ Outputs'
    <2>1. CASE AddToAutosend(c)
      BY <1>2, <1>3, <1>4, <2>1, AutosendStep
    <2>2. CASE UNCHANGED <<autosend, sends>>
      BY <1>3, <1>4, <2>2, OutputsStep DEF SessionInv, Types
    <2> QED
      BY <2>1, <2>2
  <1>10. Types'
    BY <1>3, <1>4, <1>5, <1>9 DEF SessionInv, Types, Shrinks
  <1>11. Queued'
    BY <1>3, <1>4, QueuedStep
  <1>12. Bodies'
    <2>1. \A p, q \in inGame' : p = q
      OBVIOUS
    <2> QED
      BY <1>2, <1>3, <1>6, <1>7, <1>8, <2>1, PlayedBodies
  <1> QED
    BY <1>9, <1>10, <1>11, <1>12 DEF SessionInv

\* The client of a player in the game is sent away, and c waits for its turn.
LEMMA ReplacesPreserves ==
  ASSUME SessionInv, NEW c \in Clients, LoginReplaces(c)
  PROVE  SessionInv'
  <1> USE DEF protoVars, worldVars, playerVars, poolVars, connVars
  <1>1. /\ tasks # <<>> /\ Begins(Head(tasks)) /\ Head(tasks).client = c
        /\ Head(tasks).op = "login" /\ AddToAutosend(c)
        /\ UNCHANGED <<parsing, asked, player, released, owner, refs, inGame, leaving>>
    BY DEF LoginReplaces, Asks, IsNext, Begins
  <1>2. PICK p \in inGame : /\ HasClient(p) /\ Close(owner[p], Tail(tasks))
                            /\ connects' = connects \cup {[client |-> c, player |-> p]}
    BY DEF LoginReplaces, FoundPlayers
  <1>3. owner[p] \in Clients /\ p \in Clients
    BY <1>2 DEF SessionInv, Types, HasClient
  <1>4. /\ Shrinks /\ (SendIn(tasks) => SendIn(tasks'))
        /\ c \notin Of("login", tasks') \cup Of("connect", tasks')
    BY <1>1, <1>2, <1>3, BeginShrinks
  <1>5. /\ c \in asked /\ c \notin Waiting /\ player[c] = NoPlayer /\ c \notin released
    BY <1>1, BeginFacts
  <1>6. Waiting' = Waiting \cup {c}
    <2> DEFINE e == [client |-> c, player |-> p]
    <2>1. e.client = c /\ e \in connects'
      BY <1>2
    <2>2. \A f \in connects' : f \in connects \/ f = e
      BY <1>2
    <2>3. connects \subseteq connects'
      BY <1>2
    <2> HIDE DEF e
    <2> QED
      BY <2>1, <2>2, <2>3 DEF Waiting
  <1>7. Outputs' /\ autosend' \subseteq Clients /\ sends' \in Nat
    BY <1>1, <1>4, <1>5, AutosendStep
  <1>8. Types'
    BY <1>1, <1>2, <1>3, <1>4, <1>7 DEF SessionInv, Types, Shrinks
  <1>9. Queued'
    <2>1. Of("login", tasks') \cup Of("connect", tasks') \cup Waiting' \subseteq asked'
      BY <1>1, <1>4, <1>5, <1>6 DEF SessionInv, Queued, Shrinks
    <2>2. (Of("login", tasks') \cup Of("connect", tasks')) \cap Waiting' = {}
      BY <1>4, <1>6 DEF SessionInv, Queued, Shrinks
    <2>3. \A e, f \in connects' : e.client = f.client => e = f
      <3>1. \A e \in connects : e.client # c
        BY <1>5 DEF Waiting
      <3> QED
        BY <1>2, <3>1 DEF SessionInv, Queued
    <2>4. Of("login", tasks') \cap released' = {}
      BY <1>1, <1>4 DEF SessionInv, Queued, Shrinks
    <2>5. \A d \in Of("release", tasks') \cup released' : Cut(d)'
      BY <1>1, <1>4 DEF SessionInv, Types, Queued, Shrinks, Of
    <2> QED
      BY <1>4, <2>1, <2>2, <2>3, <2>4, <2>5 DEF Queued, Shrinks
  <1>10. Bodies'
    <2>1. OneController' /\ Counted'
      BY <1>1 DEF SessionInv, Bodies, OneController, Counted
    <2>2. \A d \in Of("login", tasks') \cup Of("connect", tasks') \cup Waiting' \cup (Clients \ asked') :
             player'[d] = NoPlayer
      BY <1>1, <1>4, <1>5, <1>6 DEF SessionInv, Bodies, Shrinks
    <2>3. \A d \in Of("login", tasks') \cup (Clients \ asked') : Unborn(d)'
      BY <1>1, <1>4 DEF SessionInv, Bodies, Shrinks, Unborn
    <2> QED
      BY <1>1, <2>1, <2>2, <2>3 DEF SessionInv, Bodies
  <1> QED
    BY <1>7, <1>8, <1>9, <1>10 DEF SessionInv

\* However a login ends.
LEMMA LoginPreserves ==
  ASSUME SessionInv, NEW c \in Clients, Login(c)
  PROVE  SessionInv'
  <1> USE DEF protoVars, worldVars, playerVars, poolVars, connVars
  <1>1. Asks(c)
    BY DEF Login, LoginRefused, LoginPlaced, LoginKicked, LoginReplaces, LoginTakesOver
  <1>2. tasks # <<>> /\ Begins(Head(tasks)) /\ Head(tasks).client = c /\ Head(tasks).op = "login"
    BY <1>1 DEF Asks, IsNext, Begins
  <1>3. Unborn(c) /\ c \notin released /\ inGame \cap leaving = {}
    BY <1>2, BeginFacts DEF SessionInv, Bodies
  <1>4. CASE LoginRefused(c)
    BY <1>3, <1>4, NewPlayerPreserves DEF LoginRefused, FoundPlayers, Unborn
  <1>5. CASE LoginPlaced(c)
    BY <1>3, <1>5, NewPlayerPreserves DEF LoginPlaced, FoundPlayers, Unborn
  <1>6. CASE LoginKicked(c)
    BY <1>3, <1>6, NewPlayerPreserves DEF LoginKicked, FoundPlayers, Unborn
  <1>7. CASE LoginReplaces(c)
    BY <1>7, ReplacesPreserves
  <1>8. CASE LoginTakesOver(c)
    <2>1. /\ AddToAutosend(c)
          /\ UNCHANGED <<parsing, asked, inGame, leaving, connects>>
      BY <1>8 DEF LoginTakesOver
    <2>2. PICK p \in inGame : Connect(c, p, Tail(tasks))
      BY <1>8 DEF LoginTakesOver, FoundPlayers
    <2>3. p \in Clients /\ autosend' \subseteq Clients /\ sends' \in Nat
      BY <2>1 DEF SessionInv, Types, AddToAutosend
    <2>4. /\ Types' /\ Queued' /\ Bodies'
          /\ released' = released /\ (SendIn(tasks) => SendIn(tasks'))
      BY <1>2, <2>1, <2>2, <2>3, ConnectPreserves
    <2>5. Outputs'
      BY <1>3, <2>1, <2>4, AutosendStep
    <2> QED
      BY <2>4, <2>5 DEF SessionInv
  <1> QED
    BY <1>4, <1>5, <1>6, <1>7, <1>8 DEF Login

-----------------------------------------------------------------------------
(* The theorems. *)

\* The invariant holds in every behaviour.
LEMMA SessionInvariant == SessionSpec => []SessionInv
  <1>1. SessionInit => SessionInv
    <2> SUFFICES ASSUME SessionInit PROVE SessionInv
      OBVIOUS
    <2>1. Types
      BY DEF SessionInit, Types, ConnStates
    <2>2. Of("login", tasks) = {} /\ Of("connect", tasks) = {} /\ Of("release", tasks) = {}
      BY DEF SessionInit, Of
    <2>3. Queued
      BY <2>2 DEF SessionInit, Queued, Single, Ordered, Waiting
    <2>4. OneController /\ Counted
      BY SessionAssumption DEF SessionInit, OneController, Counted, NoPlayer
    <2>5. Bodies
      BY <2>2, <2>4, SessionAssumption DEF SessionInit, Bodies, Unborn, Waiting, NoPlayer
    <2>6. Outputs
      BY DEF SessionInit, Outputs, AutosendLive
    <2> QED
      BY <2>1, <2>3, <2>5, <2>6 DEF SessionInv
  <1>2. SessionInv /\ [SessionNext]_vars => SessionInv'
    <2> SUFFICES ASSUME SessionInv, [SessionNext]_vars PROVE SessionInv'
      OBVIOUS
    <2>1. ASSUME NEW c \in Clients, NetStep(c) PROVE SessionInv'
      BY <2>1, NetStepPreserves
    <2>2. ASSUME NEW c \in Clients, ParseEnds(c) PROVE SessionInv'
      BY <2>2, ParsePreserves
    <2>3. CASE QueuedTask
      BY <2>3, LoginPreserves, ReleasePreserves, LeavePreserves, ConnectRunsPreserves,
         SendAllPreserves DEF QueuedTask
    <2>4. CASE OtherTask
      BY <2>4, LeavePreserves, CleanupPreserves DEF OtherTask
    <2>5. CASE Timers
      BY <2>5, TimersPreserve
    <2>6. CASE UNCHANGED vars
      <3> USE DEF vars, connVars, protoVars, worldVars, playerVars, poolVars
      <3>1. Shrinks
        BY <2>6, StillShrinks
      <3> QED
        BY <2>6, <3>1, QuietStep DEF SessionInv, Types, Bodies
    <2> QED
      BY <2>1, <2>2, <2>3, <2>4, <2>5, <2>6 DEF SessionNext
  <1> QED
    BY <1>1, <1>2, PTL DEF SessionSpec

\* However many clients ask for the character, a protocol points to a Player object
\* exactly when it owns the object (protocolgame.cpp:85-123, 211-235).
THEOREM AlwaysOneController == SessionSpec => []OneController
  <1>1. SessionInv => OneController
    BY DEF SessionInv, Bodies
  <1> QED
    BY <1>1, SessionInvariant, PTL

\* The reference counter of a Player object counts the protocols that point to it and
\* the world: with one owner at most, the set it counts is empty or a singleton.
THEOREM RefsAlwaysExact == SessionSpec => []RefsExact
  <1>1. SessionInv => RefsExact
    <2> SUFFICES ASSUME SessionInv, NEW p \in Clients
                 PROVE  refs[p] = Cardinality({c \in Clients : player[c] = p})
                                    + (IF p \in inGame \cup leaving THEN 1 ELSE 0)
      BY DEF RefsExact
    <2>1. Counted /\ OneController /\ owner[p] \in Clients \cup {NoClient}
      BY DEF SessionInv, Bodies, Types
    <2>2. CASE owner[p] = NoClient
      <3>1. {c \in Clients : player[c] = p} = {}
        BY <2>1, <2>2, SessionAssumption DEF OneController
      <3> QED
        BY <2>1, <2>2, <3>1, FS_EmptySet DEF Counted
    <2>3. CASE owner[p] \in Clients
      <3>1. {c \in Clients : player[c] = p} = {owner[p]}
        BY <2>1, <2>3 DEF OneController
      <3> QED
        BY <2>1, <2>3, <3>1, FS_Singleton, SessionAssumption DEF Counted
    <2> QED
      BY <2>1, <2>2, <2>3
  <1> QED
    BY <1>1, SessionInvariant, PTL

\* No release has run for the client whose packet is parsed: its connection is open.
THEOREM NeverReleaseInPacket == SessionSpec => []NoReleaseInPacket
  <1>1. SessionInv => NoReleaseInPacket
    BY SessionAssumption DEF SessionInv, Types, Queued, Cut, NoReleaseInPacket
  <1> QED
    BY <1>1, SessionInvariant, PTL

\* The autosend list holds no protocol that has been released.
THEOREM AutosendAlwaysLive == SessionSpec => []AutosendLive
  <1>1. SessionInv => AutosendLive
    BY DEF SessionInv, Outputs
  <1> QED
    BY <1>1, SessionInvariant, PTL

\* While the list is not empty, a call of sendAll waits in the scheduler or is queued.
THEOREM AutosendAlwaysRuns == SessionSpec => []AutosendRuns
  <1>1. SessionInv => AutosendRuns
    BY DEF SessionInv, Outputs, SendIn, AutosendRuns
  <1> QED
    BY <1>1, SessionInvariant, PTL

-----------------------------------------------------------------------------
(* How many calls of sendAll there are. A client that joins an empty list schedules one, *)
(* also when the call for the list that was there before is still on its way; it does so *)
(* once, as its login is run.                                                            *)

\* Where the sequence of tasks holds a call.
Calls(s) == {i \in DOMAIN s : s[i].op = "sendAll"}

\* The clients whose login has been run, or that will have none.
Begun == asked \ Of("login", tasks)

SendsBound ==
    /\ accepting \subseteq Clients
    /\ sends + Cardinality(Calls(tasks)) <= Cardinality(Begun)

LEMMA CallsCounted ==
  ASSUME NEW s \in Seq(Task)
  PROVE  IsFiniteSet(Calls(s)) /\ Cardinality(Calls(s)) \in Nat
  <1>1. Calls(s) \in SUBSET (1 .. Len(s)) /\ Len(s) \in Nat
    BY DEF Calls
  <1>2. IsFiniteSet(1 .. Len(s))
    BY <1>1, FS_Interval
  <1>3. IsFiniteSet(Calls(s))
    BY <1>1, <1>2, FS_Subset
  <1> QED
    BY <1>3, FS_CardinalityType

\* A task behind the others is one call more if it is one.
LEMMA CallsAppended ==
  ASSUME NEW s \in Seq(Task), NEW t \in Task
  PROVE  Cardinality(Calls(Append(s, t))) =
             Cardinality(Calls(s)) + (IF t.op = "sendAll" THEN 1 ELSE 0)
  <1>1. PICK u : u = Append(s, t)
    OBVIOUS
  <1>2. /\ DOMAIN s = 1..Len(s) /\ DOMAIN u = 1..(Len(s) + 1) /\ Len(s) \in Nat
        /\ \A i \in DOMAIN s : u[i] = s[i] /\ i \in DOMAIN u /\ i # Len(s) + 1
        /\ Len(s) + 1 \in DOMAIN u /\ u[Len(s) + 1] = t
    BY <1>1
  <1>3. \A i \in DOMAIN u : i \in DOMAIN s \/ i = Len(s) + 1
    BY <1>2
  <1>4. CASE t.op = "sendAll"
    <2>1. Calls(u) = Calls(s) \cup {Len(s) + 1}
      BY <1>2, <1>3, <1>4 DEF Calls
    <2>2. Len(s) + 1 \notin Calls(s)
      BY <1>2 DEF Calls
    <2> QED
      BY <1>1, <1>4, <2>1, <2>2, CallsCounted, FS_AddElement
  <1>5. CASE t.op # "sendAll"
    <2>1. Calls(u) = Calls(s)
      BY <1>2, <1>3, <1>5 DEF Calls
    <2> QED
      BY <1>1, <1>5, <2>1, CallsCounted
  <1> QED
    BY <1>4, <1>5

\* Without the first task there is one call less if it was one.
LEMMA CallsTaken ==
  ASSUME NEW s \in Seq(Task), s # <<>>
  PROVE  Cardinality(Calls(Tail(s))) <=
             Cardinality(Calls(s)) - (IF Head(s).op = "sendAll" THEN 1 ELSE 0)
  <1>1. PICK u : u = Tail(s)
    OBVIOUS
  <1>2. /\ u \in Seq(Task) /\ DOMAIN s = 1..Len(s) /\ DOMAIN u = 1..(Len(s) - 1)
        /\ \A i \in DOMAIN u : u[i] = s[i + 1] /\ i + 1 \in DOMAIN s /\ i + 1 # 1
        /\ 1 \in DOMAIN s /\ Head(s) = s[1]
    BY <1>1
  <1>3. PICK f : f = [i \in Calls(u) |-> i + 1]
    OBVIOUS
  <1>4. f \in Injection(Calls(u), Calls(s) \ {1})
    <2>1. f \in [Calls(u) -> Calls(s) \ {1}]
      BY <1>2, <1>3 DEF Calls
    <2>2. \A i, j \in Calls(u) : f[i] = f[j] => i = j
      BY <1>2, <1>3 DEF Calls
    <2> QED
      BY <2>1, <2>2 DEF Injection, IsInjective
  <1>5. IsFiniteSet(Calls(s)) /\ Cardinality(Calls(s)) \in Nat
    BY CallsCounted
  <1>6. /\ IsFiniteSet(Calls(s) \ {1})
        /\ Cardinality(Calls(s) \ {1}) =
               IF 1 \in Calls(s) THEN Cardinality(Calls(s)) - 1 ELSE Cardinality(Calls(s))
    BY <1>5, FS_RemoveElement
  <1>7. Cardinality(Calls(u)) <= Cardinality(Calls(s) \ {1})
    BY <1>4, <1>6, FS_Injection
  <1>8. 1 \in Calls(s) <=> Head(s).op = "sendAll"
    BY <1>2 DEF Calls
  <1> QED
    BY <1>1, <1>5, <1>6, <1>7, <1>8

\* What a step other than the autosend list's does to the tasks: it may take the first
\* one, and may queue one that is no call of sendAll.
QueueMoves ==
    \/ tasks' = tasks
    \/ tasks # <<>> /\ tasks' = Tail(tasks)
    \/ \E t \in Task : t.op # "sendAll" /\ tasks' = Append(tasks, t)
    \/ tasks # <<>> /\ \E t \in Task : t.op # "sendAll" /\ tasks' = Append(Tail(tasks), t)

LEMMA MovesAddNoCall ==
  ASSUME tasks \in Seq(Task), QueueMoves
  PROVE  Cardinality(Calls(tasks')) <= Cardinality(Calls(tasks))
  <1>0. Cardinality(Calls(tasks)) \in Nat
    BY CallsCounted
  <1>1. ASSUME tasks # <<>>
        PROVE  /\ Tail(tasks) \in Seq(Task) /\ Cardinality(Calls(Tail(tasks))) \in Nat
               /\ Cardinality(Calls(Tail(tasks))) <= Cardinality(Calls(tasks))
    <2>1. Tail(tasks) \in Seq(Task)
      BY <1>1
    <2>2. Cardinality(Calls(Tail(tasks))) \in Nat
      BY <2>1, CallsCounted
    <2> QED
      BY <1>0, <1>1, <2>1, <2>2, CallsTaken
  <1>2. CASE \E t \in Task : t.op # "sendAll" /\ tasks' = Append(tasks, t)
    BY <1>0, <1>2, CallsAppended
  <1>3. CASE tasks # <<>> /\ \E t \in Task : t.op # "sendAll" /\ tasks' = Append(Tail(tasks), t)
    <2>1. PICK t \in Task : t.op # "sendAll" /\ tasks' = Append(Tail(tasks), t)
      BY <1>3
    <2>2. PICK u : u = Tail(tasks)
      OBVIOUS
    <2>3. u \in Seq(Task) /\ Cardinality(Calls(u)) <= Cardinality(Calls(tasks))
          /\ Cardinality(Calls(u)) \in Nat
      BY <1>1, <1>3, <2>2
    <2>4. Cardinality(Calls(Append(u, t))) = Cardinality(Calls(u))
      BY <2>1, <2>3, CallsAppended
    <2> QED
      BY <2>1, <2>2, <2>3, <2>4
  <1>4. CASE tasks' = tasks
    BY <1>0, <1>4
  <1>5. CASE tasks # <<>> /\ tasks' = Tail(tasks)
    BY <1>1, <1>5
  <1> QED
    BY <1>2, <1>3, <1>4, <1>5 DEF QueueMoves

\* Connection::close queues a release at most.
LEMMA CloseMoves ==
  ASSUME NEW c \in Clients, NEW rest, CloseBehind(c, rest),
         rest = tasks \/ (tasks # <<>> /\ rest = Tail(tasks))
  PROVE  QueueMoves
  <1>1. PICK t : t = [op |-> "release", client |-> c]
    OBVIOUS
  <1>2. t \in Task /\ t.op # "sendAll"
    BY <1>1 DEF Task
  <1>3. tasks' = rest \/ tasks' = Append(rest, t)
    BY <1>1 DEF CloseBehind
  <1> QED
    BY <1>2, <1>3 DEF QueueMoves

\* The bound is kept when no login is run,
LEMMA BoundKept ==
  ASSUME SessionInv, SessionInv', SendsBound, accepting' \subseteq Clients,
         asked \subseteq asked', \A c \in Of("login", tasks') : c \in asked => c \in Of("login", tasks),
         sends' + Cardinality(Calls(tasks')) <= sends + Cardinality(Calls(tasks))
  PROVE  SendsBound'
  <1>1. PICK b : b = Begun
    OBVIOUS
  <1>2. PICK d : d = asked' \ Of("login", tasks')
    OBVIOUS
  <1>3. b \in SUBSET d /\ d \in SUBSET Clients
    BY <1>1, <1>2 DEF Begun, SessionInv, Types
  <1>4. IsFiniteSet(d)
    BY <1>3, FS_Subset, SessionAssumption
  <1>5. IsFiniteSet(b) /\ Cardinality(b) <= Cardinality(d)
    BY <1>3, <1>4, FS_Subset
  <1>6. Cardinality(b) \in Nat /\ Cardinality(d) \in Nat
    BY <1>4, <1>5, FS_CardinalityType
  <1>7. /\ Cardinality(Calls(tasks)) \in Nat /\ Cardinality(Calls(tasks')) \in Nat
        /\ sends \in Nat /\ sends' \in Nat
    BY CallsCounted DEF SessionInv, Types
  <1>8. sends + Cardinality(Calls(tasks)) <= Cardinality(b)
    BY <1>1 DEF SendsBound
  <1>9. sends' + Cardinality(Calls(tasks')) <= Cardinality(d)
    BY <1>5, <1>6, <1>7, <1>8
  <1> QED
    BY <1>2, <1>9 DEF SendsBound, Begun, Calls, Of

\* and one call more is allowed for the client whose login is run.
LEMMA BoundGrows ==
  ASSUME SessionInv, SessionInv', SendsBound, accepting' \subseteq Clients,
         asked' = asked, Of("login", tasks') \subseteq Of("login", tasks),
         NEW c \in Of("login", tasks), c \notin Of("login", tasks'), c \in asked,
         sends' + Cardinality(Calls(tasks')) <= sends + Cardinality(Calls(tasks)) + 1
  PROVE  SendsBound'
  <1>1. PICK b : b = Begun
    OBVIOUS
  <1>2. PICK d : d = asked' \ Of("login", tasks')
    OBVIOUS
  <1>3. b \cup {c} \in SUBSET d /\ d \in SUBSET Clients /\ b \in SUBSET d /\ c \notin b
    BY <1>1, <1>2 DEF Begun, SessionInv, Types
  <1>4. IsFiniteSet(d)
    BY <1>3, FS_Subset, SessionAssumption
  <1>5. IsFiniteSet(b)
    BY <1>3, <1>4, FS_Subset
  <1>6. Cardinality(b \cup {c}) <= Cardinality(d)
    BY <1>3, <1>4, FS_Subset
  <1>7. Cardinality(b \cup {c}) = Cardinality(b) + 1
    BY <1>3, <1>5, FS_AddElement
  <1>8. Cardinality(b) \in Nat /\ Cardinality(d) \in Nat
    BY <1>4, <1>5, FS_CardinalityType
  <1>9. /\ Cardinality(Calls(tasks)) \in Nat /\ Cardinality(Calls(tasks')) \in Nat
        /\ sends \in Nat /\ sends' \in Nat
    BY CallsCounted DEF SessionInv, Types
  <1>10. sends + Cardinality(Calls(tasks)) <= Cardinality(b)
    BY <1>1 DEF SendsBound
  <1>11. sends' + Cardinality(Calls(tasks')) <= Cardinality(d)
    BY <1>6, <1>7, <1>8, <1>9, <1>10
  <1> QED
    BY <1>2, <1>11 DEF SendsBound, Begun, Calls, Of

\* The two ways a step keeps the bound when it is not a login.
LEMMA MovesKeepBound ==
  ASSUME SessionInv, SessionInv', SendsBound, QueueMoves,
         accepting' \subseteq Clients, sends' = sends, asked \subseteq asked',
         \A c \in Of("login", tasks') : c \in asked => c \in Of("login", tasks)
  PROVE  SendsBound'
  <1>1. Cardinality(Calls(tasks')) <= Cardinality(Calls(tasks))
    BY MovesAddNoCall DEF SessionInv, Types
  <1>2. /\ Cardinality(Calls(tasks)) \in Nat /\ Cardinality(Calls(tasks')) \in Nat
        /\ sends \in Nat
    BY CallsCounted DEF SessionInv, Types
  <1>3. sends' + Cardinality(Calls(tasks')) <= sends + Cardinality(Calls(tasks))
    BY <1>1, <1>2
  <1> QED
    BY <1>3, BoundKept

\* Taking a task, and closing a connection, queue no login.
LEMMA LoginsOnlyGo ==
  ASSUME SessionInv,
         \/ tasks' = tasks
         \/ tasks # <<>> /\ tasks' = Tail(tasks)
         \/ \E c \in Clients : CloseBehind(c, tasks)
         \/ tasks # <<>> /\ \E c \in Clients : CloseBehind(c, Tail(tasks))
  PROVE  QueueMoves /\ Of("login", tasks') \subseteq Of("login", tasks)
  <1>1. tasks \in Seq(Task) /\ Single(tasks) /\ Ordered(tasks)
    BY DEF SessionInv, Types, Queued
  <1>2. tasks # <<>> => /\ Tail(tasks) \in Seq(Task)
                        /\ Of("login", Tail(tasks)) \subseteq Of("login", tasks)
    BY <1>1, TailFacts
  <1>3. ASSUME NEW c \in Clients, NEW rest, CloseBehind(c, rest),
               rest = tasks \/ (tasks # <<>> /\ rest = Tail(tasks))
        PROVE  QueueMoves /\ Of("login", tasks') \subseteq Of("login", tasks)
    <2>1. QueueMoves
      BY <1>3, CloseMoves
    <2>2. rest \in Seq(Task) /\ Of("login", rest) \subseteq Of("login", tasks)
      BY <1>1, <1>2, <1>3
    <2>3. tasks' = rest \/ tasks' = Append(rest, [op |-> "release", client |-> c])
      BY <1>3 DEF CloseBehind
    <2>4. Of("login", tasks') = Of("login", rest)
      <3>1. Of("login", Append(rest, [op |-> "release", client |-> c])) = Of("login", rest)
        BY <2>2, AppendRelease
      <3> QED
        BY <2>3, <3>1
    <2> QED
      BY <2>1, <2>2, <2>4
  <1>4. CASE tasks' = tasks
    BY <1>4 DEF QueueMoves
  <1>5. CASE tasks # <<>> /\ tasks' = Tail(tasks)
    BY <1>2, <1>5 DEF QueueMoves
  <1> QED
    BY <1>3, <1>4, <1>5

\* Steps of the network thread, and of the game, that only close connections.
LEMMA QuietBound ==
  ASSUME SessionInv, SessionInv', SendsBound, sends' = sends, asked \subseteq asked',
         accepting' \subseteq Clients,
         \/ tasks' = tasks
         \/ tasks # <<>> /\ tasks' = Tail(tasks)
         \/ \E c \in Clients : CloseBehind(c, tasks)
         \/ tasks # <<>> /\ \E c \in Clients : CloseBehind(c, Tail(tasks))
  PROVE  SendsBound'
  <1>1. QueueMoves /\ Of("login", tasks') \subseteq Of("login", tasks)
    BY LoginsOnlyGo
  <1> QED
    BY <1>1, MovesKeepBound

LEMMA ParseBound ==
  ASSUME SessionInv, SessionInv', SendsBound, NEW c \in Clients, ParseEnds(c)
  PROVE  SendsBound'
  <1> USE DEF protoVars, worldVars, playerVars, poolVars, connVars
  <1>1. accepting' \subseteq Clients /\ sends' = sends /\ asked \subseteq asked'
    BY DEF ParseEnds, ParseLogin, ParseLogout, ParseOther, ParseFails, SendsBound
  <1>2. CASE ParseLogin(c)
    <2>1. PICK t : t = [op |-> "login", client |-> c]
      OBVIOUS
    <2>2. t \in Task /\ t.op = "login" /\ t.client = c /\ Begins(t)
      BY <2>1 DEF Task, Begins
    <2>3. tasks' = Append(tasks, t) /\ c \notin asked
      BY <1>2, <2>1 DEF ParseLogin
    <2>4. QueueMoves
      BY <2>2, <2>3 DEF QueueMoves
    <2>5. Of("login", tasks') \subseteq Of("login", tasks) \cup {c}
      <3>1. tasks \in Seq(Task)
        BY DEF SessionInv, Types
      <3>2. PICK u : u = tasks'
        OBVIOUS
      <3>3. /\ DOMAIN tasks = 1..Len(tasks) /\ DOMAIN u = 1..(Len(tasks) + 1)
            /\ \A i \in DOMAIN tasks : u[i] = tasks[i]
            /\ u[Len(tasks) + 1] = t
        BY <2>3, <3>1, <3>2
      <3>4. \A i \in DOMAIN u : i \in DOMAIN tasks \/ i = Len(tasks) + 1
        BY <3>1, <3>3
      <3>5. Of("login", u) \subseteq Of("login", tasks) \cup {c}
        BY <2>2, <3>3, <3>4 DEF Of
      <3> QED
        BY <3>2, <3>5
    <2>6. \A d \in Of("login", tasks') : d \in asked => d \in Of("login", tasks)
      BY <2>3, <2>5
    <2> QED
      BY <1>1, <2>4, <2>6, MovesKeepBound
  <1>3. CASE ParseLogout(c)
    <2>1. PICK t : t = [op |-> "logout", client |-> c]
      OBVIOUS
    <2>2. t \in Task /\ t.op = "logout"
      BY <2>1 DEF Task
    <2>3. tasks' = Append(tasks, t)
      BY <1>3, <2>1 DEF ParseLogout
    <2>4. QueueMoves
      BY <2>2, <2>3 DEF QueueMoves
    <2>5. Of("login", tasks') = Of("login", tasks)
      BY <2>2, <2>3, AppendOther DEF SessionInv, Types
    <2> QED
      BY <1>1, <2>4, <2>5, MovesKeepBound
  <1>4. CASE ParseOther(c)
    BY <1>1, <1>4, QuietBound DEF ParseOther
  <1>5. CASE ParseFails(c)
    BY <1>1, <1>5, QuietBound DEF ParseFails
  <1> QED
    BY <1>2, <1>3, <1>4, <1>5 DEF ParseEnds

\* Who owns a Player object is a client.
LEMMA KickBound ==
  ASSUME SessionInv, NEW p \in Clients, Kicked(p)
  PROVE  tasks' = tasks \/ \E c \in Clients : CloseBehind(c, tasks)
  <1>1. owner[p] \in Clients \cup {NoClient}
    BY DEF SessionInv, Types
  <1> QED
    BY <1>1 DEF Kicked, LoggedOut, Close, HasClient

LEMMA TimersBound ==
  ASSUME SessionInv, SessionInv', SendsBound, Timers
  PROVE  SendsBound'
  <1> USE DEF protoVars, worldVars, playerVars, poolVars, connVars
  <1>0. tasks \in Seq(Task)
    BY DEF SessionInv, Types
  <1>1. CASE SendExpires
    <2>1. PICK t : t = [op |-> "sendAll"]
      OBVIOUS
    <2>2. t \in Task /\ t.op = "sendAll"
      BY <2>1 DEF Task
    <2>3. tasks' = Append(tasks, t) /\ sends' = sends - 1 /\ asked' = asked
          /\ accepting' = accepting
      BY <1>1, <2>1 DEF SendExpires
    <2>4. Cardinality(Calls(tasks')) = Cardinality(Calls(tasks)) + 1
      BY <1>0, <2>2, <2>3, CallsAppended
    <2>5. Of("login", tasks') = Of("login", tasks)
      BY <1>0, <2>2, <2>3, AppendOther
    <2>6. Cardinality(Calls(tasks)) \in Nat /\ sends \in Nat
      BY <1>0, CallsCounted DEF SessionInv, Types
    <2>7. sends' + Cardinality(Calls(tasks')) <= sends + Cardinality(Calls(tasks))
      BY <2>3, <2>4, <2>6
    <2> QED
      BY <2>3, <2>5, <2>7, BoundKept DEF SendsBound
  <1>2. CASE \E e \in connects : ConnectExpires(e)
    <2>1. PICK e \in connects : ConnectExpires(e)
      BY <1>2
    <2>2. PICK t : t = [op |-> "connect", client |-> e.client, player |-> e.player]
      OBVIOUS
    <2>3. t \in Task /\ t.op = "connect"
      <3>1. e \in [client : Clients, player : Clients]
        BY DEF SessionInv, Types
      <3> QED
        BY <2>2, <3>1 DEF Task
    <2>4. tasks' = Append(tasks, t) /\ sends' = sends /\ asked' = asked /\ accepting' = accepting
      BY <2>1, <2>2 DEF ConnectExpires
    <2>5. QueueMoves
      BY <2>3, <2>4 DEF QueueMoves
    <2>6. Of("login", tasks') \subseteq Of("login", tasks)
      <3>1. PICK u : u = tasks'
        OBVIOUS
      <3>2. /\ DOMAIN tasks = 1..Len(tasks) /\ DOMAIN u = 1..(Len(tasks) + 1)
            /\ \A i \in DOMAIN tasks : u[i] = tasks[i]
            /\ u[Len(tasks) + 1] = t
        BY <1>0, <2>3, <2>4, <3>1
      <3>3. \A i \in DOMAIN u : i \in DOMAIN tasks \/ i = Len(tasks) + 1
        BY <1>0, <3>2
      <3>4. Of("login", u) \subseteq Of("login", tasks)
        BY <2>3, <3>2, <3>3 DEF Of
      <3> QED
        BY <3>1, <3>4
    <2> QED
      BY <2>4, <2>5, <2>6, MovesKeepBound DEF SendsBound
  <1> QED
    BY <1>1, <1>2 DEF Timers

\* sendAll is taken, and schedules the next call if there is anything to send.
LEMMA SendAllBound ==
  ASSUME SessionInv, SessionInv', SendsBound, SendAll
  PROVE  SendsBound'
  <1> USE DEF protoVars, worldVars, playerVars, poolVars, connVars
  <1>1. /\ tasks # <<>> /\ Head(tasks).op = "sendAll" /\ tasks' = Tail(tasks)
        /\ sends' = sends \/ sends' = sends + 1
        /\ asked' = asked /\ accepting' = accepting
    BY DEF SendAll, IsNext
  <1>2. tasks \in Seq(Task) /\ sends \in Nat /\ tasks' \in Seq(Task)
    BY DEF SessionInv, Types
  <1>3. Cardinality(Calls(tasks')) <= Cardinality(Calls(tasks)) - 1
    BY <1>1, <1>2, CallsTaken
  <1>4. Cardinality(Calls(tasks)) \in Nat /\ Cardinality(Calls(tasks')) \in Nat
    BY <1>2, CallsCounted
  <1>5. sends' + Cardinality(Calls(tasks')) <= sends + Cardinality(Calls(tasks))
    BY <1>1, <1>2, <1>3, <1>4
  <1>6. Of("login", tasks') \subseteq Of("login", tasks)
    BY <1>1, LoginsOnlyGo
  <1> QED
    BY <1>1, <1>5, <1>6, BoundKept DEF SendsBound

\* A login adds its client to the autosend list at most once, and is gone then.
LEMMA LoginBound ==
  ASSUME SessionInv, SessionInv', SendsBound, NEW c \in Clients, Login(c)
  PROVE  SendsBound'
  <1> USE DEF protoVars, worldVars, playerVars, poolVars, connVars
  <1>1. Asks(c) /\ asked' = asked
    BY DEF Login, LoginRefused, LoginPlaced, LoginKicked, LoginReplaces, LoginTakesOver
  <1>2. tasks # <<>> /\ Begins(Head(tasks)) /\ Head(tasks).client = c /\ Head(tasks).op = "login"
    BY <1>1 DEF Asks, IsNext, Begins
  <1>3. tasks \in Seq(Task) /\ Single(tasks) /\ Ordered(tasks) /\ sends \in Nat
    BY DEF SessionInv, Types, Queued
  <1>4. c \in Of("login", tasks) /\ c \notin Of("login", Tail(tasks)) /\ Tail(tasks) \in Seq(Task)
    BY <1>2, <1>3, TailFacts
  <1>5. c \in asked
    BY <1>4 DEF SessionInv, Queued
  <1>6. /\ accepting' \subseteq Clients
        /\ sends' = sends \/ sends' = sends + 1
        /\ tasks' = Tail(tasks) \/ \E d \in Clients : CloseBehind(d, Tail(tasks))
    <2>1. CASE LoginRefused(c) \/ LoginPlaced(c) \/ LoginKicked(c)
      BY <2>1 DEF LoginRefused, LoginPlaced, LoginKicked, AddToAutosend, Close, SendsBound
    <2>2. CASE LoginReplaces(c)
      <3>1. PICK p \in inGame : HasClient(p) /\ Close(owner[p], Tail(tasks))
        BY <2>2 DEF LoginReplaces, FoundPlayers
      <3>2. owner[p] \in Clients
        BY <3>1 DEF SessionInv, Types, HasClient
      <3> QED
        BY <2>2, <3>1, <3>2 DEF LoginReplaces, AddToAutosend, Close, SendsBound
    <2>3. CASE LoginTakesOver(c)
      <3>1. PICK p \in inGame : Connect(c, p, Tail(tasks))
        BY <2>3 DEF LoginTakesOver, FoundPlayers
      <3> QED
        BY <2>3, <3>1 DEF LoginTakesOver, AddToAutosend, Connect, Attach, Close, SendsBound
    <2> QED
      BY <2>1, <2>2, <2>3 DEF Login
  <1>7. QueueMoves /\ Of("login", tasks') \subseteq Of("login", tasks)
    BY <1>2, <1>6, LoginsOnlyGo
  <1>8. c \notin Of("login", tasks')
    <2>1. ASSUME NEW d \in Clients, CloseBehind(d, Tail(tasks)) PROVE c \notin Of("login", tasks')
      <3>1. PICK rest : rest = Tail(tasks)
        OBVIOUS
      <3>2. tasks' = rest \/ tasks' = Append(rest, [op |-> "release", client |-> d])
        BY <2>1, <3>1 DEF CloseBehind
      <3>3. Of("login", tasks') = Of("login", rest)
        <4>1. rest \in Seq(Task)
          BY <1>4, <3>1
        <4>2. Of("login", Append(rest, [op |-> "release", client |-> d])) = Of("login", rest)
          BY <4>1, AppendRelease
        <4> QED
          BY <3>2, <4>2
      <3> QED
        BY <1>4, <3>1, <3>3
    <2> QED
      BY <1>4, <1>6, <2>1
  <1>9. Cardinality(Calls(tasks')) <= Cardinality(Calls(tasks))
    BY <1>3, <1>7, MovesAddNoCall
  <1>10. Cardinality(Calls(tasks)) \in Nat /\ Cardinality(Calls(tasks')) \in Nat
    BY CallsCounted DEF SessionInv, Types
  <1>11. sends' + Cardinality(Calls(tasks')) <= sends + Cardinality(Calls(tasks)) + 1
    BY <1>3, <1>6, <1>9, <1>10
  <1> QED
    BY <1>1, <1>4, <1>5, <1>6, <1>7, <1>8, <1>11, BoundGrows

LEMMA BoundStep ==
  ASSUME SessionInv, SessionInv', SendsBound, [SessionNext]_vars
  PROVE  SendsBound'
  <1> USE DEF protoVars, worldVars, playerVars, poolVars, connVars
  <1>1. ASSUME NEW c \in Clients, NetStep(c) PROVE SendsBound'
    BY <1>1, QuietBound
       DEF NetStep, Accept, NetCloses, ConnectionDestroyed, ParseBegins, Close, SendsBound
  <1>2. ASSUME NEW c \in Clients, ParseEnds(c) PROVE SendsBound'
    BY <1>2, ParseBound
  <1>3. ASSUME NEW c \in Clients, Login(c) PROVE SendsBound'
    BY <1>3, LoginBound
  <1>4. ASSUME NEW c \in Clients, Release(c) \/ Logout(c) PROVE SendsBound'
    BY <1>4, QuietBound DEF Release, Logout, LoggedOut, Close, IsNext, SendsBound
  <1>5. CASE ConnectRuns
    <2>1. /\ tasks # <<>> /\ Head(tasks).op = "connect" /\ Begins(Head(tasks))
          /\ Connect(Head(tasks).client, Head(tasks).player, Tail(tasks))
          /\ asked' = asked /\ sends' = sends
      BY <1>5 DEF ConnectRuns, IsNext, Begins
    <2>2. PICK c \in Clients : c = Head(tasks).client
      BY <2>1, BeginFacts
    <2>3. /\ accepting' \subseteq Clients
          /\ tasks' = Tail(tasks) \/ CloseBehind(c, Tail(tasks))
      BY <2>1, <2>2 DEF Connect, Attach, Close, SendsBound
    <2> QED
      BY <2>1, <2>2, <2>3, QuietBound
  <1>6. CASE SendAll
    BY <1>6, SendAllBound
  <1>7. CASE OtherTask
    <2>1. /\ sends' = sends /\ asked' = asked /\ accepting' = accepting
          /\ tasks' = tasks \/ \E c \in Clients : CloseBehind(c, tasks)
      BY <1>7, KickBound DEF OtherTask, GameKicks, PingTimesOut, PlayerDies, Cleanup
    <2> QED
      BY <2>1, QuietBound DEF SendsBound
  <1>8. CASE Timers
    BY <1>8, TimersBound
  <1>9. CASE UNCHANGED vars
    BY <1>9, QuietBound DEF vars, SendsBound
  <1> QED
    BY <1>1, <1>2, <1>3, <1>4, <1>5, <1>6, <1>7, <1>8, <1>9 DEF SessionNext, QueuedTask

\* isConnecting is set for players of the game only.
ConnectingTyped == isConnecting \subseteq Clients

LEMMA ConnectingStep ==
  ASSUME SessionInv, isConnecting \subseteq Clients, [SessionNext]_vars
  PROVE  isConnecting' \subseteq Clients
  <1> USE DEF protoVars, worldVars, playerVars, poolVars, connVars
  <1>1. inGame \subseteq Clients
    BY DEF SessionInv, Types
  <1>2. ASSUME NEW c \in Clients, Login(c) PROVE isConnecting' \subseteq Clients
    BY <1>1, <1>2 DEF Login, LoginRefused, LoginPlaced, LoginKicked, LoginReplaces,
       LoginTakesOver, NewPlayer, Connect, Attach, FoundPlayers
  <1>3. ASSUME NEW c \in Clients, NetStep(c) \/ ParseEnds(c) PROVE isConnecting' = isConnecting
    BY <1>3 DEF NetStep, Accept, NetCloses, ConnectionDestroyed, ParseBegins,
       ParseEnds, ParseLogin, ParseLogout, ParseOther, ParseFails
  <1>4. CASE ConnectRuns
    BY <1>4 DEF ConnectRuns, Connect, Attach
  <1>5. ASSUME NEW c \in Clients, Release(c) \/ Logout(c) PROVE isConnecting' = isConnecting
    BY <1>5 DEF Release, Logout
  <1>6. CASE SendAll \/ OtherTask \/ Timers
    BY <1>6 DEF SendAll, OtherTask, GameKicks, PingTimesOut, PlayerDies, Cleanup,
       Timers, SendExpires, ConnectExpires
  <1>7. CASE UNCHANGED vars
    BY <1>7 DEF vars
  <1> QED
    BY <1>2, <1>3, <1>4, <1>5, <1>6, <1>7 DEF SessionNext, QueuedTask

\* Every variable stays of its type; a reference counter never passes the world and one
\* protocol, and there are never more calls of sendAll than clients, although a list that
\* empties and fills again schedules one more (outputmessage.cpp:74-83).
THEOREM SessionTypes == SessionSpec => []SessionTypeOK
  <1>1. SessionInit => SendsBound
    <2> SUFFICES ASSUME SessionInit PROVE SendsBound
      OBVIOUS
    <2>1. Calls(tasks) = {} /\ Begun = {} /\ sends = 0 /\ accepting = {}
      BY DEF SessionInit, Calls, Begun
    <2> QED
      BY <2>1, FS_EmptySet DEF SendsBound
  <1>2. SessionInv /\ SessionInv' /\ SendsBound /\ [SessionNext]_vars => SendsBound'
    BY BoundStep
  <1>3. SessionInit => ConnectingTyped
    BY DEF SessionInit, ConnectingTyped
  <1>4. SessionInv /\ ConnectingTyped /\ [SessionNext]_vars => ConnectingTyped'
    BY ConnectingStep DEF ConnectingTyped
  <1>5. SessionInv /\ SendsBound /\ ConnectingTyped => SessionTypeOK
    <2> SUFFICES ASSUME SessionInv, SendsBound, ConnectingTyped PROVE SessionTypeOK
      OBVIOUS
    <2>1. Types /\ Counted
      BY DEF SessionInv, Bodies
    <2>2. refs \in [Clients -> 0 .. 2]
      <3>1. \A p \in Clients : refs[p] \in 0 .. 2
        BY <2>1 DEF Counted
      <3>2. refs = [p \in Clients |-> refs[p]]
        BY <2>1 DEF Types
      <3> QED
        BY <3>1, <3>2
    <2>3. sends \in 0 .. Cardinality(Clients)
      <3>1. Begun \in SUBSET Clients
        BY <2>1 DEF Begun, Types
      <3>2. Cardinality(Begun) <= Cardinality(Clients) /\ IsFiniteSet(Begun)
        BY <3>1, FS_Subset, SessionAssumption
      <3>3. Cardinality(Begun) \in Nat /\ Cardinality(Clients) \in Nat
        BY <3>2, FS_CardinalityType, SessionAssumption
      <3>4. Cardinality(Calls(tasks)) \in Nat /\ sends \in Nat
        BY <2>1, CallsCounted DEF Types
      <3> QED
        BY <3>2, <3>3, <3>4 DEF SendsBound
    <2> QED
      <3>1. {asked, accepting, released, isConnecting, inGame, leaving, autosend}
               \subseteq SUBSET Clients
        BY <2>1 DEF Types, SendsBound, ConnectingTyped
      <3> QED
        BY <2>1, <2>2, <2>3, <3>1 DEF Types, ConnStates, SessionTypeOK
  <1> QED
    BY <1>1, <1>2, <1>3, <1>4, <1>5, SessionInvariant, PTL DEF SessionSpec
=============================================================================

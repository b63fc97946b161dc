------------------------------- MODULE Session -------------------------------
(***************************************************************************)
(* From an accepted connection to a player in the game and back:           *)
(* src/src/connection.cpp, src/src/protocolgame.cpp:66-288 and the         *)
(* autosend list of src/src/outputmessage.cpp.                             *)
(*                                                                         *)
(* The network thread parses packets and closes connections; everything    *)
(* else runs as tasks of the dispatcher, which serves them in order        *)
(* (TaskQueue). All clients log in to one character: getPlayerByName finds *)
(* only players of that name, clones are off and replaceKickOnLogin is on, *)
(* as in src/config.lua. A Player object is named by the client whose      *)
(* login created it. Casting and telescopes are left out.                  *)
(***************************************************************************)
EXTENDS Naturals, Sequences, FiniteSets, Functions

CONSTANTS
    Clients,        \* Connection and ProtocolGame of each client, used once
    NoClient

ASSUME SessionAssumption == NoClient \notin Clients /\ IsFiniteSet(Clients)

VARIABLES
    conn,           \* connectionState; "gone" once the Connection is destroyed
    parsing,        \* the client in parsePacket, whose connectionLock is held
    asked,          \* clients with receivedFirst
    player,         \* ProtocolGame::player
    accepting,      \* clients with acceptPackets
    released,       \* clients whose release has been run
    owner,          \* Viewer::owner of each Player object
    isConnecting,   \* Player objects with isConnecting
    refs,           \* reference counter of each Player object
    inGame,         \* Player objects in the game
    leaving,        \* Player objects in ToReleaseCreatures
    tasks,          \* the dispatcher's tasks, oldest first
    connects,       \* calls of connect that wait in the scheduler
    autosend,       \* OutputMessagePool::bufferedProtocols
    sends           \* calls of sendAll that wait in the scheduler

connVars == <<conn, parsing, asked>>
protoVars == <<player, accepting, released>>
worldVars == <<inGame, leaving>>
playerVars == <<owner, isConnecting, refs>>
poolVars == <<autosend, sends>>
vars == <<connVars, protoVars, playerVars, worldVars, tasks, connects, poolVars>>

NoPlayer == NoClient

Task ==
    [op : {"login", "release", "logout"}, client : Clients]
      \cup [op : {"connect"}, client : Clients, player : Clients]
      \cup [op : {"sendAll"}]

SessionInit ==
    /\ conn = [c \in Clients |-> "none"]
    /\ parsing = NoClient
    /\ player = [c \in Clients |-> NoPlayer]
    /\ owner = [p \in Clients |-> NoClient]
    /\ refs = [p \in Clients |-> 0]
    /\ asked = {} /\ accepting = {} /\ released = {} /\ isConnecting = {}
    /\ inGame = {} /\ leaving = {} /\ connects = {} /\ autosend = {}
    /\ tasks = <<>>
    /\ sends = 0

-----------------------------------------------------------------------------
(* The network thread. *)

Accept(c) ==
    /\ conn[c] = "none"
    /\ conn' = [conn EXCEPT ![c] = "open"]
    /\ UNCHANGED <<parsing, asked, protoVars, playerVars, worldVars, tasks, connects, poolVars>>

\* Mutant of CloseBehind: release overtakes the tasks that are queued.
CloseAhead(c, rest) ==
    /\ conn' = [conn EXCEPT ![c] = IF @ = "open" THEN "closed" ELSE @]
    /\ tasks' = IF conn[c] = "open"
                THEN <<[op |-> "release", client |-> c]>> \o rest
                ELSE rest

\* Connection::close, when rest are the tasks that are queued: the first call
\* queues Protocol::release behind them.
CloseBehind(c, rest) ==
    /\ conn' = [conn EXCEPT ![c] = IF @ = "open" THEN "closed" ELSE @]
    /\ tasks' = IF conn[c] = "open"
                THEN Append(rest, [op |-> "release", client |-> c])
                ELSE rest

\* Mutant of Close: the connection is closed without its lock.
CloseUnlocked(c, rest) == CloseBehind(c, rest)

\* Any other thread than the one that parses waits for connectionLock.
Close(c, rest) == parsing # c /\ CloseBehind(c, rest)

\* The peer is gone, or a read or write took longer than 30 seconds.
NetCloses(c) ==
    /\ parsing = NoClient
    /\ conn[c] = "open"
    /\ Close(c, tasks)
    /\ UNCHANGED <<parsing, asked, protoVars, playerVars, worldVars, connects, poolVars>>

\* The last handler of the socket has run and with it the last owner is gone.
ConnectionDestroyed(c) ==
    /\ conn[c] = "closed"
    /\ parsing # c
    /\ conn' = [conn EXCEPT ![c] = "gone"]
    /\ UNCHANGED <<parsing, asked, protoVars, playerVars, worldVars, tasks, connects, poolVars>>

ParseBegins(c) ==
    /\ parsing = NoClient
    /\ conn[c] = "open"
    /\ parsing' = c
    /\ UNCHANGED <<conn, asked, protoVars, playerVars, worldVars, tasks, connects, poolVars>>

\* onRecvFirstMessage, when the account is right.
ParseLogin(c) ==
    /\ parsing = c
    /\ c \notin asked
    /\ asked' = asked \cup {c}
    /\ tasks' = Append(tasks, [op |-> "login", client |-> c])
    /\ parsing' = NoClient
    /\ UNCHANGED <<conn, protoVars, playerVars, worldVars, connects, poolVars>>

\* ProtocolGame::parsePacket: the client asks to log out, once at a time (bound).
ParseLogout(c) ==
    /\ parsing = c
    /\ c \in asked /\ c \in accepting
    /\ player[c] # NoPlayer
    /\ [op |-> "logout", client |-> c] \notin Range(tasks)
    /\ tasks' = Append(tasks, [op |-> "logout", client |-> c])
    /\ parsing' = NoClient
    /\ UNCHANGED <<conn, asked, protoVars, playerVars, worldVars, connects, poolVars>>

\* Any other packet in the game: its effects are not the session's.
ParseOther(c) ==
    /\ parsing = c
    /\ c \in asked
    /\ parsing' = NoClient
    /\ UNCHANGED <<conn, asked, protoVars, playerVars, worldVars, tasks, connects, poolVars>>

\* The first packet is refused, or the player of the client is dead and the
\* client says so: the parsing thread, which has the lock, closes.
ParseFails(c) ==
    /\ parsing = c
    /\ c \notin asked \/ (c \in accepting /\ player[c] \notin inGame)
    /\ CloseBehind(c, tasks)
    /\ parsing' = NoClient
    /\ asked' = asked \cup {c}
    /\ UNCHANGED <<protoVars, playerVars, worldVars, connects, poolVars>>

-----------------------------------------------------------------------------
(* The autosend list. *)

\* Mutant of AddToAutosend: sendAll is scheduled by later protocols only.
AddToAutosendLater(c) ==
    /\ autosend' = autosend \cup {c}
    /\ sends' = IF autosend # {} THEN sends + 1 ELSE sends

AddToAutosend(c) ==
    /\ autosend' = autosend \cup {c}
    /\ sends' = IF autosend = {} THEN sends + 1 ELSE sends

SendExpires ==
    /\ sends > 0
    /\ sends' = sends - 1
    /\ tasks' = Append(tasks, [op |-> "sendAll"])
    /\ UNCHANGED <<connVars, protoVars, playerVars, worldVars, connects, autosend>>

-----------------------------------------------------------------------------
(* The tasks of the dispatcher. *)

IsNext(op) == tasks # <<>> /\ Head(tasks).op = op

\* Player::hasClient.
HasClient(p) == owner[p] # NoClient

SendAll ==
    /\ IsNext("sendAll")
    /\ tasks' = Tail(tasks)
    /\ sends' = IF autosend # {} THEN sends + 1 ELSE sends
    /\ UNCHANGED <<connVars, protoVars, playerVars, worldVars, connects, autosend>>

\* Mutant of Attach: the reference of the new protocol is not counted.
AttachUncounted(c, p) ==
    /\ player' = [player EXCEPT ![c] = p]
    /\ owner' = [owner EXCEPT ![p] = c]
    /\ isConnecting' = isConnecting \ {p}
    /\ accepting' = accepting \cup {c}
    /\ UNCHANGED <<refs, released>>

\* A ProtocolGame takes over a Player object of the game.
Attach(c, p) ==
    /\ player' = [player EXCEPT ![c] = p]
    /\ refs' = [refs EXCEPT ![p] = @ + 1]
    /\ owner' = [owner EXCEPT ![p] = c]
    /\ isConnecting' = isConnecting \ {p}
    /\ accepting' = accepting \cup {c}
    /\ UNCHANGED released

\* Mutant of Connect: who owns the player is not asked when the event comes.
ConnectUnchecked(c, p, rest) ==
    \/ /\ p \notin inGame
       /\ Close(c, rest)
       /\ UNCHANGED <<protoVars, playerVars>>
    \/ /\ p \in inGame /\ conn[c] = "gone"
       /\ tasks' = rest
       /\ UNCHANGED <<conn, protoVars, playerVars>>
    \/ /\ p \in inGame /\ conn[c] # "gone"
       /\ Attach(c, p)
       /\ tasks' = rest
       /\ UNCHANGED conn

\* Mutant of Connect: a client that comes too late is not told.
ConnectSilent(c, p, rest) ==
    \/ /\ p \notin inGame \/ HasClient(p) \/ conn[c] = "gone"
       /\ tasks' = rest
       /\ UNCHANGED <<conn, protoVars, playerVars>>
    \/ /\ p \in inGame /\ ~HasClient(p) /\ conn[c] # "gone"
       /\ Attach(c, p)
       /\ tasks' = rest
       /\ UNCHANGED conn

\* ProtocolGame::connect: refused; nobody is there any more; or attached.
Connect(c, p, rest) ==
    \/ /\ p \notin inGame \/ HasClient(p)
       /\ Close(c, rest)
       /\ UNCHANGED <<protoVars, playerVars>>
    \/ /\ p \in inGame /\ ~HasClient(p) /\ conn[c] = "gone"
       /\ tasks' = rest
       /\ UNCHANGED <<conn, protoVars, playerVars>>
    \/ /\ p \in inGame /\ ~HasClient(p) /\ conn[c] # "gone"
       /\ Attach(c, p)
       /\ tasks' = rest
       /\ UNCHANGED conn

\* getPlayerByName.
FoundPlayers == inGame

\* A new Player object is made for c, with n references to it.
NewPlayer(c, n) ==
    /\ player' = [player EXCEPT ![c] = c]
    /\ owner' = [owner EXCEPT ![c] = c]
    /\ refs' = [refs EXCEPT ![c] = n]
    /\ UNCHANGED <<released, isConnecting>>

Asks(c) == IsNext("login") /\ Head(tasks).client = c

\* Banned, on the waiting list, not loaded, no room: the object is made all the same.
LoginRefused(c) ==
    /\ Asks(c) /\ FoundPlayers = {}
    /\ NewPlayer(c, 1)
    /\ Close(c, Tail(tasks))
    /\ UNCHANGED <<parsing, asked, accepting, worldVars, connects, poolVars>>

LoginPlaced(c) ==
    /\ Asks(c) /\ FoundPlayers = {}
    /\ NewPlayer(c, 2)
    /\ inGame' = inGame \cup {c}
    /\ accepting' = accepting \cup {c}
    /\ AddToAutosend(c)
    /\ tasks' = Tail(tasks)
    /\ UNCHANGED <<connVars, leaving, connects>>

\* A login script refuses the player that has been placed: it is kicked.
LoginKicked(c) ==
    /\ Asks(c) /\ FoundPlayers = {}
    /\ NewPlayer(c, 2)
    /\ leaving' = leaving \cup {c}
    /\ accepting' = accepting \cup {c}
    /\ AddToAutosend(c)
    /\ Close(c, Tail(tasks))
    /\ UNCHANGED <<parsing, asked, inGame, connects>>

\* The client of the player is sent away; c connects a second later.
LoginReplaces(c) ==
    /\ Asks(c)
    /\ \E p \in FoundPlayers :
          /\ HasClient(p)
          /\ Close(owner[p], Tail(tasks))
          /\ isConnecting' = isConnecting \cup {p}
          /\ connects' = connects \cup {[client |-> c, player |-> p]}
    /\ AddToAutosend(c)
    /\ UNCHANGED <<parsing, asked, protoVars, owner, refs, worldVars>>

LoginTakesOver(c) ==
    /\ Asks(c)
    /\ \E p \in FoundPlayers : ~HasClient(p) /\ Connect(c, p, Tail(tasks))
    /\ AddToAutosend(c)
    /\ UNCHANGED <<parsing, asked, worldVars, connects>>

ConnectExpires(e) ==
    /\ connects' = connects \ {e}
    /\ tasks' = Append(tasks, [op |-> "connect", client |-> e.client, player |-> e.player])
    /\ UNCHANGED <<connVars, protoVars, playerVars, worldVars, poolVars>>

ConnectRuns ==
    /\ IsNext("connect")
    /\ Connect(Head(tasks).client, Head(tasks).player, Tail(tasks))
    /\ UNCHANGED <<parsing, asked, worldVars, connects, poolVars>>

\* Mutant of LetGo: the counter of the object in the game is forgotten.
LetGoUncounted(c) ==
    LET p == player[c] IN
    IF p = NoPlayer THEN UNCHANGED <<player, owner, refs>>
    ELSE /\ owner' = [owner EXCEPT ![p] = IF @ = c THEN NoClient ELSE @]
         /\ refs' = [refs EXCEPT ![p] = IF p \in inGame THEN @ ELSE @ - 1]
         /\ player' = [player EXCEPT ![c] = NoPlayer]

\* The player half of ProtocolGame::release.
LetGo(c) ==
    LET p == player[c] IN
    IF p = NoPlayer THEN UNCHANGED <<player, owner, refs>>
    ELSE /\ owner' = [owner EXCEPT ![p] = IF @ = c THEN NoClient ELSE @]
         /\ refs' = [refs EXCEPT ![p] = @ - 1]
         /\ player' = [player EXCEPT ![c] = NoPlayer]

Release(c) ==
    /\ IsNext("release") /\ Head(tasks).client = c
    /\ LetGo(c)
    /\ autosend' = autosend \ {c}
    /\ released' = released \cup {c}
    /\ tasks' = Tail(tasks)
    /\ UNCHANGED <<connVars, accepting, isConnecting, worldVars, connects, sends>>

\* The body of ProtocolGame::logout when it is not refused.
LoggedOut(c, rest) ==
    /\ Close(c, rest)
    /\ inGame' = inGame \ {player[c]}
    /\ leaving' = leaving \cup (inGame \cap {player[c]})

\* Refused while the player may not log out; never refused once it is removed.
Logout(c) ==
    /\ IsNext("logout") /\ Head(tasks).client = c
    /\ \/ /\ player[c] = NoPlayer \/ player[c] \in inGame
          /\ tasks' = Tail(tasks)
          /\ UNCHANGED <<conn, worldVars>>
       \/ /\ player[c] # NoPlayer
          /\ LoggedOut(c, Tail(tasks))
    /\ UNCHANGED <<parsing, asked, protoVars, playerVars, connects, poolVars>>

\* Player::kickPlayer, by way of the client if there is one.
Kicked(p) ==
    \/ /\ HasClient(p)
       /\ LoggedOut(owner[p], tasks)
    \/ /\ ~HasClient(p)
       /\ inGame' = inGame \ {p}
       /\ leaving' = leaving \cup {p}
       /\ UNCHANGED <<conn, tasks>>

\* Any other task of the game: a house, a script, an idle player.
GameKicks(p) ==
    /\ p \in inGame
    /\ Kicked(p)
    /\ UNCHANGED <<parsing, asked, protoVars, playerVars, connects, poolVars>>

\* Player::sendPing without an answer for a minute, where the player may log out.
PingTimesOut(p) ==
    /\ p \in inGame \ isConnecting
    /\ Kicked(p)
    /\ UNCHANGED <<parsing, asked, protoVars, playerVars, connects, poolVars>>

\* Creature::onDeath: the client stays, at the window of its death.
PlayerDies(p) ==
    /\ p \in inGame
    /\ inGame' = inGame \ {p}
    /\ leaving' = leaving \cup {p}
    /\ UNCHANGED <<connVars, protoVars, playerVars, tasks, connects, poolVars>>

\* Game::cleanup.
Cleanup ==
    /\ leaving # {}
    /\ refs' = [p \in Clients |-> IF p \in leaving THEN refs[p] - 1 ELSE refs[p]]
    /\ leaving' = {}
    /\ UNCHANGED <<connVars, protoVars, owner, isConnecting, inGame, tasks, connects, poolVars>>

-----------------------------------------------------------------------------
NetStep(c) ==
    Accept(c) \/ NetCloses(c) \/ ConnectionDestroyed(c) \/ ParseBegins(c)

ParseEnds(c) == ParseLogin(c) \/ ParseLogout(c) \/ ParseOther(c) \/ ParseFails(c)

Login(c) ==
    \/ LoginRefused(c) \/ LoginPlaced(c) \/ LoginKicked(c)
    \/ LoginReplaces(c) \/ LoginTakesOver(c)

QueuedTask ==
    \/ \E c \in Clients : Login(c) \/ Release(c) \/ Logout(c)
    \/ ConnectRuns \/ SendAll

OtherTask ==
    \/ \E p \in Clients : GameKicks(p) \/ PingTimesOut(p) \/ PlayerDies(p)
    \/ Cleanup

Timers == SendExpires \/ \E e \in connects : ConnectExpires(e)

SessionNext ==
    \/ \E c \in Clients : NetStep(c) \/ ParseEnds(c)
    \/ QueuedTask \/ OtherTask \/ Timers

SessionSpec == SessionInit /\ [][SessionNext]_vars

\* A packet is parsed to its end, the scheduler's timers expire, and the
\* dispatcher runs its tasks. It waits for a connectionLock that is free between
\* two packets: strong fairness, as a client may send packet after packet.
FairSessionSpec ==
    /\ SessionSpec
    /\ WF_vars(\E c \in Clients : ParseEnds(c))
    /\ \A e \in [client : Clients, player : Clients] :
          WF_vars(e \in connects /\ ConnectExpires(e))
    /\ SF_vars(QueuedTask)

-----------------------------------------------------------------------------
(* Properties. *)

\* Types, and the numbers a reader may rely on: no reference counter passes
\* the two parties that hold a Player object, the world and one protocol.
SessionTypeOK ==
    /\ conn \in [Clients -> {"none", "open", "closed", "gone"}]
    /\ parsing \in Clients \cup {NoClient}
    /\ player \in [Clients -> Clients \cup {NoPlayer}]
    /\ owner \in [Clients -> Clients \cup {NoClient}]
    /\ refs \in [Clients -> 0 .. 2]
    /\ {asked, accepting, released, isConnecting, inGame, leaving, autosend}
          \subseteq SUBSET Clients
    /\ tasks \in Seq(Task)
    /\ connects \subseteq [client : Clients, player : Clients]
    /\ sends \in 0 .. Cardinality(Clients)

\* A Player object is counted once for each ProtocolGame that points to it and
\* once while the game holds it: never deleted under a protocol that still
\* uses it, never kept by a count nobody gives back (protocolgame.cpp:85, 222).
RefsExact ==
    \A p \in Clients :
        refs[p] = Cardinality({c \in Clients : player[c] = p})
                    + (IF p \in inGame \cup leaving THEN 1 ELSE 0)

\* A protocol points to a Player object exactly when it owns the object: nobody
\* plays a character that has been taken over, and a kick, which goes through
\* the owner, does remove the player it is meant for (player.cpp:2268).
OneController == \A c, p \in Clients : player[c] = p <=> owner[p] = c

\* release does not run while the network thread is in a packet of the same
\* client: the Player pointer parsePacket reads stays valid to its end.
NoReleaseInPacket == parsing \notin released

\* Output is collected only for protocols whose release is still to come.
AutosendLive == autosend \cap released = {}

\* While a protocol waits for its output, some call of sendAll is on its way.
AutosendRuns ==
    autosend # {} => sends > 0 \/ [op |-> "sendAll"] \in Range(tasks)

\* Every client whose login was queued is in the end in the game or disconnected.
LoginAnswered ==
    \A c \in Clients :
        [op |-> "login", client |-> c] \in Range(tasks)
            ~> c \in accepting \/ conn[c] # "open"

\* "ProtocolGame::release() has been called at this point and the Connection
\* object no longer exists, so we return to prevent leakage of the Player"
\* (protocolgame.cpp:216): a released protocol never holds a player.
ReleasedHoldsNothing == \A c \in released : player[c] = NoPlayer
=============================================================================

----------------------------- MODULE WaitingList -----------------------------
(***************************************************************************)
(* The waiting list of a full server: src/src/waitlist.cpp, asked by       *)
(* ProtocolGame::login (src/src/protocolgame.cpp:148-166). A client that   *)
(* is turned away is told its place and when to come back, and is          *)
(* disconnected; nothing tells the server that it gave up but the timeout  *)
(* of its entry.                                                           *)
(*                                                                         *)
(* Timeouts are counted in ticks of TickSeconds. The place of a newcomer,  *)
(* which only sets its first timeout, is taken from the real length of the *)
(* lists: clientLogin erases entries of the priority list through the      *)
(* other list (line 131), after which the lengths the code reads are off   *)
(* by one in the library it is built with.                                 *)
(***************************************************************************)
EXTENDS Integers, SequencesExt

CONSTANTS
    Players,
    Premium,        \* some of Players: those who wait in the priority list
    Privileged,     \* some of Players: game masters, and who may always log in
    Patient,        \* some of Players: those whose client keeps asking
    MaxPlayers,     \* ConfigManager::MAX_PLAYERS
    TickSeconds,
    Bits            \* width of std::size_t, as far as time is counted here

VARIABLES
    online,
    priorityWaitList,   \* of records [who, left]: left ticks to the timeout
    waitList,
    gaveUp              \* players whose client will not ask again

vars == <<online, priorityWaitList, waitList, gaveUp>>

Init == online = {} /\ priorityWaitList = <<>> /\ waitList = <<>> /\ gaveUp = {}

\* WaitingList::getTime, in seconds
Time(slot) ==
    CASE slot < 5  -> 5
      [] slot < 10 -> 10
      [] slot < 20 -> 20
      [] slot < 50 -> 60
      [] OTHER     -> 120

Entry(p, slot) == [who |-> p, left |-> (Time(slot) + 15) \div TickSeconds]

\* cleanupList: timeout - time is a difference of unsigned numbers, so that only
\* what times out at this very moment is "<= 0".
Cleaned(list) == SelectSeq(list, LAMBDA e : e.left % 2^Bits > 0)

\* findClient: the place in both lists taken together, 0 for a stranger.
Slot(priority, normal, p) ==
    SelectInSeq(priority \o normal, LAMBDA e : e.who = p)

Without(list, p) == SelectSeq(list, LAMBDA e : e.who # p)

Renewed(list, p, slot) ==
    [i \in DOMAIN list |-> IF list[i].who = p THEN Entry(p, slot) ELSE list[i]]

Enters(p) == online' = online \cup {p}

\* clientLogin of a player nobody makes wait.
LoginAtOnce(p) ==
    /\ p \notin online
    /\ \/ p \in Privileged
       \/ MaxPlayers = 0
       \/ priorityWaitList = <<>> /\ waitList = <<>> /\ Cardinality(online) < MaxPlayers
    /\ Enters(p)
    /\ UNCHANGED <<priorityWaitList, waitList>>

\* clientLogin of the others.
AskForPlace(p) ==
    LET priority == Cleaned(priorityWaitList)
        normal == Cleaned(waitList)
        slot == Slot(priority, normal, p)
    IN  /\ p \notin online \cup Privileged
        /\ MaxPlayers > 0
        /\ ~(priorityWaitList = <<>> /\ waitList = <<>> /\ Cardinality(online) < MaxPlayers)
        /\ \/ /\ slot > 0 /\ Cardinality(online) + slot <= MaxPlayers
              /\ priorityWaitList' = Without(priority, p)
              /\ waitList' = Without(normal, p)
              /\ Enters(p)
           \/ /\ slot > 0 /\ Cardinality(online) + slot > MaxPlayers
              /\ priorityWaitList' = Renewed(priority, p, slot)
              /\ waitList' = Renewed(normal, p, slot)
              /\ UNCHANGED online
           \/ /\ slot = 0 /\ p \in Premium
              /\ priorityWaitList' = Append(priority, Entry(p, Len(priority) + 1))
              /\ waitList' = normal
              /\ UNCHANGED online
           \/ /\ slot = 0 /\ p \notin Premium
              /\ priorityWaitList' = priority
              /\ waitList' = Append(normal, Entry(p, Len(priority) + Len(normal) + 1))
              /\ UNCHANGED online

ClientLogin(p) ==
    /\ p \notin gaveUp
    /\ LoginAtOnce(p) \/ AskForPlace(p)
    /\ UNCHANGED gaveUp

Logout(p) ==
    /\ p \in online
    /\ online' = online \ {p}
    /\ UNCHANGED <<priorityWaitList, waitList, gaveUp>>

\* A client that was turned away is closed.
GiveUp(p) ==
    /\ p \notin Patient \cup online \cup gaveUp
    /\ gaveUp' = gaveUp \cup {p}
    /\ UNCHANGED <<online, priorityWaitList, waitList>>

\* Time passes; what is past stays past. A patient client is back before its timeout,
\* 15 seconds before if it obeys the server.
Tick ==
    LET older(list) == [i \in DOMAIN list |->
                           [list[i] EXCEPT !.left = IF @ < 0 THEN @ ELSE @ - 1]]
        due(list) == {i \in DOMAIN list : list[i].who \in Patient /\ list[i].left <= 1}
    IN  /\ due(priorityWaitList) \cup due(waitList) = {}
        /\ priorityWaitList' = older(priorityWaitList)
        /\ waitList' = older(waitList)
        /\ UNCHANGED <<online, gaveUp>>

Next == Tick \/ \E p \in Players : ClientLogin(p) \/ Logout(p) \/ GiveUp(p)

\* Time passes, and the client of a patient player asks again and again.
FairSpec ==
    /\ Init /\ [][Next]_vars
    /\ WF_vars(Tick)
    /\ \A p \in Patient : WF_vars(ClientLogin(p))

-----------------------------------------------------------------------------
Waits(p) == Slot(priorityWaitList, waitList, p) > 0

\* A place is kept for 15 seconds longer than the client is expected back
\* (waitlist.cpp:60), so a client that gave up cannot bar the others: once only patient
\* players ask, an empty server lets somebody in.
EmptyServerAdmits ==
    \A p \in Patient :
        (Waits(p) /\ online = {} /\ Players \ Patient = gaveUp) ~> (online # {})
=============================================================================

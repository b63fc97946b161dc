------------------------------- MODULE Server -------------------------------
(***************************************************************************)
(* The threads of the running server together: the network thread (main,   *)
(* inside ServiceManager::run), the dispatcher, the scheduler and the      *)
(* database thread, from "Server Online" to the return of main.            *)
(*                                                                         *)
(* A task of the game is abstracted to the calls its body makes into the   *)
(* other threads; setGameState(GAME_STATE_SHUTDOWN), reached from a signal,*)
(* and Game::shutdown are modelled call by call.                           *)
(***************************************************************************)
EXTENDS Dispatcher, Scheduler, DatabaseTasks

CONSTANTS
    Net, Sched, Db,     \* the other three threads
    Packets,            \* tasks the network thread or the game itself creates
    Stored,             \* queries with a callback; the callback task bears their name
    Signals,            \* tasks of sigintHandler
    GameShutdown        \* the task of Game::shutdown

ASSUME ServerAssumption ==
    /\ Threads = {Net, Self, Sched, Db}
    /\ NoOne \notin Threads
    /\ Tasks = Packets \cup Events \cup Stored \cup Signals \cup {GameShutdown}
    /\ Stored \subseteq Queries
    \* The closures of tasks.h and scheduler.h are objects of their own.
    /\ GameShutdown \notin Packets \cup Events \cup Stored \cup Signals \cup Timed
    /\ Signals \cap (Packets \cup Events \cup Stored) = {}
    /\ Events \cap (Packets \cup Stored) = {}

VARIABLES
    mpc,            \* main: serving, joining the threads, returned
    gameState,      \* Game::gameState
    body,           \* where the task running setGameState or Game::shutdown stands
    dying,          \* ServiceManager::stop has armed its death timer
    stopAsked       \* events for which stopEvent has been called

serverVars == <<mpc, gameState, body, dying, stopAsked>>
vars == <<dispVars, schedVars, dbVars, serverVars>>

Bodies == {"start", "kick", "stopScheduler", "stopDatabase", "stopDispatcher",
           "lockDatabase", "flush", "notifyDatabase", "kill", "services", "done"}

\* The types of every part, and what the parts are to each other: only the network
\* thread and the dispatcher queue queries and owe the worker a notification, and only
\* the dispatcher, inside Game::shutdown, ever holds the database lock across steps.
ServerTypeOK ==
    /\ DispTypeOK /\ SchedTypeOK /\ DbTypeOK
    /\ mpc \in {"serve", "joinScheduler", "joinDatabase", "joinDispatcher", "exited"}
    /\ gameState \in {"NORMAL", "SHUTDOWN"}
    /\ body \in Bodies
    /\ dying \in BOOLEAN
    /\ stopAsked \subseteq Events
    /\ dbNotifying \subseteq {Net, Self}
    /\ dbLock # NoOne => dbLock = Self /\ current = <<GameShutdown>> /\ body = "flush"

Init ==
    /\ DispInit /\ SchedInit /\ DbInit
    /\ mpc = "serve"
    /\ gameState = "NORMAL"
    /\ body = "start"
    /\ dying = FALSE
    /\ stopAsked = {}

-----------------------------------------------------------------------------
(* The network thread, later the main thread that joins the others. *)

NetIdle == mpc = "serve" /\ Net \notin notifying \cup dbNotifying

NetReceives ==
    /\ NetIdle
    /\ \E t \in Packets : AddTask(Net, t)
    /\ UNCHANGED <<schedVars, dbVars, serverVars>>

NetSignal ==
    /\ NetIdle
    /\ \E t \in Signals : AddTask(Net, t)
    /\ UNCHANGED <<schedVars, dbVars, serverVars>>

\* A login checks its address before it is queued: isIpBanned deletes a ban that has
\* expired. Nobody waits for the answer.
NetQueries ==
    /\ NetIdle
    /\ \E q \in Queries \ (Stored \cup Range(acceptedQueries)) : DbAddTask(Net, q)
    /\ UNCHANGED <<dispVars, schedVars, serverVars>>

\* A service port that fails to accept is opened again by an event.
NetAddsEvent ==
    /\ NetIdle
    /\ \E e \in {x \in Events : eventId[x] = 0} : AddEvent(e)
    /\ UNCHANGED <<dispVars, dbVars, serverVars>>

\* The notify_one of an addTask that a handler called.
NetNotifies ==
    /\ \/ NotifyOne(Net) /\ UNCHANGED dbVars
       \/ DbNotify(Net) /\ UNCHANGED dispVars
    /\ UNCHANGED <<schedVars, serverVars>>

\* The death timer stops the io_service and run() returns.
NetDies ==
    /\ NetIdle
    /\ dying
    /\ mpc' = "joinScheduler"
    /\ UNCHANGED <<dispVars, schedVars, dbVars, gameState, body, dying, stopAsked>>

Join(from, ended, to) ==
    /\ mpc = from
    /\ ended
    /\ mpc' = to
    /\ UNCHANGED <<dispVars, schedVars, dbVars, gameState, body, dying, stopAsked>>

MainJoins ==
    \/ Join("joinScheduler", spc = "exit", "joinDatabase")
    \/ Join("joinDatabase", wpc = "exit", "joinDispatcher")
    \/ Join("joinDispatcher", dpc = "exit", "exited")

-----------------------------------------------------------------------------
(* The bodies of tasks. *)

Running(tasks) == current # <<>> /\ current[1] \in tasks /\ Self \notin notifying \cup dbNotifying

\* Where ordinary game code runs: in any ordinary task, and while setGameState
\* executes the shutdown scripts, kicks the players and saves.
GameCode ==
    \/ Running(Packets \cup Events \cup Stored)
    \/ (Running(Signals) /\ body = "kick")

GameAddsTask ==
    /\ GameCode
    /\ \E t \in Packets : AddTask(Self, t)
    /\ UNCHANGED <<schedVars, dbVars, serverVars>>

GameAddsEvent ==
    /\ GameCode
    /\ \E e \in {x \in Events : eventId[x] = 0} : AddEvent(e)
    /\ UNCHANGED <<dispVars, dbVars, serverVars>>

GameStopsEvent ==
    /\ GameCode
    /\ \E e \in Events \ stopAsked :
          /\ StopEvent(eventId[e])
          /\ stopAsked' = stopAsked \cup {e}
    /\ UNCHANGED <<dispVars, dbVars, mpc, gameState, body, dying>>

GameQueries ==
    /\ GameCode
    /\ \E q \in Queries \ Range(acceptedQueries) : DbAddTask(Self, q)
    /\ UNCHANGED <<dispVars, schedVars, serverVars>>

GameEnds ==
    /\ Running(AllTasks)
    /\ current[1] \in Signals \cup {GameShutdown} => body = "done"
    /\ FinishTask
    /\ body' = "start"
    /\ UNCHANGED <<schedVars, dbVars, mpc, gameState, dying, stopAsked>>

Goes(from, to) == body = from /\ body' = to

\* Game::setGameState(GAME_STATE_SHUTDOWN).
BeginShutdown ==
    /\ Running(Signals)
    /\ Goes("start", IF gameState = "SHUTDOWN" THEN "done" ELSE "kick")
    /\ gameState' = "SHUTDOWN"
    /\ UNCHANGED <<dispVars, schedVars, dbVars, mpc, dying, stopAsked>>

QueueGameShutdown ==
    /\ Running(Signals)
    /\ Goes("kick", "stopScheduler")
    /\ AddTask(Self, GameShutdown)
    /\ UNCHANGED <<schedVars, dbVars, mpc, gameState, dying, stopAsked>>

SetGameStateStops ==
    /\ Running(Signals)
    /\ \/ /\ Goes("stopScheduler", "stopDatabase")
          /\ StopScheduler
          /\ UNCHANGED <<dispVars, dbVars>>
       \/ /\ Goes("stopDatabase", "stopDispatcher")
          /\ StopDatabase
          /\ UNCHANGED <<dispVars, schedVars>>
       \/ /\ Goes("stopDispatcher", "done")
          /\ Stop
          /\ UNCHANGED <<schedVars, dbVars>>
    /\ UNCHANGED <<mpc, gameState, dying, stopAsked>>

\* Game::shutdown: the scheduler, the database thread, the dispatcher, the services.
GameShutdownStep ==
    /\ \/ Running({GameShutdown})
       \/ current = <<GameShutdown>> /\ body = "notifyDatabase"
    /\ \/ /\ Goes("start", "lockDatabase")
          /\ ShutdownScheduler
          /\ UNCHANGED <<dispVars, dbVars, dying>>
       \/ /\ Goes("lockDatabase", "flush")
          /\ ShutdownDatabase(Self)
          /\ UNCHANGED <<dispVars, schedVars, dying>>
       \/ /\ Goes("flush", "flush")
          /\ FlushQuery(Self)
          /\ IF Head(dbTasks) \in Stored THEN AddTask(Self, Head(dbTasks)) ELSE UNCHANGED dispVars
          /\ UNCHANGED <<schedVars, dying>>
       \/ /\ Goes("flush", "notifyDatabase")
          /\ UnlockDatabase(Self)
          /\ UNCHANGED <<dispVars, schedVars, dying>>
       \/ /\ Goes("notifyDatabase", "kill")
          /\ DbNotify(Self)
          /\ UNCHANGED <<dispVars, schedVars, dying>>
       \/ /\ Goes("kill", "services")
          /\ Shutdown(Self)
          /\ UNCHANGED <<schedVars, dbVars, dying>>
       \/ /\ Goes("services", "done")
          /\ dying' = TRUE
          /\ UNCHANGED <<dispVars, schedVars, dbVars>>
    /\ UNCHANGED <<mpc, gameState, stopAsked>>

\* The notify_one of an addTask that a body called.
BodyNotifies ==
    /\ \/ NotifyOne(Self) /\ UNCHANGED dbVars
       \/ body # "notifyDatabase" /\ DbNotify(Self) /\ UNCHANGED dispVars
    /\ UNCHANGED <<schedVars, serverVars>>

DispatcherLoops ==
    /\ TestState \/ LockList \/ SwapLists \/ StartTask \/ SkipExpired \/ EndBatch
    /\ UNCHANGED <<schedVars, dbVars, serverVars>>

DispatcherWakes ==
    /\ SpuriousWakeup
    /\ UNCHANGED <<schedVars, dbVars, serverVars>>

-----------------------------------------------------------------------------
(* The scheduler's and the database's threads. *)

SchedulerHandles ==
    /\ Sched \notin notifying
    /\ \/ (StartTimer \/ CancelTimer \/ Discard \/ StopContext) /\ UNCHANGED dispVars
       \/ \E e \in Events : Deliver(e) /\ AddTask(Sched, e)
    /\ UNCHANGED <<dbVars, serverVars>>

SchedulerNotifies ==
    /\ NotifyOne(Sched)
    /\ UNCHANGED <<schedVars, dbVars, serverVars>>

SchedulerTimer ==
    /\ \E id \in DOMAIN timers : TimerExpires(id)
    /\ UNCHANGED <<dispVars, dbVars, serverVars>>

DatabaseWorks ==
    /\ Db \notin notifying
    /\ \/ WorkerStep /\ UNCHANGED dispVars
       \/ /\ WorkerCallback
          /\ IF taken \in Stored THEN AddTask(Db, taken) ELSE UNCHANGED dispVars
    /\ UNCHANGED <<schedVars, serverVars>>

DatabaseNotifies ==
    /\ NotifyOne(Db)
    /\ UNCHANGED <<schedVars, dbVars, serverVars>>

DatabaseWakes ==
    /\ WorkerSpuriousWakeup
    /\ UNCHANGED <<dispVars, schedVars, serverVars>>

-----------------------------------------------------------------------------
NetThread ==
    \/ NetReceives \/ NetSignal \/ NetQueries \/ NetAddsEvent
    \/ NetNotifies \/ NetDies \/ MainJoins

DispatcherThread ==
    \/ GameAddsTask \/ GameAddsEvent \/ GameStopsEvent \/ GameQueries \/ GameEnds
    \/ BeginShutdown \/ QueueGameShutdown \/ SetGameStateStops \/ GameShutdownStep
    \/ BodyNotifies \/ DispatcherLoops \/ DispatcherWakes

Next ==
    \/ NetThread
    \/ DispatcherThread
    \/ SchedulerHandles \/ SchedulerNotifies \/ SchedulerTimer
    \/ DatabaseWorks \/ DatabaseNotifies \/ DatabaseWakes

Spec == Init /\ [][Next]_vars

\* Every thread that can go on is scheduled, an armed timer expires, and main goes
\* on when a join can return. Packets, signals, the calls of game code and spurious
\* wakeups are not promised.
Fairness ==
    /\ WF_vars(NetNotifies) /\ WF_vars(NetDies) /\ WF_vars(MainJoins)
    /\ WF_vars(GameEnds) /\ WF_vars(BeginShutdown) /\ WF_vars(QueueGameShutdown)
    /\ WF_vars(SetGameStateStops) /\ WF_vars(GameShutdownStep)
    /\ WF_vars(BodyNotifies) /\ WF_vars(DispatcherLoops)
    /\ WF_vars(SchedulerHandles) /\ WF_vars(SchedulerNotifies) /\ WF_vars(SchedulerTimer)
    /\ WF_vars(DatabaseWorks) /\ WF_vars(DatabaseNotifies)

FairSpec == Spec /\ Fairness

-----------------------------------------------------------------------------
(* Properties. *)

RunBefore(p, q) ==
    \E i, j \in DOMAIN ranQueries : i < j /\ ranQueries[i] = p /\ ranQueries[j] = q

\* Queries reach the database in the order in which the game and the network thread
\* queued them (a ban's history is written before the ban is deleted, ban.cpp:77-82),
\* except that the one query the worker popped before shutdown may be overtaken by the
\* queries the dispatcher flushes meanwhile (databasetasks.cpp:44-47, 96-99).
QueriesInOrder ==
    \A i, j \in DOMAIN acceptedQueries :
        LET p == acceptedQueries[i]
            q == acceptedQueries[j]
        IN  i < j /\ q \in Range(ranQueries) /\ ~RunBefore(p, q)
              => dbState = "TERMINATED" /\ taken = p

\* When main returns, every query that was accepted has been run, once: nothing is
\* left in the list, whichever thread got to it.
NoQueryLost ==
    mpc = "exited" => /\ Range(ranQueries) = Range(acceptedQueries)
                      /\ Len(ranQueries) = Len(acceptedQueries)

\* After the dispatcher has been terminated no work is left in it: addTask refuses
\* tasks from setGameState's stop on, so the task of shutdown is the last one.
ShutdownTaskIsLast == dispState = "TERMINATED" => Pending = <<>> /\ current = <<>>

\* A SchedulerTask is owned by the scheduler or by the dispatcher, never by both,
\* and by nobody once it is deleted: it is deleted by the one it was in
\* (scheduler.cpp:44, tasks.cpp:75 and 93).
EventHasOneOwner ==
    \A e \in Events :
        /\ e \in InScheduler => e \in fresh \ discarded
        /\ e \in discarded => e \in fresh \ Range(Pending \o current)

\* The scheduler deletes an event undispatched only if its own id was stopped or the
\* scheduler was shut down: no other event's stop or timer takes it along.
EventsDieOnRequest ==
    \A e \in discarded : e \in stopAsked \/ schedState = "TERMINATED"

\* A signal handled by the dispatcher ends the dispatcher's and the scheduler's
\* threads, and leaves the database with no query to run.
SignalStopsThreads ==
    gameState = "SHUTDOWN" ~>
        dpc = "exit" /\ spc = "exit" /\ dbTasks = <<>> /\ wpc \in {"exit", "wait"}

\* What signals.cpp:88 says of SIGINT: "Shuts the server down". The database worker
\* can read its state before DatabaseTasks::shutdown changes it, and wait after
\* shutdown's notify_one.
ServerShutsDown == gameState = "SHUTDOWN" ~> mpc = "exited"
=============================================================================

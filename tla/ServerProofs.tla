---------------------------- MODULE ServerProofs ----------------------------
(* Theorems about the threads of the server together, for any number of    *)
(* packets, events, queries and signals.                                   *)
EXTENDS Server, DispatcherProofs, FiniteSetTheorems

-----------------------------------------------------------------------------
(* The dispatcher inside the server is the dispatcher of the module of that name. *)

LEMMA ServerStepsDispatcher == [Next]_vars => [DispNext]_dispVars
<1> SUFFICES ASSUME [Next]_vars
             PROVE  [DispNext]_dispVars
  OBVIOUS
<1> USE ServerAssumption DEF DispNext, Call
<1>1. CASE NetThread
  BY <1>1 DEF NetThread, NetReceives, NetSignal, NetQueries, NetAddsEvent, NetNotifies, NetDies,
              MainJoins, Join
<1>2. CASE GameAddsTask \/ GameAddsEvent \/ GameStopsEvent \/ GameQueries
  BY <1>2 DEF GameAddsTask, GameAddsEvent, GameStopsEvent, GameQueries
<1>3. CASE GameEnds \/ BeginShutdown \/ QueueGameShutdown \/ SetGameStateStops
  BY <1>3 DEF GameEnds, BeginShutdown, QueueGameShutdown, SetGameStateStops, ThreadStep
<1>4. CASE GameShutdownStep
  BY <1>4 DEF GameShutdownStep
<1>5. CASE BodyNotifies \/ DispatcherLoops \/ DispatcherWakes
  BY <1>5 DEF BodyNotifies, DispatcherLoops, DispatcherWakes, ThreadStep
<1>6. CASE SchedulerHandles \/ SchedulerNotifies \/ SchedulerTimer
  BY <1>6 DEF SchedulerHandles, SchedulerNotifies, SchedulerTimer
<1>7. CASE DatabaseWorks \/ DatabaseNotifies \/ DatabaseWakes
  BY <1>7 DEF DatabaseWorks, DatabaseNotifies, DatabaseWakes
<1>8. CASE UNCHANGED vars
  BY <1>8 DEF vars
<1>9. QED
  BY <1>1, <1>2, <1>3, <1>4, <1>5, <1>6, <1>7, <1>8 DEF Next, DispatcherThread

\* Every behaviour of the server's threads is one of the dispatcher with arbitrary
\* callers: what is proved of the dispatcher alone holds in the server.
THEOREM ServerRunsDispatcher == Spec => DispSpec
<1>1. Init => DispInit
  BY DEF Init
<1>2. QED
  BY <1>1, ServerStepsDispatcher, PTL DEF Spec, DispSpec

-----------------------------------------------------------------------------
(* What the dispatcher's steps do to the tasks that wait. *)

Queued == Range(Pending)

LEMMA HandFacts ==
  ASSUME DispTypeOK, OneOwner
  PROVE  /\ Pending \in Seq(AllTasks)
         /\ IsInjective(Pending)
         /\ Queued \cap fresh = {}
         /\ \A t \in AllTasks : current = <<t>> => t \notin Queued \cup fresh
<1>1. /\ taskList \in Seq(AllTasks) /\ tmpTaskList \in Seq(AllTasks)
      /\ current = <<>> \/ \E t \in AllTasks : current = <<t>>
  BY DEF DispTypeOK
<1>2. Pending \in Seq(AllTasks)
  BY <1>1, ConcatProperties DEF Pending
<1>3. IsInjective(current \o Pending) /\ Range(current \o Pending) \cap fresh = {}
  BY DEF OneOwner
<1>4. CASE current = <<>>
  <2>1. current \o Pending = Pending
    BY <1>2, <1>4, ConcatEmptySeq
  <2>2. QED
    BY <1>2, <1>3, <1>4, <2>1 DEF Queued
<1>5. CASE \E t \in AllTasks : current = <<t>>
  <2>1. PICK t \in AllTasks : current = <<t>>
    BY <1>5
  <2>2. /\ <<t>> \in Seq(AllTasks) /\ Len(<<t>>) = 1 /\ <<t>>[1] = t
        /\ <<t>> # <<>> /\ Head(<<t>>) = t /\ Tail(<<t>>) = <<>>
    OBVIOUS
  <2> DEFINE h == <<t>> \o Pending
  <2>3. /\ h \in Seq(AllTasks) /\ h # <<>> /\ Head(h) = t /\ Tail(h) = Pending
    BY <1>2, <2>2, ConcatHeadTail, ConcatEmptySeq, ConcatProperties
  <2>4. IsInjective(h) /\ Range(h) \cap fresh = {}
    BY <1>3, <2>1
  <2> HIDE DEF h
  <2>5. IsInjective(Pending) /\ Range(Pending) \cap fresh = {}
    BY <2>3, <2>4, OwnedTail
  <2>6. /\ Len(h) \in Nat \ {0} /\ DOMAIN h = 1 .. Len(h) /\ h[1] = t
        /\ Len(Pending) = Len(h) - 1 /\ DOMAIN Pending = 1 .. Len(Pending)
        /\ \A i \in 1 .. Len(Pending) : Pending[i] = h[i + 1]
    <3>1. Len(h) \in Nat \ {0} /\ DOMAIN h = 1 .. Len(h)
      BY <2>3, LenProperties, EmptySeq
    <3>2. Head(h) = h[1] /\ Len(Tail(h)) = Len(h) - 1
      BY <2>3, HeadTailProperties
    <3>3. \A i \in 1 .. Len(Tail(h)) : Tail(h)[i] = h[i + 1]
      BY <2>3, HeadTailProperties
    <3>4. DOMAIN Pending = 1 .. Len(Pending)
      BY <1>2, LenProperties
    <3>5. QED
      BY <2>3, <3>1, <3>2, <3>3, <3>4, Zenon
  <2>7. t \notin Queued
    BY <2>4, <2>6 DEF Queued, Range, IsInjective
  <2>8. t \notin fresh
    BY <2>4, <2>6 DEF Range
  <2>9. QED
    BY <1>2, <2>1, <2>5, <2>7, <2>8 DEF Queued
<1>6. QED
  BY <1>1, <1>4, <1>5

LEMMA RangeAppend ==
  ASSUME NEW S, NEW h \in Seq(S), NEW t \in S
  PROVE  Range(Append(h, t)) = Range(h) \cup {t}
<1>1. /\ DOMAIN h = 1 .. Len(h) /\ Len(h) \in Nat
      /\ DOMAIN Append(h, t) = 1 .. (Len(h) + 1)
      /\ \A i \in 1 .. Len(h) : Append(h, t)[i] = h[i]
      /\ Append(h, t)[Len(h) + 1] = t
  BY AppendProperties, LenProperties
<1>2. \A i \in 1 .. (Len(h) + 1) : i \in 1 .. Len(h) \/ i = Len(h) + 1
  BY <1>1
<1>3. 1 .. Len(h) \subseteq 1 .. (Len(h) + 1) /\ Len(h) + 1 \in 1 .. (Len(h) + 1)
  BY <1>1
<1>4. QED
  BY <1>1, <1>2, <1>3 DEF Range

LEMMA RangeTail ==
  ASSUME NEW S, NEW h \in Seq(S), h # <<>>
  PROVE  /\ Head(h) \in S /\ Head(h) \in Range(h)
         /\ Tail(h) \in Seq(S)
         /\ Range(h) = {Head(h)} \cup Range(Tail(h))
         /\ IsInjective(h) => Head(h) \notin Range(Tail(h))
<1>1. /\ Tail(h) \in Seq(S) /\ Head(h) \in S /\ Head(h) = h[1]
      /\ Len(h) \in Nat \ {0}
      /\ DOMAIN h = 1 .. Len(h)
      /\ DOMAIN Tail(h) = 1 .. (Len(h) - 1)
      /\ \A i \in 1 .. (Len(h) - 1) : Tail(h)[i] = h[i + 1]
  BY HeadTailProperties, LenProperties, EmptySeq
<1>2. \A i \in 1 .. Len(h) : i = 1 \/ (i - 1 \in 1 .. (Len(h) - 1) /\ h[i] = Tail(h)[i - 1])
  BY <1>1
<1>3. \A i \in 1 .. (Len(h) - 1) : i + 1 \in 1 .. Len(h) /\ i + 1 # 1
  BY <1>1
<1>4. 1 \in 1 .. Len(h)
  BY <1>1
<1>5. Range(h) = {Head(h)} \cup Range(Tail(h))
  <2>1. ASSUME NEW i \in 1 .. Len(h)
        PROVE  h[i] \in {Head(h)} \cup Range(Tail(h))
    BY <1>1, <1>2 DEF Range
  <2>2. ASSUME NEW i \in 1 .. (Len(h) - 1)
        PROVE  Tail(h)[i] \in Range(h)
    BY <1>1, <1>3 DEF Range
  <2>3. Head(h) \in Range(h)
    BY <1>1, <1>4 DEF Range
  <2>4. Range(h) \subseteq {Head(h)} \cup Range(Tail(h))
    BY <1>1, <2>1 DEF Range
  <2>5. Range(Tail(h)) \subseteq Range(h)
    BY <1>1, <2>2 DEF Range
  <2>6. QED
    BY <2>3, <2>4, <2>5
<1>6. IsInjective(h) => Head(h) \notin Range(Tail(h))
  BY <1>1, <1>3, <1>4 DEF Range, IsInjective
<1>7. QED
  BY <1>1, <1>4, <1>5, <1>6

LEMMA RangeEmpty == Range(<<>>) = {}
  BY EmptySeq DEF Range

LEMMA AddTaskEffect ==
  ASSUME DispTypeOK, NEW th, NEW t \in Tasks, AddTask(th, t)
  PROVE  /\ Pending' = IF dispState = "RUNNING" THEN Append(Pending, t) ELSE Pending
         /\ Queued' = IF dispState = "RUNNING" THEN Queued \cup {t} ELSE Queued
<1>1. taskList \in Seq(AllTasks) /\ tmpTaskList \in Seq(AllTasks) /\ t \in AllTasks
  BY DEF DispTypeOK, AllTasks
<1>2. Pending' = IF dispState = "RUNNING" THEN Append(Pending, t) ELSE Pending
  <2>1. CASE dispState = "RUNNING"
    <3>1. Pending' = tmpTaskList \o Append(taskList, t)
      BY <2>1 DEF Pending, AddTask
    <3>2. QED
      BY <1>1, <2>1, <3>1, ConcatAppend DEF Pending
  <2>2. CASE dispState # "RUNNING"
    BY <2>2 DEF Pending, AddTask
  <2>3. QED
    BY <2>1, <2>2
<1>3. Pending \in Seq(AllTasks)
  BY <1>1, ConcatProperties DEF Pending
<1>4. Range(Append(Pending, t)) = Queued \cup {t}
  BY <1>1, <1>3, RangeAppend DEF Queued
<1>5. QED
  BY <1>2, <1>4 DEF Queued

LEMMA ShutdownEffect ==
  ASSUME DispTypeOK, NEW th, Shutdown(th)
  PROVE  Pending' = Append(Pending, Kill) /\ Queued' = Queued \cup {Kill}
<1>1. taskList \in Seq(AllTasks) /\ tmpTaskList \in Seq(AllTasks) /\ Kill \in AllTasks
  BY DEF DispTypeOK, AllTasks
<1>2. Pending' = Append(Pending, Kill)
  BY <1>1, ConcatAppend DEF Pending, Shutdown
<1>3. Pending \in Seq(AllTasks)
  BY <1>1, ConcatProperties DEF Pending
<1>4. QED
  BY <1>1, <1>2, <1>3, RangeAppend DEF Queued

\* The steps of threadMain's loop: the batches are exchanged, or the oldest task is
\* started, or it has expired.
LEMMA LoopEffect ==
  ASSUME DispTypeOK,
         TestState \/ LockList \/ SwapLists \/ StartTask \/ SkipExpired \/ EndBatch
  PROVE  /\ UNCHANGED <<fresh, dispState, notifying>>
         /\ \/ UNCHANGED <<Pending, current>>
            \/ /\ current = <<>> /\ Pending # <<>> /\ Pending' = Tail(Pending)
               /\ \/ current' = <<Head(Pending)>>
                  \/ current' = <<>> /\ Head(Pending) \in Timed
<1>1. /\ taskList \in Seq(AllTasks) /\ tmpTaskList \in Seq(AllTasks)
      /\ dpc # "run" => tmpTaskList = <<>> /\ current = <<>>
  BY DEF DispTypeOK
<1>2. ASSUME tmpTaskList = <<>>, tmpTaskList' = taskList, taskList' = tmpTaskList
      PROVE  Pending' = Pending
  BY <1>1, <1>2, ConcatEmptySeq DEF Pending
<1>3. ASSUME tmpTaskList # <<>>, tmpTaskList' = Tail(tmpTaskList), UNCHANGED taskList
      PROVE  /\ Pending # <<>> /\ Pending' = Tail(Pending)
             /\ Head(Pending) = Head(tmpTaskList)
  BY <1>1, <1>3, ConcatHeadTail DEF Pending
<1>4. CASE TestState \/ EndBatch
  BY <1>4 DEF TestState, EndBatch, Pending
<1>5. CASE LockList
  BY <1>1, <1>2, <1>5 DEF LockList, Pending
<1>6. CASE SwapLists
  BY <1>1, <1>2, <1>6 DEF SwapLists
<1>7. CASE StartTask
  BY <1>3, <1>7 DEF StartTask
<1>8. CASE SkipExpired
  BY <1>3, <1>8 DEF SkipExpired
<1>9. QED
  BY <1>4, <1>5, <1>6, <1>7, <1>8

-----------------------------------------------------------------------------
(* How far a shutdown has come. *)

InSignal == current # <<>> /\ current[1] \in Signals
InShutdown == current = <<GameShutdown>>

Stopping == {"stopScheduler", "stopDatabase", "stopDispatcher"}
ShuttingDown == {"lockDatabase", "flush", "notifyDatabase", "kill", "services"}

\* The task of Game::shutdown has not come past these steps.
Before(steps) ==
    \/ GameShutdown \in fresh \cup Queued
    \/ InShutdown /\ body \in {"start"} \cup steps

\* Which bodies run which steps.
BodiesInv ==
    /\ body \in {"start", "kick", "done"} \cup Stopping \cup ShuttingDown
    /\ body \in {"kick"} \cup Stopping => InSignal
    /\ body \in ShuttingDown => InShutdown
    /\ body = "done" => InSignal \/ InShutdown
    /\ GameShutdown \in fresh =>
          \/ gameState = "NORMAL" /\ body = "start"
          \/ gameState = "SHUTDOWN" /\ body = "kick"
    /\ GameShutdown \notin fresh => gameState = "SHUTDOWN" /\ body # "kick"
    /\ body \in Stopping => GameShutdown \in Queued

\* The states of the threads follow the steps.
StatesInv ==
    /\ dispState = "RUNNING" <=> GameShutdown \in fresh \/ body \in Stopping
    /\ schedState = "RUNNING" <=> GameShutdown \in fresh \/ body = "stopScheduler"
    /\ dbState = "RUNNING" <=> GameShutdown \in fresh \/ body \in {"stopScheduler", "stopDatabase"}
    /\ schedState = "TERMINATED" => ~Before({})
    /\ dbState = "TERMINATED" <=> ~Before({"lockDatabase"})
    /\ Kill \notin fresh => ~Before({"lockDatabase", "flush", "notifyDatabase", "kill"})
    /\ dispState = "TERMINATED" => Kill \notin fresh

\* The threads end when they have been told, and main returns after them.
EndsInv ==
    /\ dpc = "exit" => dispState = "TERMINATED"
    /\ wpc = "exit" => dbState = "TERMINATED"
    /\ mpc \in {"joinDispatcher", "exited"} => wpc = "exit"
    /\ mpc = "exited" => dpc = "exit"

\* Who shuts the database thread down holds its lock while he flushes, and leaves it
\* with nothing to do.
FlushInv ==
    /\ dbLock = IF body = "flush" THEN Self ELSE NoOne
    /\ dbState = "TERMINATED" /\ body # "flush" => dbTasks = <<>>
    /\ dbNotifying \subseteq {Net, Self}

\* The task that ends the dispatcher is the last one it takes.
KillInv ==
    /\ \A i \in DOMAIN Pending : Pending[i] = Kill => i = Len(Pending)
    /\ current = <<Kill>> \/ dispState = "TERMINATED" => Pending = <<>>
    /\ dispState = "TERMINATED" => current = <<>>

PhaseInv ==
    /\ DispTypeOK /\ OneOwner
    /\ BodiesInv /\ StatesInv /\ EndsInv /\ FlushInv /\ KillInv

LEMMA PhaseInit == Init => PhaseInv
<1> SUFFICES ASSUME Init
             PROVE  PhaseInv
  OBVIOUS
<1> USE ServerAssumption, DispatcherAssumption
<1>1. DispInit /\ SchedInit /\ DbInit
  BY DEF Init
<1>2. DispTypeOK
  BY <1>1, TypeInit
<1>3. Pending = <<>> /\ current \o Pending = <<>> /\ Queued = {} /\ DOMAIN Pending = {}
  BY <1>1, ConcatEmptySeq, EmptySeq, RangeEmpty DEF DispInit, Pending, Queued
<1>4. OneOwner
  BY <1>3, RangeEmpty DEF OneOwner, IsInjective
<1>5. GameShutdown \in fresh /\ Kill \in fresh
  BY <1>1 DEF DispInit, AllTasks
<1>6. BodiesInv
  BY <1>5 DEF Init, BodiesInv, Stopping, ShuttingDown
<1>7. StatesInv
  BY <1>1, <1>5 DEF Init, DispInit, SchedInit, DbInit, StatesInv, Before, InShutdown, Stopping
<1>8. EndsInv /\ FlushInv /\ KillInv
  BY <1>1, <1>3 DEF Init, DispInit, DbInit, EndsInv, FlushInv, KillInv
<1>9. QED
  BY <1>2, <1>4, <1>6, <1>7, <1>8 DEF PhaseInv

\* A step after which the dispatcher holds the same task, and the tasks of
\* Game::shutdown and of Dispatcher::shutdown are where they were.
SameHand ==
    /\ UNCHANGED <<current, dispState>>
    /\ dpc' = "exit" <=> dpc = "exit"
    /\ GameShutdown \in fresh' <=> GameShutdown \in fresh
    /\ Kill \in fresh' <=> Kill \in fresh
    /\ GameShutdown \in Queued' <=> GameShutdown \in Queued

LEMMA KillAppended ==
  ASSUME DispTypeOK, OneOwner, KillInv, NEW t \in AllTasks,
         Kill \in fresh, dispState # "TERMINATED",
         Pending' = Append(Pending, t), UNCHANGED <<current, dispState>>
  PROVE  KillInv'
<1> USE DispatcherAssumption
<1>1. Kill \in AllTasks /\ Pending \in Seq(AllTasks) /\ Kill \notin Queued /\ current # <<Kill>>
  BY HandFacts DEF AllTasks
<1>2. /\ Len(Pending) \in Nat /\ DOMAIN Pending = 1 .. Len(Pending)
      /\ Len(Pending') = Len(Pending) + 1
      /\ DOMAIN Pending' = 1 .. (Len(Pending) + 1)
      /\ \A i \in 1 .. Len(Pending) : Pending'[i] = Pending[i]
  BY <1>1, AppendProperties, LenProperties
<1>3. \A i \in 1 .. Len(Pending) : Pending[i] # Kill
  BY <1>1, <1>2 DEF Queued, Range
<1>4. \A i \in DOMAIN Pending' : Pending'[i] = Kill => i = Len(Pending')
  BY <1>2, <1>3
<1>5. QED
  BY <1>1, <1>4 DEF KillInv

LEMMA HandKept ==
  ASSUME PhaseInv,
         \/ \E th \in Threads, t \in Tasks \ {GameShutdown} : AddTask(th, t)
         \/ \E th \in Threads : NotifyOne(th)
         \/ SpuriousWakeup
         \/ UNCHANGED dispVars
  PROVE  SameHand /\ KillInv'
<1> USE ServerAssumption, DispatcherAssumption
<1>1. DispTypeOK /\ OneOwner /\ StatesInv /\ KillInv
  BY DEF PhaseInv
<1>2. ASSUME NEW th \in Threads, NEW t \in Tasks \ {GameShutdown}, AddTask(th, t)
      PROVE  SameHand /\ KillInv'
  <2>1. /\ t \in AllTasks /\ t # Kill /\ UNCHANGED <<current, dispState, dpc>>
        /\ fresh' = fresh \ {t}
    BY <1>2 DEF AddTask, AllTasks
  <2>2. SameHand
    BY <1>1, <1>2, <2>1, AddTaskEffect DEF SameHand
  <2>3. CASE dispState = "RUNNING"
    <3>1. Kill \in fresh
      BY <1>1, <2>3, HandFacts DEF StatesInv, BodiesInv, Before, PhaseInv
    <3>2. Pending' = Append(Pending, t)
      BY <1>1, <1>2, <2>3, AddTaskEffect
    <3>3. QED
      BY <1>1, <2>1, <2>2, <2>3, <3>1, <3>2, KillAppended
  <2>4. CASE dispState # "RUNNING"
    <3>1. Pending' = Pending
      BY <1>1, <1>2, <2>4, AddTaskEffect
    <3>2. QED
      BY <1>1, <2>1, <2>2, <3>1 DEF KillInv
  <2>5. QED
    BY <2>3, <2>4
<1>3. ASSUME UNCHANGED <<current, dispState, taskList, tmpTaskList, fresh>>,
             dpc' = "exit" <=> dpc = "exit"
      PROVE  SameHand /\ KillInv'
  <2>1. Pending' = Pending /\ Queued' = Queued
    BY <1>3 DEF Pending, Queued
  <2>2. QED
    BY <1>1, <1>3, <2>1 DEF SameHand, KillInv
<1>4. CASE \E th \in Threads : NotifyOne(th)
  BY <1>3, <1>4 DEF NotifyOne, Woken
<1>5. CASE SpuriousWakeup
  BY <1>3, <1>5 DEF SpuriousWakeup
<1>6. CASE UNCHANGED dispVars
  BY <1>3, <1>6 DEF dispVars
<1>7. QED
  BY <1>2, <1>4, <1>5, <1>6

\* Then the phase is the same, unless the body or a thread's state changes.
LEMMA PhaseKept ==
  ASSUME PhaseInv, SameHand, UNCHANGED <<body, gameState, schedState, dbState>>
  PROVE  BodiesInv' /\ StatesInv'
<1>1. BodiesInv /\ StatesInv
  BY DEF PhaseInv
<1>2. BodiesInv'
  BY <1>1 DEF BodiesInv, SameHand, InSignal, InShutdown
<1>3. StatesInv'
  BY <1>1 DEF StatesInv, SameHand, Before, InShutdown
<1>4. QED
  BY <1>2, <1>3

\* A timer that expires changes the scheduler only.
LEMMA TimerAlone == SchedulerTimer => UNCHANGED <<dbVars, serverVars>>
  BY DEF SchedulerTimer

\* The steps of the other threads, and the ordinary steps of game code.
LEMMA OtherThreadsPhase ==
  ASSUME PhaseInv,
         \/ NetThread
         \/ GameAddsTask \/ GameAddsEvent \/ GameStopsEvent \/ GameQueries
         \/ BodyNotifies \/ DispatcherWakes
         \/ SchedulerHandles \/ SchedulerNotifies \/ SchedulerTimer
         \/ DatabaseWorks \/ DatabaseNotifies \/ DatabaseWakes
         \/ UNCHANGED vars
  PROVE  BodiesInv' /\ StatesInv' /\ EndsInv' /\ FlushInv' /\ KillInv'
<1> USE ServerAssumption
<1> DEFINE Calls == \/ \E th \in Threads, t \in Tasks \ {GameShutdown} : AddTask(th, t)
                    \/ \E th \in Threads : NotifyOne(th)
                    \/ SpuriousWakeup
                    \/ UNCHANGED dispVars
           Steady == UNCHANGED <<body, gameState, schedState, dbState>>
<1>1. EndsInv /\ FlushInv
  BY DEF PhaseInv
<1>2. ASSUME Calls, Steady
      PROVE  BodiesInv' /\ StatesInv' /\ KillInv' /\ SameHand
  BY <1>2, HandKept, PhaseKept
<1>3. ASSUME UNCHANGED <<wpc, mpc>>, SameHand, Steady
      PROVE  EndsInv'
  BY <1>1, <1>3 DEF EndsInv, SameHand
<1>4. ASSUME UNCHANGED <<dbLock, dbTasks, dbNotifying, body, dbState>>
      PROVE  FlushInv'
  BY <1>1, <1>4 DEF FlushInv
<1>5. CASE NetReceives \/ NetSignal \/ NetDies \/ MainJoins
  <2>1. Calls /\ Steady /\ UNCHANGED <<wpc, dbLock, dbTasks, dbNotifying>>
    BY <1>5 DEF NetReceives, NetSignal, NetDies, MainJoins, Join,
                schedVars, dbVars, serverVars
  <2>2. EndsInv'
    <3>1. mpc' = mpc \/ mpc' = "joinScheduler" \/ mpc' = "joinDatabase"
          \/ (mpc' = "joinDispatcher" /\ wpc = "exit")
          \/ (mpc = "joinDispatcher" /\ mpc' = "exited" /\ dpc = "exit")
      BY <1>5 DEF NetReceives, NetSignal, NetDies, MainJoins, Join, serverVars
    <3>2. SameHand
      BY <1>2, <2>1
    <3>3. QED
      BY <1>1, <2>1, <3>1, <3>2 DEF EndsInv, SameHand
  <2>3. QED
    BY <1>2, <1>4, <2>1, <2>2
<1>6. CASE GameAddsTask \/ GameAddsEvent \/ NetAddsEvent \/ GameStopsEvent \/ DispatcherWakes
  <2>1. Calls /\ Steady /\ UNCHANGED <<wpc, mpc, dbLock, dbTasks, dbNotifying>>
    BY <1>6 DEF GameAddsTask, GameAddsEvent, NetAddsEvent, GameStopsEvent, DispatcherWakes, AddEvent, StopEvent,
                schedVars, dbVars, serverVars
  <2>2. QED
    BY <1>2, <1>3, <1>4, <2>1
<1>7. CASE GameQueries \/ NetQueries
  <2>1. Calls /\ Steady /\ UNCHANGED <<wpc, mpc, dbLock>>
    BY <1>7 DEF GameQueries, NetQueries, DbAddTask, schedVars, serverVars
  <2>2. FlushInv'
    BY <1>1, <1>7 DEF FlushInv, GameQueries, NetQueries, DbAddTask, serverVars
  <2>3. QED
    BY <1>2, <1>3, <2>1, <2>2
<1>8. CASE BodyNotifies \/ NetNotifies
  <2>1. /\ Calls /\ Steady /\ UNCHANGED <<mpc, dbLock, dbTasks>>
        /\ dbNotifying' \subseteq dbNotifying
        /\ wpc' = "exit" <=> wpc = "exit"
    BY <1>8 DEF BodyNotifies, NetNotifies, DbNotify, WokenWorker, schedVars, dbVars, serverVars
  <2>2. FlushInv'
    BY <1>1, <2>1 DEF FlushInv
  <2>3. EndsInv'
    <3>1. SameHand
      BY <1>2, <2>1
    <3>2. QED
      BY <1>1, <2>1, <3>1 DEF EndsInv, SameHand
  <2>4. QED
    BY <1>2, <2>1, <2>2, <2>3
<1>9. CASE SchedulerHandles \/ SchedulerNotifies \/ SchedulerTimer
  <2>1. Steady /\ UNCHANGED <<wpc, mpc, dbLock, dbTasks, dbNotifying>>
    <3>1. UNCHANGED <<dbVars, serverVars>>
      <4>1. SchedulerHandles => UNCHANGED <<dbVars, serverVars>>
        BY DEF SchedulerHandles
      <4>2. SchedulerNotifies => UNCHANGED <<dbVars, serverVars>>
        BY Zenon DEF SchedulerNotifies
      <4>3. SchedulerTimer => UNCHANGED <<dbVars, serverVars>>
        BY TimerAlone
      <4>4. QED
        BY <1>9, <4>1, <4>2, <4>3
    <3>2. UNCHANGED schedState
      <4>1. SchedulerHandles => UNCHANGED schedState
        BY DEF SchedulerHandles, StartTimer, CancelTimer, Discard, StopContext, Deliver
      <4>2. SchedulerNotifies => UNCHANGED schedState
        BY DEF SchedulerNotifies, schedVars
      <4>3. SchedulerTimer => UNCHANGED schedState
        BY DEF SchedulerTimer, TimerExpires
      <4>4. QED
        BY <1>9, <4>1, <4>2, <4>3
    <3>3. QED
      BY <3>1, <3>2 DEF dbVars, serverVars
  <2>2. Calls
    BY <1>9 DEF SchedulerHandles, SchedulerNotifies, SchedulerTimer
  <2>3. QED
    BY <1>2, <1>3, <1>4, <2>1, <2>2
<1>10. CASE DatabaseNotifies
  <2>1. Calls /\ Steady /\ UNCHANGED <<wpc, mpc, dbLock, dbTasks, dbNotifying>>
    BY <1>10 DEF DatabaseNotifies, schedVars, dbVars, serverVars
  <2>2. QED
    BY <1>2, <1>3, <1>4, <2>1
<1>11. CASE DatabaseWorks \/ DatabaseWakes
  <2>1. Calls /\ Steady /\ UNCHANGED <<mpc, dbLock, dbNotifying>>
    BY <1>11 DEF DatabaseWorks, DatabaseWakes, WorkerStep, WorkerTest, WorkerLock, WorkerRelock,
                 WorkerQuery, WorkerCallback, WorkerSpuriousWakeup, schedVars, serverVars
  <2>2. /\ wpc' = "exit" => dbState = "TERMINATED" \/ wpc = "exit"
        /\ wpc = "exit" => wpc' = "exit"
        /\ dbTasks = <<>> => dbTasks' = <<>>
    BY <1>11 DEF DatabaseWorks, DatabaseWakes, WorkerStep, WorkerTest, WorkerLock, WorkerRelock,
                 WorkerQuery, WorkerCallback, WorkerSpuriousWakeup, PopQuery
  <2>3. FlushInv'
    BY <1>1, <2>1, <2>2 DEF FlushInv
  <2>4. EndsInv'
    <3>1. SameHand
      BY <1>2, <2>1
    <3>2. QED
      BY <1>1, <2>1, <2>2, <3>1 DEF EndsInv, SameHand
  <2>5. QED
    BY <1>2, <2>1, <2>3, <2>4
<1>12. CASE UNCHANGED vars
  <2>1. Calls /\ Steady /\ UNCHANGED <<wpc, mpc, dbLock, dbTasks, dbNotifying>>
    BY <1>12 DEF vars, schedVars, dbVars, serverVars
  <2>2. QED
    BY <1>2, <1>3, <1>4, <2>1
<1>13. QED
  BY <1>5, <1>6, <1>7, <1>8, <1>9, <1>10, <1>11, <1>12 DEF NetThread

\* The dispatcher's loop takes tasks up, and a body that returns lets go of its task.
LEMMA LoopPhase ==
  ASSUME PhaseInv, DispatcherLoops \/ GameEnds
  PROVE  BodiesInv' /\ StatesInv' /\ EndsInv' /\ FlushInv' /\ KillInv'
<1> USE ServerAssumption, DispatcherAssumption
<1>1. DispTypeOK /\ OneOwner /\ BodiesInv /\ StatesInv /\ EndsInv /\ FlushInv /\ KillInv
  BY DEF PhaseInv
<1>2. /\ Pending \in Seq(AllTasks) /\ IsInjective(Pending) /\ Queued \cap fresh = {}
      /\ \A t \in AllTasks : current = <<t>> => t \notin Queued \cup fresh
  BY <1>1, HandFacts
<1>3. UNCHANGED <<gameState, schedState, dbState, fresh, wpc, mpc, dbLock, dbTasks, dbNotifying>>
  BY DEF DispatcherLoops, GameEnds, schedVars, dbVars, serverVars, TestState, LockList,
         SwapLists, StartTask, SkipExpired, EndBatch, FinishTask
<1>4. CASE DispatcherLoops
  <2>1. TestState \/ LockList \/ SwapLists \/ StartTask \/ SkipExpired \/ EndBatch
    BY <1>4 DEF DispatcherLoops
  <2>2. body' = body /\ dispState' = dispState
    BY <1>1, <1>4, <2>1, LoopEffect DEF DispatcherLoops, serverVars
  <2>3. FlushInv'
    BY <1>1, <1>3, <2>2 DEF FlushInv
  <2>4. EndsInv'
    <3>1. dpc' = "exit" => dpc = "exit" \/ dispState = "TERMINATED"
      BY <2>1 DEF TestState, LockList, SwapLists, StartTask, SkipExpired, EndBatch
    <3>2. dpc = "exit" => dpc' = "exit" \/ tmpTaskList # <<>>
      BY <2>1 DEF TestState, LockList, SwapLists, StartTask, SkipExpired, EndBatch
    <3>3. dpc = "exit" => tmpTaskList = <<>>
      BY <1>1 DEF DispTypeOK
    <3>4. QED
      BY <1>1, <1>3, <2>2, <3>1, <3>2, <3>3 DEF EndsInv
  <2>5. CASE UNCHANGED <<Pending, current>>
    <3>1. Queued' = Queued
      BY <2>5 DEF Queued
    <3>2. BodiesInv'
      BY <1>1, <1>3, <2>2, <2>5, <3>1 DEF BodiesInv, InSignal, InShutdown
    <3>3. StatesInv'
      BY <1>1, <1>3, <2>2, <2>5, <3>1 DEF StatesInv, Before, InShutdown
    <3>4. KillInv'
      BY <1>1, <2>2, <2>5 DEF KillInv
    <3>5. QED
      BY <2>3, <2>4, <3>2, <3>3, <3>4
  <2>6. CASE /\ current = <<>> /\ Pending # <<>> /\ Pending' = Tail(Pending)
             /\ \/ current' = <<Head(Pending)>>
                \/ current' = <<>> /\ Head(Pending) \in Timed
    <3> DEFINE t == Head(Pending)
    <3>1. /\ t \in AllTasks /\ Queued = {t} \cup Queued' /\ t \notin Queued'
          /\ Pending' \in Seq(AllTasks)
      BY <1>2, <2>6, RangeTail DEF Queued
    <3>2. body = "start"
      BY <1>1, <2>6 DEF BodiesInv, InSignal, InShutdown
    <3>3. BodiesInv'
      BY <1>1, <1>3, <2>2, <3>2 DEF BodiesInv, Stopping, ShuttingDown
    <3>4. current' = <<t>> \/ (current' = <<>> /\ t # GameShutdown)
      BY <2>6
    <3> HIDE DEF t
    <3>5. GameShutdown \in Queued <=> GameShutdown \in Queued' \/ InShutdown'
      BY <3>1, <3>4 DEF InShutdown
    <3>6. StatesInv'
      <4>1. ~InShutdown
        BY <2>6 DEF InShutdown
      <4>2. \A S : Before(S) <=> GameShutdown \in fresh \cup Queued
        BY <4>1 DEF Before
      <4>3. \A S : Before(S)' <=> GameShutdown \in fresh \cup Queued
        BY <1>3, <2>2, <3>2, <3>5 DEF Before
      <4>4. \A S : Before(S)' <=> Before(S)
        BY <4>2, <4>3
      <4>5. QED
        BY <1>1, <1>3, <2>2, <4>4 DEF StatesInv
    <3>7. KillInv'
      <4>1. /\ Len(Pending) \in Nat \ {0} /\ DOMAIN Pending = 1 .. Len(Pending)
            /\ t = Pending[1] /\ Len(Pending') = Len(Pending) - 1
            /\ DOMAIN Pending' = 1 .. (Len(Pending) - 1)
            /\ \A i \in 1 .. (Len(Pending) - 1) : Pending'[i] = Pending[i + 1]
        BY <1>2, <2>6, <3>1, HeadTailProperties, LenProperties, EmptySeq DEF t
      <4>0. Len(Pending) \in Nat /\ Len(Pending') = Len(Pending) - 1
        BY <4>1
      <4>2. \A i \in DOMAIN Pending' : Pending'[i] = Kill => i = Len(Pending')
        BY <1>1, <4>1 DEF KillInv
      <4>3. dispState # "TERMINATED"
        BY <1>1, <2>6 DEF KillInv
      <4>4. t = Kill => Pending' = <<>>
        <5>1. ASSUME t = Kill
              PROVE  Len(Pending') = 0
          <6>1. 1 \in DOMAIN Pending /\ Pending[1] = Kill
            BY <4>1, <5>1
          <6>2. 1 = Len(Pending)
            BY <1>1, <6>1 DEF KillInv
          <6>3. QED
            BY <4>0, <6>2
        <5>2. QED
          BY <3>1, <5>1, EmptySeq
      <4>5. current' = <<Kill>> => t = Kill
        BY <3>4
      <4>6. QED
        BY <2>2, <4>2, <4>3, <4>4, <4>5 DEF KillInv
    <3>8. QED
      BY <2>3, <2>4, <3>3, <3>6, <3>7
  <2>7. QED
    BY <1>1, <2>1, <2>5, <2>6, LoopEffect
<1>5. CASE GameEnds
  <2>1. /\ current # <<>> /\ current' = <<>> /\ body' = "start" /\ UNCHANGED <<dpc, Pending>>
        /\ dispState' = IF current = <<Kill>> THEN "TERMINATED" ELSE dispState
        /\ current[1] \in Signals \cup {GameShutdown} => body = "done"
    BY <1>5 DEF GameEnds, FinishTask, Pending
  <2>2. PICK t \in AllTasks : current = <<t>>
    BY <1>1, <2>1 DEF DispTypeOK
  <2>3. Queued' = Queued
    BY <2>1 DEF Queued
  <2>4. body \in {"start", "done"}
    BY <1>1, <2>1, <2>2 DEF BodiesInv, InSignal, InShutdown
  <2>5. FlushInv'
    BY <1>1, <1>3, <2>1, <2>4 DEF FlushInv
  <2>6. EndsInv'
    BY <1>1, <1>3, <2>1 DEF EndsInv
  <2>7. BodiesInv'
    BY <1>1, <1>3, <2>1, <2>4 DEF BodiesInv, Stopping, ShuttingDown
  <2>8. StatesInv'
    <3>1. current = <<Kill>> => Kill \notin fresh /\ ~InShutdown
      BY <1>2 DEF AllTasks, InShutdown
    <3>2. InShutdown => body = "done"
      BY <2>1, <2>2 DEF InShutdown
    <3>3. \A S : "done" \notin S => (Before(S)' <=> Before(S))
      BY <1>3, <2>1, <2>3, <3>2 DEF Before, InShutdown
    <3>4. dispState = "RUNNING" => Kill \in fresh
      BY <1>1 DEF StatesInv, BodiesInv, Before
    <3>5. /\ Before({})' <=> Before({})
          /\ Before({"lockDatabase"})' <=> Before({"lockDatabase"})
          /\ Before({"lockDatabase", "flush", "notifyDatabase", "kill"})'
                <=> Before({"lockDatabase", "flush", "notifyDatabase", "kill"})
      BY <3>3
    <3>6. dispState' = "RUNNING" <=> dispState = "RUNNING"
      BY <2>1, <3>1, <3>4
    <3>7. QED
      BY <1>1, <1>3, <2>1, <2>4, <3>1, <3>5, <3>6 DEF StatesInv, Stopping
  <2>9. KillInv'
    BY <1>1, <2>1 DEF KillInv
  <2>10. QED
    BY <2>5, <2>6, <2>7, <2>8, <2>9
<1>6. QED
  BY <1>4, <1>5

\* setGameState(GAME_STATE_SHUTDOWN), run by a signal's task.
LEMMA SignalPhase ==
  ASSUME PhaseInv, BeginShutdown \/ QueueGameShutdown \/ SetGameStateStops
  PROVE  BodiesInv' /\ StatesInv' /\ EndsInv' /\ FlushInv' /\ KillInv'
<1> USE ServerAssumption, DispatcherAssumption DEF Stopping, ShuttingDown
<1>1. DispTypeOK /\ OneOwner /\ BodiesInv /\ StatesInv /\ EndsInv /\ FlushInv /\ KillInv
  BY DEF PhaseInv
<1>2. /\ Pending \in Seq(AllTasks) /\ Queued \cap fresh = {}
      /\ \A t \in AllTasks : current = <<t>> => t \notin Queued \cup fresh
  BY <1>1, HandFacts
<1>3. InSignal /\ ~InShutdown
  BY DEF BeginShutdown, QueueGameShutdown, SetGameStateStops, Running, InSignal, InShutdown
<1>4. UNCHANGED <<wpc, mpc, dpc, dbLock, dbTasks, dbNotifying, current>>
  BY DEF BeginShutdown, QueueGameShutdown, SetGameStateStops, dispVars, schedVars, dbVars,
         AddTask, StopDatabase, Stop
<1>5. InSignal' /\ ~InShutdown'
  BY <1>3, <1>4 DEF InSignal, InShutdown
<1>6. CASE BeginShutdown
  <2>1. /\ body = "start" /\ gameState' = "SHUTDOWN"
        /\ body' = IF gameState = "SHUTDOWN" THEN "done" ELSE "kick"
        /\ UNCHANGED <<fresh, Pending, Queued, dispState, schedState, dbState>>
    BY <1>6 DEF BeginShutdown, Goes, dispVars, schedVars, dbVars, Pending, Queued
  <2>2. BodiesInv'
    BY <1>1, <1>5, <2>1 DEF BodiesInv
  <2>3. StatesInv'
    BY <1>1, <1>3, <1>5, <2>1 DEF StatesInv, Before
  <2>4. EndsInv' /\ FlushInv' /\ KillInv'
    BY <1>1, <1>4, <2>1 DEF EndsInv, FlushInv, KillInv
  <2>5. QED
    BY <2>2, <2>3, <2>4
<1>7. CASE QueueGameShutdown
  <2>1. /\ body = "kick" /\ body' = "stopScheduler" /\ gameState' = gameState
        /\ AddTask(Self, GameShutdown)
        /\ fresh' = fresh \ {GameShutdown} /\ GameShutdown \in fresh
        /\ UNCHANGED <<dispState, schedState, dbState>>
    BY <1>7 DEF QueueGameShutdown, Goes, AddTask, schedVars, dbVars
  <2>2. dispState = "RUNNING" /\ schedState = "RUNNING" /\ dbState = "RUNNING" /\ Kill \in fresh
    BY <1>1, <2>1 DEF StatesInv, Before
  <2>3. Pending' = Append(Pending, GameShutdown) /\ Queued' = Queued \cup {GameShutdown}
    BY <1>1, <2>1, <2>2, AddTaskEffect
  <2>4. BodiesInv'
    BY <1>1, <1>5, <2>1, <2>3 DEF BodiesInv
  <2>5. StatesInv'
    BY <1>1, <1>5, <2>1, <2>2, <2>3 DEF StatesInv, Before, AllTasks
  <2>6. EndsInv' /\ FlushInv'
    BY <1>1, <1>4, <2>1 DEF EndsInv, FlushInv
  <2>7. KillInv'
    BY <1>1, <1>4, <2>1, <2>2, <2>3, KillAppended DEF AllTasks
  <2>8. QED
    BY <2>4, <2>5, <2>6, <2>7
<1>8. CASE SetGameStateStops
  <2>1. UNCHANGED <<gameState, fresh, Pending, Queued>>
    BY <1>8 DEF SetGameStateStops, Stop, dispVars, Pending, Queued
  <2>2. \/ /\ body = "stopScheduler" /\ body' = "stopDatabase" /\ schedState' = "CLOSING"
           /\ UNCHANGED <<dispState, dbState>>
        \/ /\ body = "stopDatabase" /\ body' = "stopDispatcher" /\ dbState' = "CLOSING"
           /\ UNCHANGED <<dispState, schedState>>
        \/ /\ body = "stopDispatcher" /\ body' = "done" /\ dispState' = "CLOSING"
           /\ UNCHANGED <<schedState, dbState>>
    BY <1>8 DEF SetGameStateStops, Goes, StopScheduler, StopDatabase, Stop, dispVars, schedVars, dbVars
  <2>3. GameShutdown \in Queued /\ GameShutdown \notin fresh /\ Kill \in fresh
    BY <1>1, <1>2, <2>2 DEF BodiesInv, StatesInv, Before
  <2>4. BodiesInv'
    BY <1>1, <1>5, <2>1, <2>2, <2>3 DEF BodiesInv
  <2>5. StatesInv'
    BY <1>1, <1>5, <2>1, <2>2, <2>3 DEF StatesInv, Before
  <2>6. EndsInv'
    <3>1. dispState # "TERMINATED" /\ dbState # "TERMINATED"
      BY <1>1, <2>3 DEF StatesInv, Before
    <3>2. dpc # "exit" /\ wpc # "exit"
      BY <1>1, <3>1 DEF EndsInv
    <3>3. QED
      BY <1>1, <1>4, <3>2 DEF EndsInv
  <2>7. FlushInv'
    BY <1>1, <1>4, <2>2 DEF FlushInv
  <2>8. KillInv'
    BY <1>1, <1>4, <2>1, <2>2 DEF KillInv
  <2>9. QED
    BY <2>4, <2>5, <2>6, <2>7, <2>8
<1>9. QED
  BY <1>6, <1>7, <1>8

\* Game::shutdown, step by step.
LEMMA ShutdownPhase ==
  ASSUME PhaseInv, GameShutdownStep
  PROVE  BodiesInv' /\ StatesInv' /\ EndsInv' /\ FlushInv' /\ KillInv'
<1> USE ServerAssumption, DispatcherAssumption DEF Stopping, ShuttingDown
<1>1. DispTypeOK /\ OneOwner /\ BodiesInv /\ StatesInv /\ EndsInv /\ FlushInv /\ KillInv
  BY DEF PhaseInv
<1>2. /\ Pending \in Seq(AllTasks) /\ Queued \cap fresh = {}
      /\ \A t \in AllTasks : current = <<t>> => t \notin Queued \cup fresh
  BY <1>1, HandFacts
<1>3. InShutdown /\ ~InSignal
  <2>1. current # <<>> /\ current[1] = GameShutdown
    BY DEF GameShutdownStep, Running
  <2>2. \E t \in AllTasks : current = <<t>>
    BY <1>1, <2>1 DEF DispTypeOK
  <2>3. QED
    BY <2>1, <2>2 DEF InShutdown, InSignal
<1>4. GameShutdown \notin Queued /\ GameShutdown \notin fresh
  BY <1>2, <1>3 DEF InShutdown, AllTasks
<1>5. UNCHANGED <<mpc, gameState>> /\ gameState = "SHUTDOWN" /\ dispState # "RUNNING"
  <2>1. body \notin Stopping
    BY <1>1, <1>3 DEF BodiesInv
  <2>2. QED
    BY <1>1, <1>4, <2>1 DEF GameShutdownStep, BodiesInv, StatesInv
<1>6. CASE \/ Goes("start", "lockDatabase") /\ ShutdownScheduler /\ UNCHANGED <<dispVars, dbVars>>
           \/ Goes("lockDatabase", "flush") /\ ShutdownDatabase(Self)
                /\ UNCHANGED <<dispVars, schedVars>>
           \/ Goes("flush", "notifyDatabase") /\ UnlockDatabase(Self)
                /\ UNCHANGED <<dispVars, schedVars>>
           \/ Goes("notifyDatabase", "kill") /\ DbNotify(Self) /\ UNCHANGED <<dispVars, schedVars>>
           \/ Goes("services", "done") /\ UNCHANGED <<dispVars, schedVars, dbVars>>
  <2>1. UNCHANGED <<current, fresh, Pending, Queued, dispState, dpc>>
    BY <1>6 DEF dispVars, Pending, Queued
  <2>2. \/ /\ body = "start" /\ body' = "lockDatabase" /\ schedState' = "TERMINATED"
           /\ UNCHANGED <<dbState, dbLock, dbTasks, dbNotifying, wpc>>
        \/ /\ body = "lockDatabase" /\ body' = "flush" /\ dbState' = "TERMINATED" /\ dbLock' = Self
           /\ UNCHANGED <<schedState, dbTasks, dbNotifying, wpc>>
        \/ /\ body = "flush" /\ body' = "notifyDatabase" /\ dbTasks = <<>> /\ dbLock' = NoOne
           /\ dbNotifying' = dbNotifying \cup {Self} /\ UNCHANGED <<schedState, dbState, dbTasks, wpc>>
        \/ /\ body = "notifyDatabase" /\ body' = "kill" /\ dbNotifying' = dbNotifying \ {Self}
           /\ wpc' = WokenWorker /\ UNCHANGED <<schedState, dbState, dbLock, dbTasks>>
        \/ /\ body = "services" /\ body' = "done"
           /\ UNCHANGED <<schedState, dbState, dbLock, dbTasks, dbNotifying, wpc>>
    BY <1>6 DEF Goes, ShutdownScheduler, ShutdownDatabase, UnlockDatabase, DbNotify, schedVars, dbVars
  <2>3. InShutdown' /\ ~InSignal'
    BY <1>3, <2>1 DEF InShutdown, InSignal
  <2>4. BodiesInv'
    BY <1>1, <1>4, <1>5, <2>1, <2>2, <2>3 DEF BodiesInv
  <2>5. StatesInv'
    BY <1>1, <1>3, <1>4, <1>5, <2>1, <2>2, <2>3 DEF StatesInv, Before
  <2>6. FlushInv'
    BY <1>1, <2>2 DEF FlushInv
  <2>7. EndsInv'
    <3>1. (wpc' = "exit" <=> wpc = "exit") /\ (dbState = "TERMINATED" => dbState' = "TERMINATED")
      BY <2>2 DEF WokenWorker
    <3>2. QED
      BY <1>1, <1>5, <2>1, <3>1 DEF EndsInv
  <2>8. KillInv'
    BY <1>1, <2>1 DEF KillInv
  <2>9. QED
    BY <2>4, <2>5, <2>6, <2>7, <2>8
<1>7. CASE Goes("flush", "flush") /\ FlushQuery(Self) /\ UNCHANGED schedVars
           /\ (IF Head(dbTasks) \in Stored THEN AddTask(Self, Head(dbTasks)) ELSE UNCHANGED dispVars)
  <2>1. SameHand /\ KillInv'
    BY <1>7, HandKept
  <2>2. UNCHANGED <<body, schedState, dbState, dbLock, dbNotifying, wpc>>
    BY <1>7 DEF Goes, FlushQuery, schedVars
  <2>3. BodiesInv' /\ StatesInv'
    BY <1>5, <2>1, <2>2, PhaseKept
  <2>4. FlushInv'
    BY <1>1, <1>7, <2>2 DEF FlushInv, Goes
  <2>5. EndsInv'
    BY <1>1, <1>5, <2>1, <2>2 DEF EndsInv, SameHand
  <2>6. QED
    BY <2>1, <2>3, <2>4, <2>5
<1>8. CASE Goes("kill", "services") /\ Shutdown(Self) /\ UNCHANGED <<schedVars, dbVars>>
  <2>1. /\ body = "kill" /\ body' = "services" /\ Kill \in fresh /\ fresh' = fresh \ {Kill}
        /\ (dpc' = "exit" <=> dpc = "exit")
        /\ UNCHANGED <<current, dispState, schedState, dbState, dbLock, dbTasks, dbNotifying, wpc>>
    BY <1>8 DEF Goes, Shutdown, Woken, schedVars, dbVars
  <2>2. Pending' = Append(Pending, Kill) /\ Queued' = Queued \cup {Kill}
    BY <1>1, <1>8, ShutdownEffect
  <2>3. InShutdown' /\ ~InSignal' /\ GameShutdown # Kill
    BY <1>3, <2>1 DEF InShutdown, InSignal
  <2>4. BodiesInv'
    BY <1>1, <1>4, <1>5, <2>1, <2>2, <2>3 DEF BodiesInv
  <2>5. StatesInv'
    BY <1>1, <1>3, <1>4, <1>5, <2>1, <2>2, <2>3 DEF StatesInv, Before
  <2>6. FlushInv' /\ EndsInv'
    BY <1>1, <1>5, <2>1 DEF FlushInv, EndsInv
  <2>7. KillInv'
    <3>1. dispState # "TERMINATED"
      BY <1>1, <2>1 DEF StatesInv
    <3>2. QED
      BY <1>1, <2>1, <2>2, <3>1, KillAppended DEF AllTasks
  <2>8. QED
    BY <2>4, <2>5, <2>6, <2>7
<1>9. QED
  BY <1>6, <1>7, <1>8 DEF GameShutdownStep

LEMMA PhaseStep == PhaseInv /\ [Next]_vars => PhaseInv'
<1> SUFFICES ASSUME PhaseInv, [Next]_vars
             PROVE  PhaseInv'
  OBVIOUS
<1>1. DispTypeOK' /\ OneOwner'
  BY ServerStepsDispatcher, TypeStep, OwnerStep DEF PhaseInv
<1>2. BodiesInv' /\ StatesInv' /\ EndsInv' /\ FlushInv' /\ KillInv'
  BY OtherThreadsPhase, LoopPhase, SignalPhase, ShutdownPhase DEF Next, DispatcherThread
<1>3. QED
  BY <1>1, <1>2 DEF PhaseInv

LEMMA PhaseInvariant == Spec => []PhaseInv
  BY PhaseInit, PhaseStep, PTL DEF Spec

\* The task that Dispatcher::shutdown pushes is the last one the dispatcher takes:
\* when it has run, no task is left in the lists.
THEOREM ShutdownTaskAlwaysLast == Spec => []ShutdownTaskIsLast
<1>1. PhaseInv => ShutdownTaskIsLast
  BY DEF PhaseInv, KillInv, ShutdownTaskIsLast
<1>2. QED
  BY <1>1, PhaseInvariant, PTL

-----------------------------------------------------------------------------
(* The order in which the queries are run. *)

\* The worker has popped a query and not run it yet.
Popped == wpc = "query"

Done == Len(ranQueries) + (IF Popped THEN 1 ELSE 0)

\* Done counts the queries run, and the one the worker has popped.
LEMMA DoneIs ==
  ASSUME Len(ranQueries) \in Nat
  PROVE  Done \in Nat /\ (Done = Len(ranQueries) \/ Done = Len(ranQueries) + 1)
  <1>1. CASE Popped
    BY <1>1 DEF Done
  <1>2. CASE ~Popped
    BY <1>2 DEF Done
  <1>3. QED
    BY <1>1, <1>2

\* The place in acceptedQueries of the i-th query run, when the k-th query accepted
\* is, or will be, the m-th one run and those between are run before it.
Slot(k, m, i) == IF i = m THEN k ELSE IF k <= i /\ i < m THEN i + 1 ELSE i

\* The query the worker popped last is the only one that others may overtake, while
\* shutdown flushes; what waits in the list is the rest of what was accepted.
RunOrder(k, m) ==
    /\ k <= m
    /\ k < m => dbState = "TERMINATED" /\ m <= Done /\ acceptedQueries[k] = taken
    /\ Popped => m = Done /\ acceptedQueries[k] = taken
    /\ Len(acceptedQueries) = Done + Len(dbTasks)
    /\ \A i \in 1 .. Len(ranQueries) : ranQueries[i] = acceptedQueries[Slot(k, m, i)]
    /\ \A i \in 1 .. Len(dbTasks) : dbTasks[i] = acceptedQueries[Done + i]

\* What RunOrder says of the counts alone.
LEMMA RunOrderSays ==
  ASSUME NEW k, NEW m, RunOrder(k, m)
  PROVE  Len(acceptedQueries) = Done + Len(dbTasks) /\ k <= m /\ (k < m => m <= Done)
  BY DEF RunOrder

QueryInv ==
    /\ DbTypeOK
    /\ IsInjective(acceptedQueries)
    /\ \E k, m \in Nat \ {0} : RunOrder(k, m)

LEMMA QueryInit == Init => QueryInv
<1> SUFFICES ASSUME Init
             PROVE  QueryInv
  OBVIOUS
<1>1. /\ dbState = "RUNNING" /\ dbTasks = <<>> /\ wpc = "test" /\ taken = NoOne
      /\ acceptedQueries = <<>> /\ ranQueries = <<>>
  BY DEF Init, DbInit
<1>2. DbTypeOK
  BY <1>1 DEF DbTypeOK
<1>3. IsInjective(acceptedQueries)
  BY <1>1 DEF IsInjective
<1>4. RunOrder(1, 1)
  BY <1>1 DEF RunOrder, Done, Popped
<1>5. QED
  BY <1>2, <1>3, <1>4 DEF QueryInv

LEMMA QueryAdded ==
  ASSUME QueryInv, NEW th, NEW q \in Queries \ Range(acceptedQueries), DbAddTask(th, q)
  PROVE  QueryInv'
<1>1. /\ DbTypeOK /\ IsInjective(acceptedQueries)
      /\ UNCHANGED <<dbState, wpc, taken, ranQueries>>
  BY DEF QueryInv, DbAddTask
<1>2. PICK k, m \in Nat \ {0} : RunOrder(k, m)
  BY DEF QueryInv
<1>3. CASE dbState # "RUNNING"
  <2>1. UNCHANGED <<dbTasks, acceptedQueries>>
    BY <1>3 DEF DbAddTask
  <2>2. DbTypeOK' /\ IsInjective(acceptedQueries)'
    BY <1>1, <2>1 DEF DbTypeOK
  <2>3. RunOrder(k, m)'
    BY <1>1, <1>2, <2>1 DEF RunOrder, Done, Popped
  <2>4. QED
    BY <2>2, <2>3 DEF QueryInv
<1>4. CASE dbState = "RUNNING"
  <2>1. dbTasks' = Append(dbTasks, q) /\ acceptedQueries' = Append(acceptedQueries, q)
    BY <1>4 DEF DbAddTask
  <2>2. dbTasks \in Seq(Queries) /\ acceptedQueries \in Seq(Queries) /\ ranQueries \in Seq(Queries)
    BY <1>1 DEF DbTypeOK
  <2>3. /\ Len(dbTasks) \in Nat /\ Len(acceptedQueries) \in Nat /\ Len(ranQueries) \in Nat
        /\ Done \in Nat /\ Done >= Len(ranQueries) /\ Done' = Done /\ (Popped' <=> Popped)
    BY <1>1, <2>2, LenProperties DEF Done, Popped
  <2>4. /\ acceptedQueries' \in Seq(Queries)
        /\ Len(acceptedQueries') = Len(acceptedQueries) + 1
        /\ DOMAIN acceptedQueries = 1 .. Len(acceptedQueries)
        /\ DOMAIN acceptedQueries' = 1 .. (Len(acceptedQueries) + 1)
        /\ \A i \in 1 .. Len(acceptedQueries) : acceptedQueries'[i] = acceptedQueries[i]
        /\ acceptedQueries'[Len(acceptedQueries) + 1] = q
    BY <2>1, <2>2, AppendProperties, LenProperties
  <2>5. /\ dbTasks' \in Seq(Queries)
        /\ Len(dbTasks') = Len(dbTasks) + 1
        /\ \A i \in 1 .. Len(dbTasks) : dbTasks'[i] = dbTasks[i]
        /\ dbTasks'[Len(dbTasks) + 1] = q
    BY <2>1, <2>2, AppendProperties
  <2>6. k = m /\ Len(acceptedQueries) = Done + Len(dbTasks)
    BY <1>2, <1>4 DEF RunOrder
  <2>7. DbTypeOK'
    BY <1>1, <2>4, <2>5 DEF DbTypeOK
  <2>8. IsInjective(acceptedQueries')
    <3>1. \A i \in 1 .. Len(acceptedQueries) : acceptedQueries[i] # q
      BY <2>4 DEF Range
    <3>2. \A i \in 1 .. (Len(acceptedQueries) + 1) :
              i \in 1 .. Len(acceptedQueries) \/ i = Len(acceptedQueries) + 1
      BY <2>3
    <3>3. \A i, j \in 1 .. (Len(acceptedQueries) + 1) :
              acceptedQueries'[i] = acceptedQueries'[j] => i = j
      BY <1>1, <2>4, <3>1, <3>2 DEF IsInjective
    <3>4. QED
      BY <2>4, <3>3 DEF IsInjective
  <2>9. RunOrder(k, m)'
    <3>1. \A i \in 1 .. Len(ranQueries) : Slot(k, m, i) = i /\ i \in 1 .. Len(acceptedQueries)
      BY <2>3, <2>6 DEF Slot
    <3>2. \A i \in 1 .. Len(ranQueries') : ranQueries'[i] = acceptedQueries'[Slot(k, m, i)]
      BY <1>1, <1>2, <2>4, <3>1 DEF RunOrder
    <3>3. \A i \in 1 .. Len(dbTasks) : Done + i \in 1 .. Len(acceptedQueries)
      BY <2>3, <2>6
    <3>4. \A i \in 1 .. Len(dbTasks') : dbTasks'[i] = acceptedQueries'[Done' + i]
      <4>1. TAKE i \in 1 .. Len(dbTasks')
      <4>2. CASE i \in 1 .. Len(dbTasks)
        BY <1>2, <2>3, <2>4, <2>5, <3>3, <4>2 DEF RunOrder
      <4>3. CASE i = Len(dbTasks) + 1
        BY <2>3, <2>4, <2>5, <2>6, <4>3
      <4>4. QED
        BY <2>3, <2>5, <4>2, <4>3
    <3>5. Popped => k \in 1 .. Len(acceptedQueries)
      BY <1>2, <2>3, <2>6 DEF RunOrder
    <3>6. Popped' => m = Done' /\ acceptedQueries'[k] = taken'
      BY <1>1, <1>2, <2>3, <2>4, <3>5 DEF RunOrder
    <3>7. Len(acceptedQueries') = Done' + Len(dbTasks')
      BY <2>3, <2>4, <2>5, <2>6
    <3>8. QED
      BY <2>6, <3>2, <3>4, <3>6, <3>7 DEF RunOrder
  <2>10. QED
    BY <2>7, <2>8, <2>9 DEF QueryInv
<1>5. QED
  BY <1>3, <1>4

LEMMA TailOfSeq ==
  ASSUME NEW S, NEW h \in Seq(S), h # <<>>
  PROVE  /\ Len(h) \in Nat \ {0} /\ Head(h) = h[1] /\ h[1] \in S
         /\ Tail(h) \in Seq(S) /\ Len(Tail(h)) = Len(h) - 1
         /\ \A i \in 1 .. (Len(h) - 1) : Tail(h)[i] = h[i + 1]
  BY HeadTailProperties, LenProperties, EmptySeq

\* A turn of flush.
LEMMA QueryFlushed ==
  ASSUME QueryInv, dbState = "TERMINATED", NEW th, FlushQuery(th)
  PROVE  QueryInv'
<1>1. /\ DbTypeOK /\ IsInjective(acceptedQueries) /\ dbTasks # <<>>
      /\ ranQueries' = Append(ranQueries, Head(dbTasks)) /\ dbTasks' = Tail(dbTasks)
      /\ UNCHANGED <<dbState, wpc, taken, acceptedQueries>>
  BY DEF QueryInv, FlushQuery
<1>2. PICK k, m \in Nat \ {0} : RunOrder(k, m)
  BY DEF QueryInv
<1>3. dbTasks \in Seq(Queries) /\ acceptedQueries \in Seq(Queries) /\ ranQueries \in Seq(Queries)
  BY <1>1 DEF DbTypeOK
<1>4. /\ Len(dbTasks) \in Nat \ {0} /\ Head(dbTasks) = dbTasks[1] /\ dbTasks[1] \in Queries
      /\ dbTasks' \in Seq(Queries) /\ Len(dbTasks') = Len(dbTasks) - 1
      /\ \A i \in 1 .. (Len(dbTasks) - 1) : dbTasks'[i] = dbTasks[i + 1]
  BY <1>1, <1>3, TailOfSeq
<1>5. /\ Len(ranQueries) \in Nat /\ ranQueries' \in Seq(Queries)
      /\ Len(ranQueries') = Len(ranQueries) + 1
      /\ \A i \in 1 .. Len(ranQueries) : ranQueries'[i] = ranQueries[i]
      /\ ranQueries'[Len(ranQueries) + 1] = dbTasks[1]
  BY <1>1, <1>3, <1>4, AppendProperties, LenProperties
<1>6. Done = (IF Popped THEN Len(ranQueries) + 1 ELSE Len(ranQueries))
  BY <1>5 DEF Done
<1>7. Done \in Nat /\ Done' = Done + 1 /\ (Popped' <=> Popped)
  BY <1>1, <1>5, <1>6 DEF Done, Popped
<1>8. DbTypeOK'
  BY <1>1, <1>4, <1>5 DEF DbTypeOK
<1>9. \A i \in 1 .. Len(dbTasks') : dbTasks'[i] = acceptedQueries'[Done' + i]
  <2>1. TAKE i \in 1 .. Len(dbTasks')
  <2>2. i + 1 \in 1 .. Len(dbTasks) /\ dbTasks'[i] = dbTasks[i + 1] /\ Done + (i + 1) = Done' + i
    BY <1>4, <1>7
  <2>3. QED
    BY <1>1, <1>2, <2>2 DEF RunOrder
<1>10. Len(acceptedQueries') = Done' + Len(dbTasks')
  BY <1>1, <1>2, <1>4, <1>7 DEF RunOrder
<1>11. dbTasks[1] = acceptedQueries[Done + 1]
  BY <1>2, <1>4 DEF RunOrder
<1>12. PICK m2 \in Nat \ {0} : m2 = IF Popped THEN m + 1 ELSE m
  OBVIOUS
<1>13. \A i \in 1 .. Len(ranQueries') : ranQueries'[i] = acceptedQueries'[Slot(k, m2, i)]
  <2>1. TAKE i \in 1 .. Len(ranQueries')
  <2>2. CASE i \in 1 .. Len(ranQueries)
    <3>1. Slot(k, m2, i) = Slot(k, m, i)
      BY <1>2, <1>5, <1>6, <1>12, <2>2 DEF RunOrder, Slot
    <3>2. QED
      BY <1>1, <1>2, <1>5, <2>2, <3>1 DEF RunOrder
  <2>3. CASE i = Len(ranQueries) + 1
    <3>1. Slot(k, m2, i) = Done + 1
      BY <1>2, <1>5, <1>6, <1>12, <2>3 DEF RunOrder, Slot
    <3>2. QED
      BY <1>1, <1>5, <1>11, <2>3, <3>1
  <2>4. QED
    BY <1>5, <2>2, <2>3
<1>14. RunOrder(k, m2)'
  <2>1. k <= m2 /\ m2 \in Nat \ {0} /\ (m2 <= Done' \/ k = m2) /\ (Popped => m2 = Done')
    BY <1>2, <1>6, <1>7, <1>12 DEF RunOrder
  <2>2. k < m2 => acceptedQueries[k] = taken
    BY <1>2, <1>12 DEF RunOrder
  <2>3. Popped => acceptedQueries[k] = taken
    BY <1>2 DEF RunOrder
  <2>4. QED
    BY <1>1, <1>7, <1>9, <1>10, <1>13, <2>1, <2>2, <2>3 DEF RunOrder
<1>15. QED
  BY <1>1, <1>8, <1>14 DEF QueryInv

\* The worker takes the oldest query up; none is left when another was overtaken.
LEMMA QueryPopped ==
  ASSUME QueryInv, ~Popped, dbTasks # <<>>, dbState # "TERMINATED", PopQuery,
         UNCHANGED <<dbState, acceptedQueries, ranQueries>>
  PROVE  QueryInv'
<1>1. /\ DbTypeOK /\ IsInjective(acceptedQueries) /\ wpc' = "query"
      /\ taken' = Head(dbTasks) /\ dbTasks' = Tail(dbTasks)
  BY DEF QueryInv, PopQuery
<1>2. PICK k, m \in Nat \ {0} : RunOrder(k, m)
  BY DEF QueryInv
<1>3. dbTasks \in Seq(Queries) /\ acceptedQueries \in Seq(Queries) /\ ranQueries \in Seq(Queries)
  BY <1>1 DEF DbTypeOK
<1>4. /\ Len(dbTasks) \in Nat \ {0} /\ Head(dbTasks) = dbTasks[1] /\ dbTasks[1] \in Queries
      /\ dbTasks' \in Seq(Queries) /\ Len(dbTasks') = Len(dbTasks) - 1
      /\ \A i \in 1 .. (Len(dbTasks) - 1) : dbTasks'[i] = dbTasks[i + 1]
  BY <1>1, <1>3, TailOfSeq
<1>5. Len(ranQueries) \in Nat
  BY <1>3, LenProperties
<1>6. Done = Len(ranQueries) /\ Done' = Len(ranQueries) + 1 /\ Popped'
  BY <1>1, <1>5 DEF Done, Popped
<1>7. DbTypeOK'
  BY <1>1, <1>4 DEF DbTypeOK
<1>8. PICK n \in Nat \ {0} : n = Len(ranQueries) + 1
  BY <1>5
<1>9. k = m /\ Len(acceptedQueries) = Done + Len(dbTasks)
  BY <1>2 DEF RunOrder
<1>10. \A i \in 1 .. Len(ranQueries') : ranQueries'[i] = acceptedQueries'[Slot(n, n, i)]
  <2>1. \A i \in 1 .. Len(ranQueries) : Slot(n, n, i) = i /\ Slot(k, m, i) = i
    BY <1>5, <1>8, <1>9 DEF Slot
  <2>2. QED
    BY <1>2, <2>1 DEF RunOrder
<1>11. \A i \in 1 .. Len(dbTasks') : dbTasks'[i] = acceptedQueries'[Done' + i]
  <2>1. TAKE i \in 1 .. Len(dbTasks')
  <2>2. i + 1 \in 1 .. Len(dbTasks) /\ dbTasks'[i] = dbTasks[i + 1] /\ Done + (i + 1) = Done' + i
    BY <1>4, <1>5, <1>6
  <2>3. QED
    BY <1>2, <2>2 DEF RunOrder
<1>12. acceptedQueries[n] = taken'
  BY <1>1, <1>2, <1>4, <1>5, <1>6, <1>8 DEF RunOrder
<1>13. n = Done' /\ Len(acceptedQueries') = Done' + Len(dbTasks')
  BY <1>4, <1>5, <1>6, <1>8, <1>9
<1>14. RunOrder(n, n)'
  <2>1. n <= n /\ ~(n < n)
    OBVIOUS
  <2>2. QED
    BY <1>10, <1>11, <1>12, <1>13, <2>1 DEF RunOrder
<1>15. QED
  BY <1>1, <1>7, <1>14 DEF QueryInv

\* The worker runs the query it has popped.
LEMMA QueryRun ==
  ASSUME QueryInv, WorkerQuery
  PROVE  QueryInv'
<1>1. /\ DbTypeOK /\ IsInjective(acceptedQueries) /\ Popped /\ wpc' = "callback"
      /\ ranQueries' = Append(ranQueries, taken)
      /\ UNCHANGED <<dbState, dbTasks, taken, acceptedQueries>>
  BY DEF QueryInv, WorkerQuery, Popped
<1>2. PICK k, m \in Nat \ {0} : RunOrder(k, m)
  BY DEF QueryInv
<1>3. dbTasks \in Seq(Queries) /\ acceptedQueries \in Seq(Queries) /\ ranQueries \in Seq(Queries)
  BY <1>1 DEF DbTypeOK
<1>4. /\ Len(ranQueries) \in Nat /\ Len(acceptedQueries) \in Nat /\ Len(dbTasks) \in Nat
      /\ DOMAIN acceptedQueries = 1 .. Len(acceptedQueries)
  BY <1>3, LenProperties
<1>5. Done = Len(ranQueries) + 1 /\ ~Popped'
  BY <1>1, <1>4 DEF Done, Popped
<1>6. m = Done /\ acceptedQueries[k] = taken /\ k <= m /\ Len(acceptedQueries) = Done + Len(dbTasks)
  BY <1>1, <1>2 DEF RunOrder
<1>7. taken \in Queries
  <2>1. k \in 1 .. Len(acceptedQueries)
    BY <1>4, <1>5, <1>6
  <2>2. QED
    BY <1>3, <1>4, <1>6, <2>1
<1>8. /\ ranQueries' \in Seq(Queries)
      /\ Len(ranQueries') = Len(ranQueries) + 1
      /\ \A i \in 1 .. Len(ranQueries) : ranQueries'[i] = ranQueries[i]
      /\ ranQueries'[Len(ranQueries) + 1] = taken
  BY <1>1, <1>3, <1>7, AppendProperties
<1>9. DbTypeOK'
  BY <1>1, <1>8 DEF DbTypeOK
<1>10. \A i \in 1 .. Len(ranQueries') : ranQueries'[i] = acceptedQueries'[Slot(k, m, i)]
  <2>1. TAKE i \in 1 .. Len(ranQueries')
  <2>2. CASE i \in 1 .. Len(ranQueries)
    BY <1>1, <1>2, <1>8, <2>2 DEF RunOrder
  <2>3. CASE i = Len(ranQueries) + 1
    BY <1>1, <1>5, <1>6, <1>8, <2>3 DEF Slot
  <2>4. QED
    BY <1>4, <1>8, <2>2, <2>3
<1>11. RunOrder(k, m)'
  <2>1. Done' = Done
    BY <1>4, <1>5, <1>8 DEF Done
  <2>2. QED
    BY <1>1, <1>2, <1>5, <1>10, <2>1 DEF RunOrder
<1>12. QED
  BY <1>1, <1>9, <1>11 DEF QueryInv

LEMMA QueryKept ==
  ASSUME QueryInv, DbTypeOK', UNCHANGED <<dbTasks, taken, acceptedQueries, ranQueries>>,
         wpc' = "query" <=> wpc = "query",
         dbState = "TERMINATED" => dbState' = "TERMINATED"
  PROVE  QueryInv'
<1>1. PICK k, m \in Nat \ {0} : RunOrder(k, m)
  BY DEF QueryInv
<1>2. (Popped' <=> Popped) /\ Len(ranQueries') = Len(ranQueries)
  BY DEF Popped
<1>3. Done' = Done
  BY <1>2 DEF Done
<1>4. RunOrder(k, m)'
  BY <1>1, <1>2, <1>3 DEF RunOrder
<1>5. QED
  BY <1>4 DEF QueryInv

LEMMA QueryStep == PhaseInv /\ QueryInv /\ [Next]_vars => QueryInv'
<1> SUFFICES ASSUME PhaseInv, QueryInv, [Next]_vars
             PROVE  QueryInv'
  OBVIOUS
<1> USE ServerAssumption
<1>1. DispTypeOK /\ OneOwner /\ BodiesInv /\ StatesInv /\ FlushInv
  BY DEF PhaseInv
<1>2. DbTypeOK
  BY DEF QueryInv
<1>3. ASSUME UNCHANGED dbVars
      PROVE  QueryInv'
  BY <1>2, <1>3, QueryKept DEF dbVars, DbTypeOK
<1>4. ASSUME UNCHANGED <<dbTasks, taken, acceptedQueries, ranQueries>>,
             wpc' \in {"test", "lock", "wait", "relock", "exit"} \/ wpc' = wpc,
             wpc # "query" \/ wpc' = wpc,
             dbState' \in {"CLOSING", "TERMINATED"} \/ dbState' = dbState,
             dbState = "TERMINATED" => dbState' = "TERMINATED"
      PROVE  QueryInv'
  <2>1. DbTypeOK'
    BY <1>2, <1>4 DEF DbTypeOK
  <2>2. QED
    BY <1>4, <2>1, QueryKept
<1>5. CASE NetReceives \/ NetSignal \/ NetAddsEvent \/ NetDies \/ MainJoins
  BY <1>3, <1>5 DEF NetReceives, NetSignal, NetAddsEvent, NetDies, MainJoins, Join
<1>6. CASE GameAddsTask \/ GameAddsEvent \/ GameStopsEvent \/ GameEnds
  BY <1>3, <1>6 DEF GameAddsTask, GameAddsEvent, GameStopsEvent, GameEnds
<1>7. CASE GameQueries \/ NetQueries
  BY <1>7, QueryAdded DEF GameQueries, NetQueries
<1>8. CASE BeginShutdown \/ QueueGameShutdown
  BY <1>3, <1>8 DEF BeginShutdown, QueueGameShutdown
<1>9. CASE SetGameStateStops
  <2>1. CASE Goes("stopDatabase", "stopDispatcher") /\ StopDatabase
    <3>1. dbState # "TERMINATED"
      BY <1>1, <2>1 DEF Goes, BodiesInv, StatesInv, Stopping, Before
    <3>2. QED
      BY <1>4, <2>1, <3>1 DEF StopDatabase
  <2>2. QED
    BY <1>3, <1>9, <2>1 DEF SetGameStateStops
<1>10. CASE GameShutdownStep
  <2>1. CASE ShutdownDatabase(Self) \/ UnlockDatabase(Self) \/ DbNotify(Self)
    BY <1>4, <2>1 DEF ShutdownDatabase, UnlockDatabase, DbNotify, WokenWorker
  <2>2. CASE body = "flush" /\ FlushQuery(Self)
    <3>1. InShutdown
      BY <1>1, <2>2 DEF BodiesInv, ShuttingDown
    <3>2. GameShutdown \notin fresh \cup Queued
      BY <1>1, <3>1, HandFacts DEF InShutdown, AllTasks
    <3>3. dbState = "TERMINATED"
      BY <1>1, <2>2, <3>2 DEF StatesInv, Before
    <3>4. QED
      BY <2>2, <3>3, QueryFlushed
  <2>3. QED
    BY <1>3, <1>10, <2>1, <2>2 DEF GameShutdownStep, Goes
<1>11. CASE BodyNotifies \/ NetNotifies
  <2>1. UNCHANGED dbVars \/ \E th \in {Net, Self} : DbNotify(th)
    BY <1>11 DEF BodyNotifies, NetNotifies
  <2>2. QED
    BY <1>3, <1>4, <2>1 DEF DbNotify, WokenWorker
<1>12. CASE DispatcherLoops \/ DispatcherWakes \/ SchedulerHandles \/ SchedulerNotifies
         \/ SchedulerTimer \/ DatabaseNotifies
  BY <1>3, <1>12 DEF DispatcherLoops, DispatcherWakes, SchedulerHandles, SchedulerNotifies,
       SchedulerTimer, DatabaseNotifies
<1>13. CASE DatabaseWorks \/ DatabaseWakes
  <2>1. CASE (WorkerLock \/ WorkerRelock) /\ dbTasks # <<>>
    <3>1. /\ PopQuery /\ ~Popped /\ dbLock = NoOne
          /\ UNCHANGED <<dbState, acceptedQueries, ranQueries>>
      BY <2>1 DEF WorkerLock, WorkerRelock, Popped
    <3>2. dbState # "TERMINATED"
      BY <1>1, <2>1, <3>1, DispatcherAssumption DEF FlushInv
    <3>3. QED
      BY <2>1, <3>1, <3>2, QueryPopped
  <2>2. CASE WorkerTest \/ WorkerCallback \/ WorkerSpuriousWakeup
             \/ ((WorkerLock \/ WorkerRelock) /\ dbTasks = <<>>)
    BY <1>4, <2>2 DEF WorkerTest, WorkerCallback, WorkerSpuriousWakeup, WorkerLock, WorkerRelock
  <2>3. CASE WorkerQuery
    BY <2>3, QueryRun
  <2>4. QED
    BY <1>13, <2>1, <2>2, <2>3 DEF DatabaseWorks, DatabaseWakes, WorkerStep
<1>14. CASE UNCHANGED vars
  BY <1>3, <1>14 DEF vars
<1>15. QED
  BY <1>5, <1>6, <1>7, <1>8, <1>9, <1>10, <1>11, <1>12, <1>13, <1>14 DEF Next, NetThread, DispatcherThread

LEMMA QueryInvariant == Spec => []QueryInv
<1>1. Spec => [](PhaseInv /\ QueryInv)
  <2>1. Init => PhaseInv /\ QueryInv
    BY PhaseInit, QueryInit
  <2>2. PhaseInv /\ QueryInv /\ [Next]_vars => (PhaseInv /\ QueryInv)'
    BY PhaseStep, QueryStep
  <2>3. QED
    BY <2>1, <2>2, PTL DEF Spec
<1>2. QED
  BY <1>1, PTL

\* Of two queries the one accepted first is run first, unless it is the one the
\* worker had popped when DatabaseTasks::shutdown began to flush the others.
THEOREM QueriesAlwaysInOrder == Spec => []QueriesInOrder
<1>1. QueryInv => QueriesInOrder
  <2> SUFFICES ASSUME QueryInv,
                      NEW i \in DOMAIN acceptedQueries, NEW j \in DOMAIN acceptedQueries,
                      i < j, acceptedQueries[j] \in Range(ranQueries),
                      ~RunBefore(acceptedQueries[i], acceptedQueries[j])
               PROVE  dbState = "TERMINATED" /\ taken = acceptedQueries[i]
    BY DEF QueriesInOrder
  <2>1. PICK k, m \in Nat \ {0} : RunOrder(k, m)
    BY DEF QueryInv
  <2>2. acceptedQueries \in Seq(Queries) /\ ranQueries \in Seq(Queries) /\ dbTasks \in Seq(Queries)
    BY DEF QueryInv, DbTypeOK
  <2>3. /\ Len(ranQueries) \in Nat /\ DOMAIN ranQueries = 1 .. Len(ranQueries)
        /\ Len(acceptedQueries) \in Nat /\ DOMAIN acceptedQueries = 1 .. Len(acceptedQueries)
        /\ Len(dbTasks) \in Nat
    BY <2>2, LenProperties
  <2>4. /\ Done \in Nat /\ Len(ranQueries) <= Done /\ Done <= Len(acceptedQueries)
        /\ k <= m /\ (k < m => m <= Done)
    <3>1. Done = Len(ranQueries) \/ Done = Len(ranQueries) + 1
      BY <2>3, DoneIs
    <3>2. Len(acceptedQueries) = Done + Len(dbTasks) /\ k <= m /\ (k < m => m <= Done)
      BY <2>1, RunOrderSays
    <3>0. Len(ranQueries) \in Nat /\ Len(dbTasks) \in Nat
      BY <2>3, Zenon
    <3>3. PICK n \in Nat : n = Len(ranQueries)
      BY <3>0, Zenon
    <3>4. PICK o \in Nat : o = Len(dbTasks)
      BY <3>0, Zenon
    <3>5. Done \in Nat /\ n <= Done
      BY <3>1, <3>3
    <3>6. PICK t \in Nat : t = Done
      BY <3>5
    <3>7. Len(acceptedQueries) = t + o
      BY <3>2, <3>4, <3>6
    <3>8. t <= t + o
      OBVIOUS
    <3>9. QED
      BY <3>2, <3>3, <3>5, <3>6, <3>7, <3>8
  <2>5. PICK b \in 1 .. Len(ranQueries) : ranQueries[b] = acceptedQueries[j]
    BY <2>3 DEF Range
  <2>6. Slot(k, m, b) \in 1 .. Len(acceptedQueries)
    BY <2>3, <2>4 DEF Slot
  <2>7. acceptedQueries[Slot(k, m, b)] = acceptedQueries[j]
    BY <2>1, <2>5 DEF RunOrder
  <2>8. j = Slot(k, m, b)
    BY <2>3, <2>6, <2>7 DEF QueryInv, IsInjective
  <2>9. ASSUME NEW a \in 1 .. Len(ranQueries), Slot(k, m, a) = i, a < b
        PROVE  FALSE
    <3>1. ranQueries[a] = acceptedQueries[i]
      BY <2>1, <2>9 DEF RunOrder
    <3>2. QED
      BY <2>3, <2>5, <2>9, <3>1 DEF RunBefore
  <2>10. k < m /\ i = k
    <3>1. CASE i < k \/ m < i \/ k = m
      <4>1. i < b
        BY <2>3, <2>4, <2>8, <3>1 DEF Slot
      <4>2. i \in 1 .. Len(ranQueries) /\ Slot(k, m, i) = i
        BY <2>3, <2>4, <3>1, <4>1 DEF Slot
      <4>3. QED
        BY <2>9, <4>1, <4>2
    <3>2. CASE k < i /\ i <= m
      <4>1. i - 1 < b /\ i - 1 \in Nat /\ k <= i - 1 /\ i - 1 < m /\ 1 <= i - 1
        BY <2>3, <2>4, <2>8, <3>2 DEF Slot
      <4>2. i - 1 \in 1 .. Len(ranQueries) /\ Slot(k, m, i - 1) = i
        BY <2>3, <2>4, <4>1 DEF Slot
      <4>3. QED
        BY <2>9, <4>1, <4>2
    <3>3. QED
      BY <2>3, <2>4, <3>1, <3>2
  <2>11. QED
    BY <2>1, <2>10 DEF RunOrder
<1>2. QED
  BY <1>1, QueryInvariant, PTL

\* When main returns each accepted query has been run exactly once, by the worker or
\* by the dispatcher's flush.
THEOREM NoQueryEverLost == Spec => []NoQueryLost
<1>1. PhaseInv /\ QueryInv => NoQueryLost
  <2> SUFFICES ASSUME PhaseInv, QueryInv, mpc = "exited"
               PROVE  /\ Range(ranQueries) = Range(acceptedQueries)
                      /\ Len(ranQueries) = Len(acceptedQueries)
    BY DEF NoQueryLost
  <2>1. wpc = "exit" /\ dispState = "TERMINATED"
    BY DEF PhaseInv, EndsInv
  <2>2. ~Before({"lockDatabase", "flush", "notifyDatabase", "kill"})
    BY <2>1 DEF PhaseInv, StatesInv
  <2>3. dbState = "TERMINATED"
    BY <2>2 DEF PhaseInv, StatesInv, Before
  <2>4. body # "flush"
    BY <2>2 DEF PhaseInv, BodiesInv, ShuttingDown, Before
  <2>5. dbTasks = <<>>
    BY <2>3, <2>4 DEF PhaseInv, FlushInv
  <2>6. PICK k, m \in Nat \ {0} : RunOrder(k, m)
    BY DEF QueryInv
  <2>7. /\ Len(ranQueries) \in Nat /\ DOMAIN ranQueries = 1 .. Len(ranQueries)
        /\ Len(acceptedQueries) \in Nat /\ DOMAIN acceptedQueries = 1 .. Len(acceptedQueries)
    BY LenProperties DEF QueryInv, DbTypeOK
  <2>8. Done = Len(ranQueries)
    BY <2>1, <2>7 DEF Done, Popped
  <2>9. Len(ranQueries) = Len(acceptedQueries)
    <3>1. Len(acceptedQueries) = Done + Len(dbTasks) /\ Len(dbTasks) = 0
      BY <2>5, <2>6, EmptySeq DEF RunOrder
    <3>2. QED
      BY <2>7, <2>8, <3>1
  <2>10. k <= m /\ (k < m => m <= Len(ranQueries))
    BY <2>6, <2>8 DEF RunOrder
  <2>11. ASSUME NEW i \in 1 .. Len(ranQueries)
         PROVE  ranQueries[i] \in Range(acceptedQueries)
    <3>1. Slot(k, m, i) \in 1 .. Len(acceptedQueries)
      BY <2>7, <2>9, <2>10 DEF Slot
    <3>2. ranQueries[i] = acceptedQueries[Slot(k, m, i)]
      BY <2>6 DEF RunOrder
    <3>3. QED
      BY <2>7, <3>1, <3>2 DEF Range
  <2>12. ASSUME NEW i \in 1 .. Len(acceptedQueries)
         PROVE  acceptedQueries[i] \in Range(ranQueries)
    <3>1. \E a \in 1 .. Len(ranQueries) : Slot(k, m, a) = i
      <4>1. CASE k = m \/ i < k \/ m < i
        <5>1. i \in 1 .. Len(ranQueries) /\ Slot(k, m, i) = i
          BY <2>7, <2>9, <2>10, <4>1 DEF Slot
        <5>2. QED
          BY <5>1
      <4>2. CASE k < m /\ i = k
        BY <2>7, <2>10, <4>2 DEF Slot
      <4>3. CASE k < i /\ i <= m
        <5>1. i - 1 \in 1 .. Len(ranQueries) /\ Slot(k, m, i - 1) = i
          BY <2>7, <2>9, <4>3 DEF Slot
        <5>2. QED
          BY <5>1
      <4>4. QED
        BY <2>7, <2>10, <4>1, <4>2, <4>3
    <3>2. QED
      BY <2>6, <2>7, <3>1 DEF RunOrder, Range
  <2>13. QED
    BY <2>7, <2>9, <2>11, <2>12 DEF Range
<1>2. QED
  BY <1>1, PhaseInvariant, QueryInvariant, PTL

-----------------------------------------------------------------------------
(* The events of the scheduler inside the server. *)

Numbered == {e \in Events : eventId[e] # 0}

\* Ids are given out in order and to one event each.
IdsInv ==
    /\ lastEventId = Cardinality(Numbered)
    /\ \A e \in Events : eventId[e] <= lastEventId
    /\ \A e, f \in Numbered : eventId[e] = eventId[f] => e = f

\* The handlers that own an event.
Owns(h) == h.op \in {"add", "timer"}

Live(e) == e \in fresh \ discarded

HandlerOK(h) ==
    /\ Owns(h) => Live(h.event) /\ eventId[h.event] # 0
    /\ h.op = "stop" => \E e \in stopAsked : eventId[e] = h.id /\ h.id # 0
    /\ h.op = "timer" /\ h.aborted => h.event \in stopAsked \/ schedState = "TERMINATED"
    /\ h.op = "shutdown" => schedState = "TERMINATED"

\* An event is posted, waits on the timer of its own id, or has completed: one of these.
HandlersInv ==
    /\ handlers \in Seq(Handler)
    /\ \A i \in DOMAIN handlers :
          /\ HandlerOK(handlers[i])
          /\ \A id \in DOMAIN timers : Owns(handlers[i]) => handlers[i].event # timers[id]
    /\ \A i, j \in DOMAIN handlers :
          Owns(handlers[i]) /\ Owns(handlers[j]) /\ handlers[i].event = handlers[j].event => i = j

TimersInv ==
    \A id \in DOMAIN timers :
        timers[id] # NoEvent => Live(timers[id]) /\ eventId[timers[id]] = id /\ id # 0

OwnersInv ==
    /\ HandlersInv /\ TimersInv
    /\ \A e \in Events : eventId[e] = 0 => Live(e)

DiscardsInv ==
    /\ discarded \subseteq fresh
    /\ \A e \in discarded : e \in stopAsked \/ schedState = "TERMINATED"

EventInv == SchedTypeOK /\ stopAsked \subseteq Events /\ IdsInv /\ OwnersInv /\ DiscardsInv

-----------------------------------------------------------------------------
(* The handlers that a step takes away and adds. *)

\* A finite set is laid out as a sequence without repetition.
LEMMA SetAsSequence ==
  ASSUME NEW S, IsFiniteSet(S)
  PROVE  /\ SetToSeq(S) \in Seq(S)
         /\ IsInjective(SetToSeq(S))
<1>1. Cardinality(S) \in Nat /\ ExistsBijection(1 .. Cardinality(S), S)
  BY FS_CardinalityType
<1>2. \E f \in [1 .. Cardinality(S) -> S] : IsInjective(f)
  BY <1>1 DEF ExistsBijection, Bijection, Injection
<1>3. SetToSeq(S) \in [1 .. Cardinality(S) -> S] /\ IsInjective(SetToSeq(S))
  BY <1>2 DEF SetToSeq
<1>4. QED
  BY <1>1, <1>3

LEMMA AbortedWaitsAre ==
  ASSUME SchedTypeOK, NEW ids
  PROVE  /\ AbortedWaits(ids) \in Seq(Handler)
         /\ IsInjective(AbortedWaits(ids))
         /\ \A j \in DOMAIN AbortedWaits(ids) :
               \E i \in ids \cap DOMAIN timers :
                  /\ timers[i] \in Events
                  /\ AbortedWaits(ids)[j] = Aborted(timers[i])
<1> DEFINE D == {i \in ids \cap DOMAIN timers : timers[i] # NoEvent}
           waiting == {timers[i] : i \in ids \cap DOMAIN timers} \ {NoEvent}
           S == {Aborted(e) : e \in waiting}
           f == [i \in D |-> Aborted(timers[i])]
<1>1. \A i \in DOMAIN timers : timers[i] # NoEvent => timers[i] \in Events
  BY DEF SchedTypeOK, Range
<1>2. S \subseteq Handler
  <2>1. \A e \in Events : Aborted(e) \in [op : {"timer"}, event : Events, aborted : BOOLEAN]
    BY DEF Aborted
  <2>2. \A e \in Events : Aborted(e) \in Handler
    BY <2>1 DEF Handler
  <2>3. QED
    BY <1>1, <2>2
<1>3. IsFiniteSet(D)
  <2>1. IsFiniteSet(EventIds)
    BY FS_Interval, SchedulerAssumption DEF EventIds
  <2>2. D \subseteq EventIds
    BY DEF SchedTypeOK
  <2>3. QED
    BY <2>1, <2>2, FS_Subset
<1>4. f \in Surjection(D, S)
  BY DEF Surjection
<1>5. IsFiniteSet(S)
  <2> HIDE DEF D, S, f
  <2>1. QED
    BY <1>3, <1>4, FS_Surjection
<1>6. SetToSeq(S) \in Seq(S) /\ IsInjective(SetToSeq(S))
  <2> HIDE DEF S
  <2>1. QED
    BY <1>5, SetAsSequence
<1>7. AbortedWaits(ids) = SetToSeq(S)
  BY DEF AbortedWaits
<1>8. \A h \in S : \E i \in ids \cap DOMAIN timers : timers[i] \in Events /\ h = Aborted(timers[i])
  BY <1>1
<1> HIDE DEF S
<1>9. QED
  BY <1>2, <1>6, <1>7, <1>8

\* After the first d handlers are gone and those of w are posted.
LEMMA ShiftedHandlers ==
  ASSUME SchedTypeOK, NEW d \in {0, 1}, NEW w \in Seq(Handler),
         d = 1 => handlers # <<>>,
         handlers' = (IF d = 0 THEN handlers ELSE Tail(handlers)) \o w
  PROVE  /\ handlers' \in Seq(Handler)
         /\ \A i \in DOMAIN handlers' :
               \/ i + d \in DOMAIN handlers /\ handlers'[i] = handlers[i + d]
               \/ /\ i + d - Len(handlers) \in DOMAIN w
                  /\ handlers'[i] = w[i + d - Len(handlers)]
<1> DEFINE h == IF d = 0 THEN handlers ELSE Tail(handlers)
<1>1. handlers \in Seq(Handler)
  BY DEF SchedTypeOK
<1>2. Len(handlers) \in Nat /\ DOMAIN handlers = 1 .. Len(handlers) /\ Len(w) \in Nat /\ DOMAIN w = 1 .. Len(w)
  BY <1>1, LenProperties
<1>3. /\ h \in Seq(Handler) /\ Len(h) = Len(handlers) - d
      /\ \A i \in 1 .. Len(h) : h[i] = handlers[i + d]
  <2>1. CASE d = 0
    BY <1>1, <1>2, <2>1
  <2>2. CASE d = 1
    <3>1. /\ Tail(handlers) \in Seq(Handler) /\ Len(Tail(handlers)) = Len(handlers) - 1
          /\ \A i \in 1 .. (Len(handlers) - 1) : Tail(handlers)[i] = handlers[i + 1]
      BY <1>1, <2>2, TailOfSeq
    <3>2. QED
      BY <2>2, <3>1
  <2>3. QED
    BY <2>1, <2>2
<1>4. handlers' = h \o w
  OBVIOUS
<1> HIDE DEF h
<1>5. Len(h) \in Nat
  BY <1>3, LenProperties
<1>6. /\ handlers' \in Seq(Handler)
      /\ Len(handlers') = Len(h) + Len(w)
      /\ \A i \in 1 .. (Len(h) + Len(w)) :
            handlers'[i] = IF i <= Len(h) THEN h[i] ELSE w[i - Len(h)]
  <2>1. h \o w \in Seq(Handler) /\ Len(h \o w) = Len(h) + Len(w)
    BY <1>3, ConcatProperties
  <2>2. \A i \in 1 .. (Len(h) + Len(w)) :
           (h \o w)[i] = IF i <= Len(h) THEN h[i] ELSE w[i - Len(h)]
    BY <1>3, ConcatProperties
  <2>3. QED
    BY <1>4, <2>1, <2>2
<1>7. DOMAIN handlers' = 1 .. (Len(h) + Len(w))
  BY <1>6, LenProperties
<1>8. ASSUME NEW i \in 1 .. (Len(h) + Len(w))
      PROVE  \/ i + d \in DOMAIN handlers /\ handlers'[i] = handlers[i + d]
             \/ /\ i + d - Len(handlers) \in DOMAIN w
                /\ handlers'[i] = w[i + d - Len(handlers)]
  <2>1. CASE i <= Len(h)
    <3>1. i \in 1 .. Len(h) /\ i + d \in 1 .. Len(handlers)
      BY <1>2, <1>3, <1>5, <2>1
    <3>2. QED
      BY <1>2, <1>3, <1>6, <2>1, <3>1
  <2>2. CASE ~(i <= Len(h))
    <3>1. i - Len(h) = i + d - Len(handlers) /\ i - Len(h) \in 1 .. Len(w)
      BY <1>2, <1>3, <1>5, <2>2
    <3>2. QED
      BY <1>2, <1>6, <2>2, <3>1
  <2>3. QED
    BY <2>1, <2>2
<1>9. QED
  BY <1>6, <1>7, <1>8

LEMMA HandlerFacts ==
  ASSUME SchedTypeOK
  PROVE  /\ handlers \in Seq(Handler)
         /\ Len(handlers) \in Nat /\ DOMAIN handlers = 1 .. Len(handlers)
         /\ \A i \in DOMAIN handlers : handlers[i] \in Handler
         /\ \A h \in Handler : Owns(h) => h.event \in Events
         /\ \A h \in Handler : h.op = "stop" => h.id \in EventIds
         /\ handlers # <<>> => 1 \in DOMAIN handlers /\ Head(handlers) = handlers[1]
<1>1. handlers \in Seq(Handler)
  BY DEF SchedTypeOK
<1>2. /\ Len(handlers) \in Nat /\ DOMAIN handlers = 1 .. Len(handlers)
      /\ \A i \in DOMAIN handlers : handlers[i] \in Handler
  BY <1>1, LenProperties
<1>3. \A h \in Handler : Owns(h) => h.event \in Events
  BY DEF Handler, Owns
<1>4. \A h \in Handler : h.op = "stop" => h.id \in EventIds
  BY DEF Handler
<1>5. handlers # <<>> => 1 \in DOMAIN handlers /\ Head(handlers) = handlers[1]
  BY <1>1, <1>2, TailOfSeq
<1>6. QED
  BY <1>1, <1>2, <1>3, <1>4, <1>5

\* The handlers of a step are in order when those that stay and those that come are.
LEMMA HandlersShift ==
  ASSUME SchedTypeOK, OwnersInv, NEW d \in {0, 1}, NEW w \in Seq(Handler),
         d = 1 => handlers # <<>>,
         handlers' = (IF d = 0 THEN handlers ELSE Tail(handlers)) \o w,
         \A h \in Handler :
            (\E i \in DOMAIN handlers : i > d /\ h = handlers[i]) \/ (\E j \in DOMAIN w : h = w[j])
              => /\ HandlerOK(h)'
                 /\ \A id \in DOMAIN timers' : Owns(h) => h.event # timers'[id],
         \A j, k \in DOMAIN w : Owns(w[j]) /\ Owns(w[k]) /\ w[j].event = w[k].event => j = k,
         \A j \in DOMAIN w, i \in DOMAIN handlers :
            i > d /\ Owns(handlers[i]) /\ Owns(w[j]) => handlers[i].event # w[j].event
  PROVE  HandlersInv'
<1>1. /\ handlers' \in Seq(Handler)
      /\ \A i \in DOMAIN handlers' :
            \/ i + d \in DOMAIN handlers /\ handlers'[i] = handlers[i + d]
            \/ /\ i + d - Len(handlers) \in DOMAIN w
               /\ handlers'[i] = w[i + d - Len(handlers)]
  BY ShiftedHandlers
<1>2. Len(handlers) \in Nat /\ DOMAIN handlers = 1 .. Len(handlers)
  BY HandlerFacts
<1>3. \A i \in DOMAIN handlers' : i \in Nat \ {0} /\ handlers'[i] \in Handler
  BY <1>1, LenProperties
<1>4. ASSUME NEW i \in DOMAIN handlers'
      PROVE  /\ HandlerOK(handlers[i])'
             /\ \A id \in DOMAIN timers' : Owns(handlers'[i]) => handlers'[i].event # timers'[id]
  <2>1. PICK h \in Handler : h = handlers'[i]
    BY <1>3
  <2>2. CASE i + d \in DOMAIN handlers /\ handlers'[i] = handlers[i + d]
    <3>1. i + d > d
      BY <1>3
    <3>2. HandlerOK(h)' /\ \A id \in DOMAIN timers' : Owns(h) => h.event # timers'[id]
      BY <2>1, <2>2, <3>1
    <3>3. QED
      BY <2>1, <3>2 DEF HandlerOK, Owns, Live
  <2>3. CASE i + d - Len(handlers) \in DOMAIN w /\ handlers'[i] = w[i + d - Len(handlers)]
    <3>1. HandlerOK(h)' /\ \A id \in DOMAIN timers' : Owns(h) => h.event # timers'[id]
      BY <2>1, <2>3
    <3>2. QED
      BY <2>1, <3>1 DEF HandlerOK, Owns, Live
  <2>4. QED
    BY <1>1, <2>2, <2>3
<1>5. ASSUME NEW i \in DOMAIN handlers', NEW j \in DOMAIN handlers',
             Owns(handlers'[i]), Owns(handlers'[j]), handlers'[i].event = handlers'[j].event
      PROVE  i = j
  <2>1. i \in Nat /\ j \in Nat /\ i + d > d /\ j + d > d
    BY <1>3
  <2>2. CASE i + d \in DOMAIN handlers /\ handlers'[i] = handlers[i + d]
             /\ j + d \in DOMAIN handlers /\ handlers'[j] = handlers[j + d]
    <3>1. i + d = j + d
      BY <1>5, <2>2 DEF OwnersInv, HandlersInv
    <3>2. QED
      BY <2>1, <3>1
  <2>3. CASE i + d - Len(handlers) \in DOMAIN w /\ handlers'[i] = w[i + d - Len(handlers)]
             /\ j + d - Len(handlers) \in DOMAIN w /\ handlers'[j] = w[j + d - Len(handlers)]
    <3>1. i + d - Len(handlers) = j + d - Len(handlers)
      BY <1>5, <2>3
    <3>2. QED
      BY <1>2, <2>1, <3>1
  <2>4. CASE i + d \in DOMAIN handlers /\ handlers'[i] = handlers[i + d]
             /\ j + d - Len(handlers) \in DOMAIN w /\ handlers'[j] = w[j + d - Len(handlers)]
    BY <1>5, <2>1, <2>4
  <2>5. CASE i + d - Len(handlers) \in DOMAIN w /\ handlers'[i] = w[i + d - Len(handlers)]
             /\ j + d \in DOMAIN handlers /\ handlers'[j] = handlers[j + d]
    BY <1>5, <2>1, <2>5
  <2>6. QED
    BY <1>1, <2>2, <2>3, <2>4, <2>5
<1>6. QED
  BY <1>1, <1>4, <1>5 DEF HandlersInv

LEMMA HandlerPosted ==
  ASSUME SchedTypeOK, OwnersInv, NEW p \in Handler, Post(p),
         \A h \in Handler :
            (\E i \in DOMAIN handlers : h = handlers[i]) \/ h = p
              => /\ HandlerOK(h)'
                 /\ \A id \in DOMAIN timers' : Owns(h) => h.event # timers'[id],
         \A i \in DOMAIN handlers :
            Owns(handlers[i]) /\ Owns(p) => handlers[i].event # p.event
  PROVE  HandlersInv'
<1>1. handlers' = handlers \o <<p>> /\ <<p>> \in Seq(Handler)
  BY HandlerFacts, AppendIsConcat DEF Post
<1>2. DOMAIN <<p>> = {1} /\ <<p>>[1] = p
  OBVIOUS
<1>3. PICK w \in Seq(Handler) : w = <<p>>
  BY <1>1
<1>4. PICK d \in {0, 1} : d = 0
  OBVIOUS
<1>5. handlers' = (IF d = 0 THEN handlers ELSE Tail(handlers)) \o w
  BY <1>1, <1>3, <1>4
<1>6. \A h \in Handler :
         (\E i \in DOMAIN handlers : i > d /\ h = handlers[i]) \/ (\E j \in DOMAIN w : h = w[j])
           => /\ HandlerOK(h)'
              /\ \A id \in DOMAIN timers' : Owns(h) => h.event # timers'[id]
  BY <1>2, <1>3
<1>7. \A j, k \in DOMAIN w : Owns(w[j]) /\ Owns(w[k]) /\ w[j].event = w[k].event => j = k
  BY <1>2, <1>3
<1>8. \A j \in DOMAIN w, i \in DOMAIN handlers :
         i > d /\ Owns(handlers[i]) /\ Owns(w[j]) => handlers[i].event # w[j].event
  BY <1>2, <1>3
<1>9. d = 1 => handlers # <<>>
  BY <1>4
<1>10. QED
  BY <1>5, <1>6, <1>7, <1>8, <1>9, HandlersShift

-----------------------------------------------------------------------------
(* One lemma per call and per handler. *)

LEMMA EventInit == Init => EventInv
<1> SUFFICES ASSUME Init
             PROVE  EventInv
  OBVIOUS
<1> USE ServerAssumption, DispatcherAssumption, SchedulerAssumption
<1>1. /\ schedState = "RUNNING" /\ lastEventId = 0 /\ eventId = [e \in Events |-> 0]
      /\ handlers = <<>> /\ timers = [i \in {} |-> NoEvent] /\ discarded = {} /\ spc = "run"
      /\ stopAsked = {} /\ fresh = AllTasks
  BY DEF Init, SchedInit, DispInit
<1>2. DOMAIN handlers = {} /\ DOMAIN timers = {} /\ Range(timers) = {} /\ handlers \in Seq(Handler)
  BY <1>1 DEF Range
<1>3. 0 \in EventIds
  BY DEF EventIds
<1>4. SchedTypeOK
  BY <1>1, <1>2, <1>3 DEF SchedTypeOK
<1>5. Numbered = {}
  BY <1>1 DEF Numbered
<1>6. IdsInv
  BY <1>1, <1>5, FS_EmptySet DEF IdsInv
<1>7. OwnersInv
  BY <1>1, <1>2 DEF OwnersInv, HandlersInv, TimersInv, Live, AllTasks
<1>8. QED
  BY <1>1, <1>4, <1>6, <1>7 DEF EventInv, DiscardsInv

\* Steps outside the scheduler, which take no event out of the program's hands.
LEMMA EventsKept ==
  ASSUME EventInv, UNCHANGED <<lastEventId, eventId, handlers, timers, discarded, spc>>,
         \A e \in Events : e \in fresh => e \in fresh',
         stopAsked \subseteq stopAsked', stopAsked' \subseteq Events,
         schedState' \in {"RUNNING", "CLOSING", "TERMINATED"},
         schedState = "TERMINATED" => schedState' = "TERMINATED"
  PROVE  EventInv'
<1>1. SchedTypeOK /\ IdsInv /\ OwnersInv /\ DiscardsInv
  BY DEF EventInv
<1>2. SchedTypeOK'
  BY <1>1 DEF SchedTypeOK
<1>3. IdsInv'
  BY <1>1 DEF IdsInv, Numbered
<1>4. \A e \in Events : Live(e) => Live(e)'
  BY DEF Live
<1>5. OwnersInv'
  <2>1. ASSUME NEW i \in DOMAIN handlers'
        PROVE  HandlerOK(handlers[i])'
    <3>1. HandlerOK(handlers[i]) /\ handlers[i] \in Handler /\ handlers'[i] = handlers[i]
      BY <1>1, HandlerFacts DEF OwnersInv, HandlersInv, TimersInv
    <3>2. Owns(handlers[i]) => handlers[i].event \in Events
      BY <1>1, <3>1, HandlerFacts
    <3>3. QED
      BY <1>4, <3>1, <3>2 DEF HandlerOK, Owns
  <2>2. \A id \in DOMAIN timers : timers[id] # NoEvent => timers[id] \in Events
    BY <1>1 DEF SchedTypeOK, Range
  <2>3. QED
    BY <1>1, <1>4, <2>1, <2>2 DEF OwnersInv, HandlersInv, TimersInv
<1>6. DiscardsInv'
  BY <1>1 DEF DiscardsInv, SchedTypeOK
<1>7. QED
  BY <1>2, <1>3, <1>5, <1>6 DEF EventInv

\* The timer of an event that a handler owns has nobody else waiting on it.
LEMMA NothingAborted ==
  ASSUME EventInv, NEW i \in DOMAIN handlers, Owns(handlers[i])
  PROVE  LET id == eventId[handlers[i].event]
         IN  /\ id \in EventIds \ {0}
             /\ id \in DOMAIN timers => timers[id] = NoEvent
             /\ DOMAIN AbortedWaits({id}) = {}
<1> DEFINE e == handlers[i].event
           id == eventId[e]
<1>1. SchedTypeOK /\ IdsInv /\ OwnersInv
  BY DEF EventInv
<1>2. e \in Events
  BY <1>1, HandlerFacts
<1>3. id \in EventIds /\ id # 0
  BY <1>1, <1>2 DEF SchedTypeOK, OwnersInv, HandlersInv, HandlerOK
<1>4. ASSUME id \in DOMAIN timers, timers[id] # NoEvent
      PROVE  FALSE
  <2>1. timers[id] \in Events
    BY <1>1, <1>4 DEF SchedTypeOK, Range
  <2>2. eventId[timers[id]] = id
    BY <1>1, <1>4 DEF OwnersInv, HandlersInv, TimersInv
  <2>3. timers[id] = e
    BY <1>1, <1>2, <1>3, <2>1, <2>2 DEF IdsInv, Numbered
  <2>4. QED
    BY <1>1, <1>4, <2>3 DEF OwnersInv, HandlersInv, TimersInv
<1>5. DOMAIN AbortedWaits({id}) = {}
  <2>1. \A j \in DOMAIN AbortedWaits({id}) :
           id \in DOMAIN timers /\ timers[id] \in Events
    BY <1>1, AbortedWaitsAre
  <2>2. QED
    BY <1>4, <2>1, SchedulerAssumption
<1>6. QED
  BY <1>3, <1>4, <1>5

EnoughIds == IsFiniteSet(Events) /\ Cardinality(Events) < IdModulus

LEMMA EventAdded ==
  ASSUME EnoughIds, EventInv, NEW e \in Events, eventId[e] = 0, AddEvent(e),
         UNCHANGED <<fresh, stopAsked>>
  PROVE  EventInv'
<1>1. SchedTypeOK /\ IdsInv /\ OwnersInv /\ DiscardsInv /\ stopAsked \subseteq Events
  BY DEF EventInv
<1>2. /\ eventId \in [Events -> EventIds] /\ lastEventId \in EventIds
      /\ DOMAIN timers \subseteq EventIds /\ Range(timers) \subseteq Events \cup {NoEvent}
  BY <1>1 DEF SchedTypeOK
<1>3. /\ UNCHANGED <<schedState, timers, discarded, spc>>
      /\ lastEventId' = (lastEventId + 1) % IdModulus
      /\ eventId' = [eventId EXCEPT ![e] = lastEventId']
  BY DEF AddEvent
<1>4. lastEventId' = lastEventId + 1 /\ lastEventId' \in EventIds
  <2>1. Numbered \in SUBSET (Events \ {e}) /\ IsFiniteSet(Events) /\ Cardinality(Events) \in Nat
    BY FS_CardinalityType DEF Numbered, EnoughIds
  <2>2. IsFiniteSet(Events \ {e}) /\ Cardinality(Events \ {e}) = Cardinality(Events) - 1
    BY <2>1, FS_RemoveElement
  <2>3. Cardinality(Numbered) <= Cardinality(Events \ {e})
    BY <2>1, <2>2, FS_Subset
  <2>4. lastEventId + 1 < IdModulus /\ lastEventId \in Nat
    <3>1. lastEventId \in Nat
      BY <1>2, SchedulerAssumption DEF EventIds
    <3>2. QED
      BY <1>1, <2>1, <2>2, <2>3, <3>1, SchedulerAssumption DEF IdsInv, EnoughIds
  <2>5. QED
    BY <1>3, <2>4, SchedulerAssumption DEF EventIds
<1>5. /\ eventId' \in [Events -> EventIds] /\ eventId'[e] = lastEventId + 1
      /\ \A x \in Events \ {e} : eventId'[x] = eventId[x]
  BY <1>2, <1>3, <1>4
<1>6. lastEventId \in Nat /\ \A x \in Events : eventId[x] \in Nat
  BY <1>2, SchedulerAssumption DEF EventIds
<1>7. IdsInv'
  <2>1. Numbered' = Numbered \cup {e}
    BY <1>5, <1>6 DEF Numbered
  <2>2. IsFiniteSet(Numbered) /\ e \notin Numbered
    BY FS_Subset DEF Numbered, EnoughIds
  <2>3. Cardinality(Numbered') = lastEventId'
    BY <1>1, <1>4, <2>1, <2>2, FS_AddElement DEF IdsInv
  <2>4. \A x \in Events : eventId'[x] <= lastEventId'
    BY <1>1, <1>4, <1>5, <1>6 DEF IdsInv
  <2>5. \A x \in Numbered : eventId'[x] = eventId[x] /\ eventId[x] # lastEventId + 1
    BY <1>1, <1>5, <1>6, <2>2 DEF IdsInv, Numbered
  <2>6. QED
    BY <1>1, <1>5, <2>1, <2>3, <2>4, <2>5 DEF IdsInv
<1> DEFINE p == [op |-> "add", event |-> e]
<1>8. p \in Handler /\ Owns(p) /\ p.op = "add" /\ p.event = e /\ Post(p)
  BY DEF Handler, Owns, AddEvent
<1> HIDE DEF p
<1>9. \A i \in DOMAIN handlers : Owns(handlers[i]) => handlers[i].event \in Events \ {e}
  BY <1>1, HandlerFacts DEF OwnersInv, HandlersInv, HandlerOK
<1>10. \A id \in DOMAIN timers : timers[id] # e
  BY <1>1, SchedulerAssumption DEF OwnersInv, TimersInv
<1>11. \A x : Live(x)' <=> Live(x)
  BY <1>3 DEF Live
<1>12. ASSUME NEW h \in Handler, (\E i \in DOMAIN handlers : h = handlers[i]) \/ h = p
       PROVE  /\ HandlerOK(h)'
              /\ \A id \in DOMAIN timers' : Owns(h) => h.event # timers'[id]
  <2>1. CASE h = p
    <3>1. Live(e)
      BY <1>1 DEF OwnersInv
    <3>2. QED
      BY <1>3, <1>5, <1>6, <1>8, <1>10, <1>11, <2>1, <3>1 DEF HandlerOK
  <2>2. CASE \E i \in DOMAIN handlers : h = handlers[i]
    <3>1. HandlerOK(h) /\ \A id \in DOMAIN timers : Owns(h) => h.event # timers[id]
      BY <1>1, <2>2 DEF OwnersInv, HandlersInv
    <3>2. Owns(h) => h.event \in Events \ {e}
      BY <1>9, <2>2
    <3>3. ASSUME h.op = "stop"
          PROVE  \E x \in stopAsked : eventId'[x] = h.id /\ h.id # 0
      <4>1. PICK x \in stopAsked : eventId[x] = h.id /\ h.id # 0
        BY <3>1, <3>3 DEF HandlerOK
      <4>2. x \in Events \ {e}
        BY <1>1, <4>1
      <4>3. QED
        BY <1>5, <4>1, <4>2
    <3>4. HandlerOK(h)'
      BY <1>3, <1>5, <1>11, <3>1, <3>2, <3>3 DEF HandlerOK
    <3>5. QED
      BY <1>3, <3>1, <3>4
  <2>3. QED
    BY <1>12, <2>1, <2>2
<1>13. HandlersInv'
  BY <1>1, <1>8, <1>9, <1>12, HandlerPosted
<1>14. SchedTypeOK'
  BY <1>1, <1>3, <1>4, <1>5, <1>13 DEF SchedTypeOK, HandlersInv
<1>15. TimersInv'
  <2>1. \A id \in DOMAIN timers : timers[id] # NoEvent => timers[id] \in Events \ {e}
    BY <1>2, <1>10 DEF Range
  <2>2. QED
    BY <1>1, <1>3, <1>5, <1>11, <2>1 DEF OwnersInv, TimersInv
<1>16. OwnersInv'
  BY <1>1, <1>4, <1>5, <1>6, <1>11, <1>13, <1>15 DEF OwnersInv
<1>17. DiscardsInv'
  BY <1>1, <1>3 DEF DiscardsInv
<1>18. QED
  BY <1>1, <1>7, <1>14, <1>16, <1>17 DEF EventInv

\* A handler that asks nothing of the timers is posted.
LEMMA OtherPosted ==
  ASSUME EventInv, NEW p \in Handler, Post(p), ~Owns(p), HandlerOK(p)',
         UNCHANGED <<lastEventId, eventId, timers, discarded, spc, fresh>>,
         stopAsked \subseteq stopAsked', stopAsked' \subseteq Events,
         schedState' \in {"RUNNING", "CLOSING", "TERMINATED"},
         schedState = "TERMINATED" => schedState' = "TERMINATED"
  PROVE  EventInv'
<1>1. SchedTypeOK /\ IdsInv /\ OwnersInv /\ DiscardsInv
  BY DEF EventInv
<1>2. \A x : Live(x)' <=> Live(x)
  BY DEF Live
<1>3. ASSUME NEW h \in Handler, (\E i \in DOMAIN handlers : h = handlers[i]) \/ h = p
      PROVE  /\ HandlerOK(h)'
             /\ \A id \in DOMAIN timers' : Owns(h) => h.event # timers'[id]
  <2>1. CASE h = p
    BY <2>1
  <2>2. CASE \E i \in DOMAIN handlers : h = handlers[i]
    <3>1. HandlerOK(h) /\ \A id \in DOMAIN timers : Owns(h) => h.event # timers[id]
      BY <1>1, <2>2 DEF OwnersInv, HandlersInv
    <3>2. HandlerOK(h)'
      BY <1>2, <3>1 DEF HandlerOK
    <3>3. QED
      BY <3>1, <3>2
  <2>3. QED
    BY <1>3, <2>1, <2>2
<1>4. HandlersInv'
  BY <1>1, <1>3, HandlerPosted
<1>5. SchedTypeOK'
  BY <1>1, <1>4 DEF SchedTypeOK, HandlersInv
<1>6. IdsInv'
  BY <1>1 DEF IdsInv, Numbered
<1>7. TimersInv'
  BY <1>1, <1>2 DEF OwnersInv, TimersInv
<1>8. OwnersInv'
  BY <1>1, <1>2, <1>4, <1>7 DEF OwnersInv
<1>9. DiscardsInv'
  BY <1>1 DEF DiscardsInv
<1>10. QED
  BY <1>5, <1>6, <1>8, <1>9 DEF EventInv

LEMMA StopPosted ==
  ASSUME EventInv, NEW e \in Events, StopEvent(eventId[e]), stopAsked' = stopAsked \cup {e},
         UNCHANGED fresh
  PROVE  EventInv'
<1>1. SchedTypeOK /\ stopAsked \subseteq Events
  BY DEF EventInv
<1>2. eventId[e] \in EventIds /\ eventId[e] # 0
  BY <1>1 DEF SchedTypeOK, StopEvent
<1> DEFINE p == [op |-> "stop", id |-> eventId[e]]
<1>3. p \in Handler /\ p.op = "stop" /\ p.id = eventId[e] /\ Post(p)
  BY <1>2 DEF Handler, StopEvent
<1>4. UNCHANGED <<schedState, lastEventId, eventId, timers, discarded, spc>>
  BY DEF StopEvent
<1> HIDE DEF p
<1>5. PICK h \in Handler : h = p
  BY <1>3
<1>6. ~Owns(h) /\ HandlerOK(h)'
  <2>1. h.op = "stop" /\ h.id = eventId'[e] /\ h.id # 0 /\ e \in stopAsked'
    BY <1>2, <1>3, <1>4, <1>5
  <2>2. QED
    BY <2>1 DEF Owns, HandlerOK
<1>7. QED
  BY <1>1, <1>3, <1>4, <1>5, <1>6, OtherPosted DEF SchedTypeOK

LEMMA ShutdownPosted ==
  ASSUME EventInv, ShutdownScheduler, UNCHANGED <<fresh, stopAsked>>
  PROVE  EventInv'
<1> DEFINE p == [op |-> "shutdown"]
<1>1. p \in Handler /\ p.op = "shutdown" /\ Post(p)
  BY DEF Handler, ShutdownScheduler
<1>2. UNCHANGED <<lastEventId, eventId, timers, discarded, spc>> /\ schedState' = "TERMINATED"
  BY DEF ShutdownScheduler
<1> HIDE DEF p
<1>3. PICK h \in Handler : h = p
  BY <1>1
<1>4. ~Owns(h) /\ HandlerOK(h)'
  BY <1>1, <1>2, <1>3 DEF Owns, HandlerOK
<1>5. stopAsked \subseteq Events
  BY DEF EventInv
<1>6. QED
  BY <1>1, <1>2, <1>3, <1>4, <1>5, OtherPosted

LEMMA TimerExpired ==
  ASSUME EventInv, NEW id \in DOMAIN timers, TimerExpires(id), UNCHANGED <<fresh, stopAsked>>
  PROVE  EventInv'
<1>1. SchedTypeOK /\ IdsInv /\ OwnersInv /\ DiscardsInv /\ stopAsked \subseteq Events
  BY DEF EventInv
<1>2. /\ timers[id] # NoEvent /\ timers' = [timers EXCEPT ![id] = NoEvent]
      /\ UNCHANGED <<schedState, lastEventId, eventId, discarded, spc>>
  BY DEF TimerExpires
<1>3. PICK e \in Events : e = timers[id]
  BY <1>1, <1>2 DEF SchedTypeOK, Range
<1> DEFINE p == [op |-> "timer", event |-> e, aborted |-> FALSE]
<1>4. p \in Handler /\ Owns(p) /\ p.op = "timer" /\ p.event = e /\ ~p.aborted /\ Post(p)
  BY <1>3 DEF Handler, Owns, TimerExpires
<1> HIDE DEF p
<1>5. Live(e) /\ eventId[e] = id /\ id # 0
  BY <1>1, <1>2, <1>3 DEF OwnersInv, TimersInv
<1>6. \A i \in DOMAIN handlers : Owns(handlers[i]) => handlers[i].event # e
  BY <1>1, <1>3 DEF OwnersInv, HandlersInv
<1>7. DOMAIN timers' = DOMAIN timers /\ timers'[id] = NoEvent
      /\ \A i \in DOMAIN timers \ {id} : timers'[i] = timers[i]
  BY <1>2
<1>8. \A x : Live(x)' <=> Live(x)
  BY <1>2 DEF Live
<1>9. ASSUME NEW h \in Handler, (\E i \in DOMAIN handlers : h = handlers[i]) \/ h = p
      PROVE  /\ HandlerOK(h)'
             /\ \A i \in DOMAIN timers' : Owns(h) => h.event # timers'[i]
  <2>1. Owns(h) => h.event \in Events
    BY <1>1, HandlerFacts
  <2>2. CASE h = p
    <3>1. HandlerOK(h)'
      BY <1>2, <1>4, <1>5, <1>8, <2>2 DEF HandlerOK
    <3>2. \A i \in DOMAIN timers \ {id} : timers[i] # e
      BY <1>1, <1>5, SchedulerAssumption DEF OwnersInv, TimersInv
    <3>3. QED
      BY <1>4, <1>7, <2>2, <3>1, <3>2, SchedulerAssumption
  <2>3. CASE \E i \in DOMAIN handlers : h = handlers[i]
    <3>1. HandlerOK(h) /\ \A i \in DOMAIN timers : Owns(h) => h.event # timers[i]
      BY <1>1, <2>3 DEF OwnersInv, HandlersInv
    <3>2. HandlerOK(h)'
      BY <1>2, <1>8, <3>1 DEF HandlerOK
    <3>3. QED
      BY <1>7, <2>1, <3>1, <3>2, SchedulerAssumption
  <2>4. QED
    BY <1>9, <2>2, <2>3
<1>10. HandlersInv'
  BY <1>1, <1>4, <1>6, <1>9, HandlerPosted
<1>11. SchedTypeOK'
  <2>1. Range(timers') \subseteq Events \cup {NoEvent}
    BY <1>1, <1>7 DEF SchedTypeOK, Range
  <2>2. QED
    BY <1>1, <1>2, <1>7, <1>10, <2>1 DEF SchedTypeOK, HandlersInv
<1>12. IdsInv'
  BY <1>1, <1>2 DEF IdsInv, Numbered
<1>13. TimersInv'
  BY <1>1, <1>2, <1>7, <1>8 DEF OwnersInv, TimersInv
<1>14. OwnersInv'
  BY <1>1, <1>2, <1>8, <1>10, <1>13 DEF OwnersInv
<1>15. DiscardsInv'
  BY <1>1, <1>2 DEF DiscardsInv
<1>16. QED
  BY <1>1, <1>11, <1>12, <1>14, <1>15 DEF EventInv

\* The handlers of stopEvent and of shutdown cancel timers, whose waits complete.
LEMMA TimersCancelled ==
  ASSUME EventInv, handlers # <<>>, NEW ids,
         timers' = [i \in DOMAIN timers |-> IF i \in ids THEN NoEvent ELSE timers[i]],
         handlers' = Tail(handlers) \o AbortedWaits(ids),
         UNCHANGED <<schedState, lastEventId, eventId, discarded, fresh, stopAsked>>,
         spc' \in {"run", "exit"},
         \A i \in ids \cap DOMAIN timers :
            timers[i] # NoEvent => timers[i] \in stopAsked \/ schedState = "TERMINATED"
  PROVE  EventInv'
<1>1. SchedTypeOK /\ IdsInv /\ OwnersInv /\ DiscardsInv /\ stopAsked \subseteq Events
  BY DEF EventInv
<1>2. PICK w \in Seq(Handler) : w = AbortedWaits(ids)
  BY <1>1, AbortedWaitsAre
<1>3. /\ IsInjective(w)
      /\ \A j \in DOMAIN w : \E i \in ids \cap DOMAIN timers :
            timers[i] \in Events /\ w[j] = Aborted(timers[i])
  BY <1>1, <1>2, AbortedWaitsAre
<1>4. PICK d \in {0, 1} : d = 1
  OBVIOUS
<1>5. handlers' = (IF d = 0 THEN handlers ELSE Tail(handlers)) \o w
  BY <1>2, <1>4
<1>6. DOMAIN timers' = DOMAIN timers
      /\ \A i \in DOMAIN timers : timers'[i] = IF i \in ids THEN NoEvent ELSE timers[i]
  OBVIOUS
<1>7. \A x : Live(x)' <=> Live(x)
  BY DEF Live
<1>8. ASSUME NEW h \in Handler,
             (\E i \in DOMAIN handlers : i > d /\ h = handlers[i]) \/ (\E j \in DOMAIN w : h = w[j])
      PROVE  /\ HandlerOK(h)'
             /\ \A id \in DOMAIN timers' : Owns(h) => h.event # timers'[id]
  <2>1. Owns(h) => h.event \in Events
    BY <1>1, HandlerFacts
  <2>2. CASE \E j \in DOMAIN w : h = w[j]
    <3>1. PICK i \in ids \cap DOMAIN timers : timers[i] \in Events /\ h = Aborted(timers[i])
      BY <1>3, <2>2
    <3>2. h.op = "timer" /\ h.event = timers[i] /\ h.event # NoEvent
      BY <3>1, SchedulerAssumption DEF Aborted
    <3>3. Live(h.event) /\ eventId[h.event] = i /\ i # 0
      BY <1>1, <3>2 DEF OwnersInv, TimersInv
    <3>4. h.event \in stopAsked \/ schedState = "TERMINATED"
      BY <3>2
    <3>5. HandlerOK(h)'
      BY <1>7, <3>2, <3>3, <3>4 DEF HandlerOK
    <3>6. \A k \in DOMAIN timers \ ids : timers[k] # h.event
      BY <1>1, <3>1, <3>2, <3>3 DEF OwnersInv, TimersInv
    <3>7. QED
      BY <1>6, <3>2, <3>5, <3>6
  <2>3. CASE \E i \in DOMAIN handlers : i > d /\ h = handlers[i]
    <3>1. HandlerOK(h) /\ \A i \in DOMAIN timers : Owns(h) => h.event # timers[i]
      BY <1>1, <2>3 DEF OwnersInv, HandlersInv
    <3>2. HandlerOK(h)'
      BY <1>7, <3>1 DEF HandlerOK
    <3>3. QED
      BY <1>6, <2>1, <3>1, <3>2, SchedulerAssumption
  <2>4. QED
    BY <1>8, <2>2, <2>3
<1>9. \A j, k \in DOMAIN w : Owns(w[j]) /\ Owns(w[k]) /\ w[j].event = w[k].event => j = k
  <2>1. \A j \in DOMAIN w : w[j] = Aborted(w[j].event)
    BY <1>3 DEF Aborted
  <2>2. \A j, k \in DOMAIN w : w[j].event = w[k].event => w[j] = w[k]
    BY <2>1
  <2>3. QED
    BY <1>3, <2>2 DEF IsInjective
<1>10. \A j \in DOMAIN w, i \in DOMAIN handlers :
          i > d /\ Owns(handlers[i]) /\ Owns(w[j]) => handlers[i].event # w[j].event
  <2>1. TAKE j \in DOMAIN w, i \in DOMAIN handlers
  <2>2. PICK k \in DOMAIN timers : w[j].event = timers[k]
    BY <1>3 DEF Aborted
  <2>3. Owns(handlers[i]) => handlers[i].event # timers[k]
    BY <1>1 DEF OwnersInv, HandlersInv
  <2>4. QED
    BY <2>2, <2>3
<1>11. HandlersInv'
  BY <1>1, <1>5, <1>8, <1>9, <1>10, HandlersShift
<1>12. SchedTypeOK'
  <2>1. Range(timers') \subseteq Events \cup {NoEvent}
    BY <1>1, <1>6 DEF SchedTypeOK, Range
  <2>2. QED
    BY <1>1, <1>6, <1>11, <2>1 DEF SchedTypeOK, HandlersInv
<1>13. IdsInv'
  BY <1>1 DEF IdsInv, Numbered
<1>14. TimersInv'
  BY <1>1, <1>6, <1>7 DEF OwnersInv, TimersInv
<1>15. OwnersInv'
  BY <1>1, <1>7, <1>11, <1>14 DEF OwnersInv
<1>16. DiscardsInv'
  BY <1>1 DEF DiscardsInv
<1>17. QED
  BY <1>1, <1>12, <1>13, <1>15, <1>16 DEF EventInv

\* The first handler is done with its event's timer, on which nobody else waits.
LEMMA FirstHandled ==
  ASSUME EventInv, handlers # <<>>, Owns(Head(handlers)),
         handlers' = Tail(handlers) \o AbortedWaits({eventId[Head(handlers).event]}),
         \A h \in Handler :
            /\ \E i \in DOMAIN handlers : h = handlers[i]
            /\ Owns(h) => h.event # Head(handlers).event
            => /\ HandlerOK(h)'
               /\ \A id \in DOMAIN timers' : Owns(h) => h.event # timers'[id]
  PROVE  HandlersInv'
<1>1. SchedTypeOK /\ OwnersInv
  BY DEF EventInv
<1>2. 1 \in DOMAIN handlers /\ Head(handlers) = handlers[1]
  BY <1>1, HandlerFacts
<1>3. PICK w \in Seq(Handler) : w = AbortedWaits({eventId[Head(handlers).event]})
  BY <1>1, AbortedWaitsAre
<1>4. DOMAIN w = {}
  BY <1>2, <1>3, NothingAborted
<1>5. PICK d \in {0, 1} : d = 1
  OBVIOUS
<1>6. handlers' = (IF d = 0 THEN handlers ELSE Tail(handlers)) \o w
  BY <1>3, <1>5
<1>7. ASSUME NEW h \in Handler,
             (\E i \in DOMAIN handlers : i > d /\ h = handlers[i]) \/ (\E j \in DOMAIN w : h = w[j])
      PROVE  /\ HandlerOK(h)'
             /\ \A id \in DOMAIN timers' : Owns(h) => h.event # timers'[id]
  <2>1. PICK i \in DOMAIN handlers : i > d /\ h = handlers[i]
    BY <1>4, <1>7
  <2>2. i # 1
    BY <1>5, <2>1
  <2>3. Owns(h) => h.event # Head(handlers).event
    BY <1>1, <1>2, <2>1, <2>2 DEF OwnersInv, HandlersInv
  <2>4. QED
    BY <2>1, <2>3
<1>8. \A j, k \in DOMAIN w : Owns(w[j]) /\ Owns(w[k]) /\ w[j].event = w[k].event => j = k
  BY <1>4
<1>9. \A j \in DOMAIN w, i \in DOMAIN handlers :
         i > d /\ Owns(handlers[i]) /\ Owns(w[j]) => handlers[i].event # w[j].event
  BY <1>4
<1>10. QED
  BY <1>1, <1>6, <1>7, <1>8, <1>9, HandlersShift

LEMMA TimerStarted ==
  ASSUME EventInv, StartTimer, UNCHANGED <<fresh, stopAsked>>
  PROVE  EventInv'
<1>1. SchedTypeOK /\ IdsInv /\ OwnersInv /\ DiscardsInv /\ stopAsked \subseteq Events
  BY DEF EventInv
<1>2. handlers # <<>> /\ Head(handlers).op = "add"
      /\ UNCHANGED <<schedState, lastEventId, eventId, discarded, spc>>
  BY DEF StartTimer, NextHandler
<1>3. /\ 1 \in DOMAIN handlers /\ Head(handlers) = handlers[1] /\ Owns(Head(handlers))
      /\ Head(handlers).event \in Events
  BY <1>1, <1>2, HandlerFacts DEF Owns
<1>4. PICK e \in Events : e = Head(handlers).event
  BY <1>3
<1>5. PICK id \in EventIds \ {0} : id = eventId[e]
  BY <1>3, <1>4, NothingAborted
<1>6. /\ timers' = [i \in DOMAIN timers \cup {id} |-> IF i = id THEN e ELSE timers[i]]
      /\ handlers' = Tail(handlers) \o AbortedWaits({eventId[Head(handlers).event]})
  BY <1>4, <1>5 DEF StartTimer
<1>7. DOMAIN timers' = DOMAIN timers \cup {id} /\ timers'[id] = e
      /\ \A i \in DOMAIN timers \ {id} : timers'[i] = timers[i]
  BY <1>6
<1>8. \A x : Live(x)' <=> Live(x)
  BY <1>2 DEF Live
<1>9. ASSUME NEW h \in Handler, \E i \in DOMAIN handlers : h = handlers[i],
             Owns(h) => h.event # Head(handlers).event
      PROVE  /\ HandlerOK(h)'
             /\ \A i \in DOMAIN timers' : Owns(h) => h.event # timers'[i]
  <2>1. HandlerOK(h) /\ \A i \in DOMAIN timers : Owns(h) => h.event # timers[i]
    BY <1>1, <1>9 DEF OwnersInv, HandlersInv
  <2>2. HandlerOK(h)'
    BY <1>2, <1>8, <2>1 DEF HandlerOK
  <2>3. QED
    BY <1>4, <1>7, <1>9, <2>1, <2>2
<1>10. HandlersInv'
  BY <1>2, <1>3, <1>6, <1>9, FirstHandled
<1>11. SchedTypeOK'
  <2>1. Range(timers') \subseteq Events \cup {NoEvent}
    BY <1>1, <1>7 DEF SchedTypeOK, Range
  <2>2. QED
    BY <1>1, <1>2, <1>7, <1>10, <2>1 DEF SchedTypeOK, HandlersInv
<1>12. IdsInv'
  BY <1>1, <1>2 DEF IdsInv, Numbered
<1>13. TimersInv'
  <2>1. Live(e)
    BY <1>1, <1>3, <1>4 DEF OwnersInv, HandlersInv, HandlerOK
  <2>2. ASSUME NEW i \in DOMAIN timers', timers'[i] # NoEvent
        PROVE  Live(timers[i])' /\ eventId'[timers'[i]] = i /\ i # 0
    <3>1. CASE i = id
      BY <1>2, <1>5, <1>7, <1>8, <2>1, <3>1
    <3>2. CASE i # id
      BY <1>1, <1>2, <1>7, <1>8, <2>2, <3>2 DEF OwnersInv, TimersInv
    <3>3. QED
      BY <3>1, <3>2
  <2>3. QED
    BY <2>2 DEF TimersInv
<1>14. OwnersInv'
  BY <1>1, <1>2, <1>8, <1>10, <1>13 DEF OwnersInv
<1>15. DiscardsInv'
  BY <1>1, <1>2 DEF DiscardsInv
<1>16. QED
  BY <1>1, <1>11, <1>12, <1>14, <1>15 DEF EventInv

\* A timer's handler hands its event to the dispatcher or deletes it.
LEMMA EventErased ==
  ASSUME EventInv, NextHandler("timer"), EraseTimer(Head(handlers).event),
         UNCHANGED <<schedState, lastEventId, eventId, spc, stopAsked>>,
         \/ /\ fresh' = fresh \ {Head(handlers).event} /\ UNCHANGED discarded
         \/ /\ discarded' = discarded \cup {Head(handlers).event} /\ UNCHANGED fresh
            /\ GivenUp
  PROVE  EventInv'
<1>1. SchedTypeOK /\ IdsInv /\ OwnersInv /\ DiscardsInv /\ stopAsked \subseteq Events
  BY DEF EventInv
<1>2. handlers # <<>> /\ Head(handlers).op = "timer"
  BY DEF NextHandler
<1>3. /\ 1 \in DOMAIN handlers /\ Head(handlers) = handlers[1] /\ Owns(Head(handlers))
      /\ Head(handlers).event \in Events
  BY <1>1, <1>2, HandlerFacts DEF Owns
<1>4. PICK e \in Events : e = Head(handlers).event
  BY <1>3
<1>5. PICK id \in EventIds \ {0} : id = eventId[e]
  BY <1>3, <1>4, NothingAborted
<1>6. /\ timers' = [i \in DOMAIN timers \ {id} |-> timers[i]]
      /\ handlers' = Tail(handlers) \o AbortedWaits({eventId[Head(handlers).event]})
  BY <1>4, <1>5 DEF EraseTimer
<1>7. DOMAIN timers' = DOMAIN timers \ {id}
      /\ \A i \in DOMAIN timers \ {id} : timers'[i] = timers[i]
  BY <1>6
<1>8. \A x : x # e /\ Live(x) => Live(x)'
  BY <1>4 DEF Live
<1>9. ASSUME NEW h \in Handler, \E i \in DOMAIN handlers : h = handlers[i],
             Owns(h) => h.event # Head(handlers).event
      PROVE  /\ HandlerOK(h)'
             /\ \A i \in DOMAIN timers' : Owns(h) => h.event # timers'[i]
  <2>1. HandlerOK(h) /\ \A i \in DOMAIN timers : Owns(h) => h.event # timers[i]
    BY <1>1, <1>9 DEF OwnersInv, HandlersInv
  <2>2. HandlerOK(h)'
    BY <1>4, <1>8, <1>9, <2>1 DEF HandlerOK
  <2>3. QED
    BY <1>7, <2>1, <2>2
<1>10. HandlersInv'
  BY <1>2, <1>3, <1>6, <1>9, FirstHandled
<1>11. SchedTypeOK'
  <2>1. Range(timers') \subseteq Events \cup {NoEvent}
    BY <1>1, <1>7 DEF SchedTypeOK, Range
  <2>2. discarded' \subseteq Events
    BY <1>1, <1>3 DEF SchedTypeOK
  <2>3. QED
    BY <1>1, <1>7, <1>10, <2>1, <2>2 DEF SchedTypeOK, HandlersInv
<1>12. IdsInv'
  BY <1>1 DEF IdsInv, Numbered
<1>13. TimersInv'
  <2>1. \A i \in DOMAIN timers : timers[i] # e
    BY <1>1, <1>3, <1>4 DEF OwnersInv, HandlersInv
  <2>2. QED
    BY <1>1, <1>7, <1>8, <2>1 DEF OwnersInv, TimersInv
<1>14. OwnersInv'
  <2>1. \A x \in Events : eventId[x] = 0 => x # e
    BY <1>5
  <2>2. QED
    BY <1>1, <1>8, <1>10, <1>13, <2>1 DEF OwnersInv
<1>15. DiscardsInv'
  <2>1. HandlerOK(Head(handlers))
    BY <1>1, <1>3 DEF OwnersInv, HandlersInv
  <2>2. e \in fresh /\ e \notin discarded
    BY <1>3, <1>4, <2>1 DEF HandlerOK, Live
  <2>3. GivenUp => e \in stopAsked \/ schedState = "TERMINATED"
    BY <1>2, <1>4, <2>1 DEF HandlerOK, GivenUp
  <2>4. QED
    BY <1>1, <1>4, <2>2, <2>3 DEF DiscardsInv
<1>16. QED
  BY <1>1, <1>11, <1>12, <1>14, <1>15 DEF EventInv

LEMMA TimersOfStop ==
  ASSUME EventInv, CancelTimer \/ StopContext, UNCHANGED <<fresh, stopAsked>>
  PROVE  EventInv'
<1>1. SchedTypeOK /\ IdsInv /\ OwnersInv /\ stopAsked \subseteq Events
  BY DEF EventInv
<1>2. handlers # <<>> /\ UNCHANGED <<schedState, lastEventId, eventId, discarded>>
  BY DEF CancelTimer, StopContext, NextHandler
<1>3. /\ 1 \in DOMAIN handlers /\ Head(handlers) = handlers[1] /\ HandlerOK(Head(handlers))
  BY <1>1, <1>2, HandlerFacts DEF OwnersInv, HandlersInv
<1>4. CASE CancelTimer
  <2> DEFINE id == Head(handlers).id
  <2>1. PICK x \in stopAsked : eventId[x] = id /\ id # 0
    BY <1>3, <1>4 DEF HandlerOK, CancelTimer, NextHandler
  <2>2. /\ timers' = [i \in DOMAIN timers |-> IF i \in {id} THEN NoEvent ELSE timers[i]]
        /\ handlers' = Tail(handlers) \o AbortedWaits({id})
        /\ UNCHANGED spc /\ spc = "run"
    BY <1>4 DEF CancelTimer, NextHandler
  <2> HIDE DEF id
  <2>3. ASSUME id \in DOMAIN timers, timers[id] # NoEvent
        PROVE  timers[id] \in stopAsked
    <3>1. timers[id] \in Events /\ eventId[timers[id]] = id
      BY <1>1, <2>3 DEF SchedTypeOK, Range, OwnersInv, TimersInv
    <3>2. timers[id] = x
      BY <1>1, <2>1, <3>1 DEF IdsInv, Numbered
    <3>3. QED
      BY <3>2
  <2>4. QED
    BY <1>2, <2>2, <2>3, TimersCancelled
<1>5. CASE StopContext
  <2>1. schedState = "TERMINATED"
    BY <1>3, <1>5 DEF HandlerOK, StopContext, NextHandler
  <2>2. /\ timers' = [i \in DOMAIN timers |-> IF i \in DOMAIN timers THEN NoEvent ELSE timers[i]]
        /\ handlers' = Tail(handlers) \o AbortedWaits(DOMAIN timers)
        /\ spc' = "exit"
    BY <1>5 DEF StopContext
  <2>3. QED
    BY <1>2, <2>1, <2>2, TimersCancelled
<1>6. QED
  BY <1>4, <1>5

-----------------------------------------------------------------------------
LEMMA EventStep == EnoughIds /\ PhaseInv /\ EventInv /\ [Next]_vars => EventInv'
<1> SUFFICES ASSUME EnoughIds, PhaseInv, EventInv, [Next]_vars
             PROVE  EventInv'
  OBVIOUS
<1> USE ServerAssumption, DispatcherAssumption
<1>1. DispTypeOK /\ OneOwner /\ BodiesInv /\ StatesInv
  BY DEF PhaseInv
<1>2. SchedTypeOK /\ OwnersInv /\ stopAsked \subseteq Events
  BY DEF EventInv
<1>3. ASSUME UNCHANGED <<schedVars, stopAsked>>, \A e \in Events : e \in fresh => e \in fresh'
      PROVE  EventInv'
  BY <1>2, <1>3, EventsKept DEF schedVars, SchedTypeOK
<1>4. ASSUME NEW th, NEW t \in Tasks \ Events, AddTask(th, t)
      PROVE  \A e \in Events : e \in fresh => e \in fresh'
  BY <1>4 DEF AddTask
<1>5. CASE NetReceives \/ NetSignal \/ NetQueries \/ NetNotifies \/ NetDies \/ MainJoins
  <2>1. UNCHANGED <<schedVars, stopAsked>>
    BY <1>5 DEF NetReceives, NetSignal, NetQueries, NetNotifies, NetDies, MainJoins, Join, serverVars
  <2>2. (\E t \in Packets \cup Signals : AddTask(Net, t)) \/ UNCHANGED fresh
    BY <1>5 DEF NetReceives, NetSignal, NetQueries, NetNotifies, NetDies, MainJoins, Join,
                NotifyOne, dispVars
  <2>3. QED
    BY <1>3, <1>4, <2>1, <2>2
<1>6. CASE GameAddsTask
  <2>1. \E t \in Packets : AddTask(Self, t)
    BY <1>6 DEF GameAddsTask
  <2>2. UNCHANGED <<schedVars, stopAsked>>
    BY <1>6 DEF GameAddsTask, serverVars
  <2>3. QED
    BY <1>3, <1>4, <2>1, <2>2
<1>7. CASE GameAddsEvent \/ NetAddsEvent
  <2>1. PICK e \in Events : eventId[e] = 0 /\ AddEvent(e)
    BY <1>7 DEF GameAddsEvent, NetAddsEvent
  <2>2. UNCHANGED <<fresh, stopAsked>>
    BY <1>7 DEF GameAddsEvent, NetAddsEvent, dispVars, serverVars
  <2>3. QED
    BY <2>1, <2>2, EventAdded
<1>8. CASE GameStopsEvent
  <2>1. PICK e \in Events : StopEvent(eventId[e]) /\ stopAsked' = stopAsked \cup {e}
    BY <1>8 DEF GameStopsEvent
  <2>2. UNCHANGED fresh
    BY <1>8 DEF GameStopsEvent, dispVars
  <2>3. QED
    BY <2>1, <2>2, StopPosted
<1>9. CASE GameQueries \/ GameEnds \/ BeginShutdown \/ BodyNotifies \/ DispatcherLoops \/ DispatcherWakes
  <2>1. UNCHANGED <<schedVars, stopAsked>>
    BY <1>9 DEF GameQueries, GameEnds, BeginShutdown, BodyNotifies, DispatcherLoops, DispatcherWakes,
                serverVars
  <2>2. UNCHANGED fresh
    BY <1>9 DEF GameQueries, GameEnds, BeginShutdown, BodyNotifies, DispatcherLoops, DispatcherWakes,
                dispVars, FinishTask, NotifyOne, TestState, LockList, SwapLists, StartTask, SkipExpired,
                EndBatch, SpuriousWakeup
  <2>3. QED
    BY <1>3, <2>1, <2>2
<1>10. CASE QueueGameShutdown
  <2>1. AddTask(Self, GameShutdown) /\ UNCHANGED <<schedVars, stopAsked>>
    BY <1>10 DEF QueueGameShutdown
  <2>2. QED
    BY <1>3, <1>4, <2>1
<1>11. CASE SetGameStateStops
  <2>1. CASE Goes("stopScheduler", "stopDatabase") /\ StopScheduler
    <3>1. schedState # "TERMINATED"
      BY <1>1, <2>1 DEF Goes, BodiesInv, StatesInv, Before, Stopping
    <3>2. UNCHANGED <<fresh, stopAsked>>
      BY <1>11, <2>1 DEF SetGameStateStops, Goes, dispVars
    <3>3. QED
      BY <1>2, <2>1, <3>1, <3>2, EventsKept DEF StopScheduler
  <2>2. CASE ~(Goes("stopScheduler", "stopDatabase") /\ StopScheduler)
    <3>1. UNCHANGED <<schedVars, stopAsked, fresh>>
      BY <1>11, <2>2 DEF SetGameStateStops, Stop, dispVars
    <3>2. QED
      BY <1>3, <3>1
  <2>3. QED
    BY <2>1, <2>2
<1>12. CASE GameShutdownStep
  <2>1. CASE ShutdownScheduler /\ UNCHANGED dispVars
    BY <1>12, <2>1, ShutdownPosted DEF GameShutdownStep, dispVars
  <2>2. CASE UNCHANGED schedVars
    <3>1. (\E t \in Stored : AddTask(Self, t)) \/ UNCHANGED fresh \/ Shutdown(Self)
      BY <1>12 DEF GameShutdownStep, dispVars
    <3>2. Kill \notin Events
      OBVIOUS
    <3>3. Shutdown(Self) => \A e \in Events : e \in fresh => e \in fresh'
      BY <3>2 DEF Shutdown
    <3>4. UNCHANGED stopAsked
      BY <1>12 DEF GameShutdownStep
    <3>5. QED
      BY <1>3, <1>4, <2>2, <3>1, <3>3, <3>4
  <2>3. QED
    BY <1>12, <2>1, <2>2 DEF GameShutdownStep
<1>13. CASE SchedulerHandles
  <2>1. UNCHANGED stopAsked
    BY <1>13 DEF SchedulerHandles, serverVars
  <2>2. CASE StartTimer /\ UNCHANGED dispVars
    BY <2>1, <2>2, TimerStarted DEF dispVars
  <2>3. CASE (CancelTimer \/ StopContext) /\ UNCHANGED dispVars
    BY <2>1, <2>3, TimersOfStop DEF dispVars
  <2>4. CASE Discard /\ UNCHANGED dispVars
    BY <2>1, <2>4, EventErased DEF Discard, dispVars
  <2>5. CASE \E e \in Events : Deliver(e) /\ AddTask(Sched, e)
    BY <2>1, <2>5, EventErased DEF Deliver, AddTask
  <2>6. QED
    BY <1>13, <2>2, <2>3, <2>4, <2>5 DEF SchedulerHandles
<1>14. CASE SchedulerNotifies \/ DatabaseNotifies \/ DatabaseWakes
  <2>1. UNCHANGED <<schedVars, stopAsked, fresh>>
    BY <1>14 DEF SchedulerNotifies, DatabaseNotifies, DatabaseWakes, NotifyOne, dispVars, serverVars
  <2>2. QED
    BY <1>3, <2>1
<1>15. CASE SchedulerTimer
  <2>1. PICK id \in DOMAIN timers : TimerExpires(id)
    BY <1>15 DEF SchedulerTimer
  <2>2. UNCHANGED <<fresh, stopAsked>>
    BY <1>15 DEF SchedulerTimer, dispVars, serverVars
  <2>3. QED
    BY <2>1, <2>2, TimerExpired
<1>16. CASE DatabaseWorks
  <2>1. UNCHANGED <<schedVars, stopAsked>>
    BY <1>16 DEF DatabaseWorks, serverVars
  <2>2. (\E t \in Stored : AddTask(Db, t)) \/ UNCHANGED fresh
    BY <1>16 DEF DatabaseWorks, dispVars
  <2>3. QED
    BY <1>3, <1>4, <2>1, <2>2
<1>17. CASE UNCHANGED vars
  BY <1>3, <1>17 DEF vars, dispVars, serverVars
<1>18. QED
  BY <1>5, <1>6, <1>7, <1>8, <1>9, <1>10, <1>11, <1>12, <1>13, <1>14, <1>15, <1>16, <1>17
     DEF Next, NetThread, DispatcherThread

LEMMA EventInvariant ==
  ASSUME EnoughIds
  PROVE  Spec => []EventInv
<1>1. Init => PhaseInv /\ EventInv
  BY PhaseInit, EventInit
<1>2. PhaseInv /\ EventInv /\ [Next]_vars => (PhaseInv /\ EventInv)'
  BY EnoughIds, PhaseStep, EventStep
<1>3. Spec => [](PhaseInv /\ EventInv)
  BY <1>1, <1>2, PTL DEF Spec
<1>4. QED
  BY <1>3, PTL

\* As long as the 2^32 event ids are not used up, a SchedulerTask is never both in the
\* scheduler and in the dispatcher, and in neither once the scheduler has deleted it.
THEOREM EventAlwaysHasOneOwner ==
  ASSUME EnoughIds
  PROVE  Spec => []EventHasOneOwner
<1>1. PhaseInv /\ EventInv => EventHasOneOwner
  <2> SUFFICES ASSUME PhaseInv, EventInv, NEW e \in Events
               PROVE  /\ e \in InScheduler => e \in fresh \ discarded
                      /\ e \in discarded => e \in fresh \ Range(Pending \o current)
    BY DEF EventHasOneOwner
  <2>1. SchedTypeOK /\ OwnersInv /\ DiscardsInv /\ DispTypeOK /\ OneOwner
    BY DEF EventInv, PhaseInv
  <2>2. ASSUME e \in InScheduler
        PROVE  e \in fresh \ discarded
    <3>1. CASE \E i \in DOMAIN handlers : Owns(handlers[i]) /\ e = handlers[i].event
      BY <2>1, <3>1 DEF OwnersInv, HandlersInv, HandlerOK, Live
    <3>2. CASE e \in Range(timers) \ {NoEvent}
      BY <2>1, <3>2 DEF OwnersInv, TimersInv, Live, Range
    <3>3. QED
      BY <2>2, <3>1, <3>2 DEF InScheduler, Owns
  <2>3. ASSUME e \in fresh
        PROVE  e \notin Range(Pending \o current)
    <3>1. e \notin Queued /\ e \in AllTasks /\ Pending \in Seq(AllTasks)
      BY <2>1, <2>3, HandFacts, ServerAssumption DEF AllTasks
    <3>2. current # <<e>>
      BY <2>1, <2>3, <3>1, HandFacts
    <3>3. CASE current = <<>>
      BY <3>1, <3>3, ConcatEmptySeq DEF Queued
    <3>4. CASE \E t \in AllTasks : current = <<t>>
      <4>1. PICK t \in AllTasks : current = <<t>>
        BY <3>4
      <4>2. Pending \o current = Append(Pending, t)
        BY <3>1, <4>1, AppendIsConcat
      <4>3. Range(Pending \o current) = Queued \cup {t}
        BY <3>1, <4>2, RangeAppend DEF Queued
      <4>4. QED
        BY <3>1, <3>2, <4>1, <4>3
    <3>5. QED
      BY <2>1, <3>3, <3>4 DEF DispTypeOK
  <2>4. QED
    BY <2>1, <2>2, <2>3 DEF DiscardsInv
<1>2. QED
  BY <1>1, PhaseInvariant, EventInvariant, PTL

\* Under the same condition the scheduler deletes an event undispatched only when its
\* own stopEvent was called, or in a shutdown.
THEOREM EventsOnlyDieOnRequest ==
  ASSUME EnoughIds
  PROVE  Spec => []EventsDieOnRequest
<1>1. EventInv => EventsDieOnRequest
  BY DEF EventInv, DiscardsInv, EventsDieOnRequest
<1>2. QED
  BY <1>1, EventInvariant, PTL

-----------------------------------------------------------------------------
(* The types of all parts together, without a bound on the events. *)

\* The steps of the scheduler, whoever takes them.
SchedStep ==
    \/ \E e \in Events : AddEvent(e) \/ StopEvent(eventId[e])
    \/ StopScheduler \/ ShutdownScheduler
    \/ StartTimer \/ CancelTimer \/ Discard \/ StopContext
    \/ \E e \in Events : Deliver(e)
    \/ \E id \in DOMAIN timers : TimerExpires(id)
    \/ UNCHANGED schedVars

LEMMA SchedulerTypes ==
  ASSUME SchedTypeOK, SchedStep
  PROVE  SchedTypeOK'
<1> USE SchedulerAssumption
<1>1. /\ schedState \in {"RUNNING", "CLOSING", "TERMINATED"}
      /\ lastEventId \in EventIds /\ eventId \in [Events -> EventIds]
      /\ handlers \in Seq(Handler)
      /\ DOMAIN timers \subseteq EventIds /\ discarded \subseteq Events
      /\ \A i \in DOMAIN timers : timers[i] \in Events \cup {NoEvent}
      /\ spc \in {"run", "exit"}
  BY DEF SchedTypeOK, Range
<1>2. ASSUME schedState' \in {"RUNNING", "CLOSING", "TERMINATED"},
             lastEventId' \in EventIds, eventId' \in [Events -> EventIds],
             handlers' \in Seq(Handler),
             DOMAIN timers' \subseteq EventIds, discarded' \subseteq Events,
             \A i \in DOMAIN timers' : timers'[i] \in Events \cup {NoEvent},
             spc' \in {"run", "exit"}
      PROVE  SchedTypeOK'
  BY <1>2 DEF SchedTypeOK, Range
<1>3. ASSUME NEW p \in Handler, Post(p)
      PROVE  handlers' \in Seq(Handler)
  BY <1>1, <1>3, AppendProperties DEF Post
<1>4. ASSUME NEW ids, handlers # <<>>, handlers' = Tail(handlers) \o AbortedWaits(ids)
      PROVE  handlers' \in Seq(Handler)
  <2>1. Tail(handlers) \in Seq(Handler)
    BY <1>1, <1>4, TailOfSeq
  <2>2. QED
    BY <1>4, <2>1, AbortedWaitsAre, ConcatProperties
<1>5. handlers # <<>> => Head(handlers) \in Handler
  BY <1>1, TailOfSeq
<1>6. ASSUME NEW e \in Events, AddEvent(e)
      PROVE  SchedTypeOK'
  <2>1. [op |-> "add", event |-> e] \in Handler
    BY DEF Handler
  <2>2. handlers' \in Seq(Handler)
    BY <1>3, <1>6, <2>1 DEF AddEvent
  <2>3. (lastEventId + 1) % IdModulus \in EventIds
    BY <1>1 DEF EventIds
  <2>4. lastEventId' \in EventIds /\ eventId' \in [Events -> EventIds]
    BY <1>1, <1>6, <2>3 DEF AddEvent
  <2>5. QED
    BY <1>1, <1>2, <1>6, <2>2, <2>4 DEF AddEvent
<1>7. ASSUME NEW e \in Events, StopEvent(eventId[e])
      PROVE  SchedTypeOK'
  <2>1. [op |-> "stop", id |-> eventId[e]] \in Handler
    BY <1>1 DEF Handler
  <2>2. handlers' \in Seq(Handler)
    BY <1>3, <1>7, <2>1 DEF StopEvent
  <2>3. QED
    BY <1>1, <1>2, <1>7, <2>2 DEF StopEvent
<1>8. CASE StopScheduler \/ UNCHANGED schedVars
  BY <1>1, <1>2, <1>8 DEF StopScheduler, schedVars
<1>9. CASE ShutdownScheduler
  <2>1. [op |-> "shutdown"] \in Handler
    BY DEF Handler
  <2>2. handlers' \in Seq(Handler)
    BY <1>3, <1>9, <2>1 DEF ShutdownScheduler
  <2>3. QED
    BY <1>1, <1>2, <1>9, <2>2 DEF ShutdownScheduler
<1>10. ASSUME NEW id \in DOMAIN timers, TimerExpires(id)
       PROVE  SchedTypeOK'
  <2>1. timers[id] \in Events
    BY <1>1, <1>10 DEF TimerExpires
  <2>2. [op |-> "timer", event |-> timers[id], aborted |-> FALSE] \in Handler
    BY <2>1 DEF Handler
  <2>3. handlers' \in Seq(Handler)
    BY <1>3, <1>10, <2>2 DEF TimerExpires
  <2>4. DOMAIN timers' = DOMAIN timers /\ \A i \in DOMAIN timers' : timers'[i] \in Events \cup {NoEvent}
    BY <1>1, <1>10 DEF TimerExpires
  <2>5. QED
    BY <1>1, <1>2, <1>10, <2>3, <2>4 DEF TimerExpires
<1>11. CASE StartTimer
  <2>1. handlers # <<>> /\ Head(handlers).event \in Events
    BY <1>5, <1>11 DEF StartTimer, NextHandler, Handler
  <2>2. PICK e \in Events, id \in EventIds : e = Head(handlers).event /\ id = eventId[e]
    BY <1>1, <2>1
  <2>3. handlers' \in Seq(Handler)
    BY <1>4, <1>11, <2>1 DEF StartTimer
  <2>4. timers' = [i \in DOMAIN timers \cup {id} |-> IF i = id THEN e ELSE timers[i]]
    BY <1>11, <2>2 DEF StartTimer
  <2>5. DOMAIN timers' \subseteq EventIds /\ \A i \in DOMAIN timers' : timers'[i] \in Events \cup {NoEvent}
    BY <1>1, <2>4
  <2>6. QED
    BY <1>1, <1>2, <1>11, <2>3, <2>5 DEF StartTimer
<1>12. CASE CancelTimer \/ StopContext
  <2>1. handlers' \in Seq(Handler)
    BY <1>4, <1>12 DEF CancelTimer, StopContext, NextHandler
  <2>2. DOMAIN timers' = DOMAIN timers /\ \A i \in DOMAIN timers' : timers'[i] \in Events \cup {NoEvent}
    BY <1>1, <1>12 DEF CancelTimer, StopContext
  <2>3. QED
    BY <1>1, <1>2, <1>12, <2>1, <2>2 DEF CancelTimer, StopContext
<1>13. CASE Discard \/ \E e \in Events : Deliver(e)
  <2>1. /\ handlers # <<>> /\ EraseTimer(Head(handlers).event) /\ Head(handlers).op = "timer"
        /\ UNCHANGED <<schedState, lastEventId, eventId, spc>>
        /\ discarded' = discarded \/ discarded' = discarded \cup {Head(handlers).event}
    BY <1>13 DEF Discard, Deliver, NextHandler
  <2>2. Head(handlers).event \in Events
    BY <1>5, <2>1 DEF Handler
  <2>3. handlers' \in Seq(Handler)
    BY <1>4, <2>1 DEF EraseTimer
  <2>4. DOMAIN timers' \subseteq DOMAIN timers /\ \A i \in DOMAIN timers' : timers'[i] \in Events \cup {NoEvent}
    BY <1>1, <2>1 DEF EraseTimer
  <2>5. QED
    BY <1>1, <1>2, <2>1, <2>2, <2>3, <2>4
<1>14. QED
  BY <1>6, <1>7, <1>8, <1>9, <1>10, <1>11, <1>12, <1>13 DEF SchedStep

LEMMA ServerStepsScheduler == [Next]_vars => SchedStep
<1> SUFFICES ASSUME [Next]_vars
             PROVE  SchedStep
  OBVIOUS
<1>1. CASE NetThread
  BY <1>1 DEF NetThread, NetReceives, NetSignal, NetQueries, NetAddsEvent, NetNotifies, NetDies,
              MainJoins, Join, SchedStep
<1>2. CASE GameAddsTask \/ GameAddsEvent \/ GameStopsEvent \/ GameQueries \/ GameEnds
  BY <1>2 DEF GameAddsTask, GameAddsEvent, GameStopsEvent, GameQueries, GameEnds, SchedStep
<1>3. CASE BeginShutdown \/ QueueGameShutdown \/ SetGameStateStops \/ GameShutdownStep
  BY <1>3 DEF BeginShutdown, QueueGameShutdown, SetGameStateStops, GameShutdownStep, SchedStep
<1>4. CASE BodyNotifies \/ DispatcherLoops \/ DispatcherWakes
  BY <1>4 DEF BodyNotifies, DispatcherLoops, DispatcherWakes, SchedStep
<1>5. CASE SchedulerHandles \/ SchedulerNotifies \/ SchedulerTimer
  BY <1>5 DEF SchedulerHandles, SchedulerNotifies, SchedulerTimer, SchedStep
<1>6. CASE DatabaseWorks \/ DatabaseNotifies \/ DatabaseWakes \/ UNCHANGED vars
  BY <1>6 DEF DatabaseWorks, DatabaseNotifies, DatabaseWakes, vars, SchedStep
<1>7. QED
  BY <1>1, <1>2, <1>3, <1>4, <1>5, <1>6 DEF Next, DispatcherThread

LEMMA MainTypes ==
  ASSUME ServerTypeOK, [Next]_vars
  PROVE  /\ mpc' \in {"serve", "joinScheduler", "joinDatabase", "joinDispatcher", "exited"}
         /\ gameState' \in {"NORMAL", "SHUTDOWN"}
         /\ dying' \in BOOLEAN
         /\ stopAsked' \subseteq Events
<1>1. CASE NetThread
  BY <1>1 DEF ServerTypeOK, NetThread, NetReceives, NetSignal, NetQueries, NetAddsEvent,
              NetNotifies, NetDies, MainJoins, Join, serverVars
<1>2. CASE GameAddsTask \/ GameAddsEvent \/ GameStopsEvent \/ GameQueries \/ GameEnds
  BY <1>2 DEF ServerTypeOK, GameAddsTask, GameAddsEvent, GameStopsEvent, GameQueries, GameEnds, serverVars
<1>3. CASE BeginShutdown \/ QueueGameShutdown \/ SetGameStateStops \/ GameShutdownStep
  BY <1>3 DEF ServerTypeOK, BeginShutdown, QueueGameShutdown, SetGameStateStops, GameShutdownStep
<1>4. CASE BodyNotifies \/ DispatcherLoops \/ DispatcherWakes
  BY <1>4 DEF ServerTypeOK, BodyNotifies, DispatcherLoops, DispatcherWakes, serverVars
<1>5. CASE SchedulerHandles \/ SchedulerNotifies \/ SchedulerTimer
  BY <1>5 DEF ServerTypeOK, SchedulerHandles, SchedulerNotifies, SchedulerTimer, serverVars
<1>6. CASE DatabaseWorks \/ DatabaseNotifies \/ DatabaseWakes \/ UNCHANGED vars
  BY <1>6 DEF ServerTypeOK, DatabaseWorks, DatabaseNotifies, DatabaseWakes, vars, serverVars
<1>7. QED
  BY <1>1, <1>2, <1>3, <1>4, <1>5, <1>6 DEF Next, DispatcherThread

\* The parts keep their types, and only the dispatcher, flushing in Game::shutdown,
\* ever holds the database thread's lock across steps.
THEOREM ServerTypes == Spec => []ServerTypeOK
<1>1. PhaseInv /\ QueryInv =>
         /\ DispTypeOK /\ DbTypeOK /\ body \in Bodies /\ dbNotifying \subseteq {Net, Self}
         /\ dbLock # NoOne => dbLock = Self /\ current = <<GameShutdown>> /\ body = "flush"
  BY DEF PhaseInv, QueryInv, BodiesInv, FlushInv, Bodies, Stopping, ShuttingDown, InShutdown
<1>2. Init => ServerTypeOK
  <2> SUFFICES ASSUME Init
               PROVE  ServerTypeOK
    OBVIOUS
  <2>1. /\ DispTypeOK /\ DbTypeOK /\ body \in Bodies /\ dbNotifying \subseteq {Net, Self}
        /\ dbLock # NoOne => dbLock = Self /\ current = <<GameShutdown>> /\ body = "flush"
    BY <1>1, PhaseInit, QueryInit
  <2>2. SchedTypeOK
    BY EventInit DEF EventInv
  <2>3. QED
    BY <2>1, <2>2 DEF ServerTypeOK, Init
<1>3. PhaseInv /\ QueryInv /\ ServerTypeOK /\ [Next]_vars => ServerTypeOK'
  <2> SUFFICES ASSUME PhaseInv, QueryInv, ServerTypeOK, [Next]_vars
               PROVE  ServerTypeOK'
    OBVIOUS
  <2>1. PhaseInv' /\ QueryInv'
    BY PhaseStep, QueryStep
  <2>2. /\ DispTypeOK' /\ DbTypeOK' /\ body' \in Bodies /\ dbNotifying' \subseteq {Net, Self}
        /\ dbLock' # NoOne => dbLock' = Self /\ current' = <<GameShutdown>> /\ body' = "flush"
    BY <2>1 DEF PhaseInv, QueryInv, BodiesInv, FlushInv, Bodies, Stopping, ShuttingDown, InShutdown
  <2>3. SchedTypeOK'
    BY ServerStepsScheduler, SchedulerTypes DEF ServerTypeOK
  <2>4. QED
    BY <2>2, <2>3, MainTypes DEF ServerTypeOK, Bodies
<1>4. Spec => [](PhaseInv /\ QueryInv /\ ServerTypeOK)
  <2>1. Init => PhaseInv /\ QueryInv /\ ServerTypeOK
    BY <1>2, PhaseInit, QueryInit
  <2>2. PhaseInv /\ QueryInv /\ ServerTypeOK /\ [Next]_vars => (PhaseInv /\ QueryInv /\ ServerTypeOK)'
    BY <1>3, PhaseStep, QueryStep
  <2>3. QED
    BY <2>1, <2>2, PTL DEF Spec
<1>5. QED
  BY <1>4, PTL
=============================================================================

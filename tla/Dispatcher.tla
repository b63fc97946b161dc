----------------------------- MODULE Dispatcher -----------------------------
(***************************************************************************)
(* The dispatcher of src/src/tasks.cpp: one thread that runs every task of *)
(* the game, fed by addTask from the network thread, the scheduler thread, *)
(* the database thread and from the bodies of its own tasks.               *)
(*                                                                         *)
(* A critical section of taskLock reads and writes nothing but taskList    *)
(* and the thread state, so it is one step; the notify_one that addTask    *)
(* does after unlocking is a step of its own.                              *)
(***************************************************************************)
EXTENDS Naturals, Sequences, Functions

CONSTANTS
    Threads,        \* the threads that call addTask
    Self,           \* the dispatcher's own thread, which calls it from task bodies
    Tasks,          \* the Task objects the program may create
    Timed,          \* those created with DISPATCHER_TASK_EXPIRATION
    Kill            \* the task made by Dispatcher::shutdown

ASSUME DispatcherAssumption ==
    /\ Self \in Threads
    /\ Timed \subseteq Tasks
    /\ Kill \notin Tasks

VARIABLES
    dispState,      \* ThreadHolder::threadState
    taskList,       \* tasks accepted, oldest first
    tmpTaskList,    \* the batch swapped out by threadMain and not run yet
    current,        \* the task whose body is running: <<>> or <<task>>
    dpc,            \* where threadMain stands
    notifying,      \* threads past the unlock of addTask, before its notify_one
    fresh           \* tasks the program has not created yet

dispVars == <<dispState, taskList, tmpTaskList, current, dpc, notifying, fresh>>

AllTasks == Tasks \cup {Kill}

\* The types, and where threadMain may stand with work in its hands: a batch is
\* finished before the state is tested again (tasks.cpp:62-78), also when one of
\* its tasks ended the thread.
DispTypeOK ==
    /\ dispState \in {"RUNNING", "CLOSING", "TERMINATED"}
    /\ taskList \in Seq(AllTasks)
    /\ tmpTaskList \in Seq(AllTasks)
    /\ current \in {<<>>} \cup {<<t>> : t \in AllTasks}
    /\ dpc \in {"test", "lock", "wait", "swap", "run", "exit"}
    /\ notifying \subseteq Threads
    /\ fresh \subseteq AllTasks
    \* the local batch is empty whenever threadMain is outside its loop over it
    /\ dpc # "run" => tmpTaskList = <<>> /\ current = <<>>

DispInit ==
    /\ dispState = "RUNNING"
    /\ taskList = <<>>
    /\ tmpTaskList = <<>>
    /\ current = <<>>
    /\ dpc = "test"
    /\ notifying = {}
    /\ fresh = AllTasks

-----------------------------------------------------------------------------
(* Calls into the dispatcher. *)

\* A thread can call when it is not inside an earlier call; the dispatcher's
\* own thread calls only from the body of a task.
CanCall(th) ==
    /\ th \notin notifying
    /\ th = Self => current # <<>>

\* Mutant of AddTask: do_signal is computed after the push.
AddTaskSignalsLate(th, t) ==
    /\ CanCall(th)
    /\ t \in fresh \ {Kill}
    /\ fresh' = fresh \ {t}
    /\ IF dispState = "RUNNING"
       THEN /\ taskList' = Append(taskList, t)
            /\ notifying' = IF taskList' = <<>> THEN notifying \cup {th} ELSE notifying
       ELSE UNCHANGED <<taskList, notifying>>
    /\ UNCHANGED <<dispState, tmpTaskList, current, dpc>>

\* Mutant of AddTask: a closing dispatcher still takes tasks.
AddTaskWhileClosing(th, t) ==
    /\ CanCall(th)
    /\ t \in fresh \ {Kill}
    /\ fresh' = fresh \ {t}
    /\ taskList' = Append(taskList, t)
    /\ notifying' = IF taskList = <<>> THEN notifying \cup {th} ELSE notifying
    /\ UNCHANGED <<dispState, tmpTaskList, current, dpc>>

\* addTask up to the unlock: outside RUNNING the task is deleted.
AddTask(th, t) ==
    /\ CanCall(th)
    /\ t \in fresh \ {Kill}
    /\ fresh' = fresh \ {t}
    /\ IF dispState = "RUNNING"
       THEN /\ taskList' = Append(taskList, t)
            /\ notifying' = IF taskList = <<>> THEN notifying \cup {th} ELSE notifying
       ELSE UNCHANGED <<taskList, notifying>>
    /\ UNCHANGED <<dispState, tmpTaskList, current, dpc>>

\* notify_one: wakes threadMain if it waits, and is lost otherwise.
Woken == IF dpc = "wait" THEN "swap" ELSE dpc

NotifyOne(th) ==
    /\ th \in notifying
    /\ notifying' = notifying \ {th}
    /\ dpc' = Woken
    /\ UNCHANGED <<dispState, taskList, tmpTaskList, current, fresh>>

\* Mutant of Shutdown: the task goes through addTask's test of the state.
ShutdownWhenRunning(th) ==
    /\ CanCall(th)
    /\ Kill \in fresh
    /\ fresh' = fresh \ {Kill}
    /\ taskList' = IF dispState = "RUNNING" THEN Append(taskList, Kill) ELSE taskList
    /\ dpc' = Woken
    /\ UNCHANGED <<dispState, tmpTaskList, current, notifying>>

\* shutdown pushes whatever the state, and notifies with the lock held.
Shutdown(th) ==
    /\ CanCall(th)
    /\ Kill \in fresh
    /\ fresh' = fresh \ {Kill}
    /\ taskList' = Append(taskList, Kill)
    /\ dpc' = Woken
    /\ UNCHANGED <<dispState, tmpTaskList, current, notifying>>

\* stop takes no lock; Game::setGameState calls it from a task's body.
Stop ==
    /\ current # <<>>
    /\ current # <<Kill>>
    /\ dispState = "RUNNING"
    /\ dispState' = "CLOSING"
    /\ UNCHANGED <<taskList, tmpTaskList, current, dpc, notifying, fresh>>

-----------------------------------------------------------------------------
(* The dispatcher's thread. *)

TestState ==
    /\ dpc = "test"
    /\ dpc' = IF dispState = "TERMINATED" THEN "exit" ELSE "lock"
    /\ UNCHANGED <<dispState, taskList, tmpTaskList, current, notifying, fresh>>

\* Mutant of LockList: the wait is not guarded by the emptiness test.
LockListWaits ==
    /\ dpc = "lock"
    /\ dpc' = "wait"
    /\ UNCHANGED <<dispState, taskList, tmpTaskList, current, notifying, fresh>>

\* The lock is held from the emptiness test to the wait, which releases it.
LockList ==
    /\ dpc = "lock"
    /\ IF taskList = <<>>
       THEN /\ dpc' = "wait"
            /\ UNCHANGED <<taskList, tmpTaskList>>
       ELSE /\ dpc' = "run"
            /\ tmpTaskList' = taskList
            /\ taskList' = tmpTaskList
    /\ UNCHANGED <<dispState, current, notifying, fresh>>

\* wait may return without a notification, and is not in a loop.
SpuriousWakeup ==
    /\ dpc = "wait"
    /\ dpc' = "swap"
    /\ UNCHANGED <<dispState, taskList, tmpTaskList, current, notifying, fresh>>

\* Mutant of SwapLists: the list is copied to the batch and kept.
CopyList ==
    /\ dpc = "swap"
    /\ dpc' = "run"
    /\ tmpTaskList' = taskList
    /\ UNCHANGED <<dispState, taskList, current, notifying, fresh>>

SwapLists ==
    /\ dpc = "swap"
    /\ dpc' = "run"
    /\ tmpTaskList' = taskList
    /\ taskList' = tmpTaskList
    /\ UNCHANGED <<dispState, current, notifying, fresh>>

\* Mutant of StartTask: the batch is popped from its back.
StartNewestTask ==
    /\ dpc = "run"
    /\ current = <<>>
    /\ tmpTaskList # <<>>
    /\ current' = <<tmpTaskList[Len(tmpTaskList)]>>
    /\ tmpTaskList' = SubSeq(tmpTaskList, 1, Len(tmpTaskList) - 1)
    /\ UNCHANGED <<dispState, taskList, dpc, notifying, fresh>>

StartTask ==
    /\ dpc = "run"
    /\ current = <<>>
    /\ tmpTaskList # <<>>
    /\ current' = <<Head(tmpTaskList)>>
    /\ tmpTaskList' = Tail(tmpTaskList)
    /\ UNCHANGED <<dispState, taskList, dpc, notifying, fresh>>

\* hasExpired: the task is deleted without being run.
SkipExpired ==
    /\ dpc = "run"
    /\ current = <<>>
    /\ tmpTaskList # <<>>
    /\ Head(tmpTaskList) \in Timed
    /\ tmpTaskList' = Tail(tmpTaskList)
    /\ UNCHANGED <<dispState, taskList, current, dpc, notifying, fresh>>

\* The body returns; the body of the task made by shutdown ends the thread.
FinishTask ==
    /\ current # <<>>
    /\ Self \notin notifying
    /\ dispState' = IF current = <<Kill>> THEN "TERMINATED" ELSE dispState
    /\ current' = <<>>
    /\ UNCHANGED <<taskList, tmpTaskList, dpc, notifying, fresh>>

\* Mutant of EndBatch: the loop over the batch stops when the thread is ended.
EndBatchEarly ==
    /\ dpc = "run"
    /\ current = <<>>
    /\ tmpTaskList = <<>> \/ dispState = "TERMINATED"
    /\ dpc' = "test"
    /\ UNCHANGED <<dispState, taskList, tmpTaskList, current, notifying, fresh>>

EndBatch ==
    /\ dpc = "run"
    /\ current = <<>>
    /\ tmpTaskList = <<>>
    /\ dpc' = "test"
    /\ UNCHANGED <<dispState, taskList, tmpTaskList, current, notifying, fresh>>

\* What the thread does by itself.
ThreadStep ==
    \/ TestState
    \/ LockList
    \/ SwapLists
    \/ StartTask
    \/ SkipExpired
    \/ FinishTask
    \/ EndBatch

-----------------------------------------------------------------------------
(* The dispatcher on its own, with callers that do whatever they like. *)

Call(th) == (\E t \in Tasks : AddTask(th, t)) \/ NotifyOne(th) \/ Shutdown(th)

DispNext ==
    \/ \E th \in Threads : Call(th)
    \/ Stop
    \/ SpuriousWakeup
    \/ ThreadStep

\* A runnable thread of the process is scheduled again and again: a notify_one
\* that is due is made, and threadMain goes on when it can.
DispFairness ==
    /\ WF_dispVars(ThreadStep)
    /\ \A th \in Threads : WF_dispVars(NotifyOne(th))

DispSpec == DispInit /\ [][DispNext]_dispVars

FairDispSpec == DispSpec /\ DispFairness

-----------------------------------------------------------------------------
(* Properties. *)

\* Everything accepted and not started yet, oldest first.
Pending == tmpTaskList \o taskList

\* The thread never sleeps on a list that holds work unless the notify_one that
\* will wake it is still to come: addTask notifies only for the first task of a
\* list (tasks.cpp:98-101), which is enough because the list is tested and the
\* wait begun under one lock.
NoMissedWakeup == dpc = "wait" /\ taskList # <<>> => notifying # {}

\* A Task object has one owner: it is deleted after its batch reached it
\* (tasks.cpp:75) or by addTask (tasks.cpp:93), so a task that sat in the lists
\* twice, or could still be created anew, would be run after its deletion.
OneOwner ==
    /\ IsInjective(current \o Pending)
    /\ Range(current \o Pending) \cap fresh = {}

\* The batches are served in the order of addTask, across the swaps of the two
\* lists: no task of a batch is left behind, run again or overtaken (tasks.cpp:59-78).
Queue == INSTANCE TaskQueue WITH Work <- AllTasks, queue <- Pending, serving <- current
ImplementsQueue == Queue!Spec

\* A task that addTask took is run or expires, unless the thread ends first.
AcceptedIsServed ==
    \A t \in Tasks : t \in Range(Pending) ~> t \notin Range(Pending) \/ dpc = "exit"

\* Once shutdown has pushed its task the thread ends, so that main's join returns
\* (otserv.cpp:107), whatever else is being added and whoever waits.
ShutdownEnds == Kill \notin fresh ~> dpc = "exit"
=============================================================================

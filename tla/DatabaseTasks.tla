--------------------------- MODULE DatabaseTasks ---------------------------
(***************************************************************************)
(* The database thread of src/src/databasetasks.cpp: queries queued by     *)
(* other threads, run one after the other by a worker, and flushed by the  *)
(* caller of shutdown. shutdown holds taskLock for as long as it flushes,  *)
(* so the lock is a variable.                                              *)
(***************************************************************************)
EXTENDS Naturals, Sequences

CONSTANTS
    Queries,        \* the queries the program may queue
    NoOne           \* no thread, no query

ASSUME DatabaseAssumption == NoOne \notin Queries

VARIABLES
    dbState,        \* ThreadHolder::threadState
    dbTasks,        \* tasks
    dbLock,         \* the thread that holds taskLock across steps, or NoOne
    dbNotifying,    \* threads past the unlock of addTask, before its notify_one
    wpc,            \* where the worker stands in threadMain
    taken,          \* the query the worker popped last
    acceptedQueries,\* the queries addTask took, in that order
    ranQueries      \* the queries the database has executed, in that order

dbVars == <<dbState, dbTasks, dbLock, dbNotifying, wpc, taken, acceptedQueries, ranQueries>>

DbTypeOK ==
    /\ dbState \in {"RUNNING", "CLOSING", "TERMINATED"}
    /\ dbTasks \in Seq(Queries)
    /\ wpc \in {"test", "lock", "wait", "relock", "query", "callback", "exit"}
    /\ taken \in Queries \cup {NoOne}
    /\ acceptedQueries \in Seq(Queries)
    /\ ranQueries \in Seq(Queries)

DbInit ==
    /\ dbState = "RUNNING"
    /\ dbTasks = <<>>
    /\ dbLock = NoOne
    /\ dbNotifying = {}
    /\ wpc = "test"
    /\ taken = NoOne
    /\ acceptedQueries = <<>>
    /\ ranQueries = <<>>

-----------------------------------------------------------------------------
(* Calls. *)

DbAddTask(th, q) ==
    /\ th \notin dbNotifying
    /\ dbLock = NoOne
    /\ IF dbState = "RUNNING"
       THEN /\ dbTasks' = Append(dbTasks, q)
            /\ acceptedQueries' = Append(acceptedQueries, q)
            /\ dbNotifying' = IF dbTasks = <<>> THEN dbNotifying \cup {th} ELSE dbNotifying
       ELSE UNCHANGED <<dbTasks, acceptedQueries, dbNotifying>>
    /\ UNCHANGED <<dbState, dbLock, wpc, taken, ranQueries>>

WokenWorker == IF wpc = "wait" THEN "relock" ELSE wpc

DbNotify(th) ==
    /\ th \in dbNotifying
    /\ dbNotifying' = dbNotifying \ {th}
    /\ wpc' = WokenWorker
    /\ UNCHANGED <<dbState, dbTasks, dbLock, taken, acceptedQueries, ranQueries>>

StopDatabase ==
    /\ dbState' = "CLOSING"
    /\ UNCHANGED <<dbTasks, dbLock, dbNotifying, wpc, taken, acceptedQueries, ranQueries>>

\* shutdown, first part: the state changes under the lock.
ShutdownDatabase(th) ==
    /\ dbLock = NoOne
    /\ dbLock' = th
    /\ dbState' = "TERMINATED"
    /\ UNCHANGED <<dbTasks, dbNotifying, wpc, taken, acceptedQueries, ranQueries>>

\* One turn of flush; whether its callback is dispatched is the caller's matter.
FlushQuery(th) ==
    /\ dbLock = th
    /\ dbTasks # <<>>
    /\ ranQueries' = Append(ranQueries, Head(dbTasks))
    /\ dbTasks' = Tail(dbTasks)
    /\ UNCHANGED <<dbState, dbLock, dbNotifying, wpc, taken, acceptedQueries>>

\* Mutant of UnlockDatabase: shutdown does not flush.
UnlockUnflushed(th) ==
    /\ dbLock = th
    /\ dbLock' = NoOne
    /\ dbNotifying' = dbNotifying \cup {th}
    /\ UNCHANGED <<dbState, dbTasks, wpc, taken, acceptedQueries, ranQueries>>

\* Mutant of UnlockDatabase: the lock is not given back.
KeepDatabaseLocked(th) ==
    /\ dbLock = th
    /\ dbTasks = <<>>
    /\ dbNotifying' = dbNotifying \cup {th}
    /\ UNCHANGED <<dbState, dbTasks, dbLock, wpc, taken, acceptedQueries, ranQueries>>

\* shutdown, last part: its notify_one follows the unlock.
UnlockDatabase(th) ==
    /\ dbLock = th
    /\ dbTasks = <<>>
    /\ dbLock' = NoOne
    /\ dbNotifying' = dbNotifying \cup {th}
    /\ UNCHANGED <<dbState, dbTasks, wpc, taken, acceptedQueries, ranQueries>>

-----------------------------------------------------------------------------
(* The worker. *)

\* The state is read outside the lock.
WorkerTest ==
    /\ wpc = "test"
    /\ wpc' = IF dbState = "TERMINATED" THEN "exit" ELSE "lock"
    /\ UNCHANGED <<dbState, dbTasks, dbLock, dbNotifying, taken, acceptedQueries, ranQueries>>

PopQuery ==
    /\ taken' = Head(dbTasks)
    /\ dbTasks' = Tail(dbTasks)
    /\ wpc' = "query"

\* Mutant of WorkerLock: the newest query is taken first.
WorkerLockNewest ==
    /\ wpc = "lock"
    /\ dbLock = NoOne
    /\ IF dbTasks = <<>>
       THEN wpc' = "wait" /\ UNCHANGED <<dbTasks, taken>>
       ELSE /\ taken' = dbTasks[Len(dbTasks)]
            /\ dbTasks' = SubSeq(dbTasks, 1, Len(dbTasks) - 1)
            /\ wpc' = "query"
    /\ UNCHANGED <<dbState, dbLock, dbNotifying, acceptedQueries, ranQueries>>

WorkerLock ==
    /\ wpc = "lock"
    /\ dbLock = NoOne
    /\ IF dbTasks = <<>>
       THEN wpc' = "wait" /\ UNCHANGED <<dbTasks, taken>>
       ELSE PopQuery
    /\ UNCHANGED <<dbState, dbLock, dbNotifying, acceptedQueries, ranQueries>>

WorkerSpuriousWakeup ==
    /\ wpc = "wait"
    /\ wpc' = "relock"
    /\ UNCHANGED <<dbState, dbTasks, dbLock, dbNotifying, taken, acceptedQueries, ranQueries>>

\* The wait returns with the lock, and the list is looked at again.
WorkerRelock ==
    /\ wpc = "relock"
    /\ dbLock = NoOne
    /\ IF dbTasks = <<>>
       THEN wpc' = "test" /\ UNCHANGED <<dbTasks, taken>>
       ELSE PopQuery
    /\ UNCHANGED <<dbState, dbLock, dbNotifying, acceptedQueries, ranQueries>>

\* runTask on the worker, first part: the query goes to the database.
WorkerQuery ==
    /\ wpc = "query"
    /\ ranQueries' = Append(ranQueries, taken)
    /\ wpc' = "callback"
    /\ UNCHANGED <<dbState, dbTasks, dbLock, dbNotifying, taken, acceptedQueries>>

\* runTask, second part: the caller conjoins the dispatcher's addTask, if any.
WorkerCallback ==
    /\ wpc = "callback"
    /\ wpc' = "test"
    /\ UNCHANGED <<dbState, dbTasks, dbLock, dbNotifying, taken, acceptedQueries, ranQueries>>

WorkerStep == WorkerTest \/ WorkerLock \/ WorkerRelock \/ WorkerQuery
=============================================================================

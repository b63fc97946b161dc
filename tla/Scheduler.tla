----------------------------- MODULE Scheduler -----------------------------
(***************************************************************************)
(* The scheduler of src/src/scheduler.cpp: an io_context run by one        *)
(* thread. addEvent, stopEvent and shutdown post handlers to it from other *)
(* threads; only its own thread touches eventIdTimerMap.                   *)
(*                                                                         *)
(* Delays are abstracted to "a running timer may expire at any time".      *)
(***************************************************************************)
EXTENDS Naturals, Sequences, Functions, SequencesExt

CONSTANTS
    Events,         \* the SchedulerTask objects the program may create
    NoEvent,        \* no event
    IdModulus       \* number of event ids, 2^32 in the code

ASSUME SchedulerAssumption ==
    /\ NoEvent \notin Events
    /\ IdModulus \in Nat \ {0}

VARIABLES
    schedState,     \* ThreadHolder::threadState
    lastEventId,    \* the last id given out
    eventId,        \* the id of each event, 0 before addEvent
    handlers,       \* handlers ready in the io_context, oldest first
    timers,         \* eventIdTimerMap: id -> the event waiting on that timer
    discarded,      \* events deleted by the scheduler without being dispatched
    spc             \* "run" while io_context.run() has not returned

schedVars == <<schedState, lastEventId, eventId, handlers, timers, discarded, spc>>

EventIds == 0 .. IdModulus - 1

Handler ==
    [op : {"add"}, event : Events]
      \cup [op : {"stop"}, id : EventIds]
      \cup [op : {"timer"}, event : Events, aborted : BOOLEAN]
      \cup [op : {"shutdown"}]

SchedTypeOK ==
    /\ schedState \in {"RUNNING", "CLOSING", "TERMINATED"}
    /\ lastEventId \in EventIds
    /\ eventId \in [Events -> EventIds]
    /\ handlers \in Seq(Handler)
    /\ DOMAIN timers \subseteq EventIds
    /\ Range(timers) \subseteq Events \cup {NoEvent}
    /\ discarded \subseteq Events
    /\ spc \in {"run", "exit"}

SchedInit ==
    /\ schedState = "RUNNING"
    /\ lastEventId = 0
    /\ eventId = [e \in Events |-> 0]
    /\ handlers = <<>>
    /\ timers = [i \in {} |-> NoEvent]
    /\ discarded = {}
    /\ spc = "run"

-----------------------------------------------------------------------------
(* Calls into the scheduler, each a post to the io_context. *)

Post(h) == handlers' = Append(handlers, h)

\* Mutant of AddEvent: the id is not counted up.
AddEventSameId(e) ==
    /\ eventId' = [eventId EXCEPT ![e] = IF lastEventId = 0 THEN 1 ELSE lastEventId]
    /\ lastEventId' = eventId'[e]
    /\ Post([op |-> "add", event |-> e])
    /\ UNCHANGED <<schedState, timers, discarded, spc>>

AddEvent(e) ==
    /\ lastEventId' = IF eventId[e] = 0 THEN (lastEventId + 1) % IdModulus ELSE lastEventId
    /\ eventId' = IF eventId[e] = 0 THEN [eventId EXCEPT ![e] = lastEventId'] ELSE eventId
    /\ Post([op |-> "add", event |-> e])
    /\ UNCHANGED <<schedState, timers, discarded, spc>>

StopEvent(id) ==
    /\ id # 0
    /\ Post([op |-> "stop", id |-> id])
    /\ UNCHANGED <<schedState, lastEventId, eventId, timers, discarded, spc>>

StopScheduler ==
    /\ schedState' = "CLOSING"
    /\ UNCHANGED <<lastEventId, eventId, handlers, timers, discarded, spc>>

ShutdownScheduler ==
    /\ schedState' = "TERMINATED"
    /\ Post([op |-> "shutdown"])
    /\ UNCHANGED <<lastEventId, eventId, timers, discarded, spc>>

-----------------------------------------------------------------------------
(* The scheduler's thread. A timer that is cancelled, restarted or         *)
(* destroyed completes its pending wait with operation_aborted.            *)

Aborted(e) == [op |-> "timer", event |-> e, aborted |-> TRUE]

\* The completions due when the timers of these ids are cancelled.
AbortedWaits(ids) ==
    LET waiting == {timers[i] : i \in ids \cap DOMAIN timers} \ {NoEvent}
    IN  SetToSeq({Aborted(e) : e \in waiting})

NextHandler(op) ==
    /\ spc = "run"
    /\ handlers # <<>>
    /\ Head(handlers).op = op

\* emplace keeps a timer that is already there; expires_from_now restarts it.
StartTimer ==
    /\ NextHandler("add")
    /\ LET e == Head(handlers).event
           id == eventId[e]
       IN  /\ timers' = [i \in DOMAIN timers \cup {id} |-> IF i = id THEN e ELSE timers[i]]
           /\ handlers' = Tail(handlers) \o AbortedWaits({id})
    /\ UNCHANGED <<schedState, lastEventId, eventId, discarded, spc>>

\* Mutant of CancelTimer: the event is deleted here, and not only by its handler.
CancelTimerDeletes ==
    /\ NextHandler("stop")
    /\ LET id == Head(handlers).id
       IN  /\ timers' = [i \in DOMAIN timers |-> IF i = id THEN NoEvent ELSE timers[i]]
           /\ handlers' = Tail(handlers) \o AbortedWaits({id})
           /\ discarded' = discarded \cup {timers[i] : i \in {id} \cap DOMAIN timers}
    /\ UNCHANGED <<schedState, lastEventId, eventId, spc>>

CancelTimer ==
    /\ NextHandler("stop")
    /\ LET id == Head(handlers).id
       IN  /\ timers' = [i \in DOMAIN timers |-> IF i = id THEN NoEvent ELSE timers[i]]
           /\ handlers' = Tail(handlers) \o AbortedWaits({id})
    /\ UNCHANGED <<schedState, lastEventId, eventId, discarded, spc>>

\* A wait completes by itself: from here on a cancel comes too late.
TimerExpires(id) ==
    /\ spc = "run"
    /\ id \in DOMAIN timers
    /\ timers[id] # NoEvent
    /\ timers' = [timers EXCEPT ![id] = NoEvent]
    /\ Post([op |-> "timer", event |-> timers[id], aborted |-> FALSE])
    /\ UNCHANGED <<schedState, lastEventId, eventId, discarded, spc>>

\* The handler of async_wait erases the map's entry, which destroys the timer.
EraseTimer(e) ==
    /\ timers' = [i \in DOMAIN timers \ {eventId[e]} |-> timers[i]]
    /\ handlers' = Tail(handlers) \o AbortedWaits({eventId[e]})

GivenUp == Head(handlers).aborted \/ schedState = "TERMINATED"

\* The event goes to the dispatcher: the caller conjoins its addTask.
Deliver(e) ==
    /\ NextHandler("timer")
    /\ e = Head(handlers).event
    /\ ~GivenUp
    /\ EraseTimer(e)
    /\ UNCHANGED <<schedState, lastEventId, eventId, discarded, spc>>

Discard ==
    /\ NextHandler("timer")
    /\ GivenUp
    /\ EraseTimer(Head(handlers).event)
    /\ discarded' = discarded \cup {Head(handlers).event}
    /\ UNCHANGED <<schedState, lastEventId, eventId, spc>>

\* All timers are cancelled, but stop makes run() return before their handlers.
StopContext ==
    /\ NextHandler("shutdown")
    /\ timers' = [i \in DOMAIN timers |-> NoEvent]
    /\ handlers' = Tail(handlers) \o AbortedWaits(DOMAIN timers)
    /\ spc' = "exit"
    /\ UNCHANGED <<schedState, lastEventId, eventId, discarded>>

\* The events the scheduler still has: posted, waiting, or completed.
InScheduler ==
    {handlers[i].event : i \in {j \in DOMAIN handlers : handlers[j].op \in {"add", "timer"}}}
      \cup (Range(timers) \ {NoEvent})
=============================================================================

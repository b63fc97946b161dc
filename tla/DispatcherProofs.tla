-------------------------- MODULE DispatcherProofs --------------------------
(* Theorems about the dispatcher for any threads and any number of tasks.  *)
EXTENDS Dispatcher, SequenceTheorems, TLAPS

-----------------------------------------------------------------------------
(* Facts about sequences. *)

LEMMA ConcatAppend ==
  ASSUME NEW S, NEW s \in Seq(S), NEW t \in Seq(S), NEW e \in S
  PROVE  s \o Append(t, e) = Append(s \o t, e)
<1>1. <<e>> \in Seq(S)
  OBVIOUS
<1>2. s \o t \in Seq(S)
  BY ConcatProperties
<1>3. QED
  BY <1>1, <1>2, AppendIsConcat, ConcatAssociative

LEMMA ConcatHeadTail ==
  ASSUME NEW S, NEW s \in Seq(S), NEW t \in Seq(S), s # <<>>
  PROVE  /\ s \o t # <<>>
         /\ Head(s \o t) = Head(s)
         /\ Tail(s \o t) = Tail(s) \o t
<1>1. s \o t \in Seq(S) /\ Len(s \o t) = Len(s) + Len(t)
  BY ConcatProperties
<1>2. Len(s) \in Nat \ {0} /\ Len(t) \in Nat
  BY EmptySeq, LenProperties
<1>3. s \o t # <<>>
  BY <1>1, <1>2, EmptySeq
<1>4. Tail(s) \in Seq(S) /\ Len(Tail(s)) = Len(s) - 1
  BY HeadTailProperties
<1>5. Tail(s \o t) \in Seq(S) /\ Tail(s) \o t \in Seq(S)
  BY <1>1, <1>3, <1>4, HeadTailProperties, ConcatProperties
<1>6. Len(Tail(s \o t)) = Len(Tail(s) \o t)
  BY <1>1, <1>2, <1>3, <1>4, HeadTailProperties, ConcatProperties
<1>7. ASSUME NEW i \in 1 .. Len(Tail(s \o t))
      PROVE  Tail(s \o t)[i] = (Tail(s) \o t)[i]
  BY <1>1, <1>2, <1>3, <1>4, <1>6, ConcatProperties
<1>8. Head(s \o t) = Head(s)
  BY <1>1, <1>2, <1>3, ConcatProperties
<1>9. QED
  BY <1>3, <1>5, <1>6, <1>7, <1>8, SeqEqual

-----------------------------------------------------------------------------
(* Types, and the empty batch outside the loop. *)

LEMMA TypeInit == DispInit => DispTypeOK
  BY DEF DispInit, DispTypeOK, AllTasks

LEMMA TypeStep == DispTypeOK /\ [DispNext]_dispVars => DispTypeOK'
<1> SUFFICES ASSUME DispTypeOK, [DispNext]_dispVars
             PROVE  DispTypeOK'
  OBVIOUS
<1> USE DispatcherAssumption DEF DispTypeOK, AllTasks
<1>1. CASE \E th \in Threads, t \in Tasks : AddTask(th, t)
  <2>1. PICK th \in Threads, t \in Tasks : AddTask(th, t)
    BY <1>1
  <2>2. Append(taskList, t) \in Seq(AllTasks)
    OBVIOUS
  <2>3. QED
    BY <2>1, <2>2 DEF AddTask, CanCall
<1>2. CASE \E th \in Threads : NotifyOne(th)
  BY <1>2 DEF NotifyOne, Woken
<1>3. CASE \E th \in Threads : Shutdown(th)
  BY <1>3 DEF Shutdown, Woken, CanCall
<1>4. CASE Stop
  BY <1>4 DEF Stop
<1>5. CASE SpuriousWakeup
  BY <1>5 DEF SpuriousWakeup
<1>6. CASE TestState
  BY <1>6 DEF TestState
<1>7. CASE LockList
  BY <1>7 DEF LockList
<1>8. CASE SwapLists
  BY <1>8 DEF SwapLists
<1>9. CASE StartTask
  BY <1>9 DEF StartTask
<1>10. CASE SkipExpired
  BY <1>10 DEF SkipExpired
<1>11. CASE FinishTask
  BY <1>11 DEF FinishTask
<1>12. CASE EndBatch
  BY <1>12 DEF EndBatch
<1>13. CASE UNCHANGED dispVars
  BY <1>13 DEF dispVars
<1>14. QED
  BY <1>1, <1>2, <1>3, <1>4, <1>5, <1>6, <1>7, <1>8, <1>9, <1>10, <1>11, <1>12, <1>13
     DEF DispNext, Call, ThreadStep

\* In every reachable state the variables have their types, and threadMain has no
\* task in its hands when it tests the state, takes the lock or sleeps.
THEOREM TypeCorrect == DispSpec => []DispTypeOK
  BY TypeInit, TypeStep, PTL DEF DispSpec

-----------------------------------------------------------------------------
(* No missed wakeup. *)

LEMMA WakeupStep == NoMissedWakeup /\ [DispNext]_dispVars => NoMissedWakeup'
<1> SUFFICES ASSUME NoMissedWakeup, [DispNext]_dispVars
             PROVE  NoMissedWakeup'
  OBVIOUS
<1> USE DEF NoMissedWakeup
<1>1. CASE \E th \in Threads, t \in Tasks : AddTask(th, t)
  \* The task either joins a list whose notification is due, or makes one due.
  BY <1>1 DEF AddTask
<1>2. CASE \E th \in Threads : NotifyOne(th) \/ Shutdown(th)
  \* The waiter, if there is one, is awake afterwards.
  BY <1>2 DEF NotifyOne, Shutdown, Woken
<1>3. CASE LockList
  \* The wait is entered only with an empty list.
  BY <1>3 DEF LockList
<1>4. CASE Stop \/ FinishTask
  BY <1>4 DEF Stop, FinishTask
<1>5. CASE SpuriousWakeup \/ TestState \/ SwapLists \/ EndBatch
  BY <1>5 DEF SpuriousWakeup, TestState, SwapLists, EndBatch
<1>6. CASE StartTask \/ SkipExpired
  BY <1>6 DEF StartTask, SkipExpired
<1>7. CASE UNCHANGED dispVars
  BY <1>7 DEF dispVars
<1>8. QED
  BY <1>1, <1>2, <1>3, <1>4, <1>5, <1>6, <1>7 DEF DispNext, Call, ThreadStep

\* Whatever threads call and however their steps interleave, the dispatcher never
\* sleeps on a list that holds a task without a notification on its way.
THEOREM WakeupNeverMissed == DispSpec => []NoMissedWakeup
<1>1. DispInit => NoMissedWakeup
  BY DEF DispInit, NoMissedWakeup
<1>2. QED
  BY <1>1, WakeupStep, PTL DEF DispSpec

-----------------------------------------------------------------------------
(* The dispatcher is a queue. *)

LEMMA QueueStep == DispTypeOK /\ [DispNext]_dispVars => [Queue!Next]_<<Pending, current>>
<1> SUFFICES ASSUME DispTypeOK, [DispNext]_dispVars
             PROVE  [Queue!Next]_<<Pending, current>>
  OBVIOUS
<1> USE DEF AllTasks
<1>1. /\ taskList \in Seq(AllTasks)
      /\ tmpTaskList \in Seq(AllTasks)
      /\ dpc # "run" => tmpTaskList = <<>> /\ current = <<>>
  BY DEF DispTypeOK
<1>2. ASSUME NEW t \in AllTasks,
             taskList' = Append(taskList, t), UNCHANGED <<tmpTaskList, current>>
      PROVE  Queue!Next
  \* A task pushed at the back of taskList is pushed at the back of Pending.
  BY <1>1, <1>2, ConcatAppend DEF Queue!Next, Queue!Accept, Pending
<1>3. ASSUME dpc # "run", tmpTaskList' = taskList, taskList' = tmpTaskList, UNCHANGED current
      PROVE  UNCHANGED <<Pending, current>>
  \* Swapping with an empty batch leaves the order alone.
  BY <1>1, <1>3, ConcatEmptySeq DEF Pending
<1>4. ASSUME tmpTaskList # <<>>, tmpTaskList' = Tail(tmpTaskList), UNCHANGED taskList
      PROVE  /\ Pending # <<>>
             /\ Head(Pending) = Head(tmpTaskList)
             /\ Pending' = Tail(Pending)
  BY <1>1, <1>4, ConcatHeadTail DEF Pending
<1>5. CASE \E th \in Threads, t \in Tasks : AddTask(th, t)
  BY <1>2, <1>5 DEF AddTask, Pending
<1>6. CASE \E th \in Threads : NotifyOne(th)
  BY <1>6 DEF NotifyOne, Pending
<1>7. CASE \E th \in Threads : Shutdown(th)
  BY <1>2, <1>7 DEF Shutdown
<1>8. CASE Stop \/ SpuriousWakeup \/ TestState \/ EndBatch
  BY <1>8 DEF Stop, SpuriousWakeup, TestState, EndBatch, Pending
<1>9. CASE LockList
  BY <1>3, <1>9 DEF LockList, Pending
<1>10. CASE SwapLists
  BY <1>3, <1>10 DEF SwapLists
<1>11. CASE StartTask
  BY <1>4, <1>11 DEF StartTask, Queue!Next, Queue!Serve
<1>12. CASE SkipExpired
  BY <1>4, <1>12 DEF SkipExpired, Queue!Next, Queue!Discard
<1>13. CASE FinishTask
  BY <1>13 DEF FinishTask, Queue!Next, Queue!Finish, Pending
<1>14. CASE UNCHANGED dispVars
  BY <1>14 DEF dispVars, Pending
<1>15. QED
  BY <1>5, <1>6, <1>7, <1>8, <1>9, <1>10, <1>11, <1>12, <1>13, <1>14
     DEF DispNext, Call, ThreadStep

\* The two lists that threadMain swaps behave as the one queue of TaskQueue: tasks
\* leave in the order addTask took them, each of them once.
THEOREM DispatcherIsAQueue == DispSpec => ImplementsQueue
<1>1. DispInit => Queue!Init
  BY ConcatEmptySeq, EmptySeq DEF DispInit, Queue!Init, Pending
<1>2. QED
  BY <1>1, QueueStep, TypeInit, TypeStep, PTL DEF DispSpec, ImplementsQueue, Queue!Spec

-----------------------------------------------------------------------------
(* Every task has one owner. *)

LEMMA OwnedAppend ==
  ASSUME NEW S, NEW h \in Seq(S), NEW f, NEW t \in S,
         IsInjective(h), Range(h) \cap f = {}, t \in f
  PROVE  /\ IsInjective(Append(h, t))
         /\ Range(Append(h, t)) \cap (f \ {t}) = {}
<1>1. /\ Append(h, t) \in Seq(S)
      /\ Len(h) \in Nat
      /\ DOMAIN h = 1 .. Len(h)
      /\ DOMAIN Append(h, t) = 1 .. (Len(h) + 1)
      /\ \A i \in 1 .. Len(h) : Append(h, t)[i] = h[i]
      /\ Append(h, t)[Len(h) + 1] = t
  BY AppendProperties, LenProperties
<1>2. \A i \in 1 .. Len(h) : h[i] # t
  BY <1>1 DEF Range
<1> HIDE DEF Range
<1>3. \A i \in 1 .. (Len(h) + 1) : i \in 1 .. Len(h) \/ i = Len(h) + 1
  BY <1>1
<1>4. QED
  BY <1>1, <1>2, <1>3 DEF IsInjective, Range

LEMMA OwnedTail ==
  ASSUME NEW S, NEW h \in Seq(S), NEW f, h # <<>>,
         IsInjective(h), Range(h) \cap f = {}
  PROVE  /\ IsInjective(Tail(h))
         /\ Range(Tail(h)) \cap f = {}
<1>1. /\ Tail(h) \in Seq(S)
      /\ Len(h) \in Nat \ {0}
      /\ DOMAIN h = 1 .. Len(h)
      /\ DOMAIN Tail(h) = 1 .. (Len(h) - 1)
  BY HeadTailProperties, LenProperties, EmptySeq
<1>2. \A i \in 1 .. (Len(h) - 1) : Tail(h)[i] = h[i + 1] /\ i + 1 \in 1 .. Len(h)
  BY <1>1
<1>3. QED
  BY <1>1, <1>2 DEF IsInjective, Range

LEMMA ConsHead ==
  ASSUME NEW S, NEW q \in Seq(S), q # <<>>
  PROVE  <<Head(q)>> \o Tail(q) = q
<1>1. /\ Len(q) \in Nat \ {0}
      /\ Head(q) \in S
      /\ Head(q) = q[1]
      /\ Tail(q) \in Seq(S)
      /\ Len(Tail(q)) = Len(q) - 1
      /\ \A i \in 1 .. (Len(q) - 1) : Tail(q)[i] = q[i + 1]
  BY EmptySeq, HeadTailProperties
<1>2. <<Head(q)>> \in Seq(S) /\ Len(<<Head(q)>>) = 1
  BY <1>1
<1>3. /\ <<Head(q)>> \o Tail(q) \in Seq(S)
      /\ Len(<<Head(q)>> \o Tail(q)) = Len(q)
      /\ \A i \in 1 .. Len(q) :
           (<<Head(q)>> \o Tail(q))[i] = IF i <= 1 THEN q[1] ELSE Tail(q)[i - 1]
  BY <1>1, <1>2, ConcatProperties
<1>4. \A i \in 1 .. Len(q) : (<<Head(q)>> \o Tail(q))[i] = q[i]
  BY <1>1, <1>3
<1>5. QED
  BY <1>3, <1>4, SeqEqual

LEMMA OwnerStep == DispTypeOK /\ OneOwner /\ [DispNext]_dispVars => OneOwner'
<1> SUFFICES ASSUME DispTypeOK, OneOwner, [DispNext]_dispVars
             PROVE  OneOwner'
  OBVIOUS
<1> DEFINE Hand == current \o Pending
<1>1. /\ taskList \in Seq(AllTasks) /\ tmpTaskList \in Seq(AllTasks)
      /\ current \in Seq(AllTasks) /\ Pending \in Seq(AllTasks)
      /\ Hand \in Seq(AllTasks)
      /\ fresh \subseteq AllTasks
      /\ dpc # "run" => tmpTaskList = <<>> /\ current = <<>>
  <2>1. current \in Seq(AllTasks)
    <3>1. current = <<>> \/ \E t \in AllTasks : current = <<t>>
      BY DEF DispTypeOK
    <3>2. \A t \in AllTasks : <<t>> \in Seq(AllTasks)
      OBVIOUS
    <3>3. QED
      BY <3>1, <3>2, EmptySeq
  <2>2. Pending \in Seq(AllTasks)
    BY ConcatProperties DEF DispTypeOK, Pending
  <2>3. QED
    BY <2>1, <2>2, ConcatProperties DEF DispTypeOK
<1>2. IsInjective(Hand) /\ Range(Hand) \cap fresh = {}
  BY DEF OneOwner
<1>3. ASSUME NEW t \in fresh, fresh' = fresh \ {t},
             taskList' = Append(taskList, t), UNCHANGED <<tmpTaskList, current>>
      PROVE  OneOwner'
  <2>1. Hand' = Append(Hand, t)
    <3>1. t \in AllTasks /\ Pending' = Append(Pending, t)
      BY <1>1, <1>3, ConcatAppend DEF Pending
    <3>2. current \o Append(Pending, t) = Append(Hand, t)
      BY <1>1, <3>1, ConcatAppend
    <3>3. QED
      BY <1>3, <3>1, <3>2
  <2>2. IsInjective(Append(Hand, t)) /\ Range(Append(Hand, t)) \cap (fresh \ {t}) = {}
    <3> HIDE DEF Hand
    <3>1. t \in AllTasks
      BY <1>1
    <3>2. QED
      BY <1>1, <1>2, <3>1, OwnedAppend
  <2> HIDE DEF Hand
  <2>3. IsInjective(Hand') /\ Range(Hand') \cap fresh' = {}
    BY <1>3, <2>1, <2>2
  <2>4. QED
    BY <2>3 DEF OneOwner, Hand
<1>4. ASSUME fresh' \subseteq fresh, UNCHANGED <<taskList, tmpTaskList, current>>
      PROVE  OneOwner'
  BY <1>2, <1>4 DEF OneOwner, Pending
<1>5. ASSUME dpc # "run", tmpTaskList' = taskList, taskList' = tmpTaskList,
             UNCHANGED <<current, fresh>>
      PROVE  OneOwner'
  <2>1. Hand' = Hand
    BY <1>1, <1>5, ConcatEmptySeq DEF Pending
  <2>2. QED
    BY <1>2, <1>5, <2>1 DEF OneOwner
<1>6. ASSUME current = <<>>, tmpTaskList # <<>>, tmpTaskList' = Tail(tmpTaskList),
             UNCHANGED <<taskList, fresh>>
      PROVE  /\ Hand = Pending /\ Pending # <<>>
             /\ Head(Pending) = Head(tmpTaskList)
             /\ Pending' = Tail(Pending) /\ Tail(Pending) \in Seq(AllTasks)
  <2>1. Hand = Pending
    BY <1>1, <1>6, ConcatEmptySeq
  <2>2. Pending # <<>> /\ Head(Pending) = Head(tmpTaskList)
    BY <1>1, <1>6, ConcatHeadTail DEF Pending
  <2>3. Pending' = Tail(Pending)
    BY <1>1, <1>6, ConcatHeadTail DEF Pending
  <2>4. Pending \in Seq(AllTasks)
    BY <1>1, ConcatProperties DEF Pending
  <2>5. Tail(Pending) \in Seq(AllTasks)
    BY <2>2, <2>4, HeadTailProperties
  <2>6. QED
    BY <2>1, <2>2, <2>3, <2>5
<1>7. CASE \E th \in Threads, t \in Tasks : AddTask(th, t)
  BY <1>3, <1>4, <1>7 DEF AddTask
<1>8. CASE \E th \in Threads : NotifyOne(th)
  BY <1>4, <1>8 DEF NotifyOne
<1>9. CASE \E th \in Threads : Shutdown(th)
  BY <1>3, <1>9 DEF Shutdown
<1>10. CASE Stop \/ SpuriousWakeup \/ TestState \/ EndBatch
  BY <1>4, <1>10 DEF Stop, SpuriousWakeup, TestState, EndBatch
<1>11. CASE LockList
  BY <1>4, <1>5, <1>11 DEF LockList
<1>12. CASE SwapLists
  BY <1>5, <1>12 DEF SwapLists
<1>13. CASE StartTask
  \* The task moves from the front of the batch to the hands of the thread.
  <2>1. Hand' = Hand
    BY <1>1, <1>6, <1>13, ConsHead DEF StartTask
  <2>2. QED
    BY <1>2, <1>13, <2>1 DEF StartTask, OneOwner
<1>14. CASE SkipExpired
  <2>1. Hand' = Tail(Hand)
    BY <1>1, <1>6, <1>14, ConcatEmptySeq DEF SkipExpired
  <2>2. QED
    BY <1>1, <1>2, <1>6, <1>14, <2>1, OwnedTail DEF SkipExpired, OneOwner
<1>15. CASE FinishTask
  <2>1. PICK t \in AllTasks : current = <<t>>
    BY <1>15 DEF FinishTask, DispTypeOK
  <2>2. Tail(current) = <<>> /\ current # <<>>
    BY <2>1
  <2>3. Hand # <<>> /\ Tail(Hand) = Tail(current) \o Pending
    BY <1>1, <2>2, ConcatHeadTail
  <2>4. Hand' = Tail(Hand)
    BY <1>15, <2>2, <2>3 DEF FinishTask, Pending
  <2>5. QED
    BY <1>1, <1>2, <1>15, <2>3, <2>4, OwnedTail DEF FinishTask, OneOwner
<1>16. CASE UNCHANGED dispVars
  BY <1>4, <1>16 DEF dispVars
<1>17. QED
  BY <1>7, <1>8, <1>9, <1>10, <1>11, <1>12, <1>13, <1>14, <1>15, <1>16
     DEF DispNext, Call, ThreadStep

\* No Task object is ever in the dispatcher's hands twice, so none is run after
\* threadMain has deleted it.
THEOREM TasksHaveOneOwner == DispSpec => []OneOwner
<1>1. DispInit => OneOwner
  BY ConcatEmptySeq, EmptySeq DEF DispInit, OneOwner, Pending, IsInjective, Range
<1>2. QED
  BY <1>1, OwnerStep, TypeInit, TypeStep, PTL DEF DispSpec
=============================================================================

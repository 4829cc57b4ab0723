---------------------------- MODULE LooperProofs ----------------------------
(***************************************************************************)
(* The event loop proved correct for any number of posting threads, any    *)
(* set of tasks and any limit of the eventfd counter.                      *)
(*                                                                         *)
(* NoLostWakeup speaks of the loop at Poll only.  It is not inductive: the *)
(* queues are covered at Poll because try_dequeue found each of them empty *)
(* in the round before and everything enqueued since is announced.  IInv   *)
(* says that of the producers the running try_dequeue has visited already. *)
(*                                                                         *)
(* A LooperThread runs a Looper: every behaviour of LooperThread is one of *)
(* Looper, so that all that is proved of a Looper holds of the loops of a  *)
(* pool, too.  StartUpIsSafe says nothing of who holds the lock, and is    *)
(* not inductive without that: SInv says that the word of the mutex tells  *)
(* who is in his locked section, and that the address is stored in the     *)
(* thread's.                                                               *)
(***************************************************************************)
EXTENDS LooperThread, TLAPS

\* The queue of th is empty, announced, or about to be announced.
Covered(th) == \/ task_queue[th] = <<>>
               \/ eventfd > 0
               \/ th \in posting /\ Len(task_queue[th]) = 1

OthersCovered == /\ pc \in {"setup", "poll"} => \A th \in Others : Covered(th)
                 /\ pc = "drain" => \A th \in Others \ unscanned : Covered(th)

BaseDrained == /\ pc \in {"setup", "poll"} => Waiting(Base) \subseteq EarlyTasks
               /\ pc = "drain" /\ Base \notin unscanned => task_queue[Base] = <<>>

IInv == TypeOK /\ OthersCovered /\ BaseDrained

-----------------------------------------------------------------------------

\* What AddTask does to the queue of its thread: it ends up longer by one, is no
\* longer empty, and holds the old tasks and the new one.
LEMMA AppendFacts ==
    ASSUME NEW S, NEW s \in Seq(S), NEW t \in S
    PROVE  /\ Append(s, t) \in Seq(S)
           /\ Len(Append(s, t)) = Len(s) + 1
           /\ Append(s, t) # <<>>
           /\ {Append(s, t)[i] : i \in DOMAIN Append(s, t)} = {s[i] : i \in DOMAIN s} \cup {t}
  <1>1. /\ Append(s, t) \in Seq(S)
        /\ Len(Append(s, t)) = Len(s) + 1
        /\ DOMAIN Append(s, t) = 1..(Len(s) + 1)
        /\ DOMAIN s = 1..Len(s)
        /\ Len(s) \in Nat
        /\ \A i \in 1..Len(s) : Append(s, t)[i] = s[i]
        /\ Append(s, t)[Len(s) + 1] = t
    OBVIOUS
  <1>2. Append(s, t) # <<>>
    BY <1>1
  <1>3. {Append(s, t)[i] : i \in DOMAIN Append(s, t)} = {s[i] : i \in DOMAIN s} \cup {t}
    BY <1>1
  <1>. QED  BY <1>1, <1>2, <1>3

\* What try_dequeue takes: the head is a task, and the tail is a queue of tasks.
LEMMA DequeueFacts ==
    ASSUME NEW S, NEW s \in Seq(S), s # <<>>
    PROVE  Head(s) \in S /\ Tail(s) \in Seq(S)
  OBVIOUS

\* The first state satisfies the type invariant.
LEMMA InitTypeOK == Init => TypeOK
  <1>1. 0 \in 0..EventFdMax
    BY EventFdAssumption
  <1>2. <<>> \in Seq(Tasks)
    OBVIOUS
  <1>. QED  BY <1>1, <1>2 DEF Init, TypeOK

\* Every step of the loop and of the posting threads keeps the types.
LEMMA NextTypeOK == TypeOK /\ [Next]_vars => TypeOK'
  <1>. SUFFICES ASSUME TypeOK, [Next]_vars PROVE TypeOK'
    OBVIOUS
  <1>. USE EventFdAssumption, EarlyAssumption DEF TypeOK, Threads
  <1>1. ASSUME NEW th \in Others, NEW t \in Tasks, AddTaskEnqueue(th, t) PROVE TypeOK'
    BY <1>1, AppendFacts DEF AddTaskEnqueue, Enqueue
  <1>2. ASSUME NEW th \in Others, AddTaskWakeUp(th) PROVE TypeOK'
    BY <1>2 DEF AddTaskWakeUp, WakeUp
  <1>3. ASSUME NEW t \in Tasks, BaseAddTask(t) PROVE TypeOK'
    BY <1>3, AppendFacts DEF BaseAddTask, Enqueue, WakeUp
  <1>4. ASSUME NEW t \in Tasks, BaseRunTask(t) PROVE TypeOK'
    BY <1>4 DEF BaseRunTask
  <1>5. CASE Start
    BY <1>5 DEF Start, LoopTest
  <1>6. CASE PollReturn
    BY <1>6 DEF PollReturn
  <1>7. CASE HandleWakeUp
    <2>1. 0 \in 0..EventFdMax
      BY EventFdAssumption
    <2>. QED  BY <1>7, <2>1 DEF HandleWakeUp
  <1>8. CASE HandleTaskBegin
    BY <1>8 DEF HandleTaskBegin
  <1>9. ASSUME NEW th \in Threads, TryDequeueEmpty(th) PROVE TypeOK'
    BY <1>9 DEF TryDequeueEmpty
  <1>10. ASSUME NEW th \in Threads, TryDequeue(th) PROVE TypeOK'
    <2>1. Head(task_queue[th]) \in Tasks /\ Tail(task_queue[th]) \in Seq(Tasks)
      BY <1>10, DequeueFacts DEF TryDequeue
    <2>. QED  BY <1>10, <2>1 DEF TryDequeue
  <1>11. CASE TaskReturn
    BY <1>11 DEF TaskReturn
  <1>12. CASE HandleTaskEnd
    BY <1>12 DEF HandleTaskEnd, LoopTest
  <1>13. CASE Quit
    BY <1>13 DEF Quit
  <1>14. CASE UNCHANGED vars
    BY <1>14 DEF vars
  <1>. QED
    BY <1>1, <1>2, <1>3, <1>4, <1>5, <1>6, <1>7, <1>8, <1>9, <1>10, <1>11, <1>12,
       <1>13, <1>14 DEF Next, BaseProgress, PollOther, PollWoken

\* The type invariant of the loop holds in every state.
THEOREM TypeCorrect == Spec => []TypeOK
  BY InitTypeOK, NextTypeOK, PTL DEF Spec

-----------------------------------------------------------------------------

\* Every thread's queue starts out empty.
LEMMA InitIInv == Init => IInv
  <1>. SUFFICES ASSUME Init PROVE OthersCovered /\ BaseDrained
    BY InitTypeOK DEF IInv
  <1>1. OthersCovered
    BY DEF Init, OthersCovered, Covered, Threads
  <1>2. BaseDrained
    BY DEF Init, BaseDrained, Waiting, Threads
  <1>. QED  BY <1>1, <1>2

\* The steps that matter: an enqueue leaves its thread in posting until its
\* wakeup, and the counter is only reset where the queues are still to be visited.
LEMMA NextIInv == IInv /\ [Next]_vars => IInv'
  <1>. SUFFICES ASSUME IInv, [Next]_vars PROVE OthersCovered' /\ BaseDrained'
    BY NextTypeOK DEF IInv
  <1>. USE EventFdAssumption, EarlyAssumption, BaseAssumption
       DEF IInv, TypeOK, Threads, OthersCovered, BaseDrained
  <1>1. ASSUME NEW th \in Others, NEW t \in Tasks, AddTaskEnqueue(th, t)
        PROVE  OthersCovered' /\ BaseDrained'
    <2>1. /\ th \notin posting
          /\ task_queue' = [task_queue EXCEPT ![th] = Append(@, t)]
          /\ posting' = posting \cup {th}
          /\ UNCHANGED <<pc, eventfd, unscanned>>
      BY <1>1 DEF AddTaskEnqueue, Enqueue
    <2>2. \A x \in Others : Covered(x) => Covered(x)'
      <3>. SUFFICES ASSUME NEW x \in Others, Covered(x) PROVE Covered(x)'
        OBVIOUS
      <3>1. CASE x # th
        BY <2>1, <3>1 DEF Covered
      <3>2. CASE x = th /\ task_queue[th] = <<>>
        <4>1. Len(task_queue'[th]) = 1
          BY <2>1, <3>2, AppendFacts
        <4>. QED  BY <2>1, <3>2, <4>1 DEF Covered
      <3>3. CASE x = th /\ task_queue[th] # <<>>
        BY <2>1, <3>3 DEF Covered
      <3>. QED  BY <3>1, <3>2, <3>3
    <2>3. task_queue'[Base] = task_queue[Base]
      BY <2>1
    <2>. QED  BY <2>1, <2>2, <2>3 DEF Waiting
  <1>2. ASSUME NEW th \in Others, AddTaskWakeUp(th) PROVE OthersCovered' /\ BaseDrained'
    <2>1. eventfd' > 0
      BY <1>2 DEF AddTaskWakeUp, WakeUp
    <2>2. \A x \in Others : Covered(x)'
      BY <2>1 DEF Covered
    <2>. QED  BY <1>2, <2>2 DEF AddTaskWakeUp, Waiting
  <1>3. ASSUME NEW t \in Tasks, BaseAddTask(t) PROVE OthersCovered' /\ BaseDrained'
    <2>1. /\ task_queue' = [task_queue EXCEPT ![Base] = Append(@, t)]
          /\ eventfd > 0 => eventfd' > 0
          /\ UNCHANGED <<pc, posting, unscanned>>
          /\ (pc = "setup" /\ t \in EarlyTasks) \/ pc \in {"dispatch", "call"}
      BY <1>3 DEF BaseAddTask, BasePosts, Enqueue, WakeUp
    <2>2. \A x \in Others : Covered(x) => Covered(x)'
      BY <2>1 DEF Covered
    <2>3. Waiting(Base)' = Waiting(Base) \cup {t}
      <3>1. task_queue'[Base] = Append(task_queue[Base], t)
        BY <2>1
      <3>2. task_queue[Base] \in Seq(Tasks)
        OBVIOUS
      <3>. QED  BY <3>1, <3>2, AppendFacts DEF Waiting
    <2>. QED  BY <2>1, <2>2, <2>3
  <1>4. ASSUME NEW t \in Tasks, BaseRunTask(t) PROVE OthersCovered' /\ BaseDrained'
    BY <1>4 DEF BaseRunTask, Covered, Waiting
  <1>5. CASE Start
    BY <1>5 DEF Start, LoopTest, Covered, Waiting
  <1>6. CASE PollReturn
    BY <1>6 DEF PollReturn
  <1>7. CASE HandleWakeUp
    BY <1>7 DEF HandleWakeUp
  <1>8. CASE HandleTaskBegin
    BY <1>8 DEF HandleTaskBegin
  <1>9. ASSUME NEW th \in Threads, TryDequeueEmpty(th) PROVE OthersCovered' /\ BaseDrained'
    BY <1>9 DEF TryDequeueEmpty, Covered
  <1>10. ASSUME NEW th \in Threads, TryDequeue(th) PROVE OthersCovered' /\ BaseDrained'
    BY <1>10 DEF TryDequeue
  <1>11. CASE TaskReturn
    BY <1>11 DEF TaskReturn
  <1>12. CASE HandleTaskEnd
    <2>1. (\A th \in Others : Covered(th)) /\ task_queue[Base] = <<>>
      BY <1>12 DEF HandleTaskEnd
    <2>2. Waiting(Base) = {}
      BY <2>1 DEF Waiting
    <2>. QED  BY <1>12, <2>1, <2>2 DEF HandleTaskEnd, LoopTest, Covered, Waiting
  <1>13. CASE Quit
    BY <1>13 DEF Quit, Covered, Waiting
  <1>14. CASE UNCHANGED vars
    BY <1>14 DEF vars, Covered, Waiting
  <1>. QED
    BY <1>1, <1>2, <1>3, <1>4, <1>5, <1>6, <1>7, <1>8, <1>9, <1>10, <1>11, <1>12,
       <1>13, <1>14 DEF Next, BaseProgress, PollOther, PollWoken

\* The inductive invariant holds in every state.
LEMMA Inductive == Spec => []IInv
  BY InitIInv, NextIInv, PTL DEF Spec

\* No wakeup is lost, however the enqueue and the wakeup of AddTask interleave
\* with Poll, HandleWakeUp and the visits of try_dequeue.
THEOREM WakeupsAreKept == Spec => []NoLostWakeup
  <1>1. IInv => NoLostWakeup
    BY DEF IInv, OthersCovered, Covered, NoLostWakeup
  <1>. QED  BY <1>1, Inductive, PTL

\* The base thread polls only with its own tasks done, those from before Start
\* apart.
THEOREM OwnTasksAreFirst == Spec => []OwnTasksFirst
  <1>1. IInv => OwnTasksFirst
    BY DEF IInv, BaseDrained, OwnTasksFirst
  <1>. QED  BY <1>1, Inductive, PTL

-----------------------------------------------------------------------------

\* The first state of the loop is one of the executor.
LEMMA InitRefines == Init => Executor!Init
  BY DEF Init, Executor!Init

\* An AddTask is a Submit, a RunTask of the base thread an ExecuteInline and a
\* successful try_dequeue an Execute; every other step is a stutter.
LEMMA NextRefines == [Next]_vars => [Executor!Next]_(Executor!execVars)
  <1>. SUFFICES ASSUME [Next]_vars
                PROVE  Executor!Next \/ UNCHANGED <<task_queue, started>>
    BY DEF Executor!execVars
  <1>0. Unposted = Executor!Unposted
    BY DEF Unposted, Executor!Unposted, Waiting, Executor!Waiting
  <1>1. ASSUME NEW th \in Others, NEW t \in Tasks, AddTaskEnqueue(th, t) PROVE Executor!Next
    <2>1. Executor!Submit(th, t)
      BY <1>0, <1>1 DEF AddTaskEnqueue, Enqueue, Executor!Submit
    <2>. QED  BY <2>1 DEF Executor!Next, Threads
  <1>2. ASSUME NEW t \in Tasks, BaseAddTask(t) PROVE Executor!Next
    <2>1. Executor!Submit(Base, t)
      BY <1>0, <1>2 DEF BaseAddTask, BasePosts, Enqueue, Executor!Submit
    <2>. QED  BY <2>1 DEF Executor!Next, Threads
  <1>3. ASSUME NEW t \in Tasks, BaseRunTask(t) PROVE Executor!Next
    <2>1. Executor!ExecuteInline(t)
      BY <1>0, <1>3 DEF BaseRunTask, BasePosts, Executor!ExecuteInline
    <2>. QED  BY <2>1 DEF Executor!Next
  <1>4. ASSUME NEW th \in Threads, TryDequeue(th) PROVE Executor!Next
    <2>1. Executor!Execute(th)
      BY <1>4 DEF TryDequeue, Executor!Execute
    <2>. QED  BY <2>1 DEF Executor!Next
  <1>5. ASSUME \/ \E th \in Others : AddTaskWakeUp(th)
               \/ Start \/ PollReturn \/ HandleWakeUp \/ HandleTaskBegin
               \/ \E th \in Threads : TryDequeueEmpty(th)
               \/ TaskReturn \/ HandleTaskEnd \/ Quit \/ UNCHANGED vars
        PROVE  UNCHANGED <<task_queue, started>>
    BY <1>5 DEF AddTaskWakeUp, Start, PollReturn, HandleWakeUp, HandleTaskBegin,
                TryDequeueEmpty, TaskReturn, HandleTaskEnd, Quit, vars
  <1>. QED
    BY <1>1, <1>2, <1>3, <1>4, <1>5 DEF Next, BaseProgress, PollOther, PollWoken

\* The loop implements the executor: per-thread order, at most one start of each
\* task and no task dropped, whatever the interleaving.
THEOREM LoopRefinesExecutor == Spec => RefinesExecutor
  BY InitRefines, NextRefines, PTL DEF Spec, RefinesExecutor, Executor!Spec

-----------------------------------------------------------------------------
(* The start-up of a loop.                                                 *)

\* The word of the mutex, once there is one, names who is between lock and unlock.
LockIsHeld ==
    owner # "mutex" =>
        /\ mutex # "taken"
        /\ mutex = "owner" <=> owner \in {"test", "wait"}
        /\ mutex = "thread" <=> thread \in {"publish", "unlock"}

\* How far the thread can be while the owner makes the mutex and the condition.
NotYet == /\ owner = "mutex" => thread = "lock"
          /\ owner = "condition" => thread \in {"lock", "publish"}
          /\ thread # "asleep"

PointerIsKnown == /\ loop_ <=> thread \in {"unlock", "run"}
                  /\ owner \in {"wait", "waiting"} => ~loop_
                  /\ owner \in {"has", "join", "joined"} => loop_

SInv == ~touched => LockIsHeld /\ NotYet /\ PointerIsKnown

StartUpInv == StartUpTypeOK /\ SInv

-----------------------------------------------------------------------------

\* The first states: a loop of the main thread, or a thread that has just started.
LEMMA InitStartUpInv == StartUpInit => StartUpInv
  BY DEF StartUpInit, StartUpInv, StartUpTypeOK, SInv, LockIsHeld, NotYet, PointerIsKnown

\* Each step of the owner preserves the invariant.
LEMMA OwnerStartUpInv ==
    ASSUME StartUpInv, OwnerSteps \/ SpuriousWakeUp
    PROVE  StartUpInv'
  <1>. USE DEF OwnerGoes
  <1>1. StartUpTypeOK'
    BY DEF StartUpInv, StartUpTypeOK, OwnerSteps, ConstructMutex, ConstructCondition,
           GetLoopLocks, GetLoopReturn, GetLoopTests, GetLoopWaits, SpuriousWakeUp
  <1>2. SUFFICES ASSUME ~touched' PROVE (LockIsHeld /\ NotYet /\ PointerIsKnown)'
    BY <1>1 DEF StartUpInv, SInv
  <1>3. ~touched /\ LockIsHeld /\ NotYet /\ PointerIsKnown
    BY <1>2 DEF StartUpInv, SInv, OwnerSteps, ConstructMutex, ConstructCondition,
           GetLoopLocks, GetLoopReturn, GetLoopTests, GetLoopWaits, SpuriousWakeUp
  <1>. USE <1>3 DEF StartUpInv, StartUpTypeOK, LockIsHeld, NotYet, PointerIsKnown
  <1>4. CASE ConstructMutex
    BY <1>4 DEF ConstructMutex
  <1>5. CASE ConstructCondition
    BY <1>5 DEF ConstructCondition
  <1>6. CASE GetLoopLocks
    BY <1>6 DEF GetLoopLocks
  <1>7. CASE GetLoopReturn
    BY <1>7 DEF GetLoopReturn
  <1>8. CASE GetLoopTests
    BY <1>8 DEF GetLoopTests
  <1>9. CASE GetLoopWaits
    BY <1>9 DEF GetLoopWaits
  <1>10. CASE SpuriousWakeUp
    BY <1>10 DEF SpuriousWakeUp
  <1>. QED  BY <1>4, <1>5, <1>6, <1>7, <1>8, <1>9, <1>10 DEF OwnerSteps

\* Each step of the thread up to its loop preserves the invariant.
LEMMA ThreadStartUpInv ==
    ASSUME StartUpInv, ThreadSteps
    PROVE  StartUpInv'
  <1>. USE DEF ThreadGoes
  <1>1. StartUpTypeOK'
    BY DEF StartUpInv, StartUpTypeOK, ThreadSteps, ThreadLocks, ThreadSleeps,
           ThreadPublishes, ThreadUnlocks
  <1>2. SUFFICES ASSUME ~touched' PROVE (LockIsHeld /\ NotYet /\ PointerIsKnown)'
    BY <1>1 DEF StartUpInv, SInv
  <1>3. ~touched /\ LockIsHeld /\ NotYet /\ PointerIsKnown
    BY <1>2 DEF StartUpInv, StartUpTypeOK, SInv, ThreadSteps, ThreadLocks, ThreadSleeps,
           ThreadPublishes, ThreadUnlocks
  <1>. USE <1>2, <1>3 DEF StartUpInv, StartUpTypeOK, LockIsHeld, NotYet, PointerIsKnown
  <1>4. CASE ThreadLocks
    BY <1>4 DEF ThreadLocks
  <1>5. CASE ThreadSleeps
    BY <1>5 DEF ThreadSleeps
  <1>6. CASE ThreadPublishes
    BY <1>6 DEF ThreadPublishes
  <1>7. CASE ThreadUnlocks
    BY <1>7 DEF ThreadUnlocks
  <1>. QED  BY <1>4, <1>5, <1>6, <1>7 DEF ThreadSteps

\* So does the destructor, and the loop does not touch any of it.
LEMMA NextStartUpInv == StartUpInv /\ [AllNext]_allVars => StartUpInv'
  <1>. SUFFICES ASSUME StartUpInv, [AllNext]_allVars
                PROVE  StartUpInv'
    OBVIOUS
  <1>1. CASE OwnerSteps \/ SpuriousWakeUp
    BY <1>1, OwnerStartUpInv
  <1>2. CASE ThreadSteps
    BY <1>2, ThreadStartUpInv
  <1>3. CASE Join \/ Destroy
    BY <1>3 DEF Join, Destroy, OwnerGoes, StartUpInv, StartUpTypeOK, SInv, LockIsHeld,
                NotYet, PointerIsKnown
  <1>4. CASE UNCHANGED startUp
    BY <1>4 DEF startUp, StartUpInv, StartUpTypeOK, SInv, LockIsHeld, NotYet,
                PointerIsKnown
  <1>. QED  BY <1>1, <1>2, <1>3, <1>4 DEF AllNext, allVars

\* So it holds in every state.
LEMMA StartUpInductive == AllSpec => []StartUpInv
  <1>1. AllInit => StartUpInv
    BY InitStartUpInv DEF AllInit
  <1>. QED  BY <1>1, NextStartUpInv, PTL DEF AllSpec

\* A thread that is not too early and its owner exclude each other, no
\* notification is lost, and the owner comes back with a loop that lives.
THEOREM StartUpsAreSafe == AllSpec => []StartUpIsSafe
  <1>1. StartUpInv => StartUpIsSafe
    BY DEF StartUpInv, SInv, LockIsHeld, NotYet, PointerIsKnown, StartUpIsSafe
  <1>. QED  BY <1>1, StartUpInductive, PTL

-----------------------------------------------------------------------------

\* A step of a LooperThread is a step of its Looper, its destructor a Quit, or
\* nothing the Looper sees.
LEMMA StepsOfALooper == TypeOK /\ [AllNext]_allVars => [Next]_vars
  <1>. SUFFICES ASSUME TypeOK, [AllNext]_allVars
                PROVE  Next \/ UNCHANGED vars
    OBVIOUS
  <1>1. CASE LoopSteps
    BY <1>1 DEF LoopSteps, Next
  <1>2. CASE Destroy /\ ~quit
    <2>1. Quit
      BY <1>2 DEF Destroy, Quit
    <2>. QED  BY <2>1 DEF Next
  <1>3. CASE Destroy /\ quit
    <2>1. quit' = quit
      BY <1>3 DEF Destroy, TypeOK
    <2>. QED  BY <1>3, <2>1 DEF Destroy, vars
  <1>. QED  BY <1>1, <1>2, <1>3 DEF AllNext, allVars

\* A LooperThread runs a Looper.
THEOREM ThreadRunsALooper == AllSpec => Spec
  <1>1. TypeOK /\ [AllNext]_allVars => TypeOK'
    BY StepsOfALooper, NextTypeOK
  <1>2. AllInit => Init /\ TypeOK
    BY InitTypeOK DEF AllInit
  <1>. QED  BY <1>1, <1>2, StepsOfALooper, PTL DEF AllSpec, Spec

\* The loop and its start-up keep their types.
THEOREM AllTypesCorrect == AllSpec => []AllTypeOK
  <1>1. StartUpInv => StartUpTypeOK
    BY DEF StartUpInv
  <1>. QED  BY <1>1, StartUpInductive, ThreadRunsALooper, TypeCorrect, PTL DEF AllTypeOK

\* What is proved of a Looper holds of the loop of a LooperThread: no wakeup is lost
\* and its own tasks come first.
THEOREM ThreadLoopsAreSafe == AllSpec => [](NoLostWakeup /\ OwnTasksFirst)
  BY ThreadRunsALooper, WakeupsAreKept, OwnTasksAreFirst, PTL

\* And it is an executor.
THEOREM ThreadLoopsRefineExecutor == AllSpec => RefinesExecutor
  BY ThreadRunsALooper, LoopRefinesExecutor, PTL
=============================================================================

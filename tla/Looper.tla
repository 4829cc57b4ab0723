------------------------------- MODULE Looper -------------------------------
(***************************************************************************)
(* The event loop of src/src/net/looper.cpp: one base thread that polls,   *)
(* dispatches the active events and drains a queue of tasks, and other     *)
(* threads that post tasks and wake it through an eventfd.                 *)
(*                                                                         *)
(* The queue is a moodycamel::ConcurrentQueue: a FIFO per producer thread, *)
(* which try_dequeue visits one after the other, so it may answer "empty"  *)
(* although a producer it has already visited has enqueued meanwhile.      *)
(* AddTask is two steps, because its enqueue and its WakeUp are.           *)
(***************************************************************************)
EXTENDS Naturals, Sequences

CONSTANTS Base,        \* the thread that made the Looper and runs Start
          Others,      \* the threads that post tasks to it
          Tasks,       \* the tasks, each of them posted at most once
          EarlyTasks,  \* those the base thread may post before Start
          EventFdMax   \* the largest value the eventfd counter holds: 2^64 - 2,
                       \* which no program reaches, or any smaller one

ASSUME BaseAssumption == Base \notin Others
ASSUME EarlyAssumption == EarlyTasks \subseteq Tasks
ASSUME EventFdAssumption == EventFdMax \in Nat \ {0}

Threads == {Base} \cup Others

VARIABLES pc,              \* where the base thread is in Start
          quit,            \* quit_
          is_handle_task,  \* is_handle_task_
          eventfd,         \* the counter behind wakeup_fd_
          wakeReady,       \* the wakeup event is in the list Poll returned and
                           \* its HandleWakeUp has not run yet
          task_queue,      \* task_queue_: one FIFO per producer
          unscanned,       \* producers the running try_dequeue has not visited
          posting,         \* the threads between the enqueue and the WakeUp
                           \* of their AddTask
          started          \* the tasks that have been called

vars == <<pc, quit, is_handle_task, eventfd, wakeReady, task_queue, unscanned,
          posting, started>>

Waiting(th) == {task_queue[th][i] : i \in DOMAIN task_queue[th]}

Unposted == Tasks \ (started \cup UNION {Waiting(th) : th \in Threads})

TypeOK == /\ pc \in {"setup", "poll", "dispatch", "drain", "call", "done"}
          /\ quit \in BOOLEAN
          /\ is_handle_task \in BOOLEAN
          /\ eventfd \in 0..EventFdMax
          /\ wakeReady \in BOOLEAN
          /\ task_queue \in [Threads -> Seq(Tasks)]
          /\ unscanned \subseteq Threads
          /\ posting \subseteq Others
          /\ started \subseteq Tasks

Init == /\ pc = "setup"
        /\ quit = FALSE
        /\ is_handle_task = FALSE
        /\ eventfd = 0
        /\ wakeReady = FALSE
        /\ task_queue = [th \in Threads |-> <<>>]
        /\ unscanned = {}
        /\ posting = {}
        /\ started = {}

-----------------------------------------------------------------------------
(* Posting a task.                                                         *)

\* Mutant: the counter grows past what an eventfd holds.
WakeUpUnbounded == eventfd' = eventfd + 1

\* The non-blocking write of an eventfd fails when the counter is full.
WakeUp == eventfd' = IF eventfd < EventFdMax THEN eventfd + 1 ELSE eventfd

Enqueue(th, t) == task_queue' = [task_queue EXCEPT ![th] = Append(@, t)]

\* Mutant: the poster skips the wakeup while the loop is handling tasks.
AddTaskNoWakeUpWhileHandling(th) ==
    /\ th \in posting
    /\ eventfd' = IF is_handle_task THEN eventfd ELSE 1
    /\ posting' = posting \ {th}
    /\ UNCHANGED <<pc, quit, is_handle_task, wakeReady, task_queue, unscanned, started>>

\* AddTask of another thread (RunTask of another thread is the same): the
\* enqueue, then the wakeup.
AddTaskEnqueue(th, t) ==
    /\ th \notin posting
    /\ t \in Unposted \ EarlyTasks
    /\ Enqueue(th, t)
    /\ posting' = posting \cup {th}
    /\ UNCHANGED <<pc, quit, is_handle_task, eventfd, wakeReady, unscanned, started>>

AddTaskWakeUp(th) ==
    /\ th \in posting
    /\ WakeUp
    /\ posting' = posting \ {th}
    /\ UNCHANGED <<pc, quit, is_handle_task, wakeReady, task_queue, unscanned, started>>

\* The base thread posts tasks before Start, from the callback of an event
\* and from a task.
BasePosts(t) ==
    /\ t \in Unposted
    /\ \/ pc = "setup" /\ t \in EarlyTasks
       \/ pc \in {"dispatch", "call"} /\ t \notin EarlyTasks

\* AddTask in the base thread wakes the loop only from within HandleTask.
BaseAddTask(t) ==
    /\ BasePosts(t)
    /\ Enqueue(Base, t)
    /\ \/ is_handle_task /\ WakeUp
       \/ ~is_handle_task /\ UNCHANGED eventfd
    /\ UNCHANGED <<pc, quit, is_handle_task, wakeReady, unscanned, posting, started>>

\* RunTask in the base thread calls the task itself.
BaseRunTask(t) ==
    /\ BasePosts(t)
    /\ started' = started \cup {t}
    /\ UNCHANGED <<pc, quit, is_handle_task, eventfd, wakeReady, task_queue,
                   unscanned, posting>>

-----------------------------------------------------------------------------
(* The loop.                                                               *)

\* while (!quit_)
LoopTest == pc' = IF quit THEN "done" ELSE "poll"

\* Mutant: Start clears quit_, and a Quit that came before it is lost.
StartResetsQuit ==
    /\ pc = "setup"
    /\ quit' = FALSE
    /\ pc' = "poll"
    /\ UNCHANGED <<is_handle_task, eventfd, wakeReady, task_queue, unscanned, posting, started>>

Start ==
    /\ pc = "setup"
    /\ LoopTest
    /\ UNCHANGED <<quit, is_handle_task, eventfd, wakeReady, task_queue,
                   unscanned, posting, started>>

\* Poll returns with events: the wakeup event is among them exactly when the
\* counter is not zero (the registration is level triggered).
PollReturn ==
    /\ pc = "poll"
    /\ wakeReady' = (eventfd > 0)
    /\ pc' = "dispatch"
    /\ UNCHANGED <<quit, is_handle_task, eventfd, task_queue, unscanned, posting, started>>

\* Events of other descriptors, or EPOLL_WAIT_TIME over: Poll may return although
\* nobody wrote the eventfd.
PollOther == eventfd = 0 /\ PollReturn
PollWoken == eventfd > 0 /\ PollReturn

HandleWakeUp ==
    /\ pc = "dispatch"
    /\ wakeReady
    /\ wakeReady' = FALSE
    /\ eventfd' = 0
    /\ UNCHANGED <<pc, quit, is_handle_task, task_queue, unscanned, posting, started>>

\* Mutant: the base thread's own producer is never visited.
HandleTaskBeginOthers ==
    /\ pc = "dispatch"
    /\ ~wakeReady
    /\ is_handle_task' = TRUE
    /\ pc' = "drain"
    /\ unscanned' = Others
    /\ UNCHANGED <<quit, eventfd, wakeReady, task_queue, posting, started>>

\* The loop over the active events is over; HandleTask begins.
HandleTaskBegin ==
    /\ pc = "dispatch"
    /\ ~wakeReady
    /\ is_handle_task' = TRUE
    /\ pc' = "drain"
    /\ unscanned' = Threads
    /\ UNCHANGED <<quit, eventfd, wakeReady, task_queue, posting, started>>

\* try_dequeue finds the queue of one producer empty and looks at the others.
TryDequeueEmpty(th) ==
    /\ pc = "drain"
    /\ th \in unscanned
    /\ task_queue[th] = <<>>
    /\ unscanned' = unscanned \ {th}
    /\ UNCHANGED <<pc, quit, is_handle_task, eventfd, wakeReady, task_queue, posting, started>>

\* Mutant: the newest task of the producer is taken.
TryDequeueNewest(th) ==
    /\ pc = "drain"
    /\ task_queue[th] # <<>>
    /\ started' = started \cup {task_queue[th][Len(task_queue[th])]}
    /\ task_queue' = [task_queue EXCEPT ![th] = SubSeq(@, 1, Len(@) - 1)]
    /\ pc' = "call"
    /\ UNCHANGED <<quit, is_handle_task, eventfd, wakeReady, unscanned, posting>>

\* try_dequeue takes the oldest task of a producer, and HandleTask calls it.
TryDequeue(th) ==
    /\ pc = "drain"
    /\ task_queue[th] # <<>>
    /\ started' = started \cup {Head(task_queue[th])}
    /\ task_queue' = [task_queue EXCEPT ![th] = Tail(@)]
    /\ pc' = "call"
    /\ UNCHANGED <<quit, is_handle_task, eventfd, wakeReady, unscanned, posting>>

\* Mutant: one task per round, an if in place of the while of HandleTask.
TaskReturnOnce ==
    /\ pc = "call"
    /\ pc' = "drain"
    /\ unscanned' = {}
    /\ UNCHANGED <<quit, is_handle_task, eventfd, wakeReady, task_queue, posting, started>>

TaskReturn ==
    /\ pc = "call"
    /\ pc' = "drain"
    /\ unscanned' = Threads
    /\ UNCHANGED <<quit, is_handle_task, eventfd, wakeReady, task_queue, posting, started>>

\* Mutant: the eventfd is read once the tasks are handled, not before.
HandleTaskEndReads ==
    /\ pc = "drain"
    /\ unscanned = {}
    /\ is_handle_task' = FALSE
    /\ LoopTest
    /\ eventfd' = 0
    /\ UNCHANGED <<quit, wakeReady, task_queue, unscanned, posting, started>>

\* try_dequeue answers false: HandleTask ends and the loop tests quit_ again.
HandleTaskEnd ==
    /\ pc = "drain"
    /\ unscanned = {}
    /\ is_handle_task' = FALSE
    /\ LoopTest
    /\ UNCHANGED <<quit, eventfd, wakeReady, task_queue, unscanned, posting, started>>

\* Quit may be called by any thread at any time, and wakes nobody.
Quit ==
    /\ ~quit
    /\ quit' = TRUE
    /\ UNCHANGED <<pc, is_handle_task, eventfd, wakeReady, task_queue, unscanned,
                   posting, started>>

BaseProgress == \/ Start
                \/ PollWoken
                \/ HandleWakeUp
                \/ HandleTaskBegin
                \/ \E th \in Threads : TryDequeueEmpty(th) \/ TryDequeue(th)
                \/ TaskReturn
                \/ HandleTaskEnd

Next == \/ BaseProgress
        \/ PollOther
        \/ \E t \in Tasks : BaseAddTask(t) \/ BaseRunTask(t)
        \/ \E th \in Others : AddTaskWakeUp(th)
        \/ \E th \in Others, t \in Tasks : AddTaskEnqueue(th, t)
        \/ Quit

Spec == Init /\ [][Next]_vars

\* Threads that are scheduled, and a Poll that returns once the eventfd is
\* readable; nothing says that Poll ever returns for another reason.
Fairness == /\ WF_vars(BaseProgress)
            /\ \A th \in Others : WF_vars(AddTaskWakeUp(th))

FairSpec == Spec /\ Fairness

\* epoll_wait gives up after EPOLL_WAIT_TIME at the latest.
PollTimeout == WF_vars(PollOther)
-----------------------------------------------------------------------------
(* Properties.                                                             *)

\* Whenever the loop may block in Poll, a queue that still holds a task has its
\* wakeup pending in the eventfd, or holds only the one task whose AddTask has
\* not reached WakeUp yet.  No task is left behind by HandleTask answering
\* "empty" while it is being posted, or by HandleWakeUp having consumed its
\* wakeup already (looper.cpp:60-112).
NoLostWakeup ==
    pc = "poll" =>
        \A th \in Others : \/ task_queue[th] = <<>>
                           \/ eventfd > 0
                           \/ th \in posting /\ Len(task_queue[th]) = 1

\* A task that an event callback or another task posts in the base thread starts
\* before the next Poll, with or without a wakeup: only tasks posted before Start
\* may wait through one (looper.cpp:80-112).
OwnTasksFirst == pc = "poll" => Waiting(Base) \subseteq EarlyTasks

\* The loop is a TaskExecutor: tasks of one thread start in the order it posted
\* them, none starts twice, none is dropped.
Executor == INSTANCE TaskExecutor WITH pending <- task_queue

RefinesExecutor == Executor!Spec

IsPosted(t) == t \in UNION {Waiting(th) : th \in Threads}

\* A task posted to the running loop is started, unless the loop is told to
\* quit, and it does not need the timeout of Poll for that.
PromptTasksRun ==
    \A t \in Tasks \ EarlyTasks : IsPosted(t) ~> (t \in started \/ quit)

\* A task the base thread added before Start was not announced by any wakeup:
\* it is started once the first Poll gives up or another event ends it.
EarlyTasksRun ==
    PollTimeout => \A t \in EarlyTasks : IsPosted(t) ~> (t \in started \/ quit)

\* The tasks that other threads have posted run without anything else that wakes the
\* loop, those posted before Start when a first Poll has ended.
PostedTasksRun == PromptTasksRun /\ EarlyTasksRun

\* Quit only sets a flag, but the loop ends all the same, after at most one
\* more Poll that nothing wakes and one more round of HandleTask.
QuitStops == PollTimeout => (quit ~> (pc = "done"))
=============================================================================

---------------------------- MODULE LooperThread ----------------------------
(***************************************************************************)
(* A Looper and how it comes to run: in the main thread, which makes the   *)
(* Looper, prepares it and calls Start; or in a thread of its own          *)
(* (src/src/net/looperthread.cpp), as the loops of a ThreadPool do.  There *)
(* the owner starts the thread, waits in GetLoop until the thread has      *)
(* stored the address of its Looper, and ends the loop in its destructor.  *)
(*                                                                         *)
(* The members of a LooperThread are initialised in the order of their     *)
(* declaration (looperthread.h:21-26), so the thread runs before mutex_    *)
(* and condition_ are there.  Until then it works on whatever bytes are in *)
(* their place: a mutex that looks free, or one that looks taken and that  *)
(* nobody will ever unlock.  touched records that the thread was as fast   *)
(* as that.                                                                *)
(***************************************************************************)
EXTENDS Looper

VARIABLES owner,    \* the thread that owns the LooperThread, or "absent"
          thread,   \* the new thread in ThreadFunc
          loop_,    \* the address of the Looper has been stored
          mutex,    \* the word of mutex_: free, who took it, or no mutex
          touched   \* mutex_ or condition_ was used before it was made

startUp == <<owner, thread, loop_, mutex, touched>>
allVars == <<vars, startUp>>

StartUpTypeOK ==
    /\ owner \in {"absent", "mutex", "condition", "lock", "test", "wait", "waiting",
                  "has", "join", "joined"}
    /\ thread \in {"absent", "lock", "asleep", "publish", "unlock", "run"}
    /\ loop_ \in BOOLEAN
    /\ mutex \in {"free", "owner", "thread", "taken"}
    /\ touched \in BOOLEAN

\* A loop of the main thread; or a LooperThread whose thread_ has just been made,
\* with any bytes where its mutex_ will be.
StartUpInit ==
    /\ loop_ = FALSE
    /\ touched = FALSE
    /\ \/ owner = "absent" /\ thread = "absent" /\ mutex = "free"
       \/ owner = "mutex" /\ thread = "lock" /\ mutex \in {"free", "taken"}

-----------------------------------------------------------------------------
(* The constructor of LooperThread, and GetLoop.                           *)

OwnerGoes(from, to) == owner = from /\ owner' = to

\* Whoever holds the lock, the word is reset.
ConstructMutex ==
    /\ OwnerGoes("mutex", "condition")
    /\ mutex' = "free"
    /\ UNCHANGED <<thread, loop_, touched>>

ConstructCondition ==
    /\ OwnerGoes("condition", "lock")
    /\ UNCHANGED <<thread, loop_, mutex, touched>>

GetLoopLocks ==
    /\ OwnerGoes("lock", "test")
    /\ mutex = "free"
    /\ mutex' = "owner"
    /\ UNCHANGED <<thread, loop_, touched>>

GetLoopReturn ==
    /\ OwnerGoes("test", "has")
    /\ loop_
    /\ mutex' = "free"
    /\ UNCHANGED <<thread, loop_, touched>>

\* Mutant: the owner unlocks before it waits, and is not yet among the notified.
GetLoopTestsUnlocks ==
    /\ OwnerGoes("test", "wait")
    /\ ~loop_
    /\ mutex' = "free"
    /\ UNCHANGED <<thread, loop_, touched>>

GetLoopTests ==
    /\ OwnerGoes("test", "wait")
    /\ ~loop_
    /\ UNCHANGED <<thread, loop_, mutex, touched>>

\* condition_.wait: the owner is among those to be notified, and unlocks.
GetLoopWaits ==
    /\ OwnerGoes("wait", "waiting")
    /\ mutex' = "free"
    /\ UNCHANGED <<thread, loop_, touched>>

\* A condition variable may wake without a notification.
SpuriousWakeUp ==
    /\ OwnerGoes("waiting", "lock")
    /\ UNCHANGED <<thread, loop_, mutex, touched>>

-----------------------------------------------------------------------------
(* ThreadFunc.                                                             *)

ThreadGoes(from, to) == thread = from /\ thread' = to

ThreadLocks ==
    /\ ThreadGoes("lock", "publish")
    /\ mutex = "free"
    /\ mutex' = "thread"
    /\ touched' = (touched \/ owner = "mutex")
    /\ UNCHANGED <<owner, loop_>>

\* The bytes look like a mutex that is taken: the thread sleeps until somebody
\* unlocks it, and the constructor does not.
ThreadSleeps ==
    /\ ThreadGoes("lock", "asleep")
    /\ mutex = "taken"
    /\ touched' = TRUE
    /\ UNCHANGED <<owner, loop_, mutex>>

\* Mutant: nobody is notified.
ThreadPublishesSilently ==
    /\ ThreadGoes("publish", "unlock")
    /\ loop_' = TRUE
    /\ touched' = (touched \/ owner \in {"mutex", "condition"})
    /\ UNCHANGED <<owner, mutex>>

\* loop_ = &loop and notify_one: an owner that waits goes for the lock again.
ThreadPublishes ==
    /\ ThreadGoes("publish", "unlock")
    /\ loop_' = TRUE
    /\ owner' = IF owner = "waiting" THEN "lock" ELSE owner
    /\ touched' = (touched \/ owner \in {"mutex", "condition"})
    /\ UNCHANGED mutex

ThreadUnlocks ==
    /\ ThreadGoes("unlock", "run")
    /\ mutex' = "free"
    /\ UNCHANGED <<owner, loop_, touched>>

-----------------------------------------------------------------------------
(* ~LooperThread.                                                          *)

\* The owner ends the loop when nobody posts to it any more.
Destroy ==
    /\ OwnerGoes("has", "join")
    /\ posting = {}
    /\ quit' = TRUE
    /\ UNCHANGED <<thread, loop_, mutex, touched>>
    /\ UNCHANGED <<pc, is_handle_task, eventfd, wakeReady, task_queue, unscanned,
                   posting, started>>

Join ==
    /\ OwnerGoes("join", "joined")
    /\ pc = "done"
    /\ UNCHANGED <<thread, loop_, mutex, touched>>

-----------------------------------------------------------------------------
(* The loop, once it is there.                                             *)

\* The thread of the loop is in Start, or about to call it.
Running == thread \in {"absent", "run"}

\* Others have the address of the loop, and it has not been destroyed.
Reachable == owner \in {"absent", "has"}

OwnerSteps == \/ ConstructMutex \/ ConstructCondition
              \/ GetLoopLocks \/ GetLoopReturn \/ GetLoopTests \/ GetLoopWaits

ThreadSteps == ThreadLocks \/ ThreadSleeps \/ ThreadPublishes \/ ThreadUnlocks

\* Only a loop of the main thread is given tasks by its own thread before Start.
LoopSteps ==
    \/ Running /\ (BaseProgress \/ PollOther)
    \/ \E t \in Tasks : /\ owner = "absent" \/ pc # "setup"
                        /\ BaseAddTask(t) \/ BaseRunTask(t)
    \/ \E th \in Others : AddTaskWakeUp(th)
    \/ Reachable /\ \E th \in Others, t \in Tasks : AddTaskEnqueue(th, t)
    \/ owner = "absent" /\ Quit

AllInit == Init /\ StartUpInit

AllNext == \/ (OwnerSteps \/ SpuriousWakeUp \/ ThreadSteps \/ Join) /\ UNCHANGED vars
           \/ Destroy
           \/ LoopSteps /\ UNCHANGED startUp

\* Threads that are scheduled, a Poll that returns once the eventfd is readable,
\* and a mutex that a thread gets which finds it free again and again, as it may
\* when the owner wakes without a notification.  Nothing says that an owner ever
\* destroys its LooperThread.
AllFairness ==
    /\ WF_allVars(Running /\ BaseProgress /\ UNCHANGED startUp)
    /\ \A th \in Others : WF_allVars(AddTaskWakeUp(th) /\ UNCHANGED startUp)
    /\ WF_allVars((OwnerSteps \/ Join) /\ UNCHANGED vars)
    /\ SF_allVars(ThreadSteps /\ UNCHANGED vars)

AllSpec == AllInit /\ [][AllNext]_allVars /\ AllFairness

-----------------------------------------------------------------------------
(* Properties.                                                             *)

AllTypeOK == TypeOK /\ StartUpTypeOK

\* Unless the thread was too early, the two are never in their locked sections at
\* the same time, no notification is lost between the test of loop_ and the wait,
\* and an owner that has returned from GetLoop shares a loop that lives
\* (looperthread.cpp:18-41).
StartUpIsSafe ==
    ~touched =>
        /\ ~(owner \in {"test", "wait"} /\ thread \in {"publish", "unlock"})
        /\ ~(owner = "waiting" /\ loop_)
        /\ owner = "has" => thread \in {"unlock", "run"}

\* GetLoop returns, in whatever order the owner and the thread come to the lock:
\* unless the thread came to mutex_ or condition_ before the constructor did, when
\* the owner may wait for ever (looperthread.cpp:4-10, 18-41).
GetLoopReturns ==
    (owner = "lock") ~> (touched \/ owner = "has")

=============================================================================

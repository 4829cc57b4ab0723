---------------------------- MODULE TaskExecutor ----------------------------
(***************************************************************************)
(* What an event loop promises to the threads that hand it tasks, without  *)
(* saying how: a task handed over by RunTask/AddTask is kept in the order  *)
(* of the thread that posted it, is started at most once, and nothing      *)
(* orders the tasks of two different threads.  A task that the loop's own  *)
(* thread gives to RunTask starts at once and never waits in line.         *)
(* Looper.tla is shown to implement this specification; Server.tla builds  *)
(* the cross-thread calls of the server on it.                             *)
(***************************************************************************)
EXTENDS Sequences

CONSTANTS Threads,  \* every thread that may post a task
          Tasks     \* the tasks that may be posted, each of them once

VARIABLES pending,  \* pending[th]: the tasks of th that have not started
          started   \* the tasks that have started

execVars == <<pending, started>>

Waiting(th) == {pending[th][i] : i \in DOMAIN pending[th]}

Unposted == Tasks \ (started \cup UNION {Waiting(th) : th \in Threads})

Init == /\ pending = [th \in Threads |-> <<>>]
        /\ started = {}

Submit(th, t) ==
    /\ t \in Unposted
    /\ pending' = [pending EXCEPT ![th] = Append(@, t)]
    /\ UNCHANGED started

\* The loop starts the oldest waiting task of some thread.
Execute(th) ==
    /\ pending[th] # <<>>
    /\ started' = started \cup {Head(pending[th])}
    /\ pending' = [pending EXCEPT ![th] = Tail(@)]

ExecuteInline(t) ==
    /\ t \in Unposted
    /\ started' = started \cup {t}
    /\ UNCHANGED pending

Next == \/ \E th \in Threads, t \in Tasks : Submit(th, t)
        \/ \E th \in Threads : Execute(th)
        \/ \E t \in Tasks : ExecuteInline(t)

Spec == Init /\ [][Next]_execVars
=============================================================================

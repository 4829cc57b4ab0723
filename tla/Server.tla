------------------------------- MODULE Server -------------------------------
(***************************************************************************)
(* The life of the connections of a Server (src/src/net/server.cpp,        *)
(* connection.cpp, threadpool.cpp): the main loop accepts, an I/O loop of  *)
(* the pool registers the connection and handles its events, and the main  *)
(* loop forgets the connection after the I/O loop has closed it.           *)
(*                                                                         *)
(* A Connection is a shared_ptr: it lives while connection_map_, a posted  *)
(* Register, or the call that is closing it holds it, and its destructor   *)
(* closes its descriptor.  So the set of live connections and the set of   *)
(* open descriptors are defined from the holders and need no variable.     *)
(* The task queues between the loops are those of TaskExecutor: a FIFO for *)
(* each posting thread, in no order between two of them.                   *)
(***************************************************************************)
EXTENDS Naturals, Sequences, FiniteSets, SequencesExt

CONSTANTS Main,    \* loop_, the base loop of the server
          IoLoops, \* the loops that LooperThreads run
          Pools,   \* the pools a server may have, each a sequence of IoLoops
          N,       \* how many connections are ever made
          Fds,     \* the descriptors the kernel has for connections
          NoFd,    \* the -1 of an accept that failed
          NoConn   \* no entry in connection_map_

ASSUME PoolAssumption == Main \notin IoLoops /\ \A p \in Pools : p \in Seq(IoLoops)
ASSUME CountAssumption == N \in Nat
ASSUME FdAssumption == NoFd \notin Fds
ASSUME ConnAssumption == NoConn \notin 1..N

Loops == {Main} \cup IoLoops
Conns == 1..N  \* a connection is named by its number in the order of accepts

VARIABLES loopers_,        \* ThreadPool::loopers_, filled before the first accept
          count,           \* the connections made so far are 1..count
          next_,           \* ThreadPool::next_
          loop_,           \* loop_[c]: the loop TakeOutLoop gave to c
          conn_sockfd_,    \* conn_sockfd_[c]
          connection_map_, \* from descriptors to connections
          epoll,           \* epoll[l]: the connections registered with l
          writing,         \* the connections that watch EPOLLOUT
          tasks,           \* tasks[l][m]: what m has posted to l
          doing,           \* doing[l]: the call the thread of l is in
          established,     \* connections whose established callback has run
          closed           \* connections whose close callback has run

vars == <<loopers_, count, next_, loop_, conn_sockfd_, connection_map_, epoll, writing,
          tasks, doing, established, closed>>

Made == 1..count

Registration(c) == [task |-> "Register", conn |-> c]
Removal(fd) == [task |-> "RemoveConnection", fd |-> fd]

TaskSet == {Registration(c) : c \in Conns} \cup {Removal(fd) : fd \in Fds \cup {NoFd}}

\* What a loop thread is in: nothing, Register before its callback, HandleClose
\* after its suicide callback, or the rest of HandleEvent after a HandleRead.
Idle == [step |-> "idle"]
Calls == {[step |-> s, conn |-> c] : s \in {"registering", "closing", "closingInRead", "afterRead"},
                                     c \in Conns}

TypeOK == /\ loopers_ \in Pools
          /\ count \in 0..N
          /\ next_ \in Nat /\ (loopers_ # <<>> => next_ < Len(loopers_))
          /\ loop_ \in [Made -> Loops]
          /\ conn_sockfd_ \in [Made -> Fds \cup {NoFd}]
          /\ connection_map_ \in [Fds \cup {NoFd} -> Made \cup {NoConn}]
          /\ epoll \in [Loops -> SUBSET Made]
          /\ writing \subseteq Made
          /\ tasks \in [Loops -> [Loops -> Seq(TaskSet)]]
          /\ doing \in [Loops -> {Idle} \cup Calls]
          /\ established \subseteq Made
          /\ closed \subseteq Made

Init == /\ loopers_ \in Pools
        /\ count = 0
        /\ next_ = 0
        /\ loop_ = <<>>
        /\ conn_sockfd_ = <<>>
        /\ connection_map_ = [fd \in Fds \cup {NoFd} |-> NoConn]
        /\ epoll = [l \in Loops |-> {}]
        /\ writing = {}
        /\ tasks = [l \in Loops |-> [m \in Loops |-> <<>>]]
        /\ doing = [l \in Loops |-> Idle]
        /\ established = {}
        /\ closed = {}

-----------------------------------------------------------------------------
(* Who holds a connection.                                                 *)

InMap(c) == \E fd \in DOMAIN connection_map_ : connection_map_[fd] = c

InTask(c) == \E l \in Loops, m \in Loops : Contains(tasks[l][m], Registration(c))

\* The task being run holds its closure; HandleClose holds shared_from_this()
\* until it returns.  The callbacks of an EventBase hold nothing.
InCall(c) == \E l \in Loops : /\ doing[l] # Idle
                              /\ doing[l].conn = c
                              /\ doing[l].step # "afterRead"

Alive(c) == c \in Made /\ (InMap(c) \/ InTask(c) \/ InCall(c))

OpenFds == {conn_sockfd_[c] : c \in {x \in Made : Alive(x)}} \ {NoFd}

IsIdle(l) == doing[l] = Idle

Enter(l, step, c) == doing' = [doing EXCEPT ![l] = [step |-> step, conn |-> c]]
Leave(l) == doing' = [doing EXCEPT ![l] = Idle]

-----------------------------------------------------------------------------
(* The main loop.                                                          *)

TakenLoop == IF loopers_ = <<>> THEN Main ELSE loopers_[next_ + 1]

\* Mutant: the index is not taken modulo the number of threads.
NextIndexUnwrapped == next_ + 1

NextIndex == (next_ + 1) % Len(loopers_)

TakeOutLoop == next_' = IF loopers_ = <<>> THEN next_ ELSE NextIndex

\* AddEventBase: epoll_ctl refuses the descriptor -1, and others when there is no
\* room for them; the connection goes on all the same.
Register(l, c, fd) ==
    /\ \/ UNCHANGED epoll
       \/ fd # NoFd /\ epoll' = [epoll EXCEPT ![l] = @ \cup {c}]
    /\ Enter(l, "registering", c)

\* Mutant: the main thread registers the connection itself.
HandOverInMain(l, c, fd) ==
    /\ epoll' = IF fd = NoFd THEN epoll ELSE [epoll EXCEPT ![l] = @ \cup {c}]
    /\ Enter(Main, "registering", c)
    /\ UNCHANGED tasks

\* Mutant: a registration for a loop that is busy gets lost.
HandOverIfIdle(l, c, fd) ==
    \/ l = Main /\ Register(l, c, fd) /\ UNCHANGED tasks
    \/ /\ l # Main
       /\ tasks' = IF IsIdle(l) THEN [tasks EXCEPT ![l][Main] = Append(@, Registration(c))]
                   ELSE tasks
       /\ UNCHANGED <<epoll, doing>>

\* io_loop->RunTask(Register): at once when the pool is empty, else a task.
HandOver(l, c, fd) ==
    \/ l = Main /\ Register(l, c, fd) /\ UNCHANGED tasks
    \/ /\ l # Main
       /\ tasks' = [tasks EXCEPT ![l][Main] = Append(@, Registration(c))]
       /\ UNCHANGED <<epoll, doing>>

\* HandelNewConnection: accept4 gives a free descriptor or fails with an errno
\* that Accept tolerates, and a Connection is made either way.
HandelNewConnection(fd) ==
    LET c == count + 1
        l == TakenLoop
    IN  /\ IsIdle(Main)
        /\ count < N
        /\ fd \notin OpenFds
        /\ count' = c
        /\ TakeOutLoop
        /\ loop_' = Append(loop_, l)
        /\ conn_sockfd_' = Append(conn_sockfd_, fd)
        /\ connection_map_' = [connection_map_ EXCEPT ![fd] = c]
        /\ HandOver(l, c, fd)
        /\ UNCHANGED <<writing, established, closed>>

\* RemoveConnection, posted to the main loop by the loop from.
RemoveConnection(from) ==
    /\ IsIdle(Main)
    /\ tasks[Main][from] # <<>>
    /\ tasks' = [tasks EXCEPT ![Main][from] = Tail(@)]
    /\ connection_map_' = [connection_map_ EXCEPT ![Head(tasks[Main][from]).fd] = NoConn]
    /\ UNCHANGED <<count, next_, loop_, conn_sockfd_, epoll, writing, doing,
                   established, closed>>

-----------------------------------------------------------------------------
(* The loop of a connection.                                               *)

\* Register runs as a task of the I/O loop.
RunRegister(l) ==
    /\ l # Main
    /\ IsIdle(l)
    /\ tasks[l][Main] # <<>>
    /\ LET c == Head(tasks[l][Main]).conn IN Register(l, c, conn_sockfd_[c])
    /\ tasks' = [tasks EXCEPT ![l][Main] = Tail(@)]
    /\ UNCHANGED <<count, next_, loop_, conn_sockfd_, connection_map_, writing,
                   established, closed>>

\* The callbacks that may Send leave output pending or not.
MaySend(c) == writing' = writing \/ writing' = writing \cup {c}

EstablishedCallback(l) ==
    /\ doing[l] # Idle
    /\ doing[l].step = "registering"
    /\ established' = established \cup {doing[l].conn}
    /\ MaySend(doing[l].conn)
    /\ Leave(l)
    /\ UNCHANGED <<count, next_, loop_, conn_sockfd_, connection_map_, epoll, tasks, closed>>

HandleReadMessage(l, c) ==
    /\ IsIdle(l)
    /\ c \in epoll[l]
    /\ MaySend(c)
    /\ UNCHANGED <<count, next_, loop_, conn_sockfd_, connection_map_, epoll,
                   tasks, doing, established, closed>>

\* HandleWrite writes all of the output, then reports the reply as complete
\* (a callback that may Send again), or leaves some of it pending.
HandleWrite(l, c) ==
    /\ IsIdle(l)
    /\ c \in epoll[l] \cap writing
    /\ writing' = writing \ {c}
    /\ UNCHANGED <<count, next_, loop_, conn_sockfd_, connection_map_, epoll,
                   tasks, doing, established, closed>>

\* Mutant: the close posts its removal twice.
PostRemovalTwice(l, c) ==
    /\ tasks' = [tasks EXCEPT ![Main][l] = @ \o <<Removal(conn_sockfd_[c]), Removal(conn_sockfd_[c])>>]
    /\ UNCHANGED connection_map_

\* Mutant: RunTask in place of AddTask, which removes at once in the main thread.
PostRemovalAtOnce(l, c) ==
    \/ /\ l = Main
       /\ connection_map_' = [connection_map_ EXCEPT ![conn_sockfd_[c]] = NoConn]
       /\ UNCHANGED tasks
    \/ /\ l # Main
       /\ tasks' = [tasks EXCEPT ![Main][l] = Append(@, Removal(conn_sockfd_[c]))]
       /\ UNCHANGED connection_map_

\* suicide_cb_, which is RemoveConnection4CloseCB: AddTask on the main loop.
PostRemoval(l, c) ==
    /\ tasks' = [tasks EXCEPT ![Main][l] = Append(@, Removal(conn_sockfd_[c]))]
    /\ UNCHANGED connection_map_

\* Mutant: the event base stays registered.
CloseKeepsEventBase(l, c) ==
    /\ closed' = closed \cup {c}
    /\ PostRemoval(l, c)
    /\ UNCHANGED epoll

\* Mutant: HandleClose forgets the suicide callback.
CloseWithoutSuicide(l, c) ==
    /\ epoll' = [epoll EXCEPT ![l] = @ \ {c}]
    /\ closed' = closed \cup {c}
    /\ UNCHANGED <<connection_map_, tasks>>

\* HandleClose up to the return of its suicide callback: DelEventBase, the close
\* callback, the removal posted.
Close(l, c) ==
    /\ epoll' = [epoll EXCEPT ![l] = @ \ {c}]
    /\ closed' = closed \cup {c}
    /\ PostRemoval(l, c)

\* EPOLLHUP, EPOLLRDHUP and EPOLLERR close and end HandleEvent.
HandleClose(l, c) ==
    /\ IsIdle(l)
    /\ c \in epoll[l]
    /\ Close(l, c)
    /\ Enter(l, "closing", c)
    /\ UNCHANGED <<count, next_, loop_, conn_sockfd_, writing, established>>

\* A read that returns nothing closes too, inside read_callback_: HandleEvent goes
\* on when EPOLLOUT is active as well.
HandleReadNothing(l, c) ==
    /\ IsIdle(l)
    /\ c \in epoll[l]
    /\ Close(l, c)
    /\ \/ Enter(l, "closing", c)
       \/ c \in writing /\ Enter(l, "closingInRead", c)
    /\ UNCHANGED <<count, next_, loop_, conn_sockfd_, writing, established>>

\* HandleClose returns and lets go of the connection.
HandleCloseReturn(l) ==
    /\ doing[l] # Idle
    /\ \/ doing[l].step = "closing" /\ Leave(l)
       \/ doing[l].step = "closingInRead" /\ Enter(l, "afterRead", doing[l].conn)
    /\ UNCHANGED <<count, next_, loop_, conn_sockfd_, connection_map_, epoll,
                   writing, tasks, established, closed>>

\* The write_callback_ that HandleEvent calls after a read_callback_ that closed.
WriteAfterRead(l) ==
    /\ doing[l] # Idle
    /\ doing[l].step = "afterRead"
    /\ \/ writing' = writing \ {doing[l].conn}
       \/ UNCHANGED writing
    /\ Leave(l)
    /\ UNCHANGED <<count, next_, loop_, conn_sockfd_, connection_map_, epoll,
                   tasks, established, closed>>

-----------------------------------------------------------------------------

\* What the thread of l does by itself once it is scheduled.
Progress(l) == \/ RunRegister(l)
               \/ EstablishedCallback(l)
               \/ HandleCloseReturn(l)
               \/ WriteAfterRead(l)

Accept == \E fd \in Fds \cup {NoFd} : HandelNewConnection(fd)

RunRemoval == \E l \in Loops : RemoveConnection(l)

HandleEvent == \E l \in Loops, c \in Made : \/ HandleReadMessage(l, c)
                                           \/ HandleWrite(l, c)
                                           \/ HandleClose(l, c)
                                           \/ HandleReadNothing(l, c)

Next == /\ UNCHANGED loopers_
        /\ Accept \/ RunRemoval \/ HandleEvent \/ \E l \in Loops : Progress(l)

Spec == Init /\ [][Next]_vars

\* Every loop thread gets to run, and HandleTask drains the queue of each poster
\* after every round of events (Looper.tla: PostedTasksRun).
Fairness == /\ \A l \in Loops : WF_vars(Progress(l) /\ UNCHANGED loopers_)
            /\ \A l \in Loops : WF_vars(RemoveConnection(l) /\ UNCHANGED loopers_)

FairSpec == Spec /\ Fairness

-----------------------------------------------------------------------------
(* Properties.                                                             *)

\* A removal names a descriptor, not a connection, and it is run later by another
\* thread: when it runs, the descriptor still names the very connection that was
\* closed, and no second removal for the same entry is under way, so that no other
\* connection that got the same descriptor is ever thrown out
\* (server.cpp:66-76).
RemovalIsOwn ==
    \A l \in Loops : \A i, j \in DOMAIN tasks[Main][l] :
        LET fd == tasks[Main][l][i].fd IN
        /\ connection_map_[fd] \in closed
        /\ loop_[connection_map_[fd]] = l
        /\ tasks[Main][l][j].fd = fd => i = j

\* An event is only ever dispatched to a connection that lives: what is registered
\* with a loop is alive, in the map under its own descriptor and not closed, and no
\* two live connections share a descriptor (epoller.cpp:29-99, server.cpp:59).
RegisteredIsAlive ==
    /\ \A l \in Loops : \A c \in epoll[l] :
          /\ Alive(c)
          /\ c \notin closed
          /\ connection_map_[conn_sockfd_[c]] = c
    /\ \A c, d \in Made : /\ Alive(c) /\ Alive(d)
                          /\ conn_sockfd_[c] = conn_sockfd_[d]
                          /\ conn_sockfd_[c] # NoFd
                          => c = d

\* A descriptor names one connection, in the map, in a removal and in an epoll set.
DescriptorsNameTheirOwn == RemovalIsOwn /\ RegisteredIsAlive

\* The user sees the callbacks of a connection in order and from one thread: no
\* close before the established callback has run, and no thread but that of its
\* loop is ever in a callback of a connection, hand-over included
\* (server.cpp:61, connection.cpp:28-33).
CallbacksInOrder ==
    /\ closed \subseteq established
    /\ \A l \in Loops : doing[l] # Idle => loop_[doing[l].conn] = l
    /\ \A l \in Loops : \A c \in epoll[l] :
          c \notin established => doing[l] = [step |-> "registering", conn |-> c]

\* Every connection that is accepted is registered and announced to the user, and
\* every one that is closed is destroyed, so that its descriptor is free again
\* (RAII): nothing keeps a closed connection (server.cpp:38-76).
ConnectionsComplete ==
    \A c \in Conns : /\ (c \in Made) ~> (c \in established)
                     /\ (c \in closed) ~> (c \in closed /\ ~Alive(c))

\* A handler of a connection runs only while the connection lives.
HandlerOnLiveConnection ==
    \A l \in Loops : doing[l] # Idle => Alive(doing[l].conn)

\* With an empty pool one thread does it all: the removal it posts to itself waits
\* until HandleEvent is over, so that no handler ever outlives its connection
\* (server.cpp:66-70, looper.cpp:80-112).
AloneIsSafe == loopers_ = <<>> => HandlerOnLiveConnection
=============================================================================

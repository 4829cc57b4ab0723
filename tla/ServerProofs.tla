---------------------------- MODULE ServerProofs ----------------------------
(***************************************************************************)
(* The connections of a Server proved to keep their descriptors and the    *)
(* order of their callbacks, for any pool, any number of connections and   *)
(* any descriptors.                                                        *)
(*                                                                         *)
(* RemovalIsOwn is not inductive: that no other connection gets the        *)
(* descriptor named in a removal under way is because the map still holds  *)
(* the closed one, which keeps the descriptor open, and that a close finds *)
(* no such removal there already is because what is registered with a loop *)
(* is in the map and not closed.  QueuesHold, MapHolds and Placed say so.  *)
(***************************************************************************)
EXTENDS Server, SequenceTheorems, TLAPS

USE PoolAssumption, CountAssumption, FdAssumption, ConnAssumption

-----------------------------------------------------------------------------
(* The inductive invariant.                                                *)

\* What is posted to an I/O loop is the registration of a connection of its own that
\* has not been announced, each of them once; to the main loop, a removal.
QueuesHold ==
    /\ \A l \in IoLoops, m \in IoLoops : tasks[l][m] = <<>>
    /\ \A l \in IoLoops : \A i \in 1..Len(tasks[l][Main]) :
          \E c \in Made : /\ tasks[l][Main][i] = Registration(c)
                          /\ loop_[c] = l
                          /\ c \notin established
                          /\ doing[l] # [step |-> "registering", conn |-> c]
    /\ \A l \in IoLoops : \A i, j \in 1..Len(tasks[l][Main]) :
          tasks[l][Main][i] = tasks[l][Main][j] => i = j
    /\ \A l \in Loops : \A i \in 1..Len(tasks[Main][l]) :
          \E fd \in Fds : tasks[Main][l][i] = Removal(fd)

\* The map names a connection by its own descriptor, and holds all that are not closed.
MapHolds ==
    /\ \A fd \in Fds \cup {NoFd} :
          connection_map_[fd] # NoConn => conn_sockfd_[connection_map_[fd]] = fd
    /\ \A c \in Made : c \notin closed /\ conn_sockfd_[c] # NoFd =>
                          connection_map_[conn_sockfd_[c]] = c

\* A removal under way is the only one for its entry, and the entry is there.
RemovalsHold ==
    \A l \in Loops : \A i \in 1..Len(tasks[Main][l]) : \A fd \in Fds :
        tasks[Main][l][i] = Removal(fd) =>
            /\ connection_map_[fd] \in closed
            /\ loop_[connection_map_[fd]] = l
            /\ \A j \in 1..Len(tasks[Main][l]) : tasks[Main][l][j] = Removal(fd) => i = j

\* A connection is registered with its own loop, with a descriptor and not closed; a
\* loop is busy with its own connections only; and without a pool all are of Main.
Placed ==
    /\ \A l \in Loops : \A c \in epoll[l] :
          loop_[c] = l /\ conn_sockfd_[c] # NoFd /\ c \notin closed
    /\ \A l \in Loops : doing[l] # Idle => doing[l].conn \in Made
    /\ loopers_ = <<>> => \A c \in Made : loop_[c] = Main

\* No two live connections share a descriptor.
LiveApart == \A c, d \in Made : /\ Alive(c) /\ Alive(d)
                                /\ conn_sockfd_[c] = conn_sockfd_[d]
                                /\ conn_sockfd_[c] # NoFd
                                => c = d

\* Without a pool the map holds a connection until the handler that closed it is over.
AloneHeld ==
    loopers_ = <<>> /\ doing[Main] # Idle /\ doing[Main].step # "registering" =>
        connection_map_[conn_sockfd_[doing[Main].conn]] = doing[Main].conn

IInv == /\ TypeOK /\ QueuesHold /\ MapHolds /\ RemovalsHold /\ Placed /\ LiveApart
        /\ CallbacksInOrder /\ AloneHeld

-----------------------------------------------------------------------------
(* Lemmas on the model's operators.                                        *)

\* Tasks are what they are posted as.
LEMMA TaskFacts ==
    /\ \A c \in Conns : /\ Registration(c) \in TaskSet /\ Registration(c).conn = c
                        /\ \A d \in Conns : Registration(c) = Registration(d) => c = d
                        /\ \A fd \in Fds \cup {NoFd} : Registration(c) # Removal(fd)
    /\ \A fd \in Fds \cup {NoFd} :
          /\ Removal(fd) \in TaskSet /\ Removal(fd).fd = fd
          /\ \A gd \in Fds \cup {NoFd} : Removal(fd) = Removal(gd) => fd = gd
  BY DEF Registration, Removal, TaskSet

\* Calls are what they were entered as.
LEMMA CallFacts ==
    ASSUME NEW s \in {"registering", "closing", "closingInRead", "afterRead"}, NEW c \in Conns
    PROVE  /\ [step |-> s, conn |-> c] \in Calls
           /\ [step |-> s, conn |-> c] # Idle
           /\ [step |-> s, conn |-> c].step = s /\ [step |-> s, conn |-> c].conn = c
  BY DEF Calls, Idle

\* The types, in the form in which the proofs use them.
LEMMA TypeFacts ==
    ASSUME TypeOK
    PROVE  /\ count \in Nat /\ count <= N /\ Made \subseteq Conns
           /\ loop_ \in Seq(Loops) /\ Len(loop_) = count
           /\ conn_sockfd_ \in Seq(Fds \cup {NoFd}) /\ Len(conn_sockfd_) = count
           /\ loopers_ \in Seq(IoLoops)
           /\ \A l \in Loops, m \in Loops : /\ tasks[l][m] \in Seq(TaskSet)
                                            /\ Len(tasks[l][m]) \in Nat
           /\ \A l \in Loops : epoll[l] \subseteq Made
  <1>1. count \in Nat /\ count <= N /\ Made \subseteq Conns
    BY DEF TypeOK, Made, Conns
  <1>2. loop_ \in Seq(Loops) /\ Len(loop_) = count
    <2>1. loop_ \in [1..count -> Loops]
      BY DEF TypeOK, Made
    <2>2. loop_ \in Seq(Loops)
      BY <1>1, <2>1, SeqDef
    <2>. QED  BY <1>1, <2>1, <2>2, LenProperties
  <1>3. conn_sockfd_ \in Seq(Fds \cup {NoFd}) /\ Len(conn_sockfd_) = count
    <2>1. conn_sockfd_ \in [1..count -> Fds \cup {NoFd}]
      BY DEF TypeOK, Made
    <2>2. conn_sockfd_ \in Seq(Fds \cup {NoFd})
      BY <1>1, <2>1, SeqDef
    <2>. QED  BY <1>1, <2>1, <2>2, LenProperties
  <1>4. loopers_ \in Seq(IoLoops)
    BY DEF TypeOK
  <1>5. ASSUME NEW l \in Loops, NEW m \in Loops
        PROVE  tasks[l][m] \in Seq(TaskSet) /\ Len(tasks[l][m]) \in Nat
    <2>1. tasks[l][m] \in Seq(TaskSet)
      BY DEF TypeOK
    <2>. QED  BY <2>1, LenProperties
  <1>6. \A l \in Loops : epoll[l] \subseteq Made
    BY DEF TypeOK
  <1>. QED  BY <1>1, <1>2, <1>3, <1>4, <1>5, <1>6

\* Who holds a connection that is alive.
LEMMA AliveMeans ==
    ASSUME NEW c
    PROVE  Alive(c) <=>
             /\ c \in Made
             /\ \/ \E fd \in DOMAIN connection_map_ : connection_map_[fd] = c
                \/ \E l \in Loops, m \in Loops : \E i \in 1..Len(tasks[l][m]) :
                      tasks[l][m][i] = Registration(c)
                \/ \E l \in Loops : /\ doing[l] # Idle
                                    /\ doing[l].conn = c /\ doing[l].step # "afterRead"
  BY DEF Alive, InMap, InTask, InCall, Contains

\* As long as no connection comes to life, the living stay apart.
LEMMA ApartKept ==
    ASSUME LiveApart, UNCHANGED <<count, conn_sockfd_>>,
           \A c \in Made : Alive(c)' => Alive(c)
    PROVE  LiveApart'
  BY DEF LiveApart, Made

\* What a loop that is busy is in.
LEMMA BusyFacts ==
    ASSUME TypeOK, NEW l \in Loops, doing[l] # Idle
    PROVE  /\ doing[l] = [step |-> doing[l].step, conn |-> doing[l].conn]
           /\ doing[l].conn \in Conns
  <1>1. doing[l] \in Calls
    BY DEF TypeOK
  <1>. QED  BY <1>1 DEF Calls

\* The same of the end of a call.
LEMMA LeaveFacts ==
    ASSUME TypeOK, NEW l \in Loops, Leave(l)
    PROVE  /\ doing' \in [Loops -> {Idle} \cup Calls]
           /\ doing'[l] = Idle
           /\ \A k \in Loops \ {l} : doing'[k] = doing[k]
  BY DEF TypeOK, Leave

-----------------------------------------------------------------------------
(* The steps.                                                              *)

\* The reads and writes that do not close, and the ends of the handlers that do: they
\* change what output is pending and what a loop is busy with.
LEMMA HandlersKeep ==
    ASSUME IInv, UNCHANGED <<loopers_, count, next_, loop_, conn_sockfd_, connection_map_, epoll,
                             tasks, established, closed>>,
           writing' \subseteq Made,
           \/ UNCHANGED doing
           \/ \E l \in Loops : /\ doing[l] # Idle /\ doing[l].step # "registering"
                               /\ Leave(l) \/ Enter(l, "afterRead", doing[l].conn)
    PROVE  IInv'
  <1>0. /\ TypeOK /\ QueuesHold /\ MapHolds /\ RemovalsHold /\ Placed /\ LiveApart
        /\ CallbacksInOrder /\ AloneHeld
    BY DEF IInv
  <1>1. ASSUME NEW k \in Loops
        PROVE  \/ doing'[k] = doing[k]
               \/ /\ doing[k] # Idle /\ doing[k].step # "registering"
                  /\ \/ doing'[k] = Idle
                     \/ doing'[k] = [step |-> "afterRead", conn |-> doing[k].conn]
    <2>1. CASE UNCHANGED doing
      BY <2>1
    <2>2. ASSUME NEW l \in Loops, doing[l] # Idle, doing[l].step # "registering", Leave(l)
          PROVE  \/ doing'[k] = doing[k]
                 \/ doing[k] # Idle /\ doing[k].step # "registering" /\ doing'[k] = Idle
      BY <1>0, <2>2 DEF TypeOK, Leave
    <2>3. ASSUME NEW l \in Loops, doing[l] # Idle, doing[l].step # "registering",
                 Enter(l, "afterRead", doing[l].conn)
          PROVE  \/ doing'[k] = doing[k]
                 \/ /\ doing[k] # Idle /\ doing[k].step # "registering"
                    /\ doing'[k] = [step |-> "afterRead", conn |-> doing[k].conn]
      BY <1>0, <2>3 DEF TypeOK, Enter
    <2>. QED  BY <2>1, <2>2, <2>3
  <1>2. ASSUME NEW k \in Loops, doing[k] # Idle
        PROVE  /\ doing[k].conn \in Conns
               /\ [step |-> "afterRead", conn |-> doing[k].conn] \in Calls
               /\ [step |-> "afterRead", conn |-> doing[k].conn] # Idle
               /\ [step |-> "afterRead", conn |-> doing[k].conn].step = "afterRead"
               /\ [step |-> "afterRead", conn |-> doing[k].conn].conn = doing[k].conn
    <2>1. doing[k].conn \in Conns
      BY <1>0, <1>2, TypeFacts DEF Placed
    <2>. QED  BY <2>1, CallFacts
  <1>3. Main \in Loops
    BY DEF Loops
  <1>4. ASSUME NEW c \in Made
        PROVE  /\ [step |-> "registering", conn |-> c] # Idle
               /\ [step |-> "registering", conn |-> c].step = "registering"
    <2>1. c \in Conns
      BY <1>0, TypeFacts
    <2>. QED  BY <2>1, CallFacts
  <1>5. TypeOK'
    <2>1. doing' \in [Loops -> {Idle} \cup Calls]
      <3>1. CASE UNCHANGED doing
        BY <1>0, <3>1 DEF TypeOK
      <3>2. ASSUME NEW l \in Loops, Leave(l)
            PROVE  doing' \in [Loops -> {Idle} \cup Calls]
        BY <1>0, <3>2 DEF TypeOK, Leave
      <3>3. ASSUME NEW l \in Loops, doing[l] # Idle, Enter(l, "afterRead", doing[l].conn)
            PROVE  doing' \in [Loops -> {Idle} \cup Calls]
        BY <1>0, <1>2, <3>3 DEF TypeOK, Enter
      <3>. QED  BY <3>1, <3>2, <3>3
    <2>. QED  BY <1>0, <2>1 DEF TypeOK, Made
  <1>6. QueuesHold'
    <2>1. ASSUME NEW l \in Loops, NEW c \in Made, doing[l] # [step |-> "registering", conn |-> c]
          PROVE  doing'[l] # [step |-> "registering", conn |-> c]
      <3>1. CASE doing'[l] = doing[l]
        BY <2>1, <3>1
      <3>2. CASE doing'[l] = Idle
        BY <1>4, <3>2
      <3>3. CASE doing[l] # Idle /\ doing'[l] = [step |-> "afterRead", conn |-> doing[l].conn]
        <4>1. doing'[l].step = "afterRead"
          BY <1>2, <3>3
        <4>. QED  BY <1>4, <4>1
      <3>. QED  BY <1>1, <3>1, <3>2, <3>3
    <2>2. Made' = Made /\ IoLoops \subseteq Loops
      BY DEF Made, Loops
    <2>3. ASSUME NEW l \in IoLoops, NEW i \in 1..Len(tasks[l][Main])
          PROVE  \E c \in Made : /\ tasks[l][Main][i] = Registration(c)
                                 /\ loop_[c] = l
                                 /\ c \notin established
                                 /\ doing'[l] # [step |-> "registering", conn |-> c]
      BY <1>0, <2>1, <2>2 DEF QueuesHold
    <2>. QED  BY ONLY <1>0, <2>2, <2>3, UNCHANGED <<loop_, established, tasks>> DEF QueuesHold
  <1>7. MapHolds' /\ RemovalsHold'
    BY <1>0 DEF MapHolds, RemovalsHold, Made
  <1>8. Placed'
    <2>1. ASSUME NEW l \in Loops, doing'[l] # Idle
          PROVE  doing'[l].conn \in Made
      <3>1. doing[l] # Idle /\ doing'[l].conn = doing[l].conn
        BY <1>1, <1>2, <2>1
      <3>. QED  BY <1>0, <3>1 DEF Placed
    <2>. QED  BY <1>0, <2>1 DEF Placed, Made
  <1>9. LiveApart'
    <2>1. ASSUME NEW l \in Loops, doing'[l] # Idle, doing'[l].step # "afterRead"
          PROVE  doing[l] = doing'[l]
      BY <1>1, <1>2, <2>1
    <2>2. ASSUME NEW c \in Made, Alive(c)'
          PROVE  Alive(c)
      BY <2>1, <2>2 DEF Alive, InMap, InTask, InCall, Made
    <2>. QED  BY <1>0, <2>2, ApartKept
  <1>10. CallbacksInOrder'
    <2>1. ASSUME NEW l \in Loops, doing'[l] # Idle
          PROVE  loop_[doing'[l].conn] = l
      <3>1. doing[l] # Idle /\ doing'[l].conn = doing[l].conn
        BY <1>1, <1>2, <2>1
      <3>. QED  BY <1>0, <3>1 DEF CallbacksInOrder
    <2>2. ASSUME NEW l \in Loops, NEW c \in epoll[l], c \notin established
          PROVE  doing'[l] = [step |-> "registering", conn |-> c]
      <3>1. c \in Made /\ doing[l] = [step |-> "registering", conn |-> c]
        BY <1>0, <2>2, TypeFacts DEF CallbacksInOrder
      <3>2. doing'[l] = doing[l]
        BY <1>1, <1>4, <3>1
      <3>. QED  BY <3>1, <3>2
    <2>. QED  BY <1>0, <2>1, <2>2 DEF CallbacksInOrder
  <1>11. AloneHeld'
    BY <1>0, <1>1, <1>2, <1>3 DEF AloneHeld
  <1>. QED  BY <1>5, <1>6, <1>7, <1>8, <1>9, <1>10, <1>11 DEF IInv

\* The established callback of a connection that has just been registered.
LEMMA EstablishedKeeps ==
    ASSUME IInv, UNCHANGED loopers_, NEW l \in Loops, EstablishedCallback(l)
    PROVE  IInv'
  <1>0. /\ TypeOK /\ QueuesHold /\ MapHolds /\ RemovalsHold /\ Placed /\ LiveApart
        /\ CallbacksInOrder /\ AloneHeld
    BY DEF IInv
  <1> DEFINE c == doing[l].conn
  <1>1. /\ UNCHANGED <<loopers_, count, next_, loop_, conn_sockfd_, connection_map_, epoll, tasks, closed>>
        /\ doing[l] # Idle /\ doing[l].step = "registering" /\ Leave(l)
        /\ established' = established \cup {c}
        /\ writing' = writing \/ writing' = writing \cup {c}
    BY DEF EstablishedCallback, MaySend
  <1>2. /\ c \in Made /\ loop_[c] = l /\ doing[l] = [step |-> "registering", conn |-> c]
        /\ Made' = Made /\ IoLoops \subseteq Loops
    BY <1>0, <1>1, BusyFacts DEF Placed, CallbacksInOrder, Made, Loops
  <1>3. /\ doing' \in [Loops -> {Idle} \cup Calls] /\ doing'[l] = Idle
        /\ \A k \in Loops \ {l} : doing'[k] = doing[k]
    BY <1>0, <1>1, LeaveFacts
  <1>4. TypeOK'
    BY <1>0, <1>1, <1>2, <1>3 DEF TypeOK
  <1>5. QueuesHold'
    <2>1. ASSUME NEW k \in IoLoops, NEW i \in 1..Len(tasks[k][Main])
          PROVE  \E d \in Made : /\ tasks[k][Main][i] = Registration(d)
                                 /\ loop_[d] = k
                                 /\ d \notin established'
                                 /\ doing'[k] # [step |-> "registering", conn |-> d]
      <3>1. PICK d \in Made : /\ tasks[k][Main][i] = Registration(d)
                              /\ loop_[d] = k
                              /\ d \notin established
                              /\ doing[k] # [step |-> "registering", conn |-> d]
        BY <1>0 DEF QueuesHold
      <3>2. d # c
        BY <1>2, <3>1
      <3>3. d \in Conns /\ [step |-> "registering", conn |-> d] # Idle
        BY <1>0, TypeFacts, CallFacts
      <3>4. doing'[k] # [step |-> "registering", conn |-> d]
        BY <1>2, <1>3, <3>1, <3>3
      <3>. QED  BY <1>1, <3>1, <3>2, <3>4
    <2>. QED  BY ONLY <1>0, <1>1, <1>2, <2>1 DEF QueuesHold
  <1>6. MapHolds' /\ RemovalsHold'
    BY <1>0, <1>1, <1>2 DEF MapHolds, RemovalsHold
  <1>7. Placed'
    BY <1>0, <1>1, <1>2, <1>3 DEF Placed
  <1>8. LiveApart'
    <2>1. ASSUME NEW d \in Made, Alive(d)'
          PROVE  Alive(d)
      BY <1>1, <1>2, <1>3, <2>1 DEF Alive, InMap, InTask, InCall
    <2>. QED  BY <1>0, <1>1, <2>1, ApartKept
  <1>9. CallbacksInOrder'
    <2>1. ASSUME NEW k \in Loops, NEW d \in epoll[k], d \notin established'
          PROVE  doing'[k] = [step |-> "registering", conn |-> d]
      <3>1. doing[k] = [step |-> "registering", conn |-> d] /\ d # c
        BY <1>0, <1>1, <2>1 DEF CallbacksInOrder
      <3>. QED  BY <1>2, <1>3, <3>1
    <2>. QED  BY <1>0, <1>1, <1>3, <2>1 DEF CallbacksInOrder
  <1>10. AloneHeld'
    BY <1>0, <1>1, <1>3 DEF AloneHeld, Loops
  <1>. QED  BY <1>4, <1>5, <1>6, <1>7, <1>8, <1>9, <1>10 DEF IInv

\* A close: the event base goes, the close callback runs and the removal is posted.
LEMMA CloseKeeps ==
    ASSUME IInv, UNCHANGED <<loopers_, count, next_, loop_, conn_sockfd_, writing, established>>,
           NEW l \in Loops, NEW c \in epoll[l], NEW s \in {"closing", "closingInRead"},
           IsIdle(l), Close(l, c), Enter(l, s, c)
    PROVE  IInv'
  <1>0. /\ TypeOK /\ QueuesHold /\ MapHolds /\ RemovalsHold /\ Placed /\ LiveApart
        /\ CallbacksInOrder /\ AloneHeld
    BY DEF IInv
  <1> DEFINE fd == conn_sockfd_[c]
  <1>1. /\ epoll' = [epoll EXCEPT ![l] = @ \ {c}] /\ closed' = closed \cup {c}
        /\ tasks' = [tasks EXCEPT ![Main][l] = Append(@, Removal(fd))]
        /\ UNCHANGED connection_map_ /\ doing[l] = Idle
    BY DEF Close, PostRemoval, IsIdle
  <1>2. /\ c \in Made /\ c \in Conns /\ loop_[c] = l /\ c \notin closed
        /\ fd \in Fds /\ connection_map_[fd] = c
    <2>1. c \in Made /\ c \in Conns /\ loop_[c] = l /\ c \notin closed /\ fd # NoFd
      BY <1>0, TypeFacts DEF Placed
    <2>2. fd \in Fds
      BY <1>0, <2>1 DEF TypeOK
    <2>. QED  BY <1>0, <2>1, <2>2 DEF MapHolds
  <1>3. c \in established
    <2>1. [step |-> "registering", conn |-> c] # Idle
      BY <1>2, CallFacts
    <2>. QED  BY <1>0, <1>1, <2>1 DEF CallbacksInOrder
  <1>4. /\ doing' \in [Loops -> {Idle} \cup Calls]
        /\ doing'[l] = [step |-> s, conn |-> c] /\ doing'[l] # Idle
        /\ doing'[l].step = s /\ doing'[l].conn = c
        /\ \A k \in Loops \ {l} : doing'[k] = doing[k]
    <2>1. s \in {"registering", "closing", "closingInRead", "afterRead"}
      OBVIOUS
    <2>2. /\ doing \in [Loops -> {Idle} \cup Calls]
          /\ doing' = [doing EXCEPT ![l] = [step |-> s, conn |-> c]]
      BY <1>0 DEF TypeOK, Enter
    <2>3. /\ [step |-> s, conn |-> c] \in Calls /\ [step |-> s, conn |-> c] # Idle
          /\ [step |-> s, conn |-> c].step = s /\ [step |-> s, conn |-> c].conn = c
      BY <1>2, <2>1, CallFacts
    <2>. QED  BY <2>2, <2>3
  <1>5. /\ Made' = Made /\ IoLoops \subseteq Loops /\ Main \in Loops /\ Main \notin IoLoops
        /\ Removal(fd) \in TaskSet
    BY <1>2, TaskFacts, PoolAssumption DEF Made, Loops
  <1>6. /\ tasks \in [Loops -> [Loops -> Seq(TaskSet)]]
        /\ tasks' \in [Loops -> [Loops -> Seq(TaskSet)]]
        /\ \A k \in Loops, m \in Loops : k # Main \/ m # l => tasks'[k][m] = tasks[k][m]
    <2>1. tasks \in [Loops -> [Loops -> Seq(TaskSet)]]
      BY <1>0 DEF TypeOK
    <2>2. Append(tasks[Main][l], Removal(fd)) \in Seq(TaskSet)
      BY <1>5, <2>1, AppendProperties
    <2>. QED  BY <1>1, <1>5, <2>1, <2>2
  <1>7. PICK n \in Nat : n = Len(tasks[Main][l])
    BY <1>0, <1>5, TypeFacts
  <1>8. /\ Len(tasks'[Main][l]) = n + 1 /\ tasks'[Main][l][n + 1] = Removal(fd)
        /\ \A i \in 1..n : tasks'[Main][l][i] = tasks[Main][l][i]
    <2>1. tasks'[Main][l] = Append(tasks[Main][l], Removal(fd)) /\ tasks[Main][l] \in Seq(TaskSet)
      BY <1>1, <1>5, <1>6
    <2>. QED  BY <1>5, <1>7, <2>1, AppendProperties
  <1>9. TypeOK'
    <2>1. epoll' \in [Loops -> SUBSET Made] /\ closed' \subseteq Made
      BY <1>0, <1>1, <1>2 DEF TypeOK
    <2>. QED  BY <1>0, <1>1, <1>4, <1>5, <1>6, <2>1 DEF TypeOK
  <1>10. QueuesHold'
    <2>1. ASSUME NEW k \in IoLoops, NEW m \in IoLoops PROVE tasks'[k][m] = <<>>
      <3>1. tasks[k][m] = <<>>
        BY <1>0 DEF QueuesHold
      <3>2. k \in Loops /\ m \in Loops /\ k # Main
        BY <1>5
      <3>. QED  BY <1>6, <3>1, <3>2
    <2>2. ASSUME NEW k \in IoLoops PROVE tasks'[k][Main] = tasks[k][Main]
      BY <1>5, <1>6
    <2>3. ASSUME NEW k \in IoLoops, NEW i \in 1..Len(tasks[k][Main])
          PROVE  \E d \in Made : /\ tasks[k][Main][i] = Registration(d)
                                 /\ loop_[d] = k
                                 /\ d \notin established
                                 /\ doing'[k] # [step |-> "registering", conn |-> d]
      <3>1. PICK d \in Made : /\ tasks[k][Main][i] = Registration(d)
                              /\ loop_[d] = k
                              /\ d \notin established
                              /\ doing[k] # [step |-> "registering", conn |-> d]
        BY <1>0 DEF QueuesHold
      <3>2. d # c
        BY <1>3, <3>1
      <3>3. doing'[k] # [step |-> "registering", conn |-> d]
        BY <1>4, <1>5, <3>1, <3>2
      <3>. QED  BY <3>1, <3>3
    <2>4. ASSUME NEW k \in Loops, NEW i \in 1..Len(tasks'[Main][k])
          PROVE  \E gd \in Fds : tasks'[Main][k][i] = Removal(gd)
      <3>1. CASE k # l
        <4>1. tasks'[Main][k] = tasks[Main][k]
          BY <1>5, <1>6, <3>1
        <4>. QED  BY <1>0, <4>1 DEF QueuesHold
      <3>2. CASE k = l
        <4>1. CASE i = n + 1
          BY <1>2, <1>8, <3>2, <4>1
        <4>2. CASE i \in 1..n
          BY <1>0, <1>7, <1>8, <3>2, <4>2 DEF QueuesHold
        <4>. QED  BY <1>8, <3>2, <4>1, <4>2
      <3>. QED  BY <3>1, <3>2
    <2>5. ASSUME NEW k \in IoLoops, NEW i \in 1..Len(tasks'[k][Main])
          PROVE  \E d \in Made' : /\ tasks'[k][Main][i] = Registration(d)
                                  /\ loop_'[d] = k
                                  /\ d \notin established'
                                  /\ doing'[k] # [step |-> "registering", conn |-> d]
      <3>1. i \in 1..Len(tasks[k][Main]) /\ tasks'[k][Main][i] = tasks[k][Main][i]
        BY <2>2, <2>5
      <3>2. PICK d \in Made : /\ tasks[k][Main][i] = Registration(d)
                              /\ loop_[d] = k
                              /\ d \notin established
                              /\ doing'[k] # [step |-> "registering", conn |-> d]
        BY ONLY <2>3, <2>5, <3>1, Zenon
      <3>3. d \in Made' /\ loop_'[d] = k /\ d \notin established'
        BY <1>5, <3>2
      <3>. QED  BY <3>1, <3>2, <3>3, Zenon
    <2>6. ASSUME NEW k \in IoLoops, NEW i \in 1..Len(tasks'[k][Main]),
                 NEW j \in 1..Len(tasks'[k][Main]), tasks'[k][Main][i] = tasks'[k][Main][j]
          PROVE  i = j
      BY ONLY <1>0, <2>2, <2>6 DEF QueuesHold
    <2>. QED  BY ONLY <2>1, <2>4, <2>5, <2>6, Zenon DEF QueuesHold
  <1>11. MapHolds'
    BY <1>0, <1>1, <1>5 DEF MapHolds
  <1>12. RemovalsHold'
    <2>1. ASSUME NEW i \in 1..n PROVE tasks[Main][l][i] # Removal(fd)
      BY <1>0, <1>2, <1>7 DEF RemovalsHold
    <2>2. ASSUME NEW k \in Loops, NEW i \in 1..Len(tasks'[Main][k]), NEW gd \in Fds,
                 tasks'[Main][k][i] = Removal(gd)
          PROVE  /\ connection_map_[gd] \in closed'
                 /\ loop_[connection_map_[gd]] = k
                 /\ \A j \in 1..Len(tasks'[Main][k]) : tasks'[Main][k][j] = Removal(gd) => i = j
      <3>1. CASE k # l
        BY <1>0, <1>1, <1>5, <1>6, <2>2, <3>1 DEF RemovalsHold
      <3>2. CASE k = l /\ i = n + 1
        <4>1. gd = fd
          BY <1>2, <1>8, <2>2, <3>2, TaskFacts
        <4>. QED  BY <1>1, <1>2, <1>8, <2>1, <3>2, <4>1
      <3>3. CASE k = l /\ i \in 1..n
        <4>1. tasks[Main][l][i] = Removal(gd) /\ gd # fd
          BY <1>8, <2>1, <2>2, <3>3
        <4>2. Removal(gd) # Removal(fd)
          BY <1>2, <4>1, TaskFacts
        <4>3. /\ connection_map_[gd] \in closed
              /\ loop_[connection_map_[gd]] = l
              /\ \A j \in 1..n : tasks[Main][l][j] = Removal(gd) => i = j
          BY <1>0, <1>7, <3>3, <4>1 DEF RemovalsHold
        <4>. QED  BY <1>1, <1>8, <3>3, <4>2, <4>3
      <3>. QED  BY <1>8, <3>1, <3>2, <3>3
    <2>. QED  BY ONLY <1>1, <2>2, UNCHANGED loop_ DEF RemovalsHold
  <1>13. Placed'
    <2>1. ASSUME NEW k \in Loops, NEW d \in epoll'[k]
          PROVE  loop_[d] = k /\ conn_sockfd_[d] # NoFd /\ d \notin closed'
      BY <1>0, <1>1, <1>2 DEF TypeOK, Placed
    <2>. QED  BY <1>0, <1>1, <1>2, <1>4, <1>5, <2>1 DEF Placed
  <1>14. LiveApart'
    <2>1. ASSUME NEW d \in Made, NEW k \in Loops, NEW m \in Loops,
                 NEW i \in 1..Len(tasks'[k][m]), tasks'[k][m][i] = Registration(d)
          PROVE  i \in 1..Len(tasks[k][m]) /\ tasks[k][m][i] = Registration(d)
      <3>1. CASE k # Main \/ m # l
        BY <1>6, <2>1, <3>1
      <3>2. CASE k = Main /\ m = l
        <4>1. Registration(d) # Removal(fd)
          BY <1>0, <1>2, TypeFacts, TaskFacts
        <4>2. i # n + 1
          BY <1>8, <2>1, <3>2, <4>1
        <4>3. i \in 1..n
          BY <1>8, <3>2, <4>2
        <4>. QED  BY <1>7, <1>8, <2>1, <3>2, <4>3
      <3>. QED  BY <3>1, <3>2
    <2>2. ASSUME NEW d \in Made, Alive(d)'
          PROVE  Alive(d)
      <3>1. CASE d = c
        BY <1>0, <1>2, <3>1 DEF Alive, InMap, TypeOK
      <3>2. CASE d # c
        BY <1>1, <1>4, <2>1, <2>2, <3>2 DEF Alive, InMap, InTask, InCall, Contains
      <3>. QED  BY <3>1, <3>2
    <2>. QED  BY <1>0, <2>2, ApartKept
  <1>15. CallbacksInOrder'
    <2>1. ASSUME NEW k \in Loops, NEW d \in epoll'[k], d \notin established
          PROVE  doing'[k] = [step |-> "registering", conn |-> d]
      <3>1. d \in epoll[k]
        BY <1>0, <1>1 DEF TypeOK
      <3>2. doing[k] = [step |-> "registering", conn |-> d]
        BY <1>0, <2>1, <3>1 DEF CallbacksInOrder
      <3>3. d \in Conns /\ [step |-> "registering", conn |-> d] # Idle
        BY <1>0, <3>1, TypeFacts, CallFacts
      <3>. QED  BY <1>1, <1>4, <3>2, <3>3
    <2>2. ASSUME NEW k \in Loops, doing'[k] # Idle
          PROVE  loop_[doing'[k].conn] = k
      BY <1>0, <1>2, <1>4, <2>2 DEF CallbacksInOrder
    <2>. QED  BY <1>0, <1>1, <1>3, <2>1, <2>2 DEF CallbacksInOrder
  <1>16. AloneHeld'
    BY <1>0, <1>1, <1>2, <1>4, <1>5 DEF AloneHeld
  <1>. QED  BY <1>9, <1>10, <1>11, <1>12, <1>13, <1>14, <1>15, <1>16 DEF IInv

\* The removal that is run forgets a closed connection, and no other one.
LEMMA RemoveKeeps ==
    ASSUME IInv, UNCHANGED loopers_, NEW from \in Loops, RemoveConnection(from)
    PROVE  IInv'
  <1>0. /\ TypeOK /\ QueuesHold /\ MapHolds /\ RemovalsHold /\ Placed /\ LiveApart
        /\ CallbacksInOrder /\ AloneHeld
    BY DEF IInv
  <1> DEFINE t == tasks[Main][from]
  <1>1. /\ UNCHANGED <<loopers_, count, next_, loop_, conn_sockfd_, epoll, writing, doing, established, closed>>
        /\ t # <<>> /\ tasks' = [tasks EXCEPT ![Main][from] = Tail(t)]
        /\ connection_map_' = [connection_map_ EXCEPT ![Head(t).fd] = NoConn]
        /\ doing[Main] = Idle
    BY DEF RemoveConnection, IsIdle
  <1>2. /\ Made' = Made /\ IoLoops \subseteq Loops /\ Main \in Loops /\ Main \notin IoLoops
        /\ tasks \in [Loops -> [Loops -> Seq(TaskSet)]]
        /\ connection_map_ \in [Fds \cup {NoFd} -> Made \cup {NoConn}]
    BY <1>0, <1>1, PoolAssumption DEF Made, Loops, TypeOK
  <1>3. t \in Seq(TaskSet)
    BY <1>2
  <1>4. PICK n \in Nat : n = Len(t)
    BY <1>3, LenProperties
  <1>5. /\ n \in Nat \ {0} /\ Tail(t) \in Seq(TaskSet) /\ Len(Tail(t)) = n - 1
        /\ \A i \in 1..(n - 1) : Tail(t)[i] = t[i + 1]
        /\ Head(t) = t[1]
    BY <1>1, <1>3, <1>4, HeadTailProperties, EmptySeq
  <1>6. PICK fd \in Fds : t[1] = Removal(fd)
    BY <1>0, <1>4, <1>5 DEF QueuesHold
  <1>7. /\ connection_map_' = [connection_map_ EXCEPT ![fd] = NoConn]
        /\ connection_map_[fd] \in closed /\ loop_[connection_map_[fd]] = from
        /\ \A j \in 1..n : t[j] = Removal(fd) => j = 1
    <2>1. Head(t).fd = fd
      BY <1>5, <1>6, TaskFacts
    <2>2. /\ connection_map_[fd] \in closed /\ loop_[connection_map_[fd]] = from
          /\ \A j \in 1..n : t[j] = Removal(fd) => 1 = j
      BY <1>0, <1>2, <1>4, <1>5, <1>6 DEF RemovalsHold
    <2>. QED  BY <1>1, <2>1, <2>2
  <1>8. /\ tasks' \in [Loops -> [Loops -> Seq(TaskSet)]]
        /\ \A k \in Loops, m \in Loops : k # Main \/ m # from => tasks'[k][m] = tasks[k][m]
        /\ tasks'[Main][from] = Tail(t)
    BY <1>1, <1>2, <1>5
  <1>9. /\ Len(tasks'[Main][from]) = n - 1
        /\ \A i \in 1..(n - 1) : tasks'[Main][from][i] = t[i + 1] /\ i + 1 \in 1..n
    BY <1>5, <1>8
  <1>10. TypeOK'
    <2>1. connection_map_' \in [Fds \cup {NoFd} -> Made \cup {NoConn}]
      BY ONLY <1>2, <1>7
    <2>2. /\ loopers_' \in Pools /\ count' \in 0..N /\ next_' \in Nat
          /\ (loopers_' # <<>> => next_' < Len(loopers_'))
      BY <1>0, <1>1 DEF TypeOK
    <2>3. /\ loop_' \in [Made -> Loops] /\ conn_sockfd_' \in [Made -> Fds \cup {NoFd}]
          /\ epoll' \in [Loops -> SUBSET Made] /\ writing' \subseteq Made
          /\ doing' \in [Loops -> {Idle} \cup Calls]
          /\ established' \subseteq Made /\ closed' \subseteq Made
      BY <1>0, <1>1 DEF TypeOK
    <2>. QED  BY ONLY <1>2, <1>8, <2>1, <2>2, <2>3 DEF TypeOK
  <1>11. QueuesHold'
    <2>1. ASSUME NEW k \in IoLoops, NEW m \in Loops PROVE tasks'[k][m] = tasks[k][m]
      BY <1>2, <1>8
    <2>2. ASSUME NEW k \in Loops, NEW i \in 1..Len(tasks'[Main][k])
          PROVE  \E gd \in Fds : tasks'[Main][k][i] = Removal(gd)
      <3>1. CASE k # from
        <4>1. tasks'[Main][k] = tasks[Main][k]
          BY <1>2, <1>8, <3>1
        <4>. QED  BY <1>0, <4>1 DEF QueuesHold
      <3>2. CASE k = from
        <4>1. tasks'[Main][k][i] = t[i + 1] /\ i + 1 \in 1..Len(t)
          BY <1>4, <1>9, <3>2
        <4>. QED  BY <1>0, <4>1 DEF QueuesHold
      <3>. QED  BY <3>1, <3>2
    <2>3. /\ \A k \in IoLoops, m \in IoLoops : tasks'[k][m] = <<>>
          /\ \A k \in IoLoops : tasks'[k][Main] = tasks[k][Main]
      BY <1>0, <1>2, <2>1 DEF QueuesHold
    <2>4. ASSUME NEW k \in IoLoops, NEW i \in 1..Len(tasks'[k][Main])
          PROVE  \E d \in Made' : /\ tasks'[k][Main][i] = Registration(d)
                                  /\ loop_'[d] = k
                                  /\ d \notin established'
                                  /\ doing'[k] # [step |-> "registering", conn |-> d]
      <3>1. tasks'[k][Main] = tasks[k][Main] /\ i \in 1..Len(tasks[k][Main])
        BY <2>3
      <3>2. PICK d \in Made : /\ tasks[k][Main][i] = Registration(d)
                              /\ loop_[d] = k
                              /\ d \notin established
                              /\ doing[k] # [step |-> "registering", conn |-> d]
        BY <1>0, <3>1 DEF QueuesHold
      <3>. QED  BY <1>1, <1>2, <3>1, <3>2
    <2>5. ASSUME NEW k \in IoLoops
          PROVE  \A i, j \in 1..Len(tasks'[k][Main]) : tasks'[k][Main][i] = tasks'[k][Main][j] => i = j
      BY ONLY <1>0, <2>3, <2>5 DEF QueuesHold
    <2>. QED  BY ONLY <2>2, <2>3, <2>4, <2>5 DEF QueuesHold
  <1>12. MapHolds'
    <2>1. ASSUME NEW gd \in Fds \cup {NoFd}, connection_map_'[gd] # NoConn
          PROVE  conn_sockfd_[connection_map_'[gd]] = gd
      BY <1>0, <1>2, <1>7, <2>1 DEF MapHolds
    <2>2. ASSUME NEW c \in Made, c \notin closed, conn_sockfd_[c] # NoFd
          PROVE  connection_map_'[conn_sockfd_[c]] = c
      <3>1. connection_map_[conn_sockfd_[c]] = c
        BY <1>0, <2>2 DEF MapHolds
      <3>2. conn_sockfd_[c] # fd
        BY <1>7, <2>2, <3>1
      <3>3. conn_sockfd_[c] \in Fds \cup {NoFd}
        BY <1>0 DEF TypeOK
      <3>. QED  BY <1>2, <1>7, <3>1, <3>2, <3>3
    <2>. QED  BY <1>1, <1>2, <2>1, <2>2 DEF MapHolds
  <1>13. RemovalsHold'
    <2>1. ASSUME NEW k \in Loops, NEW i \in 1..Len(tasks'[Main][k]), NEW gd \in Fds,
                 tasks'[Main][k][i] = Removal(gd)
          PROVE  /\ connection_map_'[gd] \in closed
                 /\ loop_[connection_map_'[gd]] = k
                 /\ \A j \in 1..Len(tasks'[Main][k]) : tasks'[Main][k][j] = Removal(gd) => i = j
      <3>1. CASE k # from
        <4>1. tasks'[Main][k] = tasks[Main][k]
          BY <1>2, <1>8, <3>1
        <4>2. /\ connection_map_[gd] \in closed
              /\ loop_[connection_map_[gd]] = k
              /\ \A j \in 1..Len(tasks[Main][k]) : tasks[Main][k][j] = Removal(gd) => i = j
          BY <1>0, <2>1, <4>1 DEF RemovalsHold
        <4>3. gd # fd
          BY <1>7, <3>1, <4>2
        <4>. QED  BY <1>2, <1>7, <4>1, <4>2, <4>3
      <3>2. CASE k = from
        <4>1. i \in 1..(n - 1) /\ t[i + 1] = Removal(gd) /\ i + 1 \in 1..n /\ i + 1 # 1
          <5>1. i \in 1..(n - 1)
            BY <1>9, <3>2
          <5>2. t[i + 1] = Removal(gd) /\ i + 1 \in 1..n
            BY <1>9, <2>1, <3>2, <5>1
          <5>3. i + 1 # 1
            BY <5>1
          <5>. QED  BY <5>1, <5>2, <5>3
        <4>2. gd # fd
          BY <1>7, <4>1
        <4>3. /\ connection_map_[gd] \in closed
              /\ loop_[connection_map_[gd]] = from
              /\ \A j \in 1..n : t[j] = Removal(gd) => i + 1 = j
          BY <1>0, <1>2, <1>4, <4>1 DEF RemovalsHold
        <4>4. ASSUME NEW j \in 1..(n - 1), t[j + 1] = Removal(gd)
              PROVE  i = j
          <5>1. j + 1 \in 1..n
            BY <1>5
          <5>2. i + 1 = j + 1
            BY <4>3, <4>4, <5>1
          <5>. QED  BY ONLY <4>1, <5>2, j \in 1..(n - 1), n \in Nat
        <4>. QED  BY <1>2, <1>7, <1>9, <3>2, <4>2, <4>3, <4>4
      <3>. QED  BY <3>1, <3>2
    <2>. QED  BY ONLY <1>1, <2>1 DEF RemovalsHold
  <1>14. Placed'
    BY <1>0, <1>1, <1>2 DEF Placed
  <1>15. LiveApart'
    <2>1. ASSUME NEW d \in Made, NEW k \in Loops, NEW m \in Loops,
                 NEW i \in 1..Len(tasks'[k][m]), tasks'[k][m][i] = Registration(d)
          PROVE  \E j \in 1..Len(tasks[k][m]) : tasks[k][m][j] = Registration(d)
      <3>1. CASE k # Main \/ m # from
        BY <1>8, <2>1, <3>1
      <3>2. CASE k = Main /\ m = from
        <4>1. t[i + 1] = Registration(d) /\ i + 1 \in 1..Len(t)
          BY <1>4, <1>9, <2>1, <3>2
        <4>. QED  BY <3>2, <4>1
      <3>. QED  BY <3>1, <3>2
    <2>2. ASSUME NEW d \in Made, Alive(d)'
          PROVE  Alive(d)
      <3>1. d # NoConn
        BY <1>0, TypeFacts, ConnAssumption DEF Conns
      <3>2. ASSUME InMap(d)' PROVE InMap(d)
        BY <1>2, <1>7, <3>1, <3>2 DEF InMap
      <3>3. ASSUME InTask(d)' PROVE InTask(d)
        BY <2>1, <3>3 DEF InTask, Contains
      <3>4. ASSUME InCall(d)' PROVE InCall(d)
        BY <1>1, <3>4 DEF InCall
      <3>. QED  BY <2>2, <3>2, <3>3, <3>4 DEF Alive
    <2>. QED  BY <1>0, <1>1, <2>2, ApartKept
  <1>16. CallbacksInOrder' /\ AloneHeld'
    BY <1>0, <1>1 DEF CallbacksInOrder, AloneHeld
  <1>. QED  BY <1>10, <1>11, <1>12, <1>13, <1>14, <1>15, <1>16 DEF IInv

\* The registration that an I/O loop runs is of a connection of its own, open and not
\* announced yet.
LEMMA RegisterKeeps ==
    ASSUME IInv, UNCHANGED loopers_, NEW l \in Loops, RunRegister(l)
    PROVE  IInv'
  <1>0. /\ TypeOK /\ QueuesHold /\ MapHolds /\ RemovalsHold /\ Placed /\ LiveApart
        /\ CallbacksInOrder /\ AloneHeld
    BY DEF IInv
  <1> DEFINE t == tasks[l][Main]
             c == Head(t).conn
  <1>1. /\ UNCHANGED <<loopers_, count, next_, loop_, conn_sockfd_, connection_map_, writing,
                       established, closed>>
        /\ l # Main /\ doing[l] = Idle
        /\ t # <<>> /\ tasks' = [tasks EXCEPT ![l][Main] = Tail(t)]
        /\ \/ UNCHANGED epoll
           \/ conn_sockfd_[c] # NoFd /\ epoll' = [epoll EXCEPT ![l] = @ \cup {c}]
        /\ Enter(l, "registering", c)
    BY DEF RunRegister, IsIdle, Register
  <1>2. /\ Made' = Made /\ IoLoops \subseteq Loops /\ Main \in Loops /\ Main \notin IoLoops /\ l \in IoLoops
        /\ tasks \in [Loops -> [Loops -> Seq(TaskSet)]]
        /\ epoll \in [Loops -> SUBSET Made]
    BY <1>0, <1>1, PoolAssumption DEF Made, Loops, TypeOK
  <1>3. t \in Seq(TaskSet)
    BY <1>2
  <1>4. PICK n \in Nat : n = Len(t)
    BY <1>3, LenProperties
  <1>5. /\ n \in Nat \ {0} /\ Tail(t) \in Seq(TaskSet) /\ Len(Tail(t)) = n - 1
        /\ \A i \in 1..(n - 1) : Tail(t)[i] = t[i + 1]
        /\ Head(t) = t[1] /\ 1 \in 1..n
    BY <1>1, <1>3, <1>4, HeadTailProperties, EmptySeq
  <1>6. /\ c \in Made /\ c \in Conns /\ t[1] = Registration(c) /\ loop_[c] = l
        /\ c \notin established /\ c \notin closed
    <2>1. PICK d \in Made : t[1] = Registration(d) /\ loop_[d] = l /\ d \notin established
      <3>1. ASSUME NEW k \in IoLoops, NEW i \in 1..Len(tasks[k][Main])
            PROVE  \E d \in Made : /\ tasks[k][Main][i] = Registration(d)
                                  /\ loop_[d] = k
                                  /\ d \notin established
        BY ONLY <1>0, <3>1, Zenon DEF QueuesHold
      <3>2. 1 \in 1..Len(tasks[l][Main])
        BY <1>4, <1>5
      <3>3. \E d \in Made : /\ tasks[l][Main][1] = Registration(d)
                            /\ loop_[d] = l
                            /\ d \notin established
        BY ONLY <1>2, <3>1, <3>2, Zenon
      <3>. QED  BY <3>3, Zenon
    <2>2. d \in Conns /\ d = c
      BY <1>0, <1>5, <2>1, TypeFacts, TaskFacts
    <2>. QED  BY <1>0, <2>1, <2>2 DEF CallbacksInOrder
  <1>7. /\ doing' \in [Loops -> {Idle} \cup Calls]
        /\ doing'[l] = [step |-> "registering", conn |-> c] /\ doing'[l] # Idle
        /\ doing'[l].step = "registering" /\ doing'[l].conn = c
        /\ \A k \in Loops \ {l} : doing'[k] = doing[k]
    <2>1. /\ doing \in [Loops -> {Idle} \cup Calls]
          /\ doing' = [doing EXCEPT ![l] = [step |-> "registering", conn |-> c]]
      BY <1>0, <1>1 DEF TypeOK, Enter
    <2>2. /\ [step |-> "registering", conn |-> c] \in Calls
          /\ [step |-> "registering", conn |-> c] # Idle
          /\ [step |-> "registering", conn |-> c].step = "registering"
          /\ [step |-> "registering", conn |-> c].conn = c
      BY <1>6, CallFacts
    <2>. QED  BY <2>1, <2>2
  <1>8. /\ tasks' \in [Loops -> [Loops -> Seq(TaskSet)]]
        /\ \A k \in Loops, m \in Loops : k # l \/ m # Main => tasks'[k][m] = tasks[k][m]
        /\ tasks'[l][Main] = Tail(t)
    BY <1>1, <1>2, <1>5
  <1>9. /\ Len(tasks'[l][Main]) = n - 1
        /\ \A i \in 1..(n - 1) : tasks'[l][Main][i] = t[i + 1] /\ i + 1 \in 1..n /\ i + 1 # 1
    <2>1. \A i \in 1..(n - 1) : i + 1 \in 1..n /\ i + 1 # 1
      OBVIOUS
    <2>. QED  BY <1>5, <1>8, <2>1
  <1>10. /\ epoll' \in [Loops -> SUBSET Made]
         /\ \A k \in Loops \ {l} : epoll'[k] = epoll[k]
         /\ \A d \in epoll'[l] : d \in epoll[l] \/ (d = c /\ conn_sockfd_[c] # NoFd)
    <2>1. CASE UNCHANGED epoll
      BY <1>2, <2>1
    <2>2. CASE conn_sockfd_[c] # NoFd /\ epoll' = [epoll EXCEPT ![l] = @ \cup {c}]
      <3>1. epoll[l] \cup {c} \in SUBSET Made
        BY <1>2, <1>6
      <3>. QED  BY <1>2, <2>2, <3>1
    <2>. QED  BY <1>1, <2>1, <2>2
  <1>11. TypeOK'
    BY <1>0, <1>1, <1>2, <1>7, <1>8, <1>10 DEF TypeOK
  <1>12. tasks'[Main] = tasks[Main]
    BY <1>1, <1>2
  <1>13. QueuesHold'
    <2>1. ASSUME NEW k \in IoLoops, NEW m \in IoLoops PROVE tasks'[k][m] = <<>>
      <3>1. tasks[k][m] = <<>>
        BY <1>0 DEF QueuesHold
      <3>. QED  BY <1>2, <1>8, <3>1
    <2>2. ASSUME NEW k \in IoLoops, NEW i \in 1..Len(tasks'[k][Main])
          PROVE  \E d \in Made' : /\ tasks'[k][Main][i] = Registration(d)
                                  /\ loop_'[d] = k
                                  /\ d \notin established'
                                  /\ doing'[k] # [step |-> "registering", conn |-> d]
      <3>1. CASE k # l
        <4>1. tasks'[k][Main] = tasks[k][Main] /\ i \in 1..Len(tasks[k][Main])
          BY <1>2, <1>8, <3>1
        <4>2. PICK d \in Made : /\ tasks[k][Main][i] = Registration(d)
                                /\ loop_[d] = k
                                /\ d \notin established
                                /\ doing[k] # [step |-> "registering", conn |-> d]
          BY <1>0, <4>1 DEF QueuesHold
        <4>. QED  BY <1>1, <1>2, <1>7, <3>1, <4>1, <4>2
      <3>2. CASE k = l
        <4>0. i \in 1..(n - 1)
          BY <1>9, <3>2
        <4>1. tasks'[k][Main][i] = t[i + 1] /\ i + 1 \in 1..n /\ i + 1 # 1
          BY <1>9, <3>2, <4>0
        <4>2. PICK d \in Made : /\ t[i + 1] = Registration(d)
                                /\ loop_[d] = k
                                /\ d \notin established
          <5>1. ASSUME NEW j \in 1..Len(tasks[l][Main])
                PROVE  \E d \in Made : /\ tasks[l][Main][j] = Registration(d)
                                      /\ loop_[d] = l
                                      /\ d \notin established
            BY ONLY <1>0, <1>2, <5>1, Zenon DEF QueuesHold
          <5>2. i + 1 \in 1..Len(tasks[l][Main])
            BY <1>4, <4>1
          <5>. QED  BY ONLY <3>2, <5>1, <5>2, Zenon
        <4>3. t[i + 1] # t[1]
          BY <1>0, <1>2, <1>4, <1>5, <4>1 DEF QueuesHold
        <4>4. d # c
          BY <1>6, <4>2, <4>3
        <4>5. doing'[k] # [step |-> "registering", conn |-> d]
          BY <1>7, <3>2, <4>4
        <4>. QED  BY <1>1, <1>2, <4>1, <4>2, <4>5
      <3>. QED  BY <3>1, <3>2
    <2>3. ASSUME NEW k \in IoLoops, NEW i \in 1..Len(tasks'[k][Main]), NEW j \in 1..Len(tasks'[k][Main]),
                 tasks'[k][Main][i] = tasks'[k][Main][j]
          PROVE  i = j
      <3>1. CASE k # l
        <4>1. tasks'[k][Main] = tasks[k][Main]
          BY <1>2, <1>8, <3>1
        <4>. QED  BY <1>0, <2>3, <4>1 DEF QueuesHold
      <3>2. CASE k = l
        <4>1. i \in 1..(n - 1) /\ j \in 1..(n - 1)
          BY <1>9, <3>2
        <4>2. t[i + 1] = t[j + 1] /\ i + 1 \in 1..n /\ j + 1 \in 1..n
          BY <1>9, <2>3, <3>2, <4>1
        <4>3. i + 1 = j + 1
          BY <1>0, <1>2, <1>4, <4>2 DEF QueuesHold
        <4>. QED  BY ONLY <4>1, <4>3, n \in Nat
      <3>. QED  BY <3>1, <3>2
    <2>4. \A k \in Loops : \A i \in 1..Len(tasks'[Main][k]) : \E fd \in Fds : tasks'[Main][k][i] = Removal(fd)
      BY <1>0, <1>12 DEF QueuesHold
    <2>. QED  BY ONLY <2>1, <2>2, <2>3, <2>4 DEF QueuesHold
  <1>14. MapHolds' /\ RemovalsHold'
    <2>1. MapHolds'
      BY <1>0, <1>1, <1>2 DEF MapHolds
    <2>2. RemovalsHold'
      BY ONLY <1>0, <1>1, <1>12 DEF RemovalsHold
    <2>. QED  BY <2>1, <2>2
  <1>15. Placed'
    <2>1. ASSUME NEW k \in Loops, NEW d \in epoll'[k]
          PROVE  loop_[d] = k /\ conn_sockfd_[d] # NoFd /\ d \notin closed
      BY <1>0, <1>6, <1>10 DEF Placed
    <2>2. ASSUME NEW k \in Loops, doing'[k] # Idle PROVE doing'[k].conn \in Made
      BY <1>0, <1>6, <1>7, <2>2 DEF Placed
    <2>. QED  BY <1>0, <1>1, <1>2, <2>1, <2>2 DEF Placed
  <1>16. LiveApart'
    <2>1. ASSUME NEW d \in Made, NEW k \in Loops, NEW m \in Loops,
                 NEW i \in 1..Len(tasks'[k][m]), tasks'[k][m][i] = Registration(d)
          PROVE  \E j \in 1..Len(tasks[k][m]) : tasks[k][m][j] = Registration(d)
      <3>1. CASE k # l \/ m # Main
        BY <1>8, <2>1, <3>1
      <3>2. CASE k = l /\ m = Main
        <4>1. t[i + 1] = Registration(d) /\ i + 1 \in 1..Len(t)
          BY <1>4, <1>9, <2>1, <3>2
        <4>. QED  BY <3>2, <4>1
      <3>. QED  BY <3>1, <3>2
    <2>2. InTask(c)
      BY <1>2, <1>4, <1>5, <1>6 DEF InTask, Contains
    <2>3. ASSUME NEW d \in Made, Alive(d)'
          PROVE  Alive(d)
      <3>1. ASSUME InMap(d)' PROVE InMap(d)
        BY <1>1, <3>1 DEF InMap
      <3>2. ASSUME InTask(d)' PROVE InTask(d)
        BY <2>1, <3>2 DEF InTask, Contains
      <3>3. ASSUME InCall(d)', d # c PROVE InCall(d)
        BY <1>7, <3>3 DEF InCall
      <3>. QED  BY <2>2, <2>3, <3>1, <3>2, <3>3 DEF Alive
    <2>. QED  BY <1>0, <1>1, <2>3, ApartKept
  <1>17. CallbacksInOrder'
    <2>1. ASSUME NEW k \in Loops, NEW d \in epoll'[k], d \notin established
          PROVE  doing'[k] = [step |-> "registering", conn |-> d]
      <3>1. CASE k # l
        BY <1>0, <1>7, <1>10, <2>1, <3>1 DEF CallbacksInOrder
      <3>2. CASE k = l /\ d = c
        BY <1>7, <3>2
      <3>3. CASE k = l /\ d # c
        <4>1. d \in epoll[l]
          BY <1>10, <2>1, <3>3
        <4>2. doing[l] = [step |-> "registering", conn |-> d]
          BY <1>0, <2>1, <4>1 DEF CallbacksInOrder
        <4>3. d \in Conns
          BY <1>0, <4>1, TypeFacts
        <4>. QED  BY <1>1, <4>2, <4>3, CallFacts
      <3>. QED  BY <3>1, <3>2, <3>3
    <2>2. ASSUME NEW k \in Loops, doing'[k] # Idle PROVE loop_[doing'[k].conn] = k
      BY <1>0, <1>6, <1>7, <2>2 DEF CallbacksInOrder
    <2>. QED  BY <1>0, <1>1, <2>1, <2>2 DEF CallbacksInOrder
  <1>18. AloneHeld'
    BY <1>0, <1>1, <1>2, <1>7 DEF AloneHeld
  <1>. QED  BY <1>11, <1>13, <1>14, <1>15, <1>16, <1>17, <1>18 DEF IInv

\* A connection that is accepted gets a descriptor that no living one has, and a loop
\* that registers it at once or gets the task to do so.
LEMMA AcceptKeeps ==
    ASSUME IInv, UNCHANGED loopers_, NEW fd \in Fds \cup {NoFd}, HandelNewConnection(fd)
    PROVE  IInv'
  <1>0. /\ TypeOK /\ QueuesHold /\ MapHolds /\ RemovalsHold /\ Placed /\ LiveApart
        /\ CallbacksInOrder /\ AloneHeld
    BY DEF IInv
  <1> DEFINE c == count + 1
             l == TakenLoop
  <1>1. /\ doing[Main] = Idle /\ count < N /\ fd \notin OpenFds
        /\ count' = c /\ TakeOutLoop
        /\ loop_' = Append(loop_, l)
        /\ conn_sockfd_' = Append(conn_sockfd_, fd)
        /\ connection_map_' = [connection_map_ EXCEPT ![fd] = c]
        /\ HandOver(l, c, fd)
        /\ UNCHANGED <<loopers_, writing, established, closed>>
    BY DEF HandelNewConnection, IsIdle
  <1>2. /\ c \in Conns /\ c \notin Made /\ Made' = Made \cup {c} /\ count' \in 0..N
        /\ c \notin established /\ c \notin closed
    <2>1. count \in Nat /\ count + 1 <= N
      BY <1>0, <1>1, TypeFacts, CountAssumption
    <2>2. c \in Conns /\ c \notin Made /\ Made' = Made \cup {c} /\ count' \in 0..N
      BY <1>1, <2>1, CountAssumption DEF Conns, Made
    <2>. QED  BY <1>0, <2>2 DEF TypeOK
  <1>3. /\ IoLoops \subseteq Loops /\ Main \in Loops /\ Main \notin IoLoops
        /\ l \in Loops /\ (loopers_ = <<>> => l = Main)
        /\ next_' \in Nat /\ (loopers_ # <<>> => next_' < Len(loopers_))
    <2>1. IoLoops \subseteq Loops /\ Main \in Loops /\ Main \notin IoLoops
      BY PoolAssumption DEF Loops
    <2>2. CASE loopers_ = <<>>
      BY <1>0, <1>1, <2>1, <2>2 DEF TakenLoop, TakeOutLoop, TypeOK
    <2>3. CASE loopers_ # <<>>
      <3>1. loopers_ \in Seq(IoLoops) /\ next_ \in Nat /\ next_ < Len(loopers_) /\ Len(loopers_) \in Nat
        BY <1>0, <2>3, TypeFacts, LenProperties DEF TypeOK
      <3>2. next_ + 1 \in 1..Len(loopers_)
        BY <3>1
      <3>3. l \in IoLoops
        BY <2>3, <3>1, <3>2, ElementOfSeq DEF TakenLoop
      <3>4. next_' = (next_ + 1) % Len(loopers_)
        BY <1>1, <2>3 DEF TakeOutLoop, NextIndex
      <3>5. (next_ + 1) % Len(loopers_) \in Nat /\ (next_ + 1) % Len(loopers_) < Len(loopers_)
        BY <3>1
      <3>. QED  BY <2>1, <2>3, <3>3, <3>4, <3>5
    <2>. QED  BY <2>2, <2>3
  <1>4. /\ loop_' \in [Made' -> Loops] /\ loop_'[c] = l
        /\ \A d \in Made : loop_'[d] = loop_[d]
    <2>1. loop_ \in Seq(Loops) /\ Len(loop_) = count /\ count \in Nat
      BY <1>0, TypeFacts
    <2>2. /\ Append(loop_, l) \in Seq(Loops) /\ Len(Append(loop_, l)) = c
          /\ Append(loop_, l)[c] = l
          /\ \A d \in 1..count : Append(loop_, l)[d] = loop_[d]
      BY <1>3, <2>1, AppendProperties
    <2>3. Append(loop_, l) \in [1..c -> Loops]
      BY <2>2, LenProperties
    <2>. QED  BY <1>1, <2>2, <2>3 DEF Made
  <1>5. /\ conn_sockfd_' \in [Made' -> Fds \cup {NoFd}] /\ conn_sockfd_'[c] = fd
        /\ \A d \in Made : conn_sockfd_'[d] = conn_sockfd_[d]
    <2>1. conn_sockfd_ \in Seq(Fds \cup {NoFd}) /\ Len(conn_sockfd_) = count /\ count \in Nat
      BY <1>0, TypeFacts
    <2>2. /\ Append(conn_sockfd_, fd) \in Seq(Fds \cup {NoFd}) /\ Len(Append(conn_sockfd_, fd)) = c
          /\ Append(conn_sockfd_, fd)[c] = fd
          /\ \A d \in 1..count : Append(conn_sockfd_, fd)[d] = conn_sockfd_[d]
      BY <2>1, AppendProperties
    <2>3. Append(conn_sockfd_, fd) \in [1..c -> Fds \cup {NoFd}]
      BY <2>2, LenProperties
    <2>. QED  BY <1>1, <2>2, <2>3 DEF Made
  <1>6. /\ connection_map_ \in [Fds \cup {NoFd} -> Made \cup {NoConn}]
        /\ connection_map_' \in [Fds \cup {NoFd} -> Made' \cup {NoConn}]
        /\ connection_map_'[fd] = c
        /\ \A gd \in Fds \cup {NoFd} : gd # fd => connection_map_'[gd] = connection_map_[gd]
    BY <1>0, <1>1, <1>2 DEF TypeOK
  <1>7. ASSUME NEW d \in Made, Alive(d), conn_sockfd_[d] # NoFd
        PROVE  conn_sockfd_[d] # fd
    BY <1>1, <1>7 DEF OpenFds
  <1>8. ASSUME NEW gd \in Fds, connection_map_[gd] # NoConn
        PROVE  gd # fd
    <2>1. /\ connection_map_[gd] \in Made /\ conn_sockfd_[connection_map_[gd]] = gd
          /\ Alive(connection_map_[gd])
      BY <1>0, <1>6, <1>8 DEF MapHolds, Alive, InMap
    <2>. QED  BY <1>7, <2>1, FdAssumption
  <1>9. /\ doing' \in [Loops -> {Idle} \cup Calls]
        /\ \A k \in Loops : \/ doing'[k] = doing[k]
                            \/ /\ k = Main /\ l = Main
                               /\ doing'[k] = [step |-> "registering", conn |-> c]
                               /\ doing'[k] # Idle
                               /\ doing'[k].step = "registering" /\ doing'[k].conn = c
    <2>1. CASE l = Main
      <3>1. /\ doing \in [Loops -> {Idle} \cup Calls]
            /\ doing' = [doing EXCEPT ![Main] = [step |-> "registering", conn |-> c]]
        BY <1>0, <1>1, <2>1 DEF HandOver, Register, TypeOK, Enter
      <3>2. /\ [step |-> "registering", conn |-> c] \in Calls
            /\ [step |-> "registering", conn |-> c] # Idle
            /\ [step |-> "registering", conn |-> c].step = "registering"
            /\ [step |-> "registering", conn |-> c].conn = c
        BY <1>2, <1>3, CallFacts
      <3>3. Main \in Loops
        BY PoolAssumption DEF Loops
      <3>. QED  BY <2>1, <3>1, <3>2, <3>3
    <2>2. CASE l # Main
      BY <1>0, <1>1, <2>2 DEF HandOver, TypeOK
    <2>. QED  BY <2>1, <2>2
  <1>10. /\ epoll' \in [Loops -> SUBSET Made']
         /\ \A k \in Loops : \A d \in epoll'[k] :
               \/ d \in epoll[k] /\ d \in Made
               \/ d = c /\ k = l /\ fd # NoFd /\ doing'[k] = [step |-> "registering", conn |-> c]
    <2>1. epoll \in [Loops -> SUBSET Made]
      BY <1>0 DEF TypeOK
    <2>2. CASE UNCHANGED epoll
      <3>1. epoll \in [Loops -> SUBSET Made']
        BY <1>2, <2>1
      <3>. QED  BY <2>1, <2>2, <3>1
    <2>3. CASE l = Main /\ fd # NoFd /\ epoll' = [epoll EXCEPT ![l] = @ \cup {c}] /\ Enter(Main, "registering", c)
      <3>1. doing'[Main] = [step |-> "registering", conn |-> c]
        BY <1>0, <1>3, <2>3 DEF Enter, TypeOK
      <3>2. epoll' \in [Loops -> SUBSET Made']
        BY <1>2, <1>3, <2>1, <2>3
      <3>3. ASSUME NEW k \in Loops, NEW d \in epoll'[k]
            PROVE  (d \in epoll[k] /\ d \in Made) \/ (d = c /\ k = l)
        BY <1>3, <2>1, <2>3
      <3>. QED  BY <2>3, <3>1, <3>2, <3>3
    <2>. QED  BY <1>1, <2>2, <2>3 DEF HandOver, Register
  <1>11. /\ tasks' \in [Loops -> [Loops -> Seq(TaskSet)]]
         /\ tasks'[Main] = tasks[Main]
         /\ \A k \in Loops, m \in Loops :
               \/ tasks'[k][m] = tasks[k][m]
               \/ /\ k = l /\ m = Main /\ k \in IoLoops
                  /\ tasks'[k][m] = Append(tasks[k][m], Registration(c))
    <2>1. /\ tasks \in [Loops -> [Loops -> Seq(TaskSet)]]
          /\ Registration(c) \in TaskSet
      BY <1>0, <1>2, TaskFacts DEF TypeOK
    <2>2. CASE UNCHANGED tasks
      BY <2>1, <2>2
    <2>3. CASE l # Main /\ tasks' = [tasks EXCEPT ![l][Main] = Append(@, Registration(c))]
      <3>1. Append(tasks[l][Main], Registration(c)) \in Seq(TaskSet)
        BY <1>3, <2>1, AppendProperties
      <3>2. l \in IoLoops
        BY <1>3, <2>3 DEF Loops
      <3>. QED  BY <1>3, <2>1, <2>3, <3>1, <3>2
    <2>. QED  BY <1>1, <2>2, <2>3 DEF HandOver
  <1>12. ASSUME NEW k \in Loops, NEW m \in Loops, NEW i \in 1..Len(tasks'[k][m])
         PROVE  \/ i \in 1..Len(tasks[k][m]) /\ tasks'[k][m][i] = tasks[k][m][i]
                \/ /\ i = Len(tasks[k][m]) + 1 /\ tasks'[k][m][i] = Registration(c)
                   /\ k = l /\ m = Main /\ k \in IoLoops
    <2>1. PICK n \in Nat : n = Len(tasks[k][m])
      BY <1>0, TypeFacts
    <2>2. CASE tasks'[k][m] = tasks[k][m]
      BY <2>2
    <2>3. CASE /\ k = l /\ m = Main /\ k \in IoLoops
               /\ tasks'[k][m] = Append(tasks[k][m], Registration(c))
      <3>1. tasks[k][m] \in Seq(TaskSet) /\ Registration(c) \in TaskSet
        BY <1>0, <1>2, TypeFacts, TaskFacts
      <3>2. /\ Len(tasks'[k][m]) = n + 1 /\ tasks'[k][m][n + 1] = Registration(c)
            /\ \A j \in 1..n : tasks'[k][m][j] = tasks[k][m][j]
        BY <2>1, <2>3, <3>1, AppendProperties
      <3>3. i = n + 1 \/ i \in 1..n
        BY <3>2
      <3>. QED  BY <2>1, <2>3, <3>2, <3>3
    <2>. QED  BY <1>11, <2>2, <2>3
  <1>13. TypeOK'
    <2>1. writing' \subseteq Made' /\ established' \subseteq Made' /\ closed' \subseteq Made'
      BY <1>0, <1>1, <1>2 DEF TypeOK
    <2>2. loopers_' \in Pools
      BY <1>0, <1>1 DEF TypeOK
    <2>3. loopers_' # <<>> => next_' < Len(loopers_')
      BY <1>1, <1>3
    <2>. QED  BY <1>2, <1>3, <1>4, <1>5, <1>6, <1>9, <1>10, <1>11, <2>1, <2>2, <2>3 DEF TypeOK
  <1>14. QueuesHold'
    <2>1. ASSUME NEW k \in IoLoops, NEW m \in IoLoops PROVE tasks'[k][m] = <<>>
      <3>1. tasks[k][m] = <<>>
        BY <1>0 DEF QueuesHold
      <3>. QED  BY <1>3, <1>11, <3>1
    <2>2. ASSUME NEW k \in IoLoops, NEW i \in 1..Len(tasks'[k][Main])
          PROVE  \E d \in Made' : /\ tasks'[k][Main][i] = Registration(d)
                                  /\ loop_'[d] = k
                                  /\ d \notin established'
                                  /\ doing'[k] # [step |-> "registering", conn |-> d]
      <3>0. k \in Loops /\ k # Main /\ doing'[k] = doing[k]
        BY <1>3, <1>9
      <3>1. CASE i \in 1..Len(tasks[k][Main]) /\ tasks'[k][Main][i] = tasks[k][Main][i]
        <4>1. PICK d \in Made : /\ tasks[k][Main][i] = Registration(d)
                                /\ loop_[d] = k
                                /\ d \notin established
                                /\ doing[k] # [step |-> "registering", conn |-> d]
          BY <1>0, <3>1 DEF QueuesHold
        <4>. QED  BY <1>1, <1>2, <1>4, <3>0, <3>1, <4>1
      <3>2. CASE tasks'[k][Main][i] = Registration(c) /\ k = l
        <4>1. doing[k] # [step |-> "registering", conn |-> c]
          <5>1. doing[k] # Idle => doing[k].conn # c
            BY <1>0, <1>2, <3>0 DEF Placed
          <5>2. /\ [step |-> "registering", conn |-> c] # Idle
                /\ [step |-> "registering", conn |-> c].conn = c
            BY <1>2, CallFacts
          <5>. QED  BY <5>1, <5>2
        <4>. QED  BY <1>1, <1>2, <1>4, <3>0, <3>2, <4>1
      <3>. QED  BY <1>3, <1>12, <3>0, <3>1, <3>2
    <2>3. ASSUME NEW k \in IoLoops, NEW i \in 1..Len(tasks'[k][Main]), NEW j \in 1..Len(tasks'[k][Main]),
                 tasks'[k][Main][i] = tasks'[k][Main][j]
          PROVE  i = j
      <3>0. k \in Loops
        BY <1>3
      <3>1. ASSUME NEW h \in 1..Len(tasks[k][Main]) PROVE tasks[k][Main][h] # Registration(c)
        <4>1. PICK d \in Made : /\ tasks[k][Main][h] = Registration(d)
                                /\ loop_[d] = k
                                /\ d \notin established
                                /\ doing[k] # [step |-> "registering", conn |-> d]
          BY <1>0 DEF QueuesHold
        <4>2. d \in Conns /\ d # c
          BY <1>0, <1>2, TypeFacts
        <4>. QED  BY <1>2, <4>1, <4>2, TaskFacts
      <3>2. \/ i \in 1..Len(tasks[k][Main]) /\ tasks'[k][Main][i] = tasks[k][Main][i]
            \/ i = Len(tasks[k][Main]) + 1 /\ tasks'[k][Main][i] = Registration(c)
        BY <1>3, <1>12, <3>0
      <3>3. \/ j \in 1..Len(tasks[k][Main]) /\ tasks'[k][Main][j] = tasks[k][Main][j]
            \/ j = Len(tasks[k][Main]) + 1 /\ tasks'[k][Main][j] = Registration(c)
        BY <1>3, <1>12, <3>0
      <3>4. \A a, b \in 1..Len(tasks[k][Main]) : tasks[k][Main][a] = tasks[k][Main][b] => a = b
        BY <1>0 DEF QueuesHold
      <3>. QED  BY ONLY <2>3, <3>1, <3>2, <3>3, <3>4
    <2>4. \A k \in Loops : \A i \in 1..Len(tasks'[Main][k]) : \E gd \in Fds : tasks'[Main][k][i] = Removal(gd)
      BY <1>0, <1>11 DEF QueuesHold
    <2>. QED  BY ONLY <2>1, <2>2, <2>3, <2>4 DEF QueuesHold
  <1>15. MapHolds'
    <2>1. ASSUME NEW gd \in Fds \cup {NoFd}, connection_map_'[gd] # NoConn
          PROVE  conn_sockfd_'[connection_map_'[gd]] = gd
      <3>1. CASE gd = fd
        BY <1>5, <1>6, <3>1
      <3>2. CASE gd # fd
        <4>1. connection_map_'[gd] = connection_map_[gd] /\ connection_map_[gd] \in Made
          BY <1>6, <2>1, <3>2
        <4>. QED  BY <1>0, <1>5, <2>1, <4>1 DEF MapHolds
      <3>. QED  BY <3>1, <3>2
    <2>2. ASSUME NEW d \in Made', d \notin closed, conn_sockfd_'[d] # NoFd
          PROVE  connection_map_'[conn_sockfd_'[d]] = d
      <3>1. CASE d = c
        BY <1>5, <1>6, <3>1
      <3>2. CASE d \in Made
        <4>1. /\ conn_sockfd_'[d] = conn_sockfd_[d] /\ conn_sockfd_[d] # NoFd
              /\ conn_sockfd_[d] \in Fds
          BY <1>0, <1>5, <2>2, <3>2 DEF TypeOK
        <4>2. connection_map_[conn_sockfd_[d]] = d /\ d # NoConn
          BY <1>0, <2>2, <3>2, <4>1, TypeFacts, ConnAssumption DEF MapHolds, Conns
        <4>. QED  BY <1>6, <1>8, <4>1, <4>2
      <3>. QED  BY <1>2, <3>1, <3>2
    <2>. QED  BY <1>1, <2>1, <2>2 DEF MapHolds
  <1>16. RemovalsHold'
    <2>1. ASSUME NEW k \in Loops, NEW i \in 1..Len(tasks[Main][k]), NEW gd \in Fds,
                 tasks[Main][k][i] = Removal(gd)
          PROVE  /\ connection_map_'[gd] \in closed
                 /\ loop_'[connection_map_'[gd]] = k
                 /\ \A j \in 1..Len(tasks[Main][k]) : tasks[Main][k][j] = Removal(gd) => i = j
      <3>1. /\ connection_map_[gd] \in closed
            /\ loop_[connection_map_[gd]] = k
            /\ \A j \in 1..Len(tasks[Main][k]) : tasks[Main][k][j] = Removal(gd) => i = j
        BY <1>0, <2>1 DEF RemovalsHold
      <3>2. connection_map_[gd] \in Made /\ connection_map_[gd] # NoConn
        BY <1>0, <3>1, TypeFacts, ConnAssumption DEF TypeOK, Conns
      <3>. QED  BY <1>4, <1>6, <1>8, <3>1, <3>2
    <2>2. tasks'[Main] = tasks[Main] /\ closed' = closed
      BY <1>1, <1>11
    <2>. QED  BY ONLY <2>1, <2>2 DEF RemovalsHold
  <1>17. Placed'
    <2>1. ASSUME NEW k \in Loops, NEW d \in epoll'[k]
          PROVE  loop_'[d] = k /\ conn_sockfd_'[d] # NoFd /\ d \notin closed
      <3>1. CASE d \in epoll[k] /\ d \in Made
        BY <1>0, <1>4, <1>5, <3>1 DEF Placed
      <3>2. CASE d = c /\ k = l /\ fd # NoFd
        BY <1>2, <1>4, <1>5, <3>2
      <3>. QED  BY <1>10, <3>1, <3>2
    <2>2. ASSUME NEW k \in Loops, doing'[k] # Idle PROVE doing'[k].conn \in Made'
      BY <1>0, <1>2, <1>9, <2>2 DEF Placed
    <2>3. ASSUME loopers_ = <<>>, NEW d \in Made' PROVE loop_'[d] = Main
      BY <1>0, <1>2, <1>3, <1>4, <2>3 DEF Placed
    <2>. QED  BY <1>1, <2>1, <2>2, <2>3 DEF Placed
  <1>18. ASSUME NEW d \in Made, Alive(d)'
         PROVE  Alive(d)
    <2>1. ASSUME InMap(d)' PROVE InMap(d)
      BY <1>2, <1>6, <2>1 DEF InMap
    <2>2. ASSUME InTask(d)' PROVE InTask(d)
      <3>1. PICK k \in Loops, m \in Loops : \E i \in 1..Len(tasks'[k][m]) : tasks'[k][m][i] = Registration(d)
        BY <2>2 DEF InTask, Contains
      <3>2. PICK i \in 1..Len(tasks'[k][m]) : tasks'[k][m][i] = Registration(d)
        BY <3>1
      <3>3. Registration(d) # Registration(c)
        BY <1>0, <1>2, TypeFacts, TaskFacts
      <3>4. i \in 1..Len(tasks[k][m]) /\ tasks[k][m][i] = Registration(d)
        BY <1>12, <3>2, <3>3
      <3>. QED  BY <3>4 DEF InTask, Contains
    <2>3. ASSUME InCall(d)' PROVE InCall(d)
      BY <1>2, <1>9, <2>3 DEF InCall
    <2>. QED  BY <1>18, <2>1, <2>2, <2>3 DEF Alive
  <1>19. LiveApart'
    <2>1. ASSUME NEW d \in Made, Alive(d)', conn_sockfd_'[d] # NoFd
          PROVE  conn_sockfd_'[d] # fd
      BY <1>5, <1>7, <1>18, <2>1
    <2>2. ASSUME NEW d \in Made', NEW e \in Made', Alive(d)', Alive(e)',
                 conn_sockfd_'[d] = conn_sockfd_'[e], conn_sockfd_'[d] # NoFd
          PROVE  d = e
      <3>1. CASE d \in Made /\ e \in Made
        BY <1>0, <1>5, <1>18, <2>2, <3>1 DEF LiveApart
      <3>2. CASE d = c /\ e \in Made
        BY <1>5, <2>1, <2>2, <3>2
      <3>3. CASE d \in Made /\ e = c
        BY <1>5, <2>1, <2>2, <3>3
      <3>. QED  BY <1>2, <3>1, <3>2, <3>3
    <2>. QED  BY ONLY <2>2 DEF LiveApart
  <1>20. CallbacksInOrder'
    <2>1. ASSUME NEW k \in Loops, NEW d \in epoll'[k], d \notin established
          PROVE  doing'[k] = [step |-> "registering", conn |-> d]
      <3>1. CASE d \in epoll[k] /\ d \in Made
        <4>1. doing[k] = [step |-> "registering", conn |-> d]
          BY <1>0, <2>1, <3>1 DEF CallbacksInOrder
        <4>2. [step |-> "registering", conn |-> d] # Idle
          BY <1>0, <3>1, TypeFacts, CallFacts
        <4>3. k # Main
          BY <1>1, <4>1, <4>2
        <4>. QED  BY <1>9, <4>1, <4>3
      <3>. QED  BY <1>10, <3>1
    <2>2. ASSUME NEW k \in Loops, doing'[k] # Idle PROVE loop_'[doing'[k].conn] = k
      <3>1. CASE doing'[k] = doing[k]
        BY <1>0, <1>4, <2>2, <3>1 DEF CallbacksInOrder, Placed
      <3>. QED  BY <1>4, <1>9, <3>1
    <2>. QED  BY <1>0, <1>1, <2>1, <2>2 DEF CallbacksInOrder
  <1>21. AloneHeld'
    BY <1>1, <1>3, <1>9 DEF AloneHeld
  <1>. QED  BY <1>13, <1>14, <1>15, <1>16, <1>17, <1>19, <1>20, <1>21 DEF IInv

-----------------------------------------------------------------------------
(* The inductive invariant holds.                                          *)

\* A server that has accepted nothing has it.
LEMMA InitIInv == Init => IInv
  <1>. SUFFICES ASSUME Init PROVE IInv
    OBVIOUS
  <1>1. /\ Made = {} /\ Len(<<>>) = 0 /\ Main \in Loops /\ IoLoops \subseteq Loops
        /\ 0 \in 0..N /\ 1..0 = {}
    BY CountAssumption DEF Init, Made, Loops
  <1>2. TypeOK
    <2>1. loopers_ # <<>> => next_ < Len(loopers_)
      <3>1. loopers_ \in Seq(IoLoops) /\ next_ = 0
        BY PoolAssumption DEF Init
      <3>. QED  BY <3>1, EmptySeq, LenProperties
    <2>2. loop_ \in [Made -> Loops] /\ conn_sockfd_ \in [Made -> Fds \cup {NoFd}]
      BY <1>1 DEF Init
    <2>3. tasks \in [Loops -> [Loops -> Seq(TaskSet)]]
      BY EmptySeq DEF Init
    <2>. QED  BY <1>1, <2>1, <2>2, <2>3 DEF Init, TypeOK
  <1>3. QueuesHold
    <2>1. \A k \in Loops, m \in Loops : tasks[k][m] = <<>>
      BY DEF Init
    <2>2. \A k \in Loops, m \in Loops : 1..Len(tasks[k][m]) = {}
      BY <1>1, <2>1
    <2>. QED  BY <1>1, <2>1, <2>2 DEF QueuesHold
  <1>4. RemovalsHold
    BY <1>1 DEF Init, RemovalsHold
  <1>5. MapHolds /\ Placed /\ LiveApart /\ CallbacksInOrder /\ AloneHeld
    BY <1>1 DEF Init, MapHolds, Placed, LiveApart, CallbacksInOrder, AloneHeld
  <1>. QED  BY <1>2, <1>3, <1>4, <1>5 DEF IInv

\* Every step of a loop keeps it.
LEMMA NextIInv == IInv /\ [Next]_vars => IInv'
  <1>. SUFFICES ASSUME IInv, [Next]_vars PROVE IInv'
    OBVIOUS
  <1>0. TypeOK /\ Placed
    BY DEF IInv
  <1>1. ASSUME UNCHANGED loopers_, Accept PROVE IInv'
    BY <1>1, AcceptKeeps DEF Accept
  <1>2. ASSUME UNCHANGED loopers_, RunRemoval PROVE IInv'
    BY <1>2, RemoveKeeps DEF RunRemoval
  <1>3. ASSUME UNCHANGED loopers_, HandleEvent PROVE IInv'
    <2>1. PICK l \in Loops, c \in Made : \/ HandleReadMessage(l, c)
                                         \/ HandleWrite(l, c)
                                         \/ HandleClose(l, c)
                                         \/ HandleReadNothing(l, c)
      BY <1>3 DEF HandleEvent
    <2>2. writing \subseteq Made
      BY <1>0 DEF TypeOK
    <2>3. CASE HandleReadMessage(l, c)
      <3>1. writing' \subseteq Made /\ UNCHANGED doing
        BY <2>2, <2>3 DEF HandleReadMessage, MaySend
      <3>. QED  BY <1>3, <2>3, <3>1, HandlersKeep DEF HandleReadMessage
    <2>4. CASE HandleWrite(l, c)
      <3>1. writing' \subseteq Made /\ UNCHANGED doing
        BY <2>2, <2>4 DEF HandleWrite
      <3>. QED  BY <1>3, <2>4, <3>1, HandlersKeep DEF HandleWrite
    <2>5. CASE HandleClose(l, c)
      BY <1>3, <2>5, CloseKeeps DEF HandleClose
    <2>6. CASE HandleReadNothing(l, c)
      BY <1>3, <2>6, CloseKeeps DEF HandleReadNothing
    <2>. QED  BY <2>1, <2>3, <2>4, <2>5, <2>6
  <1>4. ASSUME UNCHANGED loopers_, NEW l \in Loops, Progress(l) PROVE IInv'
    <2>1. CASE RunRegister(l)
      BY <1>4, <2>1, RegisterKeeps
    <2>2. CASE EstablishedCallback(l)
      BY <1>4, <2>2, EstablishedKeeps
    <2>3. CASE HandleCloseReturn(l)
      <3>1. doing[l].step # "registering" /\ writing' \subseteq Made
        BY <1>0, <2>3 DEF HandleCloseReturn, TypeOK
      <3>. QED  BY <1>4, <2>3, <3>1, HandlersKeep DEF HandleCloseReturn
    <2>4. CASE WriteAfterRead(l)
      <3>1. doing[l].step # "registering" /\ writing' \subseteq Made
        BY <1>0, <2>4 DEF WriteAfterRead, TypeOK
      <3>. QED  BY <1>4, <2>4, <3>1, HandlersKeep DEF WriteAfterRead
    <2>. QED  BY <1>4, <2>1, <2>2, <2>3, <2>4 DEF Progress
  <1>5. ASSUME UNCHANGED vars PROVE IInv'
    <2>1. writing' \subseteq Made
      BY <1>0, <1>5 DEF TypeOK, vars
    <2>. QED  BY <1>5, <2>1, HandlersKeep DEF vars
  <1>. QED  BY <1>1, <1>2, <1>3, <1>4, <1>5 DEF Next

\* So it holds in every state the server reaches.
LEMMA InvariantIInv == Spec => []IInv
  BY InitIInv, NextIInv, PTL DEF Spec

-----------------------------------------------------------------------------
(* The theorems.                                                           *)

\* The variables keep their types: what the loops are in, what they are posted and
\* what the map names are connections that were made, and the index of the pool is
\* within it (server.cpp:38-76, threadpool.cpp).
THEOREM TypeCorrect == Spec => []TypeOK
  <1>1. IInv => TypeOK
    BY DEF IInv
  <1>. QED  BY <1>1, InvariantIInv, PTL

\* A removal under way finds the connection that was closed, whatever has been accepted
\* since, and what is registered with a loop is alive and the only living connection
\* with its descriptor (server.cpp:59-76, epoller.cpp:29-99).
THEOREM DescriptorsAreOwn == Spec => []DescriptorsNameTheirOwn
  <1>1. ASSUME IInv PROVE RemovalIsOwn
    <2>0. QueuesHold /\ RemovalsHold /\ TypeOK /\ Main \in Loops
      BY <1>1 DEF IInv, Loops
    <2>1. ASSUME NEW l \in Loops, NEW i \in DOMAIN tasks[Main][l], NEW j \in DOMAIN tasks[Main][l]
          PROVE  /\ connection_map_[tasks[Main][l][i].fd] \in closed
                 /\ loop_[connection_map_[tasks[Main][l][i].fd]] = l
                 /\ tasks[Main][l][j].fd = tasks[Main][l][i].fd => i = j
      <3>1. i \in 1..Len(tasks[Main][l]) /\ j \in 1..Len(tasks[Main][l])
        BY <2>0, TypeFacts, LenProperties
      <3>2. PICK fd \in Fds : tasks[Main][l][i] = Removal(fd)
        BY <2>0, <3>1 DEF QueuesHold
      <3>3. PICK gd \in Fds : tasks[Main][l][j] = Removal(gd)
        BY <2>0, <3>1 DEF QueuesHold
      <3>4. tasks[Main][l][i].fd = fd /\ tasks[Main][l][j].fd = gd
        BY <3>2, <3>3, TaskFacts
      <3>. QED  BY <2>0, <3>1, <3>2, <3>3, <3>4 DEF RemovalsHold
    <2>. QED  BY <2>1 DEF RemovalIsOwn
  <1>2. ASSUME IInv PROVE RegisteredIsAlive
    <2>0. TypeOK /\ MapHolds /\ Placed /\ LiveApart
      BY <1>2 DEF IInv
    <2>1. ASSUME NEW l \in Loops, NEW c \in epoll[l]
          PROVE  Alive(c) /\ c \notin closed /\ connection_map_[conn_sockfd_[c]] = c
      <3>1. c \in Made /\ c \notin closed /\ connection_map_[conn_sockfd_[c]] = c
        BY <2>0, TypeFacts DEF Placed, MapHolds
      <3>2. conn_sockfd_[c] \in DOMAIN connection_map_
        BY <2>0, <3>1 DEF TypeOK
      <3>. QED  BY <3>1, <3>2 DEF Alive, InMap
    <2>. QED  BY <2>0, <2>1 DEF RegisteredIsAlive, LiveApart
  <1>3. IInv => DescriptorsNameTheirOwn
    BY <1>1, <1>2 DEF DescriptorsNameTheirOwn
  <1>. QED  BY <1>3, InvariantIInv, PTL

\* The callbacks of a connection come in order and from the thread of its loop, with
\* any pool (server.cpp:61, connection.cpp:28-33).
THEOREM CallbacksComeInOrder == Spec => []CallbacksInOrder
  <1>1. IInv => CallbacksInOrder
    BY DEF IInv
  <1>. QED  BY <1>1, InvariantIInv, PTL

\* Without a pool no handler outlives its connection: the removal waits in the queue
\* until the handler that posted it is over (server.cpp:66-70, looper.cpp:80-112).
THEOREM AloneNoHandlerOutlives == Spec => []AloneIsSafe
  <1>1. ASSUME IInv PROVE AloneIsSafe
    <2>0. TypeOK /\ Placed /\ CallbacksInOrder /\ AloneHeld
      BY <1>1 DEF IInv
    <2>1. ASSUME loopers_ = <<>>, NEW l \in Loops, doing[l] # Idle
          PROVE  Alive(doing[l].conn)
      <3>1. doing[l].conn \in Made /\ loop_[doing[l].conn] = l /\ l = Main
        BY <2>0, <2>1 DEF Placed, CallbacksInOrder
      <3>2. CASE doing[l].step = "registering"
        BY <2>1, <3>1, <3>2 DEF Alive, InCall
      <3>3. CASE doing[l].step # "registering"
        <4>1. connection_map_[conn_sockfd_[doing[l].conn]] = doing[l].conn
          BY <2>0, <2>1, <3>1, <3>3 DEF AloneHeld
        <4>2. conn_sockfd_[doing[l].conn] \in DOMAIN connection_map_
          BY <2>0, <3>1 DEF TypeOK
        <4>. QED  BY <3>1, <4>1, <4>2 DEF Alive, InMap
      <3>. QED  BY <3>2, <3>3
    <2>. QED  BY <2>1 DEF AloneIsSafe, HandlerOnLiveConnection
  <1>. QED  BY <1>1, InvariantIInv, PTL
=============================================================================

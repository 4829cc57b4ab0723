---------------------------- MODULE ProducerHash ----------------------------
(***************************************************************************)
(* How a moodycamel::ConcurrentQueue finds the sub-queue of the thread     *)
(* that enqueues (src/src/base/concurrentqueue.h,                          *)
(* get_or_add_implicit_producer): a lock-free hash table from thread to    *)
(* producer with open addressing.  A table that gets full is not copied:   *)
(* a bigger one is put before it, and a thread that finds itself in an     *)
(* older one adds itself to the newest.  New producers are linked into the *)
(* list that try_dequeue goes through.                                     *)
(*                                                                         *)
(* Support for threads that end is compiled out                            *)
(* (concurrentqueue.h:202), so no producer is ever inactive and used by    *)
(* another thread.  Probing is one step: a slot that is taken stays taken, *)
(* and only the thread itself puts its key into a table, so the slots that *)
(* others take meanwhile change neither what a search finds nor that an    *)
(* insertion ends in the first free slot.  ResizeFails is one step, too,   *)
(* though it lowers the count and then lets go of the lock.                *)
(***************************************************************************)
EXTENDS Naturals, Sequences, FiniteSets

CONSTANTS Threads,      \* the threads that enqueue
          Hash,         \* hash_thread_id of each of them
          InvalidId,    \* invalid_thread_id, and no producer
          INITIAL_IMPLICIT_PRODUCER_HASH_SIZE,
          MaxFailures   \* bound: allocations that fail

VARIABLES tables,        \* the hash tables, the newest one last
          hashCount,     \* implicitProducerHashCount
          resizing,      \* implicitProducerHashResizeInProgress
          producerList,  \* the list that begins at producerListTail
          created,       \* producers made so far; their numbers name them
          failures,      \* allocations that have failed
          local,         \* each thread in get_or_add_implicit_producer
          given          \* the producers it has been given

shared == <<tables, hashCount, resizing, producerList, created, failures>>
vars == <<shared, local, given>>

Table(size) == [i \in 0..size - 1 |-> [key |-> InvalidId, value |-> InvalidId]]

Capacity(h) == Cardinality(DOMAIN tables[h])

\* The slot k steps from where the hash of t points to.
Step(t, h, k) == (Hash[t] + k) % Capacity(h)

\* The slots of t or of nobody, as distances from there.
Ends(t, h) == {k \in 0..Capacity(h) - 1 : tables[h][Step(t, h, k)].key \in {t, InvalidId}}

\* Where probing for t ends.  It does not when there is no such slot.
Probe(t, h) == Step(t, h, CHOOSE k \in Ends(t, h) : \A j \in Ends(t, h) : k <= j)

IsIn(t, h) == tables[h][Probe(t, h)].key = t

Idle == [pc |-> "idle", mainHash |-> 0, value |-> InvalidId, newCount |-> 0, prevTail |-> 0]

Init == /\ tables = <<Table(INITIAL_IMPLICIT_PRODUCER_HASH_SIZE)>>
        /\ hashCount = 0
        /\ resizing = FALSE
        /\ producerList = <<>>
        /\ created = 0
        /\ failures = 0
        /\ local = [t \in Threads |-> Idle]
        /\ given = [t \in Threads |-> {}]

-----------------------------------------------------------------------------
\* Thread t goes on from one point of the function with its locals changed.
Goes(t, from, new) == local[t].pc = from /\ local' = [local EXCEPT ![t] = new]

\* It returns with a producer.
Returns(t, from, producer) ==
    /\ Goes(t, from, Idle)
    /\ given' = [given EXCEPT ![t] = @ \cup {producer}]

\* Mutant: the older tables are not searched.
FoundInMain(t) == {Len(tables)} \cap {h \in DOMAIN tables : IsIn(t, h)}

Found(t) == {h \in DOMAIN tables : IsIn(t, h)}

Newest(hs) == CHOOSE h \in hs : \A g \in hs : g <= h

ValueIn(t, h) == tables[h][Probe(t, h)].value

SearchEnds(t) == local[t].pc = "idle" /\ \A h \in DOMAIN tables : Ends(t, h) # {}

\* From the newest table to the oldest one; found in the newest.
SearchFinds(t) ==
    /\ SearchEnds(t)
    /\ Len(tables) \in Found(t)
    /\ Returns(t, "idle", ValueIn(t, Len(tables)))
    /\ UNCHANGED shared

\* Found in an older one: the thread is added to the newest, too.
SearchFindsDeep(t) ==
    /\ SearchEnds(t)
    /\ Found(t) # {} /\ Len(tables) \notin Found(t)
    /\ Goes(t, "idle", [Idle EXCEPT !.pc = "insert", !.mainHash = Len(tables),
                                    !.value = ValueIn(t, Newest(Found(t)))])
    /\ UNCHANGED <<shared, given>>

SearchFindsNothing(t) ==
    /\ SearchEnds(t)
    /\ Found(t) = {}
    /\ Goes(t, "idle", [Idle EXCEPT !.pc = "count", !.mainHash = Len(tables)])
    /\ UNCHANGED <<shared, given>>

Search(t) == SearchFinds(t) \/ SearchFindsDeep(t) \/ SearchFindsNothing(t)

-----------------------------------------------------------------------------
(* A new thread.                                                           *)

CountIn(t) ==
    /\ hashCount' = hashCount + 1
    /\ Goes(t, "count", [local[t] EXCEPT !.pc = "grow", !.newCount = hashCount + 1])
    /\ UNCHANGED <<tables, resizing, producerList, created, failures, given>>

HalfFull(count, size) == count >= size \div 2

\* Half full, and nobody else makes a bigger table: test_and_set.
LockResize(t) ==
    /\ local[t].pc = "grow"
    /\ HalfFull(local[t].newCount, Capacity(local[t].mainHash))
    /\ ~resizing
    /\ resizing' = TRUE
    /\ Goes(t, "grow", [local[t] EXCEPT !.pc = "resize"])
    /\ UNCHANGED <<tables, hashCount, producerList, created, failures, given>>

NoResize(t) ==
    /\ local[t].pc = "grow"
    /\ HalfFull(local[t].newCount, Capacity(local[t].mainHash)) => resizing
    /\ Goes(t, "grow", [local[t] EXCEPT !.pc = "fit"])
    /\ UNCHANGED <<shared, given>>

\* The smallest doubling that is not half full.
NewCapacity(count, size) ==
    CHOOSE c \in {size * 2 ^ k : k \in 1..count + 1} :
        /\ ~HalfFull(count, c)
        /\ \A d \in {size * 2 ^ k : k \in 1..count + 1} : ~HalfFull(count, d) => c <= d

\* The newest table is looked at again under the lock.
Resize(t) ==
    /\ local[t].pc = "resize"
    /\ tables' = IF HalfFull(local[t].newCount, Capacity(Len(tables)))
                 THEN Append(tables, Table(NewCapacity(local[t].newCount, Capacity(Len(tables)))))
                 ELSE tables
    /\ Goes(t, "resize", [local[t] EXCEPT !.pc = "unlock", !.mainHash = Len(tables')])
    /\ UNCHANGED <<hashCount, resizing, producerList, created, failures, given>>

\* No memory for the table or for the producer: the thread is not counted any
\* more, and enqueue returns false.
Fails(t, from) ==
    /\ failures < MaxFailures
    /\ failures' = failures + 1
    /\ hashCount' = hashCount - 1
    /\ Goes(t, from, Idle)

\* Mutant: the flag stays set when there is no memory.
ResizeFailsLocked(t) ==
    /\ local[t].pc = "resize"
    /\ HalfFull(local[t].newCount, Capacity(Len(tables)))
    /\ Fails(t, "resize")
    /\ UNCHANGED <<tables, resizing, producerList, created, given>>

ResizeFails(t) ==
    /\ local[t].pc = "resize"
    /\ HalfFull(local[t].newCount, Capacity(Len(tables)))
    /\ Fails(t, "resize")
    /\ resizing' = FALSE
    /\ UNCHANGED <<tables, producerList, created, given>>

UnlockResize(t) ==
    /\ Goes(t, "unlock", [local[t] EXCEPT !.pc = "fit"])
    /\ resizing' = FALSE
    /\ UNCHANGED <<tables, hashCount, producerList, created, failures, given>>

\* Mutant: a table may be filled up to its last slot.
RoomInAlways(t) == TRUE

\* Less than three quarters full, however far another thread is with a new table.
RoomIn(t) == LET size == Capacity(local[t].mainHash)
             IN local[t].newCount < size \div 2 + size \div 4

WaitForTable(t) ==
    /\ local[t].pc = "fit"
    /\ ~RoomIn(t)
    /\ Goes(t, "fit", [local[t] EXCEPT !.pc = "grow", !.mainHash = Len(tables)])
    /\ UNCHANGED <<shared, given>>

CreateProducer(t) ==
    /\ local[t].pc = "fit"
    /\ RoomIn(t)
    /\ created' = created + 1
    /\ Goes(t, "fit", [local[t] EXCEPT !.pc = "link", !.value = created + 1,
                                       !.newCount = 0, !.prevTail = Len(producerList)])
    /\ UNCHANGED <<tables, hashCount, resizing, producerList, failures, given>>

CreateFails(t) ==
    /\ local[t].pc = "fit"
    /\ RoomIn(t)
    /\ Fails(t, "fit")
    /\ UNCHANGED <<tables, resizing, producerList, created, given>>

\* The list only grows, so its length stands for its tail.
AddProducer(t) ==
    /\ local[t].pc = "link"
    /\ Len(producerList) = local[t].prevTail
    /\ producerList' = Append(producerList, local[t].value)
    /\ Goes(t, "link", [local[t] EXCEPT !.pc = "insert", !.prevTail = 0])
    /\ UNCHANGED <<tables, hashCount, resizing, created, failures, given>>

AddProducerAgain(t) ==
    /\ local[t].pc = "link"
    /\ Len(producerList) # local[t].prevTail
    /\ Goes(t, "link", [local[t] EXCEPT !.prevTail = Len(producerList)])
    /\ UNCHANGED <<shared, given>>

AddThread(t) == CountIn(t) \/ LockResize(t) \/ NoResize(t) \/ Resize(t) \/ ResizeFails(t)
                \/ UnlockResize(t) \/ WaitForTable(t) \/ CreateProducer(t)
                \/ CreateFails(t) \/ AddProducer(t) \/ AddProducerAgain(t)

-----------------------------------------------------------------------------
(* The slot of the thread in the newest table it knows.                    *)

Insert(t) ==
    /\ local[t].pc = "insert"
    /\ Ends(t, local[t].mainHash) # {}
    /\ tables' = [tables EXCEPT ![local[t].mainHash][Probe(t, local[t].mainHash)] =
                      [key |-> t, value |-> local[t].value]]
    /\ Returns(t, "insert", local[t].value)
    /\ UNCHANGED <<hashCount, resizing, producerList, created, failures>>

GetOrAdd(t) == Search(t) \/ AddThread(t) \/ Insert(t)

Next == \E t \in Threads : GetOrAdd(t)

Spec == Init /\ [][Next]_vars

\* Each thread that has called the function is scheduled.
Fairness == \A t \in Threads : WF_vars(local[t].pc # "idle" /\ GetOrAdd(t))

FairSpec == Spec /\ Fairness

-----------------------------------------------------------------------------
(* Properties.                                                             *)

TypeOK ==
    /\ \A h \in DOMAIN tables : \A i \in DOMAIN tables[h] :
          /\ tables[h][i].key \in Threads \cup {InvalidId}
          /\ tables[h][i].value \in 1..created \cup {InvalidId}
    /\ hashCount \in 0..Cardinality(Threads)
    /\ resizing \in BOOLEAN
    /\ producerList \in Seq(1..created)
    /\ failures \in 0..MaxFailures
    /\ \A t \in Threads : local[t].mainHash \in 0..Len(tables) /\ given[t] \subseteq 1..created

\* A thread is given the same producer whenever it asks, no other thread is given
\* it, and try_dequeue finds it in its list: the sub-queues have one writer each,
\* and the tasks of a thread stay in order
\* (concurrentqueue.h:3158-3170, 3294-3433).
OneProducerPerThread ==
    \A t \in Threads : \A p \in given[t] :
        /\ given[t] = {p}
        /\ \A u \in Threads \ {t} : p \notin given[u]
        /\ p \in {producerList[i] : i \in DOMAIN producerList}

\* "at least one slot is free in the hash table" (concurrentqueue.h:3317), which
\* the probing relies on to end, and a newest table has room for all that the
\* older ones hold (concurrentqueue.h:3329-3331).
TablesHaveRoom ==
    \A h \in DOMAIN tables : \E i \in DOMAIN tables[h] : tables[h][i].key = InvalidId

\* Every call returns, also when the tables are full and the thread that makes the
\* bigger one is slow or gets no memory: as each thread comes to its producer after
\* a bounded number of calls that are not a mere search, there is again and again
\* a moment when no call is under way (concurrentqueue.h:3359-3441).
CallsReturn == []<>(\A t \in Threads : local[t].pc = "idle")
=============================================================================

-------------------------- MODULE ConcurrentQueue --------------------------
(***************************************************************************)
(* The three mechanisms of moodycamel::ConcurrentQueue that the task       *)
(* queues of the event loops rely on (src/src/base/concurrentqueue.h): the *)
(* list of free blocks, the sub-queue of one producer, and the hash table  *)
(* from threads to producers.  They have no variable in common: a          *)
(* sub-queue uses the pool through BlockPool, which FreeList implements,   *)
(* and the hash table hands out producers without looking into them.  So   *)
(* each behaviour moves one of them, and between them the behaviours are   *)
(* those of all three.                                                     *)
(***************************************************************************)
EXTENDS Naturals

CONSTANTS Threads, NoNode,
          Nodes, SHOULD_BE_ON_FREELIST,
          Consumers, NumBlocks, initialBlockPoolSize, BLOCK_SIZE,
          IMPLICIT_INITIAL_INDEX_SIZE, MaxEnqueues, MaxMisses,
          Hash, INITIAL_IMPLICIT_PRODUCER_HASH_SIZE, MaxFailures

VARIABLES
    part,   \* the mechanism that is at work
    \* FreeList
    freeListHead, freeListRefs, freeListNext, used, pc, head, node, loaded,
    \* ImplicitProducer
    tailIndex, headIndex, dequeueOptimisticCount, dequeueOvercommit, entries, headers,
    elements, elementsCompletelyDequeued, initialBlockPoolIndex, uses, producer, consumer,
    \* ProducerHash
    tables, hashCount, resizing, producerList, created, failures, local, given

FL == INSTANCE FreeList
IP == INSTANCE ImplicitProducer WITH None <- NoNode
PH == INSTANCE ProducerHash WITH InvalidId <- NoNode

freeList == <<freeListHead, freeListRefs, freeListNext, used, pc, head, node, loaded>>
subQueue == <<tailIndex, headIndex, dequeueOptimisticCount, dequeueOvercommit, entries,
              headers, elements, elementsCompletelyDequeued, initialBlockPoolIndex, uses,
              producer, consumer>>
hash == <<tables, hashCount, resizing, producerList, created, failures, local, given>>
vars == <<part, freeList, subQueue, hash>>

Init == /\ part \in {"free list", "sub-queue", "hash"}
        /\ FL!Init /\ IP!Init /\ PH!Init

FreeListStep == part = "free list" /\ FL!Next /\ UNCHANGED <<part, subQueue, hash>>

SubQueueStep == part = "sub-queue" /\ IP!Next /\ UNCHANGED <<part, freeList, hash>>

HashStep == part = "hash" /\ PH!Next /\ UNCHANGED <<part, freeList, subQueue>>

Next == FreeListStep \/ SubQueueStep \/ HashStep

\* Each thread that has asked for its producer is scheduled.
Spec == Init /\ [][Next]_vars /\ PH!Fairness

-----------------------------------------------------------------------------
(* Properties: those of the mechanism at work.                             *)

TypeOK == CASE part = "free list" -> FL!TypeOK
            [] part = "sub-queue" -> IP!TypeOK
            [] part = "hash"      -> PH!TypeOK

\* FreeList: no free block is lost or in two places (concurrentqueue.h:1389-1451).
\* ImplicitProducer: no consumer that came for nothing is lost to the counters of
\* dequeue, and none takes an element that is not there, however late it reads them
\* (concurrentqueue.h:2476-2489, 2534).
NothingLost == /\ part = "free list" => FL!NoneLost
               /\ part = "sub-queue" => IP!CountsAgree /\ IP!NeverOvertakes

\* FreeList: no block that is in use is handed out (concurrentqueue.h:1389-1426).
RefinesPool == FL!RefinesPool

\* ImplicitProducer: a sub-queue is a first-in first-out queue, each of whose
\* elements goes to one consumer (concurrentqueue.h:2410-2542).
RefinesFifo == IP!RefinesFifo

\* ProducerHash: a thread has one sub-queue, of its own, that try_dequeue finds; and
\* probing ends, as every table has a free slot (concurrentqueue.h:3294-3433).
ProducersFound == part = "hash" => PH!OneProducerPerThread /\ PH!TablesHaveRoom

\* ProducerHash: a thread that asks for its producer gets an answer, although it
\* may have to wait for the one that makes a bigger table
\* (concurrentqueue.h:3359-3441).
CallsReturn == PH!CallsReturn
=============================================================================

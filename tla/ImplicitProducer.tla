-------------------------- MODULE ImplicitProducer --------------------------
(***************************************************************************)
(* The sub-queue that moodycamel::ConcurrentQueue keeps for each thread    *)
(* that enqueues without a token (src/src/base/concurrentqueue.h, struct   *)
(* ImplicitProducer): one producer and some consumers, elements in blocks  *)
(* that a circular index finds, blocks that come from a shared pool and go *)
(* back to it with their last element, an index that doubles when it is    *)
(* full, and no lock.                                                      *)
(*                                                                         *)
(* A step has at most one access to what others read or write, in the      *)
(* order of the code, as sequentially consistent atomics; accesses to what *)
(* nobody else can reach yet are part of the step before them.  Only       *)
(* RewindBlockIndexTail has two, as no consumer looks for the entry that   *)
(* it gives up.  Indices are 64 bits wide in the code and do not wrap.     *)
(***************************************************************************)
EXTENDS Integers, Sequences, FiniteSets

CONSTANTS Consumers,                    \* the threads that dequeue
          NumBlocks,                    \* the blocks there is memory for
          initialBlockPoolSize,         \* those of the initial pool
          BLOCK_SIZE,                   \* elements in a block
          IMPLICIT_INITIAL_INDEX_SIZE,  \* entries of the first block index
          MaxEnqueues,                  \* bound: elements ever enqueued
          MaxMisses,                    \* bound: dequeues that counted in vain
          None                          \* nullptr, and no element

VARIABLES tailIndex, headIndex,
          dequeueOptimisticCount, dequeueOvercommit,
          entries,     \* the entries of all block indices: key and value
          headers,     \* every BlockIndexHeader there was: tail and index
          elements,    \* the elements of each block
          elementsCompletelyDequeued,
          initialBlockPoolIndex,
          uses,        \* how many times each block is in use: the pool
          producer,    \* the producer in enqueue: where it is, its newTail and block
          consumer     \* each consumer in dequeue

counters == <<tailIndex, headIndex, dequeueOptimisticCount, dequeueOvercommit>>
index == <<entries, headers>>
storage == <<elements, elementsCompletelyDequeued>>
pool == <<initialBlockPoolIndex, uses>>
vars == <<counters, index, storage, pool, producer, consumer>>

Blocks == 1..NumBlocks

Pool == INSTANCE BlockPool

INVALID_BLOCK_BASE == 1

Slot(i) == i % BLOCK_SIZE
Base(i) == i - Slot(i)

\* blockIndex: the header that was made last.
blockIndex == Len(headers)
Capacity(h) == Cardinality(DOMAIN headers[h].index)
EntryAt(h, slot) == headers[h].index[slot]

IdleProducer == [pc |-> "idle", newTail |-> 0, block |-> None]
IdleConsumer == [pc |-> "idle", tail |-> 0, overcommit |-> 0, count |-> 0, index |-> 0,
                 header |-> 0, slot |-> 0, entry |-> 0, block |-> None, element |-> None]

FreshEntries(n) == [i \in 1..n |-> [key |-> INVALID_BLOCK_BASE, value |-> None]]

Init ==
    /\ tailIndex = 0 /\ headIndex = 0
    /\ dequeueOptimisticCount = 0 /\ dequeueOvercommit = 0
    /\ entries = FreshEntries(IMPLICIT_INITIAL_INDEX_SIZE)
    /\ headers = <<[tail |-> IMPLICIT_INITIAL_INDEX_SIZE - 1,
                    index |-> [i \in 0..IMPLICIT_INITIAL_INDEX_SIZE - 1 |-> i + 1]]>>
    /\ elements = [b \in Blocks |-> [i \in 0..BLOCK_SIZE - 1 |-> None]]
    /\ elementsCompletelyDequeued = [b \in Blocks |-> 0]
    /\ initialBlockPoolIndex = 0 /\ uses = [b \in Blocks |-> 0]
    /\ producer = IdleProducer
    /\ consumer = [c \in Consumers |-> IdleConsumer]

-----------------------------------------------------------------------------
(* enqueue.                                                                *)

\* The element is made and the tail moves past it.  What is enqueued is numbered
\* in the order in which it comes.
Store(b) ==
    /\ elements' = [elements EXCEPT ![b][Slot(tailIndex)] = tailIndex]
    /\ tailIndex' = tailIndex + 1
    /\ UNCHANGED <<headIndex, dequeueOptimisticCount, dequeueOvercommit, index,
                   elementsCompletelyDequeued, pool, consumer>>

\* The tail's block has room left.  tailBlock is kept while it is being filled.
EnqueueInBlock ==
    /\ producer.pc = "idle"
    /\ tailIndex < MaxEnqueues
    /\ Slot(tailIndex) # 0
    /\ Store(producer.block)
    /\ UNCHANGED producer

NextTail(h) == (headers[h].tail + 1) % Capacity(h)

IsFree(entry) == entry.key = INVALID_BLOCK_BASE \/ entry.value = None

\* insert_block_index_entry: the next entry of the index is free.
FindEntry ==
    /\ producer.pc = "idle"
    /\ tailIndex < MaxEnqueues
    /\ Slot(tailIndex) = 0
    /\ IsFree(entries[EntryAt(blockIndex, NextTail(blockIndex))])
    /\ producer' = [pc |-> "key", newTail |-> NextTail(blockIndex), block |-> None]
    /\ UNCHANGED <<counters, index, storage, pool, consumer>>

\* Mutant: the old entries are copied from the front of the array.
DoubledUnrotated(h) ==
    LET size == Capacity(h)
    IN [tail  |-> size - 1,
        index |-> [i \in 0..2 * size - 1 |->
                      IF i < size THEN EntryAt(h, i) ELSE Len(entries) + 1 + i - size]]

\* new_block_index: the old entries in their order, from the oldest one on, and
\* as many new ones behind them.
Doubled(h) ==
    LET size == Capacity(h)
    IN [tail  |-> size - 1,
        index |-> [i \in 0..2 * size - 1 |->
                      IF i < size THEN EntryAt(h, (headers[h].tail + 1 + i) % size)
                                  ELSE Len(entries) + 1 + i - size]]

\* The index is full: it is doubled, and the next entry is a new one.  Without
\* memory for that, enqueue returns false and nothing has changed.
NewBlockIndex ==
    /\ producer.pc = "idle"
    /\ tailIndex < MaxEnqueues
    /\ Slot(tailIndex) = 0
    /\ ~IsFree(entries[EntryAt(blockIndex, NextTail(blockIndex))])
    /\ headers' = Append(headers, Doubled(blockIndex))
    /\ entries' = entries \o FreshEntries(Capacity(blockIndex))
    /\ producer' = [pc |-> "key", newTail |-> Capacity(blockIndex), block |-> None]
    /\ UNCHANGED <<counters, storage, pool, consumer>>

NewEntry == EntryAt(blockIndex, producer.newTail)

StoreKey ==
    /\ producer.pc = "key"
    /\ entries' = [entries EXCEPT ![NewEntry].key = tailIndex]
    /\ producer' = [producer EXCEPT !.pc = "tail"]
    /\ UNCHANGED <<counters, headers, storage, pool, consumer>>

StoreTail ==
    /\ producer.pc = "tail"
    /\ headers' = [headers EXCEPT ![blockIndex].tail = producer.newTail]
    /\ producer' = [producer EXCEPT !.pc = "block"]
    /\ UNCHANGED <<counters, entries, storage, pool, consumer>>

\* requisition_block and reset_empty: the blocks of the initial pool one after
\* the other, then whatever the free list has or memory there is.
RequisitionBlock(b) ==
    /\ producer.pc = "block"
    /\ \/ /\ initialBlockPoolIndex < initialBlockPoolSize
          /\ b = initialBlockPoolIndex + 1
          /\ initialBlockPoolIndex' = initialBlockPoolIndex + 1
       \/ /\ initialBlockPoolIndex = initialBlockPoolSize
          /\ UNCHANGED initialBlockPoolIndex
    /\ Pool!Acquire(b)
    /\ elementsCompletelyDequeued' = [elementsCompletelyDequeued EXCEPT ![b] = 0]
    /\ producer' = [producer EXCEPT !.pc = "value", !.block = b]
    /\ UNCHANGED <<counters, index, elements, consumer>>

\* No block in the pool and no memory for one: the tail of the index goes back
\* and enqueue returns false.
RewindBlockIndexTail ==
    /\ producer.pc = "block"
    /\ initialBlockPoolIndex = initialBlockPoolSize
    /\ headers' = [headers EXCEPT ![blockIndex].tail = (@ - 1) % Capacity(blockIndex)]
    /\ entries' = [entries EXCEPT ![NewEntry].value = None]
    /\ producer' = IdleProducer
    /\ UNCHANGED <<counters, storage, pool, consumer>>

StoreValue ==
    /\ producer.pc = "value"
    /\ entries' = [entries EXCEPT ![NewEntry].value = producer.block]
    /\ producer' = [producer EXCEPT !.pc = "store"]
    /\ UNCHANGED <<counters, headers, storage, pool, consumer>>

EnqueueFirst ==
    /\ producer.pc = "store"
    /\ Store(producer.block)
    /\ producer' = [IdleProducer EXCEPT !.block = producer.block]

Enqueue == \/ EnqueueInBlock \/ EnqueueFirst \/ FindEntry \/ NewBlockIndex
           \/ StoreKey \/ StoreTail \/ StoreValue
           \/ \E b \in Blocks : RequisitionBlock(b)

-----------------------------------------------------------------------------
(* dequeue.                                                                *)

\* Consumer c goes on from one point of dequeue with some of its locals set.
Goes(c, from, new) ==
    /\ consumer[c].pc = from
    /\ consumer' = [consumer EXCEPT ![c] = new]

LoadTail(c) ==
    /\ Goes(c, "idle", [IdleConsumer EXCEPT !.pc = "overcommit", !.tail = tailIndex])
    /\ UNCHANGED <<counters, index, storage, pool, producer>>

LoadOvercommit(c) ==
    /\ Goes(c, "overcommit", [consumer[c] EXCEPT !.pc = "test", !.overcommit = dequeueOvercommit])
    /\ UNCHANGED <<counters, index, storage, pool, producer>>

\* It looks empty, and dequeue returns false.
LooksEmpty(c) ==
    /\ consumer[c].pc = "test"
    /\ dequeueOptimisticCount - consumer[c].overcommit >= consumer[c].tail
    /\ Goes(c, "test", IdleConsumer)
    /\ UNCHANGED <<counters, index, storage, pool, producer>>

LooksNonEmpty(c) ==
    /\ consumer[c].pc = "test"
    /\ dequeueOptimisticCount - consumer[c].overcommit < consumer[c].tail
    /\ dequeueOvercommit < MaxMisses
    /\ Goes(c, "test", [consumer[c] EXCEPT !.pc = "count", !.tail = 0])
    /\ UNCHANGED <<counters, index, storage, pool, producer>>

CountIn(c) ==
    /\ Goes(c, "count", [consumer[c] EXCEPT !.pc = "tail", !.count = dequeueOptimisticCount])
    /\ dequeueOptimisticCount' = dequeueOptimisticCount + 1
    /\ UNCHANGED <<tailIndex, headIndex, dequeueOvercommit, index, storage, pool, producer>>

\* Mutant: a consumer that has been overtaken takes an element all the same.
MayTakeAlways(c) == TRUE

\* The count, less those that came for nothing, is the number of elements that
\* were promised before.
MayTake(c) == consumer[c].count - consumer[c].overcommit < tailIndex

Decide(c) ==
    /\ Goes(c, "tail", [IdleConsumer EXCEPT !.pc = IF MayTake(c) THEN "take" ELSE "miss"])
    /\ UNCHANGED <<counters, index, storage, pool, producer>>

\* Mutant: a consumer that came for nothing does not say so.
MissSilently(c) ==
    /\ Goes(c, "miss", IdleConsumer)
    /\ UNCHANGED <<counters, index, storage, pool, producer>>

\* It came for nothing: dequeue returns false.
Miss(c) ==
    /\ Goes(c, "miss", IdleConsumer)
    /\ dequeueOvercommit' = dequeueOvercommit + 1
    /\ UNCHANGED <<tailIndex, headIndex, dequeueOptimisticCount, index, storage, pool, producer>>

Take(c) ==
    /\ Goes(c, "take", [consumer[c] EXCEPT !.pc = "header", !.index = headIndex])
    /\ headIndex' = headIndex + 1
    /\ UNCHANGED <<tailIndex, dequeueOptimisticCount, dequeueOvercommit, index, storage,
                   pool, producer>>

\* The newest index and its tail: the tail of an index does not move any more once
\* there is a newer one, so the two reads may as well be one.
LoadHeader(c) ==
    /\ Goes(c, "header", [consumer[c] EXCEPT !.pc = "key", !.header = blockIndex,
                                             !.slot = headers[blockIndex].tail])
    /\ UNCHANGED <<counters, index, storage, pool, producer>>

\* get_block_index_index_for_index: from the tail and its key back to the entry
\* of the element's block.
EntryOf(c) ==
    LET h == consumer[c].header
        slot == consumer[c].slot
        tailBase == entries[EntryAt(h, slot)].key
        offset == (Base(consumer[c].index) - tailBase) \div BLOCK_SIZE
    IN EntryAt(h, (slot + offset) % Capacity(h))

LoadKey(c) ==
    /\ consumer[c].pc = "key"
    /\ Goes(c, "key", [IdleConsumer EXCEPT !.pc = "value", !.index = consumer[c].index,
                                           !.entry = EntryOf(c)])
    /\ UNCHANGED <<counters, index, storage, pool, producer>>

\* The block, and the element out of it.
LoadValue(c) ==
    /\ consumer[c].pc = "value"
    /\ LET b == entries[consumer[c].entry].value
           slot == Slot(consumer[c].index)
       IN /\ Goes(c, "value", [IdleConsumer EXCEPT !.pc = "empty", !.entry = consumer[c].entry,
                                                   !.block = b, !.element = elements[b][slot]])
          /\ elements' = [elements EXCEPT ![b][slot] = None]
    /\ UNCHANGED <<counters, index, elementsCompletelyDequeued, pool, producer>>

\* set_empty: the one that takes the last element of a block gives it back.
SetEmpty(c) ==
    LET b == consumer[c].block
    IN /\ consumer[c].pc = "empty"
       /\ elementsCompletelyDequeued' = [elementsCompletelyDequeued EXCEPT ![b] = @ + 1]
       /\ Goes(c, "empty", IF elementsCompletelyDequeued[b] = BLOCK_SIZE - 1
                           THEN [consumer[c] EXCEPT !.pc = "clear"] ELSE IdleConsumer)
       /\ UNCHANGED <<counters, index, elements, pool, producer>>

ClearEntry(c) ==
    /\ Goes(c, "clear", [consumer[c] EXCEPT !.pc = "release"])
    /\ entries' = [entries EXCEPT ![consumer[c].entry].value = None]
    /\ UNCHANGED <<counters, headers, storage, pool, producer>>

AddBlockToFreeList(c) ==
    /\ Goes(c, "release", IdleConsumer)
    /\ Pool!Release(consumer[c].block)
    /\ UNCHANGED <<counters, index, storage, initialBlockPoolIndex, producer>>

Dequeue(c) ==
    \/ LoadTail(c) \/ LoadOvercommit(c) \/ LooksEmpty(c) \/ LooksNonEmpty(c)
    \/ CountIn(c) \/ Decide(c) \/ Miss(c) \/ Take(c)
    \/ LoadHeader(c) \/ LoadKey(c) \/ LoadValue(c)
    \/ SetEmpty(c) \/ ClearEntry(c) \/ AddBlockToFreeList(c)

Next == Enqueue \/ RewindBlockIndexTail \/ \E c \in Consumers : Dequeue(c)

Spec == Init /\ [][Next]_vars

-----------------------------------------------------------------------------
(* Properties.                                                             *)

ProducerPcs == {"idle", "key", "tail", "block", "value", "store"}
ConsumerPcs == {"idle", "overcommit", "test", "count", "tail", "miss", "take", "header",
                "key", "value", "empty", "clear", "release"}

TypeOK ==
    /\ tailIndex \in 0..MaxEnqueues
    /\ headIndex \in 0..tailIndex
    /\ dequeueOptimisticCount \in Nat
    /\ dequeueOvercommit \in 0..dequeueOptimisticCount
    /\ \A k \in DOMAIN entries : /\ entries[k].key \in Nat
                                 /\ \/ entries[k].value = None
                                    \/ uses[entries[k].value] = 1
    /\ \A h \in DOMAIN headers : /\ headers[h].tail \in DOMAIN headers[h].index
                                 /\ \A i \in DOMAIN headers[h].index :
                                        EntryAt(h, i) \in DOMAIN entries
    /\ uses \in [Blocks -> 0..1]
    /\ \A b \in Blocks : elementsCompletelyDequeued[b] \in 0..BLOCK_SIZE
    /\ producer.pc \in ProducerPcs /\ producer.block \in Blocks \cup {None}
    /\ \A c \in Consumers : /\ consumer[c].pc \in ConsumerPcs
                            /\ consumer[c].pc \in {"empty", "clear", "release"} =>
                                   uses[consumer[c].block] = 1

\* The element with index i, found through the index.
Content(i) ==
    LET found == {k \in DOMAIN entries : entries[k].key = Base(i) /\ entries[k].value # None}
    IN IF found = {} THEN None
       ELSE elements[entries[CHOOSE k \in found : TRUE].value][Slot(i)]

TakenBy(c) == CASE consumer[c].pc \in {"header", "key", "value"} ->
                       Content(consumer[c].index)
                [] consumer[c].pc \in {"empty", "clear", "release"} -> consumer[c].element
                [] OTHER -> None

\* The sub-queue is a ProducerFifo: elements leave in order, each of them once and
\* as it was put in, although the consumers read the index while the producer
\* moves and doubles it and blocks are emptied and used again, and no consumer
\* takes an element that is not there yet (concurrentqueue.h:2410-2542, 2816-2918).
Fifo == INSTANCE ProducerFifo
            WITH put <- tailIndex,
                 first <- headIndex,
                 taken <- [c \in Consumers |-> TakenBy(c)],
                 NoElement <- None

RefinesFifo == Fifo!Spec

\* The optimistic count, less what was counted in vain, is the head and those on
\* their way to it, however late the consumers read the two counters: when nobody
\* is under way it is the head itself, so that a dequeue that then finds an element
\* gets it (concurrentqueue.h:2476-2489, 2534).
CountsAgree ==
    dequeueOptimisticCount - dequeueOvercommit =
        headIndex + Cardinality({c \in Consumers : consumer[c].pc \in {"tail", "take", "miss"}})

\* No more elements are granted than there are: a consumer that has compared its
\* count with the tail finds its element, whoever has come and gone between its
\* reads of the counters, and however long ago they were
\* (concurrentqueue.h:2476-2489).
NeverOvertakes ==
    headIndex + Cardinality({c \in Consumers : consumer[c].pc = "take"}) <= tailIndex
=============================================================================

------------------------------ MODULE FreeList ------------------------------
(***************************************************************************)
(* The lock-free list of free blocks of moodycamel::ConcurrentQueue        *)
(* (src/src/base/concurrentqueue.h, struct FreeList): a stack whose nodes  *)
(* are counted, so that no node is popped and pushed again while another   *)
(* thread still compares the head with it.  The list itself has one        *)
(* reference to each of its nodes, and the top bit of the count asks       *)
(* whoever drops the last reference to put the node on the list.           *)
(*                                                                         *)
(* Every step has one access to shared memory, in the order of the code,   *)
(* as sequentially consistent atomics.  Only GetReload has two, the test   *)
(* that sends a thread back and its next read of the head, between which   *)
(* it has a reference to nothing.                                          *)
(***************************************************************************)
EXTENDS Integers, FiniteSets

CONSTANTS Threads,                \* the threads that use the list
          Nodes,                  \* the blocks
          NoNode,                 \* nullptr
          SHOULD_BE_ON_FREELIST   \* the top bit of freeListRefs, above any count


VARIABLES freeListHead,
          freeListRefs,   \* the count of each node, its top bit included
          freeListNext,
          used,           \* the nodes that are in use, by whatever thread
          pc,             \* where each thread is in add or try_get
          head,           \* its local head of try_get
          node,           \* the node it puts on the list, or its prevHead
          loaded          \* what it has read and compares or stores next

shared == <<freeListHead, freeListRefs, freeListNext>>
locals == <<pc, head, node, loaded>>
vars == <<shared, used, locals>>

OrNull == Nodes \cup {NoNode}

\* freeListRefs & REFS_MASK
Count(refs) == refs % SHOULD_BE_ON_FREELIST

Pushes == {"push", "link", "publish", "insert", "back"}

TypeOK ==
    /\ freeListHead \in OrNull
    /\ freeListRefs \in [Nodes -> 0..2 * SHOULD_BE_ON_FREELIST - 1]
    /\ freeListNext \in [Nodes -> OrNull]
    /\ used \subseteq Nodes
    /\ pc \in [Threads -> Pushes \cup {"idle", "refs", "count", "next", "pop",
                                       "take", "unref"}]
    /\ head \in [Threads -> OrNull]
    /\ node \in [Threads -> OrNull]
    /\ loaded \in [Threads -> OrNull \cup 0..2 * SHOULD_BE_ON_FREELIST - 1]
    /\ \A n \in Nodes : Count(freeListRefs[n]) <= Cardinality(Threads) + 1

\* An empty list, and every node handed out.
Init == /\ freeListHead = NoNode
        /\ freeListRefs = [n \in Nodes |-> 0]
        /\ freeListNext = [n \in Nodes |-> NoNode]
        /\ used = Nodes
        /\ pc = [t \in Threads |-> "idle"]
        /\ head = [t \in Threads |-> NoNode]
        /\ node = [t \in Threads |-> NoNode]
        /\ loaded = [t \in Threads |-> NoNode]

-----------------------------------------------------------------------------
Goto(t, from, to) == pc[t] = from /\ pc' = [pc EXCEPT ![t] = to]

\* fetch_add and fetch_sub, as wide as the count and its top bit.
AddRefs(n, k) ==
    freeListRefs' = [freeListRefs EXCEPT ![n] = (@ + k) % (2 * SHOULD_BE_ON_FREELIST)]

\* Back to the test of try_get's loop with the head read last: the loop goes on,
\* or it is null and the call returns.  An add has no head and returns.
Resume(t, from, h) ==
    /\ Goto(t, from, IF h = NoNode THEN "idle" ELSE "refs")
    /\ head' = [head EXCEPT ![t] = h]
    /\ loaded' = [loaded EXCEPT ![t] = NoNode]

-----------------------------------------------------------------------------
(* add_knowing_refcount_is_zero.                                           *)

PushLoad(t) ==
    /\ Goto(t, "push", "link")
    /\ loaded' = [loaded EXCEPT ![t] = freeListHead]
    /\ UNCHANGED <<shared, used, head, node>>

PushLink(t) ==
    /\ Goto(t, "link", "publish")
    /\ freeListNext' = [freeListNext EXCEPT ![node[t]] = loaded[t]]
    /\ UNCHANGED <<freeListHead, freeListRefs, used, head, node, loaded>>

\* The list's own reference, and no request any more.
PushPublish(t) ==
    /\ Goto(t, "publish", "insert")
    /\ freeListRefs' = [freeListRefs EXCEPT ![node[t]] = 1]
    /\ UNCHANGED <<freeListHead, freeListNext, used, head, node, loaded>>

PushInsert(t) ==
    /\ pc[t] = "insert"
    /\ freeListHead = loaded[t]
    /\ freeListHead' = node[t]
    /\ Resume(t, "insert", head[t])
    /\ node' = [node EXCEPT ![t] = NoNode]
    /\ UNCHANGED <<freeListRefs, freeListNext, used>>

PushInsertFails(t) ==
    /\ Goto(t, "insert", "back")
    /\ freeListHead # loaded[t]
    /\ loaded' = [loaded EXCEPT ![t] = freeListHead]
    /\ UNCHANGED <<shared, used, head, node>>

\* The list's reference is exchanged for the request; the node can be tried
\* again only if nobody else has a reference meanwhile.
PushBack(t) ==
    /\ pc[t] = "back"
    /\ AddRefs(node[t], SHOULD_BE_ON_FREELIST - 1)
    /\ \/ /\ freeListRefs[node[t]] = 1
          /\ Goto(t, "back", "link")
          /\ UNCHANGED <<head, node, loaded>>
       \/ /\ freeListRefs[node[t]] # 1
          /\ Resume(t, "back", head[t])
          /\ node' = [node EXCEPT ![t] = NoNode]
    /\ UNCHANGED <<freeListHead, freeListNext, used>>

Push(t) == PushLoad(t) \/ PushLink(t) \/ PushPublish(t) \/ PushInsert(t)
           \/ PushInsertFails(t) \/ PushBack(t)

-----------------------------------------------------------------------------
(* add.                                                                    *)

\* Mutant: the node goes on the list although others still have a reference to it.
AddAlways(t, n) ==
    /\ n \in used
    /\ used' = used \ {n}
    /\ AddRefs(n, SHOULD_BE_ON_FREELIST)
    /\ Goto(t, "idle", "push")
    /\ node' = [node EXCEPT ![t] = n]
    /\ UNCHANGED <<freeListHead, freeListNext, head, loaded>>

Add(t, n) ==
    /\ n \in used
    /\ used' = used \ {n}
    /\ AddRefs(n, SHOULD_BE_ON_FREELIST)
    /\ \/ /\ freeListRefs[n] = 0
          /\ Goto(t, "idle", "push")
          /\ node' = [node EXCEPT ![t] = n]
       \/ /\ freeListRefs[n] # 0
          /\ pc[t] = "idle"
          /\ UNCHANGED <<pc, node>>
    /\ UNCHANGED <<freeListHead, freeListNext, head, loaded>>

-----------------------------------------------------------------------------
(* try_get.                                                                *)

GetLoad(t) ==
    /\ pc[t] = "idle"
    /\ Resume(t, "idle", freeListHead)
    /\ UNCHANGED <<shared, used, node>>

\* The count is zero, or it has changed since it was read: from the head again.
GetReload(t) ==
    /\ \/ pc[t] = "refs" /\ Count(freeListRefs[head[t]]) = 0
       \/ pc[t] = "count" /\ freeListRefs[head[t]] # loaded[t]
    /\ Resume(t, pc[t], freeListHead)
    /\ UNCHANGED <<shared, used, node>>

GetRefs(t) ==
    /\ Goto(t, "refs", "count")
    /\ Count(freeListRefs[head[t]]) # 0
    /\ loaded' = [loaded EXCEPT ![t] = freeListRefs[head[t]]]
    /\ UNCHANGED <<shared, used, head, node>>

GetCount(t) ==
    /\ Goto(t, "count", "next")
    /\ freeListRefs[head[t]] = loaded[t]
    /\ AddRefs(head[t], 1)
    /\ loaded' = [loaded EXCEPT ![t] = NoNode]
    /\ UNCHANGED <<freeListHead, freeListNext, used, head, node>>

GetNext(t) ==
    /\ Goto(t, "next", "pop")
    /\ loaded' = [loaded EXCEPT ![t] = freeListNext[head[t]]]
    /\ UNCHANGED <<shared, used, head, node>>

GetPop(t) ==
    /\ Goto(t, "pop", "take")
    /\ freeListHead = head[t]
    /\ freeListHead' = loaded[t]
    /\ loaded' = [loaded EXCEPT ![t] = NoNode]
    /\ UNCHANGED <<freeListRefs, freeListNext, used, head, node>>

GetPopFails(t) ==
    /\ Goto(t, "pop", "unref")
    /\ freeListHead # head[t]
    /\ node' = [node EXCEPT ![t] = head[t]]
    /\ head' = [head EXCEPT ![t] = freeListHead]
    /\ loaded' = [loaded EXCEPT ![t] = NoNode]
    /\ UNCHANGED <<shared, used>>

\* The thread's own reference and the list's.
GetTake(t) ==
    /\ Goto(t, "take", "idle")
    /\ AddRefs(head[t], -2)
    /\ used' = used \cup {head[t]}
    /\ head' = [head EXCEPT ![t] = NoNode]
    /\ UNCHANGED <<freeListHead, freeListNext, node, loaded>>

\* Mutant: the last to drop its reference forgets the request.
GetUnrefForgets(t) ==
    /\ pc[t] = "unref"
    /\ AddRefs(node[t], -1)
    /\ Resume(t, "unref", head[t])
    /\ node' = [node EXCEPT ![t] = NoNode]
    /\ UNCHANGED <<freeListHead, freeListNext, used>>

GetUnref(t) ==
    /\ pc[t] = "unref"
    /\ AddRefs(node[t], -1)
    /\ \/ /\ freeListRefs[node[t]] = SHOULD_BE_ON_FREELIST + 1
          /\ Goto(t, "unref", "push")
          /\ UNCHANGED <<head, node, loaded>>
       \/ /\ freeListRefs[node[t]] # SHOULD_BE_ON_FREELIST + 1
          /\ Resume(t, "unref", head[t])
          /\ node' = [node EXCEPT ![t] = NoNode]
    /\ UNCHANGED <<freeListHead, freeListNext, used>>

TryGet(t) == GetLoad(t) \/ GetReload(t) \/ GetRefs(t) \/ GetCount(t) \/ GetNext(t)
             \/ GetPop(t) \/ GetPopFails(t) \/ GetTake(t) \/ GetUnref(t)

Next == \E t \in Threads : Push(t) \/ TryGet(t) \/ \E n \in Nodes : Add(t, n)

Spec == Init /\ [][Next]_vars

-----------------------------------------------------------------------------
(* Properties.                                                             *)

\* The threads that have popped a node and not returned with it yet.
Takers(n) == {t \in Threads : pc[t] = "take" /\ head[t] = n}

\* The list is a BlockPool: no thread ever pops a node that another one has
\* popped and not given back, whatever happened to the head between the read of
\* a node's next and the exchange of the head (concurrentqueue.h:1389-1426).
Pool == INSTANCE BlockPool
            WITH Blocks <- Nodes,
                 uses <- [n \in Nodes |-> Cardinality(Takers(n)) + IF n \in used THEN 1 ELSE 0]

RefinesPool == Pool!Spec

\* The nodes that are reached from the head.
Listed ==
    LET upTo[k \in 0..Cardinality(Nodes)] ==
            IF k = 0 THEN {freeListHead}
            ELSE upTo[k - 1] \cup {freeListNext[n] : n \in upTo[k - 1] \ {NoNode}}
    IN upTo[Cardinality(Nodes)] \ {NoNode}

BeingPushed == {node[t] : t \in {u \in Threads : pc[u] \in Pushes}}

\* Nodes with a request that one who still has a reference will find.
Requested ==
    {n \in Nodes : /\ freeListRefs[n] > SHOULD_BE_ON_FREELIST
                   /\ \E t \in Threads : \/ pc[t] = "unref" /\ node[t] = n
                                         \/ pc[t] \in {"next", "pop"} /\ head[t] = n}

\* No node is lost, and none is in two places: it is in use, just popped, on the
\* list, being pushed by one thread, or waiting for a thread that still has a
\* reference and will push it when it drops the last one
\* (concurrentqueue.h:1417-1422, 1443-1451).
NoneLost ==
    \A n \in Nodes :
        Cardinality({place \in {"used", "taken", "listed", "pushed", "requested"} :
            CASE place = "used"      -> n \in used
              [] place = "taken"     -> Takers(n) # {}
              [] place = "listed"    -> n \in Listed
              [] place = "pushed"    -> n \in BeingPushed
              [] place = "requested" -> n \in Requested \ BeingPushed}) = 1
=============================================================================

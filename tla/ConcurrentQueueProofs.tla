------------------------ MODULE ConcurrentQueueProofs ------------------------
(***************************************************************************)
(* The three mechanisms of the task queues proved right for any number of  *)
(* threads, blocks, consumers and elements.                                *)
(*                                                                         *)
(* The list of free blocks.  That the head is exchanged for the right      *)
(* next, although it was read long before, rests on the counts.  A block's *)
(* count is the number of the threads that hold a reference to it, and one *)
(* more as long as the list has it, a thread has just popped it, or one    *)
(* tries to insert it; its next is only written while that number is zero  *)
(* and nobody can raise it.  The blocks on the list are those that nobody  *)
(* uses or owns and that no request is out for; following next from one of *)
(* them never leaves them, meets none twice and never leads back to the    *)
(* head, and going back leads to the head: so the head leads to them all.  *)
(*                                                                         *)
(* The sub-queue of a producer: ImplicitProducerProofs.                    *)
(*                                                                         *)
(* The hash table.  A thread's slot is where probing for it ends, in every *)
(* table that has one, and it has the only producer that the thread was    *)
(* ever given.  Tables have room because for every n, at most n threads    *)
(* are in a table with three quarters of its slots no more than n, or were *)
(* the n-th or an earlier one to come.                                     *)
(***************************************************************************)
EXTENDS ConcurrentQueue, FiniteSetTheorems, SequenceTheorems, TLAPS

\* What is asked of the constants.  The count of a block never reaches the top bit:
\* freeListRefs has 31 bits for it.
ListBounds == /\ SHOULD_BE_ON_FREELIST \in Nat
              /\ IsFiniteSet(Threads) /\ Cardinality(Threads) + 1 < SHOULD_BE_ON_FREELIST
              /\ NoNode \notin Nodes

\* The sizes are those that the static_asserts of the queue allow
\* (concurrentqueue.h:711, 714), and nullptr is no element.
SubQueueSizes == /\ BLOCK_SIZE \in Nat /\ BLOCK_SIZE > 1
                 /\ IMPLICIT_INITIAL_INDEX_SIZE \in Nat /\ IMPLICIT_INITIAL_INDEX_SIZE > 0
                 /\ NoNode \notin Nat
                 /\ IsFiniteSet(Consumers)
                 /\ MaxEnqueues \in Nat

\* A table is never empty, and 0 is no thread's id.
HashSizes == /\ IsFiniteSet(Threads) /\ NoNode \notin Threads
             /\ Hash \in [Threads -> Nat]
             /\ INITIAL_IMPLICIT_PRODUCER_HASH_SIZE \in Nat \ {0}
             /\ MaxFailures \in Nat

-----------------------------------------------------------------------------
(* Natural numbers.                                                        *)

\* A set of natural numbers has a least element: of its initial segments, one has no
\* other below it.
LEMMA Least ==
    ASSUME NEW T \in SUBSET Nat, T # {}
    PROVE  \E m \in T : \A n \in T : m <= n
  <1>. DEFINE F == {0..n : n \in T}
  <1>1. F \subseteq FiniteSubsetsOf(Nat) /\ F # {}
    <2>1. \A n \in T : 0..n \in SUBSET Nat /\ IsFiniteSet(0..n)
      BY FS_Interval
    <2>. QED  BY <2>1 DEF FiniteSubsetsOf
  <1>2. \E I \in F : \A J \in F : ~(<<J, I>> \in StrictSubsetOrdering(Nat))
    <2>. HIDE DEF F
    <2>. QED  BY <1>1, FS_StrictSubsetOrderingWellFounded, WFMin, Zenon
  <1>3. PICK m \in T : \A n \in T : ~(<<0..n, 0..m>> \in StrictSubsetOrdering(Nat))
    BY <1>2, Zenon
  <1>4. ASSUME NEW n \in T
        PROVE  m <= n
    <2>1. SUFFICES ASSUME n < m  PROVE FALSE
      BY SMT
    <2>2. 0..n \in SUBSET Nat /\ 0..m \in SUBSET Nat /\ 0..n \subseteq 0..m /\ m \in 0..m
          /\ m \notin 0..n
      BY <2>1
    <2>. QED  BY <1>3, <2>2 DEF StrictSubsetOrdering
  <1>. QED  BY <1>4

\* A set of natural numbers below a bound has a greatest element.
LEMMA Greatest ==
    ASSUME NEW b \in Nat, NEW T \in SUBSET (0..b), T # {}
    PROVE  \E m \in T : \A n \in T : n <= m
  <1>. DEFINE D == {b - n : n \in T}
  <1>1. D \in SUBSET Nat /\ D # {}
    <2>1. ASSUME NEW n \in T
          PROVE  b - n \in Nat
      OBVIOUS
    <2>. QED  BY <2>1
  <1>2. PICK d \in D : \A e \in D : d <= e
    <2>. HIDE DEF D
    <2>. QED  BY <1>1, Least
  <1>3. PICK m \in T : d = b - m
    BY <1>2
  <1>4. ASSUME NEW n \in T
        PROVE  n <= m
    <2>1. b - n \in D
      OBVIOUS
    <2>2. d <= b - n
      BY <1>2, <2>1
    <2>. QED  BY <1>3, <2>2
  <1>. QED  BY <1>4

\* Remainders.
LEMMA Remainder ==
    ASSUME NEW a \in Nat, NEW b \in Nat \ {0}
    PROVE  a % b \in 0..b - 1
  OBVIOUS

\* Doubling k times more than doubles k: that many sets has one with k elements.
LEMMA Power ==
    ASSUME NEW k \in Nat
    PROVE  2 ^ k \in Nat /\ k < 2 ^ k
  <1>. DEFINE S == 1..k
              O == {{x} : x \in S}
  <1>1. IsFiniteSet(S) /\ Cardinality(S) = k
    BY FS_Interval
  <1>2. IsFiniteSet(SUBSET S) /\ Cardinality(SUBSET S) = 2 ^ k
    <2>. HIDE DEF S
    <2>. QED  BY <1>1, FS_SUBSET
  <1>3. IsFiniteSet(O) /\ Cardinality(O) = k
    <2>. DEFINE f == [x \in S |-> {x}]
    <2>1. f \in Bijection(S, O)
      BY DEF Bijection, Injection, Surjection, IsInjective
    <2>2. ExistsBijection(S, O)
      <3>. HIDE DEF f
      <3>. QED  BY <2>1 DEF ExistsBijection
    <2>. HIDE DEF S, O
    <2>. QED  BY <1>1, <2>2, FS_Bijection
  <1>4. O \cup {{}} \in SUBSET (SUBSET S) /\ {} \notin O
    OBVIOUS
  <1>5. IsFiniteSet(O \cup {{}}) /\ Cardinality(O \cup {{}}) = k + 1
    <2>. HIDE DEF O
    <2>. QED  BY <1>3, <1>4, FS_AddElement
  <1>6. Cardinality(O \cup {{}}) <= Cardinality(SUBSET S) /\ Cardinality(SUBSET S) \in Nat
    <2>. HIDE DEF O, S
    <2>. QED  BY <1>2, <1>4, FS_Subset, FS_CardinalityType
  <1>. QED  BY ONLY k \in Nat, <1>2, <1>5, <1>6

\* A power of two doubles: the subsets of 1..k, and those with k + 1 added, are subsets
\* of 1..k + 1.
LEMMA Doubling ==
    ASSUME NEW k \in Nat
    PROVE  2 * 2 ^ k <= 2 ^ (k + 1)
  <1>. DEFINE A == SUBSET (1..k)
              B == {s \cup {k + 1} : s \in A}
  <1>1. IsFiniteSet(A) /\ Cardinality(A) = 2 ^ k
    <2>1. IsFiniteSet(1..k) /\ Cardinality(1..k) = k
      BY FS_Interval
    <2>. QED  BY <2>1, FS_SUBSET
  <1>2. IsFiniteSet(SUBSET (1..k + 1)) /\ Cardinality(SUBSET (1..k + 1)) = 2 ^ (k + 1)
    <2>1. IsFiniteSet(1..k + 1) /\ Cardinality(1..k + 1) = k + 1
      BY FS_Interval
    <2>. QED  BY <2>1, FS_SUBSET
  <1>3. IsFiniteSet(B) /\ Cardinality(B) = 2 ^ k
    <2>. DEFINE f == [s \in A |-> s \cup {k + 1}]
    <2>1. f \in [A -> B] /\ \A b \in B : \E s \in A : f[s] = b
      OBVIOUS
    <2>2. ASSUME NEW r \in A, NEW s \in A, f[r] = f[s]
          PROVE  r = s
      <3>1. k + 1 \notin r /\ k + 1 \notin s /\ r \cup {k + 1} = s \cup {k + 1}
        BY <2>2
      <3>. HIDE DEF A, f
      <3>. QED  BY <3>1
    <2>3. ExistsBijection(A, B)
      <3>. HIDE DEF A, B, f
      <3>. QED  BY <2>1, <2>2 DEF ExistsBijection, Bijection, Injection, Surjection, IsInjective
    <2>. HIDE DEF A, B
    <2>. QED  BY <1>1, <2>3, FS_Bijection
  <1>4. A \cap B = {} /\ A \cup B \in SUBSET (SUBSET (1..k + 1))
    <2>1. \A b \in B : k + 1 \in b
      OBVIOUS
    <2>2. \A s \in A : k + 1 \notin s
      OBVIOUS
    <2>3. A \cap B = {}
      <3>. HIDE DEF A, B
      <3>. QED  BY <2>1, <2>2
    <2>4. \A b \in B : b \subseteq 1..k + 1
      <3>1. ASSUME NEW s \in A
            PROVE  s \cup {k + 1} \subseteq 1..k + 1
        OBVIOUS
      <3>. QED  BY <3>1
    <2>5. \A s \in A : s \subseteq 1..k + 1
      OBVIOUS
    <2>. HIDE DEF A, B
    <2>. QED  BY <2>3, <2>4, <2>5
  <1>5. IsFiniteSet(A \cup B) /\ Cardinality(A \cup B) = 2 ^ k + 2 ^ k
    <2>. HIDE DEF A, B
    <2>1. Cardinality(A \cap B) = 0
      BY <1>4, FS_EmptySet
    <2>2. /\ IsFiniteSet(A \cup B)
          /\ Cardinality(A \cup B) = Cardinality(A) + Cardinality(B) - Cardinality(A \cap B)
      BY <1>1, <1>3, FS_Union
    <2>. QED  BY ONLY k \in Nat, Power, <1>1, <1>3, <2>1, <2>2
  <1>6. Cardinality(A \cup B) <= Cardinality(SUBSET (1..k + 1))
    <2>. HIDE DEF A, B
    <2>. QED  BY <1>2, <1>4, FS_Subset
  <1>7. 2 ^ k \in Nat /\ 2 ^ (k + 1) \in Nat
    BY Power
  <1>. QED  BY ONLY <1>2, <1>5, <1>6, <1>7

\* Products of positive numbers.
LEMMA Product ==
    ASSUME NEW a \in Nat \ {0}, NEW b \in Nat \ {0}
    PROVE  a * b \in Nat /\ a <= a * b /\ b <= a * b
  <1>. QED  OBVIOUS

\* A table that is not half full is found, and it is no smaller.
LEMMA NewCapacityFits ==
    ASSUME NEW count \in Nat, NEW size \in Nat \ {0}
    PROVE  PH!NewCapacity(count, size) \in Nat \ {0} /\ size <= PH!NewCapacity(count, size)
  <1>. DEFINE S == {size * 2 ^ k : k \in 1..count + 1}
              T == {c \in S : ~PH!HalfFull(count, c)}
  <1>1. \A c \in S : c \in Nat \ {0} /\ size <= c
    <2>1. ASSUME NEW k \in 1..count + 1
          PROVE  size * 2 ^ k \in Nat \ {0} /\ size <= size * 2 ^ k
      <3>1. 2 ^ k \in Nat \ {0}
        BY Power
      <3>2. size * 2 ^ k \in Nat /\ size <= size * 2 ^ k
        BY ONLY size \in Nat \ {0}, <3>1, Product
      <3>. QED  BY <3>2
    <2>. QED  BY <2>1
  <1>2. T # {}
    <2>1. 2 ^ count \in Nat /\ count < 2 ^ count /\ 2 ^ (count + 1) \in Nat
          /\ 2 * 2 ^ count <= 2 ^ (count + 1)
      BY Power, Doubling
    <2>2. 2 ^ (count + 1) \in Nat \ {0}
      BY ONLY count \in Nat, <2>1
    <2>3. size * 2 ^ (count + 1) \in Nat /\ 2 ^ (count + 1) <= size * 2 ^ (count + 1)
      BY ONLY size \in Nat \ {0}, <2>2, Product
    <2>4. ~(count >= (size * 2 ^ (count + 1)) \div 2)
      BY ONLY count \in Nat, <2>1, <2>3
    <2>5. size * 2 ^ (count + 1) \in S
      OBVIOUS
    <2>. QED  BY <2>4, <2>5 DEF PH!HalfFull
  <1>3. \E c \in T : \A d \in T : c <= d
    <2>1. T \in SUBSET Nat
      <3>. HIDE DEF S
      <3>. QED  BY <1>1
    <2>. HIDE DEF T
    <2>. QED  BY <1>2, <2>1, Least
  <1>4. \E c \in S : ~PH!HalfFull(count, c) /\ \A d \in S : ~PH!HalfFull(count, d) => c <= d
    <2>. HIDE DEF S
    <2>. QED  BY <1>3
  <1>5. PH!NewCapacity(count, size) \in S
    BY <1>4, Zenon DEF PH!NewCapacity
  <1>. QED
    <2>. HIDE DEF S
    <2>. QED  BY <1>1, <1>5

-----------------------------------------------------------------------------
(* The list of free blocks: its inductive invariant.                       *)

\* Thread t has a reference to n that it has counted.
Refers(t, n) == \/ pc[t] \in {"next", "pop", "take"} /\ head[t] = n
                \/ pc[t] = "unref" /\ node[t] = n

\* It is about to push n, and nobody else can get to it.
Pushing(t, n) == pc[t] \in {"push", "link", "publish"} /\ node[t] = n

\* It tries to insert n, or has popped it.
Leaving(t, n) == \/ pc[t] \in {"insert", "back"} /\ node[t] = n
                 \/ pc[t] = "take" /\ head[t] = n

\* Thread t owns n.
Keeps(t, n) == Pushing(t, n) \/ Leaving(t, n)

\* The counted references to n.
Referrers(n) == {t \in Threads : Refers(t, n)}

\* How many they are.
Refs(n) == Cardinality(Referrers(n))

\* No two threads own n, and none owns a node that is in use.
OneOwner(n) == \A t, u \in Threads : Keeps(t, n) /\ Keeps(u, n) => t = u /\ n \notin used

\* What the count of n is, by where n is.
RefsRight(n) ==
    /\ n \in used => freeListRefs[n] = Refs(n)
    /\ \A t \in Threads : Pushing(t, n) => freeListRefs[n] = SHOULD_BE_ON_FREELIST /\ Refs(n) = 0
    /\ \A t \in Threads : Leaving(t, n) => freeListRefs[n] = Refs(n) + 1
    /\ n \notin used /\ (\A t \in Threads : ~Keeps(t, n)) =>
          \/ freeListRefs[n] = Refs(n) + 1
          \/ freeListRefs[n] = SHOULD_BE_ON_FREELIST + Refs(n) /\ Refs(n) # 0

\* The blocks on the list.
InList == {n \in Nodes \ used : /\ \A t \in Threads : ~Keeps(t, n)
                                /\ freeListRefs[n] < SHOULD_BE_ON_FREELIST}

\* Going back from any of them leads to the head.
Ranked ==
    \E rank \in [Nodes -> Nat] :
        \A n \in InList : \/ n = freeListHead
                          \/ \E m \in InList : freeListNext[m] = n /\ rank[m] < rank[n]

\* The head leads to a list that never leads back to it and meets no node twice.
ListLinked ==
    /\ freeListHead \in InList \cup {NoNode}
    /\ \A n \in InList : /\ freeListNext[n] \in InList \cup {NoNode}
                         /\ freeListNext[n] # NoNode => freeListNext[n] # freeListHead
    /\ \A m, n \in InList : freeListNext[m] = freeListNext[n] /\ freeListNext[m] # NoNode =>
          m = n
    /\ Ranked

\* What a thread has read is still right when it needs it.
LocalsRight(t) ==
    /\ pc[t] \in {"refs", "count", "next", "pop", "take"} => head[t] \in Nodes
    /\ pc[t] \in FL!Pushes \cup {"unref"} => node[t] \in Nodes
    /\ pc[t] = "count" => FL!Count(loaded[t]) # 0
    /\ pc[t] = "pop" => loaded[t] = freeListNext[head[t]]
    /\ pc[t] \in {"publish", "insert"} => loaded[t] = freeListNext[node[t]]
    /\ pc[t] \in {"link", "publish", "insert", "back"} => loaded[t] \in FL!OrNull

\* Where each variable takes its values.
ListTypes ==
    /\ freeListHead \in FL!OrNull
    /\ freeListRefs \in [Nodes -> Nat]
    /\ freeListNext \in [Nodes -> FL!OrNull]
    /\ used \subseteq Nodes
    /\ pc \in [Threads -> FL!Pushes \cup
                          {"idle", "refs", "count", "next", "pop", "take", "unref"}]
    /\ head \in [Threads -> FL!OrNull]
    /\ node \in [Threads -> FL!OrNull]
    /\ loaded \in [Threads -> FL!OrNull \cup 0..2 * SHOULD_BE_ON_FREELIST - 1]

\* The inductive invariant.
ListInv == /\ ListTypes
           /\ \A t \in Threads : LocalsRight(t)
           /\ \A n \in Nodes : OneOwner(n) /\ RefsRight(n)
           /\ ListLinked

-----------------------------------------------------------------------------
(* Counts and their top bit.                                               *)

\* A number below the modulus, and one less than twice as large.
LEMMA Modulus ==
    ASSUME NEW m \in Nat, NEW x \in Nat, x < m
    PROVE  x % m = x /\ (m + x) % m = x
  OBVIOUS

\* So many threads hold a reference to a node.
LEMMA ThreadSets ==
    ASSUME ListBounds, NEW S \in SUBSET Threads
    PROVE  /\ IsFiniteSet(S) /\ Cardinality(S) \in Nat
           /\ Cardinality(S) + 1 < SHOULD_BE_ON_FREELIST /\ SHOULD_BE_ON_FREELIST \in Nat
           /\ Cardinality(S) = 0 <=> S = {}
  <1>1. /\ IsFiniteSet(S) /\ Cardinality(S) \in Nat
        /\ Cardinality(Threads) \in Nat /\ Cardinality(S) <= Cardinality(Threads)
    BY FS_Subset, FS_CardinalityType DEF ListBounds
  <1>2. Cardinality(S) = 0 <=> S = {}
    BY <1>1, FS_EmptySet
  <1>. QED  BY <1>1, <1>2 DEF ListBounds

\* The same of those that hold one node, before a step and after it.
LEMMA RefsCount ==
    ASSUME ListBounds, NEW n
    PROVE  /\ IsFiniteSet(Referrers(n)) /\ Refs(n) \in Nat /\ Refs(n)' \in Nat
           /\ Refs(n) + 1 < SHOULD_BE_ON_FREELIST /\ SHOULD_BE_ON_FREELIST \in Nat
           /\ Refs(n)' + 1 < SHOULD_BE_ON_FREELIST
           /\ Refs(n) = 0 <=> Referrers(n) = {}
  <1>1. Referrers(n) \in SUBSET Threads /\ Referrers(n)' \in SUBSET Threads
    BY DEF Referrers
  <1>. QED  BY <1>1, ThreadSets DEF Refs

\* The count of a node, whoever has it, and its top bit.
LEMMA RefsFacts ==
    ASSUME ListBounds, ListTypes, NEW n \in Nodes, RefsRight(n)
    PROVE  /\ freeListRefs[n] \in 0..2 * SHOULD_BE_ON_FREELIST - 1
           /\ FL!Count(freeListRefs[n]) <= Refs(n) + 1
           /\ freeListRefs[n] < SHOULD_BE_ON_FREELIST =>
                 FL!Count(freeListRefs[n]) = freeListRefs[n]
           /\ freeListRefs[n] = SHOULD_BE_ON_FREELIST => FL!Count(freeListRefs[n]) = 0
           /\ \/ freeListRefs[n] \in {Refs(n), Refs(n) + 1}
              \/ freeListRefs[n] = SHOULD_BE_ON_FREELIST + Refs(n)
  <1>1. /\ Refs(n) \in Nat /\ Refs(n) + 1 < SHOULD_BE_ON_FREELIST
        /\ SHOULD_BE_ON_FREELIST \in Nat
    BY RefsCount
  <1>2. /\ Refs(n) % SHOULD_BE_ON_FREELIST = Refs(n)
        /\ (Refs(n) + 1) % SHOULD_BE_ON_FREELIST = Refs(n) + 1
        /\ (SHOULD_BE_ON_FREELIST + Refs(n)) % SHOULD_BE_ON_FREELIST = Refs(n)
    BY <1>1, Modulus
  <1>3. \/ freeListRefs[n] \in {Refs(n), Refs(n) + 1}
        \/ freeListRefs[n] = SHOULD_BE_ON_FREELIST + Refs(n)
    BY <1>1 DEF RefsRight, Keeps
  <1>4. CASE freeListRefs[n] \in {Refs(n), Refs(n) + 1}
    <2>1. freeListRefs[n] < SHOULD_BE_ON_FREELIST
          /\ freeListRefs[n] \in 0..2 * SHOULD_BE_ON_FREELIST - 1
      BY <1>1, <1>4
    <2>2. FL!Count(freeListRefs[n]) = freeListRefs[n]
      BY <1>2, <1>4 DEF FL!Count
    <2>. QED  BY <1>1, <1>3, <1>4, <2>1, <2>2
  <1>5. CASE freeListRefs[n] = SHOULD_BE_ON_FREELIST + Refs(n)
    <2>1. /\ freeListRefs[n] \in 0..2 * SHOULD_BE_ON_FREELIST - 1
          /\ ~(freeListRefs[n] < SHOULD_BE_ON_FREELIST)
          /\ freeListRefs[n] = SHOULD_BE_ON_FREELIST => Refs(n) = 0
      BY <1>1, <1>5
    <2>2. FL!Count(freeListRefs[n]) = Refs(n)
      BY <1>2, <1>5 DEF FL!Count
    <2>. QED  BY <1>1, <1>3, <2>1, <2>2
  <1>. QED  BY <1>3, <1>4, <1>5

-----------------------------------------------------------------------------
(* What a step of one thread leaves alone.                                 *)

\* No other thread moves.
Alone(t) == \A u \in Threads \ {t} : /\ pc'[u] = pc[u] /\ head'[u] = head[u]
                                     /\ node'[u] = node[u] /\ loaded'[u] = loaded[u]

\* Nothing happens to n.
Same(t, n) == /\ freeListRefs'[n] = freeListRefs[n]
              /\ n \in used' <=> n \in used
              /\ Refers(t, n)' <=> Refers(t, n)
              /\ Pushing(t, n)' <=> Pushing(t, n)
              /\ Leaving(t, n)' <=> Leaving(t, n)

\* The other threads hold and own what they did.
LEMMA OtherBlocks ==
    ASSUME NEW t \in Threads, Alone(t), NEW u \in Threads \ {t}, NEW n
    PROVE  /\ Refers(u, n)' <=> Refers(u, n)
           /\ Pushing(u, n)' <=> Pushing(u, n)
           /\ Leaving(u, n)' <=> Leaving(u, n)
           /\ Keeps(u, n)' <=> Keeps(u, n)
  BY DEF Alone, Refers, Pushing, Leaving, Keeps

\* How many hold a node of which one thread may have taken or dropped a reference.
LEMMA RefsAfter ==
    ASSUME ListBounds, NEW t \in Threads, Alone(t), NEW n
    PROVE  Refs(n)' = IF Refers(t, n)' THEN IF Refers(t, n) THEN Refs(n) ELSE Refs(n) + 1
                                       ELSE IF Refers(t, n) THEN Refs(n) - 1 ELSE Refs(n)
  <1>1. IsFiniteSet(Referrers(n))
    BY RefsCount
  <1>2. t \in Referrers(n) <=> Refers(t, n)
    BY DEF Referrers
  <1>3. CASE Refers(t, n)'
    <2>1. Referrers(n)' = Referrers(n) \cup {t}
      BY <1>3, OtherBlocks DEF Referrers
    <2>. QED  BY <1>1, <1>2, <1>3, <2>1, FS_AddElement DEF Refs
  <1>4. CASE ~Refers(t, n)'
    <2>1. Referrers(n)' = Referrers(n) \ {t}
      BY <1>4, OtherBlocks DEF Referrers
    <2>. QED  BY <1>1, <1>2, <1>4, <2>1, FS_RemoveElement DEF Refs
  <1>. QED  BY <1>3, <1>4

\* A node to which nothing happens stays as it is.
LEMMA Elsewhere ==
    ASSUME ListBounds, NEW t \in Threads, Alone(t), NEW n \in Nodes, Same(t, n),
           OneOwner(n), RefsRight(n)
    PROVE  OneOwner(n)' /\ RefsRight(n)' /\ (n \in InList' <=> n \in InList)
  <1>1. Refs(n)' = Refs(n)
    BY RefsAfter DEF Same
  <1>2. ASSUME NEW u \in Threads
        PROVE  /\ Pushing(u, n)' <=> Pushing(u, n)
               /\ Leaving(u, n)' <=> Leaving(u, n)
               /\ Keeps(u, n)' <=> Keeps(u, n)
    BY OtherBlocks DEF Same, Keeps
  <1>3. OneOwner(n)'
    BY <1>2 DEF OneOwner, Same
  <1>4. RefsRight(n)'
    BY <1>1, <1>2 DEF RefsRight, Same
  <1>5. n \in InList' <=> n \in InList
    BY <1>2 DEF InList, Same
  <1>. QED  BY <1>3, <1>4, <1>5

\* The list stays linked when nothing of it changes.
LEMMA LinkedStill ==
    ASSUME ListLinked, UNCHANGED freeListHead, InList' = InList,
           \A n \in InList : freeListNext'[n] = freeListNext[n]
    PROVE  ListLinked'
  <1>1. Ranked'
    BY DEF ListLinked, Ranked
  <1>. QED  BY <1>1 DEF ListLinked

\* A node that comes before the others.
LEMMA RankedWithOneMore ==
    ASSUME Ranked, NEW n \in Nodes \ InList, InList' = InList \cup {n}, UNCHANGED freeListNext,
           freeListHead' = n, freeListNext[n] = freeListHead
    PROVE  Ranked'
  <1>1. PICK rank \in [Nodes -> Nat] :
           \A k \in InList : \/ k = freeListHead
                             \/ \E m \in InList : freeListNext[m] = k /\ rank[m] < rank[k]
    BY DEF Ranked
  <1>2. PICK after \in [Nodes -> Nat] :
           after[n] = 0 /\ \A m \in Nodes \ {n} : after[m] = rank[m] + 1
    <2>1. [m \in Nodes |-> IF m = n THEN 0 ELSE rank[m] + 1] \in [Nodes -> Nat]
      OBVIOUS
    <2>. QED  BY <2>1
  <1>3. ASSUME NEW k \in InList
        PROVE  \E m \in InList \cup {n} : freeListNext[m] = k /\ after[m] < after[k]
    <2>1. k \in Nodes \ {n} /\ after[k] = rank[k] + 1 /\ rank[k] \in Nat
      BY <1>2 DEF InList
    <2>2. CASE k = freeListHead
      BY <1>2, <2>1, <2>2
    <2>3. ASSUME NEW m \in InList, freeListNext[m] = k, rank[m] < rank[k]
          PROVE  freeListNext[m] = k /\ after[m] < after[k]
      <3>1. m \in Nodes \ {n} /\ after[m] = rank[m] + 1 /\ rank[m] \in Nat
        BY <1>2 DEF InList
      <3>. QED  BY <2>1, <2>3, <3>1
    <2>. QED  BY <1>1, <2>2, <2>3
  <1>. QED  BY <1>3 DEF Ranked

\* The first of them goes.
LEMMA RankedWithoutTheFirst ==
    ASSUME Ranked, NEW n \in Nodes, InList' = InList \ {n}, UNCHANGED freeListNext,
           freeListHead = n, freeListHead' = freeListNext[n]
    PROVE  Ranked'
  BY DEF Ranked

\* The locals of the others stay right as long as no next changes.
LEMMA LocalsStill ==
    ASSUME \A u \in Threads : LocalsRight(u), NEW t \in Threads, Alone(t),
           UNCHANGED freeListNext, LocalsRight(t)'
    PROVE  \A u \in Threads : LocalsRight(u)'
  <1>1. ASSUME NEW u \in Threads \ {t} PROVE LocalsRight(u)'
    BY DEF LocalsRight, Alone
  <1>. QED  BY <1>1

\* A step of thread t that changes where node n is, or nothing of it.
LEMMA StepKeeps ==
    ASSUME ListBounds, ListInv, NEW t \in Threads, Alone(t), NEW n \in Nodes,
           ListTypes', LocalsRight(t)', UNCHANGED freeListNext,
           \A m \in Nodes \ {n} : Same(t, m),
           OneOwner(n)', RefsRight(n)', ListLinked'
    PROVE  ListInv'
  <1>1. \A u \in Threads : LocalsRight(u)'
    BY LocalsStill DEF ListInv
  <1>2. ASSUME NEW m \in Nodes PROVE OneOwner(m)' /\ RefsRight(m)'
    BY Elsewhere DEF ListInv
  <1>. QED  BY <1>1, <1>2 DEF ListInv

\* A step that changes the locals of a thread, but not what it holds or owns.
LEMMA QuietListKeeps ==
    ASSUME ListBounds, ListInv, NEW t \in Threads, Alone(t), UNCHANGED <<FL!shared, used>>,
           \A n : /\ Refers(t, n)' <=> Refers(t, n)
                  /\ Pushing(t, n)' <=> Pushing(t, n)
                  /\ Leaving(t, n)' <=> Leaving(t, n),
           ListTypes', LocalsRight(t)'
    PROVE  ListInv'
  <1>1. UNCHANGED <<freeListHead, freeListRefs, freeListNext, used>>
    BY DEF FL!shared
  <1>2. \A n \in Nodes : Same(t, n)
    BY <1>1 DEF Same
  <1>3. \A n \in Nodes : OneOwner(n)' /\ RefsRight(n)' /\ (n \in InList' <=> n \in InList)
    BY <1>2, Elsewhere DEF ListInv
  <1>4. InList' = InList
    BY <1>3 DEF InList
  <1>5. ListLinked'
    BY <1>1, <1>4, LinkedStill DEF ListInv
  <1>6. \A u \in Threads : LocalsRight(u)'
    BY <1>1, LocalsStill DEF ListInv
  <1>. QED  BY <1>3, <1>5, <1>6 DEF ListInv

\* Back in the loop of try_get, or out of the call.
LEMMA ResumeFacts ==
    ASSUME ListTypes, NEW t \in Threads, NEW from, NEW h \in FL!OrNull, FL!Resume(t, from, h),
           node' \in [Threads -> FL!OrNull], \A u \in Threads \ {t} : node'[u] = node[u]
    PROVE  /\ Alone(t)
           /\ pc[t] = from /\ pc'[t] \in {"idle", "refs"} /\ (pc'[t] = "refs" => h \in Nodes)
           /\ head'[t] = h /\ loaded'[t] = NoNode
           /\ pc' \in [Threads -> FL!Pushes \cup
                                  {"idle", "refs", "count", "next", "pop", "take", "unref"}]
           /\ head' \in [Threads -> FL!OrNull]
           /\ loaded' \in [Threads -> FL!OrNull \cup 0..2 * SHOULD_BE_ON_FREELIST - 1]
           /\ LocalsRight(t)'
           /\ \A n : ~Refers(t, n)' /\ ~Pushing(t, n)' /\ ~Leaving(t, n)' /\ ~Keeps(t, n)'
  <1>1. NoNode \in FL!OrNull
    BY DEF FL!OrNull
  <1>2. /\ Alone(t)
        /\ pc[t] = from /\ pc'[t] \in {"idle", "refs"} /\ (pc'[t] = "refs" => h \in Nodes)
        /\ head'[t] = h /\ loaded'[t] = NoNode
        /\ pc' \in [Threads -> FL!Pushes \cup
                               {"idle", "refs", "count", "next", "pop", "take", "unref"}]
        /\ head' \in [Threads -> FL!OrNull]
        /\ loaded' \in [Threads -> FL!OrNull \cup 0..2 * SHOULD_BE_ON_FREELIST - 1]
    BY <1>1 DEF ListTypes, FL!Resume, FL!Goto, Alone, FL!OrNull
  <1>3. /\ LocalsRight(t)'
        /\ \A n : ~Refers(t, n)' /\ ~Pushing(t, n)' /\ ~Leaving(t, n)' /\ ~Keeps(t, n)'
    BY <1>2 DEF LocalsRight, Refers, Pushing, Leaving, Keeps, FL!Pushes
  <1>. QED  BY <1>2, <1>3

-----------------------------------------------------------------------------
(* The steps.                                                              *)

\* The head is read, at first or again.
LEMMA LoadsKeep ==
    ASSUME ListBounds, ListInv, NEW t \in Threads, FL!GetLoad(t) \/ FL!GetReload(t)
    PROVE  ListInv'
  <1>1. ListTypes
    BY DEF ListInv
  <1>2. /\ pc[t] \in {"idle", "refs", "count"} /\ FL!Resume(t, pc[t], freeListHead)
        /\ UNCHANGED <<FL!shared, used, node>>
    BY DEF FL!GetLoad, FL!GetReload
  <1>3. freeListHead \in FL!OrNull /\ node' \in [Threads -> FL!OrNull] /\ node' = node
    BY <1>1, <1>2 DEF ListTypes
  <1>4. /\ Alone(t) /\ LocalsRight(t)'
        /\ pc' \in [Threads -> FL!Pushes \cup
                               {"idle", "refs", "count", "next", "pop", "take", "unref"}]
        /\ head' \in [Threads -> FL!OrNull]
        /\ loaded' \in [Threads -> FL!OrNull \cup 0..2 * SHOULD_BE_ON_FREELIST - 1]
        /\ \A n : ~Refers(t, n)' /\ ~Pushing(t, n)' /\ ~Leaving(t, n)'
    BY <1>1, <1>2, <1>3, ResumeFacts
  <1>5. \A n : ~Refers(t, n) /\ ~Pushing(t, n) /\ ~Leaving(t, n)
    BY <1>2 DEF Refers, Pushing, Leaving
  <1>6. ListTypes'
    BY <1>1, <1>2, <1>3, <1>4 DEF ListTypes, FL!shared
  <1>. QED  BY <1>2, <1>4, <1>5, <1>6, QuietListKeeps

\* The count and the next of the head are read.
LEMMA ReadsKeep ==
    ASSUME ListBounds, ListInv, NEW t \in Threads, FL!GetRefs(t) \/ FL!GetNext(t)
    PROVE  ListInv'
  <1>1. ListTypes /\ LocalsRight(t) /\ \A n \in Nodes : RefsRight(n)
    BY DEF ListInv
  <1>2. UNCHANGED <<FL!shared, used, head, node>>
    BY DEF FL!GetRefs, FL!GetNext
  <1>3. CASE FL!GetRefs(t)
    <2>1. /\ pc[t] = "refs" /\ pc' = [pc EXCEPT ![t] = "count"]
          /\ FL!Count(freeListRefs[head[t]]) # 0
          /\ loaded' = [loaded EXCEPT ![t] = freeListRefs[head[t]]]
      BY <1>3 DEF FL!GetRefs, FL!Goto
    <2>2. head[t] \in Nodes /\ freeListRefs[head[t]] \in 0..2 * SHOULD_BE_ON_FREELIST - 1
      BY <1>1, <2>1, RefsFacts DEF LocalsRight
    <2>3. /\ Alone(t) /\ pc'[t] = "count" /\ loaded'[t] = freeListRefs[head[t]]
          /\ ListTypes'
      BY <1>1, <1>2, <2>1, <2>2 DEF ListTypes, Alone, FL!shared
    <2>4. LocalsRight(t)'
      BY <1>2, <2>1, <2>2, <2>3 DEF LocalsRight, FL!Pushes, FL!Count, FL!shared
    <2>5. \A n : /\ Refers(t, n)' <=> Refers(t, n)
                 /\ Pushing(t, n)' <=> Pushing(t, n)
                 /\ Leaving(t, n)' <=> Leaving(t, n)
      BY <2>1, <2>3 DEF Refers, Pushing, Leaving
    <2>. QED  BY <1>2, <2>3, <2>4, <2>5, QuietListKeeps
  <1>4. CASE FL!GetNext(t)
    <2>1. /\ pc[t] = "next" /\ pc' = [pc EXCEPT ![t] = "pop"]
          /\ loaded' = [loaded EXCEPT ![t] = freeListNext[head[t]]]
      BY <1>4 DEF FL!GetNext, FL!Goto
    <2>2. head[t] \in Nodes /\ freeListNext[head[t]] \in FL!OrNull
      BY <1>1, <2>1 DEF LocalsRight, ListTypes
    <2>3. /\ Alone(t) /\ pc'[t] = "pop" /\ loaded'[t] = freeListNext[head[t]]
          /\ ListTypes'
      BY <1>1, <1>2, <2>1, <2>2 DEF ListTypes, Alone, FL!shared
    <2>4. LocalsRight(t)'
      BY <1>2, <2>1, <2>2, <2>3 DEF LocalsRight, FL!Pushes, FL!shared
    <2>5. \A n : /\ Refers(t, n)' <=> Refers(t, n)
                 /\ Pushing(t, n)' <=> Pushing(t, n)
                 /\ Leaving(t, n)' <=> Leaving(t, n)
      BY <1>2, <2>1, <2>3 DEF Refers, Pushing, Leaving
    <2>. QED  BY <1>2, <2>3, <2>4, <2>5, QuietListKeeps
  <1>. QED  BY <1>3, <1>4

\* The head has changed before it could be popped: the reference moves to node.
LEMMA PopFailsKeeps ==
    ASSUME ListBounds, ListInv, NEW t \in Threads, FL!GetPopFails(t)
    PROVE  ListInv'
  <1>1. ListTypes /\ LocalsRight(t)
    BY DEF ListInv
  <1>2. /\ pc[t] = "pop" /\ pc' = [pc EXCEPT ![t] = "unref"]
        /\ node' = [node EXCEPT ![t] = head[t]]
        /\ head' = [head EXCEPT ![t] = freeListHead]
        /\ loaded' = [loaded EXCEPT ![t] = NoNode]
        /\ UNCHANGED <<FL!shared, used>>
    BY DEF FL!GetPopFails, FL!Goto
  <1>3. head[t] \in Nodes
    BY <1>1, <1>2 DEF LocalsRight
  <1>4. /\ Alone(t) /\ pc'[t] = "unref" /\ node'[t] = head[t]
        /\ ListTypes'
    BY <1>1, <1>2, <1>3 DEF ListTypes, Alone, FL!shared, FL!OrNull
  <1>5. LocalsRight(t)'
    BY <1>3, <1>4 DEF LocalsRight, FL!Pushes
  <1>6. \A n : /\ Refers(t, n)' <=> Refers(t, n)
               /\ Pushing(t, n)' <=> Pushing(t, n)
               /\ Leaving(t, n)' <=> Leaving(t, n)
    BY <1>2, <1>4 DEF Refers, Pushing, Leaving
  <1>. QED  BY <1>2, <1>4, <1>5, <1>6, QuietListKeeps

\* The head is read for a push, or has changed before the node could be inserted.
LEMMA PushReadsKeep ==
    ASSUME ListBounds, ListInv, NEW t \in Threads, FL!PushLoad(t) \/ FL!PushInsertFails(t)
    PROVE  ListInv'
  <1>1. ListTypes /\ LocalsRight(t)
    BY DEF ListInv
  <1>2. PICK to \in {"link", "back"} :
          /\ pc[t] = (IF to = "link" THEN "push" ELSE "insert") /\ pc' = [pc EXCEPT ![t] = to]
          /\ loaded' = [loaded EXCEPT ![t] = freeListHead]
          /\ UNCHANGED <<FL!shared, used, head, node>>
    BY DEF FL!PushLoad, FL!PushInsertFails, FL!Goto
  <1>3. node[t] \in Nodes /\ freeListHead \in FL!OrNull
    BY <1>1, <1>2 DEF LocalsRight, FL!Pushes, ListTypes
  <1>4. /\ Alone(t) /\ pc'[t] = to /\ loaded'[t] = freeListHead
        /\ ListTypes'
    BY <1>1, <1>2, <1>3 DEF ListTypes, Alone, FL!shared, FL!Pushes
  <1>5. LocalsRight(t)'
    BY <1>2, <1>3, <1>4 DEF LocalsRight, FL!Pushes
  <1>6. \A n : /\ Refers(t, n)' <=> Refers(t, n)
               /\ Pushing(t, n)' <=> Pushing(t, n)
               /\ Leaving(t, n)' <=> Leaving(t, n)
    BY <1>2, <1>4 DEF Refers, Pushing, Leaving
  <1>. QED  BY <1>2, <1>4, <1>5, <1>6, QuietListKeeps

\* Who owns a node does so alone.
LEMMA SoleOwner ==
    ASSUME NEW t \in Threads, Alone(t), NEW n, OneOwner(n), Keeps(t, n)
    PROVE  n \notin used /\ \A u \in Threads \ {t} : ~Keeps(u, n) /\ ~Keeps(u, n)'
  BY OtherBlocks DEF OneOwner

\* The next of a node is written while nobody else can get at it.
LEMMA LinkKeeps ==
    ASSUME ListBounds, ListInv, NEW t \in Threads, FL!PushLink(t)
    PROVE  ListInv'
  <1>1. /\ ListTypes /\ LocalsRight(t) /\ ListLinked
        /\ \A m \in Nodes : OneOwner(m) /\ RefsRight(m)
    BY DEF ListInv
  <1>2. PICK n \in Nodes : n = node[t]
    BY <1>1 DEF FL!PushLink, FL!Goto, LocalsRight, FL!Pushes
  <1>3. /\ pc[t] = "link" /\ pc' = [pc EXCEPT ![t] = "publish"]
        /\ freeListNext' = [freeListNext EXCEPT ![n] = loaded[t]]
        /\ UNCHANGED <<freeListHead, freeListRefs, used, head, node, loaded>>
    BY <1>2 DEF FL!PushLink, FL!Goto
  <1>4. n \in Nodes /\ loaded[t] \in FL!OrNull
    BY <1>2, <1>1, <1>3 DEF LocalsRight, FL!Pushes
  <1>5. /\ Alone(t) /\ pc'[t] = "publish" /\ ListTypes'
        /\ freeListNext'[n] = loaded[t]
        /\ \A m \in Nodes \ {n} : freeListNext'[m] = freeListNext[m]
    BY <1>2, <1>1, <1>3, <1>4 DEF ListTypes, Alone, FL!Pushes
  <1>6. LocalsRight(t)'
    BY <1>2, <1>3, <1>4, <1>5 DEF LocalsRight, FL!Pushes
  <1>7. \A m \in Nodes : Same(t, m)
    BY <1>2, <1>3, <1>5 DEF Same, Refers, Pushing, Leaving
  <1>8. Keeps(t, n) /\ Pushing(t, n)
    BY <1>2, <1>3 DEF Keeps, Pushing
  <1>9. \A m \in Nodes : OneOwner(m)' /\ RefsRight(m)' /\ (m \in InList' <=> m \in InList)
    BY <1>2, <1>1, <1>5, <1>7, Elsewhere
  <1>10. InList' = InList /\ n \notin InList
    BY <1>8, <1>9 DEF InList
  <1>11. ListLinked'
    <2>1. \A m \in InList : freeListNext'[m] = freeListNext[m]
      BY <1>2, <1>5, <1>10 DEF InList
    <2>. QED  BY <1>2, <1>1, <1>3, <1>10, <2>1, LinkedStill
  <1>12. ASSUME NEW u \in Threads \ {t} PROVE LocalsRight(u)'
    <2>1. LocalsRight(u)
      BY DEF ListInv
    <2>2. pc[u] = "pop" => head[u] # n
      <3>1. Refs(n) = 0
        BY <1>2, <1>1, <1>4, <1>8 DEF RefsRight
      <3>2. Referrers(n) = {}
        BY <3>1, RefsCount
      <3>. QED  BY <3>2 DEF Referrers, Refers
    <2>3. pc[u] \in {"publish", "insert"} => node[u] # n
      <3>1. ~Keeps(u, n)
        BY <1>2, <1>1, <1>4, <1>5, <1>8, SoleOwner
      <3>. QED  BY <3>1 DEF Keeps, Pushing, Leaving
    <2>4. pc'[u] = pc[u] /\ head'[u] = head[u] /\ node'[u] = node[u] /\ loaded'[u] = loaded[u]
      BY <1>2, <1>5 DEF Alone
    <2>. QED  BY <1>2, <1>5, <2>1, <2>2, <2>3, <2>4 DEF LocalsRight, FL!Pushes
  <1>. QED  BY <1>2, <1>5, <1>6, <1>9, <1>11, <1>12 DEF ListInv

\* The request becomes the reference of the list that the node is about to be on.
LEMMA PublishKeeps ==
    ASSUME ListBounds, ListInv, NEW t \in Threads, FL!PushPublish(t)
    PROVE  ListInv'
  <1>1. /\ ListTypes /\ LocalsRight(t) /\ ListLinked
        /\ \A m \in Nodes : OneOwner(m) /\ RefsRight(m)
    BY DEF ListInv
  <1>2. PICK n \in Nodes : n = node[t]
    BY <1>1 DEF FL!PushPublish, FL!Goto, LocalsRight, FL!Pushes
  <1>3. /\ pc[t] = "publish" /\ pc' = [pc EXCEPT ![t] = "insert"]
        /\ freeListRefs' = [freeListRefs EXCEPT ![n] = 1]
        /\ UNCHANGED <<freeListHead, freeListNext, used, head, node, loaded>>
    BY <1>2 DEF FL!PushPublish, FL!Goto
  <1>4. n \in Nodes /\ loaded[t] \in FL!OrNull
    BY <1>2, <1>1, <1>3 DEF LocalsRight, FL!Pushes
  <1>5. /\ Alone(t) /\ pc'[t] = "insert" /\ ListTypes'
        /\ freeListRefs'[n] = 1
        /\ \A m \in Nodes \ {n} : freeListRefs'[m] = freeListRefs[m]
    BY <1>2, <1>1, <1>3, <1>4 DEF ListTypes, Alone, FL!Pushes
  <1>6. LocalsRight(t)'
    BY <1>2, <1>1, <1>3, <1>4, <1>5 DEF LocalsRight, FL!Pushes
  <1>7. /\ Keeps(t, n) /\ Pushing(t, n) /\ Keeps(t, n)' /\ Leaving(t, n)' /\ ~Pushing(t, n)'
        /\ ~Refers(t, n) /\ ~Refers(t, n)'
    BY <1>2, <1>3, <1>5 DEF Keeps, Pushing, Leaving, Refers
  <1>8. \A m \in Nodes \ {n} : Same(t, m)
    BY <1>2, <1>3, <1>5 DEF Same, Refers, Pushing, Leaving
  <1>9. n \notin used /\ \A u \in Threads \ {t} : ~Keeps(u, n) /\ ~Keeps(u, n)'
    BY <1>2, <1>1, <1>4, <1>5, <1>7, SoleOwner
  <1>10. OneOwner(n)'
    BY <1>2, <1>3, <1>9 DEF OneOwner
  <1>11. Refs(n)' = 0
    <2>1. Refs(n) = 0
      BY <1>2, <1>1, <1>4, <1>7 DEF RefsRight
    <2>. QED  BY <1>2, <1>5, <1>7, <2>1, RefsAfter
  <1>12. RefsRight(n)'
    BY <1>2, <1>3, <1>5, <1>7, <1>9, <1>11 DEF RefsRight, Keeps
  <1>13. InList' = InList
    <2>1. \A m \in Nodes \ {n} : m \in InList' <=> m \in InList
      BY <1>2, <1>1, <1>5, <1>8, Elsewhere
    <2>2. n \notin InList /\ n \notin InList'
      BY <1>7 DEF InList
    <2>. QED  BY <2>1, <2>2 DEF InList
  <1>14. ListLinked'
    BY <1>2, <1>1, <1>3, <1>13, LinkedStill
  <1>. QED  BY <1>2, <1>3, <1>4, <1>5, <1>6, <1>8, <1>10, <1>12, <1>14, StepKeeps

\* The node is on the list.
LEMMA InsertKeeps ==
    ASSUME ListBounds, ListInv, NEW t \in Threads, FL!PushInsert(t)
    PROVE  ListInv'
  <1>1. /\ ListTypes /\ LocalsRight(t) /\ ListLinked
        /\ \A m \in Nodes : OneOwner(m) /\ RefsRight(m)
    BY DEF ListInv
  <1>2. PICK n \in Nodes : n = node[t]
    BY <1>1 DEF FL!PushInsert, FL!Goto, LocalsRight, FL!Pushes
  <1>3. /\ pc[t] = "insert" /\ freeListHead = loaded[t] /\ freeListHead' = n
        /\ FL!Resume(t, "insert", head[t])
        /\ node' = [node EXCEPT ![t] = NoNode]
        /\ UNCHANGED <<freeListRefs, freeListNext, used>>
    BY <1>2 DEF FL!PushInsert
  <1>4. n \in Nodes /\ head[t] \in FL!OrNull /\ freeListNext[n] = freeListHead
    BY <1>2, <1>1, <1>3 DEF LocalsRight, FL!Pushes, ListTypes
  <1>5. node' \in [Threads -> FL!OrNull] /\ \A u \in Threads \ {t} : node'[u] = node[u]
    BY <1>2, <1>1, <1>3 DEF ListTypes, FL!OrNull
  <1>6. /\ Alone(t) /\ LocalsRight(t)'
        /\ pc' \in [Threads -> FL!Pushes \cup
                               {"idle", "refs", "count", "next", "pop", "take", "unref"}]
        /\ head' \in [Threads -> FL!OrNull]
        /\ loaded' \in [Threads -> FL!OrNull \cup 0..2 * SHOULD_BE_ON_FREELIST - 1]
        /\ \A m : ~Refers(t, m)' /\ ~Pushing(t, m)' /\ ~Leaving(t, m)' /\ ~Keeps(t, m)'
    BY <1>2, <1>1, <1>3, <1>4, <1>5, ResumeFacts
  <1>7. ListTypes'
    BY <1>2, <1>1, <1>3, <1>4, <1>5, <1>6 DEF ListTypes, FL!OrNull
  <1>8. Keeps(t, n) /\ Leaving(t, n) /\ ~Refers(t, n)
    BY <1>2, <1>3 DEF Keeps, Leaving, Refers
  <1>9. \A m \in Nodes \ {n} : Same(t, m)
    BY <1>2, <1>3, <1>6 DEF Same, Refers, Pushing, Leaving
  <1>10. n \notin used /\ \A u \in Threads \ {t} : ~Keeps(u, n) /\ ~Keeps(u, n)'
    BY <1>2, <1>1, <1>4, <1>6, <1>8, SoleOwner
  <1>11. OneOwner(n)'
    BY <1>6, <1>10 DEF OneOwner
  <1>12. Refs(n)' = Refs(n) /\ freeListRefs[n] = Refs(n) + 1
    BY <1>2, <1>1, <1>4, <1>6, <1>8, RefsAfter DEF RefsRight
  <1>13. RefsRight(n)'
    BY <1>2, <1>3, <1>6, <1>10, <1>12 DEF RefsRight, Keeps
  <1>14. InList' = InList \cup {n} /\ n \notin InList
    <2>1. \A m \in Nodes \ {n} : m \in InList' <=> m \in InList
      BY <1>2, <1>1, <1>6, <1>9, Elsewhere
    <2>2. freeListRefs[n] < SHOULD_BE_ON_FREELIST
      BY <1>12, RefsCount
    <2>3. n \notin InList /\ n \in InList'
      BY <1>2, <1>3, <1>4, <1>6, <1>8, <1>10, <2>2 DEF InList
    <2>. QED  BY <2>1, <2>3 DEF InList
  <1>15. ListLinked'
    <2>1. Ranked'
      BY <1>1, <1>3, <1>4, <1>14, RankedWithOneMore DEF ListLinked
    <2>. QED  BY <1>1, <1>3, <1>4, <1>14, <2>1 DEF ListLinked
  <1>. QED  BY <1>2, <1>3, <1>4, <1>6, <1>7, <1>9, <1>11, <1>13, <1>15, StepKeeps

\* The reference of the list becomes the request again.
LEMMA BackKeeps ==
    ASSUME ListBounds, ListInv, NEW t \in Threads, FL!PushBack(t)
    PROVE  ListInv'
  <1>1. /\ ListTypes /\ LocalsRight(t) /\ ListLinked
        /\ \A m \in Nodes : OneOwner(m) /\ RefsRight(m)
    BY DEF ListInv
  <1>2. PICK n \in Nodes : n = node[t]
    BY <1>1 DEF FL!PushBack, FL!Goto, FL!Resume, LocalsRight, FL!Pushes
  <1>3. /\ FL!AddRefs(n, SHOULD_BE_ON_FREELIST - 1)
        /\ \/ /\ freeListRefs[n] = 1 /\ FL!Goto(t, "back", "link")
              /\ UNCHANGED <<head, node, loaded>>
           \/ /\ freeListRefs[n] # 1
              /\ FL!Resume(t, "back", head[t])
              /\ node' = [node EXCEPT ![t] = NoNode]
        /\ UNCHANGED <<freeListHead, freeListNext, used>>
    BY <1>2 DEF FL!PushBack
  <1>4. pc[t] = "back" /\ Keeps(t, n) /\ Leaving(t, n) /\ ~Refers(t, n)
    BY <1>2, <1>3 DEF FL!Goto, FL!Resume, Keeps, Leaving, Refers
  <1>5. /\ freeListRefs[n] = Refs(n) + 1
        /\ Refs(n) \in Nat /\ Refs(n) + 1 < SHOULD_BE_ON_FREELIST
        /\ SHOULD_BE_ON_FREELIST \in Nat
    BY <1>1, <1>4, RefsCount DEF RefsRight
  <1>6. /\ freeListRefs' = [freeListRefs EXCEPT ![n] = SHOULD_BE_ON_FREELIST + Refs(n)]
        /\ freeListRefs' \in [Nodes -> Nat]
    <2>1. freeListRefs[n] + (SHOULD_BE_ON_FREELIST - 1) = SHOULD_BE_ON_FREELIST + Refs(n)
      BY <1>5
    <2>2. (SHOULD_BE_ON_FREELIST + Refs(n)) % (2 * SHOULD_BE_ON_FREELIST) =
              SHOULD_BE_ON_FREELIST + Refs(n)
      BY <1>5, Modulus
    <2>3. freeListRefs' = [freeListRefs EXCEPT ![n] =
              (freeListRefs[n] + (SHOULD_BE_ON_FREELIST - 1)) % (2 * SHOULD_BE_ON_FREELIST)]
      BY <1>3 DEF FL!AddRefs
    <2>4. freeListRefs' = [freeListRefs EXCEPT ![n] = SHOULD_BE_ON_FREELIST + Refs(n)]
      BY <2>1, <2>2, <2>3
    <2>. QED  BY <1>1, <1>5, <2>4 DEF ListTypes
  <1>7. /\ Alone(t) /\ LocalsRight(t)' /\ ListTypes'
        /\ \A m : ~Refers(t, m)' /\ ~Leaving(t, m)'
        /\ \A m : m # n => ~Pushing(t, m)'
        /\ Pushing(t, n)' <=> Refs(n) = 0
    <2>1. CASE freeListRefs[n] = 1 /\ FL!Goto(t, "back", "link")
          /\ UNCHANGED <<head, node, loaded>>
      <3>1. pc' = [pc EXCEPT ![t] = "link"] /\ loaded[t] \in FL!OrNull
        BY <1>1, <1>4, <2>1 DEF FL!Goto, LocalsRight
      <3>2. ListTypes' /\ Alone(t) /\ pc'[t] = "link" /\ node'[t] = n /\ loaded'[t] \in FL!OrNull
        BY <1>1, <1>2, <1>3, <1>6, <2>1, <3>1 DEF ListTypes, Alone, FL!Pushes
      <3>3. LocalsRight(t)'
        BY <3>2 DEF LocalsRight, FL!Pushes
      <3>4. Refs(n) = 0
        BY <1>5, <2>1
      <3>. QED  BY <3>2, <3>3, <3>4 DEF Refers, Pushing, Leaving
    <2>2. CASE /\ freeListRefs[n] # 1 /\ FL!Resume(t, "back", head[t])
               /\ node' = [node EXCEPT ![t] = NoNode]
      <3>1. head[t] \in FL!OrNull /\ node' \in [Threads -> FL!OrNull]
            /\ \A u \in Threads \ {t} : node'[u] = node[u]
        BY <1>1, <2>2 DEF ListTypes, FL!OrNull
      <3>2. /\ Alone(t) /\ LocalsRight(t)'
            /\ pc' \in [Threads -> FL!Pushes \cup
                                   {"idle", "refs", "count", "next", "pop", "take", "unref"}]
            /\ head' \in [Threads -> FL!OrNull]
            /\ loaded' \in [Threads -> FL!OrNull \cup 0..2 * SHOULD_BE_ON_FREELIST - 1]
            /\ \A m : ~Refers(t, m)' /\ ~Pushing(t, m)' /\ ~Leaving(t, m)' /\ ~Keeps(t, m)'
        BY <1>1, <2>2, <3>1, ResumeFacts
      <3>3. ListTypes'
        BY <1>1, <1>3, <1>6, <3>1, <3>2 DEF ListTypes
      <3>4. Refs(n) # 0
        BY <1>5, <2>2
      <3>. QED  BY <3>2, <3>3, <3>4
    <2>. QED  BY <1>3, <2>1, <2>2
  <1>8. \A m \in Nodes \ {n} : Same(t, m)
    BY <1>1, <1>2, <1>3, <1>4, <1>6, <1>7 DEF Same, Refers, Pushing, Leaving, ListTypes
  <1>9. n \notin used /\ \A u \in Threads \ {t} : ~Keeps(u, n) /\ ~Keeps(u, n)'
    BY <1>1, <1>4, <1>7, SoleOwner
  <1>10. OneOwner(n)'
    BY <1>3, <1>9 DEF OneOwner
  <1>11. Refs(n)' = Refs(n) /\ freeListRefs'[n] = SHOULD_BE_ON_FREELIST + Refs(n)
    BY <1>1, <1>4, <1>6, <1>7, RefsAfter DEF ListTypes
  <1>12. RefsRight(n)'
    <2>1. \A u \in Threads : Pushing(u, n)' => Refs(n) = 0
      BY <1>7, <1>9 DEF Keeps
    <2>2. \A u \in Threads : ~Leaving(u, n)'
      BY <1>7, <1>9 DEF Keeps
    <2>3. (\A u \in Threads : ~Keeps(u, n)') => Refs(n) # 0
      BY <1>7 DEF Keeps
    <2>. QED  BY <1>3, <1>5, <1>9, <1>11, <2>1, <2>2, <2>3 DEF RefsRight
  <1>13. InList' = InList
    <2>1. \A m \in Nodes \ {n} : m \in InList' <=> m \in InList
      BY <1>1, <1>7, <1>8, Elsewhere
    <2>2. n \notin InList /\ n \notin InList'
      BY <1>4, <1>5, <1>11 DEF InList
    <2>. QED  BY <2>1, <2>2 DEF InList
  <1>14. ListLinked'
    BY <1>1, <1>3, <1>13, LinkedStill
  <1>. QED  BY <1>3, <1>7, <1>8, <1>10, <1>12, <1>14, StepKeeps

\* A node that was in use is given back: pushed at once, or by the last that has it.
LEMMA AddKeeps ==
    ASSUME ListBounds, ListInv, NEW t \in Threads, NEW n \in Nodes, FL!Add(t, n)
    PROVE  ListInv'
  <1>1. /\ ListTypes /\ LocalsRight(t) /\ ListLinked
        /\ \A m \in Nodes : OneOwner(m) /\ RefsRight(m)
    BY DEF ListInv
  <1>2. /\ n \in used /\ used' = used \ {n} /\ pc[t] = "idle"
        /\ FL!AddRefs(n, SHOULD_BE_ON_FREELIST)
        /\ \/ /\ freeListRefs[n] = 0 /\ pc' = [pc EXCEPT ![t] = "push"]
              /\ node' = [node EXCEPT ![t] = n]
           \/ freeListRefs[n] # 0 /\ UNCHANGED <<pc, node>>
        /\ UNCHANGED <<freeListHead, freeListNext, head, loaded>>
    BY DEF FL!Add, FL!Goto
  <1>3. /\ freeListRefs[n] = Refs(n)
        /\ Refs(n) \in Nat /\ Refs(n) + 1 < SHOULD_BE_ON_FREELIST
        /\ SHOULD_BE_ON_FREELIST \in Nat
    BY <1>1, <1>2, RefsCount DEF RefsRight
  <1>4. /\ freeListRefs' = [freeListRefs EXCEPT ![n] = SHOULD_BE_ON_FREELIST + Refs(n)]
        /\ freeListRefs' \in [Nodes -> Nat]
    <2>1. freeListRefs[n] + SHOULD_BE_ON_FREELIST = SHOULD_BE_ON_FREELIST + Refs(n)
      BY <1>3
    <2>2. (SHOULD_BE_ON_FREELIST + Refs(n)) % (2 * SHOULD_BE_ON_FREELIST) =
              SHOULD_BE_ON_FREELIST + Refs(n)
      BY <1>3, Modulus
    <2>3. freeListRefs' = [freeListRefs EXCEPT ![n] = (freeListRefs[n] + SHOULD_BE_ON_FREELIST)
                                                      % (2 * SHOULD_BE_ON_FREELIST)]
      BY <1>2 DEF FL!AddRefs
    <2>4. freeListRefs' = [freeListRefs EXCEPT ![n] = SHOULD_BE_ON_FREELIST + Refs(n)]
      BY <2>1, <2>2, <2>3
    <2>. QED  BY <1>1, <1>3, <2>4 DEF ListTypes
  <1>5. /\ ListTypes' /\ Alone(t)
        /\ \/ Refs(n) = 0 /\ pc'[t] = "push" /\ node'[t] = n
           \/ Refs(n) # 0 /\ pc'[t] = "idle"
    <2>1. CASE /\ freeListRefs[n] = 0 /\ pc' = [pc EXCEPT ![t] = "push"]
               /\ node' = [node EXCEPT ![t] = n]
      <3>1. Refs(n) = 0 /\ pc'[t] = "push" /\ node'[t] = n /\ Alone(t)
        BY <1>1, <1>2, <1>3, <2>1 DEF ListTypes, Alone
      <3>2. ListTypes'
        BY <1>1, <1>2, <1>4, <2>1 DEF ListTypes, FL!Pushes, FL!OrNull
      <3>. QED  BY <3>1, <3>2
    <2>2. CASE freeListRefs[n] # 0 /\ UNCHANGED <<pc, node>>
      <3>1. Refs(n) # 0 /\ pc'[t] = "idle" /\ Alone(t)
        BY <1>2, <1>3, <2>2 DEF Alone
      <3>2. ListTypes'
        BY <1>1, <1>2, <1>4, <2>2 DEF ListTypes
      <3>. QED  BY <3>1, <3>2
    <2>. QED  BY <1>2, <2>1, <2>2
  <1>6. LocalsRight(t)'
    BY <1>5 DEF LocalsRight, FL!Pushes
  <1>7. /\ \A m : ~Refers(t, m) /\ ~Pushing(t, m) /\ ~Leaving(t, m)
        /\ \A m : ~Refers(t, m)' /\ ~Leaving(t, m)' /\ (m # n => ~Pushing(t, m)')
        /\ Pushing(t, n)' <=> Refs(n) = 0
    BY <1>2, <1>5 DEF Refers, Pushing, Leaving
  <1>8. \A m \in Nodes \ {n} : Same(t, m)
    BY <1>1, <1>2, <1>4, <1>7 DEF Same, ListTypes
  <1>9. \A u \in Threads : ~Keeps(u, n)
    BY <1>1, <1>2 DEF OneOwner
  <1>10. \A u \in Threads \ {t} : ~Keeps(u, n)'
    BY <1>5, <1>9, OtherBlocks
  <1>11. OneOwner(n)'
    BY <1>2, <1>10 DEF OneOwner
  <1>12. Refs(n)' = Refs(n) /\ freeListRefs'[n] = SHOULD_BE_ON_FREELIST + Refs(n)
    BY <1>1, <1>4, <1>5, <1>7, RefsAfter DEF ListTypes
  <1>13. RefsRight(n)'
    <2>1. \A u \in Threads : Pushing(u, n)' => Refs(n) = 0
      BY <1>7, <1>10 DEF Keeps
    <2>2. \A u \in Threads : ~Leaving(u, n)'
      BY <1>7, <1>10 DEF Keeps
    <2>3. (\A u \in Threads : ~Keeps(u, n)') => Refs(n) # 0
      BY <1>7 DEF Keeps
    <2>. QED  BY <1>2, <1>3, <1>12, <2>1, <2>2, <2>3 DEF RefsRight
  <1>14. InList' = InList
    <2>1. \A m \in Nodes \ {n} : m \in InList' <=> m \in InList
      BY <1>1, <1>5, <1>8, Elsewhere
    <2>2. n \notin InList /\ n \notin InList'
      BY <1>2, <1>3, <1>12 DEF InList
    <2>. QED  BY <2>1, <2>2 DEF InList
  <1>15. ListLinked'
    BY <1>1, <1>2, <1>14, LinkedStill
  <1>. QED  BY <1>2, <1>5, <1>6, <1>8, <1>11, <1>13, <1>15, StepKeeps

\* The head gets one more reference, wherever it has gone meanwhile.
LEMMA CountKeeps ==
    ASSUME ListBounds, ListInv, NEW t \in Threads, FL!GetCount(t)
    PROVE  ListInv'
  <1>1. /\ ListTypes /\ LocalsRight(t) /\ ListLinked
        /\ \A m \in Nodes : OneOwner(m) /\ RefsRight(m)
    BY DEF ListInv
  <1>2. PICK n \in Nodes : n = head[t]
    BY <1>1 DEF FL!GetCount, FL!Goto, LocalsRight
  <1>3. /\ pc[t] = "count" /\ pc' = [pc EXCEPT ![t] = "next"]
        /\ freeListRefs[n] = loaded[t]
        /\ FL!AddRefs(n, 1)
        /\ loaded' = [loaded EXCEPT ![t] = NoNode]
        /\ UNCHANGED <<freeListHead, freeListNext, used, head, node>>
    BY <1>2 DEF FL!GetCount, FL!Goto
  <1>4. /\ freeListRefs[n] \in 0..2 * SHOULD_BE_ON_FREELIST - 1
        /\ FL!Count(freeListRefs[n]) # 0
        /\ freeListRefs[n] # SHOULD_BE_ON_FREELIST
        /\ \/ freeListRefs[n] \in {Refs(n), Refs(n) + 1}
           \/ freeListRefs[n] = SHOULD_BE_ON_FREELIST + Refs(n)
    BY <1>1, <1>3, RefsFacts DEF LocalsRight
  <1>5. /\ Alone(t) /\ pc'[t] = "next"
        /\ Refers(t, n)' /\ ~Refers(t, n)
        /\ \A m : ~Pushing(t, m) /\ ~Leaving(t, m) /\ ~Keeps(t, m)
        /\ \A m : ~Pushing(t, m)' /\ ~Leaving(t, m)' /\ ~Keeps(t, m)'
        /\ \A m : m # n => ~Refers(t, m) /\ ~Refers(t, m)'
    BY <1>1, <1>2, <1>3 DEF Alone, ListTypes, Refers, Pushing, Leaving, Keeps
  <1>6. /\ Refs(n)' = Refs(n) + 1
        /\ Refs(n) \in Nat /\ Refs(n) + 2 < SHOULD_BE_ON_FREELIST
        /\ SHOULD_BE_ON_FREELIST \in Nat
    <2>1. Refs(n)' = Refs(n) + 1
      BY <1>5, RefsAfter
    <2>. QED  BY <2>1, RefsCount
  <1>7. /\ freeListRefs' = [freeListRefs EXCEPT ![n] = freeListRefs[n] + 1]
        /\ freeListRefs' \in [Nodes -> Nat]
    <2>1. freeListRefs[n] + 1 \in Nat /\ freeListRefs[n] + 1 < 2 * SHOULD_BE_ON_FREELIST
      BY <1>4, <1>6
    <2>2. (freeListRefs[n] + 1) % (2 * SHOULD_BE_ON_FREELIST) = freeListRefs[n] + 1
      BY <1>6, <2>1, Modulus
    <2>3. freeListRefs' = [freeListRefs EXCEPT ![n] = (freeListRefs[n] + 1)
                                                      % (2 * SHOULD_BE_ON_FREELIST)]
      BY <1>3 DEF FL!AddRefs
    <2>4. freeListRefs' = [freeListRefs EXCEPT ![n] = freeListRefs[n] + 1]
      BY <2>2, <2>3
    <2>. QED  BY <1>1, <2>1, <2>4 DEF ListTypes
  <1>8. ListTypes'
    BY <1>1, <1>3, <1>7 DEF ListTypes, FL!OrNull
  <1>9. LocalsRight(t)'
    BY <1>2, <1>3, <1>5 DEF LocalsRight, FL!Pushes
  <1>10. \A m \in Nodes \ {n} : Same(t, m)
    BY <1>1, <1>3, <1>5, <1>7 DEF Same, ListTypes
  <1>11. ASSUME NEW u \in Threads
         PROVE  /\ Pushing(u, n)' <=> Pushing(u, n)
                /\ Leaving(u, n)' <=> Leaving(u, n)
                /\ Keeps(u, n)' <=> Keeps(u, n)
    BY <1>5, OtherBlocks
  <1>12. OneOwner(n)'
    BY <1>1, <1>3, <1>11 DEF OneOwner
  <1>13. freeListRefs'[n] = freeListRefs[n] + 1
    BY <1>1, <1>7 DEF ListTypes
  <1>14. \A u \in Threads : ~Pushing(u, n)
    BY <1>1, <1>4 DEF RefsRight
  <1>15. RefsRight(n)'
    <2>1. n \in used => freeListRefs'[n] = Refs(n)'
      BY <1>1, <1>6, <1>13 DEF RefsRight
    <2>2. \A u \in Threads : Leaving(u, n) => freeListRefs'[n] = Refs(n)' + 1
      BY <1>1, <1>6, <1>13 DEF RefsRight
    <2>3. n \notin used /\ (\A u \in Threads : ~Keeps(u, n)) =>
              \/ freeListRefs'[n] = Refs(n)' + 1
              \/ freeListRefs'[n] = SHOULD_BE_ON_FREELIST + Refs(n)' /\ Refs(n)' # 0
      BY <1>1, <1>6, <1>13 DEF RefsRight
    <2>. QED  BY <1>3, <1>11, <1>14, <2>1, <2>2, <2>3 DEF RefsRight
  <1>16. InList' = InList
    <2>1. \A m \in Nodes \ {n} : m \in InList' <=> m \in InList
      BY <1>1, <1>5, <1>10, Elsewhere
    <2>2. freeListRefs'[n] < SHOULD_BE_ON_FREELIST <=> freeListRefs[n] < SHOULD_BE_ON_FREELIST
      BY <1>4, <1>6, <1>13
    <2>3. n \in InList' <=> n \in InList
      BY <1>3, <1>11, <2>2 DEF InList
    <2>. QED  BY <2>1, <2>3 DEF InList
  <1>17. ListLinked'
    BY <1>1, <1>3, <1>16, LinkedStill
  <1>. QED  BY <1>3, <1>5, <1>8, <1>9, <1>10, <1>12, <1>15, <1>17, StepKeeps

\* The head is popped: it was on the list, and its next is what was read.
LEMMA PopKeeps ==
    ASSUME ListBounds, ListInv, NEW t \in Threads, FL!GetPop(t)
    PROVE  ListInv'
  <1>1. /\ ListTypes /\ LocalsRight(t) /\ ListLinked
        /\ \A m \in Nodes : OneOwner(m) /\ RefsRight(m)
    BY DEF ListInv
  <1>2. PICK n \in Nodes : n = head[t]
    BY <1>1 DEF FL!GetPop, FL!Goto, LocalsRight
  <1>3. /\ pc[t] = "pop" /\ pc' = [pc EXCEPT ![t] = "take"]
        /\ freeListHead = n /\ freeListHead' = loaded[t] /\ loaded[t] = freeListNext[n]
        /\ loaded' = [loaded EXCEPT ![t] = NoNode]
        /\ UNCHANGED <<freeListRefs, freeListNext, used, head, node>>
    BY <1>1, <1>2 DEF FL!GetPop, FL!Goto, LocalsRight
  <1>4. n \in InList
    BY <1>1, <1>3 DEF ListLinked, ListBounds
  <1>5. /\ n \notin used /\ (\A u \in Threads : ~Keeps(u, n))
        /\ freeListRefs[n] = Refs(n) + 1
    BY <1>1, <1>4, RefsCount DEF InList, RefsRight
  <1>6. /\ Alone(t) /\ pc'[t] = "take" /\ ListTypes' /\ LocalsRight(t)'
        /\ Refers(t, n) /\ Refers(t, n)' /\ Leaving(t, n)' /\ ~Pushing(t, n)' /\ Keeps(t, n)'
        /\ \A m : ~Pushing(t, m) /\ ~Leaving(t, m)
        /\ \A m : m # n => ~Refers(t, m) /\ ~Refers(t, m)' /\ ~Pushing(t, m)' /\ ~Leaving(t, m)'
    <2>1. Alone(t) /\ pc'[t] = "take" /\ ListTypes'
      BY <1>1, <1>2, <1>3 DEF Alone, ListTypes, FL!OrNull
    <2>2. LocalsRight(t)'
      BY <1>2, <1>3, <2>1 DEF LocalsRight, FL!Pushes
    <2>3. /\ Refers(t, n) /\ Refers(t, n)' /\ Leaving(t, n)' /\ ~Pushing(t, n)' /\ Keeps(t, n)'
          /\ \A m : ~Pushing(t, m) /\ ~Leaving(t, m)
          /\ \A m : m # n =>
                ~Refers(t, m) /\ ~Refers(t, m)' /\ ~Pushing(t, m)' /\ ~Leaving(t, m)'
      BY <1>2, <1>3, <2>1 DEF Refers, Pushing, Leaving, Keeps
    <2>. QED  BY <2>1, <2>2, <2>3
  <1>7. \A m \in Nodes \ {n} : Same(t, m)
    BY <1>3, <1>6 DEF Same
  <1>8. \A u \in Threads \ {t} : ~Keeps(u, n)'
    BY <1>5, <1>6, OtherBlocks
  <1>9. OneOwner(n)'
    BY <1>3, <1>5, <1>8 DEF OneOwner
  <1>10. Refs(n)' = Refs(n)
    BY <1>6, RefsAfter
  <1>11. RefsRight(n)'
    BY <1>3, <1>5, <1>6, <1>8, <1>10 DEF RefsRight, Keeps
  <1>12. InList' = InList \ {n}
    <2>1. \A m \in Nodes \ {n} : m \in InList' <=> m \in InList
      BY <1>1, <1>6, <1>7, Elsewhere
    <2>2. n \notin InList'
      BY <1>6 DEF InList
    <2>. QED  BY <2>1, <2>2 DEF InList
  <1>13. ListLinked'
    <2>1. Ranked'
      BY <1>1, <1>3, <1>12, RankedWithoutTheFirst DEF ListLinked
    <2>. QED  BY <1>1, <1>3, <1>4, <1>12, <2>1 DEF ListLinked, ListBounds, InList
  <1>. QED  BY <1>3, <1>6, <1>7, <1>9, <1>11, <1>13, StepKeeps

\* What was popped is in use, without the two references.
LEMMA TakeKeeps ==
    ASSUME ListBounds, ListInv, NEW t \in Threads, FL!GetTake(t)
    PROVE  ListInv'
  <1>1. /\ ListTypes /\ LocalsRight(t) /\ ListLinked
        /\ \A m \in Nodes : OneOwner(m) /\ RefsRight(m)
    BY DEF ListInv
  <1>2. PICK n \in Nodes : n = head[t]
    BY <1>1 DEF FL!GetTake, FL!Goto, LocalsRight
  <1>3. /\ pc[t] = "take" /\ pc' = [pc EXCEPT ![t] = "idle"]
        /\ FL!AddRefs(n, -2)
        /\ used' = used \cup {n}
        /\ head' = [head EXCEPT ![t] = NoNode]
        /\ UNCHANGED <<freeListHead, freeListNext, node, loaded>>
    BY <1>2 DEF FL!GetTake, FL!Goto
  <1>4. /\ Alone(t) /\ pc'[t] = "idle" /\ LocalsRight(t)'
        /\ Refers(t, n) /\ Leaving(t, n) /\ Keeps(t, n)
        /\ \A m : ~Refers(t, m)' /\ ~Pushing(t, m)' /\ ~Leaving(t, m)' /\ ~Keeps(t, m)'
        /\ \A m : m # n => ~Refers(t, m) /\ ~Pushing(t, m) /\ ~Leaving(t, m)
    <2>1. Alone(t) /\ pc'[t] = "idle"
      BY <1>1, <1>3 DEF Alone, ListTypes
    <2>. QED  BY <1>2, <1>3, <2>1 DEF Refers, Pushing, Leaving, Keeps, LocalsRight, FL!Pushes
  <1>5. /\ freeListRefs[n] = Refs(n) + 1 /\ Refs(n)' = Refs(n) - 1
        /\ Refs(n) \in Nat /\ Refs(n) # 0
        /\ Refs(n) + 1 < SHOULD_BE_ON_FREELIST /\ SHOULD_BE_ON_FREELIST \in Nat
    <2>1. freeListRefs[n] = Refs(n) + 1 /\ Refs(n)' = Refs(n) - 1
      BY <1>1, <1>4, RefsAfter DEF RefsRight
    <2>2. Referrers(n) # {}
      BY <1>4 DEF Referrers
    <2>. QED  BY <2>1, <2>2, RefsCount
  <1>6. /\ freeListRefs' = [freeListRefs EXCEPT ![n] = Refs(n) - 1]
        /\ freeListRefs' \in [Nodes -> Nat]
    <2>1. Refs(n) - 1 \in Nat /\ freeListRefs[n] + -2 = Refs(n) - 1
          /\ Refs(n) - 1 < 2 * SHOULD_BE_ON_FREELIST
      BY <1>5
    <2>2. (Refs(n) - 1) % (2 * SHOULD_BE_ON_FREELIST) = Refs(n) - 1
      BY <1>5, <2>1, Modulus
    <2>3. freeListRefs' = [freeListRefs EXCEPT ![n] = (freeListRefs[n] + -2)
                                                      % (2 * SHOULD_BE_ON_FREELIST)]
      BY <1>3 DEF FL!AddRefs
    <2>4. freeListRefs' = [freeListRefs EXCEPT ![n] = Refs(n) - 1]
      BY <2>1, <2>2, <2>3
    <2>. QED  BY <1>1, <2>1, <2>4 DEF ListTypes
  <1>7. ListTypes'
    BY <1>1, <1>3, <1>6 DEF ListTypes, FL!OrNull
  <1>8. \A m \in Nodes \ {n} : Same(t, m)
    BY <1>1, <1>3, <1>4, <1>6 DEF Same, ListTypes
  <1>9. \A u \in Threads : ~Keeps(u, n)'
    BY <1>1, <1>4, SoleOwner
  <1>10. OneOwner(n)'
    BY <1>9 DEF OneOwner
  <1>11. freeListRefs'[n] = Refs(n)' /\ n \in used'
    BY <1>1, <1>3, <1>5, <1>6 DEF ListTypes
  <1>12. RefsRight(n)'
    BY <1>9, <1>11 DEF RefsRight, Keeps
  <1>13. InList' = InList
    <2>1. \A m \in Nodes \ {n} : m \in InList' <=> m \in InList
      BY <1>1, <1>4, <1>8, Elsewhere
    <2>2. n \notin InList /\ n \notin InList'
      BY <1>4, <1>11 DEF InList
    <2>. QED  BY <2>1, <2>2 DEF InList
  <1>14. ListLinked'
    BY <1>1, <1>3, <1>13, LinkedStill
  <1>. QED  BY <1>3, <1>4, <1>7, <1>8, <1>10, <1>12, <1>14, StepKeeps

\* A reference is dropped, and with the last one a request is served.
LEMMA UnrefKeeps ==
    ASSUME ListBounds, ListInv, NEW t \in Threads, FL!GetUnref(t)
    PROVE  ListInv'
  <1>1. /\ ListTypes /\ LocalsRight(t) /\ ListLinked
        /\ \A m \in Nodes : OneOwner(m) /\ RefsRight(m)
    BY DEF ListInv
  <1>2. PICK n \in Nodes : n = node[t]
    BY <1>1 DEF FL!GetUnref, LocalsRight
  <1>3. /\ pc[t] = "unref"
        /\ FL!AddRefs(n, -1)
        /\ \/ /\ freeListRefs[n] = SHOULD_BE_ON_FREELIST + 1
              /\ FL!Goto(t, "unref", "push")
              /\ UNCHANGED <<head, node, loaded>>
           \/ /\ freeListRefs[n] # SHOULD_BE_ON_FREELIST + 1
              /\ FL!Resume(t, "unref", head[t])
              /\ node' = [node EXCEPT ![t] = NoNode]
        /\ UNCHANGED <<freeListHead, freeListNext, used>>
    BY <1>2 DEF FL!GetUnref
  <1>4. /\ Refers(t, n)
        /\ \A m : ~Pushing(t, m) /\ ~Leaving(t, m) /\ ~Keeps(t, m)
        /\ \A m : m # n => ~Refers(t, m)
    BY <1>2, <1>3 DEF Refers, Pushing, Leaving, Keeps
  <1>5. /\ Refs(n) \in Nat /\ Refs(n) # 0
        /\ Refs(n) + 1 < SHOULD_BE_ON_FREELIST /\ SHOULD_BE_ON_FREELIST \in Nat
        /\ \/ freeListRefs[n] \in {Refs(n), Refs(n) + 1}
           \/ freeListRefs[n] = SHOULD_BE_ON_FREELIST + Refs(n)
    <2>1. Referrers(n) # {}
      BY <1>4 DEF Referrers
    <2>. QED  BY <1>1, <2>1, RefsCount, RefsFacts
  <1>6. /\ freeListRefs' = [freeListRefs EXCEPT ![n] = freeListRefs[n] - 1]
        /\ freeListRefs' \in [Nodes -> Nat]
    <2>1. /\ freeListRefs[n] - 1 \in Nat /\ freeListRefs[n] + -1 = freeListRefs[n] - 1
          /\ freeListRefs[n] - 1 < 2 * SHOULD_BE_ON_FREELIST
      BY <1>5
    <2>2. (freeListRefs[n] - 1) % (2 * SHOULD_BE_ON_FREELIST) = freeListRefs[n] - 1
      BY <1>5, <2>1, Modulus
    <2>3. freeListRefs' = [freeListRefs EXCEPT ![n] = (freeListRefs[n] + -1)
                                                      % (2 * SHOULD_BE_ON_FREELIST)]
      BY <1>3 DEF FL!AddRefs
    <2>4. freeListRefs' = [freeListRefs EXCEPT ![n] = freeListRefs[n] - 1]
      BY <2>1, <2>2, <2>3
    <2>. QED  BY <1>1, <2>1, <2>4 DEF ListTypes
  <1>7. /\ Alone(t) /\ LocalsRight(t)' /\ ListTypes'
        /\ \A m : ~Refers(t, m)' /\ ~Leaving(t, m)'
        /\ \A m : m # n => ~Pushing(t, m)'
        /\ Pushing(t, n)' <=> freeListRefs[n] = SHOULD_BE_ON_FREELIST + 1
    <2>1. CASE /\ freeListRefs[n] = SHOULD_BE_ON_FREELIST + 1
               /\ FL!Goto(t, "unref", "push")
               /\ UNCHANGED <<head, node, loaded>>
      <3>1. pc' = [pc EXCEPT ![t] = "push"]
        BY <2>1 DEF FL!Goto
      <3>2. ListTypes' /\ Alone(t) /\ pc'[t] = "push" /\ node'[t] = n
        BY <1>1, <1>2, <1>3, <1>6, <2>1, <3>1 DEF ListTypes, Alone, FL!Pushes
      <3>3. LocalsRight(t)'
        BY <3>2 DEF LocalsRight, FL!Pushes
      <3>. QED  BY <2>1, <3>2, <3>3 DEF Refers, Pushing, Leaving
    <2>2. CASE /\ freeListRefs[n] # SHOULD_BE_ON_FREELIST + 1
               /\ FL!Resume(t, "unref", head[t])
               /\ node' = [node EXCEPT ![t] = NoNode]
      <3>1. head[t] \in FL!OrNull /\ node' \in [Threads -> FL!OrNull]
            /\ \A u \in Threads \ {t} : node'[u] = node[u]
        BY <1>1, <2>2 DEF ListTypes, FL!OrNull
      <3>2. /\ Alone(t) /\ LocalsRight(t)'
            /\ pc' \in [Threads -> FL!Pushes \cup
                                   {"idle", "refs", "count", "next", "pop", "take", "unref"}]
            /\ head' \in [Threads -> FL!OrNull]
            /\ loaded' \in [Threads -> FL!OrNull \cup 0..2 * SHOULD_BE_ON_FREELIST - 1]
            /\ \A m : ~Refers(t, m)' /\ ~Pushing(t, m)' /\ ~Leaving(t, m)' /\ ~Keeps(t, m)'
        BY <1>1, <2>2, <3>1, ResumeFacts
      <3>3. ListTypes'
        BY <1>1, <1>3, <1>6, <3>1, <3>2 DEF ListTypes
      <3>. QED  BY <2>2, <3>2, <3>3
    <2>. QED  BY <1>3, <2>1, <2>2
  <1>8. \A m \in Nodes \ {n} : Same(t, m)
    BY <1>1, <1>3, <1>4, <1>6, <1>7 DEF Same, ListTypes
  <1>9. Refs(n)' = Refs(n) - 1 /\ freeListRefs'[n] = freeListRefs[n] - 1
    BY <1>1, <1>4, <1>6, <1>7, RefsAfter DEF ListTypes
  <1>10. ASSUME NEW u \in Threads \ {t}
         PROVE  /\ Pushing(u, n)' <=> Pushing(u, n)
                /\ Leaving(u, n)' <=> Leaving(u, n)
                /\ Keeps(u, n)' <=> Keeps(u, n)
    BY <1>7, OtherBlocks
  <1>11. \A u \in Threads : ~Pushing(u, n)
    BY <1>1, <1>5 DEF RefsRight
  <1>12. ASSUME freeListRefs[n] = SHOULD_BE_ON_FREELIST + 1
         PROVE  n \notin used /\ (\A u \in Threads : ~Keeps(u, n)) /\ Refs(n) = 1
    <2>1. n \notin used
      BY <1>1, <1>5, <1>12 DEF RefsRight
    <2>2. \A u \in Threads : ~Leaving(u, n)
      BY <1>1, <1>5, <1>12 DEF RefsRight
    <2>. QED  BY <1>5, <1>11, <1>12, <2>1, <2>2 DEF Keeps
  <1>13. OneOwner(n)'
    <2>1. CASE freeListRefs[n] = SHOULD_BE_ON_FREELIST + 1
      BY <1>3, <1>10, <1>12, <2>1 DEF OneOwner
    <2>2. CASE freeListRefs[n] # SHOULD_BE_ON_FREELIST + 1
      <3>1. ~Keeps(t, n)'
        BY <1>7, <2>2 DEF Keeps
      <3>. QED  BY <1>1, <1>3, <1>10, <3>1 DEF OneOwner
    <2>. QED  BY <2>1, <2>2
  <1>14. RefsRight(n)'
    <2>1. CASE freeListRefs[n] = SHOULD_BE_ON_FREELIST + 1
      <3>1. /\ freeListRefs'[n] = SHOULD_BE_ON_FREELIST /\ Refs(n)' = 0
            /\ n \notin used' /\ Keeps(t, n)' /\ \A u \in Threads : ~Leaving(u, n)'
        BY <1>3, <1>5, <1>7, <1>9, <1>10, <1>12, <2>1 DEF Keeps
      <3>. QED  BY <3>1 DEF RefsRight
    <2>2. CASE freeListRefs[n] # SHOULD_BE_ON_FREELIST + 1
      <3>1. ASSUME NEW u \in Threads
            PROVE  /\ ~Pushing(u, n)'
                   /\ Leaving(u, n)' <=> Leaving(u, n)
                   /\ Keeps(u, n)' <=> Keeps(u, n)
        BY <1>4, <1>7, <1>10, <1>11, <2>2 DEF Keeps
      <3>2. n \in used => freeListRefs'[n] = Refs(n)'
        BY <1>1, <1>5, <1>9 DEF RefsRight
      <3>3. \A u \in Threads : Leaving(u, n) => freeListRefs'[n] = Refs(n)' + 1
        BY <1>1, <1>5, <1>9 DEF RefsRight
      <3>4. n \notin used /\ (\A u \in Threads : ~Keeps(u, n)) =>
                \/ freeListRefs'[n] = Refs(n)' + 1
                \/ freeListRefs'[n] = SHOULD_BE_ON_FREELIST + Refs(n)' /\ Refs(n)' # 0
        BY <1>1, <1>5, <1>9, <2>2 DEF RefsRight
      <3>. QED  BY <1>3, <3>1, <3>2, <3>3, <3>4 DEF RefsRight
    <2>. QED  BY <2>1, <2>2
  <1>15. InList' = InList
    <2>1. \A m \in Nodes \ {n} : m \in InList' <=> m \in InList
      BY <1>1, <1>7, <1>8, Elsewhere
    <2>2. freeListRefs'[n] < SHOULD_BE_ON_FREELIST <=> freeListRefs[n] < SHOULD_BE_ON_FREELIST
      BY <1>5, <1>9
    <2>3. n \in InList' <=> n \in InList
      <3>1. CASE freeListRefs[n] = SHOULD_BE_ON_FREELIST + 1
        <4>1. Keeps(t, n)' /\ ~(freeListRefs[n] < SHOULD_BE_ON_FREELIST)
          BY <1>5, <1>7, <3>1 DEF Keeps
        <4>. QED  BY <4>1 DEF InList
      <3>2. CASE freeListRefs[n] # SHOULD_BE_ON_FREELIST + 1
        <4>1. ~Keeps(t, n)'
          BY <1>7, <3>2 DEF Keeps
        <4>. QED  BY <1>3, <1>4, <1>10, <2>2, <4>1 DEF InList
      <3>. QED  BY <3>1, <3>2
    <2>. QED  BY <2>1, <2>3 DEF InList
  <1>16. ListLinked'
    BY <1>1, <1>3, <1>15, LinkedStill
  <1>. QED  BY <1>3, <1>7, <1>8, <1>13, <1>14, <1>16, StepKeeps

\* At first every node is in use and nobody has a reference to any.
LEMMA ListInit ==
    ASSUME ListBounds, FL!Init
    PROVE  ListInv
  <1>1. ListTypes
    BY DEF FL!Init, ListTypes, FL!OrNull, ListBounds
  <1>2. \A t \in Threads : LocalsRight(t) /\ \A n : ~Refers(t, n) /\ ~Keeps(t, n)
    BY DEF FL!Init, LocalsRight, Refers, Keeps, Pushing, Leaving, FL!Pushes
  <1>3. ASSUME NEW n \in Nodes PROVE OneOwner(n) /\ RefsRight(n)
    <2>1. Refs(n) = 0
      BY <1>2, FS_EmptySet DEF Refs, Referrers
    <2>. QED  BY <1>2, <2>1 DEF FL!Init, OneOwner, RefsRight, Keeps
  <1>4. ListLinked
    <2>1. InList = {} /\ freeListHead = NoNode
      BY DEF InList, FL!Init
    <2>2. Ranked
      <3>1. [n \in Nodes |-> 0] \in [Nodes -> Nat]
        OBVIOUS
      <3>. QED  BY <2>1, <3>1 DEF Ranked
    <2>. QED  BY <2>1, <2>2 DEF ListLinked
  <1>. QED  BY <1>1, <1>2, <1>3, <1>4 DEF ListInv

\* Every step keeps it.
LEMMA ListKeeps ==
    ASSUME ListBounds, ListInv, [Next]_vars
    PROVE  ListInv'
  <1>1. CASE UNCHANGED freeList
    <2>1. UNCHANGED <<freeListHead, freeListRefs, freeListNext, used, pc, head, node, loaded>>
      BY <1>1 DEF freeList
    <2>2. \A t \in Threads : /\ LocalsRight(t)' <=> LocalsRight(t)
                             /\ \A n : /\ Refers(t, n)' <=> Refers(t, n)
                                       /\ Pushing(t, n)' <=> Pushing(t, n)
                                       /\ Leaving(t, n)' <=> Leaving(t, n)
                                       /\ Keeps(t, n)' <=> Keeps(t, n)
      BY <2>1 DEF LocalsRight, Refers, Keeps, Pushing, Leaving
    <2>3. ASSUME NEW n \in Nodes PROVE OneOwner(n)' /\ RefsRight(n)'
      <3>1. Refs(n)' = Refs(n)
        BY <2>2 DEF Refs, Referrers
      <3>. QED  BY <2>1, <2>2, <3>1 DEF ListInv, OneOwner, RefsRight
    <2>4. InList' = InList
      BY <2>1, <2>2 DEF InList
    <2>5. ListLinked'
      BY <2>1, <2>4, LinkedStill DEF ListInv
    <2>6. ListTypes'
      BY <2>1 DEF ListInv, ListTypes
    <2>. QED  BY <2>2, <2>3, <2>5, <2>6 DEF ListInv
  <1>2. ASSUME NEW t \in Threads, FL!Push(t) PROVE ListInv'
    BY <1>2, PushReadsKeep, LinkKeeps, PublishKeeps, InsertKeeps, BackKeeps DEF FL!Push
  <1>3. ASSUME NEW t \in Threads, FL!TryGet(t) PROVE ListInv'
    BY <1>3, LoadsKeep, ReadsKeep, CountKeeps, PopKeeps, PopFailsKeeps, TakeKeeps, UnrefKeeps
       DEF FL!TryGet
  <1>4. ASSUME NEW t \in Threads, NEW n \in Nodes, FL!Add(t, n) PROVE ListInv'
    BY <1>4, AddKeeps
  <1>. QED
    BY <1>1, <1>2, <1>3, <1>4 DEF Next, FreeListStep, SubQueueStep, HashStep, FL!Next, vars

\* So it is an invariant of the list.
LEMMA ListInvariant ==
    ASSUME ListBounds
    PROVE  Spec => []ListInv
  <1>1. Init => ListInv
    BY ListInit DEF Init
  <1>2. ListInv /\ [Next]_vars => ListInv'
    BY ListKeeps
  <1>. QED  BY <1>1, <1>2, PTL DEF Spec

-----------------------------------------------------------------------------
(* What the users of the list see of it.                                   *)

\* FiniteSets' Cardinality, as the list's module has it.
LEMMA ListCardinality ==
    ASSUME NEW S
    PROVE  FL!Cardinality(S) = Cardinality(S)
  BY Zenon DEF FL!Cardinality, Cardinality

\* Every variable keeps to its type, and the count of a node stays below its top
\* bit: at most one reference for each thread and one for the list
\* (concurrentqueue.h:1447-1449).
LEMMA ListTypeOK ==
    ASSUME ListBounds, ListInv
    PROVE  FL!TypeOK
  <1>1. ListTypes /\ \A n \in Nodes : RefsRight(n)
    BY DEF ListInv
  <1>2. Cardinality(Threads) \in Nat /\ FL!Cardinality(Threads) = Cardinality(Threads)
    BY FS_CardinalityType, ListCardinality DEF ListBounds
  <1>3. ASSUME NEW n \in Nodes
        PROVE  /\ freeListRefs[n] \in 0..2 * SHOULD_BE_ON_FREELIST - 1
               /\ FL!Count(freeListRefs[n]) <= Cardinality(Threads) + 1
    <2>1. /\ freeListRefs[n] \in 0..2 * SHOULD_BE_ON_FREELIST - 1
          /\ FL!Count(freeListRefs[n]) <= Refs(n) + 1 /\ Refs(n) \in Nat
      BY <1>1, RefsFacts, RefsCount
    <2>2. Refs(n) <= Cardinality(Threads)
      BY FS_Subset DEF ListBounds, Refs, Referrers
    <2>3. freeListRefs[n] \in Nat /\ SHOULD_BE_ON_FREELIST \in Nat \ {0}
      BY <1>1, <1>2 DEF ListTypes, ListBounds
    <2>4. FL!Count(freeListRefs[n]) \in Nat
      BY <2>3 DEF FL!Count
    <2>. QED  BY <1>2, <2>1, <2>2, <2>4
  <1>. QED  BY <1>1, <1>2, <1>3 DEF ListTypes, FL!TypeOK

\* Who has popped a node is alone with it, and it is in use only after that.
LEMMA TakersFacts ==
    ASSUME NEW n, OneOwner(n)
    PROVE  /\ \A t \in Threads : t \in FL!Takers(n) => FL!Takers(n) = {t} /\ n \notin used
           /\ FL!Takers(n) = {} \/ \E t \in Threads : FL!Takers(n) = {t}
  BY DEF OneOwner, Keeps, Leaving, FL!Takers

\* How often a node is out of the pool: in use, or just popped.
Uses(n) == FL!Cardinality(FL!Takers(n)) + IF n \in used THEN 1 ELSE 0

\* It is out once or not at all, before a step and after it.
LEMMA OnceOut ==
    ASSUME NEW T, NEW P, T = {} \/ (~P /\ \E x : T = {x})
    PROVE  /\ Cardinality(T) + (IF P THEN 1 ELSE 0) \in 0..1
           /\ Cardinality(T) + (IF P THEN 1 ELSE 0) = 1 <=> P \/ T # {}
  <1>1. CASE T = {}
    BY <1>1, FS_EmptySet
  <1>2. CASE ~P /\ \E x : T = {x}
    <2>1. T # {} /\ Cardinality(T) = 1
      BY <1>2, FS_Singleton
    <2>. QED  BY <1>2, <2>1
  <1>. QED  BY <1>1, <1>2

\* A node is out once or not at all.
LEMMA UsesFacts ==
    ASSUME ListInv, ListInv', NEW n \in Nodes
    PROVE  /\ Uses(n) \in 0..1 /\ Uses(n)' \in 0..1
           /\ Uses(n) = 1 <=> n \in used \/ FL!Takers(n) # {}
           /\ Uses(n)' = 1 <=> n \in used' \/ FL!Takers(n)' # {}
  <1>1. OneOwner(n) /\ OneOwner(n)'
    BY DEF ListInv
  <1>2. FL!Takers(n) = {} \/ (n \notin used /\ \E t : FL!Takers(n) = {t})
    <2>1. ASSUME NEW t \in FL!Takers(n) PROVE FL!Takers(n) = {t} /\ n \notin used
      BY <1>1 DEF OneOwner, Keeps, Leaving, FL!Takers
    <2>. QED  BY <2>1
  <1>3. FL!Takers(n)' = {} \/ (n \notin used' /\ \E t : FL!Takers(n)' = {t})
    <2>1. ASSUME NEW t \in FL!Takers(n)' PROVE FL!Takers(n)' = {t} /\ n \notin used'
      BY <1>1 DEF OneOwner, Keeps, Leaving, FL!Takers
    <2>. QED  BY <2>1
  <1>. QED  BY <1>2, <1>3, OnceOut, ListCardinality DEF Uses

\* A step that neither takes a node out nor brings one back.
LEMMA PoolStutters ==
    ASSUME UNCHANGED used, \A n \in Nodes : FL!Takers(n)' = FL!Takers(n)
    PROVE  UNCHANGED [n \in Nodes |-> FL!Cardinality(FL!Takers(n)) + IF n \in used THEN 1 ELSE 0]
  OBVIOUS

\* A step after which one node is out of the pool as often as k says.
LEMMA PoolChanges ==
    ASSUME NEW n \in Nodes, NEW k, Uses(n)' = k, \A m \in Nodes \ {n} : Uses(m)' = Uses(m)
    PROVE  [m \in Nodes |-> Uses(m)]' = [[m \in Nodes |-> Uses(m)] EXCEPT ![n] = k]
  OBVIOUS

\* The other threads have popped what they had.
LEMMA OtherTakers ==
    ASSUME NEW t \in Threads, \A u \in Threads \ {t} : pc'[u] = pc[u] /\ head'[u] = head[u]
    PROVE  \A n : FL!Takers(n)' \ {t} = FL!Takers(n) \ {t}
  BY DEF FL!Takers

\* The steps within a call: the pool sees nothing of them.
LEMMA QuietStep ==
    ASSUME ListTypes, NEW t \in Threads,
           \/ FL!Push(t) \/ FL!GetLoad(t) \/ FL!GetReload(t) \/ FL!GetRefs(t)
           \/ FL!GetCount(t) \/ FL!GetNext(t) \/ FL!GetPopFails(t) \/ FL!GetUnref(t)
    PROVE  UNCHANGED [n \in Nodes |-> FL!Cardinality(FL!Takers(n)) + IF n \in used THEN 1 ELSE 0]
  <1>1. /\ pc \in [Threads -> FL!Pushes \cup
                              {"idle", "refs", "count", "next", "pop", "take", "unref"}]
        /\ head \in [Threads -> FL!OrNull]
    BY DEF ListTypes
  <1>2. /\ used' = used /\ pc[t] # "take" /\ pc'[t] # "take"
        /\ \A u \in Threads \ {t} : pc'[u] = pc[u] /\ head'[u] = head[u]
    <2>1. CASE FL!Push(t)
      BY <1>1, <2>1 DEF FL!Push, FL!PushLoad, FL!PushLink, FL!PushPublish, FL!PushInsert,
         FL!PushInsertFails, FL!PushBack,
                        FL!Resume, FL!Goto
    <2>2. CASE FL!GetLoad(t) \/ FL!GetReload(t)
      BY <1>1, <2>2 DEF FL!GetLoad, FL!GetReload, FL!Resume, FL!Goto
    <2>3. CASE FL!GetRefs(t) \/ FL!GetCount(t) \/ FL!GetNext(t) \/ FL!GetPopFails(t)
      BY <1>1, <2>3 DEF FL!GetRefs, FL!GetCount, FL!GetNext, FL!GetPopFails, FL!Goto, ListTypes
    <2>4. CASE FL!GetUnref(t)
      BY <1>1, <2>4 DEF FL!GetUnref, FL!Resume, FL!Goto, ListTypes
    <2>. QED  BY <2>1, <2>2, <2>3, <2>4
  <1>3. \A n : t \notin FL!Takers(n) /\ t \notin FL!Takers(n)'
    BY <1>2 DEF FL!Takers
  <1>4. \A n : FL!Takers(n)' = FL!Takers(n)
    BY <1>2, <1>3, OtherTakers
  <1>. QED  BY <1>2, <1>4, PoolStutters

\* The step in which the head is popped takes a free node out of the pool.
LEMMA PopAcquires ==
    ASSUME ListBounds, ListInv, ListInv', NEW t \in Threads, FL!GetPop(t)
    PROVE  FL!Pool!Next
  <1>1. ListTypes /\ LocalsRight(t) /\ ListLinked
    BY DEF ListInv
  <1>2. /\ pc[t] = "pop" /\ pc' = [pc EXCEPT ![t] = "take"]
        /\ freeListHead = head[t] /\ UNCHANGED <<used, head>>
    BY DEF FL!GetPop, FL!Goto
  <1>3. PICK n \in Nodes : n = head[t]
    BY <1>1, <1>2 DEF LocalsRight
  <1>4. n \in InList
    BY <1>1, <1>2, <1>3 DEF ListLinked, ListBounds
  <1>5. n \notin used /\ FL!Takers(n) = {}
    BY <1>4 DEF InList, Keeps, Leaving, FL!Takers
  <1>6. pc'[t] = "take" /\ \A u \in Threads \ {t} : pc'[u] = pc[u] /\ head'[u] = head[u]
    BY <1>1, <1>2 DEF ListTypes
  <1>7. t \in FL!Takers(n)' /\ \A m \in Nodes \ {n} : FL!Takers(m)' = FL!Takers(m)
    <2>1. t \in FL!Takers(n)'
      BY <1>2, <1>3, <1>6 DEF FL!Takers
    <2>2. \A m \in Nodes \ {n} : t \notin FL!Takers(m) /\ t \notin FL!Takers(m)'
      BY <1>2, <1>3 DEF FL!Takers
    <2>. QED  BY <1>6, <2>1, <2>2, OtherTakers
  <1>8. Uses(n) = 0 /\ Uses(n)' = 1
    <2>1. Uses(n) \in 0..1 /\ Uses(n)' \in 0..1
      BY UsesFacts
    <2>. QED  BY <1>5, <1>7, <2>1, UsesFacts
  <1>9. \A m \in Nodes \ {n} : Uses(m)' = Uses(m)
    BY <1>2, <1>7 DEF Uses
  <1>10. [m \in Nodes |-> Uses(m)]' = [[m \in Nodes |-> Uses(m)] EXCEPT ![n] = 1]
    BY <1>8, <1>9, PoolChanges
  <1>11. FL!Pool!Acquire(n)
    BY <1>8, <1>10 DEF FL!Pool!Acquire, Uses
  <1>. QED  BY <1>11 DEF FL!Pool!Next

\* The node that was popped is in use: it stays out of the pool.
LEMMA TakeStutters ==
    ASSUME ListInv, ListInv', NEW t \in Threads, FL!GetTake(t)
    PROVE  UNCHANGED [n \in Nodes |-> FL!Cardinality(FL!Takers(n)) + IF n \in used THEN 1 ELSE 0]
  <1>1. ListTypes /\ LocalsRight(t)
    BY DEF ListInv
  <1>2. /\ pc[t] = "take" /\ pc' = [pc EXCEPT ![t] = "idle"]
        /\ used' = used \cup {head[t]} /\ head' = [head EXCEPT ![t] = NoNode]
    BY DEF FL!GetTake, FL!Goto
  <1>3. PICK n \in Nodes : n = head[t]
    BY <1>1, <1>2 DEF LocalsRight
  <1>4. pc'[t] = "idle" /\ \A u \in Threads \ {t} : pc'[u] = pc[u] /\ head'[u] = head[u]
    BY <1>1, <1>2 DEF ListTypes
  <1>5. t \in FL!Takers(n) /\ n \in used'
    BY <1>2, <1>3 DEF FL!Takers
  <1>6. \A m \in Nodes \ {n} : FL!Takers(m)' = FL!Takers(m) /\ (m \in used' <=> m \in used)
    <2>1. \A m \in Nodes \ {n} : t \notin FL!Takers(m) /\ t \notin FL!Takers(m)'
      BY <1>2, <1>3, <1>4 DEF FL!Takers
    <2>. QED  BY <1>2, <1>3, <1>4, <2>1, OtherTakers
  <1>7. Uses(n)' = Uses(n)
    BY <1>5, UsesFacts
  <1>8. \A m \in Nodes : Uses(m)' = Uses(m)
    BY <1>6, <1>7 DEF Uses
  <1>. QED  BY <1>8 DEF Uses

\* Only a node in use is given back to the pool, and it is out no more.
LEMMA AddReleases ==
    ASSUME ListInv, ListInv', NEW t \in Threads, NEW n \in Nodes, FL!Add(t, n)
    PROVE  FL!Pool!Next
  <1>1. ListTypes
    BY DEF ListInv
  <1>2. /\ pc[t] = "idle" /\ pc'[t] # "take" /\ n \in used /\ used' = used \ {n}
        /\ \A u \in Threads \ {t} : pc'[u] = pc[u] /\ head'[u] = head[u]
    BY <1>1 DEF FL!Add, FL!Goto, ListTypes
  <1>3. \A m : t \notin FL!Takers(m) /\ t \notin FL!Takers(m)'
    BY <1>2 DEF FL!Takers
  <1>4. \A m : FL!Takers(m)' = FL!Takers(m)
    BY <1>2, <1>3, OtherTakers
  <1>5. FL!Takers(n) = {}
    BY <1>2, TakersFacts DEF ListInv
  <1>6. Uses(n) = 1
    BY <1>2, UsesFacts
  <1>7. Uses(n)' = 0
    <2>1. Uses(n)' \in 0..1 /\ n \notin used' /\ FL!Takers(n)' = {}
      BY <1>2, <1>4, <1>5, UsesFacts
    <2>. QED  BY <2>1, UsesFacts
  <1>8. \A m \in Nodes \ {n} : Uses(m)' = Uses(m)
    BY <1>2, <1>4 DEF Uses
  <1>9. [m \in Nodes |-> Uses(m)]' = [[m \in Nodes |-> Uses(m)] EXCEPT ![n] = 0]
    BY <1>7, <1>8, PoolChanges
  <1>10. FL!Pool!Release(n)
    BY <1>6, <1>9 DEF FL!Pool!Release, Uses
  <1>. QED  BY <1>10 DEF FL!Pool!Next

-----------------------------------------------------------------------------
(* What can be reached from the head.                                      *)

\* The nodes that are at most k nexts away from the head, and u[k] is that for all k
\* up to max.
Walk(u, max) == u = [k \in 0..max |->
                        IF k = 0 THEN {freeListHead}
                        ELSE u[k - 1] \cup {freeListNext[n] : n \in u[k - 1] \ {NoNode}}]

\* There is such a function: the shortest that is missing could be made of the one
\* before it.
LEMMA WalkExists ==
    ASSUME NEW max \in Nat
    PROVE  \E u : Walk(u, max)
  <1>. DEFINE T == {k \in Nat : ~ \E u : Walk(u, k)}
  <1>1. SUFFICES ASSUME T # {}  PROVE FALSE
    OBVIOUS
  <1>2. PICK least \in T : \A k \in T : least <= k
    <2>1. T \in SUBSET Nat
      OBVIOUS
    <2>. HIDE DEF T
    <2>. QED  BY <1>1, <2>1, Least
  <1>3. least \in Nat /\ least # 0
    <2>1. Walk([k \in 0..0 |-> {freeListHead}], 0)
      BY DEF Walk
    <2>. QED  BY <2>1
  <1>4. PICK v : Walk(v, least - 1)
    BY <1>2, <1>3
  <1>5. PICK w : w = [k \in 0..least |->
                         IF k = least
                         THEN v[least - 1] \cup {freeListNext[n] : n \in v[least - 1] \ {NoNode}}
                         ELSE v[k]]
    OBVIOUS
  <1>6. ASSUME NEW k \in 0..least
        PROVE  w[k] = IF k = 0 THEN {freeListHead}
                      ELSE w[k - 1] \cup {freeListNext[n] : n \in w[k - 1] \ {NoNode}}
    <2>1. CASE k = least
      <3>1. w[k] = v[k - 1] \cup {freeListNext[n] : n \in v[k - 1] \ {NoNode}}
            /\ w[k - 1] = v[k - 1]
        BY <1>3, <1>5, <2>1
      <3>. QED  BY <1>3, <2>1, <3>1
    <2>2. CASE k # least
      <3>1. k \in 0..least - 1 /\ w[k] = v[k]
        BY <1>3, <1>5, <2>2
      <3>2. v[k] = IF k = 0 THEN {freeListHead}
                   ELSE v[k - 1] \cup {freeListNext[n] : n \in v[k - 1] \ {NoNode}}
        BY <1>4, <3>1 DEF Walk
      <3>3. k # 0 => w[k - 1] = v[k - 1]
        BY <1>3, <1>5, <2>2
      <3>. QED  BY <3>1, <3>2, <3>3
    <2>. QED  BY <2>1, <2>2
  <1>7. Walk(w, least)
    BY <1>5, <1>6 DEF Walk
  <1>. QED  BY <1>7

\* What Listed is made of.
LEMMA ListedIsAWalk ==
    ASSUME Cardinality(Nodes) \in Nat
    PROVE  \E u : Walk(u, Cardinality(Nodes)) /\ FL!Listed = u[Cardinality(Nodes)] \ {NoNode}
  <1>1. FL!Cardinality(Nodes) = Cardinality(Nodes)
    BY ListCardinality
  <1>2. FL!Listed = (CHOOSE u : Walk(u, FL!Cardinality(Nodes)))[FL!Cardinality(Nodes)] \ {NoNode}
    BY DEF FL!Listed, Walk
  <1>3. \E u : Walk(u, FL!Cardinality(Nodes))
    BY <1>1, WalkExists
  <1>. QED  BY <1>1, <1>2, <1>3, Zenon

\* If some nodes on the list are missing in S, one of them is the head or comes after
\* one that is not.
LEMMA NextOne ==
    ASSUME ListLinked, NEW S, ~(InList \subseteq S)
    PROVE  \E n \in InList \ S : \/ n = freeListHead
                                 \/ \E m \in InList \cap S : freeListNext[m] = n
  <1>1. PICK rank \in [Nodes -> Nat] :
           \A k \in InList : \/ k = freeListHead
                             \/ \E m \in InList : freeListNext[m] = k /\ rank[m] < rank[k]
    BY DEF ListLinked, Ranked
  <1>. DEFINE T == {rank[n] : n \in InList \ S}
  <1>2. InList \subseteq Nodes
    BY DEF InList
  <1>3. PICK least \in T : \A k \in T : least <= k
    <2>1. T \in SUBSET Nat /\ T # {}
      BY <1>2
    <2>. HIDE DEF T
    <2>. QED  BY <2>1, Least
  <1>4. PICK n \in InList \ S : least = rank[n]
    BY <1>3
  <1>5. \A k \in InList \ S : rank[n] <= rank[k]
    BY <1>3, <1>4
  <1>6. ASSUME NEW m \in InList, rank[m] < rank[n]
        PROVE  m \in S
    <2>1. rank[m] \in Nat /\ rank[n] \in Nat
      BY <1>2
    <2>. QED  BY <1>5, <1>6, <2>1
  <1>. QED  BY <1>1, <1>4, <1>6

\* So many nexts lead to all of the list or to more nodes than that.
WalksFar(S, k) == /\ S \subseteq InList \cup {NoNode}
                  /\ freeListHead \in S
                  /\ InList \subseteq S \/ k < Cardinality(S \ {NoNode})

\* The first step of the walk is at the head.
LEMMA WalkStarts ==
    ASSUME ListBounds, ListLinked
    PROVE  WalksFar({freeListHead}, 0)
  <1>1. freeListHead \in InList \cup {NoNode} /\ NoNode \notin InList
    BY DEF ListLinked, InList, ListBounds
  <1>2. CASE freeListHead = NoNode
    <2>1. ASSUME ~(InList \subseteq {})  PROVE FALSE
      <3>1. PICK n \in InList \ {} : \/ n = freeListHead
                                     \/ \E m \in InList \cap {} : freeListNext[m] = n
        BY <2>1, NextOne
      <3>. QED  BY <1>1, <1>2, <3>1
    <2>. QED  BY <1>1, <2>1 DEF WalksFar
  <1>3. CASE freeListHead # NoNode
    <2>1. {freeListHead} \ {NoNode} = {freeListHead}
      BY <1>3
    <2>2. Cardinality({freeListHead}) = 1
      BY FS_Singleton
    <2>. QED  BY <1>1, <2>1, <2>2 DEF WalksFar
  <1>. QED  BY <1>2, <1>3

\* Each further step meets a node that is new, until all have been met.
LEMMA WalkGoesOn ==
    ASSUME ListBounds, IsFiniteSet(Nodes), ListLinked, NEW k \in Nat, NEW S, WalksFar(S, k)
    PROVE  WalksFar(S \cup {freeListNext[n] : n \in S \ {NoNode}}, k + 1)
  <1>. DEFINE N == {freeListNext[n] : n \in S \ {NoNode}}
  <1>1. InList \in SUBSET Nodes /\ NoNode \notin InList
    BY DEF InList, ListBounds
  <1>2. S \cup N \subseteq InList \cup {NoNode} /\ freeListHead \in S \cup N
    BY DEF WalksFar, ListLinked
  <1>3. CASE InList \subseteq S
    BY <1>2, <1>3 DEF WalksFar
  <1>4. CASE ~(InList \subseteq S)
    <2>1. PICK n \in InList \ S : n = freeListHead \/ \E m \in InList \cap S : freeListNext[m] =
              n
      BY <1>4, NextOne
    <2>2. n \in N
      BY <1>1, <2>1 DEF WalksFar
    <2>3. S \ {NoNode} \in SUBSET Nodes /\ (S \cup N) \ {NoNode} \in SUBSET Nodes
      BY <1>1, <1>2
    <2>4. n \in Nodes /\ n # NoNode /\ n \notin S
      BY <1>1, <2>1
    <2>. HIDE DEF N
    <2>5. /\ IsFiniteSet(S \ {NoNode}) /\ IsFiniteSet((S \cup N) \ {NoNode})
          /\ Cardinality(S \ {NoNode}) \in Nat /\ Cardinality((S \cup N) \ {NoNode}) \in Nat
      BY <2>3, FS_Subset, FS_CardinalityType
    <2>6. Cardinality((S \ {NoNode}) \cup {n}) = Cardinality(S \ {NoNode}) + 1
      BY <2>4, <2>5, FS_AddElement
    <2>7. (S \ {NoNode}) \cup {n} \subseteq (S \cup N) \ {NoNode}
      BY <2>2, <2>4
    <2>8. Cardinality((S \ {NoNode}) \cup {n}) <= Cardinality((S \cup N) \ {NoNode})
      BY <2>5, <2>7, FS_Subset
    <2>9. k < Cardinality(S \ {NoNode})
      BY <1>4 DEF WalksFar
    <2>10. k + 1 < Cardinality((S \cup N) \ {NoNode})
      BY <2>5, <2>6, <2>8, <2>9
    <2>11. WalksFar(S \cup N, k + 1)
      BY <1>2, <2>10 DEF WalksFar
    <2>. QED  BY <2>11 DEF N
  <1>. QED  BY <1>3, <1>4

\* From the head, next leads to every node on the list and to no other.
LEMMA ListedIsInList ==
    ASSUME ListBounds, IsFiniteSet(Nodes), ListLinked
    PROVE  FL!Listed = InList
  <1>1. Cardinality(Nodes) \in Nat
    BY FS_CardinalityType
  <1>2. PICK max \in Nat : max = Cardinality(Nodes)
    BY <1>1
  <1>3. PICK u : Walk(u, max) /\ FL!Listed = u[max] \ {NoNode}
    BY <1>1, <1>2, ListedIsAWalk
  <1>4. \A k \in 0..max : u[k] = IF k = 0 THEN {freeListHead}
                                 ELSE u[k - 1] \cup {freeListNext[n] : n \in u[k - 1] \ {NoNode}}
    BY <1>3 DEF Walk
  <1>5. \A k \in 0..max : WalksFar(u[k], k)
    <2>. DEFINE T == {k \in 0..max : ~WalksFar(u[k], k)}
    <2>1. SUFFICES ASSUME T # {}  PROVE FALSE
      OBVIOUS
    <2>2. PICK least \in T : \A k \in T : least <= k
      <3>1. T \in SUBSET Nat
        OBVIOUS
      <3>. HIDE DEF T
      <3>. QED  BY <2>1, <3>1, Least
    <2>3. least \in 0..max /\ least # 0
      BY <1>4, WalkStarts
    <2>4. least - 1 \in Nat /\ least - 1 \in 0..max /\ least - 1 \notin T
          /\ (least - 1) + 1 = least
      BY <2>2, <2>3
    <2>5. WalksFar(u[least - 1], least - 1)
      BY <2>4
    <2>6. WalksFar(u[least - 1] \cup {freeListNext[n] : n \in u[least - 1] \ {NoNode}}, least)
      <3>. HIDE DEF T
      <3>. QED  BY <2>4, <2>5, WalkGoesOn
    <2>7. WalksFar(u[least], least)
      BY <1>4, <2>3, <2>6
    <2>. QED  BY <2>2, <2>7
  <1>6. WalksFar(u[max], max)
    BY <1>5
  <1>7. NoNode \notin InList /\ InList \in SUBSET Nodes
    BY DEF InList, ListBounds
  <1>8. Cardinality(u[max] \ {NoNode}) <= max
    <2>1. u[max] \ {NoNode} \in SUBSET Nodes
      BY <1>6, <1>7 DEF WalksFar
    <2>. QED  BY <1>2, <2>1, FS_Subset
  <1>9. Cardinality(u[max] \ {NoNode}) \in Nat
    <2>1. u[max] \ {NoNode} \in SUBSET Nodes
      BY <1>6, <1>7 DEF WalksFar
    <2>. QED  BY <2>1, FS_Subset, FS_CardinalityType
  <1>10. InList \subseteq u[max] /\ u[max] \subseteq InList \cup {NoNode}
    BY <1>6, <1>8, <1>9 DEF WalksFar
  <1>. QED  BY <1>3, <1>7, <1>10

\* The places of a node, of which one is right.
Places(n) == {place \in {"used", "taken", "listed", "pushed", "requested"} :
                 CASE place = "used"      -> n \in used
                   [] place = "taken"     -> FL!Takers(n) # {}
                   [] place = "listed"    -> n \in FL!Listed
                   [] place = "pushed"    -> n \in FL!BeingPushed
                   [] place = "requested" -> n \in FL!Requested \ FL!BeingPushed}

\* Where it is, thread by thread.
LEMMA PlaceFacts ==
    ASSUME ListBounds, IsFiniteSet(Nodes), ListInv, NEW n \in Nodes
    PROVE  /\ n \in FL!Listed <=> n \in InList
           /\ FL!Takers(n) # {} <=> \E t \in Threads : pc[t] = "take" /\ head[t] = n
           /\ n \in FL!BeingPushed <=> \E t \in Threads : pc[t] \in FL!Pushes /\ node[t] = n
           /\ n \in FL!Requested <=>
                 /\ freeListRefs[n] > SHOULD_BE_ON_FREELIST
                 /\ \E t \in Threads : \/ pc[t] = "unref" /\ node[t] = n
                                       \/ pc[t] \in {"next", "pop"} /\ head[t] = n
  <1>1. FL!Listed = InList
    BY ListedIsInList DEF ListInv
  <1>. QED  BY <1>1 DEF FL!Takers, FL!BeingPushed, FL!Requested

\* The counts tell the places apart.
LEMMA OnePlace ==
    ASSUME ListBounds, IsFiniteSet(Nodes), ListInv, NEW n \in Nodes
    PROVE  \E place : Places(n) = {place}
  <1>1. OneOwner(n) /\ RefsRight(n)
    BY DEF ListInv
  <1>2. /\ Refs(n) \in Nat /\ Refs(n) + 1 < SHOULD_BE_ON_FREELIST
        /\ SHOULD_BE_ON_FREELIST \in Nat
        /\ Refs(n) = 0 <=> Referrers(n) = {}
    BY RefsCount
  <1>3. CASE n \in used
    <2>1. \A t \in Threads : ~Keeps(t, n)
      BY <1>1, <1>3 DEF OneOwner
    <2>2. FL!Takers(n) = {} /\ n \notin FL!BeingPushed
      BY <2>1, PlaceFacts DEF Keeps, Pushing, Leaving, FL!Pushes
    <2>3. n \notin FL!Listed
      BY <1>3, PlaceFacts DEF InList
    <2>4. n \notin FL!Requested
      BY <1>1, <1>2, <1>3, PlaceFacts DEF RefsRight
    <2>. QED  BY <1>3, <2>2, <2>3, <2>4 DEF Places
  <1>4. ASSUME n \notin used, NEW t \in Threads, Keeps(t, n)
        PROVE  \E place : Places(n) = {place}
    <2>1. n \notin FL!Listed
      BY <1>4, PlaceFacts DEF InList
    <2>2. \A u \in Threads : Keeps(u, n) => u = t
      BY <1>1, <1>4 DEF OneOwner
    <2>3. CASE pc[t] = "take" /\ head[t] = n
      <3>1. FL!Takers(n) # {}
        BY <2>3, PlaceFacts
      <3>2. n \notin FL!BeingPushed
        BY <2>2, <2>3, PlaceFacts DEF Keeps, Pushing, Leaving, FL!Pushes
      <3>3. n \notin FL!Requested
        BY <1>1, <1>2, <2>3, PlaceFacts DEF RefsRight, Leaving
      <3>. QED  BY <1>4, <2>1, <3>1, <3>2, <3>3 DEF Places
    <2>4. CASE pc[t] \in FL!Pushes /\ node[t] = n
      <3>1. FL!Takers(n) = {}
        BY <2>2, <2>4, PlaceFacts DEF Keeps, Leaving, FL!Pushes
      <3>2. n \in FL!BeingPushed
        BY <2>4, PlaceFacts
      <3>. QED  BY <1>4, <2>1, <3>1, <3>2 DEF Places
    <2>. QED  BY <1>4, <2>3, <2>4 DEF Keeps, Pushing, Leaving, FL!Pushes
  <1>5. CASE n \notin used /\ \A t \in Threads : ~Keeps(t, n)
    <2>1. FL!Takers(n) = {} /\ n \notin FL!BeingPushed
      BY <1>5, PlaceFacts DEF Keeps, Pushing, Leaving, FL!Pushes
    <2>2. CASE freeListRefs[n] = Refs(n) + 1
      <3>1. n \in FL!Listed /\ n \notin FL!Requested
        BY <1>2, <1>5, <2>2, PlaceFacts DEF InList
      <3>. QED  BY <1>5, <2>1, <3>1 DEF Places
    <2>3. CASE freeListRefs[n] = SHOULD_BE_ON_FREELIST + Refs(n) /\ Refs(n) # 0
      <3>1. n \notin FL!Listed /\ freeListRefs[n] > SHOULD_BE_ON_FREELIST
        BY <1>2, <2>3, PlaceFacts DEF InList
      <3>2. PICK t \in Threads : Refers(t, n)
        BY <1>2, <2>3 DEF Referrers
      <3>3. n \in FL!Requested
        BY <1>5, <3>1, <3>2, PlaceFacts DEF Refers, Keeps, Leaving
      <3>. QED  BY <1>5, <2>1, <3>1, <3>3 DEF Places
    <2>. QED  BY <1>1, <1>5, <2>2, <2>3 DEF RefsRight
  <1>. QED  BY <1>3, <1>4, <1>5

\* No block is lost, and none is in two places: it is in use, just popped, on the list,
\* being pushed by one thread, or waiting for one that will push it
\* (concurrentqueue.h:1389-1451).
LEMMA NoBlockLost ==
    ASSUME ListBounds, IsFiniteSet(Nodes), ListInv
    PROVE  FL!NoneLost
  <1>1. ASSUME NEW n \in Nodes
        PROVE  FL!Cardinality(Places(n)) = 1
    BY OnePlace, FS_Singleton, ListCardinality
  <1>. QED  BY <1>1 DEF FL!NoneLost, Places

-----------------------------------------------------------------------------
(* The hash table: its inductive invariant.                                *)

\* A slot is free, or a thread's.
SlotSet == {[key |-> NoNode, value |-> NoNode]} \cup [key : Threads, value : Nat]

\* The tables: any number of slots but none.
TableSet == UNION {[0..size - 1 -> SlotSet] : size \in Nat \ {0}}

\* A new thread is counted and has no producer yet.
NewPcs == {"grow", "resize", "unlock", "fit"}

\* The locals of get_or_add_implicit_producer.
LocalSet == [pc : NewPcs \cup {"idle", "count", "link", "insert"}, mainHash : Nat,
             value : Nat \cup {NoNode}, newCount : Nat, prevTail : Nat]

\* Where each variable takes its values; a thread that is at work has a table.
HashTypes ==
    /\ tables \in Seq(TableSet) /\ tables # <<>>
    /\ hashCount \in Nat
    /\ resizing \in BOOLEAN
    /\ created \in Nat
    /\ producerList \in Seq(1..created)
    /\ failures \in 0..MaxFailures
    /\ local \in [Threads -> LocalSet]
    /\ given \in [Threads -> SUBSET (1..created)]
    /\ \A t \in Threads : /\ local[t].mainHash <= Len(tables)
                          /\ local[t].pc # "idle" => local[t].mainHash # 0

\* A newer table is not smaller.
TablesGrow == \A g, h \in DOMAIN tables : g <= h => PH!Capacity(g) <= PH!Capacity(h)

\* The slots of a thread are those where probing for it ends, and have its producer.
SlotOf(t, h, i) ==
    tables[h][i].key = t => /\ given[t] = {tables[h][i].value}
                            /\ PH!Ends(t, h) # {} /\ i = PH!Probe(t, h)

\* The key of t is in table h.
HasSlot(t, h) == \E i \in DOMAIN tables[h] : tables[h][i].key = t

\* All slots are, and whoever has been given a producer has a slot.
SlotsFound ==
    /\ \A t \in Threads : \A h \in DOMAIN tables : \A i \in DOMAIN tables[h] : SlotOf(t, h, i)
    /\ \A t \in Threads : given[t] # {} => \E h \in DOMAIN tables : HasSlot(t, h)

\* The producers that try_dequeue goes through.
Chained == {producerList[i] : i \in DOMAIN producerList}

\* Thread t has a producer and is to take a slot for it.
Making(t) == local[t].pc \in {"link", "insert"}

\* The producers that are a thread's: those it has been given, and the one it makes.
Owned(t) == given[t] \cup {p \in {local[t].value} : Making(t)}

\* A thread has one producer, in the list from when it is inserted on.
ProducerOf(t) ==
    /\ local[t].pc \in NewPcs \cup {"count", "link"} => given[t] = {}
    /\ local[t].pc = "insert" =>
          local[t].value \in Chained /\ given[t] \in {{}, {local[t].value}}
    /\ given[t] \subseteq Chained
    /\ \A p \in given[t] : given[t] = {p}
    /\ Owned(t) \subseteq 1..created

\* And no two threads have the same.
ProducersOwned ==
    /\ \A t \in Threads : ProducerOf(t)
    /\ \A t, u \in Threads : t # u => Owned(t) \cap Owned(u) = {}

\* The threads that hashCount counts: those that have a producer or ask for one.
CountedIn == {t \in Threads : local[t].pc \notin {"idle", "count"} \/ given[t] # {}}

\* A thread has a slot in table h, or has made sure that it fits in there.
Fits(t, h) == HasSlot(t, h) \/ (Making(t) /\ local[t].mainHash = h)

\* Three quarters of the slots of table h.
RoomOf(h) == PH!Capacity(h) \div 2 + PH!Capacity(h) \div 4

\* The threads that may be among the first n.
Early(t, n) == \/ local[t].pc \in NewPcs /\ local[t].newCount <= n
               \/ \E h \in DOMAIN tables : Fits(t, h) /\ RoomOf(h) <= n

\* These threads.
AmongFirst(n) == {t \in Threads : Early(t, n)}

\* hashCount is right, and no more than n threads are among the first n.
CountsRight == /\ hashCount = Cardinality(CountedIn)
               /\ \A n \in Nat : Cardinality(AmongFirst(n)) <= n

\* The inductive invariant.
HashInv == HashTypes /\ TablesGrow /\ SlotsFound /\ ProducersOwned /\ CountsRight

-----------------------------------------------------------------------------
(* Tables and probing.                                                     *)

\* The cardinality of the module is the one that the facts are about.
LEMMA HashCardinality ==
    ASSUME NEW S
    PROVE  PH!Cardinality(S) = Cardinality(S)
  BY Zenon DEF PH!Cardinality, Cardinality

\* What a table is.
LEMMA TableFacts ==
    ASSUME HashTypes, NEW h \in DOMAIN tables
    PROVE  /\ PH!Capacity(h) \in Nat \ {0}
           /\ DOMAIN tables[h] = 0..PH!Capacity(h) - 1
           /\ tables[h] \in [0..PH!Capacity(h) - 1 -> SlotSet]
           /\ h \in 1..Len(tables) /\ Len(tables) \in Nat
  <1>1. tables[h] \in TableSet /\ h \in 1..Len(tables) /\ Len(tables) \in Nat
    BY DEF HashTypes
  <1>2. PICK size \in Nat \ {0} : tables[h] \in [0..size - 1 -> SlotSet]
    BY <1>1 DEF TableSet
  <1>3. DOMAIN tables[h] = 0..size - 1
    BY <1>2
  <1>4. Cardinality(0..size - 1) = size
    <2>1. IsFiniteSet(0..size - 1)
          /\ Cardinality(0..size - 1) = IF 0 > size - 1 THEN 0 ELSE (size - 1) - 0 + 1
      BY FS_Interval
    <2>. QED  BY <2>1
  <1>5. PH!Capacity(h) = size
    BY <1>3, <1>4, HashCardinality, Zenon DEF PH!Capacity
  <1>. QED  BY <1>1, <1>2, <1>3, <1>5

\* An empty table of a given size.
LEMMA EmptyTable ==
    ASSUME NEW size \in Nat \ {0}
    PROVE  /\ PH!Table(size) \in TableSet
           /\ DOMAIN PH!Table(size) = 0..size - 1
           /\ PH!Cardinality(DOMAIN PH!Table(size)) = size
           /\ \A i \in 0..size - 1 : PH!Table(size)[i].key = NoNode
  <1>1. /\ PH!Table(size) \in [0..size - 1 -> SlotSet]
        /\ \A i \in 0..size - 1 : PH!Table(size)[i].key = NoNode
    BY DEF PH!Table, SlotSet
  <1>2. Cardinality(0..size - 1) = size
    <2>1. IsFiniteSet(0..size - 1)
          /\ Cardinality(0..size - 1) = IF 0 > size - 1 THEN 0 ELSE (size - 1) - 0 + 1
      BY FS_Interval
    <2>. QED  BY <2>1
  <1>3. DOMAIN PH!Table(size) = 0..size - 1
    BY <1>1
  <1>4. PH!Cardinality(DOMAIN PH!Table(size)) = size
    BY <1>2, <1>3, HashCardinality, Zenon
  <1>. QED  BY <1>1, <1>3, <1>4 DEF TableSet

\* Probing ends at the first slot that is free or the thread's.
LEMMA ProbeIs ==
    ASSUME NEW t, NEW h, NEW m \in PH!Ends(t, h), PH!Ends(t, h) \subseteq Nat,
           \A j \in PH!Ends(t, h) : m <= j
    PROVE  PH!Probe(t, h) = PH!Step(t, h, m)
  <1>. DEFINE c == CHOOSE k \in PH!Ends(t, h) : \A j \in PH!Ends(t, h) : k <= j
  <1>1. c \in PH!Ends(t, h) /\ \A j \in PH!Ends(t, h) : c <= j
    BY Zenon
  <1>2. c = m
    <2>1. c <= m /\ m <= c /\ c \in Nat /\ m \in Nat
      BY <1>1
    <2>. HIDE DEF c
    <2>. QED  BY <2>1
  <1>. QED  BY <1>2, Zenon DEF PH!Probe

\* Probing ends at the nearest slot that is free or the thread's.
LEMMA ProbeEnds ==
    ASSUME HashTypes, NEW t, NEW h \in DOMAIN tables, PH!Ends(t, h) # {}
    PROVE  \E m \in PH!Ends(t, h) : /\ \A j \in PH!Ends(t, h) : m <= j
                                    /\ PH!Probe(t, h) = PH!Step(t, h, m)
  <1>1. PH!Ends(t, h) \in SUBSET Nat
    BY TableFacts DEF PH!Ends
  <1>2. PICK m \in PH!Ends(t, h) : \A j \in PH!Ends(t, h) : m <= j
    BY <1>1, Least
  <1>3. PH!Probe(t, h) = PH!Step(t, h, m)
    BY <1>1, <1>2, ProbeIs
  <1>. QED  BY <1>2, <1>3

\* Probing stays in the table.
LEMMA StepIn ==
    ASSUME HashSizes, HashTypes, NEW t \in Threads, NEW h \in DOMAIN tables, NEW k \in Nat
    PROVE  PH!Step(t, h, k) \in DOMAIN tables[h]
  <1>1. Hash[t] + k \in Nat
    BY DEF HashSizes
  <1>. QED  BY <1>1, TableFacts, Remainder DEF PH!Step

\* There is such a slot, and probing finds it.
LEMMA ProbeFinds ==
    ASSUME HashSizes, HashTypes, NEW t \in Threads, NEW h \in DOMAIN tables, PH!Ends(t, h) # {}
    PROVE  /\ PH!Probe(t, h) \in DOMAIN tables[h]
           /\ tables[h][PH!Probe(t, h)].key \in {t, NoNode}
  <1>1. PICK m \in PH!Ends(t, h) : PH!Probe(t, h) = PH!Step(t, h, m)
    BY ProbeEnds
  <1>2. m \in Nat /\ tables[h][PH!Step(t, h, m)].key \in {t, NoNode}
    BY TableFacts DEF PH!Ends
  <1>. QED  BY <1>1, <1>2, StepIn

\* Whether a thread is in a table is what probing says.
LEMMA FoundIs ==
    ASSUME HashSizes, HashTypes, SlotsFound, NEW t \in Threads, NEW h \in DOMAIN tables,
           PH!Ends(t, h) # {}
    PROVE  /\ PH!IsIn(t, h) <=> HasSlot(t, h)
           /\ PH!IsIn(t, h) => given[t] = {PH!ValueIn(t, h)}
  <1>1. ASSUME PH!IsIn(t, h)
        PROVE  HasSlot(t, h) /\ given[t] = {PH!ValueIn(t, h)}
    BY <1>1, ProbeFinds DEF PH!IsIn, HasSlot, SlotsFound, SlotOf, PH!ValueIn
  <1>2. ASSUME HasSlot(t, h)
        PROVE  PH!IsIn(t, h)
    BY <1>2 DEF PH!IsIn, HasSlot, SlotsFound, SlotOf
  <1>. QED  BY <1>1, <1>2

\* What a thread's record is.
LEMMA LocalFacts ==
    ASSUME HashTypes, NEW t \in Threads
    PROVE  /\ local[t] \in LocalSet
           /\ local[t].mainHash \in 0..Len(tables) /\ Len(tables) \in Nat \ {0}
           /\ local[t].pc # "idle" => local[t].mainHash \in DOMAIN tables
           /\ Len(tables) \in DOMAIN tables
  <1>1. local[t] \in LocalSet /\ Len(tables) \in Nat \ {0} /\ DOMAIN tables = 1..Len(tables)
    BY DEF HashTypes
  <1>2. local[t].mainHash \in Nat
    BY <1>1 DEF LocalSet
  <1>. QED  BY <1>1, <1>2 DEF HashTypes

-----------------------------------------------------------------------------
(* What a step of one thread leaves as it is.                              *)

\* Thread t goes on with a record of the right type.
GoesOn(t, new) ==
    /\ local' = [local EXCEPT ![t] = new]
    /\ new \in LocalSet
    /\ new.mainHash <= Len(tables')
    /\ new.pc # "idle" => new.mainHash # 0

\* The other threads stay where they are.
LEMMA Others ==
    ASSUME HashTypes, NEW t \in Threads, NEW new, GoesOn(t, new)
    PROVE  /\ local'[t] = new /\ local' \in [Threads -> LocalSet]
           /\ \A u \in Threads \ {t} : local'[u] = local[u]
  BY DEF HashTypes, GoesOn

\* The types.
LEMMA TypesKeep ==
    ASSUME HashTypes, NEW t \in Threads, NEW new, GoesOn(t, new),
           tables' \in Seq(TableSet), Len(tables) <= Len(tables'),
           hashCount' \in Nat, resizing' \in BOOLEAN, created' \in {created, created + 1},
           producerList' \in Seq(1..created'), failures' \in 0..MaxFailures,
           given' \in [Threads -> SUBSET (1..created')]
    PROVE  HashTypes'
  <1>1. Len(tables') \in Nat /\ Len(tables) \in Nat /\ Len(tables) # 0
    BY DEF HashTypes
  <1>2. local'[t] = new /\ \A u \in Threads \ {t} : local'[u] = local[u]
    BY Others
  <1>3. \A u \in Threads : local[u].mainHash \in Nat
    BY DEF HashTypes, LocalSet
  <1>4. \A u \in Threads : /\ local'[u].mainHash <= Len(tables')
                           /\ local'[u].pc # "idle" => local'[u].mainHash # 0
    <2>1. ASSUME NEW u \in Threads \ {t}
          PROVE  /\ local'[u].mainHash <= Len(tables')
                 /\ local'[u].pc # "idle" => local'[u].mainHash # 0
      <3>1. local[u].mainHash <= Len(tables) /\ local[u].pc # "idle" => local[u].mainHash # 0
        BY DEF HashTypes
      <3>. QED  BY <1>1, <1>2, <1>3, <3>1 DEF HashTypes
    <2>2. /\ local'[t].mainHash <= Len(tables')
          /\ local'[t].pc # "idle" => local'[t].mainHash # 0
      BY <1>2 DEF GoesOn
    <2>. QED  BY <2>1, <2>2
  <1>5. local' \in [Threads -> LocalSet]
    BY Others
  <1>6. tables' # <<>> /\ created' \in Nat
    BY <1>1 DEF HashTypes
  <1>. QED  BY <1>4, <1>5, <1>6 DEF HashTypes

\* A table that does not change.
LEMMA SameTable ==
    ASSUME NEW h, tables'[h] = tables[h]
    PROVE  /\ PH!Capacity(h)' = PH!Capacity(h) /\ RoomOf(h)' = RoomOf(h)
           /\ \A t : /\ PH!Ends(t, h)' = PH!Ends(t, h) /\ PH!Probe(t, h)' = PH!Probe(t, h)
                    /\ HasSlot(t, h)' = HasSlot(t, h)
  <1>1. PH!Capacity(h)' = PH!Capacity(h)
    BY DEF PH!Capacity
  <1>2. \A t : PH!Ends(t, h)' = PH!Ends(t, h) /\ PH!Probe(t, h)' = PH!Probe(t, h)
    <2>1. TAKE t
    <2>2. PH!Ends(t, h)' = PH!Ends(t, h) /\ \A k : PH!Step(t, h, k)' = PH!Step(t, h, k)
      BY <1>1 DEF PH!Ends, PH!Step
    <2>. QED  BY <2>2 DEF PH!Probe
  <1>. QED  BY <1>1, <1>2 DEF RoomOf, HasSlot

\* Slots stay right while no table is written and no producer given.
LEMMA SlotsKeep ==
    ASSUME TablesGrow, SlotsFound, UNCHANGED <<tables, given>>
    PROVE  TablesGrow' /\ SlotsFound'
  <1>1. \A h : /\ PH!Capacity(h)' = PH!Capacity(h)
               /\ \A t : /\ PH!Ends(t, h)' = PH!Ends(t, h) /\ PH!Probe(t, h)' = PH!Probe(t, h)
                        /\ HasSlot(t, h)' = HasSlot(t, h)
    BY SameTable
  <1>. QED  BY <1>1 DEF TablesGrow, SlotsFound, SlotOf

\* Who owns what.
LEMMA OwnersKeep ==
    ASSUME HashTypes, ProducersOwned, NEW t \in Threads, NEW new, GoesOn(t, new),
           \A u \in Threads \ {t} : given'[u] = given[u],
           created' \in {created, created + 1}, Chained \subseteq Chained',
           ProducerOf(t)', Owned(t)' \subseteq Owned(t) \cup {created + 1}
    PROVE  ProducersOwned'
  <1>1. ASSUME NEW u \in Threads \ {t}
        PROVE  ProducerOf(u)' /\ Owned(u)' = Owned(u) /\ Owned(u) \subseteq 1..created
    <2>1. local'[u] = local[u] /\ given'[u] = given[u]
      BY Others
    <2>2. ProducerOf(u) /\ created \in Nat
      BY DEF ProducersOwned, HashTypes
    <2>3. Owned(u)' = Owned(u)
      BY <2>1 DEF Owned, Making
    <2>. QED  BY <2>1, <2>2, <2>3 DEF ProducerOf
  <1>2. ASSUME NEW u \in Threads \ {t}
        PROVE  Owned(t)' \cap Owned(u)' = {}
    <2>1. created \in Nat /\ Owned(t) \cap Owned(u) = {}
      BY DEF HashTypes, ProducersOwned
    <2>. QED  BY <1>1, <2>1
  <1>3. \A u, v \in Threads : u # v => Owned(u)' \cap Owned(v)' = {}
    <2>1. ASSUME NEW u \in Threads \ {t}, NEW v \in Threads \ {t}, u # v
          PROVE  Owned(u)' \cap Owned(v)' = {}
      BY <1>1, <2>1 DEF ProducersOwned
    <2>. QED  BY <1>2, <2>1
  <1>4. \A u \in Threads : ProducerOf(u)'
    BY <1>1
  <1>. QED  BY <1>3, <1>4 DEF ProducersOwned

\* How many there are.
LEMMA Sets ==
    ASSUME HashSizes, NEW S \in SUBSET Threads
    PROVE  IsFiniteSet(S) /\ Cardinality(S) \in Nat
  BY FS_Subset, FS_CardinalityType DEF HashSizes

\* A step of one thread that leaves the tables alone makes no other thread early.
LEMMA OthersEarly ==
    ASSUME HashTypes, NEW t \in Threads, NEW new, GoesOn(t, new), UNCHANGED tables
    PROVE  \A u \in Threads \ {t} : \A n : Early(u, n)' <=> Early(u, n)
  <1>1. ASSUME NEW u \in Threads \ {t}, NEW n
        PROVE  Early(u, n)' <=> Early(u, n)
    <2>1. local'[u] = local[u] /\ tables' = tables
      BY Others
    <2>2. \A h : HasSlot(u, h)' = HasSlot(u, h) /\ RoomOf(h)' = RoomOf(h)
      BY SameTable
    <2>. QED  BY <2>1, <2>2 DEF Early, Fits, Making
  <1>. QED  BY <1>1

\* The counts stay right in a step in which no thread gets early, and the one that moves
\* is counted as before or not any more.
LEMMA CountsKeep ==
    ASSUME HashSizes, HashTypes, CountsRight, NEW t \in Threads, NEW new, GoesOn(t, new),
           \A u \in Threads \ {t} : given'[u] = given[u],
           \A u \in Threads, n \in Nat : Early(u, n)' => Early(u, n),
           \/ hashCount' = hashCount /\ (t \in CountedIn <=> (t \in CountedIn)')
           \/ hashCount' = hashCount - 1 /\ t \in CountedIn /\ ~(t \in CountedIn)'
    PROVE  CountsRight' /\ hashCount' \in Nat
  <1>1. \A u \in Threads \ {t} : local'[u] = local[u]
    BY Others
  <1>2. \A u \in Threads \ {t} : u \in CountedIn <=> (u \in CountedIn)'
    BY <1>1 DEF CountedIn
  <1>3. hashCount' = Cardinality(CountedIn')
    <2>1. CASE hashCount' = hashCount /\ (t \in CountedIn <=> (t \in CountedIn)')
      <3>1. CountedIn' = CountedIn
        BY <1>2, <2>1 DEF CountedIn
      <3>. QED  BY <2>1, <3>1 DEF CountsRight
    <2>2. CASE hashCount' = hashCount - 1 /\ t \in CountedIn /\ ~(t \in CountedIn)'
      <3>1. CountedIn' = CountedIn \ {t}
        BY <1>2, <2>2 DEF CountedIn
      <3>2. IsFiniteSet(CountedIn)
        BY Sets DEF CountedIn
      <3>. QED  BY <2>2, <3>1, <3>2, FS_RemoveElement DEF CountsRight
    <2>. QED  BY <2>1, <2>2
  <1>4. ASSUME NEW n \in Nat
        PROVE  Cardinality(AmongFirst(n)') <= n
    <2>2. AmongFirst(n)' \in SUBSET AmongFirst(n) /\ AmongFirst(n) \in SUBSET Threads
      BY DEF AmongFirst
    <2>3. Cardinality(AmongFirst(n)') <= Cardinality(AmongFirst(n))
      BY <2>2, Sets, FS_Subset
    <2>4. Cardinality(AmongFirst(n)) \in Nat /\ Cardinality(AmongFirst(n)') \in Nat
      BY <2>2, Sets
    <2>. QED  BY <2>3, <2>4 DEF CountsRight
  <1>5. hashCount' \in Nat
    BY <1>3, Sets DEF CountedIn
  <1>. QED  BY <1>3, <1>4, <1>5 DEF CountsRight

-----------------------------------------------------------------------------
(* The actions that leave the tables as they are.                          *)

\* A step that does not change tables nor what is given.
LEMMA QuietKeeps ==
    ASSUME HashSizes, HashInv, NEW t \in Threads, NEW new, GoesOn(t, new),
           UNCHANGED <<tables, given>>,
           resizing' \in BOOLEAN, created' \in {created, created + 1},
           producerList' \in Seq(1..created'), failures' \in 0..MaxFailures,
           Chained \subseteq Chained',
           ProducerOf(t)', Owned(t)' \subseteq Owned(t) \cup {created + 1},
           \A n \in Nat : Early(t, n)' => Early(t, n),
           \/ hashCount' = hashCount /\ (t \in CountedIn <=> (t \in CountedIn)')
           \/ hashCount' = hashCount - 1 /\ t \in CountedIn /\ ~(t \in CountedIn)'
    PROVE  HashInv'
  <1>1. TablesGrow' /\ SlotsFound'
    BY SlotsKeep DEF HashInv
  <1>2. ProducersOwned'
    BY OwnersKeep DEF HashInv
  <1>3. CountsRight' /\ hashCount' \in Nat
    BY OthersEarly, CountsKeep DEF HashInv
  <1>4. HashTypes'
    <2>1. /\ tables' \in Seq(TableSet) /\ Len(tables) <= Len(tables')
          /\ given' \in [Threads -> SUBSET (1..created')]
      BY DEF HashInv, HashTypes
    <2>. QED  BY <1>3, <2>1, TypesKeep DEF HashInv
  <1>. QED  BY <1>1, <1>2, <1>3, <1>4 DEF HashInv

\* What every action starts from.
LEMMA StepFacts ==
    ASSUME HashInv, NEW t \in Threads
    PROVE  /\ tables \in Seq(TableSet) /\ Len(tables) \in Nat \ {0}
           /\ DOMAIN tables = 1..Len(tables)
           /\ Len(tables) \in DOMAIN tables
           /\ hashCount \in Nat /\ resizing \in BOOLEAN /\ created \in Nat
           /\ producerList \in Seq(1..created) /\ failures \in 0..MaxFailures
           /\ local \in [Threads -> LocalSet] /\ given \in [Threads -> SUBSET (1..created)]
           /\ local[t] \in LocalSet /\ local[t].mainHash \in 0..Len(tables)
           /\ local[t].pc # "idle" => local[t].mainHash \in DOMAIN tables
           /\ ProducerOf(t)
  BY LocalFacts DEF HashInv, HashTypes, ProducersOwned

\* A search that finds the thread in the newest table changes nothing.
LEMMA SearchFindsKeeps ==
    ASSUME HashSizes, HashInv, NEW t \in Threads, PH!SearchFinds(t)
    PROVE  HashInv'
  <1>1. /\ local[t].pc = "idle" /\ local' = [local EXCEPT ![t] = PH!Idle]
        /\ given' = [given EXCEPT ![t] = @ \cup {PH!ValueIn(t, Len(tables))}]
        /\ UNCHANGED <<tables, hashCount, resizing, producerList, created, failures>>
        /\ Len(tables) \in PH!Found(t) /\ PH!Ends(t, Len(tables)) # {}
    <2>1. Len(tables) \in PH!Found(t) /\ (Len(tables) \in DOMAIN tables =>
                PH!Ends(t, Len(tables)) # {})
      BY DEF PH!SearchFinds, PH!SearchEnds
    <2>2. Len(tables) \in DOMAIN tables
      BY StepFacts
    <2>. QED  BY <2>1, <2>2 DEF PH!SearchFinds, PH!SearchEnds, PH!Returns, PH!Goes, PH!shared
  <1>2. given[t] = {PH!ValueIn(t, Len(tables))}
    BY <1>1, FoundIs, StepFacts DEF PH!Found, HashInv
  <1>3. given' = given
    BY <1>1, <1>2, StepFacts
  <1>4. GoesOn(t, PH!Idle)
    BY <1>1, StepFacts DEF GoesOn, PH!Idle, LocalSet
  <1>5. local'[t] = PH!Idle /\ PH!Idle.pc = "idle"
    BY <1>4, Others DEF HashInv, PH!Idle
  <1>6. Owned(t)' = given[t] /\ Chained' = Chained
    BY <1>1, <1>3, <1>5 DEF Owned, Making, Chained
  <1>7. ProducerOf(t)' /\ Owned(t)' \subseteq Owned(t)
    BY <1>1, <1>3, <1>5, <1>6, StepFacts DEF ProducerOf, Owned
  <1>8. \A n \in Nat : Early(t, n)' => Early(t, n)
    BY <1>1, <1>5, SameTable DEF Early, Fits, Making, NewPcs
  <1>9. t \in CountedIn <=> (t \in CountedIn)'
    BY <1>1, <1>3, <1>5 DEF CountedIn
  <1>. QED  BY <1>1, <1>3, <1>4, <1>6, <1>7, <1>8, <1>9, StepFacts, QuietKeeps

\* Found in an older table: the newest one has as much room.
LEMMA SearchFindsDeepKeeps ==
    ASSUME HashSizes, HashInv, NEW t \in Threads, PH!SearchFindsDeep(t)
    PROVE  HashInv'
  <1>. DEFINE new == [PH!Idle EXCEPT !.pc = "insert", !.mainHash = Len(tables),
                                     !.value = PH!ValueIn(t, PH!Newest(PH!Found(t)))]
  <1>1. /\ local[t].pc = "idle" /\ local' = [local EXCEPT ![t] = new]
        /\ UNCHANGED <<tables, hashCount, resizing, producerList, created, failures, given>>
        /\ PH!Found(t) # {} /\ \A h \in DOMAIN tables : PH!Ends(t, h) # {}
    BY DEF PH!SearchFindsDeep, PH!SearchEnds, PH!Goes, PH!shared
  <1>2. PH!Newest(PH!Found(t)) \in PH!Found(t)
    <2>1. PH!Found(t) \in SUBSET (0..Len(tables)) /\ Len(tables) \in Nat
      BY StepFacts DEF PH!Found
    <2>2. \E h \in PH!Found(t) : \A g \in PH!Found(t) : g <= h
      BY <1>1, <2>1, Greatest
    <2>. QED  BY <2>2, Zenon DEF PH!Newest
  <1>3. PICK g \in DOMAIN tables : g = PH!Newest(PH!Found(t)) /\ PH!IsIn(t, g)
    BY <1>2 DEF PH!Found
  <1>4. HasSlot(t, g) /\ given[t] = {PH!ValueIn(t, g)}
    BY <1>1, <1>3, FoundIs DEF HashInv
  <1>5. PH!ValueIn(t, g) \in 1..created /\ created \in Nat
    BY <1>4, StepFacts
  <1>6. /\ new \in LocalSet /\ new.pc = "insert" /\ new.mainHash = Len(tables)
        /\ new.value = PH!ValueIn(t, g)
    <2>. DEFINE r(m, v) == [PH!Idle EXCEPT !.pc = "insert", !.mainHash = m, !.value = v]
    <2>1. \A m \in Nat, v \in Nat : /\ r(m, v) \in LocalSet /\ r(m, v).pc = "insert"
                                    /\ r(m, v).mainHash = m /\ r(m, v).value = v
      BY DEF PH!Idle, LocalSet
    <2>2. Len(tables) \in Nat /\ PH!ValueIn(t, g) \in Nat
      BY <1>5, StepFacts
    <2>3. new = r(Len(tables), PH!ValueIn(t, g))
      BY <1>3, Zenon
    <2>. HIDE DEF new, r
    <2>. QED  BY <2>1, <2>2, <2>3
  <1>. HIDE DEF new
  <1>7. GoesOn(t, new) /\ local'[t] = new
    <2>1. GoesOn(t, new)
      BY <1>1, <1>6, StepFacts DEF GoesOn
    <2>. QED  BY <2>1, Others DEF HashInv
  <1>8. Owned(t)' = given[t] /\ Chained' = Chained
    BY <1>1, <1>4, <1>6, <1>7 DEF Owned, Making, Chained
  <1>9. ProducerOf(t)' /\ Owned(t)' \subseteq Owned(t)
    BY <1>1, <1>4, <1>6, <1>7, <1>8, StepFacts DEF ProducerOf, Owned, NewPcs
  <1>10. ASSUME NEW n \in Nat, Early(t, n)'
         PROVE  Early(t, n)
    <2>1. PICK h \in DOMAIN tables : (Fits(t, h) /\ RoomOf(h) <= n)'
      BY <1>1, <1>6, <1>7, <1>10 DEF Early, NewPcs
    <2>2. RoomOf(h) <= n /\ (HasSlot(t, h) \/ h = Len(tables))
      BY <1>1, <1>6, <1>7, <2>1, SameTable DEF Fits, Making
    <2>3. CASE HasSlot(t, h)
      BY <2>2, <2>3 DEF Early, Fits
    <2>4. CASE h = Len(tables)
      <3>1. /\ g <= h /\ PH!Capacity(g) <= PH!Capacity(h)
            /\ PH!Capacity(g) \in Nat /\ PH!Capacity(h) \in Nat
        BY <2>4, StepFacts, TableFacts DEF HashInv, TablesGrow
      <3>2. RoomOf(g) <= n
        <4>1. PH!Capacity(h) \div 2 + PH!Capacity(h) \div 4 <= n
          BY <2>2 DEF RoomOf
        <4>2. PH!Capacity(g) \div 2 + PH!Capacity(g) \div 4 <= n
          BY ONLY <3>1, <4>1, n \in Nat
        <4>. QED  BY <4>2 DEF RoomOf
      <3>. QED  BY <1>4, <3>2 DEF Early, Fits
    <2>. QED  BY <2>2, <2>3, <2>4
  <1>11. t \in CountedIn <=> (t \in CountedIn)'
    BY <1>1, <1>4, <1>6, <1>7 DEF CountedIn
  <1>. QED  BY <1>1, <1>7, <1>8, <1>9, <1>10, <1>11, StepFacts, QuietKeeps

\* It is in no table.
LEMMA SearchFindsNothingKeeps ==
    ASSUME HashSizes, HashInv, NEW t \in Threads, PH!SearchFindsNothing(t)
    PROVE  HashInv'
  <1>. DEFINE new == [PH!Idle EXCEPT !.pc = "count", !.mainHash = Len(tables)]
  <1>1. /\ local[t].pc = "idle" /\ local' = [local EXCEPT ![t] = new]
        /\ UNCHANGED <<tables, hashCount, resizing, producerList, created, failures, given>>
        /\ PH!Found(t) = {} /\ \A h \in DOMAIN tables : PH!Ends(t, h) # {}
    BY DEF PH!SearchFindsNothing, PH!SearchEnds, PH!Goes, PH!shared
  <1>2. given[t] = {}
    <2>1. \A h \in DOMAIN tables : ~PH!IsIn(t, h)
      BY <1>1 DEF PH!Found
    <2>2. \A h \in DOMAIN tables : ~HasSlot(t, h)
      BY <1>1, <2>1, FoundIs DEF HashInv
    <2>. QED  BY <2>2 DEF HashInv, SlotsFound
  <1>3. new \in LocalSet /\ new.pc = "count" /\ new.mainHash = Len(tables)
    BY StepFacts DEF PH!Idle, LocalSet
  <1>. HIDE DEF new
  <1>4. GoesOn(t, new) /\ local'[t] = new
    <2>1. GoesOn(t, new)
      BY <1>1, <1>3, StepFacts DEF GoesOn
    <2>. QED  BY <2>1, Others DEF HashInv
  <1>5. Owned(t)' = {} /\ Chained' = Chained
    BY <1>1, <1>2, <1>3, <1>4 DEF Owned, Making, Chained
  <1>6. ProducerOf(t)' /\ Owned(t)' \subseteq Owned(t)
    BY <1>1, <1>2, <1>3, <1>4, <1>5 DEF ProducerOf
  <1>7. \A n \in Nat : Early(t, n)' => Early(t, n)
    BY <1>1, <1>3, <1>4, SameTable DEF Early, Fits, Making, NewPcs
  <1>8. t \in CountedIn <=> (t \in CountedIn)'
    BY <1>1, <1>2, <1>3, <1>4 DEF CountedIn
  <1>. QED  BY <1>1, <1>4, <1>5, <1>6, <1>7, <1>8, StepFacts, QuietKeeps

\* A thread that asks for its producer goes on asking.
LEMMA AskingKeeps ==
    ASSUME HashSizes, HashInv, NEW t \in Threads, NEW new \in LocalSet,
           local[t].pc \in NewPcs, local' = [local EXCEPT ![t] = new],
           new.pc \in NewPcs, new.newCount = local[t].newCount, new.mainHash \in DOMAIN tables,
           UNCHANGED <<tables, hashCount, producerList, created, failures, given>>,
           resizing' \in BOOLEAN
    PROVE  HashInv'
  <1>1. GoesOn(t, new) /\ local'[t] = new
    <2>1. GoesOn(t, new)
      BY StepFacts DEF GoesOn
    <2>. QED  BY <2>1, Others DEF HashInv
  <1>2. Owned(t)' = Owned(t) /\ Chained' = Chained
    BY <1>1 DEF Owned, Making, Chained, NewPcs
  <1>3. ProducerOf(t)'
    BY <1>1, <1>2, StepFacts DEF ProducerOf, NewPcs
  <1>4. \A n \in Nat : Early(t, n)' => Early(t, n)
    BY <1>1, SameTable DEF Early, Fits, Making, NewPcs
  <1>5. t \in CountedIn <=> (t \in CountedIn)'
    BY <1>1 DEF CountedIn, NewPcs
  <1>. QED  BY <1>1, <1>2, <1>3, <1>4, <1>5, StepFacts, QuietKeeps

\* Steps that only decide whether a bigger table is needed.
LEMMA LocksKeep ==
    ASSUME HashSizes, HashInv, NEW t \in Threads,
           PH!LockResize(t) \/ PH!NoResize(t) \/ PH!UnlockResize(t) \/ PH!WaitForTable(t)
    PROVE  HashInv'
  <1>. DEFINE new(to, h) == [local[t] EXCEPT !.pc = to, !.mainHash = h]
  <1>1. PICK to \in NewPcs, h \in {local[t].mainHash, Len(tables)} :
            /\ local[t].pc \in NewPcs /\ local' = [local EXCEPT ![t] = new(to, h)]
            /\ UNCHANGED <<tables, hashCount, producerList, created, failures, given>>
            /\ resizing' \in BOOLEAN
    <2>1. local[t] \in LocalSet /\ resizing \in BOOLEAN
      BY StepFacts
    <2>2. /\ [local[t] EXCEPT !.pc = "resize"] = new("resize", local[t].mainHash)
          /\ [local[t] EXCEPT !.pc = "fit"] = new("fit", local[t].mainHash)
          /\ [local[t] EXCEPT !.pc = "grow", !.mainHash = Len(tables)] = new("grow", Len(tables))
      BY <2>1 DEF LocalSet
    <2>3. /\ {"grow", "resize", "unlock", "fit"} = NewPcs
          /\ local[t].mainHash \in {local[t].mainHash, Len(tables)}
          /\ Len(tables) \in {local[t].mainHash, Len(tables)}
      BY DEF NewPcs
    <2>. HIDE DEF new
    <2>4. CASE PH!LockResize(t)
      BY <2>1, <2>2, <2>3, <2>4 DEF PH!LockResize, PH!Goes
    <2>5. CASE PH!NoResize(t)
      BY <2>1, <2>2, <2>3, <2>5 DEF PH!NoResize, PH!Goes, PH!shared
    <2>6. CASE PH!UnlockResize(t)
      BY <2>1, <2>2, <2>3, <2>6 DEF PH!UnlockResize, PH!Goes
    <2>7. CASE PH!WaitForTable(t)
      BY <2>1, <2>2, <2>3, <2>7 DEF PH!WaitForTable, PH!Goes, PH!shared
    <2>. QED  BY <2>4, <2>5, <2>6, <2>7
  <1>2. /\ new(to, h) \in LocalSet /\ new(to, h).pc \in NewPcs
        /\ new(to, h).mainHash \in DOMAIN tables
        /\ new(to, h).newCount = local[t].newCount
    <2>1. local[t] \in LocalSet /\ h \in DOMAIN tables /\ h \in Nat
      BY <1>1, StepFacts DEF NewPcs
    <2>. QED  BY <1>1, <2>1 DEF LocalSet
  <1>. HIDE DEF new
  <1>. QED  BY <1>1, <1>2, AskingKeeps

\* A thread that gets no memory is not counted any more.
LEMMA FailsKeeps ==
    ASSUME HashSizes, HashInv, NEW t \in Threads, PH!ResizeFails(t) \/ PH!CreateFails(t)
    PROVE  HashInv'
  <1>1. /\ local[t].pc \in {"resize", "fit"} /\ local' = [local EXCEPT ![t] = PH!Idle]
        /\ hashCount' = hashCount - 1 /\ failures' = failures + 1 /\ failures < MaxFailures
        /\ resizing' \in {FALSE, resizing}
        /\ UNCHANGED <<tables, producerList, created, given>>
    BY DEF PH!ResizeFails, PH!CreateFails, PH!Fails, PH!Goes
  <1>2. failures' \in 0..MaxFailures /\ resizing' \in BOOLEAN
    <2>1. failures \in 0..MaxFailures /\ resizing \in BOOLEAN /\ MaxFailures \in Nat
      BY StepFacts DEF HashSizes
    <2>2. failures + 1 \in 0..MaxFailures
      BY ONLY <1>1, <2>1
    <2>. QED  BY <1>1, <2>1, <2>2
  <1>3. given[t] = {} /\ t \in CountedIn
    BY <1>1, StepFacts DEF ProducerOf, NewPcs, CountedIn
  <1>4. GoesOn(t, PH!Idle) /\ local'[t] = PH!Idle /\ PH!Idle.pc = "idle"
    <2>1. GoesOn(t, PH!Idle) /\ PH!Idle.pc = "idle"
      BY <1>1, StepFacts DEF GoesOn, PH!Idle, LocalSet
    <2>. QED  BY <2>1, Others DEF HashInv
  <1>5. Owned(t)' = {} /\ Chained' = Chained
    BY <1>1, <1>3, <1>4 DEF Owned, Making, Chained
  <1>6. ProducerOf(t)' /\ Owned(t)' \subseteq Owned(t)
    BY <1>1, <1>3, <1>4, <1>5 DEF ProducerOf, NewPcs
  <1>7. \A n \in Nat : Early(t, n)' => Early(t, n)
    BY <1>1, <1>4, SameTable DEF Early, Fits, Making, NewPcs
  <1>8. ~(t \in CountedIn)'
    BY <1>1, <1>3, <1>4 DEF CountedIn
  <1>. QED  BY <1>1, <1>2, <1>3, <1>4, <1>5, <1>6, <1>7, <1>8, StepFacts, QuietKeeps

\* With a producer more, the list is still one of producers.
LEMMA CreatedMore ==
    ASSUME created \in Nat, producerList \in Seq(1..created)
    PROVE  producerList \in Seq(1..created + 1)
  <1>1. 1..created \subseteq 1..created + 1
    OBVIOUS
  <1>. QED  BY <1>1, SeqMonotonic

\* A thread that fits into its table makes its producer.
LEMMA CreateKeeps ==
    ASSUME HashSizes, HashInv, NEW t \in Threads, PH!CreateProducer(t)
    PROVE  HashInv'
  <1>. DEFINE r(v, p) == [local[t] EXCEPT !.pc = "link", !.value = v, !.newCount =
           0, !.prevTail = p]
              new == r(created + 1, Len(producerList))
  <1>1. /\ local[t].pc = "fit" /\ PH!RoomIn(t) /\ local' = [local EXCEPT ![t] = new]
        /\ created' = created + 1
        /\ UNCHANGED <<tables, hashCount, resizing, producerList, failures, given>>
    BY DEF PH!CreateProducer, PH!Goes
  <1>2. \A v \in Nat, p \in Nat : /\ r(v, p) \in LocalSet /\ r(v, p).pc = "link"
                                  /\ r(v, p).value = v
                                  /\ r(v, p).mainHash = local[t].mainHash
    <2>1. local[t] \in LocalSet
      BY StepFacts
    <2>. QED  BY <2>1 DEF LocalSet
  <1>3. created + 1 \in Nat /\ Len(producerList) \in Nat /\ created \in Nat
    BY StepFacts
  <1>4. /\ new \in LocalSet /\ new.pc = "link" /\ new.value = created + 1
        /\ new.mainHash = local[t].mainHash
    <2>. HIDE DEF r
    <2>. QED  BY <1>2, <1>3
  <1>. HIDE DEF new, r
  <1>5. GoesOn(t, new) /\ local'[t] = new
    <2>1. GoesOn(t, new)
      BY <1>1, <1>4, StepFacts DEF GoesOn
    <2>. QED  BY <2>1, Others DEF HashInv
  <1>6. given[t] = {} /\ t \in CountedIn
    BY <1>1, StepFacts DEF ProducerOf, NewPcs, CountedIn
  <1>7. Owned(t)' = {created + 1} /\ Chained' = Chained
    BY <1>1, <1>4, <1>5, <1>6 DEF Owned, Making, Chained
  <1>8. ProducerOf(t)' /\ Owned(t)' \subseteq Owned(t) \cup {created + 1}
    BY <1>1, <1>3, <1>4, <1>5, <1>6, <1>7 DEF ProducerOf
  <1>9. ASSUME NEW n \in Nat, Early(t, n)'
        PROVE  Early(t, n)
    <2>1. PICK h \in DOMAIN tables : (Fits(t, h) /\ RoomOf(h) <= n)'
      BY <1>1, <1>4, <1>5, <1>9 DEF Early, NewPcs
    <2>2. RoomOf(h) <= n /\ (HasSlot(t, h) \/ h = local[t].mainHash)
      BY <1>1, <1>4, <1>5, <2>1, SameTable DEF Fits
    <2>3. CASE HasSlot(t, h)
      BY <2>2, <2>3 DEF Early, Fits
    <2>4. CASE h = local[t].mainHash
      <3>1. local[t].newCount < RoomOf(h)
        BY <1>1, <2>4 DEF PH!RoomIn, RoomOf
      <3>2. local[t].newCount \in Nat /\ RoomOf(h) \in Int
        BY StepFacts, TableFacts DEF LocalSet, RoomOf, HashInv
      <3>3. local[t].newCount <= n
        BY ONLY <2>2, <3>1, <3>2, n \in Nat
      <3>. QED  BY <1>1, <3>3 DEF Early, NewPcs
    <2>. QED  BY <2>2, <2>3, <2>4
  <1>10. (t \in CountedIn)'
    BY <1>1, <1>4, <1>5 DEF CountedIn
  <1>. QED  BY <1>1, <1>3, <1>5, <1>6, <1>7, <1>8, <1>9, <1>10, StepFacts, CreatedMore,
                QuietKeeps

\* It links its producer into the list, or looks at the list again.
LEMMA AddProducerKeeps ==
    ASSUME HashSizes, HashInv, NEW t \in Threads, PH!AddProducer(t) \/ PH!AddProducerAgain(t)
    PROVE  HashInv'
  <1>. DEFINE r(to, p) == [local[t] EXCEPT !.pc = to, !.prevTail = p]
  <1>1. \A to \in {"link", "insert"}, p \in Nat :
            /\ r(to, p) \in LocalSet /\ r(to, p).pc = to /\ r(to, p).value = local[t].value
            /\ r(to, p).mainHash = local[t].mainHash
    <2>1. local[t] \in LocalSet
      BY StepFacts
    <2>. QED  BY <2>1 DEF LocalSet
  <1>2. PICK to \in {"link", "insert"}, p \in Nat :
            /\ local[t].pc = "link" /\ local' = [local EXCEPT ![t] = r(to, p)]
            /\ to = "link" => producerList' = producerList
            /\ to = "insert" => producerList' = Append(producerList, local[t].value)
            /\ UNCHANGED <<tables, hashCount, resizing, created, failures, given>>
    <2>1. CASE PH!AddProducer(t)
      BY <2>1 DEF PH!AddProducer, PH!Goes
    <2>2. CASE PH!AddProducerAgain(t)
      <3>1. local[t] \in LocalSet /\ Len(producerList) \in Nat
        BY StepFacts
      <3>2. [local[t] EXCEPT !.prevTail = Len(producerList)] = r("link", Len(producerList))
        BY <2>2, <3>1 DEF PH!AddProducerAgain, PH!Goes, LocalSet
      <3>. HIDE DEF r
      <3>. QED  BY <2>2, <3>1, <3>2 DEF PH!AddProducerAgain, PH!Goes, PH!shared
    <2>. QED  BY <2>1, <2>2
  <1>. DEFINE new == r(to, p)
  <1>3. /\ new \in LocalSet /\ new.pc = to /\ new.value = local[t].value
        /\ new.mainHash = local[t].mainHash
    <2>. HIDE DEF r
    <2>. QED  BY <1>1
  <1>. HIDE DEF r, new
  <1>4. GoesOn(t, new) /\ local'[t] = new
    <2>1. GoesOn(t, new)
      BY <1>2, <1>3, StepFacts DEF GoesOn, new
    <2>. QED  BY <2>1, Others DEF HashInv
  <1>5. given[t] = {} /\ t \in CountedIn /\ local[t].value \in 1..created
    BY <1>2, StepFacts DEF ProducerOf, CountedIn, Owned, Making
  <1>6. /\ producerList' \in Seq(1..created) /\ Chained \subseteq Chained'
        /\ to = "insert" => local[t].value \in Chained'
    <2>1. CASE to = "link"
      BY <1>2, <2>1, StepFacts DEF Chained
    <2>2. CASE to = "insert"
      <3>1. /\ producerList \in Seq(1..created) /\ Len(producerList) \in Nat
            /\ producerList' = Append(producerList, local[t].value)
        BY <1>2, <2>2, StepFacts
      <3>2. /\ producerList' \in Seq(1..created) /\ Len(producerList') = Len(producerList) + 1
            /\ \A i \in 1..Len(producerList) : producerList'[i] = producerList[i]
            /\ producerList'[Len(producerList) + 1] = local[t].value
        BY <1>5, <3>1, AppendProperties
      <3>3. /\ DOMAIN producerList = 1..Len(producerList)
            /\ DOMAIN producerList' = 1..Len(producerList) + 1
        BY <3>1, <3>2
      <3>. QED  BY <3>1, <3>2, <3>3 DEF Chained
    <2>. QED  BY <2>1, <2>2
  <1>7. Owned(t)' = {local[t].value} /\ Owned(t) = {local[t].value}
    BY <1>2, <1>3, <1>4, <1>5 DEF Owned, Making
  <1>8. ProducerOf(t)'
    BY <1>2, <1>3, <1>4, <1>5, <1>6, <1>7 DEF ProducerOf
  <1>9. \A n \in Nat : Early(t, n)' => Early(t, n)
    BY <1>2, <1>3, <1>4, SameTable DEF Early, Fits, Making, NewPcs
  <1>10. (t \in CountedIn)'
    BY <1>2, <1>3, <1>4 DEF CountedIn
  <1>. QED  BY <1>2, <1>4, <1>5, <1>6, <1>7, <1>8, <1>9, <1>10, StepFacts, QuietKeeps

-----------------------------------------------------------------------------
(* A new thread is counted.                                                *)

\* Who is among the first is counted.
LEMMA EarlyCounted ==
    ASSUME SlotsFound, NEW t \in Threads, NEW n, Early(t, n)
    PROVE  t \in CountedIn
  <1>1. CASE local[t].pc \in NewPcs
    BY <1>1 DEF CountedIn, NewPcs
  <1>2. CASE \E h \in DOMAIN tables : Fits(t, h)
    <2>1. PICK h \in DOMAIN tables : Fits(t, h)
      BY <1>2
    <2>2. CASE HasSlot(t, h)
      BY <2>2 DEF HasSlot, SlotsFound, SlotOf, CountedIn
    <2>3. CASE Making(t)
      BY <2>3 DEF Making, CountedIn
    <2>. QED  BY <2>1, <2>2, <2>3 DEF Fits
  <1>. QED  BY <1>1, <1>2 DEF Early

\* The thread that adds one to hashCount is among the first so many from then on: it was
\* not counted before, and the others that are counted are one less.
LEMMA CountInKeeps ==
    ASSUME HashSizes, HashInv, NEW t \in Threads, PH!CountIn(t)
    PROVE  HashInv'
  <1>. DEFINE new == [local[t] EXCEPT !.pc = "grow", !.newCount = hashCount + 1]
  <1>1. /\ local[t].pc = "count" /\ local' = [local EXCEPT ![t] = new]
        /\ hashCount' = hashCount + 1
        /\ UNCHANGED <<tables, resizing, producerList, created, failures, given>>
    BY DEF PH!CountIn, PH!Goes
  <1>2. /\ new \in LocalSet /\ new.pc = "grow" /\ new.newCount = hashCount + 1
        /\ new.mainHash = local[t].mainHash
    <2>1. local[t] \in LocalSet /\ hashCount + 1 \in Nat
      BY StepFacts
    <2>. QED  BY <2>1 DEF LocalSet, NewPcs
  <1>. HIDE DEF new
  <1>3. GoesOn(t, new) /\ local'[t] = new /\ \A u \in Threads \ {t} : local'[u] = local[u]
    <2>1. GoesOn(t, new)
      BY <1>1, <1>2, StepFacts DEF GoesOn
    <2>. QED  BY <2>1, Others DEF HashInv
  <1>4. given[t] = {} /\ t \notin CountedIn
    BY <1>1, StepFacts DEF ProducerOf, CountedIn
  <1>5. Owned(t)' = {} /\ Chained' = Chained
    BY <1>1, <1>2, <1>3, <1>4 DEF Owned, Making, Chained
  <1>6. ProducerOf(t)' /\ Owned(t)' \subseteq Owned(t)
    BY <1>1, <1>2, <1>3, <1>4, <1>5 DEF ProducerOf
  <1>7. ProducersOwned'
    BY <1>1, <1>3, <1>5, <1>6, OwnersKeep DEF HashInv
  <1>8. TablesGrow' /\ SlotsFound'
    BY <1>1, SlotsKeep DEF HashInv
  <1>9. HashTypes'
    <2>1. hashCount' \in Nat /\ Len(tables) <= Len(tables')
      BY <1>1, StepFacts
    <2>. QED  BY <1>1, <1>3, <2>1, StepFacts, TypesKeep DEF HashInv
  <1>10. CountedIn' = CountedIn \cup {t}
    BY <1>1, <1>2, <1>3 DEF CountedIn
  <1>11. hashCount' = Cardinality(CountedIn') /\ hashCount \in Nat
    <2>1. IsFiniteSet(CountedIn) /\ hashCount = Cardinality(CountedIn)
      BY Sets DEF CountedIn, HashInv, CountsRight
    <2>. QED  BY <1>1, <1>4, <1>10, <2>1, FS_AddElement, StepFacts
  <1>12. \A u \in Threads \ {t}, n \in Nat : Early(u, n)' <=> Early(u, n)
    BY <1>1, <1>3, OthersEarly DEF HashInv
  <1>13. \A n \in Nat : Early(t, n)' => hashCount + 1 <= n
    <2>1. \A h \in DOMAIN tables : ~HasSlot(t, h)
      BY <1>4 DEF HasSlot, HashInv, SlotsFound, SlotOf
    <2>. QED  BY <1>1, <1>2, <1>3, <2>1, SameTable DEF Early, Fits, Making
  <1>14. ASSUME NEW n \in Nat
         PROVE  Cardinality(AmongFirst(n)') <= n
    <2>1. CASE hashCount + 1 <= n
      <3>1. AmongFirst(n)' \in SUBSET CountedIn' /\ CountedIn' \in SUBSET Threads
        <4>1. \A u \in Threads : Early(u, n)' => u \in CountedIn'
          BY <1>10, <1>12, EarlyCounted DEF HashInv
        <4>. QED  BY <4>1 DEF AmongFirst, CountedIn
      <3>2. Cardinality(AmongFirst(n)') <= hashCount + 1 /\ Cardinality(AmongFirst(n)') \in Nat
        BY <1>1, <1>11, <3>1, Sets, FS_Subset
      <3>. QED  BY <1>11, <2>1, <3>2
    <2>2. CASE ~(hashCount + 1 <= n)
      <3>1. AmongFirst(n)' \in SUBSET AmongFirst(n) /\ AmongFirst(n) \in SUBSET Threads
        BY <1>12, <1>13, <2>2 DEF AmongFirst
      <3>2. Cardinality(AmongFirst(n)') <= Cardinality(AmongFirst(n))
            /\ Cardinality(AmongFirst(n)') \in Nat /\ Cardinality(AmongFirst(n)) \in Nat
        BY <3>1, Sets, FS_Subset
      <3>3. Cardinality(AmongFirst(n)) <= n
        BY DEF HashInv, CountsRight
      <3>. QED  BY <3>2, <3>3
    <2>. QED  BY <2>1, <2>2
  <1>. QED  BY <1>7, <1>8, <1>9, <1>11, <1>14 DEF HashInv, CountsRight

-----------------------------------------------------------------------------
(* A bigger table.                                                         *)

\* The new table is empty and at least as large, so nobody is early for it.
LEMMA ResizeKeeps ==
    ASSUME HashSizes, HashInv, NEW t \in Threads, PH!Resize(t)
    PROVE  HashInv'
  <1>. DEFINE r(m) == [local[t] EXCEPT !.pc = "unlock", !.mainHash = m]
              size == PH!Capacity(Len(tables))
              c == PH!NewCapacity(local[t].newCount, size)
  <1>1. /\ local[t].pc = "resize" /\ local' = [local EXCEPT ![t] = r(Len(tables'))]
        /\ tables' \in {tables, Append(tables, PH!Table(c))}
        /\ UNCHANGED <<hashCount, resizing, producerList, created, failures, given>>
    BY DEF PH!Resize, PH!Goes
  <1>2. \A m \in Nat : /\ r(m) \in LocalSet /\ r(m).pc = "unlock" /\ r(m).mainHash = m
                       /\ r(m).newCount = local[t].newCount
    <2>1. local[t] \in LocalSet
      BY StepFacts
    <2>. QED  BY <2>1 DEF LocalSet, NewPcs
  <1>3. Len(tables) \in Nat \ {0} /\ DOMAIN tables = 1..Len(tables) /\ tables \in Seq(TableSet)
    BY StepFacts
  <1>. HIDE DEF r
  <1>4. CASE tables' = tables
    <2>1. r(Len(tables)).mainHash \in DOMAIN tables /\ resizing' \in BOOLEAN
      BY <1>1, <1>2, <1>3, StepFacts
    <2>. QED  BY <1>1, <1>2, <1>3, <1>4, <2>1, AskingKeeps DEF NewPcs
  <1>5. CASE tables' = Append(tables, PH!Table(c))
    <2>0. PICK N \in Nat : N = Len(tables) + 1
      BY <1>3
    <2>. DEFINE new == r(N)
    <2>1. size \in Nat \ {0} /\ local[t].newCount \in Nat
      BY <1>3, StepFacts, TableFacts DEF LocalSet, HashInv
    <2>2. c \in Nat \ {0} /\ size <= c
      BY <2>1, NewCapacityFits
    <2>. HIDE DEF c, size
    <2>3. /\ PH!Table(c) \in TableSet /\ DOMAIN PH!Table(c) = 0..c - 1
          /\ PH!Cardinality(DOMAIN PH!Table(c)) = c
          /\ \A i \in 0..c - 1 : PH!Table(c)[i].key = NoNode
      BY <2>2, EmptyTable
    <2>4. /\ tables' \in Seq(TableSet) /\ Len(tables') = N
          /\ \A h \in 1..Len(tables) : tables'[h] = tables[h]
          /\ tables'[N] = PH!Table(c)
      BY <1>3, <1>5, <2>0, <2>3, AppendProperties
    <2>5. DOMAIN tables' = 1..N /\ N \in Nat /\ DOMAIN tables' = DOMAIN tables \cup {N}
          /\ N \notin DOMAIN tables
      BY <1>3, <2>0, <2>4
    <2>6. /\ new \in LocalSet /\ new.pc = "unlock" /\ new.mainHash = N
          /\ new.newCount = local[t].newCount /\ local' = [local EXCEPT ![t] = new]
      BY <1>1, <1>2, <2>4, <2>5
    <2>. HIDE DEF new
    <2>7. /\ GoesOn(t, new) /\ local'[t] = new /\ local' \in [Threads -> LocalSet]
          /\ \A u \in Threads \ {t} : local'[u] = local[u]
      <3>1. GoesOn(t, new)
        BY <1>3, <2>0, <2>4, <2>6 DEF GoesOn
      <3>. QED  BY <3>1, Others DEF HashInv
    <2>8. HashTypes'
      <3>1. Len(tables) <= Len(tables')
        BY <1>3, <2>0, <2>4
      <3>. QED  BY <1>1, <2>4, <2>7, <3>1, StepFacts, TypesKeep DEF HashInv
    <2>9. \A h \in DOMAIN tables :
              /\ PH!Capacity(h)' = PH!Capacity(h) /\ RoomOf(h)' = RoomOf(h)
              /\ \A u : /\ PH!Ends(u, h)' = PH!Ends(u, h) /\ PH!Probe(u, h)' = PH!Probe(u, h)
                       /\ HasSlot(u, h)' = HasSlot(u, h)
      BY <1>3, <2>4, SameTable
    <2>10. PH!Capacity(N)' = c /\ \A u \in Threads : ~HasSlot(u, N)'
      <3>1. PH!Capacity(N)' = c
        BY <2>3, <2>4 DEF PH!Capacity
      <3>2. \A i \in DOMAIN tables'[N] : tables'[N][i].key = NoNode
        BY <2>3, <2>4, Zenon
      <3>3. \A u \in Threads : ~HasSlot(u, N)'
        BY <3>2 DEF HasSlot, HashSizes
      <3>. QED  BY <3>1, <3>3
    <2>11. TablesGrow'
      <3>1. ASSUME NEW g \in DOMAIN tables, NEW h \in DOMAIN tables, g <= h
            PROVE  PH!Capacity(g)' <= PH!Capacity(h)'
        BY <2>9, <3>1 DEF HashInv, TablesGrow
      <3>2. ASSUME NEW g \in DOMAIN tables
            PROVE  PH!Capacity(g)' <= PH!Capacity(N)' /\ ~(N <= g)
        <4>1. g <= Len(tables) /\ Len(tables) \in DOMAIN tables /\ g \in Nat
          BY <1>3
        <4>2. PH!Capacity(g) <= size /\ PH!Capacity(g) \in Nat
          BY <4>1, TableFacts DEF HashInv, TablesGrow, size
        <4>3. PH!Capacity(g)' = PH!Capacity(g) /\ PH!Capacity(N)' = c
          BY <2>9, <2>10
        <4>4. ~(N <= g)
          BY <1>3, <2>0, <4>1
        <4>. QED  BY ONLY <2>1, <2>2, <4>2, <4>3, <4>4
      <3>3. PH!Capacity(N)' <= PH!Capacity(N)'
        BY <2>2, <2>10
      <3>4. ASSUME NEW g \in DOMAIN tables', NEW h \in DOMAIN tables', g <= h
            PROVE  PH!Capacity(g)' <= PH!Capacity(h)'
        <4>1. CASE h = N /\ g = N
          BY <3>3, <4>1 DEF PH!Capacity
        <4>2. CASE h = N /\ g \in DOMAIN tables
          BY <3>2, <4>2 DEF PH!Capacity
        <4>3. CASE h \in DOMAIN tables /\ g = N
          BY <3>2, <3>4, <4>3
        <4>4. CASE h \in DOMAIN tables /\ g \in DOMAIN tables
          BY <3>1, <3>4, <4>4
        <4>. QED  BY <2>5, <4>1, <4>2, <4>3, <4>4
      <3>. QED  BY <3>4 DEF TablesGrow
    <2>12. SlotsFound'
      <3>1. ASSUME NEW u \in Threads, NEW h \in DOMAIN tables', NEW i \in DOMAIN tables'[h]
            PROVE  SlotOf(u, h, i)'
        <4>1. CASE h \in DOMAIN tables
          <5>1. /\ tables'[h] = tables[h] /\ given' = given
                /\ PH!Ends(u, h)' = PH!Ends(u, h) /\ PH!Probe(u, h)' = PH!Probe(u, h)
            BY <1>1, <1>3, <2>4, <2>9, <4>1
          <5>2. SlotOf(u, h, i)
            BY <4>1, <5>1 DEF HashInv, SlotsFound
          <5>. QED  BY <5>1, <5>2 DEF SlotOf
        <4>2. CASE h = N
          BY <2>3, <2>4, <4>2 DEF SlotOf, HashSizes
        <4>. QED  BY <2>5, <4>1, <4>2
      <3>2. ASSUME NEW u \in Threads, given'[u] # {}
            PROVE  \E h \in DOMAIN tables' : HasSlot(u, h)'
        BY <1>1, <2>5, <2>9, <3>2 DEF HashInv, SlotsFound
      <3>. QED  BY <3>1, <3>2 DEF SlotsFound
    <2>13. Owned(t)' = Owned(t) /\ Chained' = Chained
      BY <1>1, <2>6, <2>7 DEF Owned, Making, Chained
    <2>14. ProducerOf(t)'
      BY <1>1, <2>6, <2>7, <2>13, StepFacts DEF ProducerOf, NewPcs
    <2>15. ProducersOwned'
      BY <1>1, <2>7, <2>13, <2>14, OwnersKeep DEF HashInv
    <2>16. ASSUME NEW u \in Threads, NEW n \in Nat, Early(u, n)'
           PROVE  Early(u, n)
      <3>1. /\ local'[u].pc \in NewPcs <=> local[u].pc \in NewPcs
            /\ local'[u].newCount = local[u].newCount
            /\ Making(u)' <=> Making(u)
            /\ Making(u) => local'[u].mainHash = local[u].mainHash
        BY <1>1, <2>6, <2>7 DEF NewPcs, Making
      <3>2. ASSUME NEW h \in DOMAIN tables', Fits(u, h)'
            PROVE  h \in DOMAIN tables /\ Fits(u, h)
        <4>1. Making(u) => local[u].mainHash # N
          <5>1. local[u].mainHash \in 0..Len(tables)
            BY LocalFacts DEF HashInv
          <5>. QED  BY <1>3, <2>0, <5>1
        <4>2. h # N
          BY <2>10, <3>1, <3>2, <4>1 DEF Fits, HasSlot
        <4>3. h \in DOMAIN tables
          BY <2>5, <4>2
        <4>. QED  BY <2>9, <3>1, <3>2, <4>3 DEF Fits
      <3>. QED  BY <2>9, <2>16, <3>1, <3>2 DEF Early
    <2>17. t \in CountedIn <=> (t \in CountedIn)'
      BY <1>1, <2>6, <2>7 DEF CountedIn
    <2>18. CountsRight'
      BY <1>1, <2>7, <2>16, <2>17, CountsKeep DEF HashInv
    <2>. QED  BY <2>8, <2>11, <2>12, <2>15, <2>18 DEF HashInv
  <1>. QED  BY <1>1, <1>4, <1>5

-----------------------------------------------------------------------------
(* A thread's slot.                                                        *)

\* The slot that is taken was free, or the thread's own: probing for others goes on over
\* it, or ended before it.
LEMMA SlotKeeps ==
    ASSUME HashSizes, HashInv, NEW t \in Threads, PH!Insert(t)
    PROVE  HashInv'
  <1>0. PICK h, j, v : h = local[t].mainHash /\ j = PH!Probe(t, h) /\ v = local[t].value
    OBVIOUS
  <1>. DEFINE e == [key |-> t, value |-> v]
  <1>1. /\ local[t].pc = "insert" /\ local' = [local EXCEPT ![t] = PH!Idle]
        /\ PH!Ends(t, h) # {}
        /\ tables' = [tables EXCEPT ![h][j] = e]
        /\ given' = [given EXCEPT ![t] = @ \cup {v}]
        /\ UNCHANGED <<hashCount, resizing, producerList, created, failures>>
    BY <1>0 DEF PH!Insert, PH!Returns, PH!Goes
  <1>2. h \in DOMAIN tables /\ j \in DOMAIN tables[h] /\ tables[h][j].key \in {t, NoNode}
    <2>1. h \in DOMAIN tables
      BY <1>0, <1>1, StepFacts
    <2>. QED  BY <1>0, <1>1, <2>1, ProbeFinds DEF HashInv
  <1>3. v \in Chained /\ v \in 1..created /\ given[t] \in {{}, {v}} /\ created \in Nat
    BY <1>0, <1>1, StepFacts DEF ProducerOf, Owned, Making
  <1>4. /\ given'[t] = {v} /\ \A u \in Threads \ {t} : given'[u] = given[u]
        /\ given' \in [Threads -> SUBSET (1..created)]
    BY <1>1, <1>3, StepFacts
  <1>5. /\ tables' \in Seq(TableSet) /\ Len(tables') = Len(tables)
        /\ DOMAIN tables' = DOMAIN tables
        /\ \A g \in DOMAIN tables \ {h} : tables'[g] = tables[g]
        /\ DOMAIN tables'[h] = DOMAIN tables[h] /\ tables'[h][j] = e
        /\ \A i \in DOMAIN tables[h] \ {j} : tables'[h][i] = tables[h][i]
    <2>1. /\ tables \in Seq(TableSet) /\ tables[h] \in [0..PH!Capacity(h) - 1 -> SlotSet]
          /\ PH!Capacity(h) \in Nat \ {0} /\ DOMAIN tables[h] = 0..PH!Capacity(h) - 1
      BY <1>2, StepFacts, TableFacts DEF HashInv
    <2>2. e \in SlotSet
      BY <1>3 DEF SlotSet
    <2>. DEFINE T == [tables[h] EXCEPT ![j] = e]
    <2>. HIDE DEF e
    <2>3. /\ T \in [0..PH!Capacity(h) - 1 -> SlotSet] /\ DOMAIN T = DOMAIN tables[h] /\ T[j] = e
          /\ \A i \in DOMAIN tables[h] \ {j} : T[i] = tables[h][i]
      BY <1>2, <2>1, <2>2
    <2>4. T \in TableSet
      BY <2>1, <2>3 DEF TableSet
    <2>5. tables' = [tables EXCEPT ![h] = T]
      BY <1>1, Zenon
    <2>. HIDE DEF T
    <2>6. /\ tables' \in Seq(TableSet) /\ Len(tables') = Len(tables)
          /\ DOMAIN tables' = DOMAIN tables
          /\ tables'[h] = T /\ \A g \in DOMAIN tables \ {h} : tables'[g] = tables[g]
      BY <1>2, <2>1, <2>4, <2>5
    <2>. QED  BY <2>3, <2>6
  <1>6. /\ GoesOn(t, PH!Idle) /\ local'[t] = PH!Idle /\ PH!Idle.pc = "idle"
        /\ \A u \in Threads \ {t} : local'[u] = local[u]
    <2>1. GoesOn(t, PH!Idle) /\ PH!Idle.pc = "idle"
      BY <1>1, <1>5, StepFacts DEF GoesOn, PH!Idle, LocalSet
    <2>. QED  BY <2>1, Others DEF HashInv
  <1>7. \A g \in DOMAIN tables : /\ PH!Capacity(g)' = PH!Capacity(g) /\ RoomOf(g)' = RoomOf(g)
                                 /\ DOMAIN tables'[g] = DOMAIN tables[g]
    <2>1. \A g \in DOMAIN tables : DOMAIN tables'[g] = DOMAIN tables[g]
      BY <1>5
    <2>2. \A g \in DOMAIN tables : PH!Capacity(g)' = PH!Capacity(g)
      BY <2>1 DEF PH!Capacity
    <2>. QED  BY <2>1, <2>2 DEF RoomOf
  <1>8. HashTypes'
    <2>1. Len(tables) <= Len(tables')
      BY <1>5, StepFacts
    <2>. QED  BY <1>1, <1>4, <1>5, <1>6, <2>1, StepFacts, TypesKeep DEF HashInv
  <1>9. TablesGrow'
    BY <1>5, <1>7 DEF HashInv, TablesGrow
  <1>10. \A g \in DOMAIN tables \ {h} : \A u : /\ PH!Ends(u, g)' = PH!Ends(u, g)
                                                    /\ PH!Probe(u, g)' = PH!Probe(u, g)
    BY <1>5, SameTable
  <1>11. \A u, k : PH!Step(u, h, k)' = PH!Step(u, h, k)
    BY <1>2, <1>7 DEF PH!Step
  <1>12. ASSUME NEW u \in Threads, NEW k \in 0..PH!Capacity(h) - 1
         PROVE  PH!Step(u, h, k) \in DOMAIN tables[h]
    <2>1. k \in Nat
      BY <1>2, TableFacts DEF HashInv
    <2>. QED  BY <1>2, <2>1, StepIn DEF HashInv
  <1>13. PH!Ends(t, h)' # {} /\ PH!Probe(t, h)' = j
    <2>1. PH!Ends(t, h)' = PH!Ends(t, h)
      <3>1. ASSUME NEW k \in 0..PH!Capacity(h) - 1
            PROVE  tables'[h][PH!Step(t, h, k)].key \in {t, NoNode}
                     <=> tables[h][PH!Step(t, h, k)].key \in {t, NoNode}
        <4>1. CASE PH!Step(t, h, k) = j
          BY <1>2, <1>5, <4>1
        <4>2. CASE PH!Step(t, h, k) # j
          BY <1>5, <1>12, <4>2
        <4>. QED  BY <4>1, <4>2
      <3>. QED  BY <1>2, <1>7, <1>11, <3>1 DEF PH!Ends
    <2>. QED  BY <1>0, <1>1, <1>11, <2>1 DEF PH!Probe
  <1>14. ASSUME NEW u \in Threads \ {t}, NEW i \in DOMAIN tables[h] \ {j}, tables[h][i].key = u
         PROVE  PH!Ends(u, h)' # {} /\ PH!Probe(u, h)' = i
    <2>1. PH!Ends(u, h) # {} /\ i = PH!Probe(u, h)
      BY <1>2, <1>14 DEF HashInv, SlotsFound, SlotOf
    <2>2. PICK m \in PH!Ends(u, h) : /\ \A n \in PH!Ends(u, h) : m <= n
                                     /\ i = PH!Step(u, h, m)
      BY <1>2, <2>1, ProbeEnds DEF HashInv
    <2>3. PH!Ends(u, h)' \subseteq PH!Ends(u, h)
      <3>1. ASSUME NEW k \in 0..PH!Capacity(h) - 1,
                   tables'[h][PH!Step(u, h, k)].key \in {u, NoNode}
            PROVE  tables[h][PH!Step(u, h, k)].key \in {u, NoNode}
        <4>1. PH!Step(u, h, k) # j
          BY <1>5, <3>1 DEF HashSizes
        <4>. QED  BY <1>5, <1>12, <3>1, <4>1
      <3>. QED  BY <1>2, <1>7, <1>11, <3>1 DEF PH!Ends
    <2>4. m \in PH!Ends(u, h)'
      <3>1. m \in 0..PH!Capacity(h) - 1
        BY DEF PH!Ends
      <3>2. tables'[h][PH!Step(u, h, m)].key = u
        BY <1>5, <1>14, <2>2
      <3>. QED  BY <1>2, <1>7, <1>11, <3>1, <3>2 DEF PH!Ends
    <2>5. \A n \in PH!Ends(u, h)' : m <= n
      BY <2>2, <2>3
    <2>6. PH!Ends(u, h)' \subseteq Nat
      <3>1. PH!Ends(u, h) \subseteq Nat
        BY <1>2, TableFacts DEF HashInv, PH!Ends
      <3>. QED  BY <2>3, <3>1
    <2>7. PH!Probe(u, h)' = PH!Step(u, h, m)'
      <3>1. \A k \in PH!Ends(u, h)' : (\A n \in PH!Ends(u, h)' : k <= n) => k = m
        BY <2>4, <2>5, <2>6
      <3>2. (CHOOSE k \in PH!Ends(u, h)' : \A n \in PH!Ends(u, h)' : k <= n) = m
        BY <2>4, <2>5, <3>1, Zenon
      <3>. QED  BY <3>2, Zenon DEF PH!Probe
    <2>. QED  BY <1>11, <2>2, <2>4, <2>7
  <1>15. SlotsFound'
    <2>1. ASSUME NEW u \in Threads, NEW g \in DOMAIN tables, NEW i \in DOMAIN tables[g],
                 tables'[g][i].key = u
          PROVE  /\ given'[u] = {tables'[g][i].value}
                 /\ PH!Ends(u, g)' # {} /\ i = PH!Probe(u, g)'
      <3>1. CASE g = h /\ i = j
        <4>1. u = t
          BY <1>5, <2>1, <3>1
        <4>. QED  BY <1>4, <1>5, <1>13, <3>1, <4>1
      <3>2. CASE g = h /\ i # j
        <4>1. tables'[h][i] = tables[h][i] /\ SlotOf(u, h, i)
          BY <1>2, <1>5, <3>2 DEF HashInv, SlotsFound
        <4>2. u # t
          BY <1>0, <2>1, <3>2, <4>1 DEF SlotOf
        <4>3. given'[u] = {tables'[h][i].value}
          BY <1>4, <2>1, <3>2, <4>1, <4>2 DEF SlotOf
        <4>. QED  BY <1>14, <2>1, <3>2, <4>1, <4>2, <4>3
      <3>3. CASE g # h
        <4>1. tables'[g] = tables[g] /\ SlotOf(u, g, i)
          BY <1>5, <3>3 DEF HashInv, SlotsFound
        <4>2. given[u] = {tables'[g][i].value}
          BY <2>1, <4>1 DEF SlotOf
        <4>3. given'[u] = given[u]
          BY <1>3, <1>4, <4>2
        <4>. QED  BY <1>10, <2>1, <3>3, <4>1, <4>2, <4>3 DEF SlotOf
      <3>. QED  BY <3>1, <3>2, <3>3
    <2>2. ASSUME NEW u \in Threads, given'[u] # {}
          PROVE  \E g \in DOMAIN tables : HasSlot(u, g)'
      <3>1. CASE u = t
        BY <1>2, <1>5, <3>1 DEF HasSlot
      <3>2. CASE u # t
        <4>1. PICK g \in DOMAIN tables : \E i \in DOMAIN tables[g] : tables[g][i].key = u
          BY <1>4, <2>2, <3>2 DEF HashInv, SlotsFound, HasSlot
        <4>2. PICK i \in DOMAIN tables[g] : tables[g][i].key = u
          BY <4>1
        <4>3. ~(g = h /\ i = j)
          BY <1>2, <3>2, <4>2 DEF HashSizes
        <4>4. tables'[g][i] = tables[g][i]
          BY <1>5, <4>3
        <4>. QED  BY <1>7, <4>2, <4>4 DEF HasSlot
      <3>. QED  BY <3>1, <3>2
    <2>. QED  BY <1>5, <1>7, <2>1, <2>2 DEF SlotsFound, SlotOf
  <1>16. ProducersOwned'
    <2>1. Owned(t)' = {v} /\ v \in Owned(t) /\ Chained' = Chained
      BY <1>0, <1>1, <1>4, <1>6 DEF Owned, Making, Chained
    <2>2. ProducerOf(t)'
      BY <1>1, <1>3, <1>4, <1>6, <2>1 DEF ProducerOf, NewPcs
    <2>. QED  BY <1>1, <1>4, <1>6, <2>1, <2>2, OwnersKeep DEF HashInv
  <1>17. CountsRight'
    <2>1. ASSUME NEW u \in Threads, NEW g \in DOMAIN tables, Fits(u, g)'
          PROVE  Fits(u, g)
      <3>1. CASE Making(u)' /\ local'[u].mainHash = g
        BY <1>6, <3>1 DEF Fits, Making
      <3>2. CASE HasSlot(u, g)'
        <4>1. PICK i \in DOMAIN tables[g] : tables'[g][i].key = u
          BY <1>7, <3>2 DEF HasSlot
        <4>2. CASE g = h /\ i = j
          <5>1. u = t
            BY <1>5, <4>1, <4>2
          <5>. QED  BY <1>0, <1>1, <4>2, <5>1 DEF Fits, Making
        <4>3. CASE ~(g = h /\ i = j)
          BY <1>5, <4>1, <4>3 DEF Fits, HasSlot
        <4>. QED  BY <4>2, <4>3
      <3>. QED  BY <2>1, <3>1, <3>2 DEF Fits
    <2>2. ASSUME NEW u \in Threads, NEW n \in Nat, Early(u, n)'
          PROVE  Early(u, n)
      <3>1. local'[u].pc \in NewPcs => local'[u] = local[u]
        BY <1>6 DEF NewPcs
      <3>. QED  BY <1>5, <1>7, <2>1, <2>2, <3>1 DEF Early
    <2>3. t \in CountedIn /\ (t \in CountedIn)'
      BY <1>1, <1>4 DEF CountedIn
    <2>. QED  BY <1>1, <1>4, <1>6, <2>2, <2>3, CountsKeep DEF HashInv
  <1>. QED  BY <1>8, <1>9, <1>15, <1>16, <1>17 DEF HashInv

-----------------------------------------------------------------------------
(* The invariant holds.                                                    *)

\* In the first state the only table is empty.
LEMMA HashInit ==
    ASSUME HashSizes, PH!Init
    PROVE  HashInv
  <1>. DEFINE size == INITIAL_IMPLICIT_PRODUCER_HASH_SIZE
  <1>1. /\ tables = <<PH!Table(size)>> /\ hashCount = 0 /\ resizing = FALSE
        /\ producerList = <<>>
        /\ created = 0 /\ failures = 0 /\ local = [t \in Threads |-> PH!Idle]
        /\ given = [t \in Threads |-> {}] /\ size \in Nat \ {0}
    BY DEF PH!Init, HashSizes
  <1>2. /\ PH!Table(size) \in TableSet /\ DOMAIN PH!Table(size) = 0..size - 1
        /\ \A i \in 0..size - 1 : PH!Table(size)[i].key = NoNode
    BY <1>1, EmptyTable
  <1>. HIDE DEF size
  <1>3. /\ tables \in Seq(TableSet) /\ tables # <<>> /\ Len(tables) = 1 /\ DOMAIN tables = {1}
        /\ tables[1] = PH!Table(size)
    BY <1>1, <1>2
  <1>4. PH!Idle \in LocalSet /\ PH!Idle.mainHash = 0 /\ PH!Idle.pc = "idle"
    BY DEF PH!Idle, LocalSet
  <1>5. HashTypes
    <2>1. producerList \in Seq(1..created) /\ failures \in 0..MaxFailures
      BY <1>1 DEF HashSizes
    <2>2. local \in [Threads -> LocalSet] /\ given \in [Threads -> SUBSET (1..created)]
      <3>1. \A t \in Threads : given[t] = {} /\ local[t] = PH!Idle
        BY <1>1
      <3>2. {} \in SUBSET (1..created)
        OBVIOUS
      <3>3. given = [t \in Threads |-> given[t]] /\ local = [t \in Threads |-> local[t]]
        BY <1>1
      <3>. QED  BY <1>4, <3>1, <3>2, <3>3
    <2>3. ASSUME NEW t \in Threads
          PROVE  local[t].mainHash <= Len(tables) /\ local[t].pc = "idle"
      <3>1. local[t] = PH!Idle
        BY <1>1
      <3>2. local[t].mainHash = 0 /\ local[t].pc = "idle"
        BY <1>4, <3>1
      <3>. QED  BY <1>3, <3>2
    <2>. QED  BY <1>1, <1>3, <2>1, <2>2, <2>3 DEF HashTypes
  <1>6. TablesGrow
    <2>1. PH!Capacity(1) \in Nat
      BY <1>3, <1>5, TableFacts
    <2>. QED  BY <1>3, <2>1 DEF TablesGrow
  <1>7. \A t \in Threads : ~HasSlot(t, 1)
    BY <1>2, <1>3 DEF HasSlot, HashSizes
  <1>8. SlotsFound
    BY <1>1, <1>3, <1>7 DEF SlotsFound, SlotOf, HasSlot
  <1>9. \A t \in Threads : ~Making(t) /\ Owned(t) = {} /\ given[t] = {} /\ local[t].pc = "idle"
    BY <1>1, <1>4 DEF Owned, Making
  <1>10. ProducersOwned
    BY <1>9 DEF ProducersOwned, ProducerOf, NewPcs
  <1>11. CountedIn = {} /\ \A n \in Nat : AmongFirst(n) = {}
    BY <1>3, <1>7, <1>9 DEF CountedIn, AmongFirst, Early, Fits, NewPcs
  <1>12. CountsRight
    <2>1. Cardinality({}) = 0
      BY FS_EmptySet
    <2>2. hashCount = Cardinality(CountedIn)
      BY <1>1, <1>11, <2>1
    <2>3. ASSUME NEW n \in Nat
          PROVE  Cardinality(AmongFirst(n)) <= n
      <3>1. Cardinality(AmongFirst(n)) = 0
        BY <1>11, <2>1, Zenon
      <3>. QED  BY <3>1
    <2>. QED  BY <2>2, <2>3 DEF CountsRight
  <1>. QED  BY <1>5, <1>6, <1>8, <1>10, <1>12 DEF HashInv

\* Steps of the other mechanisms.
LEMMA HashUnchanged ==
    ASSUME HashInv, UNCHANGED hash
    PROVE  HashInv'
  <1>1. UNCHANGED <<tables, hashCount, resizing, producerList, created, failures, local, given>>
    BY DEF hash
  <1>2. TablesGrow' /\ SlotsFound'
    BY <1>1, SlotsKeep DEF HashInv
  <1>3. HashTypes' /\ ProducersOwned'
    <2>1. HashTypes'
      BY <1>1 DEF HashInv, HashTypes
    <2>2. \A t : /\ ProducerOf(t)' <=> ProducerOf(t)
                /\ Owned(t)' = Owned(t)
      BY <1>1 DEF ProducerOf, Owned, Making, Chained
    <2>. QED  BY <2>1, <2>2 DEF HashInv, ProducersOwned
  <1>4. CountsRight'
    <2>1. \A t, h : HasSlot(t, h)' = HasSlot(t, h) /\ RoomOf(h)' = RoomOf(h)
      BY <1>1, SameTable
    <2>2. \A t, n : Early(t, n)' <=> Early(t, n)
      BY <1>1, <2>1 DEF Early, Fits, Making
    <2>3. CountedIn' = CountedIn /\ \A n : AmongFirst(n)' = AmongFirst(n)
      BY <1>1, <2>2 DEF CountedIn, AmongFirst
    <2>. QED  BY <1>1, <2>3 DEF HashInv, CountsRight
  <1>. QED  BY <1>2, <1>3, <1>4 DEF HashInv

\* Every step keeps the invariant.
LEMMA HashKeeps ==
    ASSUME HashSizes, HashInv, [Next]_vars
    PROVE  HashInv'
  <1>1. CASE HashStep
    <2>1. PICK t \in Threads : PH!GetOrAdd(t)
      BY <1>1 DEF HashStep, PH!Next
    <2>. QED
      BY <2>1, SearchFindsKeeps, SearchFindsDeepKeeps, SearchFindsNothingKeeps, CountInKeeps,
         LocksKeep,
         ResizeKeeps, FailsKeeps, CreateKeeps, AddProducerKeeps, SlotKeeps
         DEF PH!GetOrAdd, PH!Search, PH!AddThread
  <1>2. CASE UNCHANGED hash
    BY <1>2, HashUnchanged
  <1>. QED  BY <1>1, <1>2 DEF Next, FreeListStep, SubQueueStep, vars

\* So it holds always.
LEMMA HashInvariant ==
    ASSUME HashSizes
    PROVE  Spec => []HashInv
  <1>1. Init => HashInv
    BY HashInit DEF Init
  <1>2. HashInv /\ [Next]_vars => HashInv'
    BY HashKeeps
  <1>. QED  BY <1>1, <1>2, PTL DEF Spec

\* No more threads come to a table than three quarters of its slots.
LEMMA RoomLeft ==
    ASSUME HashSizes, HashInv
    PROVE  PH!TablesHaveRoom
  <1>1. SUFFICES ASSUME NEW h \in DOMAIN tables,
                        \A i \in DOMAIN tables[h] : tables[h][i].key # NoNode
                 PROVE  FALSE
    BY DEF PH!TablesHaveRoom
  <1>. DEFINE C == PH!Capacity(h)
              f == [i \in 0..C - 1 |-> tables[h][i].key]
  <1>2. /\ C \in Nat \ {0} /\ DOMAIN tables[h] = 0..C - 1 /\ tables[h] \in [0..C - 1 -> SlotSet]
    BY TableFacts DEF HashInv
  <1>3. RoomOf(h) \in Nat /\ RoomOf(h) < C
    BY <1>2 DEF RoomOf
  <1>. HIDE DEF C
  <1>4. \A i \in 0..C - 1 : tables[h][i].key \in Threads
    BY <1>1, <1>2 DEF SlotSet
  <1>5. \A i \in 0..C - 1 : Early(tables[h][i].key, RoomOf(h))
    BY <1>2, <1>3, <1>4 DEF Early, Fits, HasSlot
  <1>6. f \in [0..C - 1 -> AmongFirst(RoomOf(h))]
    BY <1>4, <1>5 DEF AmongFirst
  <1>7. ASSUME NEW i \in 0..C - 1, NEW k \in 0..C - 1, f[i] = f[k]
        PROVE  i = k
    <2>1. tables[h][i].key = tables[h][k].key
      BY <1>7
    <2>2. SlotOf(tables[h][i].key, h, i) /\ SlotOf(tables[h][i].key, h, k)
      BY <1>2, <1>4 DEF HashInv, SlotsFound
    <2>. QED  BY <2>1, <2>2 DEF SlotOf
  <1>8. f \in Injection(0..C - 1, AmongFirst(RoomOf(h)))
    <2>. HIDE DEF f
    <2>. QED  BY <1>6, <1>7 DEF Injection, IsInjective
  <1>. HIDE DEF f
  <1>9. AmongFirst(RoomOf(h)) \in SUBSET Threads
    BY DEF AmongFirst
  <1>10. Cardinality(0..C - 1) <= Cardinality(AmongFirst(RoomOf(h)))
    BY <1>8, <1>9, Sets, FS_Injection
  <1>11. Cardinality(0..C - 1) = C
    <2>1. Cardinality(0..C - 1) = IF 0 > C - 1 THEN 0 ELSE (C - 1) - 0 + 1
      BY <1>2, FS_Interval
    <2>. QED  BY <1>2, <2>1
  <1>12. Cardinality(AmongFirst(RoomOf(h))) <= RoomOf(h)
         /\ Cardinality(AmongFirst(RoomOf(h))) \in Nat
    BY <1>3, <1>9, Sets DEF HashInv, CountsRight
  <1>. QED  BY <1>2, <1>3, <1>10, <1>11, <1>12

\* Threads have a producer each, which is in the list.
LEMMA OneEach ==
    ASSUME HashInv
    PROVE  PH!OneProducerPerThread
  <1>1. ASSUME NEW t \in Threads, NEW p \in given[t]
        PROVE  given[t] = {p} /\ p \in Chained
    BY DEF HashInv, ProducersOwned, ProducerOf
  <1>2. ASSUME NEW t \in Threads, NEW p \in given[t], NEW u \in Threads \ {t}
        PROVE  p \notin given[u]
    BY DEF HashInv, ProducersOwned, Owned
  <1>. QED  BY <1>1, <1>2 DEF PH!OneProducerPerThread, Chained

\* What the tables, the producers and the threads have is of its type.
LEMMA HashTypeOK ==
    ASSUME HashSizes, HashInv
    PROVE  PH!TypeOK
  <1>1. ASSUME NEW h \in DOMAIN tables, NEW i \in DOMAIN tables[h]
        PROVE  /\ tables[h][i].key \in Threads \cup {NoNode}
               /\ tables[h][i].value \in 1..created \cup {NoNode}
    <2>1. tables[h][i] \in SlotSet
      BY TableFacts DEF HashInv
    <2>2. CASE tables[h][i].key \in Threads
      <3>1. \A t \in Threads : t = tables[h][i].key =>
                  given[t] = {tables[h][i].value} /\ given[t] \subseteq 1..created
        BY StepFacts DEF HashInv, SlotsFound, SlotOf
      <3>. QED  BY <2>2, <3>1
    <2>3. CASE tables[h][i].key \notin Threads
      BY <2>1, <2>3 DEF SlotSet
    <2>. QED  BY <2>2, <2>3
  <1>2. hashCount \in 0..PH!Cardinality(Threads)
    <2>1. CountedIn \in SUBSET Threads /\ hashCount = Cardinality(CountedIn)
      BY DEF CountedIn, HashInv, CountsRight
    <2>2. Cardinality(CountedIn) <= Cardinality(Threads) /\ Cardinality(CountedIn) \in Nat
          /\ Cardinality(Threads) \in Nat
      BY <2>1, Sets, FS_Subset DEF HashSizes
    <2>3. PH!Cardinality(Threads) = Cardinality(Threads)
      BY HashCardinality
    <2>. QED  BY <2>1, <2>2, <2>3
  <1>3. /\ resizing \in BOOLEAN /\ producerList \in Seq(1..created)
        /\ failures \in 0..MaxFailures
        /\ \A t \in Threads : /\ local[t].mainHash \in 0..Len(tables)
                              /\ given[t] \subseteq 1..created
    BY LocalFacts DEF HashInv, HashTypes
  <1>. QED  BY <1>1, <1>2, <1>3 DEF PH!TypeOK

-----------------------------------------------------------------------------
(* The sub-queue of a producer.                                            *)

\* ImplicitProducerProofs has the theorems about it.
IPP == INSTANCE ImplicitProducerProofs WITH None <- NoNode

(* It speaks of the same actions and properties as IP does.                *)

\* The initial states.
LEMMA SameInit == IP!Init <=> IPP!Init
  BY DEF IP!Init, IPP!Init, IP!IdleProducer, IPP!IdleProducer, IP!IdleConsumer,
         IPP!IdleConsumer, IP!Blocks, IPP!Blocks, IP!FreshEntries, IPP!FreshEntries,
         IP!INVALID_BLOCK_BASE, IPP!INVALID_BLOCK_BASE

\* The steps of the producer.
LEMMA SameEnqueue ==
    /\ IP!Enqueue <=> IPP!Enqueue
    /\ IP!RewindBlockIndexTail <=> IPP!RewindBlockIndexTail
  BY DEF IP!Enqueue, IPP!Enqueue, IP!RewindBlockIndexTail, IPP!RewindBlockIndexTail,
         IP!EnqueueInBlock, IPP!EnqueueInBlock, IP!Store, IPP!Store, IP!EnqueueFirst,
         IPP!EnqueueFirst, IP!FindEntry, IPP!FindEntry, IP!NewBlockIndex, IPP!NewBlockIndex,
         IP!Doubled, IPP!Doubled, IP!StoreKey, IPP!StoreKey, IP!StoreTail, IPP!StoreTail,
         IP!StoreValue, IPP!StoreValue, IP!RequisitionBlock, IPP!RequisitionBlock, IP!Slot,
         IPP!Slot, IP!Base, IPP!Base, IP!EntryAt, IPP!EntryAt, IP!Capacity, IPP!Capacity,
         IP!blockIndex, IPP!blockIndex, IP!NextTail, IPP!NextTail, IP!IsFree, IPP!IsFree,
         IP!INVALID_BLOCK_BASE, IPP!INVALID_BLOCK_BASE, IP!NewEntry, IPP!NewEntry,
         IP!Blocks, IPP!Blocks, IP!IdleProducer, IPP!IdleProducer, IP!FreshEntries,
         IPP!FreshEntries, IP!counters, IPP!counters, IP!index, IPP!index, IP!storage,
         IPP!storage, IP!pool, IPP!pool, IP!Cardinality, IPP!Cardinality, IP!Pool!Acquire,
         IPP!Pool!Acquire

\* The steps of a consumer.
LEMMA SameDequeue ==
    ASSUME NEW c
    PROVE  IP!Dequeue(c) <=> IPP!Dequeue(c)
  BY DEF IP!Dequeue, IPP!Dequeue, IP!Goes, IPP!Goes, IP!LoadTail, IPP!LoadTail,
         IP!LoadOvercommit, IPP!LoadOvercommit, IP!LooksEmpty, IPP!LooksEmpty,
         IP!LooksNonEmpty, IPP!LooksNonEmpty, IP!CountIn, IPP!CountIn, IP!MayTake,
         IPP!MayTake, IP!Decide, IPP!Decide, IP!Miss, IPP!Miss, IP!Take, IPP!Take,
         IP!LoadHeader, IPP!LoadHeader, IP!EntryOf, IPP!EntryOf, IP!LoadKey, IPP!LoadKey,
         IP!LoadValue, IPP!LoadValue, IP!SetEmpty, IPP!SetEmpty, IP!ClearEntry,
         IPP!ClearEntry, IP!AddBlockToFreeList, IPP!AddBlockToFreeList, IP!Slot, IPP!Slot,
         IP!Base, IPP!Base, IP!EntryAt, IPP!EntryAt, IP!Capacity, IPP!Capacity,
         IP!blockIndex, IPP!blockIndex, IP!IdleConsumer, IPP!IdleConsumer, IP!counters,
         IPP!counters, IP!index, IPP!index, IP!storage, IPP!storage, IP!pool, IPP!pool,
         IP!Cardinality, IPP!Cardinality, IP!Pool!Release, IPP!Pool!Release

\* The types.
LEMMA SameTypes == IP!TypeOK <=> IPP!TypeOK
  BY DEF IP!TypeOK, IPP!TypeOK, IP!ProducerPcs, IPP!ProducerPcs, IP!ConsumerPcs,
         IPP!ConsumerPcs, IP!EntryAt, IPP!EntryAt, IP!Blocks, IPP!Blocks

\* The counters of dequeue, and the elements that it takes.
LEMMA SameCounts ==
    /\ IP!CountsAgree <=> IPP!CountsAgree
    /\ IP!NeverOvertakes <=> IPP!NeverOvertakes
  BY DEF IP!CountsAgree, IPP!CountsAgree, IP!NeverOvertakes, IPP!NeverOvertakes,
         IP!Cardinality, IPP!Cardinality

\* Every behaviour is one of a sub-queue.
LEMMA SubQueueSteps == Spec => IPP!Spec
  <1>1. Init => IPP!Init
    BY SameInit DEF Init
  <1>2. ASSUME [Next]_vars  PROVE [IPP!Next]_(IPP!vars)
    <2>1. CASE UNCHANGED subQueue
      BY <2>1 DEF subQueue, IPP!vars, IPP!counters, IPP!index, IPP!storage, IPP!pool
    <2>2. CASE IP!Next
      BY <2>2, SameEnqueue, SameDequeue DEF IP!Next, IPP!Next
    <2>. QED  BY <1>2, <2>1, <2>2 DEF Next, FreeListStep, SubQueueStep, HashStep, vars
  <1>. QED  BY <1>1, <1>2, PTL DEF Spec, IPP!Spec

\* The sizes are what its theorems ask for.
LEMMA SubQueueSizesFit ==
    ASSUME SubQueueSizes
    PROVE  IPP!Sizes /\ IPP!IsFiniteSet(Consumers)
  <1>1. IPP!IsFiniteSet(Consumers) <=> IsFiniteSet(Consumers)
    BY Zenon DEF IPP!IsFiniteSet, IsFiniteSet
  <1>. QED  BY <1>1 DEF SubQueueSizes, IPP!Sizes

-----------------------------------------------------------------------------
(* The properties, for any number of threads, blocks, consumers and elements. *)

\* The list is a BlockPool: whatever happens to the head while a thread reads
\* it, counts its reference, reads the next and exchanges the head, the node it
\* pops is one that nobody has popped and not given back
\* (concurrentqueue.h:1389-1426).
THEOREM FreeListIsAPool ==
    ASSUME ListBounds
    PROVE  Spec => RefinesPool
  <1>1. ASSUME Init PROVE FL!Pool!Init
    <2>1. \A n \in Nodes : n \in used /\ FL!Takers(n) = {}
      BY <1>1 DEF Init, FL!Init, FL!Takers
    <2>2. \A n \in Nodes : FL!Cardinality(FL!Takers(n)) = 0
      BY <2>1, FS_EmptySet, ListCardinality
    <2>. QED  BY <2>1, <2>2 DEF FL!Pool!Init
  <1>2. ASSUME ListBounds, ListInv, ListInv', [Next]_vars
        PROVE  [FL!Pool!Next]_[n \in Nodes |->
                   FL!Cardinality(FL!Takers(n)) + IF n \in used THEN 1 ELSE 0]
    <2>1. CASE UNCHANGED freeList
      <3>1. UNCHANGED <<used, pc, head>>
        BY <2>1 DEF freeList
      <3>2. \A n : FL!Takers(n)' = FL!Takers(n)
        BY <3>1 DEF FL!Takers
      <3>. QED  BY <3>1, <3>2, PoolStutters
    <2>2. ASSUME NEW t \in Threads, FL!Push(t) \/ FL!TryGet(t)
          PROVE  \/ FL!Pool!Next
                 \/ UNCHANGED [n \in Nodes |->
                        FL!Cardinality(FL!Takers(n)) + IF n \in used THEN 1 ELSE 0]
      BY <1>2, <2>2, QuietStep, PopAcquires, TakeStutters DEF FL!TryGet, ListInv
    <2>3. ASSUME NEW t \in Threads, NEW n \in Nodes, FL!Add(t, n) PROVE FL!Pool!Next
      BY <1>2, <2>3, AddReleases
    <2>. QED
      BY <1>2, <2>1, <2>2, <2>3 DEF Next, FreeListStep, SubQueueStep, HashStep, FL!Next, vars
  <1>. QED  BY <1>1, <1>2, ListInvariant, PTL DEF Spec, RefinesPool, FL!RefinesPool, FL!Pool!Spec

\* The sub-queue of a producer is a ProducerFifo: elements leave in the order in which
\* they were put in, each of them once and to one consumer
\* (concurrentqueue.h:2410-2542, 2816-2918).
THEOREM SubQueueIsAFifo ==
    ASSUME SubQueueSizes
    PROVE  Spec => RefinesFifo
  <1>1. IPP!Spec => IPP!RefinesFifo
    BY SubQueueSizesFit, IPP!ImplementsFifo
  <1>2. IPP!Fifo!Init => IP!Fifo!Init
    BY DEF IP!Fifo!Init, IPP!Fifo!Init, IP!TakenBy, IPP!TakenBy, IP!Content, IPP!Content,
           IP!Base, IPP!Base, IP!Slot, IPP!Slot
  <1>3. [IPP!Fifo!Next]_(IPP!Fifo!fifoVars) => [IP!Fifo!Next]_(IP!Fifo!fifoVars)
    BY DEF IP!Fifo!Next, IPP!Fifo!Next, IP!Fifo!fifoVars, IPP!Fifo!fifoVars, IP!Fifo!Enqueue,
           IPP!Fifo!Enqueue, IP!Fifo!Take, IPP!Fifo!Take, IP!Fifo!Return, IPP!Fifo!Return,
           IP!TakenBy, IPP!TakenBy, IP!Content, IPP!Content, IP!Base, IPP!Base, IP!Slot,
           IPP!Slot
  <1>. QED
    BY SubQueueSteps, <1>1, <1>2, <1>3, PTL
       DEF RefinesFifo, IP!RefinesFifo, IPP!RefinesFifo, IP!Fifo!Spec, IPP!Fifo!Spec

\* A thread has one sub-queue, of its own, that try_dequeue finds, and no table fills
\* up, for any number of threads, whatever they hash to
\* (concurrentqueue.h:3294-3433).
THEOREM ProducersAreFound ==
    ASSUME HashSizes
    PROVE  Spec => []ProducersFound
  <1>1. HashInv => ProducersFound
    BY OneEach, RoomLeft DEF ProducersFound
  <1>. QED  BY <1>1, HashInvariant, PTL

\* No free block is lost or in two places, no consumer that came for nothing is lost to
\* the counters of dequeue, and none takes an element that is not there
\* (concurrentqueue.h:1389-1451, 2476-2489, 2534).
THEOREM NothingIsLost ==
    ASSUME ListBounds, IsFiniteSet(Nodes), SubQueueSizes
    PROVE  Spec => []NothingLost
  <1>1. ListInv => FL!NoneLost
    BY NoBlockLost
  <1>2. IPP!Spec => []IPP!CountsAgree
    BY SubQueueSizesFit, IPP!CountsStayRight
  <1>3. IPP!Spec => []IPP!NeverOvertakes
    BY SubQueueSizesFit, IPP!NoneOvertakes
  <1>4. FL!NoneLost /\ IPP!CountsAgree /\ IPP!NeverOvertakes => NothingLost
    BY SameCounts DEF NothingLost
  <1>. QED  BY <1>1, <1>2, <1>3, <1>4, ListInvariant, SubQueueSteps, PTL

\* Every variable keeps to its type: the count of a block stays below its top bit, every
\* index points to entries that there are and every entry to a block in use, and a
\* thread's slot has a producer that was made for it
\* (concurrentqueue.h:1447-1449, 2816-2918, 3294-3433).
THEOREM TypesRight ==
    ASSUME ListBounds, SubQueueSizes, HashSizes
    PROVE  Spec => []TypeOK
  <1>. DEFINE OnePart == part \in {"free list", "sub-queue", "hash"}
  <1>1. Init => OnePart
    BY DEF Init
  <1>2. OnePart /\ [Next]_vars => OnePart'
    BY DEF Next, FreeListStep, SubQueueStep, HashStep, vars
  <1>3. IPP!Spec => []IPP!TypeOK
    BY SubQueueSizesFit, IPP!TypeCorrect DEF SubQueueSizes
  <1>4. OnePart /\ ListInv /\ HashInv /\ IPP!TypeOK => TypeOK
    BY ListTypeOK, HashTypeOK, SameTypes DEF TypeOK
  <1>. QED
    BY <1>1, <1>2, <1>3, <1>4, ListInvariant, HashInvariant, SubQueueSteps, PTL DEF Spec
=============================================================================

----------------------- MODULE ImplicitProducerProofs -----------------------
(***************************************************************************)
(* The sub-queue of a producer proved right for any number of consumers:   *)
(* first the counters of dequeue, so that no consumer ever takes an        *)
(* element that is not there, then the elements, the blocks and the index  *)
(* of blocks, so that the sub-queue implements a ProducerFifo.             *)
(*                                                                         *)
(* A consumer that has counted itself in as number k, after it had read    *)
(* that n others came for nothing, goes on to the element if k - n is less *)
(* than the tail.  Those that came for nothing have smaller numbers, so at *)
(* most k - n consumers before it are granted an element or may still be.  *)
(* What bounds them all is the consumer with the greatest number that was  *)
(* granted one: it is gone, and the invariant says that there is such a    *)
(* number, Bound.                                                          *)
(*                                                                         *)
(* An element is unread as long as the head has not come to it or the      *)
(* consumer that took it has not read it.  An unread element is in the     *)
(* block of an entry with its base for a key, every entry is in the newest *)
(* index, and so are the numbers of the blocks in the order of the ring:   *)
(* from whatever entry that has had a block, the difference of the keys is *)
(* the way to another one, in the newest index and in any older one.  A    *)
(* block keeps its entry until as many consumers have told it that their   *)
(* element is gone as it has slots.                                        *)
(***************************************************************************)
EXTENDS ImplicitProducer, FiniteSetTheorems, TLAPS

At(pcs) == {c \in Consumers : consumer[c].pc \in pcs}

Granted == headIndex + Cardinality(At({"take"}))

\* The consumers before number k that have not compared their number yet.
Before(k) == {d \in At({"tail"}) : consumer[d].count < k}

CountersOK ==
    /\ tailIndex \in Nat /\ headIndex \in Nat
    /\ dequeueOptimisticCount \in Nat /\ dequeueOvercommit \in Nat
    /\ consumer = [c \in Consumers |-> consumer[c]]
    /\ \A c \in Consumers : {"pc", "overcommit", "count"} \subseteq DOMAIN consumer[c]

NumbersOK ==
    /\ \A c \in At({"test", "count", "tail"}) :
          consumer[c].overcommit \in 0..dequeueOvercommit
    /\ \A c \in At({"tail"}) :
          /\ consumer[c].count \in 0..dequeueOptimisticCount - 1
          /\ \A d \in At({"tail"}) : consumer[c].count = consumer[d].count => c = d

IsBound(k) ==
    /\ k < dequeueOptimisticCount
    /\ Granted + Cardinality(Before(k)) <= tailIndex
    /\ \A c \in At({"tail"}), j \in Int :
          j = consumer[c].count =>
              /\ j # k
              /\ j > k => Granted + Cardinality(Before(j)) <= j - consumer[c].overcommit

HasBound == \E k \in Int : IsBound(k)

IInv == CountersOK /\ NumbersOK /\ CountsAgree /\ HasBound

-----------------------------------------------------------------------------
(* Counting consumers.                                                     *)

\* There are finitely many in whatever set of states.
LEMMA SomeConsumers ==
    ASSUME IsFiniteSet(Consumers), NEW S \in SUBSET Consumers
    PROVE  IsFiniteSet(S) /\ Cardinality(S) \in Nat
  BY FS_Subset, FS_CardinalityType

\* Two sets of consumers that have none in common.
LEMMA DisjointSets ==
    ASSUME IsFiniteSet(Consumers),
           NEW S \in SUBSET Consumers, NEW T \in SUBSET Consumers, S \cap T = {}
    PROVE  Cardinality(S \cup T) = Cardinality(S) + Cardinality(T)
  <1>1. /\ IsFiniteSet(S) /\ Cardinality(S) \in Nat
        /\ IsFiniteSet(T) /\ Cardinality(T) \in Nat
    BY SomeConsumers
  <1>2. Cardinality(S \cup T) = Cardinality(S) + Cardinality(T) - Cardinality(S \cap T)
    BY <1>1, FS_Union
  <1>3. Cardinality(S \cap T) = 0
    BY FS_EmptySet
  <1>. QED  BY <1>1, <1>2, <1>3

\* The consumers that have counted themselves in, by what they do next.
LEMMA CountedIn ==
    ASSUME IsFiniteSet(Consumers)
    PROVE  Cardinality(At({"tail", "take", "miss"}))
               = Cardinality(At({"tail"})) + Cardinality(At({"take"}))
                 + Cardinality(At({"miss"}))
  <1>1. /\ At({"tail"}) \in SUBSET Consumers /\ At({"take"}) \in SUBSET Consumers
        /\ At({"miss"}) \in SUBSET Consumers /\ At({"tail", "take"}) \in SUBSET Consumers
    BY DEF At
  <1>2. /\ At({"tail", "take"}) = At({"tail"}) \cup At({"take"})
        /\ At({"tail"}) \cap At({"take"}) = {}
    BY DEF At
  <1>3. /\ At({"tail", "take", "miss"}) = At({"tail", "take"}) \cup At({"miss"})
        /\ At({"tail", "take"}) \cap At({"miss"}) = {}
    BY DEF At
  <1>4. Cardinality(At({"tail"}) \cup At({"take"}))
            = Cardinality(At({"tail"})) + Cardinality(At({"take"}))
    BY <1>1, <1>2, DisjointSets
  <1>5. Cardinality(At({"tail", "take"}) \cup At({"miss"}))
            = Cardinality(At({"tail", "take"})) + Cardinality(At({"miss"}))
    BY <1>1, <1>3, DisjointSets
  <1>. QED  BY <1>2, <1>3, <1>4, <1>5

\* A consumer more.
LEMMA OneMore ==
    ASSUME IsFiniteSet(Consumers), NEW S \in SUBSET Consumers, NEW c, c \notin S
    PROVE  Cardinality(S \cup {c}) = Cardinality(S) + 1
  BY SomeConsumers, FS_AddElement

\* A consumer less.
LEMMA OneLess ==
    ASSUME IsFiniteSet(Consumers), NEW S \in SUBSET Consumers, NEW c \in S
    PROVE  Cardinality(S \ {c}) = Cardinality(S) - 1
  BY SomeConsumers, FS_RemoveElement

-----------------------------------------------------------------------------
(* The steps.                                                              *)

Fields == {"pc", "overcommit", "count"}

\* A step of one consumer leaves the others where they are.
LEMMA OneMoves ==
    ASSUME CountersOK, NEW c \in Consumers, NEW from, NEW new, Goes(c, from, new),
           Fields \subseteq DOMAIN new
    PROVE  /\ consumer[c].pc = from
           /\ consumer'[c] = new
           /\ \A d \in Consumers \ {c} : consumer'[d] = consumer[d]
           /\ consumer' = [d \in Consumers |-> consumer'[d]]
           /\ \A d \in Consumers : Fields \subseteq DOMAIN consumer'[d]
  BY DEF CountersOK, Goes, Fields

\* All that is counted is a number.
LEMMA NumbersOfConsumers ==
    ASSUME IsFiniteSet(Consumers), CountersOK
    PROVE  /\ Granted \in Nat
           /\ \A pcs : Cardinality(At(pcs)) \in Nat
           /\ \A k : Cardinality(Before(k)) \in Nat
  <1>1. \A pcs : At(pcs) \in SUBSET Consumers
    BY DEF At
  <1>2. \A k : Before(k) \in SUBSET Consumers
    BY DEF At, Before
  <1>3. /\ \A pcs : Cardinality(At(pcs)) \in Nat
        /\ \A k : Cardinality(Before(k)) \in Nat
    BY <1>1, <1>2, SomeConsumers
  <1>. QED  BY <1>3 DEF Granted, CountersOK

\* Steps of the producer: at most, there is an element more.
LEMMA ProducerStep ==
    ASSUME IsFiniteSet(Consumers), IInv, tailIndex' \in {tailIndex, tailIndex + 1},
           UNCHANGED <<headIndex, dequeueOptimisticCount, dequeueOvercommit, consumer>>
    PROVE  IInv'
  <1>1. tailIndex' \in Nat /\ tailIndex <= tailIndex' /\ CountersOK'
    BY DEF IInv, CountersOK
  <1>2. NumbersOK' /\ CountsAgree'
    BY DEF IInv, NumbersOK, CountsAgree, At
  <1>3. PICK k \in Int : IsBound(k)
    BY DEF IInv, HasBound
  <1>4. Granted' = Granted /\ At({"tail"})' = At({"tail"}) /\ \A j : Before(j)' = Before(j)
    BY DEF Granted, At, Before
  <1>5. Granted + Cardinality(Before(k)) <= tailIndex'
    <2>1. Granted \in Nat /\ Cardinality(Before(k)) \in Nat /\ tailIndex \in Nat
      BY NumbersOfConsumers DEF IInv, CountersOK
    <2>2. Granted + Cardinality(Before(k)) <= tailIndex
      BY <1>3 DEF IsBound
    <2>. QED  BY <1>1, <2>1, <2>2
  <1>6. IsBound(k)'
    BY <1>3, <1>4, <1>5 DEF IsBound
  <1>. QED  BY <1>1, <1>2, <1>6 DEF IInv, HasBound

\* Steps of a consumer that is not between its count and the element.
LEMMA QuietStep ==
    ASSUME IInv, NEW c \in Consumers, NEW from, NEW new, Goes(c, from, new),
           Fields \subseteq DOMAIN new,
           from \notin {"tail", "take", "miss"}, new.pc \notin {"tail", "take", "miss"},
           new.pc \in {"test", "count"} => new.overcommit \in 0..dequeueOvercommit,
           UNCHANGED counters
    PROVE  IInv'
  <1>1. /\ consumer[c].pc = from
        /\ consumer'[c] = new
        /\ \A d \in Consumers \ {c} : consumer'[d] = consumer[d]
        /\ consumer' = [d \in Consumers |-> consumer'[d]]
        /\ \A d \in Consumers : Fields \subseteq DOMAIN consumer'[d]
    BY OneMoves DEF IInv
  <1>2. UNCHANGED <<tailIndex, headIndex, dequeueOptimisticCount, dequeueOvercommit>>
    BY DEF counters
  <1>3. /\ At({"tail"})' = At({"tail"})
        /\ At({"take"})' = At({"take"})
        /\ At({"tail", "take", "miss"})' = At({"tail", "take", "miss"})
        /\ At({"test", "count", "tail"})' \ {c} = At({"test", "count", "tail"}) \ {c}
    BY <1>1 DEF At
  <1>4. \A d \in At({"tail"}) : consumer'[d] = consumer[d]
    BY <1>1 DEF At
  <1>5. Granted' = Granted /\ \A j : Before(j)' = Before(j)
    BY <1>2, <1>3, <1>4 DEF Granted, Before
  <1>6. CountersOK'
    BY <1>1, <1>2 DEF IInv, CountersOK, Fields
  <1>7. NumbersOK'
    <2>1. \A d \in At({"test", "count", "tail"})' :
             consumer'[d].overcommit \in 0..dequeueOvercommit
      BY <1>1, <1>3 DEF IInv, NumbersOK, At
    <2>2. \A d \in At({"tail"}) :
             /\ consumer'[d].count \in 0..dequeueOptimisticCount - 1
             /\ \A e \in At({"tail"}) : consumer'[d].count = consumer'[e].count => d = e
      BY <1>4 DEF IInv, NumbersOK
    <2>. QED  BY <1>2, <1>3, <2>1, <2>2 DEF NumbersOK
  <1>8. CountsAgree'
    BY <1>2, <1>3 DEF IInv, CountsAgree, At
  <1>9. PICK k \in Int : IsBound(k)
    BY DEF IInv, HasBound
  <1>10. IsBound(k)'
    BY <1>2, <1>3, <1>4, <1>5, <1>9 DEF IsBound
  <1>. QED  BY <1>6, <1>7, <1>8, <1>10 DEF IInv, HasBound

\* A consumer counts itself in: its number is greater than all others, and not less
\* than all that may still be granted and what it knows to be in vain.
LEMMA CountInStep ==
    ASSUME IsFiniteSet(Consumers), IInv, NEW c \in Consumers, CountIn(c)
    PROVE  IInv'
  <1>. DEFINE new == [consumer[c] EXCEPT !.pc = "tail", !.count = dequeueOptimisticCount]
  <1>0. CountersOK /\ NumbersOK /\ CountsAgree
    BY DEF IInv
  <1>. PICK m \in Nat : m = dequeueOptimisticCount
    BY <1>0 DEF CountersOK
  <1>1. Fields \subseteq DOMAIN new
    BY <1>0 DEF CountersOK, Fields
  <1>2. /\ consumer[c].pc = "count"
        /\ consumer'[c] = new
        /\ \A d \in Consumers \ {c} : consumer'[d] = consumer[d]
        /\ consumer' = [d \in Consumers |-> consumer'[d]]
        /\ \A d \in Consumers : Fields \subseteq DOMAIN consumer'[d]
    <2>1. Goes(c, "count", new)
      BY DEF CountIn
    <2>. HIDE DEF new
    <2>. QED  BY <1>0, <1>1, <2>1, OneMoves
  <1>3. /\ consumer'[c].pc = "tail"
        /\ consumer'[c].count = m
        /\ consumer'[c].overcommit = consumer[c].overcommit
    BY <1>0, <1>2 DEF CountersOK
  <1>. HIDE DEF new
  <1>4. /\ UNCHANGED <<tailIndex, headIndex, dequeueOvercommit>>
        /\ dequeueOptimisticCount' = m + 1
        /\ m \in Nat /\ dequeueOvercommit \in Nat /\ headIndex \in Nat
    BY <1>0 DEF CountIn, CountersOK
  <1>5. /\ c \notin At({"tail"}) /\ At({"tail"})' = At({"tail"}) \cup {c}
        /\ At({"take"})' = At({"take"})
        /\ c \notin At({"tail", "take", "miss"})
        /\ At({"tail", "take", "miss"})' = At({"tail", "take", "miss"}) \cup {c}
        /\ At({"test", "count", "tail"})' = At({"test", "count", "tail"})
        /\ c \in At({"test", "count", "tail"})
    BY <1>2, <1>3 DEF At
  <1>6. \A d \in At({"tail"}) : d # c /\ consumer'[d] = consumer[d]
    BY <1>2, <1>5 DEF At
  <1>7. CountersOK'
    BY <1>0, <1>2, <1>4 DEF CountersOK, Fields
  <1>8. NumbersOK'
    <2>1. \A d \in At({"test", "count", "tail"}) :
             consumer'[d].overcommit \in 0..dequeueOvercommit
      BY <1>0, <1>2, <1>3 DEF NumbersOK, At
    <2>2. \A d \in At({"tail"}) : consumer'[d].count \in 0..m - 1
      BY <1>0, <1>6 DEF NumbersOK
    <2>3. \A d \in At({"tail"})' : consumer'[d].count \in 0..m
      BY <1>3, <1>4, <1>5, <2>2
    <2>4. \A d, e \in At({"tail"})' : consumer'[d].count = consumer'[e].count => d = e
      <3>1. \A d, e \in At({"tail"}) : consumer'[d].count = consumer'[e].count => d = e
        BY <1>0, <1>6 DEF NumbersOK
      <3>2. \A d \in At({"tail"}) : consumer'[d].count # consumer'[c].count
        BY <1>3, <1>4, <2>2
      <3>. QED  BY <1>5, <3>1, <3>2
    <2>. QED  BY <1>4, <1>5, <2>1, <2>3, <2>4 DEF NumbersOK
  <1>9. Cardinality(At({"tail", "take", "miss"}) \cup {c})
            = Cardinality(At({"tail", "take", "miss"})) + 1
    <2>1. At({"tail", "take", "miss"}) \in SUBSET Consumers
      BY DEF At
    <2>. QED  BY <1>5, <2>1, OneMore
  <1>10. CountsAgree'
    <2>1. m - dequeueOvercommit = headIndex + Cardinality(At({"tail", "take", "miss"}))
      BY <1>0 DEF CountsAgree, At
    <2>2. Cardinality(At({"tail", "take", "miss"})) \in Nat
      BY <1>0, NumbersOfConsumers
    <2>3. Cardinality(At({"tail", "take", "miss"}))'
              = Cardinality(At({"tail", "take", "miss"})) + 1
      BY <1>5, <1>9
    <2>4. (m + 1) - dequeueOvercommit
              = headIndex + Cardinality(At({"tail", "take", "miss"}))'
      <3>. DEFINE n == Cardinality(At({"tail", "take", "miss"}))
      <3>0. n \in Nat /\ m - dequeueOvercommit = headIndex + n
        BY <2>1, <2>2
      <3>1. (m + 1) - dequeueOvercommit = headIndex + (n + 1)
        <4>. HIDE DEF n
        <4>. QED  BY <1>4, <3>0
      <3>. QED  BY <2>3, <3>1
    <2>5. dequeueOptimisticCount' - dequeueOvercommit'
              = headIndex' + Cardinality(At({"tail", "take", "miss"}))'
      BY <1>4, <2>4
    <2>. QED  BY <2>5 DEF CountsAgree, At
  <1>11. PICK k \in Int : IsBound(k)
    BY DEF IInv, HasBound
  <1>12. Granted' = Granted
    BY <1>4, <1>5 DEF Granted
  <1>13. \A j \in Int : j <= m => Before(j)' = Before(j)
    BY <1>3, <1>4, <1>5, <1>6 DEF Before
  <1>14. Granted + Cardinality(Before(m)) <= m - consumer[c].overcommit
    <2>1. m - dequeueOvercommit = headIndex + Cardinality(At({"tail", "take", "miss"}))
      BY <1>0 DEF CountsAgree, At
    <2>2. Before(m) = At({"tail"})
      BY <1>0, <1>4 DEF Before, NumbersOK
    <2>3. /\ Cardinality(At({"tail"})) \in Nat /\ Cardinality(At({"take"})) \in Nat
          /\ Cardinality(At({"miss"})) \in Nat
      BY <1>0, NumbersOfConsumers
    <2>4. consumer[c].overcommit \in 0..dequeueOvercommit
      BY <1>0, <1>5 DEF NumbersOK
    <2>. QED  BY <1>4, <2>1, <2>2, <2>3, <2>4, CountedIn DEF Granted
  <1>15. IsBound(k)'
    <2>1. k < m /\ Granted + Cardinality(Before(k)) <= tailIndex
      BY <1>11 DEF IsBound
    <2>2. k < (m + 1) /\ k <= m
      BY <1>4, <2>1
    <2>3. ASSUME NEW d \in At({"tail"}), NEW j \in Int, j = consumer[d].count
          PROVE  /\ j # k
                 /\ j > k => Granted + Cardinality(Before(j)') <= j - consumer[d].overcommit
      <3>1. j \in 0..m - 1
        BY <1>0, <2>3 DEF NumbersOK
      <3>2. Before(j)' = Before(j)
        BY <1>4, <1>13, <3>1
      <3>. QED  BY <1>11, <2>3, <3>2 DEF IsBound
    <2>4. Before(k)' = Before(k) /\ Before(m)' = Before(m)
      <3>1. k \in Int /\ m \in Int /\ k <= m /\ m <= m
        BY <1>4, <1>11, <2>2
      <3>. QED  BY <1>13, <3>1
    <2>5. ASSUME NEW d \in At({"tail"})', NEW j \in Int, j = consumer'[d].count
          PROVE  /\ j # k
                 /\ j > k => Granted + Cardinality(Before(j)') <= j - consumer'[d].overcommit
      <3>1. CASE d = c
        BY <1>3, <1>14, <2>1, <2>4, <2>5, <3>1
      <3>2. CASE d \in At({"tail"})
        BY <1>6, <2>3, <2>5, <3>2
      <3>. QED  BY <1>5, <3>1, <3>2
    <2>. QED  BY <1>4, <1>12, <2>1, <2>2, <2>4, <2>5 DEF IsBound
  <1>. QED  BY <1>7, <1>8, <1>10, <1>15 DEF IInv, HasBound

\* A consumer compares its number with the tail.  When it is granted an element, it
\* is the new bound, unless its number is less than the bound's: then it is one less
\* before the bound.
LEMMA DecideStep ==
    ASSUME IsFiniteSet(Consumers), IInv, NEW c \in Consumers, Decide(c)
    PROVE  IInv'
  <1>. DEFINE next == IF MayTake(c) THEN "take" ELSE "miss"
              new == [IdleConsumer EXCEPT !.pc = next]
  <1>0. CountersOK /\ NumbersOK /\ CountsAgree
    BY DEF IInv
  <1>1. Fields \subseteq DOMAIN new /\ new.pc = next
    BY DEF Fields, IdleConsumer
  <1>2. /\ consumer[c].pc = "tail"
        /\ consumer'[c] = new
        /\ \A d \in Consumers \ {c} : consumer'[d] = consumer[d]
        /\ consumer' = [d \in Consumers |-> consumer'[d]]
        /\ \A d \in Consumers : Fields \subseteq DOMAIN consumer'[d]
    <2>1. Goes(c, "tail", new)
      BY DEF Decide
    <2>. HIDE DEF new
    <2>. QED  BY <1>0, <1>1, <2>1, OneMoves
  <1>3. /\ consumer'[c].pc \in {"take", "miss"}
        /\ consumer'[c].pc = "take" <=> MayTake(c)
    BY <1>1, <1>2
  <1>. HIDE DEF new, next
  <1>4. UNCHANGED <<tailIndex, headIndex, dequeueOptimisticCount, dequeueOvercommit>>
    BY DEF Decide, counters
  <1>5. /\ c \in At({"tail"}) /\ At({"tail"})' = At({"tail"}) \ {c}
        /\ At({"tail", "take", "miss"})' = At({"tail", "take", "miss"})
        /\ At({"test", "count", "tail"})' = At({"test", "count", "tail"}) \ {c}
        /\ c \notin At({"take"})
        /\ MayTake(c) => At({"take"})' = At({"take"}) \cup {c}
        /\ ~MayTake(c) => At({"take"})' = At({"take"})
    BY <1>2, <1>3 DEF At
  <1>6. \A d \in At({"tail"}) \ {c} : consumer'[d] = consumer[d]
    BY <1>2 DEF At
  <1>7. CountersOK'
    BY <1>0, <1>2, <1>4 DEF CountersOK, Fields
  <1>8. NumbersOK'
    <2>1. \A d \in At({"test", "count", "tail"})' :
             consumer'[d].overcommit \in 0..dequeueOvercommit
      BY <1>0, <1>2, <1>5 DEF NumbersOK, At
    <2>2. \A d \in At({"tail"})' :
             /\ consumer'[d].count \in 0..dequeueOptimisticCount - 1
             /\ \A e \in At({"tail"})' : consumer'[d].count = consumer'[e].count => d = e
      BY <1>0, <1>5, <1>6 DEF NumbersOK
    <2>. QED  BY <1>4, <2>1, <2>2 DEF NumbersOK
  <1>9. CountsAgree'
    BY <1>0, <1>4, <1>5 DEF CountsAgree, At
  <1>10. PICK m \in Nat : m = consumer[c].count /\ m < dequeueOptimisticCount
    BY <1>0, <1>5 DEF NumbersOK, CountersOK
  <1>11. PICK k \in Int : IsBound(k)
    BY DEF IInv, HasBound
  <1>12. \A j \in Int : j <= m => Before(j)' = Before(j)
    BY <1>5, <1>6, <1>10 DEF Before
  <1>13. \A j \in Int : m < j => c \in Before(j) /\ Before(j)' = Before(j) \ {c}
    BY <1>5, <1>6, <1>10 DEF Before
  <1>14. \A j \in Int : m < j => Cardinality(Before(j)') = Cardinality(Before(j)) - 1
    <2>1. \A j : Before(j) \in SUBSET Consumers
      BY DEF Before, At
    <2>. QED  BY <1>13, <2>1, OneLess
  <1>15. /\ Granted \in Nat /\ tailIndex \in Nat
         /\ \A j \in Int : Cardinality(Before(j)) \in Nat
    BY <1>0, NumbersOfConsumers DEF CountersOK
  <1>16. \A d \in At({"tail"}) \ {c} :
             /\ consumer[d].count \in Int /\ consumer[d].count # m
             /\ consumer[d].overcommit \in Int
    BY <1>0, <1>5, <1>10 DEF NumbersOK, CountersOK, At
  <1>17. CASE MayTake(c)
    <2>1. Granted' = Granted + 1
      <3>1. At({"take"}) \in SUBSET Consumers
        BY DEF At
      <3>2. Cardinality(At({"take"}) \cup {c}) = Cardinality(At({"take"})) + 1
        BY <1>5, <3>1, OneMore
      <3>3. Cardinality(At({"take"})) \in Nat /\ headIndex \in Nat
        BY <1>0, NumbersOfConsumers DEF CountersOK
      <3>4. Granted' = headIndex + Cardinality(At({"take"}) \cup {c})
        BY <1>4, <1>5, <1>17 DEF Granted
      <3>. QED  BY <3>2, <3>3, <3>4 DEF Granted
    <2>2. ASSUME NEW b \in Int, k <= b, m <= b,
                 NEW d \in At({"tail"})', NEW j \in Int, j = consumer'[d].count, b < j
          PROVE  Granted' + Cardinality(Before(j)') <= j - consumer'[d].overcommit
      <3>1. d \in At({"tail"}) \ {c} /\ consumer'[d] = consumer[d] /\ k < j /\ m < j
        BY <1>5, <1>6, <2>2
      <3>2. Granted + Cardinality(Before(j)) <= j - consumer[d].overcommit
        BY <1>11, <2>2, <3>1 DEF IsBound
      <3>3. Cardinality(Before(j)') = Cardinality(Before(j)) - 1
        BY <1>14, <3>1
      <3>4. Granted' + Cardinality(Before(j)') = Granted + Cardinality(Before(j))
        BY <1>15, <2>1, <3>3
      <3>. QED  BY <3>1, <3>2, <3>4
    <2>3. CASE k < m
      <3>1. Granted + Cardinality(Before(m)) <= m - consumer[c].overcommit
        BY <1>5, <1>10, <1>11, <2>3 DEF IsBound
      <3>2. m - consumer[c].overcommit < tailIndex
        BY <1>10, <1>17 DEF MayTake
      <3>3. Granted + 1 + Cardinality(Before(m)) <= tailIndex
        <4>1. consumer[c].overcommit \in Int
          BY <1>0, <1>5 DEF NumbersOK, CountersOK, At
        <4>. QED  BY <1>15, <3>1, <3>2, <4>1
      <3>4. Granted' + Cardinality(Before(m)') <= tailIndex'
        BY <1>4, <1>12, <2>1, <3>3
      <3>5. \A d \in At({"tail"})' : consumer'[d].count # m
        BY <1>5, <1>6, <1>16
      <3>6. IsBound(m)'
        BY <1>4, <1>10, <2>2, <2>3, <3>4, <3>5 DEF IsBound
      <3>. QED  BY <1>7, <1>8, <1>9, <3>6 DEF IInv, HasBound
    <2>4. CASE m < k
      <3>1. Granted' + Cardinality(Before(k)') = Granted + Cardinality(Before(k))
        BY <1>14, <1>15, <2>1, <2>4
      <3>2. Granted' + Cardinality(Before(k)') <= tailIndex'
        BY <1>4, <1>11, <3>1 DEF IsBound
      <3>3. \A d \in At({"tail"})' : consumer'[d].count # k
        BY <1>5, <1>6, <1>11, <1>16 DEF IsBound
      <3>4. IsBound(k)'
        BY <1>4, <1>11, <2>2, <2>4, <3>2, <3>3 DEF IsBound
      <3>. QED  BY <1>7, <1>8, <1>9, <3>4 DEF IInv, HasBound
    <2>5. m # k
      BY <1>5, <1>10, <1>11 DEF IsBound
    <2>. QED  BY <2>3, <2>4, <2>5
  <1>18. CASE ~MayTake(c)
    <2>1. Granted' = Granted
      BY <1>4, <1>5, <1>18 DEF Granted
    <2>2. \A j \in Int : Cardinality(Before(j)') <= Cardinality(Before(j))
      <3>. SUFFICES ASSUME NEW j \in Int
                    PROVE  Cardinality(Before(j)') <= Cardinality(Before(j))
        OBVIOUS
      <3>1. CASE j <= m
        BY <1>12, <1>15, <3>1
      <3>2. CASE m < j
        BY <1>14, <1>15, <3>2
      <3>. QED  BY <3>1, <3>2
    <2>3. \A j \in Int : Cardinality(Before(j)') \in Int
      BY <1>12, <1>14, <1>15
    <2>4. Granted' + Cardinality(Before(k)') <= tailIndex'
      BY <1>4, <1>11, <1>15, <2>1, <2>2, <2>3 DEF IsBound
    <2>5. ASSUME NEW d \in At({"tail"})', NEW j \in Int, j = consumer'[d].count
          PROVE  /\ j # k
                 /\ j > k => Granted' + Cardinality(Before(j)') <= j - consumer'[d].overcommit
      <3>1. d \in At({"tail"}) \ {c} /\ consumer'[d] = consumer[d]
        BY <1>5, <1>6, <2>5
      <3>2. /\ j # k
            /\ j > k => Granted + Cardinality(Before(j)) <= j - consumer[d].overcommit
        BY <1>11, <2>5, <3>1 DEF IsBound
      <3>3. consumer[d].overcommit \in Int
        BY <1>16, <3>1
      <3>. QED  BY <1>15, <2>1, <2>2, <2>3, <3>1, <3>2, <3>3
    <2>6. IsBound(k)'
      BY <1>4, <1>11, <2>4, <2>5 DEF IsBound
    <2>. QED  BY <1>7, <1>8, <1>9, <2>6 DEF IInv, HasBound
  <1>. QED  BY <1>17, <1>18

\* One that came for nothing says so, which changes nothing in what is granted.
LEMMA MissStep ==
    ASSUME IsFiniteSet(Consumers), IInv, NEW c \in Consumers, Miss(c)
    PROVE  IInv'
  <1>0. CountersOK /\ NumbersOK /\ CountsAgree
    BY DEF IInv
  <1>1. Fields \subseteq DOMAIN IdleConsumer /\ IdleConsumer.pc = "idle"
    BY DEF Fields, IdleConsumer
  <1>2. /\ consumer[c].pc = "miss"
        /\ consumer'[c] = IdleConsumer
        /\ \A d \in Consumers \ {c} : consumer'[d] = consumer[d]
        /\ consumer' = [d \in Consumers |-> consumer'[d]]
        /\ \A d \in Consumers : Fields \subseteq DOMAIN consumer'[d]
    <2>1. Goes(c, "miss", IdleConsumer)
      BY DEF Miss
    <2>. QED  BY <1>0, <1>1, <2>1, OneMoves
  <1>3. /\ UNCHANGED <<tailIndex, headIndex, dequeueOptimisticCount>>
        /\ dequeueOvercommit' = dequeueOvercommit + 1
        /\ dequeueOptimisticCount \in Nat /\ dequeueOvercommit \in Nat /\ headIndex \in Nat
    BY <1>0 DEF Miss, CountersOK
  <1>4. /\ At({"tail"})' = At({"tail"}) /\ At({"take"})' = At({"take"})
        /\ At({"test", "count", "tail"})' = At({"test", "count", "tail"})
        /\ c \in At({"tail", "take", "miss"})
        /\ At({"tail", "take", "miss"})' = At({"tail", "take", "miss"}) \ {c}
    BY <1>1, <1>2 DEF At
  <1>5. \A d \in At({"test", "count", "tail"}) : consumer'[d] = consumer[d]
    BY <1>2 DEF At
  <1>6. At({"tail"}) \subseteq At({"test", "count", "tail"})
    BY DEF At
  <1>7. CountersOK'
    BY <1>0, <1>2, <1>3 DEF CountersOK, Fields
  <1>8. NumbersOK'
    BY <1>0, <1>3, <1>4, <1>5, <1>6 DEF NumbersOK
  <1>9. CountsAgree'
    <2>. DEFINE S == At({"tail", "take", "miss"})
    <2>1. Cardinality(S \ {c}) = Cardinality(S) - 1 /\ Cardinality(S) \in Nat
      <3>1. S \in SUBSET Consumers
        BY DEF At
      <3>. QED  BY <1>4, <3>1, OneLess, SomeConsumers
    <2>2. dequeueOptimisticCount - dequeueOvercommit = headIndex + Cardinality(S)
      BY <1>0 DEF CountsAgree, At
    <2>. HIDE DEF S
    <2>3. dequeueOptimisticCount - (dequeueOvercommit + 1) = headIndex + Cardinality(S \ {c})
      <3>1. PICK n \in Nat : n = Cardinality(S)
        BY <2>1
      <3>2. Cardinality(S \ {c}) = n - 1 /\ dequeueOptimisticCount - dequeueOvercommit = headIndex + n
        BY <2>1, <2>2, <3>1
      <3>. QED  BY <1>3, <3>2
    <2>4. S' = S \ {c}
      BY <1>4 DEF S
    <2>5. dequeueOptimisticCount' - dequeueOvercommit' = headIndex' + Cardinality(S')
      BY <1>3, <2>3, <2>4
    <2>. QED  BY <2>5 DEF CountsAgree, At, S
  <1>10. PICK k \in Int : IsBound(k)
    BY DEF IInv, HasBound
  <1>11. Granted' = Granted /\ \A j : Before(j)' = Before(j)
    BY <1>3, <1>4, <1>5, <1>6 DEF Granted, Before
  <1>12. IsBound(k)'
    BY <1>3, <1>4, <1>5, <1>6, <1>10, <1>11 DEF IsBound
  <1>. QED  BY <1>7, <1>8, <1>9, <1>12 DEF IInv, HasBound

\* One that was granted an element moves the head: what is granted is the same.
LEMMA TakeStep ==
    ASSUME IsFiniteSet(Consumers), IInv, NEW c \in Consumers, Take(c)
    PROVE  IInv'
  <1>. DEFINE new == [consumer[c] EXCEPT !.pc = "header", !.index = headIndex]
  <1>0. CountersOK /\ NumbersOK /\ CountsAgree
    BY DEF IInv
  <1>1. Fields \subseteq DOMAIN new /\ new.pc = "header"
    BY <1>0 DEF CountersOK, Fields
  <1>2. /\ consumer[c].pc = "take"
        /\ consumer'[c] = new
        /\ \A d \in Consumers \ {c} : consumer'[d] = consumer[d]
        /\ consumer' = [d \in Consumers |-> consumer'[d]]
        /\ \A d \in Consumers : Fields \subseteq DOMAIN consumer'[d]
    <2>1. Goes(c, "take", new)
      BY DEF Take
    <2>. HIDE DEF new
    <2>. QED  BY <1>0, <1>1, <2>1, OneMoves
  <1>. HIDE DEF new
  <1>3. /\ UNCHANGED <<tailIndex, dequeueOptimisticCount, dequeueOvercommit>>
        /\ headIndex' = headIndex + 1
        /\ dequeueOptimisticCount \in Nat /\ dequeueOvercommit \in Nat /\ headIndex \in Nat
    BY <1>0 DEF Take, CountersOK
  <1>4. /\ At({"tail"})' = At({"tail"})
        /\ c \in At({"take"}) /\ At({"take"})' = At({"take"}) \ {c}
        /\ At({"test", "count", "tail"})' = At({"test", "count", "tail"})
        /\ c \in At({"tail", "take", "miss"})
        /\ At({"tail", "take", "miss"})' = At({"tail", "take", "miss"}) \ {c}
    BY <1>1, <1>2 DEF At
  <1>5. \A d \in At({"test", "count", "tail"}) : consumer'[d] = consumer[d]
    BY <1>2 DEF At
  <1>6. At({"tail"}) \subseteq At({"test", "count", "tail"})
    BY DEF At
  <1>7. CountersOK'
    BY <1>0, <1>2, <1>3 DEF CountersOK, Fields
  <1>8. NumbersOK'
    BY <1>0, <1>3, <1>4, <1>5, <1>6 DEF NumbersOK
  <1>9. \A pcs : c \in At(pcs) => /\ Cardinality(At(pcs) \ {c}) = Cardinality(At(pcs)) - 1
                                /\ Cardinality(At(pcs)) \in Nat
    <2>1. \A pcs : At(pcs) \in SUBSET Consumers
      BY DEF At
    <2>. QED  BY <2>1, OneLess, SomeConsumers
  <1>10. CountsAgree'
    <2>. DEFINE S == At({"tail", "take", "miss"})
    <2>1. Cardinality(S \ {c}) = Cardinality(S) - 1 /\ Cardinality(S) \in Nat
      BY <1>4, <1>9
    <2>2. dequeueOptimisticCount - dequeueOvercommit = headIndex + Cardinality(S)
      BY <1>0 DEF CountsAgree, At
    <2>. HIDE DEF S
    <2>3. dequeueOptimisticCount - dequeueOvercommit = (headIndex + 1) + Cardinality(S \ {c})
      BY <1>3, <2>1, <2>2
    <2>4. S' = S \ {c}
      BY <1>4 DEF S
    <2>5. dequeueOptimisticCount' - dequeueOvercommit' = headIndex' + Cardinality(S')
      BY <1>3, <2>3, <2>4
    <2>. QED  BY <2>5 DEF CountsAgree, At, S
  <1>11. PICK k \in Int : IsBound(k)
    BY DEF IInv, HasBound
  <1>12. Granted' = Granted
    <2>1. Granted' = (headIndex + 1) + Cardinality(At({"take"}) \ {c})
      BY <1>3, <1>4 DEF Granted
    <2>. QED  BY <1>3, <1>4, <1>9, <2>1 DEF Granted
  <1>13. \A j : Before(j)' = Before(j)
    BY <1>4, <1>5, <1>6 DEF Before
  <1>14. IsBound(k)'
    BY <1>3, <1>4, <1>5, <1>6, <1>11, <1>12, <1>13 DEF IsBound
  <1>. QED  BY <1>7, <1>8, <1>10, <1>14 DEF IInv, HasBound

-----------------------------------------------------------------------------
(* The invariant.                                                          *)

\* At first nobody has a number, and -1 is a bound.
LEMMA InitIInv ==
    ASSUME IsFiniteSet(Consumers), Init
    PROVE  IInv
  <1>1. \A c \in Consumers : consumer[c].pc = "idle"
    BY DEF Init, IdleConsumer
  <1>2. \A pcs : "idle" \notin pcs => At(pcs) = {}
    BY <1>1 DEF At
  <1>3. At({"tail"}) = {} /\ At({"take"}) = {} /\ At({"tail", "take", "miss"}) = {}
        /\ At({"test", "count", "tail"}) = {}
        /\ \A k : Before(k) = {}
    BY <1>2 DEF Before
  <1>4. Cardinality({}) = 0
    BY FS_EmptySet
  <1>5. CountersOK
    BY DEF Init, CountersOK, IdleConsumer
  <1>6. NumbersOK
    BY <1>3 DEF NumbersOK
  <1>7. CountsAgree
    <2>1. dequeueOptimisticCount = 0 /\ dequeueOvercommit = 0 /\ headIndex = 0
      BY DEF Init
    <2>2. dequeueOptimisticCount - dequeueOvercommit
              = headIndex + Cardinality(At({"tail", "take", "miss"}))
      BY <1>3, <1>4, <2>1
    <2>. QED  BY <2>2 DEF CountsAgree, At
  <1>8. HasBound
    <2>1. dequeueOptimisticCount = 0 /\ tailIndex = 0 /\ headIndex = 0
      BY DEF Init
    <2>2. Granted = 0
      BY <1>3, <1>4, <2>1 DEF Granted
    <2>3. PICK k \in Int : k = -1
      OBVIOUS
    <2>4. Cardinality(Before(k)) = 0
      BY <1>3, <1>4
    <2>5. IsBound(k)
      BY <1>3, <2>1, <2>2, <2>3, <2>4 DEF IsBound
    <2>. QED  BY <2>5 DEF HasBound
  <1>. QED  BY <1>5, <1>6, <1>7, <1>8 DEF IInv

\* Every step keeps it.
LEMMA NextIInv ==
    ASSUME IsFiniteSet(Consumers), IInv, [Next]_vars
    PROVE  IInv'
  <1>. CountersOK /\ NumbersOK
    BY DEF IInv
  <1>idle. /\ Fields \subseteq DOMAIN IdleConsumer /\ IdleConsumer.pc = "idle"
    BY DEF Fields, IdleConsumer
  <1>1. CASE Enqueue
    <2>1. tailIndex' \in {tailIndex, tailIndex + 1}
      BY <1>1 DEF Enqueue, EnqueueInBlock, EnqueueFirst, FindEntry, NewBlockIndex, StoreKey,
                  StoreTail, StoreValue, RequisitionBlock, Store, counters
    <2>2. UNCHANGED <<headIndex, dequeueOptimisticCount, dequeueOvercommit, consumer>>
      BY <1>1 DEF Enqueue, EnqueueInBlock, EnqueueFirst, FindEntry, NewBlockIndex, StoreKey,
                  StoreTail, StoreValue, RequisitionBlock, Store, counters
    <2>. QED  BY <2>1, <2>2, ProducerStep
  <1>2. CASE RewindBlockIndexTail
    BY <1>2, ProducerStep DEF RewindBlockIndexTail, counters
  <1>3. ASSUME NEW c \in Consumers, Dequeue(c)
        PROVE  IInv'
    <2>0. Fields \subseteq DOMAIN consumer[c]
      BY DEF CountersOK, Fields
    <2>1. CASE LoadTail(c)
      <3>1. PICK new : /\ Goes(c, "idle", new) /\ Fields \subseteq DOMAIN new
                       /\ new.pc = "overcommit"
        <4>. DEFINE new == [IdleConsumer EXCEPT !.pc = "overcommit", !.tail = tailIndex]
        <4>1. Fields \subseteq DOMAIN new /\ new.pc = "overcommit"
          BY DEF Fields, IdleConsumer
        <4>2. Goes(c, "idle", new)
          BY <2>1 DEF LoadTail
        <4>. QED  BY <4>1, <4>2
      <3>2. UNCHANGED counters
        BY <2>1 DEF LoadTail
      <3>. QED  BY <3>1, <3>2, QuietStep
    <2>2. CASE LoadOvercommit(c)
      <3>1. PICK new : /\ Goes(c, "overcommit", new) /\ Fields \subseteq DOMAIN new
                       /\ new.pc = "test" /\ new.overcommit = dequeueOvercommit
        <4>. DEFINE new == [consumer[c] EXCEPT !.pc = "test", !.overcommit = dequeueOvercommit]
        <4>1. /\ Fields \subseteq DOMAIN new
              /\ new.pc = "test" /\ new.overcommit = dequeueOvercommit
          BY <2>0 DEF Fields
        <4>2. Goes(c, "overcommit", new)
          BY <2>2 DEF LoadOvercommit
        <4>. QED  BY <4>1, <4>2
      <3>2. UNCHANGED counters
        BY <2>2 DEF LoadOvercommit
      <3>3. dequeueOvercommit \in 0..dequeueOvercommit
        BY DEF CountersOK
      <3>. QED  BY <3>1, <3>2, <3>3, QuietStep
    <2>3. CASE LooksEmpty(c)
      BY <1>idle, <2>3, QuietStep DEF LooksEmpty
    <2>4. CASE LooksNonEmpty(c)
      <3>1. PICK new : /\ Goes(c, "test", new) /\ Fields \subseteq DOMAIN new
                       /\ new.pc = "count" /\ new.overcommit = consumer[c].overcommit
        <4>. DEFINE new == [consumer[c] EXCEPT !.pc = "count", !.tail = 0]
        <4>1. /\ Fields \subseteq DOMAIN new
              /\ new.pc = "count" /\ new.overcommit = consumer[c].overcommit
          BY <2>0 DEF Fields
        <4>2. Goes(c, "test", new)
          BY <2>4 DEF LooksNonEmpty
        <4>. QED  BY <4>1, <4>2
      <3>2. UNCHANGED counters
        BY <2>4 DEF LooksNonEmpty
      <3>3. consumer[c].overcommit \in 0..dequeueOvercommit
        BY <2>4 DEF LooksNonEmpty, NumbersOK, At
      <3>. QED  BY <3>1, <3>2, <3>3, QuietStep
    <2>5. CASE CountIn(c)
      BY <2>5, CountInStep
    <2>6. CASE Decide(c)
      BY <2>6, DecideStep
    <2>7. CASE Miss(c)
      BY <2>7, MissStep
    <2>8. CASE Take(c)
      BY <2>8, TakeStep
    <2>9. CASE LoadHeader(c)
      <3>1. PICK new : /\ Goes(c, "header", new) /\ Fields \subseteq DOMAIN new /\ new.pc = "key"
        <4>. DEFINE new == [consumer[c] EXCEPT !.pc = "key", !.header = blockIndex,
                                               !.slot = headers[blockIndex].tail]
        <4>1. Fields \subseteq DOMAIN new /\ new.pc = "key"
          BY <2>0 DEF Fields
        <4>2. Goes(c, "header", new)
          BY <2>9 DEF LoadHeader
        <4>. QED  BY <4>1, <4>2
      <3>2. UNCHANGED counters
        BY <2>9 DEF LoadHeader
      <3>. QED  BY <3>1, <3>2, QuietStep
    <2>10. CASE LoadKey(c)
      <3>1. PICK new : /\ Goes(c, "key", new) /\ Fields \subseteq DOMAIN new /\ new.pc = "value"
        <4>. DEFINE new == [IdleConsumer EXCEPT !.pc = "value", !.index = consumer[c].index,
                                            !.entry = EntryOf(c)]
        <4>1. Fields \subseteq DOMAIN new /\ new.pc = "value"
          BY DEF Fields, IdleConsumer
        <4>2. Goes(c, "key", new)
          BY <2>10 DEF LoadKey
        <4>. QED  BY <4>1, <4>2
      <3>2. UNCHANGED counters
        BY <2>10 DEF LoadKey
      <3>. QED  BY <3>1, <3>2, QuietStep
    <2>11. CASE LoadValue(c)
      <3>1. PICK new : /\ Goes(c, "value", new) /\ Fields \subseteq DOMAIN new /\ new.pc = "empty"
        <4>. DEFINE new == [IdleConsumer EXCEPT !.pc = "empty", !.entry = consumer[c].entry,
                   !.block = entries[consumer[c].entry].value,
                   !.element = elements[entries[consumer[c].entry].value][Slot(consumer[c].index)]]
        <4>1. Fields \subseteq DOMAIN new /\ new.pc = "empty"
          BY DEF Fields, IdleConsumer
        <4>2. Goes(c, "value", new)
          BY <2>11 DEF LoadValue
        <4>. QED  BY <4>1, <4>2
      <3>2. UNCHANGED counters
        BY <2>11 DEF LoadValue
      <3>. QED  BY <3>1, <3>2, QuietStep
    <2>12. CASE SetEmpty(c)
      <3>1. PICK new : /\ Goes(c, "empty", new) /\ Fields \subseteq DOMAIN new
                       /\ new.pc \in {"clear", "idle"}
        <4>. DEFINE new == IF elementsCompletelyDequeued[consumer[c].block] = BLOCK_SIZE - 1
                           THEN [consumer[c] EXCEPT !.pc = "clear"] ELSE IdleConsumer
        <4>1. Fields \subseteq DOMAIN new /\ new.pc \in {"clear", "idle"}
          BY <1>idle, <2>0 DEF Fields
        <4>2. Goes(c, "empty", new)
          BY <2>12 DEF SetEmpty
        <4>. QED  BY <4>1, <4>2
      <3>2. UNCHANGED counters
        BY <2>12 DEF SetEmpty
      <3>. QED  BY <3>1, <3>2, QuietStep
    <2>13. CASE ClearEntry(c)
      <3>1. PICK new : /\ Goes(c, "clear", new) /\ Fields \subseteq DOMAIN new /\ new.pc = "release"
        <4>. DEFINE new == [consumer[c] EXCEPT !.pc = "release"]
        <4>1. Fields \subseteq DOMAIN new /\ new.pc = "release"
          BY <2>0 DEF Fields
        <4>2. Goes(c, "clear", new)
          BY <2>13 DEF ClearEntry
        <4>. QED  BY <4>1, <4>2
      <3>2. UNCHANGED counters
        BY <2>13 DEF ClearEntry
      <3>. QED  BY <3>1, <3>2, QuietStep
    <2>14. CASE AddBlockToFreeList(c)
      BY <1>idle, <2>14, QuietStep DEF AddBlockToFreeList
    <2>. QED  BY <1>3, <2>1, <2>2, <2>3, <2>4, <2>5, <2>6, <2>7, <2>8, <2>9, <2>10, <2>11,
                 <2>12, <2>13, <2>14 DEF Dequeue
  <1>4. CASE UNCHANGED vars
    BY <1>4, ProducerStep DEF vars, counters
  <1>. QED  BY <1>1, <1>2, <1>3, <1>4 DEF Next

\* All that is granted fits under the tail.
LEMMA GrantedFits ==
    ASSUME IsFiniteSet(Consumers), IInv
    PROVE  Granted <= tailIndex
  <1>1. PICK k \in Int : IsBound(k)
    BY DEF IInv, HasBound
  <1>2. Granted \in Nat /\ Cardinality(Before(k)) \in Nat /\ tailIndex \in Nat
    BY NumbersOfConsumers DEF IInv, CountersOK
  <1>. QED  BY <1>1, <1>2 DEF IsBound

\* So it holds in every state.
LEMMA Inductive ==
    ASSUME IsFiniteSet(Consumers)
    PROVE  Spec => []IInv
  <1>1. Init => IInv
    BY InitIInv
  <1>2. IInv /\ [Next]_vars => IInv'
    BY NextIInv
  <1>. QED  BY <1>1, <1>2, PTL DEF Spec

\* The optimistic count is never off: what it promises is what the head and the
\* consumers on their way to it will have taken (concurrentqueue.h:2476-2489, 2534).
THEOREM CountsStayRight ==
    ASSUME IsFiniteSet(Consumers)
    PROVE  Spec => []CountsAgree
  <1>1. IInv => CountsAgree
    BY DEF IInv
  <1>. QED  BY <1>1, Inductive, PTL

\* No consumer is granted an element that is not there, whatever the order in which
\* any number of them read the counters (concurrentqueue.h:2476-2489).
THEOREM NoneOvertakes ==
    ASSUME IsFiniteSet(Consumers)
    PROVE  Spec => []NeverOvertakes
  <1>1. IInv => NeverOvertakes
    BY GrantedFits DEF NeverOvertakes, Granted, At
  <1>. QED  BY <1>1, Inductive, PTL

-----------------------------------------------------------------------------
(* The elements and where they are: the entries, the blocks, the consumers. *)

\* What is asked of the constants: the sizes are those that the static_asserts of
\* the queue allow (concurrentqueue.h:711, 714), and nullptr is no element.
Sizes ==
    /\ BLOCK_SIZE \in Nat /\ BLOCK_SIZE > 1
    /\ IMPLICIT_INITIAL_INDEX_SIZE \in Nat /\ IMPLICIT_INITIAL_INDEX_SIZE > 0
    /\ None \notin Nat
    /\ IsFiniteSet(Consumers)

Key(k) == entries[k].key
BlockOf(k) == entries[k].value

\* The entries that have a block.
Live == {k \in DOMAIN entries : BlockOf(k) # None}

\* A consumer is under way with an element whose number is its index, and later
\* with the element itself.
Reading == {"header", "key", "value"}
Holding == {"header", "key", "value", "empty"}

Number(c) == IF consumer[c].pc = "empty" THEN consumer[c].element ELSE consumer[c].index

\* Element i is in its block still; no consumer has told its block that it is gone.
Unread(i) == i >= headIndex \/ \E c \in At(Reading) : consumer[c].index = i
Waits(i) == i >= headIndex \/ \E c \in At(Holding) : Number(c) = i

\* The slots of an entry's block that are not done with.
Rest(k) == {s \in 0..BLOCK_SIZE - 1 : Waits(Key(k) + s)}

Callers == [pc : ConsumerPcs, tail : Nat, overcommit : Nat, count : Nat, index : Nat,
            header : Nat, slot : Nat, entry : Nat,
            block : Blocks \cup {None}, element : Nat \cup {None}]

DataOK ==
    /\ tailIndex \in Nat /\ headIndex \in Nat /\ headIndex <= tailIndex
    /\ entries \in Seq([key : Nat, value : Blocks \cup {None}])
    /\ elements \in [Blocks -> [0..BLOCK_SIZE - 1 -> Nat \cup {None}]]
    /\ elementsCompletelyDequeued \in [Blocks -> Nat]
    /\ uses \in [Blocks -> 0..1]
    /\ producer \in [pc : ProducerPcs, newTail : Nat, block : Blocks \cup {None}]
    /\ consumer \in [Consumers -> Callers]

\* No two consumers have the same element.
HandsApart ==
    \A c \in At(Holding) :
        /\ Number(c) \in Nat /\ Number(c) < headIndex
        /\ \A d \in At(Holding) : Number(c) = Number(d) => c = d

\* No two entries with a block have the same key or the same block.
LiveEntries ==
    /\ \A k \in Live :
          /\ uses[BlockOf(k)] = 1
          /\ Slot(Key(k)) = 0
          /\ Key(k) < tailIndex \/ (producer.pc = "store" /\ Key(k) = tailIndex)
    /\ \A k, l \in Live : /\ Key(k) = Key(l) => k = l
                          /\ BlockOf(k) = BlockOf(l) => k = l

\* Every element that is unread is in the block of an entry with its base.
Stored ==
    \A i \in Nat : i < tailIndex /\ Unread(i) =>
        \E k \in Live : Key(k) = Base(i) /\ elements[BlockOf(k)][Slot(i)] = i

\* A block's count and the slots that are not done with make up the block.
Counted ==
    \A k \in Live :
        elementsCompletelyDequeued[BlockOf(k)] + Cardinality(Rest(k)) = BLOCK_SIZE

\* What the consumers that are past their element still have to do with its block.
AtEmpty ==
    \A c \in At({"empty"}) :
        /\ consumer[c].entry \in Live
        /\ BlockOf(consumer[c].entry) = consumer[c].block
        /\ Key(consumer[c].entry) = Base(consumer[c].element)

AtClear ==
    \A c \in At({"clear"}) :
        /\ consumer[c].entry \in Live
        /\ BlockOf(consumer[c].entry) = consumer[c].block
        /\ elementsCompletelyDequeued[consumer[c].block] = BLOCK_SIZE
        /\ consumer[c].element # None
        /\ \A d \in At({"clear"}) : consumer[c].entry = consumer[d].entry => c = d

AtRelease ==
    \A c \in At({"release"}) :
        /\ consumer[c].block \in Blocks /\ uses[consumer[c].block] = 1
        /\ \A k \in Live : BlockOf(k) # consumer[c].block
        /\ consumer[c].element # None
        /\ \A d \in At({"release"}) : consumer[c].block = consumer[d].block => c = d

Emptying == AtEmpty /\ AtClear /\ AtRelease

\* The producer's new entry and the block that it fills.
Filling ==
    /\ producer.pc # "idle" => Slot(tailIndex) = 0
    /\ producer.pc \in {"key", "tail", "block", "value"} =>
          NewEntry \in DOMAIN entries /\ BlockOf(NewEntry) = None
    /\ producer.pc \in {"tail", "block", "value"} => Key(NewEntry) = tailIndex
    /\ producer.pc = "value" =>
          /\ producer.block \in Blocks /\ uses[producer.block] = 1
          /\ elementsCompletelyDequeued[producer.block] = 0
          /\ \A k \in Live : BlockOf(k) # producer.block
          /\ \A c \in At({"release"}) : consumer[c].block # producer.block
    /\ producer.pc = "store" \/ (producer.pc = "idle" /\ Slot(tailIndex) # 0) =>
          \E k \in Live : Key(k) = Base(tailIndex) /\ BlockOf(k) = producer.block

\* A consumer that looks for its element's entry starts from an entry of the index it
\* has loaded, and the one it looks for is in there.
StartsRight(c) ==
    LET h == consumer[c].header
    IN /\ h \in DOMAIN headers
       /\ consumer[c].slot \in DOMAIN headers[h].index
       /\ Key(EntryAt(h, consumer[c].slot)) # INVALID_BLOCK_BASE
       /\ \E s \in DOMAIN headers[h].index :
             EntryAt(h, s) \in Live /\ Key(EntryAt(h, s)) = Base(consumer[c].index)

EntryFound(c) ==
    consumer[c].entry \in Live /\ Key(consumer[c].entry) = Base(consumer[c].index)

Finding ==
    /\ \A c \in At({"key"}) : StartsRight(c)
    /\ \A c \in At({"value"}) : EntryFound(c)

ElementsOK == HandsApart /\ LiveEntries /\ Stored /\ Counted /\ Emptying

-----------------------------------------------------------------------------
(* Slots and bases.                                                        *)

\* A quotient and a remainder.
LEMMA Division ==
    ASSUME NEW b \in Nat, b > 0, NEW i \in Int
    PROVE  /\ i \div b \in Int /\ i % b \in 0..b - 1
           /\ i % b = i - b * (i \div b)
           /\ i \in Nat => i \div b \in Nat
  OBVIOUS

\* They are the only ones.
LEMMA Remainder ==
    ASSUME NEW b \in Nat, b > 0, NEW q \in Int, NEW r \in 0..b - 1
    PROVE  (b * q + r) % b = r
  OBVIOUS

\* A number is its base and its slot.
LEMMA SlotOf ==
    ASSUME Sizes, NEW i \in Nat
    PROVE  /\ Slot(i) \in 0..BLOCK_SIZE - 1 /\ Base(i) \in Nat
           /\ i = Base(i) + Slot(i) /\ Base(i) <= i
           /\ Slot(i) = 0 => Base(i) = i
  <1>0. BLOCK_SIZE \in Nat /\ BLOCK_SIZE > 0
    BY DEF Sizes
  <1>1. Slot(i) \in 0..BLOCK_SIZE - 1
    BY <1>0, Division DEF Slot
  <1>2. i \div BLOCK_SIZE \in Nat
    BY <1>0, Division
  <1>3. i % BLOCK_SIZE = i - BLOCK_SIZE * (i \div BLOCK_SIZE)
    BY <1>0, Division
  <1>4. Base(i) = BLOCK_SIZE * (i \div BLOCK_SIZE)
    BY <1>2, <1>3 DEF Sizes, Base, Slot
  <1>5. BLOCK_SIZE * (i \div BLOCK_SIZE) \in Nat
    BY <1>2 DEF Sizes
  <1>. QED  BY <1>1, <1>4, <1>5 DEF Base

\* The slots of the numbers that follow a base.
LEMMA SlotFrom ==
    ASSUME Sizes, NEW k \in Nat, Slot(k) = 0, NEW s \in 0..BLOCK_SIZE - 1
    PROVE  Slot(k + s) = s /\ Base(k + s) = k /\ k + s \in Nat
  <1>1. PICK b \in Nat : b = BLOCK_SIZE /\ b > 1
    BY DEF Sizes
  <1>2. PICK q \in Int : k = b * q
    <2>1. k % b = k - b * (k \div b) /\ k \div b \in Int /\ k % b = 0
      BY <1>1, Division DEF Slot
    <2>2. k = b * (k \div b)
      BY <1>1, <2>1
    <2>. QED  BY <2>1, <2>2
  <1>3. (b * q + s) % b = s
    <2>1. s \in 0..b - 1
      BY <1>1
    <2>. QED  BY <1>1, <2>1, Remainder
  <1>. QED  BY <1>1, <1>2, <1>3 DEF Slot, Base

\* The number after one.
LEMMA NextSlot ==
    ASSUME Sizes, NEW i \in Nat
    PROVE  /\ Slot(i) = 0 => Slot(i + 1) = 1
           /\ Slot(i + 1) # 0 => Base(i + 1) = Base(i)
           /\ Slot(i) # BLOCK_SIZE - 1 => Slot(i + 1) = Slot(i) + 1
           /\ Slot(i) = BLOCK_SIZE - 1 => Slot(i + 1) = 0
  <1>1. /\ Base(i) \in Nat /\ Slot(i) \in 0..BLOCK_SIZE - 1 /\ i = Base(i) + Slot(i)
    BY SlotOf
  <1>2. PICK b \in Nat : b = BLOCK_SIZE /\ b > 1
    BY DEF Sizes
  <1>3. PICK q \in Int : Base(i) = b * q
    <2>1. i % b = i - b * (i \div b) /\ i \div b \in Int
      BY <1>2, Division
    <2>2. Base(i) = b * (i \div b)
      BY <1>2, <2>1 DEF Base, Slot
    <2>. QED  BY <2>1, <2>2
  <1>4. PICK r \in 0..b - 1 : r = Slot(i) /\ i = b * q + r
    BY <1>1, <1>2, <1>3
  <1>5. CASE r = b - 1
    <2>1. i + 1 = b * (q + 1)
      BY <1>2, <1>4, <1>5
    <2>2. (b * (q + 1)) % b = 0
      <3>1. (b * (q + 1) + 0) % b = 0
        <4>1. q + 1 \in Int /\ 0 \in 0..b - 1
          BY <1>2
        <4>. QED  BY <1>2, <4>1, Remainder
      <3>2. b * (q + 1) + 0 = b * (q + 1)
        BY <1>2
      <3>. QED  BY <3>1, <3>2
    <2>. QED  BY <1>2, <1>4, <1>5, <2>1, <2>2 DEF Slot
  <1>6. CASE r # b - 1
    <2>1. (b * q + (r + 1)) % b = r + 1
      <3>1. r + 1 \in 0..b - 1
        BY <1>2, <1>6
      <3>. QED  BY <1>2, <3>1, Remainder
    <2>2. i + 1 = b * q + (r + 1)
      BY <1>2, <1>4
    <2>3. Slot(i + 1) = r + 1
      BY <1>2, <2>1, <2>2 DEF Slot
    <2>4. Base(i + 1) = Base(i)
      BY <1>1, <1>4, <2>3 DEF Base
    <2>. QED  BY <1>2, <1>4, <1>6, <2>3, <2>4
  <1>. QED  BY <1>5, <1>6

\* Two numbers with the same base and the same slot are the same.
LEMMA SameNumber ==
    ASSUME Sizes, NEW i \in Nat, NEW j \in Nat, Base(i) = Base(j), Slot(i) = Slot(j)
    PROVE  i = j
  BY SlotOf

-----------------------------------------------------------------------------
(* Entries and what waits in their blocks.                                 *)

\* There is no block without a block.
LEMMA NoBlock ==
    ASSUME Sizes
    PROVE  None \notin Blocks
  BY DEF Sizes, Blocks

\* What the entries have.
LEMMA EntryTypes ==
    ASSUME Sizes, DataOK
    PROVE  /\ \A k \in DOMAIN entries : Key(k) \in Nat /\ BlockOf(k) \in Blocks \cup {None}
           /\ \A k \in Live : k \in DOMAIN entries /\ Key(k) \in Nat /\ BlockOf(k) \in Blocks
           /\ DOMAIN entries \subseteq Nat
  <1>1. /\ \A k \in DOMAIN entries : Key(k) \in Nat /\ BlockOf(k) \in Blocks \cup {None}
        /\ DOMAIN entries \subseteq Nat
    <2>1. PICK E : E = [key : Nat, value : Blocks \cup {None}]
      OBVIOUS
    <2>2. entries \in Seq(E)
      BY <2>1 DEF DataOK
    <2>3. \A k \in DOMAIN entries : k \in Nat /\ entries[k] \in E
      BY <2>2
    <2>4. \A e \in E : e.key \in Nat /\ e.value \in Blocks \cup {None}
      BY <2>1
    <2>. QED  BY <2>3, <2>4 DEF Key, BlockOf
  <1>. QED  BY <1>1 DEF Live

\* What has not been read is waited for.
LEMMA UnreadWaits ==
    ASSUME NEW i, Unread(i)
    PROVE  Waits(i)
  BY DEF Unread, Waits, Reading, Holding, At, Number

\* There are finitely many slots.
LEMMA RestFinite ==
    ASSUME Sizes, NEW k
    PROVE  /\ IsFiniteSet(Rest(k)) /\ Cardinality(Rest(k)) \in Nat
           /\ Cardinality(Rest(k)) = 0 => Rest(k) = {}
  <1>1. IsFiniteSet(0..BLOCK_SIZE - 1)
    BY FS_Interval DEF Sizes
  <1>2. Rest(k) \subseteq 0..BLOCK_SIZE - 1
    BY DEF Rest
  <1>3. IsFiniteSet(Rest(k))
    BY <1>1, <1>2, FS_Subset
  <1>. QED  BY <1>3, FS_CardinalityType, FS_EmptySet

\* An element that waits counts in the block of its entry.
LEMMA WaitsInRest ==
    ASSUME Sizes, DataOK, LiveEntries, NEW k \in Live,
           NEW i \in Nat, Base(i) = Key(k), Waits(i)
    PROVE  Slot(i) \in Rest(k)
  <1>1. Slot(i) \in 0..BLOCK_SIZE - 1 /\ i = Key(k) + Slot(i)
    BY SlotOf
  <1>. QED  BY <1>1 DEF Rest

\* A block whose count is full has nothing that waits.
LEMMA NothingWaits ==
    ASSUME Sizes, DataOK, LiveEntries, Counted, NEW k \in Live,
           elementsCompletelyDequeued[BlockOf(k)] = BLOCK_SIZE,
           NEW i \in Nat, Waits(i)
    PROVE  Base(i) # Key(k)
  <1>1. Cardinality(Rest(k)) = 0
    <2>1. elementsCompletelyDequeued[BlockOf(k)] + Cardinality(Rest(k)) = BLOCK_SIZE
      BY DEF Counted
    <2>2. Cardinality(Rest(k)) \in Nat /\ BLOCK_SIZE \in Nat
      BY RestFinite DEF Sizes
    <2>. QED  BY <2>1, <2>2
  <1>2. Rest(k) = {}
    BY <1>1, RestFinite
  <1>. QED  BY <1>2, WaitsInRest

-----------------------------------------------------------------------------
(* The producer's steps.                                                   *)

\* What is waited for does not depend on the entries.
LEMMA SameWaits ==
    ASSUME UNCHANGED <<headIndex, consumer>>
    PROVE  /\ \A pcs : At(pcs)' = At(pcs)
           /\ \A c : Number(c)' = Number(c)
           /\ \A i : Unread(i)' <=> Unread(i)
           /\ \A i : Waits(i)' <=> Waits(i)
  BY DEF At, Number, Unread, Waits

\* Steps of the producer that give no entry a block.
LEMMA QuietProducer ==
    ASSUME Sizes, DataOK, ElementsOK,
           Live' = Live,
           \A k \in Live : Key(k)' = Key(k) /\ BlockOf(k)' = BlockOf(k),
           \A b \in Blocks : uses[b] = 1 =>
               /\ uses'[b] = 1
               /\ elementsCompletelyDequeued'[b] = elementsCompletelyDequeued[b],
           UNCHANGED <<tailIndex, headIndex, elements, consumer>>,
           producer.pc # "store"
    PROVE  ElementsOK'
  <1>. HandsApart /\ LiveEntries /\ Stored /\ Counted /\ Emptying
    BY DEF ElementsOK
  <1>1. /\ \A pcs : At(pcs)' = At(pcs)
        /\ \A c : Number(c)' = Number(c)
        /\ \A i : Unread(i)' <=> Unread(i)
        /\ \A i : Waits(i)' <=> Waits(i)
    BY SameWaits
  <1>2. HandsApart'
    BY <1>1 DEF HandsApart
  <1>3. \A k \in Live : BlockOf(k) \in Blocks /\ uses[BlockOf(k)] = 1
    BY EntryTypes DEF LiveEntries
  <1>4. LiveEntries'
    <2>1. \A k \in Live : /\ uses'[BlockOf(k)] = 1 /\ Slot(Key(k)) = 0
                          /\ Key(k) < tailIndex
      BY <1>3 DEF LiveEntries
    <2>2. \A k, l \in Live : /\ Key(k) = Key(l) => k = l
                             /\ BlockOf(k) = BlockOf(l) => k = l
      BY DEF LiveEntries
    <2>3. \A k \in Live' : /\ uses'[BlockOf(k)'] = 1 /\ Slot(Key(k)') = 0
                           /\ Key(k)' < tailIndex'
      BY <2>1
    <2>4. \A k, l \in Live' : /\ Key(k)' = Key(l)' => k = l
                              /\ BlockOf(k)' = BlockOf(l)' => k = l
      BY <2>2
    <2>. QED  BY <2>3, <2>4 DEF LiveEntries, Slot
  <1>5. Stored'
    BY <1>1 DEF Stored, Base, Slot
  <1>6. Counted'
    <2>1. \A k \in Live : Rest(k)' = Rest(k)
      BY <1>1 DEF Rest
    <2>. QED  BY <1>3, <2>1 DEF Counted
  <1>7. Emptying'
    <2>0. \A k \in Live : /\ entries'[k].key = entries[k].key
                          /\ entries'[k].value = entries[k].value
      BY DEF Key, BlockOf
    <2>1. \A c \in At({"empty"}) :
             /\ consumer[c].entry \in Live
             /\ entries'[consumer[c].entry].value = consumer[c].block
             /\ entries'[consumer[c].entry].key = Base(consumer[c].element)
      BY <2>0 DEF Emptying, AtEmpty, AtClear, AtRelease, Key, BlockOf
    <2>2. \A c \in At({"clear"}) :
             /\ consumer[c].entry \in Live
             /\ entries'[consumer[c].entry].value = consumer[c].block
             /\ elementsCompletelyDequeued'[consumer[c].block] = BLOCK_SIZE
             /\ consumer[c].element # None
             /\ \A d \in At({"clear"}) : consumer[c].entry = consumer[d].entry => c = d
      BY <1>3, <2>0 DEF Emptying, AtEmpty, AtClear, AtRelease, BlockOf
    <2>3. \A c \in At({"release"}) :
             /\ consumer[c].block \in Blocks /\ uses'[consumer[c].block] = 1
             /\ \A k \in Live : entries'[k].value # consumer[c].block
             /\ consumer[c].element # None
             /\ \A d \in At({"release"}) : consumer[c].block = consumer[d].block => c = d
      BY <2>0 DEF Emptying, AtEmpty, AtClear, AtRelease, BlockOf
    <2>. QED  BY <1>1, <2>1, <2>2, <2>3 DEF Emptying, AtEmpty, AtClear, AtRelease, Key, BlockOf, Base, Slot
  <1>. QED  BY <1>2, <1>4, <1>5, <1>6, <1>7 DEF ElementsOK

\* An entry gets a block or loses it.
LEMMA ValueStored ==
    ASSUME Sizes, DataOK, NEW n \in DOMAIN entries, NEW v,
           entries' = [entries EXCEPT ![n].value = v]
    PROVE  /\ DOMAIN entries' = DOMAIN entries
           /\ \A k \in DOMAIN entries : entries'[k].key = entries[k].key
           /\ \A k \in DOMAIN entries \ {n} : entries'[k] = entries[k]
           /\ entries'[n].value = v
           /\ v # None => Live' = Live \cup {n}
           /\ v = None => Live' = Live \ {n}
           /\ v \in Blocks \cup {None} =>
                  entries' \in Seq([key : Nat, value : Blocks \cup {None}])
  <1>. DEFINE E == [key : Nat, value : Blocks \cup {None}]
  <1>1. entries \in Seq(E)
    BY DEF DataOK
  <1>2. \A e \in E : /\ [e EXCEPT !.value = v].key = e.key
                     /\ [e EXCEPT !.value = v].value = v
                     /\ v \in Blocks \cup {None} => [e EXCEPT !.value = v] \in E
    OBVIOUS
  <1>. HIDE DEF E
  <1>3. /\ DOMAIN entries' = DOMAIN entries
        /\ \A k \in DOMAIN entries \ {n} : entries'[k] = entries[k]
        /\ entries'[n] = [entries[n] EXCEPT !.value = v] /\ entries[n] \in E
    BY <1>1
  <1>4. /\ entries'[n].key = entries[n].key /\ entries'[n].value = v
        /\ v \in Blocks \cup {None} => entries'[n] \in E
    BY <1>2, <1>3
  <1>5. v \in Blocks \cup {None} => entries' \in Seq(E)
    BY <1>1, <1>3, <1>4
  <1>. QED  BY <1>3, <1>4, <1>5 DEF Live, BlockOf, E

\* An entry without a block gets a key.
LEMMA KeyStored ==
    ASSUME Sizes, DataOK, NEW n \in DOMAIN entries, BlockOf(n) = None, NEW i \in Nat,
           entries' = [entries EXCEPT ![n].key = i]
    PROVE  /\ DOMAIN entries' = DOMAIN entries
           /\ \A k \in DOMAIN entries : entries'[k].value = entries[k].value
           /\ \A k \in DOMAIN entries \ {n} : entries'[k] = entries[k]
           /\ entries'[n].key = i
           /\ Live' = Live /\ n \notin Live
           /\ entries' \in Seq([key : Nat, value : Blocks \cup {None}])
  <1>. DEFINE E == [key : Nat, value : Blocks \cup {None}]
  <1>1. entries \in Seq(E)
    BY DEF DataOK
  <1>2. \A e \in E : /\ [e EXCEPT !.key = i].key = i
                     /\ [e EXCEPT !.key = i].value = e.value
                     /\ [e EXCEPT !.key = i] \in E
    OBVIOUS
  <1>. HIDE DEF E
  <1>3. /\ DOMAIN entries' = DOMAIN entries
        /\ \A k \in DOMAIN entries \ {n} : entries'[k] = entries[k]
        /\ entries'[n] = [entries[n] EXCEPT !.key = i] /\ entries[n] \in E
    BY <1>1
  <1>4. /\ entries'[n].key = i /\ entries'[n].value = entries[n].value
        /\ entries'[n] \in E
    BY <1>2, <1>3
  <1>5. entries' \in Seq(E)
    BY <1>1, <1>3, <1>4
  <1>6. \A k \in DOMAIN entries : entries'[k].value = entries[k].value
    BY <1>3, <1>4
  <1>. QED  BY <1>3, <1>4, <1>5, <1>6 DEF Live, BlockOf, E

\* The tail's element is made in the block of the entry with the tail's base.
LEMMA StoreElement ==
    ASSUME Sizes, DataOK, ElementsOK,
           NEW b, NEW t \in Live, Key(t) = Base(tailIndex), BlockOf(t) = b,
           Store(b)
    PROVE  ElementsOK'
  <1>. HandsApart /\ LiveEntries /\ Stored /\ Counted /\ Emptying
    BY DEF ElementsOK
  <1>0. /\ tailIndex \in Nat /\ tailIndex' = tailIndex + 1 /\ headIndex \in Nat
        /\ UNCHANGED <<headIndex, consumer, entries, elementsCompletelyDequeued, uses>>
    BY DEF Store, index, pool, DataOK
  <1>1. /\ \A pcs : At(pcs)' = At(pcs)
        /\ \A c : Number(c)' = Number(c)
        /\ \A i : Unread(i)' <=> Unread(i)
        /\ \A i : Waits(i)' <=> Waits(i)
    BY <1>0, SameWaits
  <1>2. Live' = Live /\ \A k : Key(k)' = Key(k) /\ BlockOf(k)' = BlockOf(k)
    BY <1>0 DEF Live, Key, BlockOf
  <1>3. HandsApart'
    BY <1>0, <1>1 DEF HandsApart
  <1>4. LiveEntries'
    <2>1. \A k \in Live : Key(k) < tailIndex + 1
      BY <1>0, EntryTypes DEF LiveEntries
    <2>2. \A k \in Live' : /\ uses'[BlockOf(k)'] = 1 /\ Slot(Key(k)') = 0
                           /\ Key(k)' < tailIndex'
      BY <1>0, <1>2, <2>1 DEF LiveEntries
    <2>3. \A k, l \in Live' : /\ Key(k)' = Key(l)' => k = l
                              /\ BlockOf(k)' = BlockOf(l)' => k = l
      BY <1>2 DEF LiveEntries
    <2>. QED  BY <2>2, <2>3 DEF LiveEntries, Slot
  <1>5. Stored'
    <2>1. b \in Blocks /\ Slot(tailIndex) \in 0..BLOCK_SIZE - 1
      BY <1>0, EntryTypes, SlotOf
    <2>2. /\ elements'[b][Slot(tailIndex)] = tailIndex
          /\ \A a \in Blocks, s \in 0..BLOCK_SIZE - 1 :
                a # b \/ s # Slot(tailIndex) => elements'[a][s] = elements[a][s]
      BY <2>1 DEF Store, DataOK
    <2>3. ASSUME NEW i \in Nat, i < tailIndex + 1, Unread(i)
          PROVE  \E k \in Live : Key(k) = Base(i) /\ elements'[BlockOf(k)][Slot(i)] = i
      <3>1. CASE i = tailIndex
        BY <2>2, <3>1
      <3>2. CASE i # tailIndex
        <4>1. PICK k \in Live : Key(k) = Base(i) /\ elements[BlockOf(k)][Slot(i)] = i
          BY <1>0, <2>3, <3>2 DEF Stored
        <4>2. BlockOf(k) \in Blocks /\ Slot(i) \in 0..BLOCK_SIZE - 1
          BY EntryTypes, SlotOf
        <4>3. BlockOf(k) # b \/ Slot(i) # Slot(tailIndex)
          <5>1. BlockOf(k) = b => Base(i) = Base(tailIndex)
            BY <4>1 DEF LiveEntries
          <5>. QED  BY <1>0, <3>2, <5>1, SameNumber
        <4>. QED  BY <2>2, <4>1, <4>2, <4>3
      <3>. QED  BY <3>1, <3>2
    <2>. QED  BY <1>0, <1>1, <1>2, <2>3 DEF Stored, Slot, Base
  <1>6. Counted'
    BY <1>0, <1>1, <1>2 DEF Counted, Rest
  <1>7. Emptying'
    BY <1>0, <1>1 DEF Emptying, AtEmpty, AtClear, AtRelease, Live, Key, BlockOf, Base, Slot
  <1>. QED  BY <1>3, <1>4, <1>5, <1>6, <1>7 DEF ElementsOK

\* The new entry gets its block.
LEMMA StoreValueElements ==
    ASSUME Sizes, DataOK, ElementsOK, Filling, StoreValue
    PROVE  ElementsOK' /\ NewEntry \in Live' /\ Live' = Live \cup {NewEntry}
  <1>. HandsApart /\ LiveEntries /\ Stored /\ Counted /\ Emptying
    BY DEF ElementsOK
  <1>0. /\ producer.pc = "value" /\ producer'.pc = "store"
        /\ UNCHANGED <<tailIndex, headIndex, consumer, elements, elementsCompletelyDequeued, uses>>
        /\ tailIndex \in Nat /\ headIndex \in Nat /\ headIndex <= tailIndex
    BY DEF StoreValue, counters, storage, pool, DataOK
  <1>1. /\ \A pcs : At(pcs)' = At(pcs)
        /\ \A c : Number(c)' = Number(c)
        /\ \A i : Unread(i)' <=> Unread(i)
        /\ \A i : Waits(i)' <=> Waits(i)
    BY <1>0, SameWaits
  <1>. PICK n \in DOMAIN entries : n = NewEntry
    BY <1>0 DEF Filling
  <1>. PICK b \in Blocks : b = producer.block
    BY <1>0 DEF Filling
  <1>2. /\ BlockOf(n) = None /\ Key(n) = tailIndex /\ Slot(tailIndex) = 0 /\ b # None
        /\ uses[b] = 1 /\ elementsCompletelyDequeued[b] = 0
        /\ \A k \in Live : BlockOf(k) # b
        /\ \A c \in At({"release"}) : consumer[c].block # b
    BY <1>0, NoBlock DEF Filling
  <1>3. /\ DOMAIN entries' = DOMAIN entries
        /\ \A k \in DOMAIN entries : entries'[k].key = entries[k].key
        /\ \A k \in DOMAIN entries \ {n} : entries'[k] = entries[k]
        /\ entries'[n].value = b
        /\ Live' = Live \cup {n}
    <2>1. entries' = [entries EXCEPT ![n].value = b]
      BY DEF StoreValue
    <2>. QED  BY <1>2, <2>1, ValueStored
  <1>4. n \notin Live /\ Live \subseteq DOMAIN entries
    BY <1>2 DEF Live
  <1>5. /\ \A k \in Live : Key(k)' = Key(k) /\ BlockOf(k)' = BlockOf(k)
        /\ Key(n)' = tailIndex /\ BlockOf(n)' = b
    BY <1>2, <1>3, <1>4 DEF Key, BlockOf
  <1>6. HandsApart'
    BY <1>0, <1>1 DEF HandsApart
  <1>7. LiveEntries'
    <2>1. \A k \in Live : Key(k) \in Nat /\ Key(k) < tailIndex
      BY <1>0, EntryTypes DEF LiveEntries
    <2>2. \A k \in Live' : /\ uses'[BlockOf(k)'] = 1 /\ Slot(Key(k)') = 0
                           /\ Key(k)' < tailIndex' \/ (producer'.pc = "store" /\ Key(k)' = tailIndex')
      BY <1>0, <1>2, <1>3, <1>5, <2>1 DEF LiveEntries
    <2>3. \A k, l \in Live' : /\ Key(k)' = Key(l)' => k = l
                              /\ BlockOf(k)' = BlockOf(l)' => k = l
      <3>1. \A k \in Live : Key(k)' # Key(n)' /\ BlockOf(k)' # BlockOf(n)'
        BY <1>0, <1>2, <1>5, <2>1
      <3>2. \A k, l \in Live : /\ Key(k)' = Key(l)' => k = l
                               /\ BlockOf(k)' = BlockOf(l)' => k = l
        BY <1>5 DEF LiveEntries
      <3>. QED  BY <1>3, <3>1, <3>2
    <2>. QED  BY <2>2, <2>3 DEF LiveEntries, Slot
  <1>8. Stored'
    BY <1>0, <1>1, <1>3, <1>5 DEF Stored, Base, Slot
  <1>9. Counted'
    <2>1. \A k \in Live : Rest(k)' = Rest(k)
      BY <1>1, <1>5 DEF Rest
    <2>2. Rest(n)' = 0..BLOCK_SIZE - 1
      BY <1>0, <1>1, <1>5 DEF Rest, Waits, Sizes
    <2>3. Cardinality(0..BLOCK_SIZE - 1) = BLOCK_SIZE
      BY FS_Interval DEF Sizes
    <2>. QED  BY <1>0, <1>2, <1>3, <1>5, <2>1, <2>2, <2>3 DEF Counted, Sizes
  <1>10. Emptying'
    <2>0. \A k \in Live : k \in Live' /\ entries'[k].key = entries[k].key
                                      /\ entries'[k].value = entries[k].value
      BY <1>3, <1>4
    <2>1. \A c \in At({"empty"}) :
             /\ consumer[c].entry \in Live'
             /\ entries'[consumer[c].entry].value = consumer[c].block
             /\ entries'[consumer[c].entry].key = Base(consumer[c].element)
      BY <2>0 DEF Emptying, AtEmpty, AtClear, AtRelease, Key, BlockOf
    <2>2. \A c \in At({"clear"}) :
             /\ consumer[c].entry \in Live'
             /\ entries'[consumer[c].entry].value = consumer[c].block
      BY <2>0 DEF Emptying, AtEmpty, AtClear, AtRelease, BlockOf
    <2>3. \A c \in At({"release"}) : \A k \in Live' : entries'[k].value # consumer[c].block
      BY <1>2, <1>3, <2>0 DEF Emptying, AtEmpty, AtClear, AtRelease, BlockOf
    <2>. QED  BY <1>0, <1>1, <2>1, <2>2, <2>3 DEF Emptying, AtEmpty, AtClear, AtRelease, Key, BlockOf, Base, Slot
  <1>. QED  BY <1>3, <1>6, <1>7, <1>8, <1>9, <1>10 DEF ElementsOK

-----------------------------------------------------------------------------
(* The consumers' steps.                                                   *)

\* A step of one consumer leaves the others where they are.
LEMMA CallerMoves ==
    ASSUME DataOK, NEW c \in Consumers, NEW from, NEW new \in Callers, Goes(c, from, new)
    PROVE  /\ consumer[c].pc = from
           /\ consumer'[c] = new
           /\ \A d \in Consumers \ {c} : consumer'[d] = consumer[d]
           /\ consumer' \in [Consumers -> Callers]
  BY DEF DataOK, Goes

\* Steps that leave what is unread and what is waited for.
LEMMA SameElements ==
    ASSUME Sizes, DataOK, ElementsOK, HandsApart',
           \A i \in Nat : /\ Unread(i)' <=> Unread(i)
                          /\ Waits(i)' <=> Waits(i),
           \A pcs \in {{"empty"}, {"clear"}, {"release"}} : At(pcs)' = At(pcs),
           \A c \in At({"empty", "clear", "release"}) : consumer'[c] = consumer[c],
           UNCHANGED <<tailIndex, entries, elements, elementsCompletelyDequeued, uses,
                       producer>>
    PROVE  ElementsOK'
  <1>. HandsApart /\ LiveEntries /\ Stored /\ Counted /\ Emptying
    BY DEF ElementsOK
  <1>1. Live' = Live /\ \A k : Key(k)' = Key(k) /\ BlockOf(k)' = BlockOf(k)
    BY DEF Live, Key, BlockOf
  <1>2. LiveEntries'
    BY <1>1 DEF LiveEntries, Slot
  <1>3. Stored'
    BY <1>1 DEF Stored, Slot, Base
  <1>4. Counted'
    <2>1. \A k \in Live, s \in 0..BLOCK_SIZE - 1 : Key(k) + s \in Nat
      BY EntryTypes DEF Sizes
    <2>2. \A k \in Live : Rest(k)' = Rest(k)
      BY <1>1, <2>1 DEF Rest
    <2>. QED  BY <1>1, <2>2 DEF Counted
  <1>5. Emptying'
    <2>1. /\ At({"empty"})' = At({"empty"})
          /\ At({"clear"})' = At({"clear"})
          /\ At({"release"})' = At({"release"})
      OBVIOUS
    <2>2. \A c \in At({"empty"}) \cup At({"clear"}) \cup At({"release"}) :
              consumer'[c] = consumer[c]
      BY DEF At
    <2>. QED  BY <2>1, <2>2 DEF Emptying, AtEmpty, AtClear, AtRelease, Live, Key, BlockOf, Base, Slot
  <1>. QED  BY <1>2, <1>3, <1>4, <1>5 DEF ElementsOK

\* Steps of a consumer that keeps the element it has, or has none before and after.
LEMMA QuietConsumer ==
    ASSUME Sizes, DataOK, ElementsOK, NEW c \in Consumers,
           NEW from, NEW new \in Callers, Goes(c, from, new),
           \/ from \in Reading /\ new.pc \in Reading /\ new.index = consumer[c].index
           \/ /\ from \notin {"header", "key", "value", "empty", "clear", "release"}
              /\ new.pc \notin {"header", "key", "value", "empty", "clear", "release"},
           UNCHANGED <<tailIndex, headIndex, entries, elements, elementsCompletelyDequeued,
                       uses, producer>>
    PROVE  ElementsOK'
  <1>1. /\ consumer[c].pc = from
        /\ consumer'[c] = new
        /\ \A d \in Consumers \ {c} : consumer'[d] = consumer[d]
    BY CallerMoves
  <1>2. /\ At(Reading)' = At(Reading) /\ At(Holding)' = At(Holding)
        /\ \A pcs \in {{"empty"}, {"clear"}, {"release"}} : At(pcs)' = At(pcs)
        /\ \A d \in At({"empty", "clear", "release"}) : consumer'[d] = consumer[d]
    BY <1>1 DEF At, Reading, Holding
  <1>3. /\ \A d \in At(Reading) : consumer'[d].index = consumer[d].index
        /\ \A d \in At(Holding) : Number(d)' = Number(d)
    BY <1>1 DEF At, Reading, Holding, Number
  <1>4. HandsApart'
    BY <1>2, <1>3 DEF ElementsOK, HandsApart
  <1>5. \A i \in Nat : /\ Unread(i)' <=> Unread(i)
                       /\ Waits(i)' <=> Waits(i)
    BY <1>2, <1>3 DEF Unread, Waits
  <1>. QED  BY <1>2, <1>4, <1>5, SameElements

\* The head's element goes to a consumer.
LEMMA TakeElements ==
    ASSUME Sizes, DataOK, ElementsOK, NEW c \in Consumers,
           NEW new \in Callers, Goes(c, "take", new),
           new.pc = "header", new.index = headIndex, headIndex' = headIndex + 1,
           UNCHANGED <<tailIndex, entries, elements, elementsCompletelyDequeued, uses,
                       producer>>
    PROVE  ElementsOK'
  <1>0. headIndex \in Nat
    BY DEF DataOK
  <1>1. /\ consumer[c].pc = "take"
        /\ consumer'[c] = new
        /\ \A d \in Consumers \ {c} : consumer'[d] = consumer[d]
    BY CallerMoves
  <1>2. /\ At(Reading)' = At(Reading) \cup {c} /\ At(Holding)' = At(Holding) \cup {c}
        /\ c \notin At(Holding) /\ c \notin At(Reading)
        /\ \A pcs \in {{"empty"}, {"clear"}, {"release"}} : At(pcs)' = At(pcs)
        /\ \A d \in At({"empty", "clear", "release"}) : consumer'[d] = consumer[d]
    BY <1>1 DEF At, Reading, Holding
  <1>3. /\ \A d \in At(Reading) : consumer'[d].index = consumer[d].index
        /\ \A d \in At(Holding) : Number(d)' = Number(d)
        /\ consumer'[c].index = headIndex /\ Number(c)' = headIndex
    BY <1>1, <1>2 DEF At, Reading, Holding, Number
  <1>4. HandsApart'
    <2>1. \A d \in At(Holding) : Number(d)' \in Nat /\ Number(d)' < headIndex
      BY <1>3 DEF ElementsOK, HandsApart
    <2>2. \A d, e \in At(Holding) : Number(d)' = Number(e)' => d = e
      BY <1>3 DEF ElementsOK, HandsApart
    <2>3. \A d \in At(Holding)' : Number(d)' \in Nat /\ Number(d)' < headIndex'
      BY <1>0, <1>2, <1>3, <2>1
    <2>4. \A d, e \in At(Holding)' : Number(d)' = Number(e)' => d = e
      BY <1>0, <1>2, <1>3, <2>1, <2>2
    <2>. QED  BY <2>3, <2>4 DEF HandsApart
  <1>5. \A i \in Nat : i >= headIndex <=> i >= headIndex' \/ i = headIndex
    BY <1>0
  <1>6. \A i \in Nat : /\ Unread(i)' <=> Unread(i)
                       /\ Waits(i)' <=> Waits(i)
    BY <1>2, <1>3, <1>5 DEF Unread, Waits
  <1>. QED  BY <1>2, <1>4, <1>6, SameElements

\* A consumer takes its element out of the block, and it is the one it came for.
LEMMA LoadValueElements ==
    ASSUME Sizes, DataOK, ElementsOK, NEW c \in Consumers, consumer[c].pc = "value",
           consumer[c].entry \in Live, Key(consumer[c].entry) = Base(consumer[c].index),
           NEW new \in Callers, Goes(c, "value", new), new.pc = "empty",
           NEW b, NEW s, b = BlockOf(consumer[c].entry), s = Slot(consumer[c].index),
           new.entry = consumer[c].entry, new.block = b, new.element = elements[b][s],
           \A a \in Blocks, r \in 0..BLOCK_SIZE - 1 :
               a # b \/ r # s => elements'[a][r] = elements[a][r],
           UNCHANGED <<tailIndex, headIndex, entries, elementsCompletelyDequeued, uses,
                       producer>>
    PROVE  ElementsOK' /\ elements[b][s] = consumer[c].index
  <1>. HandsApart /\ LiveEntries /\ Stored /\ Counted /\ Emptying
    BY DEF ElementsOK
  <1>0. headIndex \in Nat /\ tailIndex \in Nat /\ headIndex <= tailIndex
    BY DEF DataOK
  <1>1. /\ consumer'[c] = new
        /\ \A d \in Consumers \ {c} : consumer'[d] = consumer[d]
    BY CallerMoves
  <1>2. c \in At(Reading) /\ c \in At(Holding) /\ Number(c) = consumer[c].index
    BY DEF At, Reading, Holding, Number
  <1>. PICK i \in Nat : i = consumer[c].index /\ i < headIndex /\ i = Number(c)
    BY <1>2 DEF HandsApart
  <1>. PICK t \in Live : t = consumer[c].entry
    OBVIOUS
  <1>3. elements[b][s] = i
    <2>1. Unread(i) /\ i < tailIndex
      BY <1>0, <1>2 DEF Unread
    <2>2. PICK k \in Live : Key(k) = Base(i) /\ elements[BlockOf(k)][Slot(i)] = i
      BY <2>1 DEF Stored
    <2>3. k = t
      BY <2>2 DEF LiveEntries
    <2>. QED  BY <2>2, <2>3
  <1>4. /\ At(Reading)' = At(Reading) \ {c} /\ At(Holding)' = At(Holding)
        /\ At({"empty"})' = At({"empty"}) \cup {c} /\ c \notin At({"empty"})
        /\ At({"clear"})' = At({"clear"}) /\ At({"release"})' = At({"release"})
        /\ \A d \in At({"empty", "clear", "release"}) : consumer'[d] = consumer[d]
    BY <1>1 DEF At, Reading, Holding
  <1>5. /\ \A d \in At(Reading) \ {c} : consumer'[d].index = consumer[d].index
        /\ \A d \in At(Holding) : Number(d)' = Number(d)
    <2>1. \A d \in At(Reading) \cup At(Holding) : d \in Consumers
      BY DEF At
    <2>2. Number(c)' = Number(c)
      BY <1>1, <1>3 DEF Number
    <2>3. \A d \in Consumers \ {c} : Number(d)' = Number(d)
      BY <1>1 DEF Number
    <2>. QED  BY <1>1, <2>1, <2>2, <2>3
  <1>6. \A j \in Nat : Waits(j)' <=> Waits(j)
    BY <1>4, <1>5 DEF Waits
  <1>7. \A j \in Nat : Unread(j)' => Unread(j) /\ j # i
    <2>1. \A d \in At(Reading) \ {c} : consumer[d].index # i
      BY <1>2 DEF HandsApart, At, Reading, Holding, Number
    <2>. QED  BY <1>0, <1>4, <1>5, <2>1 DEF Unread
  <1>8. Live' = Live /\ \A k : Key(k)' = Key(k) /\ BlockOf(k)' = BlockOf(k)
    BY DEF Live, Key, BlockOf
  <1>9. HandsApart'
    BY <1>4, <1>5 DEF HandsApart
  <1>10. LiveEntries'
    BY <1>8 DEF LiveEntries, Slot
  <1>11. Stored'
    <2>3. ASSUME NEW j \in Nat, j < tailIndex, Unread(j), j # i
          PROVE  \E k \in Live : Key(k) = Base(j) /\ elements'[BlockOf(k)][Slot(j)] = j
      <3>1. PICK k \in Live : Key(k) = Base(j) /\ elements[BlockOf(k)][Slot(j)] = j
        BY <2>3 DEF Stored
      <3>2. BlockOf(k) \in Blocks /\ Slot(j) \in 0..BLOCK_SIZE - 1
        BY EntryTypes, SlotOf
      <3>3. BlockOf(k) # b \/ Slot(j) # s
        <4>1. BlockOf(k) = b => Base(j) = Base(i)
          BY <3>1 DEF LiveEntries
        <4>. QED  BY <2>3, <4>1, SameNumber
      <3>. QED  BY <3>1, <3>2, <3>3
    <2>. QED  BY <1>7, <1>8, <2>3 DEF Stored, Slot, Base
  <1>12. Counted'
    <2>1. \A k \in Live, r \in 0..BLOCK_SIZE - 1 : Key(k) + r \in Nat
      BY EntryTypes DEF Sizes
    <2>2. \A k \in Live : Rest(k)' = Rest(k)
      BY <1>6, <1>8, <2>1 DEF Rest
    <2>. QED  BY <1>8, <2>2 DEF Counted
  <1>13. Emptying'
    <2>0. AtEmpty /\ AtClear /\ AtRelease
      BY DEF Emptying
    <2>1. /\ \A d \in At({"empty"}) : consumer'[d] = consumer[d]
          /\ \A d \in At({"clear"}) : consumer'[d] = consumer[d]
          /\ \A d \in At({"release"}) : consumer'[d] = consumer[d]
      BY <1>4 DEF At
    <2>2. Live' = Live /\ UNCHANGED <<entries, elementsCompletelyDequeued, uses>>
      BY <1>8
    <2>3. AtEmpty'
      <3>1. /\ consumer'[c].entry \in Live
            /\ entries'[consumer'[c].entry].value = consumer'[c].block
            /\ entries'[consumer'[c].entry].key = Base(consumer'[c].element)
        BY <1>1, <1>3, <1>8 DEF Key, BlockOf
      <3>2. \A d \in At({"empty"}) :
               /\ consumer'[d].entry \in Live
               /\ entries'[consumer'[d].entry].value = consumer'[d].block
               /\ entries'[consumer'[d].entry].key = Base(consumer'[d].element)
        BY <1>8, <2>0, <2>1, Zenon DEF AtEmpty, Key, BlockOf
      <3>3. At({"empty"})' = At({"empty"}) \cup {c}
        BY <1>4
      <3>. QED  BY ONLY <2>2, <3>1, <3>2, <3>3 DEF AtEmpty, Key, BlockOf, Base, Slot
    <2>4. AtClear'
      <3>1. At({"clear"})' = At({"clear"})
        BY <1>4
      <3>2. \A d \in At({"clear"}) :
               /\ consumer'[d].entry \in Live
               /\ entries[consumer'[d].entry].value = consumer'[d].block
               /\ elementsCompletelyDequeued[consumer'[d].block] = BLOCK_SIZE
               /\ consumer'[d].element # None
        BY <2>0, <2>1, Zenon DEF AtClear, BlockOf
      <3>3. \A d, e \in At({"clear"}) : consumer'[d].entry = consumer'[e].entry => d = e
        BY <2>0, <2>1 DEF AtClear
      <3>. QED  BY ONLY <2>2, <3>1, <3>2, <3>3 DEF AtClear, BlockOf
    <2>5. AtRelease'
      <3>1. At({"release"})' = At({"release"})
        BY <1>4
      <3>2. \A d \in At({"release"}) :
               /\ consumer'[d].block \in Blocks /\ uses[consumer'[d].block] = 1
               /\ consumer'[d].element # None
        BY <2>0, <2>1, Zenon DEF AtRelease
      <3>3. \A d \in At({"release"}) : \A k \in Live : entries[k].value # consumer'[d].block
        BY ONLY <2>0, <2>1 DEF AtRelease, BlockOf
      <3>4. \A d, e \in At({"release"}) : consumer'[d].block = consumer'[e].block => d = e
        BY <2>0, <2>1 DEF AtRelease
      <3>. QED  BY ONLY <2>2, <3>1, <3>2, <3>3, <3>4 DEF AtRelease, BlockOf
    <2>. QED  BY <2>3, <2>4, <2>5 DEF Emptying
  <1>. QED  BY <1>3, <1>9, <1>10, <1>11, <1>12, <1>13 DEF ElementsOK

\* A consumer tells its block that its element is gone.
LEMMA SetEmptyElements ==
    ASSUME Sizes, DataOK, ElementsOK, NEW c \in Consumers,
           NEW new \in Callers, Goes(c, "empty", new),
           NEW b, b = consumer[c].block,
           \/ /\ elementsCompletelyDequeued[b] = BLOCK_SIZE - 1 /\ new.pc = "clear"
              /\ new.entry = consumer[c].entry /\ new.block = b
              /\ new.element = consumer[c].element
           \/ elementsCompletelyDequeued[b] # BLOCK_SIZE - 1 /\ new.pc = "idle",
           elementsCompletelyDequeued' = [elementsCompletelyDequeued EXCEPT ![b] = @ + 1],
           UNCHANGED <<tailIndex, headIndex, entries, elements, uses, producer>>
    PROVE  ElementsOK'
  <1>. HandsApart /\ LiveEntries /\ Stored /\ Counted /\ Emptying
    BY DEF ElementsOK
  <1>0. headIndex \in Nat /\ BLOCK_SIZE \in Nat
    BY DEF DataOK, Sizes
  <1>1. /\ consumer[c].pc = "empty" /\ consumer'[c] = new
        /\ \A d \in Consumers \ {c} : consumer'[d] = consumer[d]
    BY CallerMoves
  <1>2. c \in At({"empty"}) /\ c \in At(Holding) /\ Number(c) = consumer[c].element
    BY <1>1 DEF At, Holding, Number
  <1>. PICK i \in Nat : i = consumer[c].element /\ i < headIndex /\ i = Number(c)
    BY <1>2 DEF HandsApart
  <1>. PICK t \in Live : t = consumer[c].entry /\ BlockOf(t) = b /\ Key(t) = Base(i)
    BY <1>2 DEF Emptying, AtEmpty
  <1>3. /\ At(Reading)' = At(Reading) /\ At(Holding)' = At(Holding) \ {c}
        /\ At({"empty"})' = At({"empty"}) \ {c}
        /\ At({"release"})' = At({"release"}) /\ c \notin At({"release"})
        /\ c \notin At(Reading) /\ c \notin At({"clear"})
        /\ \/ At({"clear"})' = At({"clear"})
           \/ /\ elementsCompletelyDequeued[b] = BLOCK_SIZE - 1 /\ new.entry = t
              /\ new.block = b /\ new.element = i
              /\ At({"clear"})' = At({"clear"}) \cup {c}
    BY <1>1 DEF At, Reading, Holding
  <1>4. /\ \A d \in At(Reading) : consumer'[d].index = consumer[d].index
        /\ \A d \in At(Holding) \ {c} : Number(d)' = Number(d)
    BY <1>1, <1>3 DEF At, Number
  <1>5. \A j \in Nat : Unread(j)' <=> Unread(j)
    BY <1>3, <1>4 DEF Unread
  <1>6. Waits(i) /\ \A j \in Nat : Waits(j)' <=> Waits(j) /\ j # i
    <2>1. \A d \in At(Holding) \ {c} : Number(d) # i
      BY <1>2 DEF HandsApart
    <2>2. ~(i >= headIndex) /\ headIndex' = headIndex
      BY <1>0
    <2>3. Waits(i)
      BY <1>2 DEF Waits
    <2>4. ASSUME NEW j \in Nat
          PROVE  Waits(j)' <=> Waits(j) /\ j # i
      <3>1. Waits(j)' <=> j >= headIndex \/ \E d \in At(Holding) \ {c} : Number(d) = j
        BY <1>3, <1>4, <2>2 DEF Waits
      <3>2. Waits(j) <=> \/ j >= headIndex
                         \/ j = i
                         \/ \E d \in At(Holding) \ {c} : Number(d) = j
        BY <1>2 DEF Waits
      <3>. QED  BY <2>1, <2>2, <3>1, <3>2
    <2>. QED  BY <2>3, <2>4
  <1>7. Live' = Live /\ \A k : Key(k)' = Key(k) /\ BlockOf(k)' = BlockOf(k)
    BY DEF Live, Key, BlockOf
  <1>8. HandsApart'
    BY <1>3, <1>4 DEF HandsApart
  <1>9. LiveEntries'
    BY DEF LiveEntries, Live, Key, BlockOf, Slot
  <1>10. Stored'
    BY <1>5, <1>7 DEF Stored, Slot, Base
  <1>11. /\ b \in Blocks /\ elementsCompletelyDequeued[b] \in Nat
         /\ elementsCompletelyDequeued'[b] = elementsCompletelyDequeued[b] + 1
         /\ \A a \in Blocks \ {b} :
               elementsCompletelyDequeued'[a] = elementsCompletelyDequeued[a]
    BY EntryTypes DEF DataOK
  <1>12. Slot(i) \in Rest(t) /\ Rest(t)' = Rest(t) \ {Slot(i)}
    <2>1. Slot(i) \in Rest(t)
      BY <1>6, WaitsInRest
    <2>2. \A s \in 0..BLOCK_SIZE - 1 : Key(t) + s \in Nat /\ (Key(t) + s = i <=> s = Slot(i))
      <3>1. Key(t) \in Nat /\ i = Key(t) + Slot(i) /\ Slot(i) \in 0..BLOCK_SIZE - 1
        BY EntryTypes, SlotOf
      <3>. QED  BY <1>0, <3>1
    <2>. QED  BY <1>6, <1>7, <2>1, <2>2 DEF Rest
  <1>13. \A k \in Live \ {t} : Rest(k)' = Rest(k) /\ BlockOf(k) # b
    <2>. SUFFICES ASSUME NEW k \in Live, k # t
                  PROVE  Rest(k)' = Rest(k) /\ BlockOf(k) # b
      OBVIOUS
    <2>1. BlockOf(k) # b /\ Key(k) # Key(t)
      BY DEF LiveEntries
    <2>2. \A s \in 0..BLOCK_SIZE - 1 : Key(k) + s \in Nat /\ Key(k) + s # i
      <3>1. Key(k) \in Nat /\ Slot(Key(k)) = 0
        BY EntryTypes DEF LiveEntries
      <3>. QED  BY <2>1, <3>1, SlotFrom
    <2>. QED  BY <1>6, <1>7, <2>1, <2>2 DEF Rest
  <1>14. Counted'
    <2>1. elementsCompletelyDequeued'[b] + Cardinality(Rest(t)') = BLOCK_SIZE
      <3>1. Cardinality(Rest(t) \ {Slot(i)}) = Cardinality(Rest(t)) - 1
        BY <1>12, RestFinite, FS_RemoveElement
      <3>2. elementsCompletelyDequeued[b] + Cardinality(Rest(t)) = BLOCK_SIZE
        BY DEF Counted
      <3>3. Cardinality(Rest(t)) \in Nat
        BY RestFinite
      <3>. QED  BY <1>0, <1>11, <1>12, <3>1, <3>2, <3>3
    <2>2. \A k \in Live \ {t} :
             elementsCompletelyDequeued'[BlockOf(k)] + Cardinality(Rest(k)') = BLOCK_SIZE
      BY <1>11, <1>13, EntryTypes DEF Counted
    <2>. QED  BY <1>7, <2>1, <2>2 DEF Counted
  <1>15. \A d \in At({"clear"}) : consumer[d].entry # t /\ consumer[d].block # b
                                 /\ consumer[d].block \in Blocks
    <2>. SUFFICES ASSUME NEW d \in At({"clear"})
                  PROVE  consumer[d].entry # t /\ consumer[d].block # b
                         /\ consumer[d].block \in Blocks
      OBVIOUS
    <2>. PICK k \in Live : k = consumer[d].entry /\ BlockOf(k) = consumer[d].block
                           /\ elementsCompletelyDequeued[BlockOf(k)] = BLOCK_SIZE
      BY DEF Emptying, AtClear
    <2>1. k # t
      BY <1>6, NothingWaits
    <2>2. BlockOf(k) # b
      BY <2>1 DEF LiveEntries
    <2>. QED  BY <2>1, <2>2, EntryTypes
  <1>16. /\ \A d \in At({"empty"}) \ {c} : consumer'[d] = consumer[d]
         /\ \A d \in At({"clear"}) : consumer'[d] = consumer[d]
         /\ \A d \in At({"release"}) : consumer'[d] = consumer[d]
    BY <1>1, <1>3 DEF At
  <1>17. AtEmpty'
    BY <1>3, <1>16 DEF Emptying, AtEmpty, Live, Key, BlockOf, Slot, Base
  <1>18. AtRelease'
    BY <1>3, <1>16 DEF Emptying, AtRelease, Live, BlockOf
  <1>19. AtClear'
    <2>1. \A d \in At({"clear"}) :
             /\ consumer'[d].entry \in Live
             /\ entries[consumer'[d].entry].value = consumer'[d].block
             /\ elementsCompletelyDequeued'[consumer'[d].block] = BLOCK_SIZE
             /\ consumer'[d].element # None
             /\ consumer'[d].entry # t
             /\ \A e \in At({"clear"}) : consumer'[d].entry = consumer'[e].entry => d = e
      BY <1>11, <1>15, <1>16 DEF Emptying, AtClear, BlockOf
    <2>2. CASE At({"clear"})' = At({"clear"})
      BY <1>7, <2>1, <2>2 DEF AtClear, BlockOf
    <2>3. CASE /\ elementsCompletelyDequeued[b] = BLOCK_SIZE - 1 /\ new.entry = t
               /\ new.block = b /\ new.element = i
               /\ At({"clear"})' = At({"clear"}) \cup {c}
      <3>1. /\ consumer'[c].entry = t /\ t \in Live /\ entries[t].value = b
            /\ consumer'[c].block = b
            /\ elementsCompletelyDequeued'[b] = BLOCK_SIZE
            /\ consumer'[c].element # None
        BY <1>0, <1>1, <1>11, <2>3 DEF BlockOf, Sizes
      <3>2. \A d \in At({"clear"})' :
             /\ consumer'[d].entry \in Live
             /\ entries[consumer'[d].entry].value = consumer'[d].block
             /\ elementsCompletelyDequeued'[consumer'[d].block] = BLOCK_SIZE
             /\ consumer'[d].element # None
        BY <2>1, <2>3, <3>1
      <3>3. \A d, e \in At({"clear"})' : consumer'[d].entry = consumer'[e].entry => d = e
        BY <2>1, <2>3, <3>1
      <3>. QED  BY <1>7, <3>2, <3>3 DEF AtClear, BlockOf
    <2>. QED  BY <1>3, <2>2, <2>3
  <1>. QED  BY <1>8, <1>9, <1>10, <1>14, <1>17, <1>18, <1>19 DEF ElementsOK, Emptying

\* The entry of an emptied block loses it: nothing waits there any more.
LEMMA ClearEntryElements ==
    ASSUME Sizes, DataOK, ElementsOK, NEW c \in Consumers,
           NEW new \in Callers, Goes(c, "clear", new), new.pc = "release",
           new.block = consumer[c].block, new.element = consumer[c].element,
           entries' = [entries EXCEPT ![consumer[c].entry].value = None],
           UNCHANGED <<tailIndex, headIndex, elements, elementsCompletelyDequeued, uses,
                       producer>>
    PROVE  /\ ElementsOK'
           /\ consumer[c].entry \in Live /\ Live' = Live \ {consumer[c].entry}
           /\ \A k \in Live : Key(k) # Key(consumer[c].entry) => k \in Live'
           /\ \A j \in Nat : Waits(j) => Base(j) # Key(consumer[c].entry)
  <1>. HandsApart /\ LiveEntries /\ Stored /\ Counted /\ Emptying
    BY DEF ElementsOK
  <1>1. /\ consumer[c].pc = "clear" /\ consumer'[c] = new
        /\ \A d \in Consumers \ {c} : consumer'[d] = consumer[d]
    BY CallerMoves
  <1>2. c \in At({"clear"})
    BY <1>1 DEF At
  <1>. PICK t \in Live : t = consumer[c].entry /\ BlockOf(t) = consumer[c].block
                         /\ elementsCompletelyDequeued[BlockOf(t)] = BLOCK_SIZE
    BY <1>2 DEF Emptying, AtClear
  <1>3. \A j \in Nat : Waits(j) => Base(j) # Key(t)
    BY NothingWaits
  <1>4. /\ At(Reading)' = At(Reading) /\ At(Holding)' = At(Holding)
        /\ At({"empty"})' = At({"empty"})
        /\ At({"clear"})' = At({"clear"}) \ {c}
        /\ At({"release"})' = At({"release"}) \cup {c} /\ c \notin At({"release"})
        /\ c \notin At(Reading) /\ c \notin At(Holding)
    BY <1>1 DEF At, Reading, Holding
  <1>5. /\ \A d \in At(Reading) : consumer'[d].index = consumer[d].index
        /\ \A d \in At(Holding) : Number(d)' = Number(d)
    BY <1>1, <1>4 DEF At, Number
  <1>6. \A j \in Nat : /\ Unread(j)' <=> Unread(j)
                       /\ Waits(j)' <=> Waits(j)
    BY <1>4, <1>5 DEF Unread, Waits
  <1>7. /\ DOMAIN entries' = DOMAIN entries
        /\ \A k \in DOMAIN entries : entries'[k].key = entries[k].key
        /\ \A k \in DOMAIN entries \ {t} : entries'[k] = entries[k]
        /\ Live' = Live \ {t}
    <2>1. t \in DOMAIN entries
      BY DEF Live
    <2>. QED  BY <2>1, ValueStored
  <1>8. \A k \in Live' : /\ k \in Live /\ k # t
                         /\ entries'[k].key = entries[k].key
                         /\ entries'[k].value = entries[k].value
    BY <1>7 DEF Live
  <1>9. HandsApart'
    BY <1>4, <1>5 DEF HandsApart
  <1>10. LiveEntries'
    <2>1. \A k \in Live' : /\ uses[entries'[k].value] = 1 /\ Slot(entries'[k].key) = 0
                           /\ \/ entries'[k].key < tailIndex
                              \/ producer.pc = "store" /\ entries'[k].key = tailIndex
      BY <1>8 DEF LiveEntries, Key, BlockOf
    <2>2. \A k, l \in Live' : /\ entries'[k].key = entries'[l].key => k = l
                              /\ entries'[k].value = entries'[l].value => k = l
      BY <1>8 DEF LiveEntries, Key, BlockOf
    <2>. QED  BY <2>1, <2>2 DEF LiveEntries, Key, BlockOf, Slot
  <1>11. Stored'
    <2>1. ASSUME NEW j \in Nat, j < tailIndex, Unread(j)
          PROVE  \E k \in Live' : /\ entries'[k].key = Base(j)
                                  /\ elements[entries'[k].value][Slot(j)] = j
      <3>1. PICK k \in Live : Key(k) = Base(j) /\ elements[BlockOf(k)][Slot(j)] = j
        BY <2>1 DEF Stored
      <3>2. k # t
        BY <1>3, <2>1, <3>1, UnreadWaits
      <3>3. k \in Live'
        BY <1>7, <3>2
      <3>. QED  BY <1>8, <3>1, <3>3 DEF Key, BlockOf
    <2>2. \A j \in Nat : j < tailIndex /\ Unread(j)' =>
             \E k \in Live' : /\ entries'[k].key = Base(j)
                              /\ elements[entries'[k].value][Slot(j)] = j
      BY <1>6, <2>1
    <2>. QED  BY <2>2 DEF Stored, Key, BlockOf, Base, Slot
  <1>12. Counted'
    <2>1. \A k \in Live' : Rest(k)' = Rest(k)
      <3>1. \A k \in Live', s \in 0..BLOCK_SIZE - 1 : Key(k) + s \in Nat
        BY <1>8, EntryTypes DEF Sizes
      <3>. QED  BY <1>6, <1>8, <3>1 DEF Rest, Key
    <2>. QED  BY <1>8, <2>1 DEF Counted, BlockOf
  <1>13. /\ \A d \in At({"empty"}) : consumer'[d] = consumer[d]
         /\ \A d \in At({"clear"}) \ {c} : consumer'[d] = consumer[d]
         /\ \A d \in At({"release"}) : consumer'[d] = consumer[d]
    BY <1>1, <1>4 DEF At
  <1>14. AtEmpty'
    <2>1. \A d \in At({"empty"}) :
             /\ consumer[d].entry \in Live'
             /\ entries[consumer[d].entry].value = consumer[d].block
             /\ entries[consumer[d].entry].key = Base(consumer[d].element)
      <3>1. \A d \in At({"empty"}) :
               /\ consumer[d].entry \in Live
               /\ entries[consumer[d].entry].value = consumer[d].block
               /\ entries[consumer[d].entry].key = Base(consumer[d].element)
        BY DEF Emptying, AtEmpty, Key, BlockOf
      <3>2. \A d \in At({"empty"}) : consumer[d].entry # t
        <4>1. \A d \in At({"empty"}) : consumer[d].element \in Nat /\ Waits(consumer[d].element)
          BY DEF HandsApart, Waits, At, Holding, Number
        <4>. QED  BY <1>3, <3>1, <4>1 DEF Key
      <3>. QED  BY <1>7, <3>1, <3>2
    <2>2. \A d \in At({"empty"}) :
             /\ consumer'[d].entry \in Live'
             /\ entries'[consumer'[d].entry].value = consumer'[d].block
             /\ entries'[consumer'[d].entry].key = Base(consumer'[d].element)
      BY <1>8, <1>13, <2>1
    <2>. QED  BY <1>4, <2>2 DEF AtEmpty, Key, BlockOf, Base, Slot
  <1>15. AtClear'
    <2>1. \A d \in At({"clear"}) \ {c} :
             /\ consumer[d].entry \in Live'
             /\ entries'[consumer[d].entry].value = consumer[d].block
             /\ elementsCompletelyDequeued[consumer[d].block] = BLOCK_SIZE
             /\ consumer[d].element # None
             /\ \A e \in At({"clear"}) : consumer[d].entry = consumer[e].entry => d = e
      BY <1>2, <1>7, <1>8 DEF Emptying, AtClear, BlockOf
    <2>2. \A d \in At({"clear"}) \ {c} :
             /\ consumer'[d].entry \in Live'
             /\ entries'[consumer'[d].entry].value = consumer'[d].block
             /\ elementsCompletelyDequeued[consumer'[d].block] = BLOCK_SIZE
             /\ consumer'[d].element # None
             /\ \A e \in At({"clear"}) \ {c} : consumer'[d].entry = consumer'[e].entry => d = e
      BY <1>13, <2>1
    <2>. QED  BY <1>4, <2>2 DEF AtClear, BlockOf
  <1>16. AtRelease'
    <2>1. /\ consumer'[c].block = BlockOf(t) /\ BlockOf(t) \in Blocks /\ uses[BlockOf(t)] = 1
          /\ consumer'[c].element # None
          /\ \A k \in Live : k # t => BlockOf(k) # BlockOf(t)
          /\ \A d \in At({"release"}) : consumer[d].block # BlockOf(t)
      BY <1>1, <1>2, EntryTypes DEF LiveEntries, Emptying, AtClear, AtRelease
    <2>2. \A k \in Live' : entries'[k].value # consumer'[c].block
      BY <1>8, <2>1 DEF BlockOf
    <2>3. \A d \in At({"release"}) :
             /\ consumer[d].block \in Blocks /\ uses[consumer[d].block] = 1
             /\ \A k \in Live' : entries'[k].value # consumer[d].block
             /\ consumer[d].element # None
             /\ \A e \in At({"release"}) : consumer[d].block = consumer[e].block => d = e
      BY <1>8 DEF Emptying, AtRelease, BlockOf
    <2>4. \A d \in At({"release"}) :
             /\ consumer'[d].block \in Blocks /\ uses[consumer'[d].block] = 1
             /\ \A k \in Live' : entries'[k].value # consumer'[d].block
             /\ consumer'[d].element # None
             /\ consumer'[d].block # consumer'[c].block
             /\ \A e \in At({"release"}) : consumer'[d].block = consumer'[e].block => d = e
      BY <1>13, <2>1, <2>3
    <2>5. \A d \in At({"release"})' :
             /\ consumer'[d].block \in Blocks /\ uses[consumer'[d].block] = 1
             /\ \A k \in Live' : entries'[k].value # consumer'[d].block
             /\ consumer'[d].element # None
      BY <1>4, <2>1, <2>2, <2>4
    <2>6. \A d, e \in At({"release"})' : consumer'[d].block = consumer'[e].block => d = e
      BY <1>4, <2>4
    <2>. QED  BY <2>5, <2>6 DEF AtRelease, BlockOf
  <1>17. \A k \in Live : Key(k) # Key(t) => k \in Live'
    BY <1>7
  <1>. QED  BY <1>3, <1>7, <1>9, <1>10, <1>11, <1>12, <1>14, <1>15, <1>16, <1>17
            DEF ElementsOK, Emptying

\* The emptied block goes back to the pool: nobody else has it.
LEMMA ReleaseElements ==
    ASSUME Sizes, DataOK, ElementsOK, NEW c \in Consumers,
           NEW new \in Callers, Goes(c, "release", new), new.pc = "idle",
           uses' = [uses EXCEPT ![consumer[c].block] = 0],
           UNCHANGED <<tailIndex, headIndex, entries, elements, elementsCompletelyDequeued,
                       producer>>
    PROVE  ElementsOK'
  <1>. HandsApart /\ LiveEntries /\ Stored /\ Counted /\ Emptying
    BY DEF ElementsOK
  <1>1. /\ consumer[c].pc = "release" /\ consumer'[c] = new
        /\ \A d \in Consumers \ {c} : consumer'[d] = consumer[d]
    BY CallerMoves
  <1>. PICK b \in Blocks : b = consumer[c].block /\ \A k \in Live : BlockOf(k) # b
    BY <1>1 DEF Emptying, AtRelease, At
  <1>2. \A a \in Blocks \ {b} : uses'[a] = uses[a]
    BY DEF DataOK
  <1>3. /\ At(Reading)' = At(Reading) /\ At(Holding)' = At(Holding)
        /\ At({"empty"})' = At({"empty"}) /\ At({"clear"})' = At({"clear"})
        /\ At({"release"})' = At({"release"}) \ {c} /\ c \in At({"release"})
        /\ c \notin At(Reading) /\ c \notin At(Holding)
    BY <1>1 DEF At, Reading, Holding
  <1>4. /\ \A d \in At(Reading) : consumer'[d].index = consumer[d].index
        /\ \A d \in At(Holding) : Number(d)' = Number(d)
    BY <1>1, <1>3 DEF At, Number
  <1>5. \A j : /\ Unread(j)' <=> Unread(j)
               /\ Waits(j)' <=> Waits(j)
    BY <1>3, <1>4 DEF Unread, Waits
  <1>6. Live' = Live /\ \A k : Key(k)' = Key(k) /\ BlockOf(k)' = BlockOf(k)
    BY DEF Live, Key, BlockOf
  <1>7. HandsApart'
    BY <1>3, <1>4 DEF HandsApart
  <1>8. LiveEntries'
    <2>1. \A k \in Live : uses'[BlockOf(k)] = 1
      BY <1>2, EntryTypes DEF LiveEntries
    <2>. QED  BY <1>6, <2>1 DEF LiveEntries, Slot
  <1>9. Stored'
    BY <1>5, <1>6 DEF Stored, Slot, Base
  <1>10. Counted'
    BY <1>5, <1>6 DEF Counted, Rest
  <1>11. /\ \A d \in At({"empty"}) : consumer'[d] = consumer[d]
         /\ \A d \in At({"clear"}) : consumer'[d] = consumer[d]
         /\ \A d \in At({"release"}) \ {c} : consumer'[d] = consumer[d]
    BY <1>1, <1>3 DEF At
  <1>12. AtEmpty'
    BY <1>3, <1>11 DEF Emptying, AtEmpty, Live, Key, BlockOf, Slot, Base
  <1>13. AtClear'
    BY <1>3, <1>11 DEF Emptying, AtClear, Live, BlockOf
  <1>14. AtRelease'
    <2>1. \A d \in At({"release"}) \ {c} :
             /\ consumer[d].block \in Blocks /\ consumer[d].block # b
             /\ uses[consumer[d].block] = 1
             /\ \A k \in Live : entries[k].value # consumer[d].block
             /\ consumer[d].element # None
             /\ \A e \in At({"release"}) : consumer[d].block = consumer[e].block => d = e
      BY <1>3 DEF Emptying, AtRelease, BlockOf
    <2>2. \A d \in At({"release"}) \ {c} :
             /\ consumer'[d].block \in Blocks /\ uses'[consumer'[d].block] = 1
             /\ \A k \in Live : entries[k].value # consumer'[d].block
             /\ consumer'[d].element # None
             /\ \A e \in At({"release"}) \ {c} : consumer'[d].block = consumer'[e].block => d = e
      BY <1>2, <1>11, <2>1
    <2>. QED  BY <1>3, <1>6, <2>2 DEF AtRelease, BlockOf
  <1>. QED  BY <1>7, <1>8, <1>9, <1>10, <1>12, <1>13, <1>14 DEF ElementsOK, Emptying

-----------------------------------------------------------------------------
(* The index as a ring.                                                    *)

Slots(h) == DOMAIN headers[h].index

KeyAt(h, s) == Key(EntryAt(h, s))

\* An entry that has had a block.
Used(h, s) == KeyAt(h, s) # INVALID_BLOCK_BASE

AllUsed(h) == \A s \in Slots(h) : Used(h, s)

Headers == [tail : Nat, index : UNION {[0..m - 1 -> Nat] : m \in Nat}]

HeadersOK ==
    /\ headers \in Seq(Headers) /\ Len(headers) > 0
    /\ \A h \in DOMAIN headers :
          /\ headers[h].tail \in Slots(h)
          /\ \A s \in Slots(h) : EntryAt(h, s) \in DOMAIN entries

\* The slot of the tail's block, or of the block that comes next.
InBlock == \/ producer.pc \in {"block", "value", "store"}
           \/ producer.pc = "idle" /\ Slot(tailIndex) # 0

Current == IF InBlock THEN headers[blockIndex].tail ELSE NextTail(blockIndex)

\* The number of the tail's block.
Block == tailIndex \div BLOCK_SIZE

\* With block b at slot cur, the slots before it have the blocks before b, and those
\* behind it have older ones, by one turn of the ring.
KeysAt(h, cur, b) ==
    \A s \in Slots(h) : Used(h, s) =>
        /\ s < cur => KeyAt(h, s) = BLOCK_SIZE * (b - cur + s)
        /\ s > cur => KeyAt(h, s) = BLOCK_SIZE * (b - cur + s - Capacity(h))
        /\ s = cur => \/ KeyAt(h, s) = BLOCK_SIZE * b
                      \/ KeyAt(h, s) = BLOCK_SIZE * (b - Capacity(h))

\* In its first turn the slots are used in their order.
FilledAt(h, cur, b) ==
    /\ \/ AllUsed(h)
       \/ \A s \in Slots(h) :
             /\ s < cur => Used(h, s)
             /\ s > cur => ~Used(h, s)
             /\ s = cur /\ Used(h, s) => KeyAt(h, s) = BLOCK_SIZE * b
    /\ cur = 0 /\ b # 0 => AllUsed(h)

Ring ==
    /\ KeysAt(blockIndex, Current, Block)
    /\ FilledAt(blockIndex, Current, Block)
    /\ InBlock \/ producer.pc = "tail" => KeyAt(blockIndex, Current) = BLOCK_SIZE * Block
    /\ producer.pc # "idle" => producer.newTail = Current

\* The newest index has every entry, each once.
Complete ==
    /\ \A r, s \in Slots(blockIndex) :
          EntryAt(blockIndex, r) = EntryAt(blockIndex, s) => r = s
    /\ \A k \in DOMAIN entries : \E s \in Slots(blockIndex) : EntryAt(blockIndex, s) = k

\* The blocks of an index follow one another, whole turns of the ring apart.
Aligned(h) ==
    \E r \in Int : \A s \in Slots(h) : Used(h, s) =>
        \E j \in Int : KeyAt(h, s) = BLOCK_SIZE * (s + r + j * Capacity(h))

\* What is left of the indices that were full.
Older ==
    \A h \in DOMAIN headers : h # blockIndex =>
        /\ AllUsed(h) /\ Aligned(h)
        /\ \E f \in Nat : Capacity(blockIndex) = f * Capacity(h)

IndexOK == HeadersOK /\ Ring /\ Complete /\ Older

-----------------------------------------------------------------------------
(* Turns of the ring.                                                      *)

\* The quotient is the only one, too.
LEMMA Quotient ==
    ASSUME NEW b \in Nat, b > 0, NEW q \in Int, NEW r \in 0..b - 1
    PROVE  (b * q + r) \div b = q
  OBVIOUS

\* Slots are numbered from zero.
LEMMA SlotsOf ==
    ASSUME HeadersOK, NEW h \in DOMAIN headers
    PROVE  /\ Capacity(h) \in Nat /\ Capacity(h) > 0 /\ Slots(h) = 0..Capacity(h) - 1
           /\ headers[h].tail \in Slots(h)
           /\ \A s \in Slots(h) : EntryAt(h, s) \in DOMAIN entries
  <1>1. headers[h] \in Headers /\ headers[h].tail \in Slots(h)
    BY DEF HeadersOK
  <1>2. PICK m \in Nat : DOMAIN headers[h].index = 0..m - 1
    BY <1>1 DEF Headers
  <1>3. m > 0
    BY <1>1, <1>2 DEF Slots
  <1>4. Cardinality(0..m - 1) = m
    BY <1>3, FS_Interval
  <1>. QED  BY <1>1, <1>2, <1>3, <1>4 DEF Capacity, Slots, HeadersOK

\* There is an index, and the newest is the last one.
LEMMA Newest ==
    ASSUME HeadersOK
    PROVE  blockIndex \in DOMAIN headers /\ blockIndex \in Nat
  BY DEF HeadersOK, blockIndex

\* One slot on, and one slot back.
LEMMA Turning ==
    ASSUME NEW m \in Nat, m > 0, NEW s \in 0..m - 1
    PROVE  /\ (s + 1) % m \in 0..m - 1 /\ (s - 1) % m \in 0..m - 1
           /\ s + 1 < m => (s + 1) % m = s + 1
           /\ s + 1 = m => (s + 1) % m = 0
           /\ (((s - 1) % m) + 1) % m = s
  <1>1. s + 1 < m => (s + 1) % m = s + 1
    OBVIOUS
  <1>2. s + 1 = m => (s + 1) % m = 0
    OBVIOUS
  <1>3. s > 0 => (s - 1) % m = s - 1
    OBVIOUS
  <1>4. s = 0 => (s - 1) % m = m - 1
    <2>1. (m * (-1) + (m - 1)) % m = m - 1
      <3>1. -1 \in Int /\ m - 1 \in 0..m - 1
        OBVIOUS
      <3>. QED  BY <3>1, Remainder
    <2>2. m * (-1) + (m - 1) = -1
      OBVIOUS
    <2>. QED  BY <2>1, <2>2
  <1>5. (((s - 1) % m) + 1) % m = s
    <2>1. CASE s > 0
      BY <1>3, <2>1
    <2>2. CASE s = 0
      BY <1>4, <2>2
    <2>. QED  BY <2>1, <2>2
  <1>. QED  BY <1>1, <1>2, <1>3, <1>4, <1>5

\* The slot of the tail's block is one.
LEMMA CurrentSlot ==
    ASSUME HeadersOK
    PROVE  Current \in Slots(blockIndex)
  <1>. PICK n \in DOMAIN headers : n = blockIndex
    BY Newest
  <1>1. /\ Capacity(n) \in Nat /\ Capacity(n) > 0 /\ Slots(n) = 0..Capacity(n) - 1
        /\ headers[n].tail \in Slots(n)
    BY SlotsOf
  <1>2. NextTail(n) \in Slots(n)
    BY <1>1, Turning DEF NextTail
  <1>. QED  BY <1>1, <1>2 DEF Current

\* The number of the tail's block, when the tail moves.
LEMMA NextBlock ==
    ASSUME Sizes, NEW i \in Nat
    PROVE  /\ i \div BLOCK_SIZE \in Nat
           /\ BLOCK_SIZE * (i \div BLOCK_SIZE) = Base(i)
           /\ Slot(i + 1) # 0 => (i + 1) \div BLOCK_SIZE = i \div BLOCK_SIZE
           /\ Slot(i + 1) = 0 => (i + 1) \div BLOCK_SIZE = i \div BLOCK_SIZE + 1
  <1>1. PICK b \in Nat : b = BLOCK_SIZE /\ b > 1
    BY DEF Sizes
  <1>2. PICK q \in Nat : q = i \div b
    BY <1>1, Division
  <1>3. PICK r \in 0..b - 1 : r = i % b /\ r = i - b * q
    BY <1>1, <1>2, Division
  <1>4. i = b * q + r
    BY <1>3
  <1>5. b * q = Base(i)
    BY <1>1, <1>3, <1>4 DEF Base, Slot
  <1>6. CASE r = b - 1
    <2>1. (b * (q + 1) + 0) % b = 0 /\ (b * (q + 1) + 0) \div b = q + 1
      <3>1. q + 1 \in Int /\ 0 \in 0..b - 1
        BY <1>1
      <3>. QED  BY <1>1, <3>1, Remainder, Quotient
    <2>2. i + 1 = b * (q + 1) + 0
      BY <1>1, <1>4, <1>6
    <2>. QED  BY <1>1, <1>2, <1>5, <2>1, <2>2 DEF Slot
  <1>7. CASE r # b - 1
    <2>1. (b * q + (r + 1)) % b = r + 1 /\ (b * q + (r + 1)) \div b = q
      <3>1. r + 1 \in 0..b - 1
        BY <1>1, <1>7
      <3>. QED  BY <1>1, <3>1, Remainder, Quotient
    <2>2. i + 1 = b * q + (r + 1)
      BY <1>1, <1>4
    <2>. QED  BY <1>1, <1>2, <1>5, <2>1, <2>2 DEF Slot
  <1>. QED  BY <1>6, <1>7

\* No multiple of the size is the key of an unused entry.
LEMMA NotInvalid ==
    ASSUME Sizes, NEW q \in Int
    PROVE  BLOCK_SIZE * q # INVALID_BLOCK_BASE
  <1>1. PICK b \in Nat : b = BLOCK_SIZE /\ b > 1
    BY DEF Sizes
  <1>2. (b * q + 0) % b = 0
    <2>1. 0 \in 0..b - 1
      BY <1>1
    <2>. QED  BY <1>1, <2>1, Remainder
  <1>3. 1 % b = 1
    BY <1>1
  <1>4. b * q + 0 = b * q
    BY <1>1
  <1>. QED  BY <1>1, <1>2, <1>3, <1>4 DEF INVALID_BLOCK_BASE

\* What the key x of slot s says when block b is at slot cur, and when the next
\* one is at the next slot.
LEMMA TurnByOne ==
    ASSUME NEW z \in Nat, NEW m \in Nat, NEW cur \in 0..m - 1, NEW next \in 0..m - 1,
           NEW s \in 0..m - 1, NEW b \in Nat, NEW x,
           cur + 1 < m => next = cur + 1,
           cur + 1 = m => next = 0,
           s < cur => x = z * (b - cur + s),
           s > cur => x = z * (b - cur + s - m),
           s = cur => x = z * b
    PROVE  /\ s < next => x = z * (b + 1 - next + s)
           /\ s > next => x = z * (b + 1 - next + s - m)
           /\ s = next => x = z * (b + 1) \/ x = z * (b + 1 - m)
  <1>. PICK p \in Int : p = b - cur + s
    OBVIOUS
  <1>1. /\ s <= cur => x = z * p
        /\ s > cur => x = z * (p - m)
    <2>1. s = cur => p = b
      OBVIOUS
    <2>2. s <= cur => s < cur \/ s = cur
      OBVIOUS
    <2>. QED  BY <2>1, <2>2
  <1>2. CASE cur + 1 < m
    <2>1. /\ s < next => s <= cur
          /\ s > next => s > cur
          /\ s = next => s > cur /\ p - m = b + 1 - m
          /\ p = b + 1 - next + s /\ p - m = b + 1 - next + s - m
      BY <1>2
    <2>. QED  BY ONLY <1>1, <2>1
  <1>3. CASE cur + 1 = m
    <2>1. /\ s <= cur /\ ~(s < next) /\ p = b + 1 - next + s - m
          /\ s = next => p = b + 1 - m
      BY <1>3
    <2>. QED  BY ONLY <1>1, <2>1
  <1>. QED  BY <1>2, <1>3

\* When the tail's block is full, the ring turns by a slot.
LEMMA KeysTurn ==
    ASSUME Sizes, HeadersOK, NEW n \in DOMAIN headers, NEW cur \in Slots(n), NEW b \in Nat,
           KeysAt(n, cur, b), FilledAt(n, cur, b), KeyAt(n, cur) = BLOCK_SIZE * b,
           NEW next, next = (cur + 1) % Capacity(n)
    PROVE  KeysAt(n, next, b + 1) /\ FilledAt(n, next, b + 1)
  <1>. PICK z \in Nat : z = BLOCK_SIZE
    BY DEF Sizes
  <1>. PICK m \in Nat : m = Capacity(n) /\ m > 0 /\ Slots(n) = 0..m - 1
    BY SlotsOf
  <1>1. /\ next \in 0..m - 1 /\ cur \in 0..m - 1
        /\ cur + 1 < m => next = cur + 1
        /\ cur + 1 = m => next = 0
    BY Turning
  <1>2. Used(n, cur)
    BY NotInvalid DEF Used
  <1>3. KeysAt(n, next, b + 1)
    <2>. SUFFICES ASSUME NEW s \in Slots(n), Used(n, s)
                  PROVE  /\ s < next => KeyAt(n, s) = z * (b + 1 - next + s)
                         /\ s > next => KeyAt(n, s) = z * (b + 1 - next + s - m)
                         /\ s = next => \/ KeyAt(n, s) = z * (b + 1)
                                        \/ KeyAt(n, s) = z * (b + 1 - m)
      BY DEF KeysAt
    <2>1. /\ s < cur => KeyAt(n, s) = z * (b - cur + s)
          /\ s > cur => KeyAt(n, s) = z * (b - cur + s - m)
          /\ s = cur => KeyAt(n, s) = z * b
      BY DEF KeysAt
    <2>2. s \in 0..m - 1
      OBVIOUS
    <2>. QED  BY ONLY z \in Nat, m \in Nat, b \in Nat, <1>1, <2>1, <2>2, TurnByOne
  <1>4. FilledAt(n, next, b + 1)
    <2>1. CASE AllUsed(n)
      BY <2>1 DEF FilledAt
    <2>2. CASE ~AllUsed(n)
      <3>1. \A s \in Slots(n) : /\ s < cur => Used(n, s)
                                /\ s > cur => ~Used(n, s)
        BY <2>2 DEF FilledAt
      <3>2. cur + 1 < m
        <4>1. cur + 1 = m => AllUsed(n)
          BY <1>1, <1>2, <3>1 DEF AllUsed
        <4>. QED  BY <1>1, <2>2, <4>1
      <3>3. next = cur + 1 /\ next # 0
        BY <1>1, <3>2
      <3>4. \A s \in Slots(n) : /\ s < next => Used(n, s)
                                /\ ~(s < next) => ~Used(n, s)
        BY <1>1, <1>2, <3>1, <3>3
      <3>5. \A s \in Slots(n) : s >= next => ~(s < next)
        BY <1>1
      <3>. QED  BY <1>1, <3>3, <3>4, <3>5 DEF FilledAt
    <2>. QED  BY <2>1, <2>2
  <1>. QED  BY <1>3, <1>4

\* Whatever its slot, a ring is aligned.
LEMMA KeysAligned ==
    ASSUME Sizes, HeadersOK, NEW n \in DOMAIN headers, NEW cur \in Slots(n), NEW b \in Nat,
           KeysAt(n, cur, b)
    PROVE  Aligned(n)
  <1>. PICK z \in Nat : z = BLOCK_SIZE
    BY DEF Sizes
  <1>. PICK m \in Nat : m = Capacity(n) /\ m > 0 /\ Slots(n) = 0..m - 1
    BY SlotsOf
  <1>. PICK r \in Int : r = b - cur
    OBVIOUS
  <1>1. ASSUME NEW s \in Slots(n), Used(n, s)
        PROVE  \E j \in Int : KeyAt(n, s) = z * (s + r + j * m)
    <2>1. \/ KeyAt(n, s) = z * (s + r) \/ KeyAt(n, s) = z * (s + r - m)
      <3>1. /\ s < cur => KeyAt(n, s) = z * (b - cur + s)
            /\ s > cur => KeyAt(n, s) = z * (b - cur + s - m)
            /\ s = cur => KeyAt(n, s) = z * b \/ KeyAt(n, s) = z * (b - m)
        BY <1>1 DEF KeysAt
      <3>2. /\ b - cur + s = s + r /\ b - cur + s - m = s + r - m
            /\ s = cur => b = s + r /\ b - m = s + r - m
        OBVIOUS
      <3>3. s < cur \/ s > cur \/ s = cur
        OBVIOUS
      <3>. QED  BY <3>1, <3>2, <3>3
    <2>2. s + r = s + r + 0 * m /\ s + r - m = s + r + (-1) * m
      OBVIOUS
    <2>3. 0 \in Int /\ -1 \in Int
      OBVIOUS
    <2>. QED  BY <2>1, <2>2, <2>3
  <1>. QED  BY <1>1 DEF Aligned

\* From an entry and its slot to that of another block: what get_block_index_index_for_index
\* computes is right in every index that is aligned, the newest or not.
LEMMA SlotFound ==
    ASSUME Sizes, HeadersOK, NEW h \in DOMAIN headers, Aligned(h),
           NEW s \in Slots(h), Used(h, s), NEW t \in Slots(h), Used(h, t)
    PROVE  (s + (KeyAt(h, t) - KeyAt(h, s)) \div BLOCK_SIZE) % Capacity(h) = t
  <1>1. PICK z \in Nat : z = BLOCK_SIZE /\ z > 0
    BY DEF Sizes
  <1>2. PICK m \in Nat : m = Capacity(h) /\ m > 0 /\ Slots(h) = 0..m - 1
    BY SlotsOf
  <1>3. PICK r \in Int : \A u \in Slots(h) : Used(h, u) =>
            \E j \in Int : KeyAt(h, u) = z * (u + r + j * m)
    BY <1>1, <1>2 DEF Aligned
  <1>4. PICK i \in Int : KeyAt(h, s) = z * (s + r + i * m)
    BY <1>3
  <1>5. PICK j \in Int : KeyAt(h, t) = z * (t + r + j * m)
    BY <1>3
  <1>6. s \in Int /\ t \in Int /\ t \in 0..m - 1
    BY <1>2
  <1>7. KeyAt(h, t) - KeyAt(h, s) = z * ((t - s) + m * (j - i))
    <2>1. \A a, b \in Int : z * (t + r + a * m) - z * (s + r + b * m)
                               = z * ((t - s) + m * (a - b))
      BY ONLY <1>6, z \in Nat, m \in Nat, r \in Int
    <2>. QED  BY <1>4, <1>5, <2>1
  <1>8. PICK q \in Int : q = j - i
    OBVIOUS
  <1>9. PICK p \in Int : p = (t - s) + m * q
    BY <1>6
  <1>10. (z * p) \div z = p
    <2>1. (z * p + 0) \div z = p
      <3>1. 0 \in 0..z - 1
        BY <1>1
      <3>. QED  BY <1>1, <3>1, Quotient
    <2>2. z * p + 0 = z * p
      OBVIOUS
    <2>. QED  BY <2>1, <2>2
  <1>11. s + p = m * q + t
    BY <1>6, <1>9
  <1>12. (m * q + t) % m = t
    BY <1>2, <1>6, Remainder
  <1>13. KeyAt(h, t) - KeyAt(h, s) = z * p
    BY <1>7, <1>8, <1>9
  <1>. QED  BY <1>1, <1>2, <1>10, <1>11, <1>12, <1>13

\* Steps that touch no key and of the indices at most their tails.
LEMMA SameIndex ==
    ASSUME HeadersOK, Complete, Older,
           Len(headers') = Len(headers), headers' \in Seq(Headers),
           \A h \in DOMAIN headers : /\ headers'[h].index = headers[h].index
                                     /\ headers'[h].tail \in Slots(h),
           DOMAIN entries' = DOMAIN entries,
           \A k \in DOMAIN entries : entries'[k].key = entries[k].key
    PROVE  /\ HeadersOK' /\ Complete' /\ Older'
           /\ blockIndex' = blockIndex
           /\ \A h \in DOMAIN headers : /\ h \in DOMAIN headers' /\ Slots(h)' = Slots(h)
                                        /\ Capacity(h)' = Capacity(h)
           /\ \A h \in DOMAIN headers : \A s \in Slots(h) : EntryAt(h, s)' = EntryAt(h, s)
           /\ \A h \in DOMAIN headers : \A s \in Slots(h) : KeyAt(h, s)' = KeyAt(h, s)
           /\ \A cur, b : KeysAt(blockIndex, cur, b) => KeysAt(blockIndex, cur, b)'
           /\ \A cur, b : FilledAt(blockIndex, cur, b) => FilledAt(blockIndex, cur, b)'
  <1>1. DOMAIN headers' = DOMAIN headers /\ blockIndex' = blockIndex
    BY DEF HeadersOK, blockIndex
  <1>2. \A h \in DOMAIN headers : /\ h \in DOMAIN headers' /\ Slots(h)' = Slots(h)
                                  /\ Capacity(h)' = Capacity(h)
    BY <1>1 DEF Slots, Capacity
  <1>3. \A h \in DOMAIN headers : \A s \in Slots(h) : EntryAt(h, s)' = EntryAt(h, s)
    BY DEF EntryAt
  <1>4. \A h \in DOMAIN headers : \A s \in Slots(h) : EntryAt(h, s) \in DOMAIN entries
    BY DEF HeadersOK
  <1>5. \A h \in DOMAIN headers : \A s \in Slots(h) : KeyAt(h, s)' = KeyAt(h, s)
    BY <1>4 DEF KeyAt, Key, EntryAt
  <1>6. \A h \in DOMAIN headers : \A s \in Slots(h) : Used(h, s)' <=> Used(h, s)
    BY <1>5 DEF Used, INVALID_BLOCK_BASE
  <1>. PICK n \in DOMAIN headers : n = blockIndex
    BY Newest
  <1>7. HeadersOK'
    <2>1. \A h \in DOMAIN headers : headers'[h].tail \in Slots(h)'
      BY <1>2
    <2>2. \A h \in DOMAIN headers : \A s \in Slots(h)' : EntryAt(h, s)' \in DOMAIN entries'
      BY <1>2, <1>3, <1>4
    <2>. QED  BY <1>1, <2>1, <2>2 DEF HeadersOK
  <1>8. Complete'
    <2>1. /\ \A r, s \in Slots(n) : EntryAt(n, r)' = EntryAt(n, s)' => r = s
          /\ \A k \in DOMAIN entries : \E s \in Slots(n) : EntryAt(n, s)' = k
      BY <1>3 DEF Complete
    <2>2. /\ \A r, s \in Slots(n)' : EntryAt(n, r)' = EntryAt(n, s)' => r = s
          /\ \A k \in DOMAIN entries' : \E s \in Slots(n)' : EntryAt(n, s)' = k
      BY <1>2, <2>1
    <2>. QED  BY <1>1, <2>2 DEF Complete, Slots, EntryAt
  <1>9. \A h \in DOMAIN headers : /\ AllUsed(h) => AllUsed(h)'
                                  /\ Aligned(h) => Aligned(h)'
    BY <1>2, <1>5, <1>6 DEF AllUsed, Aligned
  <1>10. Older'
    <2>1. ASSUME NEW h \in DOMAIN headers, h # n
          PROVE  /\ AllUsed(h)' /\ Aligned(h)'
                 /\ \E f \in Nat : Capacity(n)' = f * Capacity(h)'
      BY <1>2, <1>9, <2>1 DEF Older
    <2>. QED  BY <1>1, <2>1 DEF Older, Capacity
  <1>11. \A cur, b : KeysAt(n, cur, b) => KeysAt(n, cur, b)'
    BY <1>2, <1>5, <1>6 DEF KeysAt
  <1>12. \A cur, b : FilledAt(n, cur, b) => FilledAt(n, cur, b)'
    BY <1>2, <1>5, <1>6, <1>9 DEF FilledAt, AllUsed
  <1>13. /\ \A cur, b : KeysAt(blockIndex, cur, b) => KeysAt(blockIndex, cur, b)'
         /\ \A cur, b : FilledAt(blockIndex, cur, b) => FilledAt(blockIndex, cur, b)'
    BY <1>1, <1>11, <1>12
  <1>. QED  BY <1>1, <1>2, <1>3, <1>5, <1>7, <1>8, <1>10, <1>13

-----------------------------------------------------------------------------
(* The producer's steps in the index.                                      *)

\* What the ring says of the tail's slot.
LEMMA RingAtTail ==
    ASSUME Sizes, DataOK, IndexOK
    PROVE  /\ blockIndex \in DOMAIN headers /\ Current \in Slots(blockIndex)
           /\ Block \in Nat /\ BLOCK_SIZE * Block = Base(tailIndex)
           /\ KeysAt(blockIndex, Current, Block) /\ FilledAt(blockIndex, Current, Block)
           /\ Aligned(blockIndex)
  <1>1. /\ HeadersOK /\ KeysAt(blockIndex, Current, Block)
        /\ FilledAt(blockIndex, Current, Block)
    BY DEF IndexOK, Ring
  <1>2. blockIndex \in DOMAIN headers /\ Current \in Slots(blockIndex)
    BY <1>1, Newest, CurrentSlot
  <1>3. Block \in Nat /\ BLOCK_SIZE * Block = Base(tailIndex)
    BY NextBlock DEF Block, DataOK
  <1>. QED  BY <1>1, <1>2, <1>3, KeysAligned

\* The new entry gets its key: in all indices it is a turn of the newest one later.
LEMMA StoreKeyIndex ==
    ASSUME Sizes, DataOK, IndexOK, Filling, StoreKey
    PROVE  /\ IndexOK'
           /\ \A h \in DOMAIN headers : \A s \in Slots(h) : Used(h, s) => Used(h, s)'
           /\ Live' = Live
           /\ \A k \in Live : Key(k)' = Key(k) /\ BlockOf(k)' = BlockOf(k)
  <1>. HeadersOK /\ Ring /\ Complete /\ Older
    BY DEF IndexOK
  <1>. PICK n \in DOMAIN headers : n = blockIndex
    BY Newest
  <1>. PICK cur \in Slots(n) : cur = Current
    BY CurrentSlot
  <1>. PICK b \in Nat : b = Block
    BY RingAtTail
  <1>0. /\ producer.pc = "key" /\ producer'.pc = "tail" /\ UNCHANGED <<tailIndex, headers>>
        /\ producer'.newTail = producer.newTail /\ tailIndex \in Nat
    BY DEF StoreKey, counters, DataOK
  <1>1. producer.newTail = cur
    BY <1>0 DEF Ring
  <1>2. blockIndex' = n /\ NewEntry = EntryAt(n, cur)
    BY <1>0, <1>1 DEF NewEntry, blockIndex
  <1>. PICK e \in DOMAIN entries : e = EntryAt(n, cur) /\ BlockOf(e) = None
    BY <1>0, <1>2 DEF Filling
  <1>3. tailIndex = BLOCK_SIZE * b
    <2>1. Slot(tailIndex) = 0
      BY <1>0 DEF Filling
    <2>2. Base(tailIndex) = tailIndex
      BY <1>0, <2>1, SlotOf
    <2>. QED  BY <2>2, RingAtTail
  <1>4. /\ DOMAIN entries' = DOMAIN entries
        /\ \A k \in DOMAIN entries : entries'[k].value = entries[k].value
        /\ \A k \in DOMAIN entries \ {e} : entries'[k] = entries[k]
        /\ entries'[e].key = tailIndex
        /\ Live' = Live /\ e \notin Live
    <2>1. entries' = [entries EXCEPT ![e].key = tailIndex]
      BY <1>2 DEF StoreKey
    <2>. QED  BY <1>0, <2>1, KeyStored
  <1>5. \A h : /\ Slots(h)' = Slots(h) /\ Capacity(h)' = Capacity(h)
               /\ \A s : EntryAt(h, s)' = EntryAt(h, s)
    BY <1>0 DEF Slots, Capacity, EntryAt
  <1>6. \A h \in DOMAIN headers : \A s \in Slots(h) :
            /\ EntryAt(h, s) = e => KeyAt(h, s)' = tailIndex
            /\ EntryAt(h, s) # e => KeyAt(h, s)' = KeyAt(h, s)
    <2>1. \A h \in DOMAIN headers : \A s \in Slots(h) : EntryAt(h, s) \in DOMAIN entries
      BY DEF HeadersOK
    <2>. QED  BY <1>0, <1>4, <2>1 DEF KeyAt, Key, EntryAt
  <1>7. \A s \in Slots(n) : EntryAt(n, s) = e => s = cur
    BY DEF Complete
  <1>8. \A h \in DOMAIN headers : \A s \in Slots(h) :
            /\ EntryAt(h, s) = e => Used(h, s)'
            /\ EntryAt(h, s) # e => (Used(h, s)' <=> Used(h, s))
    BY <1>3, <1>6, NotInvalid DEF Used, INVALID_BLOCK_BASE
  <1>9. /\ Current' = cur /\ Block' = b /\ ~InBlock'
    <2>1. ~InBlock /\ ~InBlock'
      BY <1>0 DEF InBlock
    <2>2. NextTail(blockIndex)' = NextTail(blockIndex)
      BY <1>0 DEF NextTail, Capacity, blockIndex
    <2>. QED  BY <1>0, <2>1, <2>2 DEF Current, Block
  <1>10. HeadersOK'
    BY <1>0, <1>4 DEF HeadersOK, Slots, EntryAt
  <1>11. Complete'
    BY <1>0, <1>4 DEF Complete, Slots, EntryAt, blockIndex
  <1>12. KeyAt(n, cur)' = BLOCK_SIZE * b
    BY <1>3, <1>6
  <1>13. KeysAt(n, cur, b)'
    <2>1. KeysAt(n, cur, b)
      BY DEF Ring
    <2>2. \A s \in Slots(n) : s # cur => KeyAt(n, s)' = KeyAt(n, s) /\ (Used(n, s)' <=> Used(n, s))
      BY <1>6, <1>7, <1>8
    <2>3. \A s \in Slots(n) : s \in Int /\ (s < cur => s # cur) /\ (s > cur => s # cur)
      BY SlotsOf
    <2>. QED  BY <1>5, <1>12, <2>1, <2>2, <2>3 DEF KeysAt
  <1>14. FilledAt(n, cur, b)'
    <2>1. FilledAt(n, cur, b)
      BY DEF Ring
    <2>2. \A s \in Slots(n) : s # cur => (Used(n, s)' <=> Used(n, s))
      BY <1>7, <1>8
    <2>3. Used(n, cur)'
      BY <1>8
    <2>4. \A s \in Slots(n) : s \in Int /\ (s < cur => s # cur) /\ (s > cur => s # cur)
      BY SlotsOf
    <2>5. AllUsed(n) => AllUsed(n)'
      BY <1>5, <2>2, <2>3 DEF AllUsed
    <2>. QED  BY <1>5, <1>12, <2>1, <2>2, <2>3, <2>4, <2>5 DEF FilledAt
  <1>15. Ring'
    <2>1. KeysAt(blockIndex, Current, Block)'
      BY <1>2, <1>9, <1>13
    <2>2. FilledAt(blockIndex, Current, Block)'
      BY <1>2, <1>9, <1>14
    <2>3. KeyAt(blockIndex, Current)' = BLOCK_SIZE * Block'
      BY <1>2, <1>9, <1>12
    <2>4. producer'.newTail = Current'
      BY <1>0, <1>1, <1>9
    <2>. QED  BY <2>1, <2>2, <2>3, <2>4 DEF Ring
  <1>16. \A h \in DOMAIN headers : \A s \in Slots(h) : Used(h, s) => Used(h, s)'
    BY <1>8
  <1>17. ASSUME NEW h \in DOMAIN headers, h # n
         PROVE  AllUsed(h)' /\ Aligned(h)'
    <2>1. AllUsed(h) /\ Aligned(h)
      BY <1>17 DEF Older
    <2>2. AllUsed(h)'
      BY <1>5, <1>16, <2>1 DEF AllUsed
    <2>3. PICK z \in Nat : z = BLOCK_SIZE
      BY DEF Sizes
    <2>4. PICK m \in Nat : m = Capacity(h) /\ Slots(h) = 0..m - 1
      BY SlotsOf
    <2>5. PICK f \in Nat : Capacity(n) = f * m
      BY <1>17, <2>4 DEF Older
    <2>6. PICK r \in Int : \A s \in Slots(h) : Used(h, s) =>
              \E j \in Int : KeyAt(h, s) = z * (s + r + j * m)
      BY <2>1, <2>3, <2>4 DEF Aligned
    <2>7. ASSUME NEW s \in Slots(h)
          PROVE  \E j \in Int : KeyAt(h, s)' = z * (s + r + j * m)
      <3>1. Used(h, s) /\ s \in Int
        BY <2>1, <2>4 DEF AllUsed
      <3>2. PICK j \in Int : KeyAt(h, s) = z * (s + r + j * m)
        BY <2>6, <3>1
      <3>3. CASE EntryAt(h, s) # e
        BY <1>6, <3>2, <3>3
      <3>4. CASE EntryAt(h, s) = e
        <4>1. KeyAt(h, s) = KeyAt(n, cur) /\ KeyAt(h, s)' = z * b
          BY <1>3, <1>6, <2>3, <3>4 DEF KeyAt
        <4>2. Used(n, cur)
          BY <3>1, <4>1 DEF Used
        <4>3. \/ KeyAt(n, cur) = z * b
              \/ KeyAt(n, cur) = z * (b - Capacity(n))
          BY <2>3, <4>2 DEF Ring, KeysAt
        <4>4. CASE KeyAt(n, cur) = z * b
          BY <3>2, <4>1, <4>4
        <4>5. CASE KeyAt(n, cur) = z * (b - Capacity(n))
          <5>1. PICK x \in Int : x = s + r + j * m /\ KeyAt(h, s) = z * x
            BY <3>1, <3>2
          <5>2. PICK g \in Int : g = f * m /\ KeyAt(h, s) = z * (b - g)
            BY <2>5, <4>1, <4>5
          <5>3. z * b = z * (x + g)
            <6>1. z * x = z * (b - g)
              BY <5>1, <5>2
            <6>2. \A u, v, w \in Int : z * u = z * (v - w) => z * v = z * (u + w)
              OBVIOUS
            <6>. QED  BY <6>1, <6>2
          <5>4. x + g = s + r + (j + f) * m /\ j + f \in Int
            BY <3>1, <5>1, <5>2
          <5>. QED  BY <4>1, <5>3, <5>4
        <4>. QED  BY <4>3, <4>4, <4>5
      <3>. QED  BY <3>3, <3>4
    <2>. QED  BY <1>5, <2>2, <2>3, <2>4, <2>7 DEF Aligned
  <1>18. Older'
    <2>1. \A h \in DOMAIN headers : h # n => \E f \in Nat : Capacity(n) = f * Capacity(h)
      BY DEF Older
    <2>2. \A h \in DOMAIN headers : h # n =>
             \E f \in Nat : Capacity(n)' = f * Capacity(h)'
      BY <1>5, <2>1
    <2>. QED  BY <1>0, <1>2, <1>17, <2>2 DEF Older
  <1>19. \A k \in Live : Key(k)' = Key(k) /\ BlockOf(k)' = BlockOf(k)
    BY <1>4 DEF Key, BlockOf, Live
  <1>. QED  BY <1>4, <1>10, <1>11, <1>15, <1>16, <1>18, <1>19 DEF IndexOK

\* The slot of the i-th entry from the oldest one on, in a ring of m slots whose
\* tail is at t.
LEMMA Rotated ==
    ASSUME NEW m \in Nat, m > 0, NEW t \in 0..m - 1, NEW c, c = (t + 1) % m
    PROVE  /\ c \in 0..m - 1
           /\ \A i \in 0..m - 1 :
                 /\ c + i < m => c + i \in 0..m - 1 /\ (t + 1 + i) % m = c + i
                 /\ c + i >= m => /\ c + i - m \in 0..m - 1
                                  /\ (t + 1 + i) % m = c + i - m
  <1>a. c \in 0..m - 1
    BY Turning
  <1>. SUFFICES ASSUME NEW i \in 0..m - 1
                PROVE  /\ c + i < m => c + i \in 0..m - 1 /\ (t + 1 + i) % m = c + i
                       /\ c + i >= m => /\ c + i - m \in 0..m - 1
                                        /\ (t + 1 + i) % m = c + i - m
    BY <1>a
  <1>0. /\ c + i < m => c + i \in 0..m - 1
        /\ c + i >= m => c + i - m \in 0..m - 1
    BY <1>a
  <1>1. CASE t + 1 < m
    <2>1. c = t + 1
      BY <1>1, Turning
    <2>2. t + 1 + i < m => (t + 1 + i) % m = t + 1 + i
      OBVIOUS
    <2>3. t + 1 + i >= m => (t + 1 + i) % m = t + 1 + i - m
      <3>. SUFFICES ASSUME t + 1 + i >= m
                    PROVE  (t + 1 + i) % m = t + 1 + i - m
        OBVIOUS
      <3>1. t + 1 + i - m \in 0..m - 1
        BY <1>1
      <3>2. (m * 1 + (t + 1 + i - m)) % m = t + 1 + i - m
        BY <3>1, Remainder
      <3>3. m * 1 + (t + 1 + i - m) = t + 1 + i
        OBVIOUS
      <3>. QED  BY <3>2, <3>3
    <2>4. c + i = t + 1 + i
      BY <2>1
    <2>. QED  BY <1>0, <2>2, <2>3, <2>4
  <1>2. CASE t + 1 = m
    <2>1. c = 0
      BY <1>2, Turning
    <2>2. (m * 1 + i) % m = i
      BY Remainder
    <2>3. m * 1 + i = t + 1 + i
      BY <1>2
    <2>4. c + i = i /\ ~(i >= m)
      BY <2>1
    <2>. QED  BY <1>0, <2>2, <2>3, <2>4
  <1>3. t + 1 < m \/ t + 1 = m
    OBVIOUS
  <1>. QED  BY <1>1, <1>2, <1>3

\* The new index: its first half is the old one from its oldest entry on, its second
\* half are the new entries.
IsDoubled(n, m, cur, l) ==
    /\ n \in Nat /\ n > 0 /\ DOMAIN headers = 1..n
    /\ m \in Nat /\ m > 0 /\ Slots(n) = 0..m - 1 /\ cur \in 0..m - 1
    /\ l \in Nat /\ DOMAIN entries = 1..l /\ DOMAIN entries' = 1..l + m
    /\ \A k \in 1..l : entries'[k] = entries[k]
    /\ \A k \in l + 1..l + m : Key(k)' = INVALID_BLOCK_BASE /\ BlockOf(k)' = None
    /\ entries' \in Seq([key : Nat, value : Blocks \cup {None}])
    /\ headers' \in Seq(Headers) /\ Len(headers') = n + 1 /\ blockIndex' = n + 1
    /\ \A h \in 1..n : headers'[h] = headers[h]
    /\ headers'[n + 1].tail = m - 1
    /\ Slots(n + 1)' = 0..2 * m - 1 /\ Capacity(n + 1)' = 2 * m
    /\ \A i \in 0..m - 1 :
          /\ cur + i < m => EntryAt(n + 1, i)' = EntryAt(n, cur + i)
          /\ cur + i >= m => EntryAt(n + 1, i)' = EntryAt(n, cur + i - m)
    /\ \A i \in m..2 * m - 1 : EntryAt(n + 1, i)' = l + 1 + i - m

\* What the doubled index and its new entries are.
LEMMA DoubledIndex ==
    ASSUME Sizes, DataOK, IndexOK, NewBlockIndex,
           NEW n, n = blockIndex, NEW m, m = Capacity(n), NEW cur, cur = NextTail(n),
           NEW l, l = Len(entries)
    PROVE  IsDoubled(n, m, cur, l)
  <1>1. n \in Nat /\ n > 0 /\ DOMAIN headers = 1..n /\ n \in DOMAIN headers
    BY DEF IndexOK, HeadersOK, blockIndex
  <1>2. /\ m \in Nat /\ m > 0 /\ Slots(n) = 0..m - 1
        /\ headers[n].tail \in 0..m - 1
        /\ \A s \in 0..m - 1 : EntryAt(n, s) \in DOMAIN entries
    BY <1>1, SlotsOf DEF IndexOK
  <1>. DEFINE E == [key : Nat, value : Blocks \cup {None}]
              fresh == FreshEntries(m)
  <1>3. entries \in Seq(E) /\ l \in Nat /\ DOMAIN entries = 1..l
    BY DEF DataOK
  <1>4. fresh = [i \in 1..m |-> [key |-> INVALID_BLOCK_BASE, value |-> None]]
    BY DEF FreshEntries
  <1>5. fresh \in Seq(E) /\ Len(fresh) = m
    <2>1. [key |-> INVALID_BLOCK_BASE, value |-> None] \in E
      BY DEF INVALID_BLOCK_BASE
    <2>. HIDE DEF E, fresh
    <2>. QED  BY <1>2, <1>4, <2>1
  <1>6. entries' = entries \o fresh
    BY DEF NewBlockIndex
  <1>7. /\ entries' \in Seq(E) /\ DOMAIN entries' = 1..l + m
        /\ \A k \in 1..l : entries'[k] = entries[k]
        /\ \A k \in l + 1..l + m : entries'[k] = fresh[k - l]
    <2>. HIDE DEF E, fresh
    <2>. QED  BY <1>2, <1>3, <1>5, <1>6
  <1>8. \A k \in l + 1..l + m : Key(k)' = INVALID_BLOCK_BASE /\ BlockOf(k)' = None
    <2>1. \A k \in l + 1..l + m : k - l \in 1..m
      BY <1>2, <1>3
    <2>2. \A i \in 1..m : fresh[i] = [key |-> INVALID_BLOCK_BASE, value |-> None]
      BY <1>4
    <2>. HIDE DEF fresh
    <2>3. \A k \in l + 1..l + m :
              entries'[k] = [key |-> INVALID_BLOCK_BASE, value |-> None]
      BY <1>7, <2>1, <2>2
    <2>. QED  BY <2>3 DEF Key, BlockOf, INVALID_BLOCK_BASE
  <1>. DEFINE array == [i \in 0..2 * m - 1 |->
                  IF i < m THEN EntryAt(n, (headers[n].tail + 1 + i) % m) ELSE l + 1 + i - m]
              header == [tail |-> m - 1, index |-> array]
  <1>9. headers' = Append(headers, header)
    BY DEF NewBlockIndex, Doubled
  <1>. DEFINE R(i) == (headers[n].tail + 1 + i) % m
  <1>10. /\ cur \in 0..m - 1
         /\ \A i \in 0..m - 1 : /\ R(i) \in 0..m - 1
                                /\ cur + i < m => R(i) = cur + i
                                /\ cur + i >= m => R(i) = cur + i - m
    <2>. PICK t \in 0..m - 1 : t = headers[n].tail
      BY <1>2
    <2>1. cur = (t + 1) % m
      BY DEF NextTail
    <2>2. /\ cur \in 0..m - 1
          /\ \A i \in 0..m - 1 :
                /\ cur + i < m => cur + i \in 0..m - 1 /\ (t + 1 + i) % m = cur + i
                /\ cur + i >= m => cur + i - m \in 0..m - 1 /\ (t + 1 + i) % m = cur + i - m
      <3>1. m \in Nat /\ m > 0
        BY <1>2
      <3>2. \A c : c = (t + 1) % m =>
               /\ c \in 0..m - 1
               /\ \A i \in 0..m - 1 :
                     /\ c + i < m => c + i \in 0..m - 1 /\ (t + 1 + i) % m = c + i
                     /\ c + i >= m => c + i - m \in 0..m - 1 /\ (t + 1 + i) % m = c + i - m
        BY ONLY <3>1, t \in 0..m - 1, Rotated
      <3>. QED  BY ONLY <2>1, <3>2, Zenon
    <2>3. \A i \in 0..m - 1 : cur + i < m \/ cur + i >= m
      BY <1>2, <2>2
    <2>4. \A i : R(i) = (t + 1 + i) % m
      OBVIOUS
    <2>. HIDE DEF R
    <2>. QED  BY ONLY <2>2, <2>3, <2>4, Zenon
  <1>11. cur \in 0..m - 1
    BY <1>10
  <1>. HIDE DEF R
  <1>12. \A i \in 0..2 * m - 1 : array[i] \in Nat
    <2>1. \A i \in 0..m - 1 : EntryAt(n, R(i)) \in Nat
      BY <1>2, <1>3, <1>10
    <2>2. \A i \in 0..2 * m - 1 : i < m => i \in 0..m - 1
      BY <1>2
    <2>3. \A i \in 0..2 * m - 1 : ~(i < m) => l + 1 + i - m \in Nat
      <3>. m \in Nat /\ l \in Nat
        BY <1>2, <1>3
      <3>. QED  OBVIOUS
    <2>. QED  BY <2>1, <2>2, <2>3 DEF R
  <1>13. DOMAIN array = 0..2 * m - 1 /\ array \in [0..2 * m - 1 -> Nat]
    BY <1>12
  <1>14. /\ \A i \in 0..m - 1 :
               /\ cur + i < m => array[i] = EntryAt(n, cur + i)
               /\ cur + i >= m => array[i] = EntryAt(n, cur + i - m)
         /\ \A i \in m..2 * m - 1 : array[i] = l + 1 + i - m
    <2>1. \A i \in 0..m - 1 : i \in 0..2 * m - 1 /\ i < m
      BY <1>2
    <2>2. \A i \in m..2 * m - 1 : i \in 0..2 * m - 1 /\ ~(i < m)
      BY <1>2
    <2>3. \A i \in 0..m - 1 : array[i] = EntryAt(n, R(i))
      BY <2>1 DEF R
    <2>4. \A i \in m..2 * m - 1 : array[i] = l + 1 + i - m
      BY <2>2
    <2>. HIDE DEF array
    <2>. QED  BY <1>10, <2>3, <2>4
  <1>. HIDE DEF array
  <1>15. header \in Headers /\ header.tail = m - 1 /\ header.index = array
    <2>1. m - 1 \in Nat /\ 2 * m \in Nat
      BY <1>2
    <2>. QED  BY <1>13, <2>1 DEF Headers
  <1>. HIDE DEF header
  <1>16. /\ headers' \in Seq(Headers) /\ Len(headers') = n + 1
         /\ \A h \in 1..n : headers'[h] = headers[h]
         /\ headers'[n + 1] = header
    <2>1. headers \in Seq(Headers) /\ n = Len(headers)
      BY DEF IndexOK, HeadersOK, blockIndex
    <2>. QED  BY <1>1, <1>9, <1>15, <2>1
  <1>17. blockIndex' = n + 1
    BY <1>16 DEF blockIndex
  <1>18. headers'[n + 1].index = array /\ headers'[n + 1].tail = m - 1
    BY <1>15, <1>16
  <1>19. Slots(n + 1)' = 0..2 * m - 1 /\ \A i : EntryAt(n + 1, i)' = array[i]
    BY <1>13, <1>18 DEF Slots, EntryAt
  <1>20. Capacity(n + 1)' = 2 * m
    <2>1. Cardinality(0..2 * m - 1) = 2 * m
      BY <1>2, FS_Interval
    <2>. QED  BY <1>13, <1>18, <2>1 DEF Capacity
  <1>. HIDE DEF fresh
  <1>21. /\ \A i \in 0..m - 1 :
               /\ cur + i < m => EntryAt(n + 1, i)' = EntryAt(n, cur + i)
               /\ cur + i >= m => EntryAt(n + 1, i)' = EntryAt(n, cur + i - m)
         /\ \A i \in m..2 * m - 1 : EntryAt(n + 1, i)' = l + 1 + i - m
    BY <1>14, <1>19
  <1>22. entries' \in Seq([key : Nat, value : Blocks \cup {None}])
    BY <1>7
  <1>. HIDE DEF E
  <1>. QED  BY <1>1, <1>2, <1>3, <1>7, <1>8, <1>11, <1>16, <1>17, <1>18, <1>19, <1>20,
               <1>21, <1>22 DEF IsDoubled

\* The index is full: every slot has had a block, and the oldest is at the tail's slot.
LEMMA FullRing ==
    ASSUME Sizes, DataOK, LiveEntries, IndexOK, NewBlockIndex,
           NEW n, n = blockIndex, NEW m, m = Capacity(n), NEW cur, cur = NextTail(n),
           NEW b, b = Block
    PROVE  /\ AllUsed(n) /\ Aligned(n) /\ b \in Nat /\ Current = cur
           /\ \A s \in Slots(n) :
                 /\ s < cur => KeyAt(n, s) = BLOCK_SIZE * (b - cur + s)
                 /\ s >= cur => KeyAt(n, s) = BLOCK_SIZE * (b - cur + s - m)
  <1>1. producer.pc = "idle" /\ Slot(tailIndex) = 0 /\ tailIndex \in Nat
    BY DEF NewBlockIndex, DataOK
  <1>2. Current = cur
    BY <1>1 DEF Current, InBlock
  <1>3. /\ n \in DOMAIN headers /\ cur \in Slots(n) /\ b \in Nat
        /\ KeysAt(n, cur, b) /\ FilledAt(n, cur, b) /\ Aligned(n)
    BY <1>2, RingAtTail
  <1>4. BLOCK_SIZE * b = tailIndex
    BY <1>1, RingAtTail, SlotOf
  <1>5. EntryAt(n, cur) \in Live /\ KeyAt(n, cur) # INVALID_BLOCK_BASE
    <2>1. EntryAt(n, cur) \in DOMAIN entries
      BY <1>3 DEF IndexOK, HeadersOK
    <2>2. ~IsFree(entries[EntryAt(n, cur)])
      BY DEF NewBlockIndex
    <2>. QED  BY <2>1, <2>2 DEF IsFree, Live, BlockOf, KeyAt, Key
  <1>6. KeyAt(n, cur) < tailIndex
    BY <1>1, <1>5 DEF LiveEntries, KeyAt
  <1>7. Used(n, cur) /\ KeyAt(n, cur) # BLOCK_SIZE * b
    BY <1>1, <1>4, <1>5, <1>6 DEF Used
  <1>8. AllUsed(n)
    BY <1>3, <1>7 DEF FilledAt
  <1>9. m \in Nat /\ Slots(n) = 0..m - 1
    BY <1>3, SlotsOf DEF IndexOK
  <1>10. ASSUME NEW s \in Slots(n)
         PROVE  /\ s < cur => KeyAt(n, s) = BLOCK_SIZE * (b - cur + s)
                /\ s >= cur => KeyAt(n, s) = BLOCK_SIZE * (b - cur + s - m)
    <2>1. Used(n, s)
      BY <1>8 DEF AllUsed
    <2>2. /\ s < cur => KeyAt(n, s) = BLOCK_SIZE * (b - cur + s)
          /\ s > cur => KeyAt(n, s) = BLOCK_SIZE * (b - cur + s - m)
      BY <1>3, <2>1 DEF KeysAt
    <2>3. s = cur => KeyAt(n, s) = BLOCK_SIZE * (b - m)
      BY <1>3, <1>7 DEF KeysAt
    <2>4. s = cur => b - m = b - cur + s - m
      BY <1>3, <1>9
    <2>5. s >= cur => s > cur \/ s = cur
      BY <1>3, <1>9
    <2>. QED  BY <2>2, <2>3, <2>4, <2>5
  <1>. QED  BY <1>2, <1>3, <1>8, <1>10

\* The keys of the new index.
LEMMA GrownKeys ==
    ASSUME Sizes, DataOK, LiveEntries, IndexOK, NewBlockIndex,
           NEW n, n = blockIndex, NEW m, m = Capacity(n), NEW cur, cur = NextTail(n),
           NEW l, l = Len(entries), NEW b, b = Block
    PROVE  /\ \A h \in 1..n : /\ Slots(h)' = Slots(h) /\ Capacity(h)' = Capacity(h)
                              /\ \A s \in Slots(h) : /\ EntryAt(h, s)' = EntryAt(h, s)
                                                     /\ KeyAt(h, s)' = KeyAt(h, s)
           /\ \A i \in 0..m - 1 : KeyAt(n + 1, i)' = BLOCK_SIZE * (b - m + i)
           /\ \A i \in m..2 * m - 1 : KeyAt(n + 1, i)' = INVALID_BLOCK_BASE
  <1>d. IsDoubled(n, m, cur, l)
    BY DoubledIndex
  <1>0. /\ n \in Nat /\ DOMAIN headers = 1..n
        /\ m \in Nat /\ m > 0 /\ Slots(n) = 0..m - 1 /\ cur \in 0..m - 1
        /\ l \in Nat /\ DOMAIN entries = 1..l /\ DOMAIN entries' = 1..l + m
        /\ \A k \in 1..l : entries'[k] = entries[k]
        /\ \A k \in l + 1..l + m : Key(k)' = INVALID_BLOCK_BASE /\ BlockOf(k)' = None
        /\ \A h \in 1..n : headers'[h] = headers[h]
    BY <1>d DEF IsDoubled
  <1>z. m \in Nat /\ m > 0 /\ cur \in 0..m - 1 /\ l \in Nat
    BY <1>0
  <1>a. \A i \in 0..m - 1 :
            /\ cur + i < m => EntryAt(n + 1, i)' = EntryAt(n, cur + i)
            /\ cur + i >= m => EntryAt(n + 1, i)' = EntryAt(n, cur + i - m)
    BY <1>d DEF IsDoubled
  <1>b. \A i \in m..2 * m - 1 : EntryAt(n + 1, i)' = l + 1 + i - m
    BY <1>d DEF IsDoubled
  <1>1. /\ \A i \in 0..m - 1 :
              /\ cur + i < m => EntryAt(n + 1, i)' = EntryAt(n, cur + i)
              /\ cur + i >= m => EntryAt(n + 1, i)' = EntryAt(n, cur + i - m)
        /\ \A i \in m..2 * m - 1 : EntryAt(n + 1, i)' = l + 1 + i - m
    BY <1>a, <1>b
  <1>2. \A h \in 1..n : /\ Slots(h)' = Slots(h) /\ Capacity(h)' = Capacity(h)
                        /\ \A s \in Slots(h) : EntryAt(h, s)' = EntryAt(h, s)
    BY <1>0 DEF Slots, Capacity, EntryAt
  <1>3. \A h \in 1..n : \A s \in Slots(h) : EntryAt(h, s) \in 1..l
    BY <1>0 DEF IndexOK, HeadersOK
  <1>4. \A h \in 1..n : \A s \in Slots(h) : KeyAt(h, s)' = KeyAt(h, s)
    BY <1>0, <1>2, <1>3 DEF KeyAt, Key, EntryAt
  <1>5. ASSUME NEW i \in m..2 * m - 1
        PROVE  KeyAt(n + 1, i)' = INVALID_BLOCK_BASE
    <2>1. PICK k \in l + 1..l + m : k = l + 1 + i - m
      BY ONLY <1>z, i \in m..2 * m - 1
    <2>2. EntryAt(n + 1, i)' = k
      BY <1>1, <2>1
    <2>3. entries'[k].key = INVALID_BLOCK_BASE
      BY <1>0 DEF Key, INVALID_BLOCK_BASE
    <2>. QED  BY <2>2, <2>3 DEF KeyAt, Key, INVALID_BLOCK_BASE
  <1>6. \A s \in Slots(n) :
           /\ s < cur => KeyAt(n, s) = BLOCK_SIZE * (b - cur + s)
           /\ s >= cur => KeyAt(n, s) = BLOCK_SIZE * (b - cur + s - m)
    BY FullRing
  <1>7. \A i \in 0..m - 1 : \A s \in Slots(n) :
           EntryAt(n + 1, i)' = EntryAt(n, s) => KeyAt(n + 1, i)' = KeyAt(n, s)
    <2>1. \A s \in Slots(n) : EntryAt(n, s) \in 1..l
      BY <1>0, <1>3 DEF IndexOK, HeadersOK, blockIndex
    <2>2. \A k \in 1..l : entries'[k] = entries[k]
      BY <1>0
    <2>. QED  BY ONLY <2>1, <2>2 DEF KeyAt, Key
  <1>8. ASSUME NEW i \in 0..m - 1
        PROVE  KeyAt(n + 1, i)' = BLOCK_SIZE * (b - m + i)
    <2>. b \in Nat
      BY FullRing
    <2>. PICK z : z = BLOCK_SIZE
      OBVIOUS
    <2>1. CASE cur + i < m
      <3>1. PICK s \in Slots(n) : s = cur + i
        BY ONLY <1>0, <1>z, <2>1, i \in 0..m - 1
      <3>2. KeyAt(n + 1, i)' = KeyAt(n, s)
        BY <1>1, <1>7, <2>1, <3>1
      <3>3. s >= cur /\ b - cur + s - m = b - m + i
        BY ONLY <1>z, b \in Nat, i \in 0..m - 1, <2>1, <3>1
      <3>4. KeyAt(n, s) = z * (b - cur + s - m)
        BY <1>6, <3>3
      <3>. QED  BY <3>2, <3>3, <3>4
    <2>2. CASE cur + i >= m
      <3>1. PICK s \in Slots(n) : s = cur + i - m
        BY ONLY <1>0, <1>z, <2>2, i \in 0..m - 1
      <3>2. KeyAt(n + 1, i)' = KeyAt(n, s)
        BY <1>1, <1>7, <2>2, <3>1
      <3>3. s < cur /\ b - cur + s = b - m + i
        BY ONLY <1>z, b \in Nat, i \in 0..m - 1, <2>2, <3>1
      <3>4. KeyAt(n, s) = z * (b - cur + s)
        BY <1>6, <3>3
      <3>. QED  BY <3>2, <3>3, <3>4
    <2>3. cur + i < m \/ cur + i >= m
      BY ONLY <1>z, i \in 0..m - 1
    <2>. QED  BY <2>1, <2>2, <2>3
  <1>. QED  BY <1>2, <1>4, <1>5, <1>8

\* The newest index has every entry once, the new ones too.
LEMMA GrownComplete ==
    ASSUME Sizes, DataOK, IndexOK, NewBlockIndex,
           NEW n, n = blockIndex, NEW m, m = Capacity(n), NEW cur, cur = NextTail(n),
           NEW l, l = Len(entries)
    PROVE  Complete' /\ HeadersOK'
  <1>d. IsDoubled(n, m, cur, l)
    BY DoubledIndex
  <1>0. /\ n \in Nat /\ n > 0 /\ DOMAIN headers = 1..n
        /\ m \in Nat /\ m > 0 /\ Slots(n) = 0..m - 1 /\ cur \in 0..m - 1
        /\ l \in Nat /\ DOMAIN entries = 1..l /\ DOMAIN entries' = 1..l + m
    BY <1>d DEF IsDoubled
  <1>z. m \in Nat /\ m > 0 /\ cur \in 0..m - 1 /\ l \in Nat
    BY <1>0
  <1>1. /\ headers' \in Seq(Headers) /\ Len(headers') = n + 1 /\ blockIndex' = n + 1
        /\ \A h \in 1..n : headers'[h] = headers[h]
        /\ headers'[n + 1].tail = m - 1
        /\ Slots(n + 1)' = 0..2 * m - 1
    BY <1>d DEF IsDoubled
  <1>2. \A i \in 0..m - 1 :
            /\ cur + i < m => EntryAt(n + 1, i)' = EntryAt(n, cur + i)
            /\ cur + i >= m => EntryAt(n + 1, i)' = EntryAt(n, cur + i - m)
    BY <1>d DEF IsDoubled
  <1>3. \A i \in m..2 * m - 1 : EntryAt(n + 1, i)' = l + 1 + i - m
    BY <1>d DEF IsDoubled
  <1>4. /\ \A h \in 1..n : \A s \in Slots(h) : EntryAt(h, s) \in 1..l
        /\ \A h \in 1..n : headers[h].tail \in Slots(h)
    BY <1>0 DEF IndexOK, HeadersOK
  <1>5. \A s \in 0..m - 1 : EntryAt(n, s) \in 1..l
    BY <1>0, <1>4
  <1>6. /\ \A r, s \in 0..m - 1 : EntryAt(n, r) = EntryAt(n, s) => r = s
        /\ \A k \in 1..l : \E s \in 0..m - 1 : EntryAt(n, s) = k
    BY <1>0 DEF IndexOK, Complete
  <1>7. /\ \A i \in 0..m - 1 : EntryAt(n + 1, i)' \in 1..l
        /\ \A i \in m..2 * m - 1 : EntryAt(n + 1, i)' \in l + 1..l + m
    <2>1. \A i \in 0..m - 1 : /\ cur + i < m => cur + i \in 0..m - 1
                              /\ cur + i >= m => cur + i - m \in 0..m - 1
                              /\ cur + i < m \/ cur + i >= m
      BY ONLY <1>z
    <2>2. \A i \in m..2 * m - 1 : l + 1 + i - m \in l + 1..l + m
      BY ONLY <1>z
    <2>. QED  BY <1>2, <1>3, <1>5, <2>1, <2>2
  <1>8. HeadersOK'
    <2>1. \A h \in 1..n : Slots(h)' = Slots(h) /\ \A s \in Slots(h) : EntryAt(h, s)' = EntryAt(h, s)
      BY <1>1 DEF Slots, EntryAt
    <2>2. \A k \in 1..l : k \in 1..l + m
      BY ONLY <1>z
    <2>3. \A h \in 1..n : /\ headers'[h].tail \in Slots(h)'
                          /\ \A s \in Slots(h)' : EntryAt(h, s)' \in 1..l + m
      BY <1>1, <1>4, <2>1, <2>2
    <2>4. headers'[n + 1].tail \in Slots(n + 1)'
      BY <1>0, <1>1
    <2>5. \A s \in Slots(n + 1)' : EntryAt(n + 1, s)' \in 1..l + m
      <3>1. \A s \in 0..2 * m - 1 : s \in 0..m - 1 \/ s \in m..2 * m - 1
        BY ONLY <1>z
      <3>2. \A k \in l + 1..l + m : k \in 1..l + m
        BY ONLY <1>z
      <3>. QED  BY <1>1, <1>7, <2>2, <3>1, <3>2
    <2>6. DOMAIN headers' = 1..n + 1 /\ Len(headers') > 0
      BY <1>0, <1>1
    <2>7. \A h \in 1..n + 1 : h \in 1..n \/ h = n + 1
      BY <1>0
    <2>8. \A h \in DOMAIN headers' : /\ headers'[h].tail \in Slots(h)'
                                     /\ \A s \in Slots(h)' : EntryAt(h, s)' \in DOMAIN entries'
      BY <1>0, <2>3, <2>4, <2>5, <2>6, <2>7
    <2>. QED  BY <1>1, <2>6, <2>8 DEF HeadersOK
  <1>9. ASSUME NEW i \in 0..2 * m - 1, NEW j \in 0..2 * m - 1,
               EntryAt(n + 1, i)' = EntryAt(n + 1, j)'
        PROVE  i = j
    <2>1. CASE i \in 0..m - 1 /\ j \in 0..m - 1
      <3>1. PICK r \in 0..m - 1 : /\ EntryAt(n + 1, i)' = EntryAt(n, r)
                                  /\ r = cur + i \/ r = cur + i - m
        <4>1. /\ cur + i < m => cur + i \in 0..m - 1
              /\ cur + i >= m => cur + i - m \in 0..m - 1
              /\ cur + i < m \/ cur + i >= m
          BY ONLY <1>z, <2>1
        <4>. QED  BY <1>2, <2>1, <4>1
      <3>2. PICK s \in 0..m - 1 : /\ EntryAt(n + 1, j)' = EntryAt(n, s)
                                  /\ s = cur + j \/ s = cur + j - m
        <4>1. /\ cur + j < m => cur + j \in 0..m - 1
              /\ cur + j >= m => cur + j - m \in 0..m - 1
              /\ cur + j < m \/ cur + j >= m
          BY ONLY <1>z, <2>1
        <4>. QED  BY <1>2, <2>1, <4>1
      <3>3. r = s
        BY <1>6, <1>9, <3>1, <3>2
      <3>4. /\ r = cur + i \/ r = cur + i - m
            /\ r = cur + j \/ r = cur + j - m
        BY <3>1, <3>2, <3>3
      <3>. QED  BY ONLY <1>z, <2>1, <3>4
    <2>2. CASE i \in m..2 * m - 1 /\ j \in m..2 * m - 1
      <3>1. l + 1 + i - m = l + 1 + j - m
        BY <1>3, <1>9, <2>2
      <3>. QED  BY ONLY <1>z, <2>2, <3>1
    <2>3. CASE \/ i \in 0..m - 1 /\ j \in m..2 * m - 1
               \/ i \in m..2 * m - 1 /\ j \in 0..m - 1
      <3>1. \A k \in 1..l : k \notin l + 1..l + m
        BY ONLY <1>z
      <3>. QED  BY <1>7, <1>9, <2>3, <3>1
    <2>4. \A s \in 0..2 * m - 1 : s \in 0..m - 1 \/ s \in m..2 * m - 1
      BY ONLY <1>z
    <2>. QED  BY <2>1, <2>2, <2>3, <2>4
  <1>10. ASSUME NEW k \in 1..l + m
         PROVE  \E i \in 0..2 * m - 1 : EntryAt(n + 1, i)' = k
    <2>1. CASE k \in 1..l
      <3>1. PICK s \in 0..m - 1 : EntryAt(n, s) = k
        BY <1>6, <2>1
      <3>2. CASE s >= cur
        <4>1. PICK i \in 0..m - 1 : i = s - cur
          BY ONLY <1>z, <3>2, s \in 0..m - 1
        <4>2. cur + i < m /\ cur + i = s /\ i \in 0..2 * m - 1
          BY ONLY <1>z, <3>2, <4>1, s \in 0..m - 1, i \in 0..m - 1
        <4>. QED  BY <1>2, <3>1, <4>2
      <3>3. CASE s < cur
        <4>1. PICK i \in 0..m - 1 : i = s - cur + m
          BY ONLY <1>z, <3>3, s \in 0..m - 1
        <4>2. cur + i >= m /\ cur + i - m = s /\ i \in 0..2 * m - 1
          BY ONLY <1>z, <4>1, <3>3, s \in 0..m - 1, i \in 0..m - 1
        <4>. QED  BY <1>2, <3>1, <4>2
      <3>4. s >= cur \/ s < cur
        BY ONLY <1>z, s \in 0..m - 1
      <3>. QED  BY <3>2, <3>3, <3>4
    <2>2. CASE k \in l + 1..l + m
      <3>1. PICK i \in m..2 * m - 1 : k = l + 1 + i - m
        <4>1. k - l - 1 + m \in m..2 * m - 1 /\ k = l + 1 + (k - l - 1 + m) - m
          BY ONLY <1>z, <2>2
        <4>. QED  BY <4>1
      <3>2. i \in 0..2 * m - 1
        BY ONLY <1>z, i \in m..2 * m - 1
      <3>. QED  BY <1>3, <3>1, <3>2
    <2>3. k \in 1..l \/ k \in l + 1..l + m
      BY ONLY <1>z, k \in 1..l + m
    <2>. QED  BY <2>1, <2>2, <2>3
  <1>11. Complete'
    <2>1. \A r, s \in Slots(n + 1)' : EntryAt(n + 1, r)' = EntryAt(n + 1, s)' => r = s
      BY <1>1, <1>9
    <2>2. \A k \in DOMAIN entries' : \E s \in Slots(n + 1)' : EntryAt(n + 1, s)' = k
      BY <1>0, <1>1, <1>10
    <2>. QED  BY <1>1, <2>1, <2>2 DEF Complete, Slots, EntryAt
  <1>. QED  BY <1>8, <1>11

\* The index doubles, and the producer is at the first of its new entries.
LEMMA GrowIndex ==
    ASSUME Sizes, DataOK, LiveEntries, IndexOK, NewBlockIndex
    PROVE  /\ IndexOK'
           /\ \A h \in DOMAIN headers : \A s \in Slots(h) : Used(h, s) => Used(h, s)'
           /\ \A h \in DOMAIN headers : /\ h \in DOMAIN headers' /\ headers'[h] = headers[h]
           /\ Live' = Live
           /\ \A k \in Live : Key(k)' = Key(k) /\ BlockOf(k)' = BlockOf(k)
           /\ NewEntry' \in DOMAIN entries' /\ BlockOf(NewEntry)' = None
           /\ entries' \in Seq([key : Nat, value : Blocks \cup {None}])
  <1>. PICK n : n = blockIndex
    OBVIOUS
  <1>. PICK m : m = Capacity(n)
    OBVIOUS
  <1>. PICK cur : cur = NextTail(n)
    OBVIOUS
  <1>. PICK l : l = Len(entries)
    OBVIOUS
  <1>. PICK b : b = Block
    OBVIOUS
  <1>d. IsDoubled(n, m, cur, l)
    BY DoubledIndex
  <1>0. /\ n \in Nat /\ n > 0 /\ DOMAIN headers = 1..n
        /\ m \in Nat /\ m > 0 /\ Slots(n) = 0..m - 1 /\ cur \in 0..m - 1
        /\ l \in Nat /\ DOMAIN entries = 1..l /\ DOMAIN entries' = 1..l + m
    BY <1>d DEF IsDoubled
  <1>z. n \in Nat /\ n > 0 /\ m \in Nat /\ m > 0 /\ cur \in 0..m - 1 /\ l \in Nat
    BY <1>0
  <1>1. /\ headers' \in Seq(Headers) /\ Len(headers') = n + 1 /\ blockIndex' = n + 1
        /\ \A h \in 1..n : headers'[h] = headers[h]
        /\ headers'[n + 1].tail = m - 1
        /\ Slots(n + 1)' = 0..2 * m - 1 /\ Capacity(n + 1)' = 2 * m
    BY <1>d DEF IsDoubled
  <1>2. \A i \in m..2 * m - 1 : EntryAt(n + 1, i)' = l + 1 + i - m
    BY <1>d DEF IsDoubled
  <1>3. /\ \A k \in 1..l : entries'[k] = entries[k]
        /\ \A k \in l + 1..l + m : Key(k)' = INVALID_BLOCK_BASE /\ BlockOf(k)' = None
    BY <1>d DEF IsDoubled
  <1>4. /\ AllUsed(n) /\ Aligned(n) /\ b \in Nat
    BY FullRing
  <1>5. /\ \A h \in 1..n : /\ Slots(h)' = Slots(h) /\ Capacity(h)' = Capacity(h)
                           /\ \A s \in Slots(h) : /\ EntryAt(h, s)' = EntryAt(h, s)
                                                  /\ KeyAt(h, s)' = KeyAt(h, s)
        /\ \A i \in 0..m - 1 : KeyAt(n + 1, i)' = BLOCK_SIZE * (b - m + i)
        /\ \A i \in m..2 * m - 1 : KeyAt(n + 1, i)' = INVALID_BLOCK_BASE
    BY GrownKeys
  <1>6. Complete' /\ HeadersOK'
    BY GrownComplete
  <1>7. \A h \in 1..n : \A s \in Slots(h) : Used(h, s)' <=> Used(h, s)
    BY <1>5 DEF Used, INVALID_BLOCK_BASE
  <1>8. /\ \A i \in 0..m - 1 : Used(n + 1, i)'
        /\ \A i \in m..2 * m - 1 : ~Used(n + 1, i)'
    <2>1. \A i \in 0..m - 1 : b - m + i \in Int
      BY <1>z, <1>4
    <2>2. \A i \in 0..m - 1 : KeyAt(n + 1, i)' # INVALID_BLOCK_BASE
      BY <1>5, <2>1, NotInvalid
    <2>. QED  BY <1>5, <2>2 DEF Used, INVALID_BLOCK_BASE
  <1>9. \A i \in 0..2 * m - 1 : /\ i < m => i \in 0..m - 1
                                /\ ~(i < m) => i \in m..2 * m - 1
                                /\ i > m => ~(i < m)
                                /\ i = m => ~(i < m)
    BY <1>z
  <1>10. KeysAt(n + 1, m, b)'
    <2>1. \A s \in Slots(n + 1)' : Used(n + 1, s)' =>
              /\ s < m
              /\ KeyAt(n + 1, s)' = BLOCK_SIZE * (b - m + s)
      BY <1>1, <1>5, <1>8, <1>9
    <2>2. \A s \in Slots(n + 1)' : (s > m => ~(s < m)) /\ (s = m => ~(s < m))
      BY <1>1, <1>9
    <2>. QED  BY <2>1, <2>2 DEF KeysAt
  <1>11. FilledAt(n + 1, m, b)'
    <2>1. \A s \in Slots(n + 1)' : /\ s < m => Used(n + 1, s)'
                                   /\ s > m => ~Used(n + 1, s)'
                                   /\ s = m => ~Used(n + 1, s)'
      BY <1>1, <1>8, <1>9
    <2>2. m # 0
      BY <1>z
    <2>. QED  BY <2>1, <2>2 DEF FilledAt
  <1>12. /\ producer'.pc = "key" /\ producer'.newTail = m /\ tailIndex' = tailIndex
    BY DEF NewBlockIndex, counters
  <1>13. Current' = m /\ ~InBlock' /\ Block' = b
    <2>1. ~InBlock'
      BY <1>12 DEF InBlock
    <2>2. NextTail(n + 1)' = m
      <3>1. NextTail(n + 1)' = (m - 1 + 1) % (2 * m)
        BY <1>1 DEF NextTail
      <3>2. (m - 1 + 1) % (2 * m) = m
        BY ONLY <1>z
      <3>. QED  BY <3>1, <3>2
    <2>3. NextTail(blockIndex)' = NextTail(n + 1)'
      BY <1>1 DEF NextTail
    <2>. QED  BY <1>12, <2>1, <2>2, <2>3 DEF Current, Block
  <1>14. Ring'
    <2>1. KeysAt(blockIndex, Current, Block)'
      BY <1>1, <1>10, <1>13
    <2>2. FilledAt(blockIndex, Current, Block)'
      BY <1>1, <1>11, <1>13
    <2>. QED  BY <1>12, <1>13, <2>1, <2>2 DEF Ring
  <1>15. Older'
    <2>1. \A h \in 1..n : (AllUsed(h) => AllUsed(h)') /\ (Aligned(h) => Aligned(h)')
      BY <1>5, <1>7 DEF AllUsed, Aligned
    <2>2. \A h \in 1..n : AllUsed(h)' /\ Aligned(h)'
      BY <1>0, <1>4, <2>1 DEF IndexOK, Older
    <2>3. \A h \in 1..n : \E f \in Nat : m = f * Capacity(h)
      <3>1. \A h \in 1..n : h # n => \E f \in Nat : m = f * Capacity(h)
        BY <1>0 DEF IndexOK, Older
      <3>2. m = 1 * Capacity(n) /\ 1 \in Nat
        BY <1>z
      <3>. QED  BY <3>1, <3>2
    <2>4. ASSUME NEW h \in 1..n
          PROVE  \E f \in Nat : 2 * m = f * Capacity(h)
      <3>1. PICK f \in Nat : m = f * Capacity(h)
        BY <2>3
      <3>2. PICK g \in Nat : g = Capacity(h)
        BY <1>0, SlotsOf DEF IndexOK
      <3>3. 2 * (f * g) = (2 * f) * g /\ 2 * f \in Nat
        BY ONLY f \in Nat, g \in Nat
      <3>. QED  BY <3>1, <3>2, <3>3
    <2>5. \A h \in 1..n + 1 : h # n + 1 => h \in 1..n
      BY <1>z
    <2>6. DOMAIN headers' = 1..n + 1
      BY <1>z, <1>1
    <2>7. \A h \in DOMAIN headers' : h # n + 1 =>
              /\ AllUsed(h)' /\ Aligned(h)'
              /\ \E f \in Nat : Capacity(n + 1)' = f * Capacity(h)'
      BY <1>1, <1>5, <2>2, <2>4, <2>5, <2>6
    <2>. QED  BY <1>1, <2>7 DEF Older, Capacity
  <1>16. IndexOK'
    BY <1>6, <1>14, <1>15 DEF IndexOK
  <1>17. \A h \in DOMAIN headers : h \in DOMAIN headers' /\ headers'[h] = headers[h]
    <2>1. DOMAIN headers' = 1..n + 1 /\ \A h \in 1..n : h \in 1..n + 1
      BY <1>z, <1>1
    <2>. QED  BY <1>0, <1>1, <2>1
  <1>18. /\ Live' = Live
         /\ \A k \in Live : Key(k)' = Key(k) /\ BlockOf(k)' = BlockOf(k)
    <2>1. \A k \in 1..l + m : k \in 1..l \/ k \in l + 1..l + m
      BY <1>z
    <2>2. \A k \in 1..l : k \in 1..l + m
      BY <1>z
    <2>3. \A k \in 1..l : Key(k)' = Key(k) /\ BlockOf(k)' = BlockOf(k)
      BY <1>3 DEF Key, BlockOf
    <2>4. Live' = Live
      BY <1>0, <1>3, <2>1, <2>2, <2>3 DEF Live
    <2>5. Live \subseteq 1..l
      BY <1>0 DEF Live
    <2>. QED  BY <2>3, <2>4, <2>5
  <1>19. NewEntry' \in DOMAIN entries' /\ BlockOf(NewEntry)' = None
    <2>1. m \in m..2 * m - 1 /\ l + 1 + m - m = l + 1 /\ l + 1 \in l + 1..l + m
          /\ l + 1 \in 1..l + m
      BY ONLY <1>z
    <2>2. NewEntry' = l + 1
      <3>1. EntryAt(n + 1, m)' = l + 1
        BY <1>2, <2>1
      <3>. QED  BY <1>1, <1>12, <3>1 DEF NewEntry, EntryAt
    <2>3. BlockOf(l + 1)' = None
      BY <1>3, <2>1
    <2>. QED  BY <1>0, <2>1, <2>2, <2>3 DEF BlockOf
  <1>20. entries' \in Seq([key : Nat, value : Blocks \cup {None}])
    BY <1>d DEF IsDoubled
  <1>21. \A h \in DOMAIN headers : \A s \in Slots(h) : Used(h, s) => Used(h, s)'
    BY <1>0, <1>7
  <1>. QED  BY <1>16, <1>17, <1>18, <1>19, <1>20, <1>21

-----------------------------------------------------------------------------
(* What the steps have in common.                                          *)

QueueOK == DataOK /\ ElementsOK /\ Filling /\ Finding /\ IndexOK

\* A consumer that looks for its entry goes on finding it.
LEMMA FindingStays ==
    ASSUME Sizes, HeadersOK, Finding,
           \A h \in DOMAIN headers : /\ h \in DOMAIN headers'
                                     /\ headers'[h].index = headers[h].index,
           \A h \in DOMAIN headers : \A s \in Slots(h) : Used(h, s) => Used(h, s)',
           NEW c, c \in At({"key", "value"}), consumer'[c] = consumer[c],
           \A k \in Live : Key(k) = Base(consumer[c].index) => k \in Live' /\ Key(k)' = Key(k)
    PROVE  /\ c \in At({"key"}) => StartsRight(c)'
           /\ c \in At({"value"}) => EntryFound(c)'
  <1>1. ASSUME c \in At({"key"})
        PROVE  StartsRight(c)'
    <2>. PICK h : h = consumer[c].header
      OBVIOUS
    <2>. PICK t : t = consumer[c].slot
      OBVIOUS
    <2>1. /\ h \in DOMAIN headers /\ t \in Slots(h) /\ Used(h, t)
          /\ \E s \in Slots(h) : EntryAt(h, s) \in Live
                                 /\ Key(EntryAt(h, s)) = Base(consumer[c].index)
      BY <1>1 DEF Finding, StartsRight, Slots, Used, KeyAt
    <2>2. PICK s \in Slots(h) : EntryAt(h, s) \in Live
                                /\ Key(EntryAt(h, s)) = Base(consumer[c].index)
      BY <2>1
    <2>3. /\ h \in DOMAIN headers' /\ Slots(h)' = Slots(h)
          /\ EntryAt(h, t)' = EntryAt(h, t) /\ EntryAt(h, s)' = EntryAt(h, s)
      BY <2>1 DEF Slots, EntryAt
    <2>4. Used(h, t)'
      BY <2>1
    <2>. PICK k : k = EntryAt(h, s)
      OBVIOUS
    <2>5. k \in Live' /\ Key(k)' = Base(consumer[c].index)
      BY <2>2
    <2>6. EntryAt(h, s)' \in Live' /\ entries'[EntryAt(h, s)'].key = Base(consumer'[c].index)
      BY <2>3, <2>5 DEF Key
    <2>7. h = consumer'[c].header /\ t = consumer'[c].slot
      OBVIOUS
    <2>8. entries'[EntryAt(h, t)'].key # INVALID_BLOCK_BASE
      BY <2>4 DEF Used, KeyAt, Key, INVALID_BLOCK_BASE
    <2>. QED  BY <2>1, <2>2, <2>3, <2>6, <2>7, <2>8
              DEF StartsRight, Slots, EntryAt, Key, Base, Slot, INVALID_BLOCK_BASE
  <1>2. ASSUME c \in At({"value"})
        PROVE  EntryFound(c)'
    <2>. PICK k : k = consumer[c].entry
      OBVIOUS
    <2>1. k \in Live /\ Key(k) = Base(consumer[c].index)
      BY <1>2 DEF Finding, EntryFound
    <2>2. k \in Live' /\ entries'[k].key = Base(consumer'[c].index) /\ k = consumer'[c].entry
      BY <2>1 DEF Key
    <2>. QED  BY <2>2 DEF EntryFound, Key, Base, Slot
  <1>. QED  BY <1>1, <1>2

\* Steps of the producer.
LEMMA ProducerFinding ==
    ASSUME Sizes, HeadersOK, Finding, UNCHANGED consumer,
           \A h \in DOMAIN headers : /\ h \in DOMAIN headers'
                                     /\ headers'[h].index = headers[h].index,
           \A h \in DOMAIN headers : \A s \in Slots(h) : Used(h, s) => Used(h, s)',
           \A k \in Live : k \in Live' /\ Key(k)' = Key(k)
    PROVE  Finding'
  <1>1. At({"key"})' = At({"key"}) /\ At({"value"})' = At({"value"})
        /\ At({"key", "value"}) = At({"key"}) \cup At({"value"})
    BY DEF At
  <1>2. ASSUME NEW c \in At({"key", "value"})
        PROVE  /\ c \in At({"key"}) => StartsRight(c)'
               /\ c \in At({"value"}) => EntryFound(c)'
    BY FindingStays
  <1>. QED  BY <1>1, <1>2 DEF Finding

\* Steps of the producer that touch no key, and of the indices at most their tails.
LEMMA ProducerIndex ==
    ASSUME Sizes, DataOK, IndexOK,
           Len(headers') = Len(headers), headers' \in Seq(Headers),
           \A h \in DOMAIN headers : /\ headers'[h].index = headers[h].index
                                     /\ headers'[h].tail \in Slots(h),
           DOMAIN entries' = DOMAIN entries,
           \A k \in DOMAIN entries : entries'[k].key = entries[k].key,
           Current' = Current, Block' = Block,
           (InBlock \/ producer.pc = "tail")' =>
               InBlock \/ producer.pc = "tail",
           producer'.pc # "idle" => producer'.newTail = Current
    PROVE  /\ IndexOK'
           /\ \A h \in DOMAIN headers : h \in DOMAIN headers'
           /\ \A h \in DOMAIN headers : \A s \in Slots(h) : Used(h, s) => Used(h, s)'
  <1>. HeadersOK /\ Ring /\ Complete /\ Older
    BY DEF IndexOK
  <1>1. /\ HeadersOK' /\ Complete' /\ Older'
        /\ blockIndex' = blockIndex
        /\ \A h \in DOMAIN headers : h \in DOMAIN headers'
        /\ \A h \in DOMAIN headers : \A s \in Slots(h) : KeyAt(h, s)' = KeyAt(h, s)
        /\ \A cur, b : KeysAt(blockIndex, cur, b) => KeysAt(blockIndex, cur, b)'
        /\ \A cur, b : FilledAt(blockIndex, cur, b) => FilledAt(blockIndex, cur, b)'
    BY SameIndex
  <1>2. \A h \in DOMAIN headers : \A s \in Slots(h) : Used(h, s) => Used(h, s)'
    BY <1>1 DEF Used, INVALID_BLOCK_BASE
  <1>. PICK cur \in Slots(blockIndex) : cur = Current
    BY CurrentSlot
  <1>. PICK b : b = Block
    OBVIOUS
  <1>. PICK n \in DOMAIN headers : n = blockIndex
    BY Newest
  <1>3. KeysAt(n, cur, b) /\ FilledAt(n, cur, b)
    BY DEF Ring
  <1>4. KeysAt(n, cur, b)' /\ FilledAt(n, cur, b)' /\ KeyAt(n, cur)' = KeyAt(n, cur)
    BY <1>1, <1>3
  <1>5. n = blockIndex' /\ cur = Current' /\ b = Block'
    BY <1>1
  <1>6. /\ KeysAt(blockIndex, Current, Block)'
        /\ FilledAt(blockIndex, Current, Block)'
    BY <1>4, <1>5
  <1>7. (InBlock \/ producer.pc = "tail")' => KeyAt(blockIndex, Current)' = BLOCK_SIZE * Block'
    <2>1. (InBlock \/ producer.pc = "tail")' => KeyAt(n, cur) = BLOCK_SIZE * b
      BY DEF Ring
    <2>2. KeyAt(blockIndex, Current)' = KeyAt(n, cur)
      BY <1>4, <1>5
    <2>. QED  BY <1>5, <2>1, <2>2
  <1>8. Ring'
    BY <1>6, <1>7 DEF Ring
  <1>. QED  BY <1>1, <1>2, <1>8 DEF IndexOK

\* What a step of the producer changes of its own state, typed.
LEMMA ProducerTypes ==
    ASSUME DataOK, UNCHANGED <<tailIndex, headIndex, elements, consumer>>,
           entries' \in Seq([key : Nat, value : Blocks \cup {None}]),
           uses' \in [Blocks -> 0..1], elementsCompletelyDequeued' \in [Blocks -> Nat],
           producer' \in [pc : ProducerPcs, newTail : Nat, block : Blocks \cup {None}]
    PROVE  DataOK'
  BY DEF DataOK, Callers, Blocks, ConsumerPcs, ProducerPcs

\* The producer finds a free entry: it is the next one of the ring.
LEMMA FindEntryStep ==
    ASSUME Sizes, QueueOK, FindEntry
    PROVE  QueueOK'
  <1>. DataOK /\ ElementsOK /\ Filling /\ Finding /\ IndexOK
    BY DEF QueueOK
  <1>. HeadersOK
    BY DEF IndexOK
  <1>. PICK n \in DOMAIN headers : n = blockIndex
    BY Newest
  <1>. PICK cur \in Slots(n) : cur = Current
    BY CurrentSlot
  <1>0. /\ producer.pc = "idle" /\ Slot(tailIndex) = 0
        /\ IsFree(entries[EntryAt(n, NextTail(n))])
        /\ producer' = [pc |-> "key", newTail |-> NextTail(n), block |-> None]
        /\ UNCHANGED <<tailIndex, headIndex, entries, headers, elements,
                       elementsCompletelyDequeued, uses, consumer>>
    BY DEF FindEntry, counters, index, storage, pool
  <1>1. cur = NextTail(n) /\ ~InBlock
    BY <1>0 DEF Current, InBlock
  <1>2. ~InBlock' /\ Current' = cur /\ Block' = Block
    <2>1. ~InBlock'
      BY <1>0 DEF InBlock
    <2>2. NextTail(blockIndex)' = NextTail(n)
      BY <1>0 DEF NextTail, Capacity, blockIndex
    <2>. QED  BY <1>0, <1>1, <2>1, <2>2 DEF Current, Block
  <1>3. cur \in Nat
    BY SlotsOf
  <1>4. DataOK'
    <2>1. producer' \in [pc : ProducerPcs, newTail : Nat, block : Blocks \cup {None}]
      BY <1>0, <1>1, <1>3 DEF ProducerPcs
    <2>2. /\ entries \in Seq([key : Nat, value : Blocks \cup {None}])
          /\ uses \in [Blocks -> 0..1] /\ elementsCompletelyDequeued \in [Blocks -> Nat]
      BY DEF DataOK
    <2>. QED  BY <1>0, <2>1, <2>2, ProducerTypes
  <1>5. Live' = Live /\ \A k \in Live : Key(k)' = Key(k) /\ BlockOf(k)' = BlockOf(k)
    BY <1>0 DEF Live, Key, BlockOf
  <1>6. ElementsOK'
    BY <1>0, <1>5, QuietProducer
  <1>7. /\ IndexOK'
        /\ \A h \in DOMAIN headers : \A s \in Slots(h) : Used(h, s) => Used(h, s)'
    <2>1. headers \in Seq(Headers) /\ \A h \in DOMAIN headers : headers[h].tail \in Slots(h)
      BY DEF HeadersOK
    <2>2. ~(InBlock \/ producer.pc = "tail")'
      BY <1>0, <1>2
    <2>3. producer'.newTail = cur
      BY <1>0, <1>1
    <2>. QED  BY <1>0, <1>2, <2>1, <2>2, <2>3, ProducerIndex
  <1>8. Finding'
    BY <1>0, <1>5, <1>7, ProducerFinding
  <1>9. Filling'
    <2>1. EntryAt(n, cur) \in DOMAIN entries
      BY DEF HeadersOK
    <2>2. BlockOf(EntryAt(n, cur)) = None
      <3>1. SUFFICES ASSUME Key(EntryAt(n, cur)) = INVALID_BLOCK_BASE,
                            BlockOf(EntryAt(n, cur)) # None
                     PROVE  FALSE
        BY <1>0, <1>1 DEF IsFree, Key, BlockOf
      <3>2. EntryAt(n, cur) \in Live
        BY <2>1, <3>1 DEF Live
      <3>3. Slot(INVALID_BLOCK_BASE) = 0
        BY <3>1, <3>2 DEF ElementsOK, LiveEntries
      <3>4. Slot(INVALID_BLOCK_BASE) = 1
        BY DEF Sizes, Slot, INVALID_BLOCK_BASE
      <3>. QED  BY <3>3, <3>4
    <2>3. NewEntry' = EntryAt(n, cur)
      BY <1>0, <1>1 DEF NewEntry, EntryAt, blockIndex
    <2>4. Slot(tailIndex)' = 0
      BY <1>0 DEF Slot
    <2>5. NewEntry' \in DOMAIN entries' /\ BlockOf(NewEntry)' = None
      BY <1>0, <2>1, <2>2, <2>3 DEF BlockOf
    <2>. QED  BY <1>0, <2>4, <2>5 DEF Filling
  <1>. QED  BY <1>4, <1>6, <1>7, <1>8, <1>9 DEF QueueOK

\* The producer doubles the index.
LEMMA NewBlockIndexStep ==
    ASSUME Sizes, QueueOK, NewBlockIndex
    PROVE  QueueOK'
  <1>. DataOK /\ ElementsOK /\ LiveEntries /\ Filling /\ Finding /\ IndexOK
    BY DEF QueueOK, ElementsOK
  <1>. HeadersOK
    BY DEF IndexOK
  <1>0. /\ producer.pc = "idle" /\ Slot(tailIndex) = 0
        /\ producer' = [pc |-> "key", newTail |-> Capacity(blockIndex), block |-> None]
        /\ UNCHANGED <<tailIndex, headIndex, elements, elementsCompletelyDequeued, uses,
                       consumer>>
    BY DEF NewBlockIndex, counters, storage, pool
  <1>1. /\ IndexOK'
        /\ \A h \in DOMAIN headers : \A s \in Slots(h) : Used(h, s) => Used(h, s)'
        /\ \A h \in DOMAIN headers : h \in DOMAIN headers' /\ headers'[h] = headers[h]
        /\ Live' = Live
        /\ \A k \in Live : Key(k)' = Key(k) /\ BlockOf(k)' = BlockOf(k)
        /\ NewEntry' \in DOMAIN entries' /\ BlockOf(NewEntry)' = None
        /\ entries' \in Seq([key : Nat, value : Blocks \cup {None}])
    BY GrowIndex
  <1>2. DataOK'
    <2>1. Capacity(blockIndex) \in Nat
      BY Newest, SlotsOf
    <2>2. producer' \in [pc : ProducerPcs, newTail : Nat, block : Blocks \cup {None}]
      BY <1>0, <2>1 DEF ProducerPcs
    <2>3. uses \in [Blocks -> 0..1] /\ elementsCompletelyDequeued \in [Blocks -> Nat]
      BY DEF DataOK
    <2>. QED  BY <1>0, <1>1, <2>2, <2>3, ProducerTypes
  <1>3. ElementsOK'
    BY <1>0, <1>1, QuietProducer
  <1>4. Finding'
    BY <1>0, <1>1, ProducerFinding
  <1>5. Filling'
    <2>1. Slot(tailIndex)' = 0
      BY <1>0 DEF Slot
    <2>. QED  BY <1>0, <1>1, <2>1 DEF Filling
  <1>. QED  BY <1>1, <1>2, <1>3, <1>4, <1>5 DEF QueueOK

\* The new entry gets its key before it can be found.
LEMMA StoreKeyStep ==
    ASSUME Sizes, QueueOK, StoreKey
    PROVE  QueueOK'
  <1>. DataOK /\ ElementsOK /\ Filling /\ Finding /\ IndexOK
    BY DEF QueueOK
  <1>. HeadersOK
    BY DEF IndexOK
  <1>0. /\ producer.pc = "key"
        /\ entries' = [entries EXCEPT ![NewEntry].key = tailIndex]
        /\ producer' = [producer EXCEPT !.pc = "tail"]
        /\ UNCHANGED <<tailIndex, headIndex, headers, elements, elementsCompletelyDequeued,
                       uses, consumer>>
        /\ tailIndex \in Nat
        /\ producer \in [pc : ProducerPcs, newTail : Nat, block : Blocks \cup {None}]
    BY DEF StoreKey, counters, storage, pool, DataOK
  <1>1. Slot(tailIndex) = 0 /\ NewEntry \in DOMAIN entries /\ BlockOf(NewEntry) = None
    BY <1>0 DEF Filling
  <1>2. /\ DOMAIN entries' = DOMAIN entries
        /\ entries'[NewEntry].value = entries[NewEntry].value
        /\ entries'[NewEntry].key = tailIndex
        /\ entries' \in Seq([key : Nat, value : Blocks \cup {None}])
    BY <1>0, <1>1, KeyStored
  <1>3. /\ IndexOK'
        /\ \A h \in DOMAIN headers : \A s \in Slots(h) : Used(h, s) => Used(h, s)'
        /\ Live' = Live
        /\ \A k \in Live : Key(k)' = Key(k) /\ BlockOf(k)' = BlockOf(k)
    BY StoreKeyIndex
  <1>4. DataOK'
    <2>1. producer' \in [pc : ProducerPcs, newTail : Nat, block : Blocks \cup {None}]
      BY <1>0 DEF ProducerPcs
    <2>2. uses \in [Blocks -> 0..1] /\ elementsCompletelyDequeued \in [Blocks -> Nat]
      BY DEF DataOK
    <2>. QED  BY <1>0, <1>2, <2>1, <2>2, ProducerTypes
  <1>5. ElementsOK'
    BY <1>0, <1>3, QuietProducer
  <1>6. Finding'
    BY <1>0, <1>3, ProducerFinding
  <1>7. Filling'
    <2>1. Slot(tailIndex)' = 0 /\ producer'.pc = "tail" /\ producer'.newTail = producer.newTail
      BY <1>0, <1>1 DEF Slot
    <2>2. NewEntry' = NewEntry
      BY <1>0, <2>1 DEF NewEntry, EntryAt, blockIndex
    <2>3. /\ NewEntry' \in DOMAIN entries' /\ BlockOf(NewEntry)' = None
          /\ Key(NewEntry)' = tailIndex'
      BY <1>0, <1>1, <1>2, <2>2 DEF BlockOf, Key
    <2>. QED  BY <2>1, <2>3 DEF Filling
  <1>. QED  BY <1>3, <1>4, <1>5, <1>6, <1>7 DEF QueueOK

\* The tail of the newest index moves.
LEMMA TailStored ==
    ASSUME HeadersOK, NEW n, n = blockIndex, NEW t \in Slots(n),
           headers' = [headers EXCEPT ![n].tail = t]
    PROVE  /\ Len(headers') = Len(headers) /\ headers' \in Seq(Headers)
           /\ blockIndex' = n
           /\ \A h \in DOMAIN headers : /\ h \in DOMAIN headers'
                                        /\ headers'[h].index = headers[h].index
                                        /\ headers'[h].tail \in Slots(h)
           /\ headers'[n].tail = t
           /\ Capacity(n)' = Capacity(n) /\ \A s : EntryAt(n, s)' = EntryAt(n, s)
  <1>1. /\ n \in DOMAIN headers /\ headers \in Seq(Headers)
        /\ \A h \in DOMAIN headers : headers[h] \in Headers /\ headers[h].tail \in Slots(h)
    BY Newest DEF HeadersOK
  <1>2. t \in Nat
    BY <1>1, SlotsOf
  <1>3. [headers[n] EXCEPT !.tail = t] \in Headers
    BY <1>1, <1>2 DEF Headers
  <1>4. headers' = [headers EXCEPT ![n] = [headers[n] EXCEPT !.tail = t]]
    OBVIOUS
  <1>5. headers' \in Seq(Headers) /\ Len(headers') = Len(headers) /\ DOMAIN headers' = DOMAIN headers
    <2>. PICK x \in Headers : x = [headers[n] EXCEPT !.tail = t]
      BY <1>3
    <2>. HIDE DEF Headers
    <2>1. headers' = [headers EXCEPT ![n] = x]
      BY <1>4
    <2>. QED  BY <1>1, <2>1
  <1>6. \A h \in DOMAIN headers : h # n => headers'[h] = headers[h]
    BY <1>1, <1>4
  <1>7. headers'[n].tail = t /\ headers'[n].index = headers[n].index
    BY <1>1, <1>4 DEF Headers
  <1>8. blockIndex' = n
    BY <1>5 DEF blockIndex
  <1>. QED  BY <1>1, <1>5, <1>6, <1>7, <1>8 DEF Capacity, EntryAt

\* The tail of the index moves to the new entry.
LEMMA StoreTailStep ==
    ASSUME Sizes, QueueOK, StoreTail
    PROVE  QueueOK'
  <1>. DataOK /\ ElementsOK /\ Filling /\ Finding /\ IndexOK /\ Ring
    BY DEF QueueOK, IndexOK
  <1>. HeadersOK
    BY DEF IndexOK
  <1>. PICK n \in DOMAIN headers : n = blockIndex
    BY Newest
  <1>. PICK cur \in Slots(n) : cur = Current
    BY CurrentSlot
  <1>0. /\ producer.pc = "tail"
        /\ headers' = [headers EXCEPT ![n].tail = producer.newTail]
        /\ producer' = [producer EXCEPT !.pc = "block"]
        /\ UNCHANGED <<tailIndex, headIndex, entries, elements, elementsCompletelyDequeued,
                       uses, consumer>>
        /\ producer \in [pc : ProducerPcs, newTail : Nat, block : Blocks \cup {None}]
    BY DEF StoreTail, counters, storage, pool, DataOK
  <1>1. producer.newTail = cur
    BY <1>0 DEF Ring
  <1>2. /\ Len(headers') = Len(headers) /\ headers' \in Seq(Headers)
        /\ blockIndex' = n
        /\ \A h \in DOMAIN headers : /\ h \in DOMAIN headers'
                                     /\ headers'[h].index = headers[h].index
                                     /\ headers'[h].tail \in Slots(h)
        /\ headers'[n].tail = cur
        /\ Capacity(n)' = Capacity(n) /\ \A s : EntryAt(n, s)' = EntryAt(n, s)
    BY <1>0, <1>1, TailStored
  <1>3. InBlock' /\ Current' = cur /\ Block' = Block
    BY <1>0, <1>2 DEF Current, InBlock, Block
  <1>4. DataOK'
    <2>1. producer' \in [pc : ProducerPcs, newTail : Nat, block : Blocks \cup {None}]
      BY <1>0 DEF ProducerPcs
    <2>2. /\ entries \in Seq([key : Nat, value : Blocks \cup {None}])
          /\ uses \in [Blocks -> 0..1] /\ elementsCompletelyDequeued \in [Blocks -> Nat]
      BY DEF DataOK
    <2>. QED  BY <1>0, <2>1, <2>2, ProducerTypes
  <1>5. Live' = Live /\ \A k \in Live : Key(k)' = Key(k) /\ BlockOf(k)' = BlockOf(k)
    BY <1>0 DEF Live, Key, BlockOf
  <1>6. ElementsOK'
    BY <1>0, <1>5, QuietProducer
  <1>7. /\ IndexOK'
        /\ \A h \in DOMAIN headers : \A s \in Slots(h) : Used(h, s) => Used(h, s)'
    <2>1. producer'.newTail = cur
      BY <1>0, <1>1
    <2>. QED  BY <1>0, <1>2, <1>3, <2>1, ProducerIndex
  <1>8. Finding'
    BY <1>0, <1>2, <1>5, <1>7, ProducerFinding
  <1>9. Filling'
    <2>1. producer'.pc = "block" /\ producer'.newTail = producer.newTail
      BY <1>0
    <2>2. NewEntry' = NewEntry
      BY <1>2, <2>1 DEF NewEntry, EntryAt
    <2>3. Slot(tailIndex)' = Slot(tailIndex)
      BY <1>0 DEF Slot
    <2>. QED  BY <1>0, <2>1, <2>2, <2>3 DEF Filling, BlockOf, Key
  <1>. QED  BY <1>4, <1>6, <1>7, <1>8, <1>9 DEF QueueOK

\* The producer gets a block that nobody uses.
LEMMA RequisitionBlockStep ==
    ASSUME Sizes, QueueOK, NEW b \in Blocks, RequisitionBlock(b)
    PROVE  QueueOK'
  <1>. DataOK /\ ElementsOK /\ Filling /\ Finding /\ IndexOK /\ Ring
    BY DEF QueueOK, IndexOK
  <1>. HeadersOK
    BY DEF IndexOK
  <1>0. /\ producer.pc = "block"
        /\ uses[b] = 0 /\ uses' = [uses EXCEPT ![b] = 1]
        /\ elementsCompletelyDequeued' = [elementsCompletelyDequeued EXCEPT ![b] = 0]
        /\ producer' = [producer EXCEPT !.pc = "value", !.block = b]
        /\ UNCHANGED <<tailIndex, headIndex, entries, headers, elements, consumer>>
    BY DEF RequisitionBlock, Pool!Acquire, counters, index
  <1>t. /\ producer \in [pc : ProducerPcs, newTail : Nat, block : Blocks \cup {None}]
        /\ uses \in [Blocks -> 0..1] /\ elementsCompletelyDequeued \in [Blocks -> Nat]
        /\ entries \in Seq([key : Nat, value : Blocks \cup {None}])
    BY DEF DataOK
  <1>1. /\ producer'.pc = "value" /\ producer'.newTail = producer.newTail
        /\ producer'.block = b
    BY <1>0, <1>t
  <1>2. /\ uses'[b] = 1 /\ elementsCompletelyDequeued'[b] = 0
        /\ \A x \in Blocks : uses[x] = 1 =>
              /\ uses'[x] = 1
              /\ elementsCompletelyDequeued'[x] = elementsCompletelyDequeued[x]
    BY <1>0, <1>t
  <1>3. InBlock /\ InBlock' /\ Current' = Current /\ Block' = Block
    BY <1>0, <1>1 DEF Current, InBlock, Block, blockIndex
  <1>4. DataOK'
    <2>1. producer' \in [pc : ProducerPcs, newTail : Nat, block : Blocks \cup {None}]
      BY <1>0, <1>t DEF ProducerPcs
    <2>2. uses' \in [Blocks -> 0..1] /\ elementsCompletelyDequeued' \in [Blocks -> Nat]
      BY <1>0, <1>t
    <2>. QED  BY <1>0, <1>t, <2>1, <2>2, ProducerTypes
  <1>5. Live' = Live /\ \A k \in Live : Key(k)' = Key(k) /\ BlockOf(k)' = BlockOf(k)
    BY <1>0 DEF Live, Key, BlockOf
  <1>6. ElementsOK'
    BY <1>0, <1>2, <1>5, QuietProducer
  <1>7. /\ IndexOK'
        /\ \A h \in DOMAIN headers : \A s \in Slots(h) : Used(h, s) => Used(h, s)'
    <2>1. headers \in Seq(Headers) /\ \A h \in DOMAIN headers : headers[h].tail \in Slots(h)
      BY DEF HeadersOK
    <2>2. producer'.newTail = Current
      BY <1>0, <1>1 DEF Ring
    <2>. QED  BY <1>0, <1>3, <2>1, <2>2, ProducerIndex
  <1>8. Finding'
    BY <1>0, <1>5, <1>7, ProducerFinding
  <1>9. Filling'
    <2>1. NewEntry' = NewEntry
      BY <1>0, <1>1 DEF NewEntry, EntryAt, blockIndex
    <2>2. Slot(tailIndex)' = Slot(tailIndex)
      BY <1>0 DEF Slot
    <2>3. \A k \in Live' : BlockOf(k)' # b
      BY <1>0, <1>5 DEF ElementsOK, LiveEntries
    <2>4. \A c \in At({"release"})' : consumer'[c].block # b
      BY <1>0 DEF ElementsOK, Emptying, AtRelease, At
    <2>. QED  BY <1>0, <1>1, <1>2, <2>1, <2>2, <2>3, <2>4 DEF Filling, BlockOf, Key
  <1>. QED  BY <1>4, <1>6, <1>7, <1>8, <1>9 DEF QueueOK

\* Without a block the tail of the index goes back to where it was.
LEMMA RewindStep ==
    ASSUME Sizes, QueueOK, RewindBlockIndexTail
    PROVE  QueueOK'
  <1>. DataOK /\ ElementsOK /\ Filling /\ Finding /\ IndexOK /\ Ring
    BY DEF QueueOK, IndexOK
  <1>. HeadersOK
    BY DEF IndexOK
  <1>. PICK n \in DOMAIN headers : n = blockIndex
    BY Newest
  <1>. PICK cur \in Slots(n) : cur = Current
    BY CurrentSlot
  <1>. PICK m \in Nat : m = Capacity(n) /\ m > 0 /\ Slots(n) = 0..m - 1
    BY SlotsOf
  <1>. PICK t : t = (cur - 1) % m
    OBVIOUS
  <1>t. /\ entries \in Seq([key : Nat, value : Blocks \cup {None}])
        /\ uses \in [Blocks -> 0..1] /\ elementsCompletelyDequeued \in [Blocks -> Nat]
    BY DEF DataOK
  <1>0. /\ producer.pc = "block"
        /\ headers' = [headers EXCEPT ![n].tail = (@ - 1) % Capacity(n)]
        /\ entries' = [entries EXCEPT ![NewEntry].value = None]
        /\ producer' = IdleProducer
        /\ UNCHANGED <<tailIndex, headIndex, elements, elementsCompletelyDequeued, uses,
                       consumer>>
    BY DEF RewindBlockIndexTail, counters, storage, pool
  <1>1. /\ Slot(tailIndex) = 0 /\ NewEntry \in DOMAIN entries /\ BlockOf(NewEntry) = None
        /\ InBlock /\ headers[n].tail = cur
    BY <1>0 DEF Filling, Current, InBlock
  <1>2. /\ DOMAIN entries' = DOMAIN entries
        /\ \A k \in DOMAIN entries : entries'[k] = entries[k]
        /\ entries' \in Seq([key : Nat, value : Blocks \cup {None}])
    <2>1. \A k \in DOMAIN entries : entries'[k].key = entries[k].key
      BY <1>0, <1>1, ValueStored
    <2>2. /\ DOMAIN entries' = DOMAIN entries
          /\ \A k \in DOMAIN entries \ {NewEntry} : entries'[k] = entries[k]
          /\ entries'[NewEntry].value = None
          /\ entries' \in Seq([key : Nat, value : Blocks \cup {None}])
      BY <1>0, <1>1, ValueStored
    <2>3. entries'[NewEntry] = entries[NewEntry]
      <3>1. /\ entries'[NewEntry] \in [key : Nat, value : Blocks \cup {None}]
            /\ entries[NewEntry] \in [key : Nat, value : Blocks \cup {None}]
        <4>. DEFINE E == [key : Nat, value : Blocks \cup {None}]
        <4>1. entries \in Seq(E) /\ entries' \in Seq(E)
          BY <1>t, <2>2
        <4>. HIDE DEF E
        <4>2. entries'[NewEntry] \in E /\ entries[NewEntry] \in E
          BY <1>1, <2>2, <4>1
        <4>. QED  BY <4>2 DEF E
      <3>2. /\ entries'[NewEntry].value = entries[NewEntry].value
            /\ entries'[NewEntry].key = entries[NewEntry].key
        BY <1>1, <2>1, <2>2 DEF BlockOf
      <3>. HIDE DEF Blocks
      <3>. QED  BY <3>1, <3>2
    <2>. QED  BY <2>2, <2>3
  <1>3. t \in Slots(n) /\ (t + 1) % m = cur
    BY Turning
  <1>4. headers' = [headers EXCEPT ![n].tail = t]
    BY <1>0, <1>1
  <1>5. /\ Len(headers') = Len(headers) /\ headers' \in Seq(Headers)
        /\ blockIndex' = n
        /\ \A h \in DOMAIN headers : /\ h \in DOMAIN headers'
                                     /\ headers'[h].index = headers[h].index
                                     /\ headers'[h].tail \in Slots(h)
        /\ headers'[n].tail = t
        /\ Capacity(n)' = Capacity(n)
    BY <1>3, <1>4, TailStored
  <1>6. ~InBlock' /\ producer'.pc = "idle" /\ Current' = cur /\ Block' = Block
    <2>1. producer'.pc = "idle" /\ Slot(tailIndex)' = 0
      BY <1>0, <1>1 DEF IdleProducer, Slot
    <2>2. ~InBlock'
      BY <2>1 DEF InBlock, Slot
    <2>3. NextTail(n)' = cur
      BY <1>3, <1>5 DEF NextTail
    <2>. QED  BY <1>0, <1>5, <2>1, <2>2, <2>3 DEF Current, Block, NextTail, Capacity
  <1>7. DataOK'
    <2>1. producer' \in [pc : ProducerPcs, newTail : Nat, block : Blocks \cup {None}]
      BY <1>0 DEF ProducerPcs, IdleProducer
    <2>. QED  BY <1>0, <1>2, <1>t, <2>1, ProducerTypes
  <1>8. Live' = Live /\ \A k \in Live : Key(k)' = Key(k) /\ BlockOf(k)' = BlockOf(k)
    BY <1>2 DEF Live, Key, BlockOf
  <1>9. ElementsOK'
    BY <1>0, <1>8, QuietProducer
  <1>10. /\ IndexOK'
         /\ \A h \in DOMAIN headers : \A s \in Slots(h) : Used(h, s) => Used(h, s)'
    <2>1. ~(InBlock \/ producer.pc = "tail")'
      BY <1>6
    <2>. QED  BY <1>2, <1>5, <1>6, <2>1, ProducerIndex
  <1>11. Finding'
    BY <1>0, <1>5, <1>8, <1>10, ProducerFinding
  <1>12. Filling'
    <2>1. Slot(tailIndex)' = 0
      BY <1>0, <1>1 DEF Slot
    <2>. QED  BY <1>6, <2>1 DEF Filling
  <1>. QED  BY <1>7, <1>9, <1>10, <1>11, <1>12 DEF QueueOK

\* The new entry gets its block.
LEMMA StoreValueStep ==
    ASSUME Sizes, QueueOK, StoreValue
    PROVE  QueueOK'
  <1>. DataOK /\ ElementsOK /\ Filling /\ Finding /\ IndexOK /\ Ring
    BY DEF QueueOK, IndexOK
  <1>. HeadersOK
    BY DEF IndexOK
  <1>t. /\ producer \in [pc : ProducerPcs, newTail : Nat, block : Blocks \cup {None}]
        /\ uses \in [Blocks -> 0..1] /\ elementsCompletelyDequeued \in [Blocks -> Nat]
        /\ tailIndex \in Nat
    BY DEF DataOK
  <1>0. /\ producer.pc = "value"
        /\ entries' = [entries EXCEPT ![NewEntry].value = producer.block]
        /\ producer' = [producer EXCEPT !.pc = "store"]
        /\ UNCHANGED <<tailIndex, headIndex, headers, elements, elementsCompletelyDequeued,
                       uses, consumer>>
    BY DEF StoreValue, counters, storage, pool
  <1>1. producer'.pc = "store" /\ producer'.newTail = producer.newTail
        /\ producer'.block = producer.block
    BY <1>0, <1>t
  <1>2. /\ Slot(tailIndex) = 0 /\ NewEntry \in DOMAIN entries /\ Key(NewEntry) = tailIndex
        /\ BlockOf(NewEntry) = None /\ producer.block \in Blocks
    BY <1>0 DEF Filling
  <1>3. /\ DOMAIN entries' = DOMAIN entries
        /\ \A k \in DOMAIN entries : entries'[k].key = entries[k].key
        /\ entries'[NewEntry].value = producer.block
        /\ entries' \in Seq([key : Nat, value : Blocks \cup {None}])
    BY <1>0, <1>2, ValueStored
  <1>4. ElementsOK' /\ NewEntry \in Live' /\ Live' = Live \cup {NewEntry}
    BY StoreValueElements
  <1>5. DataOK'
    <2>1. producer' \in [pc : ProducerPcs, newTail : Nat, block : Blocks \cup {None}]
      BY <1>0, <1>t DEF ProducerPcs
    <2>. QED  BY <1>0, <1>3, <1>t, <2>1, ProducerTypes
  <1>6. \A k \in Live : k \in Live' /\ Key(k)' = Key(k)
    BY <1>3, <1>4 DEF Live, Key
  <1>7. InBlock /\ Current' = Current /\ Block' = Block
    BY <1>0, <1>1 DEF Current, InBlock, Block, blockIndex
  <1>8. /\ IndexOK'
        /\ \A h \in DOMAIN headers : \A s \in Slots(h) : Used(h, s) => Used(h, s)'
    <2>1. headers \in Seq(Headers) /\ \A h \in DOMAIN headers : headers[h].tail \in Slots(h)
      BY DEF HeadersOK
    <2>2. producer'.newTail = Current
      BY <1>0, <1>1 DEF Ring
    <2>. QED  BY <1>0, <1>3, <1>7, <2>1, <2>2, ProducerIndex
  <1>9. Finding'
    BY <1>0, <1>6, <1>8, ProducerFinding
  <1>10. Filling'
    <2>1. Slot(tailIndex)' = 0 /\ Base(tailIndex)' = tailIndex
      BY <1>0, <1>2, <1>t, SlotOf DEF Slot, Base
    <2>2. Key(NewEntry) = entries'[NewEntry].key
      BY <1>2, <1>3 DEF Key
    <2>. PICK k : k = NewEntry
      OBVIOUS
    <2>3. k \in Live' /\ Key(k)' = Base(tailIndex)' /\ BlockOf(k)' = producer'.block
      BY <1>1, <1>2, <1>3, <1>4, <2>1, <2>2 DEF Key, BlockOf
    <2>. QED  BY <1>1, <2>1, <2>3 DEF Filling
  <1>. QED  BY <1>4, <1>5, <1>8, <1>9, <1>10 DEF QueueOK

\* The element is in its block and the tail moves past it.
LEMMA EnqueueStep ==
    ASSUME Sizes, QueueOK, EnqueueInBlock \/ EnqueueFirst
    PROVE  QueueOK'
  <1>. DataOK /\ ElementsOK /\ Filling /\ Finding /\ IndexOK /\ Ring
    BY DEF QueueOK, IndexOK
  <1>. HeadersOK
    BY DEF IndexOK
  <1>. PICK n \in DOMAIN headers : n = blockIndex
    BY Newest
  <1>. PICK cur \in Slots(n) : cur = Current
    BY CurrentSlot
  <1>. PICK b : b = Block
    OBVIOUS
  <1>t. /\ producer \in [pc : ProducerPcs, newTail : Nat, block : Blocks \cup {None}]
        /\ elements \in [Blocks -> [0..BLOCK_SIZE - 1 -> Nat \cup {None}]]
        /\ tailIndex \in Nat /\ headIndex \in Nat /\ headIndex <= tailIndex
    BY DEF DataOK
  <1>0. /\ producer.pc = "store" \/ (producer.pc = "idle" /\ Slot(tailIndex) # 0)
        /\ Store(producer.block)
        /\ producer'.pc = "idle" /\ producer'.block = producer.block
        /\ producer' \in [pc : ProducerPcs, newTail : Nat, block : Blocks \cup {None}]
    <2>1. CASE EnqueueInBlock
      BY <1>t, <2>1 DEF EnqueueInBlock
    <2>2. CASE EnqueueFirst
      BY <1>t, <2>2 DEF EnqueueFirst, IdleProducer, ProducerPcs
    <2>. QED  BY <2>1, <2>2
  <1>1. PICK k \in Live : Key(k) = Base(tailIndex) /\ BlockOf(k) = producer.block
    BY <1>0 DEF Filling
  <1>2. /\ elements' = [elements EXCEPT ![producer.block][Slot(tailIndex)] = tailIndex]
        /\ tailIndex' = tailIndex + 1
        /\ UNCHANGED <<headIndex, entries, headers, elementsCompletelyDequeued, uses, consumer>>
    BY <1>0 DEF Store, index, pool
  <1>3. ElementsOK'
    BY <1>0, <1>1, StoreElement
  <1>4. DataOK'
    <2>1. tailIndex' \in Nat /\ headIndex' <= tailIndex'
      BY <1>2, <1>t
    <2>2. elements' \in [Blocks -> [0..BLOCK_SIZE - 1 -> Nat \cup {None}]]
      BY <1>2, <1>t
    <2>3. /\ entries \in Seq([key : Nat, value : Blocks \cup {None}])
          /\ elementsCompletelyDequeued \in [Blocks -> Nat]
          /\ uses \in [Blocks -> 0..1]
          /\ consumer \in [Consumers -> Callers]
          /\ headIndex \in Nat
      BY DEF DataOK
    <2>. QED  BY <1>0, <1>2, <2>1, <2>2, <2>3
              DEF DataOK, Blocks, Callers, ConsumerPcs, ProducerPcs
  <1>5. Live' = Live /\ \A e \in Live : Key(e)' = Key(e) /\ BlockOf(e)' = BlockOf(e)
    BY <1>2 DEF Live, Key, BlockOf
  <1>6. /\ headers \in Seq(Headers) /\ \A h \in DOMAIN headers : headers[h].tail \in Slots(h)
    BY DEF HeadersOK
  <1>7. /\ Slot(tailIndex)' = Slot(tailIndex + 1) /\ Base(tailIndex)' = Base(tailIndex + 1)
        /\ Block' = (tailIndex + 1) \div BLOCK_SIZE
    BY <1>2 DEF Slot, Base, Block
  <1>8. InBlock /\ cur = headers[n].tail
    BY <1>0 DEF InBlock, Current
  <1>9. CASE Slot(tailIndex + 1) # 0
    <2>1. InBlock' /\ Current' = cur
      BY <1>0, <1>2, <1>7, <1>8, <1>9 DEF InBlock, Current, blockIndex, Slot
    <2>2. Block' = Block
      BY <1>7, <1>9, <1>t, NextBlock DEF Block
    <2>3. /\ IndexOK'
          /\ \A h \in DOMAIN headers : \A s \in Slots(h) : Used(h, s) => Used(h, s)'
      BY <1>0, <1>2, <1>6, <1>8, <2>1, <2>2, ProducerIndex
    <2>4. Finding'
      BY <1>2, <1>5, <2>3, ProducerFinding
    <2>5. Base(tailIndex)' = Base(tailIndex)
      BY <1>7, <1>9, <1>t, NextSlot
    <2>6. k \in Live' /\ Key(k)' = Base(tailIndex)' /\ BlockOf(k)' = producer'.block
      BY <1>0, <1>1, <1>5, <2>5
    <2>7. Filling'
      BY <1>0, <2>6 DEF Filling
    <2>. QED  BY <1>3, <1>4, <2>3, <2>4, <2>7 DEF QueueOK
  <1>10. CASE Slot(tailIndex + 1) = 0
    <2>1. ~InBlock'
      BY <1>0, <1>7, <1>10 DEF InBlock, Slot
    <2>. PICK next : next = (cur + 1) % Capacity(n)
      OBVIOUS
    <2>2. Current' = next
      BY <1>2, <1>8, <2>1 DEF Current, NextTail, Capacity, blockIndex
    <2>3. Block' = b + 1 /\ b \in Nat
      BY <1>7, <1>10, <1>t, NextBlock DEF Block
    <2>4. /\ KeysAt(n, cur, b) /\ FilledAt(n, cur, b) /\ KeyAt(n, cur) = BLOCK_SIZE * b
      BY <1>8 DEF Ring
    <2>5. KeysAt(n, next, b + 1) /\ FilledAt(n, next, b + 1)
      BY <2>3, <2>4, KeysTurn
    <2>6. /\ HeadersOK' /\ Complete' /\ Older'
          /\ blockIndex' = n
          /\ \A h \in DOMAIN headers : \A s \in Slots(h) : KeyAt(h, s)' = KeyAt(h, s)
          /\ \A x, y : KeysAt(blockIndex, x, y) => KeysAt(blockIndex, x, y)'
          /\ \A x, y : FilledAt(blockIndex, x, y) => FilledAt(blockIndex, x, y)'
      BY <1>2, <1>6, SameIndex DEF IndexOK
    <2>. PICK d : d = b + 1
      OBVIOUS
    <2>7. KeysAt(n, next, d)' /\ FilledAt(n, next, d)'
      BY <2>5, <2>6
    <2>8. n = blockIndex' /\ next = Current' /\ d = Block'
      BY <2>2, <2>3, <2>6
    <2>9. KeysAt(blockIndex, Current, Block)' /\ FilledAt(blockIndex, Current, Block)'
      BY <2>7, <2>8
    <2>10. Ring'
      BY <1>0, <2>1, <2>9 DEF Ring
    <2>11. IndexOK'
      BY <2>6, <2>10 DEF IndexOK
    <2>12. \A h \in DOMAIN headers : \A s \in Slots(h) : Used(h, s) => Used(h, s)'
      BY <2>6 DEF Used, INVALID_BLOCK_BASE
    <2>13. Finding'
      BY <1>2, <1>5, <2>12, ProducerFinding
    <2>14. Filling'
      BY <1>0, <1>7, <1>10 DEF Filling, Slot
    <2>. QED  BY <1>3, <1>4, <2>11, <2>13, <2>14 DEF QueueOK
  <1>. QED  BY <1>9, <1>10

\* The steps of the producer.
LEMMA EnqueueSteps ==
    ASSUME Sizes, QueueOK, Enqueue \/ RewindBlockIndexTail
    PROVE  QueueOK'
  BY EnqueueStep, FindEntryStep, NewBlockIndexStep, StoreKeyStep, StoreTailStep,
     RequisitionBlockStep, RewindStep, StoreValueStep DEF Enqueue

-----------------------------------------------------------------------------
(* Steps of a consumer.                                                    *)

\* The types, if what a consumer's step changes keeps to its own.
LEMMA CallerTypes ==
    ASSUME DataOK, consumer' \in [Consumers -> Callers], UNCHANGED <<tailIndex, producer>>,
           headIndex' \in Nat, headIndex' <= tailIndex,
           entries' \in Seq([key : Nat, value : Blocks \cup {None}]),
           elements' \in [Blocks -> [0..BLOCK_SIZE - 1 -> Nat \cup {None}]],
           elementsCompletelyDequeued' \in [Blocks -> Nat],
           uses' \in [Blocks -> 0..1]
    PROVE  DataOK'
  BY DEF DataOK, Callers, Blocks, ConsumerPcs, ProducerPcs

\* A step that has nothing to do with giving a block back.
LEMMA NoneReleases ==
    ASSUME NEW c \in Consumers, \A d \in Consumers \ {c} : consumer'[d] = consumer[d],
           consumer[c].pc # "release", consumer'[c].pc # "release"
    PROVE  /\ At({"release"})' = At({"release"})
           /\ \A d \in At({"release"}) : consumer'[d] = consumer[d]
  BY DEF At

\* The index does not depend on the consumers.
LEMMA CallerIndex ==
    ASSUME Sizes, DataOK, IndexOK, UNCHANGED <<tailIndex, headers, producer>>,
           DOMAIN entries' = DOMAIN entries,
           \A k \in DOMAIN entries : entries'[k].key = entries[k].key
    PROVE  /\ IndexOK'
           /\ \A h \in DOMAIN headers : \A s \in Slots(h) : Used(h, s) => Used(h, s)'
  <1>1. headers \in Seq(Headers) /\ \A h \in DOMAIN headers : headers[h].tail \in Slots(h)
    BY DEF IndexOK, HeadersOK
  <1>2. Current' = Current /\ Block' = Block /\ (InBlock' <=> InBlock)
    <2>1. InBlock' <=> InBlock
      BY DEF InBlock, Slot
    <2>. QED  BY <2>1 DEF Current, Block, NextTail, Capacity, blockIndex
  <1>3. producer'.pc # "idle" => producer'.newTail = Current
    BY DEF IndexOK, Ring
  <1>4. (InBlock \/ producer.pc = "tail")' => InBlock \/ producer.pc = "tail"
    BY <1>2
  <1>. QED  BY <1>1, <1>2, <1>3, <1>4, ProducerIndex

\* One consumer moves; the others go on finding their entries.
LEMMA CallerFinding ==
    ASSUME Sizes, HeadersOK, Finding, UNCHANGED headers,
           NEW c \in Consumers, \A d \in Consumers \ {c} : consumer'[d] = consumer[d],
           \A h \in DOMAIN headers : \A s \in Slots(h) : Used(h, s) => Used(h, s)',
           \A d \in At({"key", "value"}) \ {c} : \A k \in Live :
               Key(k) = Base(consumer[d].index) => k \in Live' /\ Key(k)' = Key(k),
           consumer'[c].pc = "key" => StartsRight(c)',
           consumer'[c].pc = "value" => EntryFound(c)'
    PROVE  Finding'
  <1>1. \A d \in Consumers \ {c} : /\ d \in At({"key"})' <=> d \in At({"key"})
                                   /\ d \in At({"value"})' <=> d \in At({"value"})
    BY DEF At
  <1>2. ASSUME NEW d \in Consumers \ {c}, d \in At({"key", "value"})
        PROVE  /\ d \in At({"key"}) => StartsRight(d)'
               /\ d \in At({"value"}) => EntryFound(d)'
    BY <1>2, FindingStays
  <1>3. /\ c \in At({"key"})' => StartsRight(c)'
        /\ c \in At({"value"})' => EntryFound(c)'
    BY DEF At
  <1>4. \A d \in At({"key"})' : d \in Consumers
        /\ \A e \in At({"value"})' : e \in Consumers
    BY DEF At
  <1>5. \A d \in Consumers : d \in At({"key"}) \/ d \in At({"value"}) => d \in At({"key", "value"})
    BY DEF At
  <1>6. \A d \in At({"key"})' : StartsRight(d)'
    <2>. SUFFICES ASSUME NEW d \in At({"key"})'
                  PROVE  StartsRight(d)'
      OBVIOUS
    <2>0. d \in Consumers
      BY DEF At
    <2>1. CASE d = c
      BY <1>3, <2>1
    <2>2. CASE d # c
      BY <1>1, <1>2, <1>5, <2>0, <2>2
    <2>. QED  BY <2>1, <2>2
  <1>7. \A d \in At({"value"})' : EntryFound(d)'
    <2>. SUFFICES ASSUME NEW d \in At({"value"})'
                  PROVE  EntryFound(d)'
      OBVIOUS
    <2>0. d \in Consumers
      BY DEF At
    <2>1. CASE d = c
      BY <1>3, <2>1
    <2>2. CASE d # c
      BY <1>1, <1>2, <1>5, <2>0, <2>2
    <2>. QED  BY <2>1, <2>2
  <1>. QED  BY <1>6, <1>7 DEF Finding

\* The producer's block stays its own.
LEMMA CallerFilling ==
    ASSUME Filling, UNCHANGED <<tailIndex, headers, producer>>,
           DOMAIN entries' = DOMAIN entries,
           \A k \in DOMAIN entries : /\ entries'[k].key = entries[k].key
                                     /\ \/ entries'[k].value = entries[k].value
                                        \/ entries'[k].value = None,
           producer.pc = "value" =>
               /\ uses'[producer.block] = 1
               /\ elementsCompletelyDequeued'[producer.block] = 0
               /\ \A d \in At({"release"})' : consumer'[d].block # producer.block,
           producer.pc = "store" \/ (producer.pc = "idle" /\ Slot(tailIndex) # 0) =>
               \A k \in Live : Key(k) = Base(tailIndex) => k \in Live'
    PROVE  Filling'
  <1>1. /\ NewEntry' = NewEntry /\ Slot(tailIndex)' = Slot(tailIndex)
        /\ Base(tailIndex)' = Base(tailIndex)
    BY DEF NewEntry, EntryAt, blockIndex, Slot, Base
  <1>2. \A k \in Live' : k \in Live /\ BlockOf(k)' = BlockOf(k)
    BY DEF Live, BlockOf
  <1>3. producer.pc \in {"key", "tail", "block", "value"} =>
          NewEntry' \in DOMAIN entries' /\ BlockOf(NewEntry)' = None
    BY <1>1 DEF Filling, BlockOf
  <1>4. producer.pc \in {"tail", "block", "value"} => Key(NewEntry)' = tailIndex'
    BY <1>1 DEF Filling, Key
  <1>5. producer.pc = "value" =>
          /\ producer.block \in Blocks
          /\ \A k \in Live' : BlockOf(k)' # producer.block
    BY <1>2 DEF Filling
  <1>6. producer.pc = "store" \/ (producer.pc = "idle" /\ Slot(tailIndex) # 0) =>
          \E k \in Live' : Key(k)' = Base(tailIndex) /\ BlockOf(k)' = producer.block
    <2>. SUFFICES ASSUME producer.pc = "store" \/ (producer.pc = "idle" /\ Slot(tailIndex) # 0)
                  PROVE  \E k \in Live' : Key(k)' = Base(tailIndex) /\ BlockOf(k)' = producer.block
      OBVIOUS
    <2>1. PICK k \in Live : Key(k) = Base(tailIndex) /\ BlockOf(k) = producer.block
      BY DEF Filling
    <2>2. k \in Live' /\ BlockOf(k)' = producer.block
      BY <1>2, <2>1
    <2>3. Key(k)' = Key(k)
      BY <2>1 DEF Live, Key
    <2>. QED  BY <2>1, <2>2, <2>3
  <1>7. producer.pc # "idle" => Slot(tailIndex)' = 0
    BY <1>1 DEF Filling
  <1>. QED  BY <1>1, <1>3, <1>4, <1>5, <1>6, <1>7 DEF Filling

\* Steps that have nothing to do with an element.
LEMMA QuietCaller ==
    ASSUME Sizes, QueueOK, NEW c \in Consumers, NEW from, NEW new \in Callers,
           Goes(c, from, new),
           from \notin {"header", "key", "value", "empty", "clear", "release"},
           new.pc \notin {"header", "key", "value", "empty", "clear", "release"},
           UNCHANGED <<tailIndex, headIndex, entries, headers, elements,
                       elementsCompletelyDequeued, uses, producer>>
    PROVE  QueueOK'
  <1>. DataOK /\ ElementsOK /\ Filling /\ Finding /\ IndexOK /\ HeadersOK
    BY DEF QueueOK, IndexOK
  <1>1. /\ consumer[c].pc = from
        /\ consumer'[c] = new
        /\ \A d \in Consumers \ {c} : consumer'[d] = consumer[d]
        /\ consumer' \in [Consumers -> Callers]
    BY CallerMoves
  <1>2. DataOK'
    <2>1. /\ headIndex \in Nat /\ headIndex <= tailIndex
          /\ entries \in Seq([key : Nat, value : Blocks \cup {None}])
          /\ elements \in [Blocks -> [0..BLOCK_SIZE - 1 -> Nat \cup {None}]]
          /\ elementsCompletelyDequeued \in [Blocks -> Nat]
          /\ uses \in [Blocks -> 0..1]
      BY DEF DataOK
    <2>. QED  BY <1>1, <2>1, CallerTypes
  <1>3. ElementsOK'
    BY QuietConsumer
  <1>4. /\ IndexOK'
        /\ \A h \in DOMAIN headers : \A s \in Slots(h) : Used(h, s) => Used(h, s)'
    BY CallerIndex
  <1>5. Live' = Live /\ \A k : Key(k)' = Key(k)
    BY DEF Live, Key, BlockOf
  <1>6. Finding'
    BY <1>1, <1>4, <1>5, CallerFinding
  <1>7. At({"release"})' = At({"release"})
        /\ \A d \in At({"release"}) : consumer'[d] = consumer[d]
    BY <1>1, NoneReleases
  <1>8. Filling'
    BY <1>5, <1>7, CallerFilling DEF Filling
  <1>. QED  BY <1>2, <1>3, <1>4, <1>6, <1>8 DEF QueueOK

\* What the data's types say of the parts that a consumer's step leaves alone.
LEMMA DataTypes ==
    ASSUME DataOK
    PROVE  /\ tailIndex \in Nat /\ headIndex \in Nat /\ headIndex <= tailIndex
           /\ entries \in Seq([key : Nat, value : Blocks \cup {None}])
           /\ elements \in [Blocks -> [0..BLOCK_SIZE - 1 -> Nat \cup {None}]]
           /\ elementsCompletelyDequeued \in [Blocks -> Nat]
           /\ uses \in [Blocks -> 0..1]
           /\ \A c \in Consumers : consumer[c] \in Callers
  BY DEF DataOK

\* There is an element for one that was granted it.
LEMMA HeadBeforeTail ==
    ASSUME IsFiniteSet(Consumers), IInv, NEW c \in Consumers, consumer[c].pc = "take"
    PROVE  headIndex < tailIndex
  <1>1. Granted <= tailIndex
    BY GrantedFits
  <1>2. Cardinality(At({"take"}) \ {c}) = Cardinality(At({"take"})) - 1
        /\ Cardinality(At({"take"}) \ {c}) \in Nat /\ Cardinality(At({"take"})) \in Nat
    <2>1. c \in At({"take"}) /\ At({"take"}) \in SUBSET Consumers
          /\ At({"take"}) \ {c} \in SUBSET Consumers
      BY DEF At
    <2>. QED  BY <2>1, OneLess, SomeConsumers
  <1>3. headIndex \in Nat /\ tailIndex \in Nat
    BY DEF IInv, CountersOK
  <1>. QED  BY <1>1, <1>2, <1>3 DEF Granted

\* The consumer that takes an element is the only one that has it.
LEMMA TakeQueueStep ==
    ASSUME Sizes, IInv, QueueOK, NEW c \in Consumers, Take(c)
    PROVE  QueueOK' /\ headIndex < tailIndex
  <1>. DataOK /\ ElementsOK /\ Filling /\ Finding /\ IndexOK /\ HeadersOK
    BY DEF QueueOK, IndexOK
  <1>. PICK new : new = [consumer[c] EXCEPT !.pc = "header", !.index = headIndex]
    OBVIOUS
  <1>0. /\ Goes(c, "take", new) /\ headIndex' = headIndex + 1
        /\ UNCHANGED <<tailIndex, headers, entries, elements, elementsCompletelyDequeued, uses,
                       producer>>
    BY DEF Take, index, storage, pool
  <1>1. new \in Callers /\ new.pc = "header" /\ new.index = headIndex
    BY DataTypes DEF Callers, ConsumerPcs
  <1>2. /\ consumer[c].pc = "take"
        /\ consumer'[c] = new
        /\ \A d \in Consumers \ {c} : consumer'[d] = consumer[d]
        /\ consumer' \in [Consumers -> Callers]
    BY <1>0, <1>1, CallerMoves
  <1>3. headIndex < tailIndex
    BY <1>2, HeadBeforeTail DEF Sizes
  <1>4. DataOK'
    <2>1. headIndex' \in Nat /\ headIndex' <= tailIndex
      BY <1>0, <1>3, DataTypes
    <2>. QED  BY <1>0, <1>2, <2>1, DataTypes, CallerTypes
  <1>5. ElementsOK'
    BY <1>0, <1>1, TakeElements
  <1>6. /\ IndexOK'
        /\ \A h \in DOMAIN headers : \A s \in Slots(h) : Used(h, s) => Used(h, s)'
    BY <1>0, CallerIndex
  <1>7. Live' = Live /\ \A k : Key(k)' = Key(k)
    BY <1>0 DEF Live, Key, BlockOf
  <1>8. Finding'
    BY <1>0, <1>1, <1>2, <1>6, <1>7, CallerFinding
  <1>9. At({"release"})' = At({"release"})
        /\ \A d \in At({"release"}) : consumer'[d] = consumer[d]
    BY <1>1, <1>2, NoneReleases
  <1>10. Filling'
    BY <1>0, <1>7, <1>9, CallerFilling DEF Filling
  <1>. QED  BY <1>3, <1>4, <1>5, <1>6, <1>8, <1>10 DEF QueueOK

\* The tail of the newest index is an entry that has had a block, once there was an
\* element.
LEMMA TailUsed ==
    ASSUME Sizes, QueueOK, tailIndex > 0, NEW n, n = blockIndex
    PROVE  headers[n].tail \in Slots(n) /\ Used(n, headers[n].tail)
  <1>. DataOK /\ Filling /\ IndexOK /\ HeadersOK /\ Ring
    BY DEF QueueOK, IndexOK
  <1>. PICK t : t = headers[n].tail
    OBVIOUS
  <1>. PICK cur : cur = Current
    OBVIOUS
  <1>. PICK b : b = Block
    OBVIOUS
  <1>. PICK m \in Nat : m = Capacity(n) /\ m > 0 /\ Slots(n) = 0..m - 1 /\ t \in 0..m - 1
    BY Newest, SlotsOf
  <1>1. cur \in 0..m - 1 /\ b \in Nat /\ BLOCK_SIZE * b = Base(tailIndex) /\ FilledAt(n, cur, b)
    BY RingAtTail
  <1>2. CASE InBlock
    <2>1. cur = t /\ KeyAt(n, t) = BLOCK_SIZE * b
      BY <1>2 DEF Current, Ring
    <2>. QED  BY <1>1, <2>1, NotInvalid DEF Used
  <1>3. CASE ~InBlock
    <2>1. cur = (t + 1) % m
      BY <1>3 DEF Current, NextTail
    <2>2. Slot(tailIndex) = 0
      BY <1>3 DEF InBlock, Filling
    <2>3. b # 0
      <3>1. Base(tailIndex) = tailIndex
        BY <2>2, SlotOf, DataTypes
      <3>2. BLOCK_SIZE * 0 = 0
        BY DEF Sizes
      <3>. QED  BY <1>1, <3>1, <3>2
    <2>4. CASE t + 1 < m
      <3>1. cur = t + 1 /\ t < cur
        BY <2>1, <2>4, Turning
      <3>. QED  BY <1>1, <3>1 DEF FilledAt, AllUsed
    <2>5. CASE t + 1 = m
      <3>1. cur = 0
        BY <2>1, <2>5, Turning
      <3>. QED  BY <1>1, <2>3, <3>1 DEF FilledAt, AllUsed
    <2>6. t + 1 < m \/ t + 1 = m
      OBVIOUS
    <2>. QED  BY <2>4, <2>5, <2>6
  <1>. QED  BY <1>2, <1>3

\* The newest index has the entry of every element that is unread.
LEMMA LoadHeaderStep ==
    ASSUME Sizes, QueueOK, NEW c \in Consumers, LoadHeader(c)
    PROVE  QueueOK'
  <1>. DataOK /\ ElementsOK /\ Filling /\ Finding /\ IndexOK /\ HeadersOK
    BY DEF QueueOK, IndexOK
  <1>. PICK n \in DOMAIN headers : n = blockIndex
    BY Newest
  <1>. PICK t : t = headers[n].tail
    OBVIOUS
  <1>. PICK i : i = consumer[c].index
    OBVIOUS
  <1>. PICK new : new = [consumer[c] EXCEPT !.pc = "key", !.header = n, !.slot = t]
    OBVIOUS
  <1>0. /\ Goes(c, "header", new)
        /\ UNCHANGED <<tailIndex, headIndex, headers, entries, elements,
                       elementsCompletelyDequeued, uses, producer>>
    BY DEF LoadHeader, counters, index, storage, pool
  <1>1. n \in Nat /\ t \in Nat
    BY Newest, SlotsOf
  <1>2. /\ new \in Callers /\ new.pc = "key" /\ new.index = i
        /\ new.header = n /\ new.slot = t
    <2>1. consumer[c] \in Callers
      BY DataTypes
    <2>2. new = [consumer[c] EXCEPT !.pc = "key", !.header = n, !.slot = t]
      OBVIOUS
    <2>3. new \in Callers
      BY ONLY <1>1, <2>1, <2>2 DEF Callers, ConsumerPcs
    <2>4. new.pc = "key" /\ new.header = n /\ new.slot = t /\ new.index = consumer[c].index
      BY ONLY <2>1, <2>2 DEF Callers
    <2>. QED  BY <2>3, <2>4
  <1>3. /\ consumer[c].pc = "header"
        /\ consumer'[c] = new
        /\ \A d \in Consumers \ {c} : consumer'[d] = consumer[d]
        /\ consumer' \in [Consumers -> Callers]
    BY <1>0, <1>2, CallerMoves
  <1>4. DataOK'
    BY <1>0, <1>3, DataTypes, CallerTypes
  <1>5. ElementsOK'
    <2>1. "header" \in Reading /\ new.pc \in Reading
      BY <1>2 DEF Reading
    <2>. QED  BY <1>0, <1>2, <2>1, QuietConsumer
  <1>6. /\ IndexOK'
        /\ \A h \in DOMAIN headers : \A s \in Slots(h) : Used(h, s) => Used(h, s)'
    BY <1>0, CallerIndex
  <1>7. Live' = Live /\ \A k : Key(k)' = Key(k)
    BY <1>0 DEF Live, Key, BlockOf
  <1>8. i \in Nat /\ i < tailIndex /\ Unread(i)
    <2>1. c \in At(Holding) /\ c \in At(Reading) /\ Number(c) = i
      BY <1>3 DEF At, Holding, Reading, Number
    <2>2. i \in Nat /\ i < headIndex
      BY <2>1 DEF ElementsOK, HandsApart
    <2>. QED  BY <2>1, <2>2, DataTypes DEF Unread
  <1>9. /\ t \in Slots(n) /\ Used(n, t)
        /\ \E s \in Slots(n) : EntryAt(n, s) \in Live /\ Key(EntryAt(n, s)) = Base(i)
    <2>1. tailIndex > 0
      BY <1>8, DataTypes
    <2>2. PICK k \in Live : Key(k) = Base(i)
      BY <1>8 DEF ElementsOK, Stored
    <2>3. PICK s \in Slots(n) : EntryAt(n, s) = k
      BY <2>2 DEF IndexOK, Complete, Live
    <2>. QED  BY <2>1, <2>2, <2>3, TailUsed
  <1>10. StartsRight(c)'
    <2>1. /\ n \in DOMAIN headers' /\ t \in Slots(n)'
          /\ entries'[EntryAt(n, t)'].key # INVALID_BLOCK_BASE
          /\ \E s \in Slots(n)' : EntryAt(n, s)' \in Live'
                                  /\ entries'[EntryAt(n, s)'].key = Base(i)
      BY <1>0, <1>7, <1>9 DEF Slots, EntryAt, Used, KeyAt, Key, INVALID_BLOCK_BASE
    <2>2. n = consumer'[c].header /\ t = consumer'[c].slot /\ i = consumer'[c].index
      BY <1>2, <1>3
    <2>. QED  BY <2>1, <2>2 DEF StartsRight, Slots, EntryAt, Key, Base, Slot, INVALID_BLOCK_BASE
  <1>11. Finding'
    BY <1>0, <1>2, <1>3, <1>6, <1>7, <1>10, CallerFinding
  <1>12. At({"release"})' = At({"release"})
         /\ \A d \in At({"release"}) : consumer'[d] = consumer[d]
    BY <1>2, <1>3, NoneReleases
  <1>13. Filling'
    BY <1>0, <1>7, <1>12, CallerFilling DEF Filling
  <1>. QED  BY <1>4, <1>5, <1>6, <1>11, <1>13 DEF QueueOK

\* From the tail of the index it has loaded, however old that is by now, a consumer
\* comes to its element's entry.
LEMMA EntryIsFound ==
    ASSUME Sizes, QueueOK, NEW c \in Consumers, consumer[c].pc = "key"
    PROVE  EntryOf(c) \in Live /\ Key(EntryOf(c)) = Base(consumer[c].index)
  <1>. DataOK /\ ElementsOK /\ Filling /\ Finding /\ IndexOK /\ HeadersOK
    BY DEF QueueOK, IndexOK
  <1>. PICK h : h = consumer[c].header
    OBVIOUS
  <1>. PICK t : t = consumer[c].slot
    OBVIOUS
  <1>1. /\ h \in DOMAIN headers /\ t \in Slots(h) /\ Used(h, t)
        /\ \E s \in Slots(h) : EntryAt(h, s) \in Live
                               /\ Key(EntryAt(h, s)) = Base(consumer[c].index)
    <2>1. StartsRight(c)
      BY DEF Finding, At
    <2>. QED  BY <2>1 DEF StartsRight, Slots, Used, KeyAt
  <1>2. PICK s \in Slots(h) : EntryAt(h, s) \in Live /\ KeyAt(h, s) = Base(consumer[c].index)
    BY <1>1 DEF KeyAt
  <1>3. Used(h, s)
    <2>1. Slot(KeyAt(h, s)) = 0
      BY <1>2 DEF ElementsOK, LiveEntries, KeyAt
    <2>2. Slot(INVALID_BLOCK_BASE) = 1
      BY DEF Sizes, Slot, INVALID_BLOCK_BASE
    <2>. QED  BY <2>1, <2>2 DEF Used
  <1>4. Aligned(h)
    BY <1>1, RingAtTail DEF IndexOK, Older
  <1>5. (t + (KeyAt(h, s) - KeyAt(h, t)) \div BLOCK_SIZE) % Capacity(h) = s
    BY <1>1, <1>3, <1>4, SlotFound
  <1>6. EntryOf(c) = EntryAt(h, s)
    <2>1. entries[EntryAt(h, t)].key = KeyAt(h, t)
      BY DEF KeyAt, Key
    <2>2. EntryOf(c) =
            EntryAt(h, (t + (KeyAt(h, s) - KeyAt(h, t)) \div BLOCK_SIZE) % Capacity(h))
      BY <1>2, <2>1 DEF EntryOf
    <2>. QED  BY <1>5, <2>2
  <1>. QED  BY <1>2, <1>6 DEF KeyAt

\* The consumer has found the entry.
LEMMA LoadKeyStep ==
    ASSUME Sizes, QueueOK, NEW c \in Consumers, LoadKey(c)
    PROVE  QueueOK'
  <1>. DataOK /\ ElementsOK /\ Filling /\ Finding /\ IndexOK /\ HeadersOK
    BY DEF QueueOK, IndexOK
  <1>. PICK e : e = EntryOf(c)
    OBVIOUS
  <1>. PICK i : i = consumer[c].index
    OBVIOUS
  <1>. PICK new : new = [IdleConsumer EXCEPT !.pc = "value", !.index = i, !.entry = e]
    OBVIOUS
  <1>0. /\ consumer[c].pc = "key" /\ Goes(c, "key", new)
        /\ UNCHANGED <<tailIndex, headIndex, headers, entries, elements,
                       elementsCompletelyDequeued, uses, producer>>
    BY DEF LoadKey, counters, index, storage, pool
  <1>1. e \in Live /\ Key(e) = Base(i)
    BY <1>0, EntryIsFound
  <1>2. new \in Callers /\ new.pc = "value" /\ new.index = i /\ new.entry = e
    <2>1. i \in Nat /\ e \in Nat
      BY <1>1, DataTypes, EntryTypes DEF Callers
    <2>. QED  BY <2>1 DEF Callers, ConsumerPcs, IdleConsumer
  <1>3. /\ consumer[c].pc = "key"
        /\ consumer'[c] = new
        /\ \A d \in Consumers \ {c} : consumer'[d] = consumer[d]
        /\ consumer' \in [Consumers -> Callers]
    BY <1>0, <1>2, CallerMoves
  <1>4. DataOK'
    BY <1>0, <1>3, DataTypes, CallerTypes
  <1>5. ElementsOK'
    <2>1. "key" \in Reading /\ new.pc \in Reading
      BY <1>2 DEF Reading
    <2>. QED  BY <1>0, <1>2, <2>1, QuietConsumer
  <1>6. /\ IndexOK'
        /\ \A h \in DOMAIN headers : \A s \in Slots(h) : Used(h, s) => Used(h, s)'
    BY <1>0, CallerIndex
  <1>7. Live' = Live /\ \A k : Key(k)' = Key(k)
    BY <1>0 DEF Live, Key, BlockOf
  <1>8. EntryFound(c)'
    <2>1. e \in Live' /\ entries'[e].key = Base(i)
      BY <1>1, <1>7 DEF Key
    <2>. QED  BY <1>2, <1>3, <2>1 DEF EntryFound, Key, Base, Slot
  <1>9. Finding'
    BY <1>0, <1>2, <1>3, <1>6, <1>7, <1>8, CallerFinding
  <1>10. At({"release"})' = At({"release"})
         /\ \A d \in At({"release"}) : consumer'[d] = consumer[d]
    BY <1>2, <1>3, NoneReleases
  <1>11. Filling'
    BY <1>0, <1>7, <1>10, CallerFilling DEF Filling
  <1>. QED  BY <1>4, <1>5, <1>6, <1>9, <1>11 DEF QueueOK

\* The consumer reads its element, and no other one.
LEMMA LoadValueStep ==
    ASSUME Sizes, QueueOK, NEW c \in Consumers, LoadValue(c)
    PROVE  QueueOK' /\ consumer'[c].pc = "empty" /\ consumer'[c].element = consumer[c].index
  <1>. DataOK /\ ElementsOK /\ Filling /\ Finding /\ IndexOK /\ HeadersOK
    BY DEF QueueOK, IndexOK
  <1>. PICK e : e = consumer[c].entry
    OBVIOUS
  <1>. PICK i : i = consumer[c].index
    OBVIOUS
  <1>. PICK b : b = BlockOf(e)
    OBVIOUS
  <1>. PICK s : s = Slot(i)
    OBVIOUS
  <1>. PICK new : new = [IdleConsumer EXCEPT !.pc = "empty", !.entry = e, !.block = b,
                                             !.element = elements[b][s]]
    OBVIOUS
  <1>0. /\ consumer[c].pc = "value" /\ Goes(c, "value", new)
        /\ elements' = [elements EXCEPT ![b][s] = None]
        /\ UNCHANGED <<tailIndex, headIndex, headers, entries, elementsCompletelyDequeued,
                       uses, producer>>
    BY DEF LoadValue, BlockOf, counters, index, pool
  <1>1. e \in Live /\ Key(e) = Base(i)
    BY <1>0 DEF Finding, EntryFound, At
  <1>2. i \in Nat /\ e \in Nat /\ b \in Blocks /\ s \in 0..BLOCK_SIZE - 1
    <2>1. i \in Nat
      BY DataTypes DEF Callers
    <2>. QED  BY <1>1, <2>1, EntryTypes, SlotOf
  <1>3. /\ new \in Callers /\ new.pc = "empty" /\ new.entry = e /\ new.block = b
        /\ new.element = elements[b][s]
    <2>1. elements[b][s] \in Nat \cup {None}
      BY <1>2, DataTypes
    <2>. QED  BY <1>2, <2>1 DEF Callers, ConsumerPcs, IdleConsumer
  <1>4. /\ consumer[c].pc = "value"
        /\ consumer'[c] = new
        /\ \A d \in Consumers \ {c} : consumer'[d] = consumer[d]
        /\ consumer' \in [Consumers -> Callers]
    BY <1>0, <1>3, CallerMoves
  <1>5. DataOK'
    <2>1. elements' \in [Blocks -> [0..BLOCK_SIZE - 1 -> Nat \cup {None}]]
      BY <1>0, <1>2, DataTypes
    <2>. QED  BY <1>0, <1>4, <2>1, DataTypes, CallerTypes
  <1>6. ElementsOK' /\ elements[b][s] = i
    <2>1. /\ consumer[c].entry \in Live
          /\ Key(consumer[c].entry) = Base(consumer[c].index)
          /\ b = BlockOf(consumer[c].entry) /\ s = Slot(consumer[c].index)
          /\ new.entry = consumer[c].entry
      BY <1>1, <1>3
    <2>2. \A a \in Blocks, r \in 0..BLOCK_SIZE - 1 :
             a # b \/ r # s => elements'[a][r] = elements[a][r]
      BY <1>0, <1>2, DataTypes
    <2>3. UNCHANGED <<tailIndex, headIndex, entries, elementsCompletelyDequeued, uses,
                      producer>>
      BY <1>0
    <2>4. /\ consumer[c].pc = "value" /\ Goes(c, "value", new)
          /\ new \in Callers /\ new.pc = "empty" /\ new.block = b
          /\ new.element = elements[b][s]
      BY <1>0, <1>3
    <2>5. elements[b][s] = consumer[c].index /\ ElementsOK'
      BY ONLY Sizes, DataOK, ElementsOK, c \in Consumers, <2>1, <2>2, <2>3, <2>4,
              LoadValueElements
    <2>. QED  BY <2>5
  <1>7. /\ IndexOK'
        /\ \A h \in DOMAIN headers : \A x \in Slots(h) : Used(h, x) => Used(h, x)'
    BY <1>0, CallerIndex
  <1>8. Live' = Live /\ \A k : Key(k)' = Key(k)
    BY <1>0 DEF Live, Key, BlockOf
  <1>9. Finding'
    BY <1>0, <1>3, <1>4, <1>7, <1>8, CallerFinding
  <1>10. At({"release"})' = At({"release"})
         /\ \A d \in At({"release"}) : consumer'[d] = consumer[d]
    BY <1>3, <1>4, NoneReleases
  <1>11. Filling'
    BY <1>0, <1>8, <1>10, CallerFilling DEF Filling
  <1>. QED  BY <1>3, <1>4, <1>5, <1>6, <1>7, <1>9, <1>11 DEF QueueOK

\* The consumer says that its element is gone; the last one to say so has the block.
LEMMA SetEmptyStep ==
    ASSUME Sizes, QueueOK, NEW c \in Consumers, SetEmpty(c)
    PROVE  /\ QueueOK' /\ consumer[c].pc = "empty"
           /\ \/ consumer'[c].pc = "idle"
              \/ consumer'[c].pc = "clear" /\ consumer'[c].element = consumer[c].element
  <1>. DataOK /\ ElementsOK /\ Filling /\ Finding /\ IndexOK /\ HeadersOK
    BY DEF QueueOK, IndexOK
  <1>. PICK b : b = consumer[c].block
    OBVIOUS
  <1>. PICK new : new = IF elementsCompletelyDequeued[b] = BLOCK_SIZE - 1
                        THEN [consumer[c] EXCEPT !.pc = "clear"] ELSE IdleConsumer
    OBVIOUS
  <1>0. /\ Goes(c, "empty", new)
        /\ elementsCompletelyDequeued' = [elementsCompletelyDequeued EXCEPT ![b] = @ + 1]
        /\ UNCHANGED <<tailIndex, headIndex, headers, entries, elements, uses, producer>>
    BY DEF SetEmpty, counters, index, pool
  <1>1. /\ new \in Callers /\ new.pc \in {"clear", "idle"}
        /\ \/ /\ elementsCompletelyDequeued[b] = BLOCK_SIZE - 1 /\ new.pc = "clear"
              /\ new.entry = consumer[c].entry /\ new.block = b
              /\ new.element = consumer[c].element
           \/ elementsCompletelyDequeued[b] # BLOCK_SIZE - 1 /\ new.pc = "idle"
    <2>1. consumer[c] \in Callers
      BY DataTypes
    <2>2. CASE elementsCompletelyDequeued[b] = BLOCK_SIZE - 1
      <3>1. new = [consumer[c] EXCEPT !.pc = "clear"]
        BY <2>2
      <3>. QED  BY <2>1, <2>2, <3>1 DEF Callers, ConsumerPcs
    <2>3. CASE elementsCompletelyDequeued[b] # BLOCK_SIZE - 1
      <3>1. new = IdleConsumer
        BY <2>3
      <3>. QED  BY <2>3, <3>1 DEF Callers, ConsumerPcs, IdleConsumer
    <2>. QED  BY <2>2, <2>3
  <1>2. /\ consumer[c].pc = "empty"
        /\ consumer'[c] = new
        /\ \A d \in Consumers \ {c} : consumer'[d] = consumer[d]
        /\ consumer' \in [Consumers -> Callers]
    BY <1>0, <1>1, CallerMoves
  <1>3. b \in Blocks /\ \E k \in Live : BlockOf(k) = b
    <2>1. /\ consumer[c].entry \in Live
          /\ BlockOf(consumer[c].entry) = b
      BY <1>2 DEF ElementsOK, Emptying, AtEmpty, At
    <2>. QED  BY <2>1, EntryTypes
  <1>4. /\ elementsCompletelyDequeued' \in [Blocks -> Nat]
        /\ \A x \in Blocks \ {b} : elementsCompletelyDequeued'[x] = elementsCompletelyDequeued[x]
    BY <1>0, <1>3, DataTypes
  <1>5. DataOK'
    BY <1>0, <1>2, <1>4, DataTypes, CallerTypes
  <1>6. ElementsOK'
    <2>1. UNCHANGED <<tailIndex, headIndex, entries, elements, uses, producer>>
      BY <1>0
    <2>. QED  BY ONLY Sizes, DataOK, ElementsOK, c \in Consumers, <1>0, <1>1, <2>1,
                      b = consumer[c].block, SetEmptyElements
  <1>7. /\ IndexOK'
        /\ \A h \in DOMAIN headers : \A x \in Slots(h) : Used(h, x) => Used(h, x)'
    BY <1>0, CallerIndex
  <1>8. Live' = Live /\ \A k : Key(k)' = Key(k)
    BY <1>0 DEF Live, Key, BlockOf
  <1>9. Finding'
    <2>1. consumer'[c].pc # "key" /\ consumer'[c].pc # "value"
      BY <1>1, <1>2
    <2>. QED  BY <1>0, <1>2, <1>7, <1>8, <2>1, CallerFinding
  <1>10. Filling'
    <2>1. At({"release"})' = At({"release"})
          /\ \A d \in At({"release"}) : consumer'[d] = consumer[d]
      BY <1>1, <1>2, NoneReleases
    <2>2. producer.pc = "value" =>
            /\ uses'[producer.block] = 1
            /\ elementsCompletelyDequeued'[producer.block] = 0
            /\ \A d \in At({"release"})' : consumer'[d].block # producer.block
      BY <1>0, <1>3, <1>4, <2>1 DEF Filling
    <2>. QED  BY <1>0, <1>8, <2>2, CallerFilling
  <1>. QED  BY <1>1, <1>2, <1>5, <1>6, <1>7, <1>9, <1>10 DEF QueueOK

\* The entry of an empty block is free.
LEMMA ClearEntryStep ==
    ASSUME Sizes, QueueOK, NEW c \in Consumers, ClearEntry(c)
    PROVE  /\ QueueOK' /\ consumer[c].pc = "clear" /\ consumer'[c].pc = "release"
           /\ consumer'[c].element = consumer[c].element
  <1>. DataOK /\ ElementsOK /\ Filling /\ Finding /\ IndexOK /\ HeadersOK
    BY DEF QueueOK, IndexOK
  <1>. PICK e : e = consumer[c].entry
    OBVIOUS
  <1>. PICK new : new = [consumer[c] EXCEPT !.pc = "release"]
    OBVIOUS
  <1>0. /\ Goes(c, "clear", new)
        /\ entries' = [entries EXCEPT ![e].value = None]
        /\ UNCHANGED <<tailIndex, headIndex, headers, elements, elementsCompletelyDequeued,
                       uses, producer>>
    BY DEF ClearEntry, counters, storage, pool
  <1>1. /\ new \in Callers /\ new.pc = "release" /\ new.block = consumer[c].block
        /\ new.element = consumer[c].element
    BY DataTypes DEF Callers, ConsumerPcs
  <1>2. /\ consumer[c].pc = "clear"
        /\ consumer'[c] = new
        /\ \A d \in Consumers \ {c} : consumer'[d] = consumer[d]
        /\ consumer' \in [Consumers -> Callers]
    BY <1>0, <1>1, CallerMoves
  <1>3. /\ ElementsOK'
        /\ e \in Live /\ Live' = Live \ {e}
        /\ \A k \in Live : Key(k) # Key(e) => k \in Live'
        /\ \A j \in Nat : Waits(j) => Base(j) # Key(e)
    <2>1. UNCHANGED <<tailIndex, headIndex, elements, elementsCompletelyDequeued, uses,
                      producer>>
      BY <1>0
    <2>2. entries' = [entries EXCEPT ![consumer[c].entry].value = None]
      BY <1>0
    <2>3. /\ ElementsOK'
          /\ consumer[c].entry \in Live /\ Live' = Live \ {consumer[c].entry}
          /\ \A k \in Live : Key(k) # Key(consumer[c].entry) => k \in Live'
          /\ \A j \in Nat : Waits(j) => Base(j) # Key(consumer[c].entry)
      BY <1>0, <1>1, <2>1, <2>2, ClearEntryElements
    <2>. QED  BY <2>3
  <1>4. /\ DOMAIN entries' = DOMAIN entries
        /\ \A k \in DOMAIN entries : entries'[k].key = entries[k].key
        /\ \A k \in DOMAIN entries \ {e} : entries'[k] = entries[k]
        /\ entries'[e].value = None
        /\ entries' \in Seq([key : Nat, value : Blocks \cup {None}])
    <2>1. e \in DOMAIN entries
      BY <1>3 DEF Live
    <2>. QED  BY <1>0, <2>1, ValueStored
  <1>5. DataOK'
    BY <1>0, <1>2, <1>4, DataTypes, CallerTypes
  <1>6. /\ IndexOK'
        /\ \A h \in DOMAIN headers : \A x \in Slots(h) : Used(h, x) => Used(h, x)'
    BY <1>0, <1>4, CallerIndex
  <1>7. \A k \in DOMAIN entries : Key(k)' = Key(k)
    BY <1>4 DEF Key
  <1>8. Finding'
    <2>1. ASSUME NEW d \in At({"key", "value"}) \ {c}, NEW k \in Live,
                 Key(k) = Base(consumer[d].index)
          PROVE  k \in Live' /\ Key(k)' = Key(k)
      <3>1. d \in At(Holding) /\ Number(d) = consumer[d].index /\ consumer[d].index \in Nat
        BY DataTypes DEF At, Holding, Number, Callers
      <3>2. Waits(consumer[d].index)
        BY <3>1 DEF Waits
      <3>. QED  BY <1>3, <1>7, <2>1, <3>1, <3>2 DEF Live
    <2>2. consumer'[c].pc # "key" /\ consumer'[c].pc # "value"
      BY <1>1, <1>2
    <2>. QED  BY <1>0, <1>2, <1>6, <2>1, <2>2, CallerFinding
  <1>9. Filling'
    <2>1. \A d \in At({"release"})' : d = c \/ (d \in At({"release"}) /\ consumer'[d] = consumer[d])
      BY <1>1, <1>2 DEF At
    <2>2. BlockOf(e) = consumer'[c].block
      BY <1>1, <1>2 DEF ElementsOK, Emptying, AtClear, At
    <2>3. producer.pc = "value" =>
            /\ uses'[producer.block] = 1
            /\ elementsCompletelyDequeued'[producer.block] = 0
            /\ \A d \in At({"release"})' : consumer'[d].block # producer.block
      BY <1>0, <1>3, <2>1, <2>2 DEF Filling
    <2>4. \A k \in Live : Key(k) = Base(tailIndex) => k \in Live'
      <3>1. Waits(tailIndex) /\ tailIndex \in Nat
        BY DataTypes DEF Waits
      <3>. QED  BY <1>3, <3>1
    <2>5. \A k \in DOMAIN entries : \/ entries'[k].value = entries[k].value
                                    \/ entries'[k].value = None
      BY <1>4
    <2>. QED  BY <1>0, <1>4, <2>3, <2>4, <2>5, CallerFilling
  <1>. QED  BY <1>1, <1>2, <1>3, <1>5, <1>6, <1>8, <1>9 DEF QueueOK

\* An empty block goes back to the pool when no entry has it.
LEMMA ReleaseStep ==
    ASSUME Sizes, QueueOK, NEW c \in Consumers, AddBlockToFreeList(c)
    PROVE  QueueOK' /\ consumer[c].pc = "release" /\ consumer'[c].pc = "idle"
  <1>. DataOK /\ ElementsOK /\ Filling /\ Finding /\ IndexOK /\ HeadersOK
    BY DEF QueueOK, IndexOK
  <1>. PICK b : b = consumer[c].block
    OBVIOUS
  <1>. PICK new : new = IdleConsumer
    OBVIOUS
  <1>0. /\ Goes(c, "release", new)
        /\ uses' = [uses EXCEPT ![b] = 0]
        /\ UNCHANGED <<tailIndex, headIndex, headers, entries, elements,
                       elementsCompletelyDequeued, producer>>
    BY DEF AddBlockToFreeList, Pool!Release, counters, index, storage
  <1>1. new \in Callers /\ new.pc = "idle"
    BY NoBlock DEF Callers, ConsumerPcs, IdleConsumer
  <1>2. /\ consumer[c].pc = "release"
        /\ consumer'[c] = new
        /\ \A d \in Consumers \ {c} : consumer'[d] = consumer[d]
        /\ consumer' \in [Consumers -> Callers]
    BY <1>0, <1>1, CallerMoves
  <1>3. b \in Blocks
    BY <1>2 DEF ElementsOK, Emptying, AtRelease, At
  <1>4. uses' \in [Blocks -> 0..1] /\ \A x \in Blocks \ {b} : uses'[x] = uses[x]
    BY <1>0, <1>3, DataTypes
  <1>5. DataOK'
    BY <1>0, <1>2, <1>4, DataTypes, CallerTypes
  <1>6. ElementsOK'
    <2>1. UNCHANGED <<tailIndex, headIndex, entries, elements, elementsCompletelyDequeued,
                      producer>>
      BY <1>0
    <2>2. uses' = [uses EXCEPT ![consumer[c].block] = 0]
      BY <1>0
    <2>. QED  BY <1>0, <1>1, <2>1, <2>2, ReleaseElements
  <1>7. /\ IndexOK'
        /\ \A h \in DOMAIN headers : \A x \in Slots(h) : Used(h, x) => Used(h, x)'
    BY <1>0, CallerIndex
  <1>8. Live' = Live /\ \A k : Key(k)' = Key(k)
    BY <1>0 DEF Live, Key, BlockOf
  <1>9. Finding'
    <2>1. consumer'[c].pc # "key" /\ consumer'[c].pc # "value"
      BY <1>1, <1>2
    <2>. QED  BY <1>0, <1>2, <1>7, <1>8, <2>1, CallerFinding
  <1>10. Filling'
    <2>1. c \in At({"release"}) /\ At({"release"})' = At({"release"}) \ {c}
          /\ \A d \in At({"release"}) \ {c} : consumer'[d] = consumer[d]
      BY <1>1, <1>2 DEF At
    <2>2. producer.pc = "value" =>
            /\ uses'[producer.block] = 1
            /\ elementsCompletelyDequeued'[producer.block] = 0
            /\ \A d \in At({"release"})' : consumer'[d].block # producer.block
      BY <1>0, <1>4, <2>1 DEF Filling
    <2>. QED  BY <1>0, <1>8, <2>2, CallerFilling
  <1>. QED  BY <1>1, <1>2, <1>5, <1>6, <1>7, <1>9, <1>10 DEF QueueOK

-----------------------------------------------------------------------------
(* The invariant of the queue.                                             *)

\* The first index has all its entries, and none of them was ever used.
LEMMA InitIndex ==
    ASSUME Sizes, Init
    PROVE  IndexOK
  <1>. PICK m \in Nat : m = IMPLICIT_INITIAL_INDEX_SIZE /\ m > 0
    BY DEF Sizes
  <1>0. /\ entries = [i \in 1..m |-> [key |-> INVALID_BLOCK_BASE, value |-> None]]
        /\ headers = <<[tail |-> m - 1, index |-> [i \in 0..m - 1 |-> i + 1]]>>
        /\ tailIndex = 0 /\ producer.pc = "idle"
    BY DEF Init, FreshEntries, IdleProducer
  <1>1. /\ Len(headers) = 1 /\ DOMAIN headers = {1} /\ blockIndex = 1
        /\ headers[1].tail = m - 1 /\ headers[1].index = [i \in 0..m - 1 |-> i + 1]
    BY <1>0 DEF blockIndex
  <1>2. /\ Slots(1) = 0..m - 1
        /\ \A i \in 0..m - 1 : EntryAt(1, i) = i + 1
    BY <1>1 DEF Slots, EntryAt
  <1>3. Capacity(1) = m
    <2>1. Cardinality(0..m - 1) = m
      BY FS_Interval
    <2>. QED  BY <1>1, <2>1 DEF Capacity
  <1>4. DOMAIN entries = 1..m /\ \A k \in 1..m : Key(k) = INVALID_BLOCK_BASE
    BY <1>0 DEF Key
  <1>5. \A i \in 0..m - 1 : i + 1 \in 1..m
    OBVIOUS
  <1>6. HeadersOK
    <2>1. [tail |-> m - 1, index |-> [i \in 0..m - 1 |-> i + 1]] \in Headers
      <3>1. m - 1 \in Nat /\ [i \in 0..m - 1 |-> i + 1] \in [0..m - 1 -> Nat]
        OBVIOUS
      <3>. QED  BY <3>1 DEF Headers
    <2>2. headers \in Seq(Headers)
      <3>. PICK x \in Headers : headers = <<x>>
        BY <1>0, <2>1
      <3>. HIDE DEF Headers
      <3>. QED  OBVIOUS
    <2>3. m - 1 \in 0..m - 1
      OBVIOUS
    <2>. QED  BY <1>1, <1>2, <1>4, <1>5, <2>2, <2>3 DEF HeadersOK
  <1>7. \A i \in Slots(1) : ~Used(1, i)
    BY <1>2, <1>4, <1>5 DEF Used, KeyAt
  <1>8. ~InBlock /\ Current = 0 /\ Block = 0
    <2>1. 0 % BLOCK_SIZE = 0 /\ 0 \div BLOCK_SIZE = 0
      BY DEF Sizes
    <2>2. ~InBlock /\ Block = 0
      BY <1>0, <2>1 DEF InBlock, Slot, Block
    <2>3. NextTail(1) = 0
      <3>1. (m - 1 + 1) % m = 0
        OBVIOUS
      <3>. QED  BY <1>1, <1>3, <3>1 DEF NextTail
    <2>. QED  BY <1>1, <2>2, <2>3 DEF Current
  <1>9. Ring
    <2>1. KeysAt(1, 0, 0)
      BY <1>7 DEF KeysAt
    <2>2. FilledAt(1, 0, 0)
      <3>1. \A s \in Slots(1) : ~(s < 0)
        BY <1>2
      <3>. QED  BY <1>7, <3>1 DEF FilledAt
    <2>. QED  BY <1>0, <1>1, <1>8, <2>1, <2>2 DEF Ring
  <1>10. Complete
    <2>1. \A r, s \in 0..m - 1 : r + 1 = s + 1 => r = s
      OBVIOUS
    <2>2. \A k \in 1..m : k - 1 \in 0..m - 1 /\ (k - 1) + 1 = k
      OBVIOUS
    <2>3. \A k \in 1..m : EntryAt(1, k - 1) = k
      BY <1>2, <2>2
    <2>. QED  BY <1>1, <1>2, <1>4, <2>1, <2>2, <2>3 DEF Complete
  <1>11. Older
    BY <1>1 DEF Older
  <1>. QED  BY <1>6, <1>9, <1>10, <1>11 DEF IndexOK

\* At first there is no element, and no entry has a block.
LEMMA InitQueueOK ==
    ASSUME Sizes, Init
    PROVE  QueueOK
  <1>. PICK m \in Nat : m = IMPLICIT_INITIAL_INDEX_SIZE /\ m > 0
    BY DEF Sizes
  <1>0. /\ tailIndex = 0 /\ headIndex = 0
        /\ entries = [i \in 1..m |-> [key |-> INVALID_BLOCK_BASE, value |-> None]]
        /\ producer = IdleProducer
        /\ \A c \in Consumers : consumer[c].pc = "idle"
    BY DEF Init, FreshEntries, IdleConsumer
  <1>1. DataOK
    <2>1. entries \in Seq([key : Nat, value : Blocks \cup {None}])
      <3>. PICK x \in [key : Nat, value : Blocks \cup {None}] :
               x = [key |-> INVALID_BLOCK_BASE, value |-> None]
        BY DEF INVALID_BLOCK_BASE
      <3>. DEFINE E == [key : Nat, value : Blocks \cup {None}]
      <3>. HIDE DEF E
      <3>1. x \in E
        BY DEF E
      <3>2. entries = [i \in 1..m |-> x]
        BY <1>0
      <3>3. entries \in Seq(E)
        BY ONLY <3>1, <3>2, m \in Nat
      <3>. QED  BY <3>3 DEF E
    <2>2. elements \in [Blocks -> [0..BLOCK_SIZE - 1 -> Nat \cup {None}]]
      BY DEF Init
    <2>3. elementsCompletelyDequeued \in [Blocks -> Nat] /\ uses \in [Blocks -> 0..1]
      BY DEF Init
    <2>4. producer \in [pc : ProducerPcs, newTail : Nat, block : Blocks \cup {None}]
      BY <1>0 DEF IdleProducer, ProducerPcs
    <2>5. consumer \in [Consumers -> Callers]
      BY DEF Init, IdleConsumer, Callers, ConsumerPcs
    <2>6. tailIndex \in Nat /\ headIndex \in Nat /\ headIndex <= tailIndex
      BY <1>0
    <2>. QED  BY <2>1, <2>2, <2>3, <2>4, <2>5, <2>6 DEF DataOK
  <1>2. /\ At(Holding) = {} /\ At({"empty"}) = {} /\ At({"clear"}) = {} /\ At({"release"}) = {}
        /\ At({"key"}) = {} /\ At({"value"}) = {}
    BY <1>0 DEF At, Holding
  <1>3. Live = {}
    BY <1>0 DEF Live, BlockOf
  <1>4. ElementsOK
    <2>1. HandsApart
      BY <1>2 DEF HandsApart
    <2>2. LiveEntries /\ Counted
      BY <1>3 DEF LiveEntries, Counted
    <2>3. Stored
      BY <1>0 DEF Stored
    <2>4. Emptying
      BY <1>2 DEF Emptying, AtEmpty, AtClear, AtRelease
    <2>. QED  BY <2>1, <2>2, <2>3, <2>4 DEF ElementsOK
  <1>5. Filling
    <2>1. Slot(0) = 0
      BY DEF Sizes, Slot
    <2>. QED  BY <1>0, <2>1 DEF Filling, IdleProducer
  <1>6. Finding
    BY <1>2 DEF Finding
  <1>. QED  BY <1>1, <1>4, <1>5, <1>6, InitIndex DEF QueueOK

\* Before it takes its element a consumer only looks at the counters.
Counting == {"idle", "overcommit", "test", "count", "tail", "miss", "take"}

\* A consumer that reads the counters, and one that is granted an element or not, has
\* nothing to do with the elements.
LEMMA CountingSteps ==
    ASSUME Sizes, IInv, QueueOK, NEW c \in Consumers,
           \/ LoadTail(c) \/ LoadOvercommit(c) \/ LooksEmpty(c) \/ LooksNonEmpty(c)
           \/ CountIn(c) \/ Decide(c) \/ Miss(c)
    PROVE  /\ QueueOK'
           /\ consumer[c].pc \in Counting /\ consumer'[c].pc \in Counting
           /\ UNCHANGED <<tailIndex, headIndex>>
  <1>. DataOK
    BY DEF QueueOK
  <1>1. UNCHANGED <<tailIndex, headIndex, entries, headers, elements,
                    elementsCompletelyDequeued, uses, producer>>
    BY DEF LoadTail, LoadOvercommit, LooksEmpty, LooksNonEmpty, CountIn, Decide, Miss,
           counters, index, storage, pool
  <1>2. /\ tailIndex \in Nat /\ consumer[c] \in Callers
        /\ dequeueOptimisticCount \in Nat /\ dequeueOvercommit \in Nat
    BY DataTypes DEF IInv, CountersOK
  <1>3. IdleConsumer \in Callers /\ IdleConsumer.pc = "idle"
    BY NoBlock DEF IdleConsumer, Callers, ConsumerPcs
  <1>4. \E from \in Counting, new \in Callers : Goes(c, from, new) /\ new.pc \in Counting
    <2>1. CASE LoadTail(c)
      <3>. DEFINE new == [IdleConsumer EXCEPT !.pc = "overcommit", !.tail = tailIndex]
      <3>1. new \in Callers /\ new.pc = "overcommit"
        BY <1>2, <1>3 DEF Callers, ConsumerPcs
      <3>2. Goes(c, "idle", new)
        BY <2>1 DEF LoadTail
      <3>. HIDE DEF new
      <3>. QED  BY <3>1, <3>2 DEF Counting
    <2>2. CASE LoadOvercommit(c)
      <3>. DEFINE new == [consumer[c] EXCEPT !.pc = "test", !.overcommit = dequeueOvercommit]
      <3>1. new \in Callers /\ new.pc = "test"
        BY <1>2 DEF Callers, ConsumerPcs
      <3>2. Goes(c, "overcommit", new)
        BY <2>2 DEF LoadOvercommit
      <3>. HIDE DEF new
      <3>. QED  BY <3>1, <3>2 DEF Counting
    <2>3. CASE LooksEmpty(c)
      BY <1>3, <2>3 DEF LooksEmpty, Counting
    <2>4. CASE LooksNonEmpty(c)
      <3>. DEFINE new == [consumer[c] EXCEPT !.pc = "count", !.tail = 0]
      <3>1. new \in Callers /\ new.pc = "count"
        BY <1>2 DEF Callers, ConsumerPcs
      <3>2. Goes(c, "test", new)
        BY <2>4 DEF LooksNonEmpty
      <3>. HIDE DEF new
      <3>. QED  BY <3>1, <3>2 DEF Counting
    <2>5. CASE CountIn(c)
      <3>. DEFINE new == [consumer[c] EXCEPT !.pc = "tail", !.count = dequeueOptimisticCount]
      <3>1. new \in Callers /\ new.pc = "tail"
        BY <1>2 DEF Callers, ConsumerPcs
      <3>2. Goes(c, "count", new)
        BY <2>5 DEF CountIn
      <3>. HIDE DEF new
      <3>. QED  BY <3>1, <3>2 DEF Counting
    <2>6. CASE Decide(c)
      <3>. DEFINE next == IF MayTake(c) THEN "take" ELSE "miss"
                  new == [IdleConsumer EXCEPT !.pc = next]
      <3>1. next \in {"take", "miss"}
        OBVIOUS
      <3>2. Goes(c, "tail", new)
        BY <2>6 DEF Decide
      <3>. HIDE DEF next
      <3>3. new \in Callers /\ new.pc \in {"take", "miss"}
        BY <1>3, <3>1 DEF Callers, ConsumerPcs
      <3>. HIDE DEF new
      <3>. QED  BY <3>2, <3>3 DEF Counting
    <2>7. CASE Miss(c)
      BY <1>3, <2>7 DEF Miss, Counting
    <2>. QED  BY <2>1, <2>2, <2>3, <2>4, <2>5, <2>6, <2>7
  <1>5. PICK from \in Counting, new \in Callers : Goes(c, from, new) /\ new.pc \in Counting
    BY <1>4
  <1>6. \A pc \in Counting : pc \notin {"header", "key", "value", "empty", "clear", "release"}
    BY DEF Counting
  <1>7. QueueOK'
    BY <1>1, <1>5, <1>6, QuietCaller
  <1>8. consumer[c].pc = from /\ consumer'[c] = new
    BY <1>5, CallerMoves
  <1>. QED  BY <1>1, <1>5, <1>7, <1>8

\* Nothing moves.
LEMMA StutterQueueOK ==
    ASSUME Sizes, QueueOK, UNCHANGED vars
    PROVE  QueueOK'
  <1>. UNCHANGED <<tailIndex, headIndex, entries, headers, elements,
                   elementsCompletelyDequeued, uses, producer, consumer>>
    BY DEF vars, counters, index, storage, pool
  <1>1. DataOK'
    BY DEF QueueOK, DataOK
  <1>2. ElementsOK'
    BY DEF QueueOK, ElementsOK, HandsApart, LiveEntries, Stored, Counted, Emptying, AtEmpty,
           AtClear, AtRelease, At, Number, Live, Key, BlockOf, Unread, Waits, Rest
  <1>3. Filling'
    BY DEF QueueOK, Filling, NewEntry, EntryAt, blockIndex, Live, Key, BlockOf, At
  <1>4. Finding'
    BY DEF QueueOK, Finding, StartsRight, EntryFound, EntryAt, Live, Key, BlockOf, At
  <1>5. IndexOK'
    BY CallerIndex DEF QueueOK
  <1>. QED  BY <1>1, <1>2, <1>3, <1>4, <1>5 DEF QueueOK

\* Every step keeps the invariant.
LEMMA NextQueueOK ==
    ASSUME Sizes, IInv, QueueOK, [Next]_vars
    PROVE  QueueOK'
  <1>1. CASE Enqueue \/ RewindBlockIndexTail
    BY <1>1, EnqueueSteps
  <1>2. ASSUME NEW c \in Consumers, Dequeue(c)
        PROVE  QueueOK'
    BY <1>2, CountingSteps, TakeQueueStep, LoadHeaderStep, LoadKeyStep, LoadValueStep,
       SetEmptyStep, ClearEntryStep, ReleaseStep DEF Dequeue
  <1>3. CASE UNCHANGED vars
    BY <1>3, StutterQueueOK
  <1>. QED  BY <1>1, <1>2, <1>3 DEF Next

\* So it holds in every state.
LEMMA QueueInductive ==
    ASSUME Sizes
    PROVE  Spec => [](IInv /\ QueueOK)
  <1>1. Init => IInv /\ QueueOK
    BY InitIInv, InitQueueOK DEF Sizes
  <1>2. (IInv /\ QueueOK) /\ [Next]_vars => (IInv /\ QueueOK)'
    BY NextIInv, NextQueueOK DEF Sizes
  <1>. QED  BY <1>1, <1>2, PTL DEF Spec

-----------------------------------------------------------------------------
(* The sub-queue is a ProducerFifo.                                        *)

\* Through the index, an element that is unread is found where it was put.
LEMMA ContentOf ==
    ASSUME Sizes, QueueOK, NEW i \in Nat, i < tailIndex, Unread(i)
    PROVE  Content(i) = i
  <1>. DataOK /\ LiveEntries /\ Stored
    BY DEF QueueOK, ElementsOK
  <1>. PICK b : b = Base(i)
    OBVIOUS
  <1>. PICK s : s = Slot(i)
    OBVIOUS
  <1>1. PICK k \in Live : Key(k) = b /\ elements[BlockOf(k)][s] = i
    BY DEF Stored
  <1>. DEFINE found == {l \in DOMAIN entries : entries[l].key = b /\ entries[l].value # None}
  <1>2. found = {k}
    <2>1. \A l \in found : l \in Live /\ Key(l) = b
      BY DEF Live, Key, BlockOf
    <2>2. k \in found
      BY <1>1 DEF Live, Key, BlockOf
    <2>. HIDE DEF found
    <2>. QED  BY <1>1, <2>1, <2>2 DEF LiveEntries
  <1>3. Content(i) = IF found = {} THEN None
                     ELSE elements[entries[CHOOSE l \in found : TRUE].value][s]
    BY DEF Content
  <1>. HIDE DEF found
  <1>4. found # {} /\ (CHOOSE l \in found : TRUE) = k
    BY <1>2
  <1>. QED  BY <1>1, <1>3, <1>4 DEF BlockOf

\* What a consumer has taken, by where it is.
Shows(c) == IF consumer[c].pc \in Reading THEN consumer[c].index
            ELSE IF consumer[c].pc \in {"empty", "clear", "release"} THEN consumer[c].element
            ELSE None

\* That is what TakenBy finds, and from its element on a consumer has something.
LEMMA TakenIsShown ==
    ASSUME Sizes, QueueOK, NEW c \in Consumers
    PROVE  /\ TakenBy(c) = Shows(c)
           /\ consumer[c].pc \notin Counting => Shows(c) # None
  <1>. DataOK /\ HandsApart /\ Emptying
    BY DEF QueueOK, ElementsOK
  <1>. PICK i : i = consumer[c].index
    OBVIOUS
  <1>0. /\ tailIndex \in Nat /\ headIndex \in Nat /\ headIndex <= tailIndex
        /\ consumer[c].pc \in ConsumerPcs
    BY DataTypes DEF Callers
  <1>1. CASE consumer[c].pc \in Reading
    <2>1. c \in At(Holding) /\ c \in At(Reading) /\ Number(c) = i
      BY <1>1 DEF At, Holding, Reading, Number
    <2>2. i \in Nat /\ i < headIndex
      BY <2>1 DEF HandsApart
    <2>3. i < tailIndex /\ Unread(i)
      BY <1>0, <2>1, <2>2 DEF Unread
    <2>4. Content(i) = i
      BY <2>2, <2>3, ContentOf
    <2>5. TakenBy(c) = Content(i)
      BY <1>1 DEF TakenBy, Reading
    <2>. QED  BY <1>1, <2>2, <2>4, <2>5 DEF Shows, Sizes
  <1>2. CASE consumer[c].pc \in {"empty", "clear", "release"}
    <2>1. consumer[c].pc \notin Reading
      BY <1>2 DEF Reading
    <2>2. TakenBy(c) = consumer[c].element /\ Shows(c) = consumer[c].element
      BY <1>2, <2>1 DEF TakenBy, Shows
    <2>3. consumer[c].element # None
      <3>1. consumer[c].pc = "empty" => c \in At(Holding) /\ Number(c) = consumer[c].element
        BY DEF At, Holding, Number
      <3>2. consumer[c].pc = "empty" => consumer[c].element \in Nat
        BY <3>1 DEF HandsApart
      <3>3. consumer[c].pc \in {"clear", "release"} => consumer[c].element # None
        BY DEF Emptying, AtClear, AtRelease, At
      <3>. QED  BY <1>2, <3>2, <3>3 DEF Sizes
    <2>. QED  BY <2>2, <2>3
  <1>3. CASE consumer[c].pc \in Counting
    BY <1>3 DEF TakenBy, Shows, Reading, Counting
  <1>. QED  BY <1>0, <1>1, <1>2, <1>3 DEF ConsumerPcs, Reading, Counting

\* What the abstract queue sees of the consumers.
Shown == \A c \in Consumers : TakenBy(c) = Shows(c)
Taken == [c \in Consumers |-> TakenBy(c)]

\* A step of one consumer leaves what the others have taken.
LEMMA OthersKeep ==
    ASSUME Shown, Shown', NEW c \in Consumers,
           \A d \in Consumers \ {c} : consumer'[d] = consumer[d]
    PROVE  /\ Taken' = [Taken EXCEPT ![c] = Shows(c)']
           /\ Taken[c] = Shows(c)
           /\ Shows(c)' = Shows(c) => Taken' = Taken
  <1>1. \A d \in Consumers : TakenBy(d) = Shows(d) /\ TakenBy(d)' = Shows(d)'
    BY DEF Shown
  <1>2. \A d \in Consumers \ {c} : Shows(d)' = Shows(d)
    BY DEF Shows
  <1>3. /\ Taken' = [d \in Consumers |-> Shows(d)']
        /\ Taken = [d \in Consumers |-> Shows(d)]
    BY <1>1 DEF Taken
  <1>. HIDE DEF Taken
  <1>. QED  BY <1>2, <1>3

\* The moves of a consumer are its own.
LEMMA OneDequeues ==
    ASSUME DataOK, NEW c \in Consumers, Dequeue(c)
    PROVE  \A d \in Consumers \ {c} : consumer'[d] = consumer[d]
  <1>1. \E from, new : Goes(c, from, new)
    BY Zenon DEF Dequeue, LoadTail, LoadOvercommit, LooksEmpty, LooksNonEmpty, CountIn, Decide,
           Miss, Take, LoadHeader, LoadKey, LoadValue, SetEmpty, ClearEntry,
           AddBlockToFreeList
  <1>2. PICK from, new : Goes(c, from, new)
    BY <1>1
  <1>3. consumer' = [consumer EXCEPT ![c] = new] /\ consumer \in [Consumers -> Callers]
    BY <1>2 DEF Goes, DataOK
  <1>. QED  BY <1>3

\* A step of the producer adds an element or leaves everything as it is.
LEMMA ProducerRefines ==
    ASSUME Enqueue \/ RewindBlockIndexTail
    PROVE  /\ tailIndex' = tailIndex \/ tailIndex' = tailIndex + 1
           /\ UNCHANGED <<headIndex, consumer>>
  BY DEF Enqueue, EnqueueInBlock, EnqueueFirst, FindEntry, NewBlockIndex, StoreKey,
         StoreTail, StoreValue, RequisitionBlock, RewindBlockIndexTail, Store, counters

\* A consumer takes the first element, returns with what it has taken, or is seen to
\* do neither.
LEMMA DequeueRefines ==
    ASSUME Sizes, IInv, QueueOK, Shown, Shown', NEW c \in Consumers, Dequeue(c)
    PROVE  /\ UNCHANGED tailIndex
           /\ \/ /\ headIndex < tailIndex /\ headIndex' = headIndex + 1
                 /\ Taken[c] = None /\ Taken' = [Taken EXCEPT ![c] = headIndex]
              \/ /\ Taken[c] # None /\ Taken' = [Taken EXCEPT ![c] = None]
                 /\ UNCHANGED headIndex
              \/ UNCHANGED <<headIndex, Taken>>
  <1>. DataOK
    BY DEF QueueOK
  <1>1. /\ Taken' = [Taken EXCEPT ![c] = Shows(c)']
        /\ Taken[c] = Shows(c)
        /\ Shows(c)' = Shows(c) => Taken' = Taken
    BY OthersKeep, OneDequeues
  <1>2. consumer[c].pc \notin Counting => Shows(c) # None
    BY TakenIsShown
  <1>3. consumer[c] \in Callers
    BY DataTypes
  <1>4. CASE LoadTail(c) \/ LoadOvercommit(c) \/ LooksEmpty(c) \/ LooksNonEmpty(c)
             \/ CountIn(c) \/ Decide(c) \/ Miss(c)
    <2>1. /\ consumer[c].pc \in Counting /\ consumer'[c].pc \in Counting
          /\ UNCHANGED <<tailIndex, headIndex>>
      BY <1>4, CountingSteps
    <2>2. Shows(c) = None /\ Shows(c)' = None
      BY <2>1 DEF Shows, Counting, Reading
    <2>. QED  BY <1>1, <2>1, <2>2
  <1>5. CASE Take(c)
    <2>1. UNCHANGED tailIndex /\ headIndex' = headIndex + 1 /\ headIndex < tailIndex
      BY <1>5, TakeQueueStep DEF Take
    <2>2. consumer[c].pc = "take"
      BY <1>5 DEF Take, Goes
    <2>3. consumer'[c].pc = "header" /\ consumer'[c].index = headIndex
      <3>1. PICK new : /\ new = [consumer[c] EXCEPT !.pc = "header", !.index = headIndex]
                       /\ Goes(c, "take", new)
        BY <1>5 DEF Take
      <3>2. new.pc = "header" /\ new.index = headIndex
        BY <1>3, <3>1 DEF Callers
      <3>3. consumer'[c] = new
        BY <3>1 DEF Goes, DataOK
      <3>. QED  BY <3>2, <3>3
    <2>4. Shows(c) = None /\ Shows(c)' = headIndex
      BY <2>2, <2>3 DEF Shows, Reading
    <2>. QED  BY <1>1, <2>1, <2>4
  <1>6. CASE LoadHeader(c) \/ LoadKey(c)
    <2>1. UNCHANGED <<tailIndex, headIndex>>
      BY <1>6 DEF LoadHeader, LoadKey, counters
    <2>2. /\ consumer[c].pc \in {"header", "key"} /\ consumer'[c].pc \in {"key", "value"}
          /\ consumer'[c].index = consumer[c].index
      <3>1. CASE LoadHeader(c)
        <4>1. PICK new : /\ new = [consumer[c] EXCEPT !.pc = "key", !.header = blockIndex,
                                                      !.slot = headers[blockIndex].tail]
                         /\ Goes(c, "header", new)
          BY <3>1 DEF LoadHeader
        <4>2. new.pc = "key" /\ new.index = consumer[c].index
          BY <1>3, <4>1 DEF Callers
        <4>3. consumer[c].pc = "header" /\ consumer'[c] = new
          BY <4>1 DEF Goes, DataOK
        <4>. QED  BY <4>2, <4>3
      <3>2. CASE LoadKey(c)
        <4>1. PICK new : /\ new = [IdleConsumer EXCEPT !.pc = "value", !.index = consumer[c].index,
                                                       !.entry = EntryOf(c)]
                         /\ Goes(c, "key", new)
          BY <3>2 DEF LoadKey
        <4>2. new.pc = "value" /\ new.index = consumer[c].index
          BY <4>1 DEF IdleConsumer
        <4>3. consumer[c].pc = "key" /\ consumer'[c] = new
          BY <4>1 DEF Goes, DataOK
        <4>. QED  BY <4>2, <4>3
      <3>. QED  BY <1>6, <3>1, <3>2
    <2>3. Shows(c)' = Shows(c)
      BY <2>2 DEF Shows, Reading
    <2>. QED  BY <1>1, <2>1, <2>3
  <1>7. CASE LoadValue(c)
    <2>1. UNCHANGED <<tailIndex, headIndex>> /\ consumer[c].pc = "value"
      BY <1>7 DEF LoadValue, counters
    <2>2. consumer'[c].pc = "empty" /\ consumer'[c].element = consumer[c].index
      BY <1>7, LoadValueStep
    <2>3. Shows(c)' = Shows(c)
      BY <2>1, <2>2 DEF Shows, Reading
    <2>. QED  BY <1>1, <2>1, <2>3
  <1>8. CASE SetEmpty(c)
    <2>1. UNCHANGED <<tailIndex, headIndex>>
      BY <1>8 DEF SetEmpty, counters
    <2>2. /\ consumer[c].pc = "empty"
          /\ \/ consumer'[c].pc = "idle"
             \/ consumer'[c].pc = "clear" /\ consumer'[c].element = consumer[c].element
      BY <1>8, SetEmptyStep
    <2>3. consumer'[c].pc = "idle" => Shows(c)' = None
      BY DEF Shows, Reading
    <2>4. consumer'[c].pc = "clear" => Shows(c)' = consumer'[c].element
      BY DEF Shows, Reading
    <2>5. Shows(c) = consumer[c].element /\ Shows(c) # None
      BY <1>2, <2>2 DEF Shows, Reading, Counting
    <2>. QED  BY <1>1, <2>1, <2>2, <2>3, <2>4, <2>5
  <1>9. CASE ClearEntry(c)
    <2>1. UNCHANGED <<tailIndex, headIndex>>
      BY <1>9 DEF ClearEntry, counters
    <2>2. /\ consumer[c].pc = "clear" /\ consumer'[c].pc = "release"
          /\ consumer'[c].element = consumer[c].element
      BY <1>9, ClearEntryStep
    <2>3. Shows(c)' = Shows(c)
      BY <2>2 DEF Shows, Reading
    <2>. QED  BY <1>1, <2>1, <2>3
  <1>10. CASE AddBlockToFreeList(c)
    <2>1. UNCHANGED <<tailIndex, headIndex>>
      BY <1>10 DEF AddBlockToFreeList, counters
    <2>2. consumer[c].pc = "release" /\ consumer'[c].pc = "idle"
      BY <1>10, ReleaseStep
    <2>3. Shows(c)' = None /\ Shows(c) # None
      BY <1>2, <2>2 DEF Shows, Reading, Counting
    <2>. QED  BY <1>1, <2>1, <2>3
  <1>. QED  BY <1>4, <1>5, <1>6, <1>7, <1>8, <1>9, <1>10 DEF Dequeue

\* Every step is one of the abstract queue, or leaves it as it is.
LEMMA StepRefines ==
    ASSUME Sizes, IInv, QueueOK, Shown, Shown', [Next]_vars
    PROVE  [Fifo!Next]_(Fifo!fifoVars)
  <1>0. Fifo!fifoVars = <<tailIndex, headIndex, Taken>>
    BY DEF Fifo!fifoVars, Taken
  <1>1. CASE Enqueue \/ RewindBlockIndexTail
    <2>1. /\ tailIndex' = tailIndex \/ tailIndex' = tailIndex + 1
          /\ UNCHANGED <<headIndex, consumer>>
      BY <1>1, ProducerRefines
    <2>2. Taken' = Taken
      BY <2>1 DEF Taken, Shown, Shows
    <2>3. CASE tailIndex' = tailIndex
      BY <2>1, <2>2, <2>3 DEF Fifo!fifoVars, Taken
    <2>4. CASE tailIndex' = tailIndex + 1
      BY <2>1, <2>2, <2>4 DEF Fifo!Next, Fifo!Enqueue, Taken
    <2>. QED  BY <2>1, <2>3, <2>4
  <1>2. ASSUME NEW c \in Consumers, Dequeue(c)
        PROVE  [Fifo!Next]_(Fifo!fifoVars)
    <2>1. /\ UNCHANGED tailIndex
          /\ \/ /\ headIndex < tailIndex /\ headIndex' = headIndex + 1
                /\ Taken[c] = None /\ Taken' = [Taken EXCEPT ![c] = headIndex]
             \/ /\ Taken[c] # None /\ Taken' = [Taken EXCEPT ![c] = None]
                /\ UNCHANGED headIndex
             \/ UNCHANGED <<headIndex, Taken>>
      BY <1>2, DequeueRefines
    <2>2. CASE headIndex < tailIndex /\ headIndex' = headIndex + 1
               /\ Taken[c] = None /\ Taken' = [Taken EXCEPT ![c] = headIndex]
      <3>1. Fifo!Take(c)
        BY <2>1, <2>2 DEF Fifo!Take, Taken
      <3>. QED  BY <3>1 DEF Fifo!Next
    <2>3. CASE /\ Taken[c] # None /\ Taken' = [Taken EXCEPT ![c] = None]
               /\ UNCHANGED headIndex
      <3>1. Fifo!Return(c)
        BY <2>1, <2>3 DEF Fifo!Return, Taken
      <3>. QED  BY <3>1 DEF Fifo!Next
    <2>4. CASE UNCHANGED <<headIndex, Taken>>
      BY <2>1, <2>4 DEF Fifo!fifoVars, Taken
    <2>. QED  BY <2>1, <2>2, <2>3, <2>4
  <1>3. CASE UNCHANGED vars
    <2>1. UNCHANGED <<tailIndex, headIndex, consumer>>
      BY <1>3 DEF vars, counters
    <2>2. Taken' = Taken
      BY <2>1 DEF Taken, Shown, Shows
    <2>. QED  BY <2>1, <2>2 DEF Fifo!fifoVars, Taken
  <1>. QED  BY <1>1, <1>2, <1>3 DEF Next

\* At first the abstract queue is empty.
LEMMA InitRefines ==
    ASSUME Init
    PROVE  Fifo!Init
  <1>1. tailIndex = 0 /\ headIndex = 0 /\ \A c \in Consumers : consumer[c].pc = "idle"
    BY DEF Init, IdleConsumer
  <1>2. \A c \in Consumers : TakenBy(c) = None
    BY <1>1 DEF TakenBy
  <1>. QED  BY <1>1, <1>2 DEF Fifo!Init

\* The sub-queue of a producer is a ProducerFifo, for any number of consumers and of
\* elements, any block size and any size of the first index: elements leave in the
\* order in which they were put in, each of them once and as it was put in, and no
\* consumer takes one that is not there yet (concurrentqueue.h:2410-2542, 2816-2918).
THEOREM ImplementsFifo ==
    ASSUME Sizes
    PROVE  Spec => RefinesFifo
  <1>1. Init => Fifo!Init
    BY InitRefines
  <1>2. IInv /\ QueueOK => Shown
    BY TakenIsShown DEF Shown
  <1>3. (IInv /\ QueueOK) /\ Shown /\ Shown' /\ [Next]_vars => [Fifo!Next]_(Fifo!fifoVars)
    BY StepRefines
  <1>. QED  BY <1>1, <1>2, <1>3, QueueInductive, PTL DEF Spec, RefinesFifo, Fifo!Spec

-----------------------------------------------------------------------------
(* The types.                                                              *)

\* What the bound on the model and the size of a block bound.
Bounded ==
    /\ tailIndex <= MaxEnqueues
    /\ producer.pc # "idle" => tailIndex < MaxEnqueues
    /\ \A b \in Blocks : elementsCompletelyDequeued[b] <= BLOCK_SIZE

\* A number and a number of slots.
LEMMA FewSlots ==
    ASSUME Sizes, NEW S \in SUBSET (0..BLOCK_SIZE - 1), NEW n \in Nat,
           n + Cardinality(S) = BLOCK_SIZE
    PROVE  n <= BLOCK_SIZE
  <1>1. Cardinality(S) \in Nat
    <2>1. 0 \in Int /\ BLOCK_SIZE - 1 \in Int
      BY DEF Sizes
    <2>2. IsFiniteSet(0..BLOCK_SIZE - 1)
      BY <2>1, FS_Interval
    <2>. QED  BY <2>2, FS_Subset, FS_CardinalityType
  <1>2. BLOCK_SIZE \in Nat
    BY DEF Sizes
  <1>. QED  BY ONLY <1>1, <1>2, n \in Nat, n + Cardinality(S) = BLOCK_SIZE

\* The producer takes up an element only below its bound, and a count is set to zero
\* or grows with an element of a block that has an entry.
LEMMA NextBounded ==
    ASSUME Sizes, MaxEnqueues \in Nat, QueueOK, QueueOK', Bounded, [Next]_vars
    PROVE  Bounded'
  <1>. DataOK
    BY DEF QueueOK
  <1>. tailIndex \in Nat /\ elementsCompletelyDequeued \in [Blocks -> Nat]
    BY DataTypes
  <1>1. CASE Enqueue \/ RewindBlockIndexTail
    <2>1. CASE EnqueueInBlock \/ EnqueueFirst
      <3>1. /\ tailIndex < MaxEnqueues /\ tailIndex' = tailIndex + 1 /\ producer'.pc = "idle"
            /\ UNCHANGED elementsCompletelyDequeued
        BY <2>1 DEF EnqueueInBlock, EnqueueFirst, Store, Bounded, IdleProducer
      <3>. QED  BY <3>1 DEF Bounded
    <2>2. CASE FindEntry \/ NewBlockIndex
      <3>1. /\ tailIndex < MaxEnqueues
            /\ UNCHANGED <<tailIndex, elementsCompletelyDequeued>>
        BY <2>2 DEF FindEntry, NewBlockIndex, counters, storage
      <3>. QED  BY <3>1 DEF Bounded
    <2>3. CASE StoreKey \/ StoreTail \/ StoreValue \/ RewindBlockIndexTail
      <3>1. producer.pc # "idle" /\ UNCHANGED <<tailIndex, elementsCompletelyDequeued>>
        BY <2>3 DEF StoreKey, StoreTail, StoreValue, RewindBlockIndexTail, counters, storage
      <3>. QED  BY <3>1 DEF Bounded
    <2>4. ASSUME NEW b \in Blocks, RequisitionBlock(b)
          PROVE  Bounded'
      <3>1. /\ producer.pc # "idle" /\ UNCHANGED tailIndex
            /\ elementsCompletelyDequeued' = [elementsCompletelyDequeued EXCEPT ![b] = 0]
        BY <2>4 DEF RequisitionBlock, counters
      <3>2. 0 <= BLOCK_SIZE
        BY DEF Sizes
      <3>. QED  BY <3>1, <3>2 DEF Bounded
    <2>. QED  BY <1>1, <2>1, <2>2, <2>3, <2>4 DEF Enqueue
  <1>2. ASSUME NEW c \in Consumers, SetEmpty(c)
        PROVE  Bounded'
    <2>. PICK e : e = consumer[c].entry
      OBVIOUS
    <2>. PICK b : b = consumer[c].block
      OBVIOUS
    <2>1. /\ UNCHANGED <<tailIndex, producer, entries>>
          /\ elementsCompletelyDequeued' = [elementsCompletelyDequeued EXCEPT ![b] = @ + 1]
      BY <1>2 DEF SetEmpty, counters, index
    <2>2. e \in Live /\ BlockOf(e) = b
      BY <1>2 DEF QueueOK, ElementsOK, Emptying, AtEmpty, At, SetEmpty
    <2>3. e \in Live' /\ BlockOf(e)' = b
      BY <2>1, <2>2 DEF Live, BlockOf
    <2>4. elementsCompletelyDequeued'[b] <= BLOCK_SIZE
      <3>1. Counted' /\ DataOK'
        BY DEF QueueOK, ElementsOK
      <3>2. elementsCompletelyDequeued'[b] + Cardinality(Rest(e)') = BLOCK_SIZE
        BY <2>3, <3>1 DEF Counted
      <3>3. Rest(e)' \subseteq 0..BLOCK_SIZE - 1
        BY DEF Rest
      <3>4. b \in Blocks
        BY <2>2, EntryTypes
      <3>5. elementsCompletelyDequeued'[b] \in Nat
        BY <3>1, <3>4 DEF DataOK
      <3>. QED  BY <3>2, <3>3, <3>5, FewSlots
    <2>. QED  BY <2>1, <2>4 DEF Bounded
  <1>3. ASSUME NEW c \in Consumers, Dequeue(c), ~SetEmpty(c)
        PROVE  Bounded'
    <2>1. UNCHANGED <<tailIndex, producer, elementsCompletelyDequeued>>
      BY <1>3 DEF Dequeue, LoadTail, LoadOvercommit, LooksEmpty, LooksNonEmpty, CountIn, Decide,
                  Miss, Take, LoadHeader, LoadKey, LoadValue, ClearEntry, AddBlockToFreeList,
                  counters, storage
    <2>. QED  BY <2>1 DEF Bounded
  <1>4. CASE UNCHANGED vars
    BY <1>4 DEF vars, counters, storage, Bounded
  <1>. QED  BY <1>1, <1>2, <1>3, <1>4 DEF Next

\* The types follow from the invariant.
LEMMA InvariantTypes ==
    ASSUME Sizes, MaxEnqueues \in Nat, IInv, QueueOK, Bounded
    PROVE  TypeOK
  <1>. DataOK /\ ElementsOK /\ HeadersOK /\ LiveEntries
    BY DEF QueueOK, IndexOK, ElementsOK
  <1>1. tailIndex \in 0..MaxEnqueues /\ headIndex \in 0..tailIndex
    BY DataTypes DEF Bounded
  <1>2. dequeueOptimisticCount \in Nat /\ dequeueOvercommit \in 0..dequeueOptimisticCount
    <2>1. /\ headIndex \in Nat /\ dequeueOptimisticCount \in Nat /\ dequeueOvercommit \in Nat
          /\ Cardinality(At({"tail", "take", "miss"})) \in Nat
      BY NumbersOfConsumers DEF Sizes, IInv, CountersOK
    <2>2. dequeueOptimisticCount - dequeueOvercommit
              = headIndex + Cardinality(At({"tail", "take", "miss"}))
      BY DEF IInv, CountsAgree, At
    <2>. QED  BY ONLY <2>1, <2>2
  <1>3. \A k \in DOMAIN entries : /\ entries[k].key \in Nat
                                  /\ \/ entries[k].value = None
                                     \/ uses[entries[k].value] = 1
    BY EntryTypes DEF LiveEntries, Live, Key, BlockOf
  <1>4. \A h \in DOMAIN headers : /\ headers[h].tail \in DOMAIN headers[h].index
                                  /\ \A i \in DOMAIN headers[h].index :
                                         EntryAt(h, i) \in DOMAIN entries
    BY DEF HeadersOK, Slots
  <1>5. uses \in [Blocks -> 0..1]
    BY DataTypes
  <1>6. \A b \in Blocks : elementsCompletelyDequeued[b] \in 0..BLOCK_SIZE
    BY DataTypes DEF Bounded, Sizes
  <1>7. producer.pc \in ProducerPcs /\ producer.block \in Blocks \cup {None}
    BY DEF DataOK
  <1>8. ASSUME NEW c \in Consumers
        PROVE  /\ consumer[c].pc \in ConsumerPcs
               /\ consumer[c].pc \in {"empty", "clear", "release"} =>
                      uses[consumer[c].block] = 1
    <2>1. consumer[c].pc \in ConsumerPcs
      BY DataTypes DEF Callers
    <2>2. consumer[c].pc \in {"empty", "clear"} =>
             consumer[c].entry \in Live /\ BlockOf(consumer[c].entry) = consumer[c].block
      BY DEF ElementsOK, Emptying, AtEmpty, AtClear, At
    <2>3. consumer[c].pc = "release" => uses[consumer[c].block] = 1
      BY DEF ElementsOK, Emptying, AtRelease, At
    <2>. QED  BY <2>1, <2>2, <2>3 DEF LiveEntries
  <1>. QED  BY <1>1, <1>2, <1>3, <1>4, <1>5, <1>6, <1>7, <1>8 DEF TypeOK

\* Every index points to an entry that there is, every entry and every consumer on its
\* way out to a block in use, and the counters keep to their ranges, for any number of
\* consumers and blocks (concurrentqueue.h:2410-2542, 2816-2918).
THEOREM TypeCorrect ==
    ASSUME Sizes, MaxEnqueues \in Nat
    PROVE  Spec => []TypeOK
  <1>1. Init => Bounded
    BY DEF Init, Bounded, IdleProducer, Sizes
  <1>2. QueueOK /\ QueueOK' /\ Bounded /\ [Next]_vars => Bounded'
    BY NextBounded
  <1>3. IInv /\ QueueOK /\ Bounded => TypeOK
    BY InvariantTypes
  <1>. QED  BY <1>1, <1>2, <1>3, QueueInductive, PTL DEF Spec
=============================================================================

-------------------------- MODULE TimerQueueProofs --------------------------
(***************************************************************************)
(* Timers run once and in order, proved for any timers, intervals and      *)
(* length of time.                                                         *)
(***************************************************************************)
EXTENDS TimerQueue, SequenceTheorems, TLAPS

-----------------------------------------------------------------------------
(* Sequences.                                                              *)

\* r is s with e at position i: those before it stay where they are, the others move
\* by one.
Inserted(S, r, s, i, e) ==
    /\ r \in Seq(S)
    /\ Len(r) = Len(s) + 1
    /\ r[i] = e
    /\ \A k \in 1..Len(s) : /\ k < i => r[k] = s[k]
                            /\ k >= i => r[k + 1] = s[k]

\* What InsertAt returns.
LEMMA InsertAtFacts ==
    ASSUME NEW S, NEW s \in Seq(S), NEW e \in S, NEW n \in Nat, n = Len(s), NEW i \in 1..n + 1
    PROVE  Inserted(S, InsertAt(s, i, e), s, i, e)
  <1>1. \A k \in 1..n : s[k] \in S
    BY ElementOfSeq
  <1>2. PICK x \in Seq(S) : /\ x = SubSeq(s, 1, i - 1) /\ Len(x) = i - 1
                            /\ \A k \in 1..i - 1 : x[k] = s[k]
    <2>1. \A k \in 1..i - 1 : s[k] \in S
      BY <1>1
    <2>2. /\ SubSeq(s, 1, i - 1) \in Seq(S)
          /\ Len(SubSeq(s, 1, i - 1)) = IF 1 <= i - 1 THEN i - 1 - 1 + 1 ELSE 0
          /\ \A k \in 1..i - 1 - 1 + 1 : SubSeq(s, 1, i - 1)[k] = s[1 + k - 1]
      BY <2>1, SubSeqProperties
    <2>3. Len(SubSeq(s, 1, i - 1)) = i - 1 /\ \A k \in 1..i - 1 : SubSeq(s, 1, i - 1)[k] = s[k]
      BY <2>2
    <2>. QED  BY <2>2, <2>3
  <1>3. PICK z \in Seq(S) : /\ z = SubSeq(s, i, n) /\ Len(z) = n - i + 1
                            /\ \A k \in 1..n - i + 1 : z[k] = s[i + k - 1]
    <2>1. \A k \in i..n : s[k] \in S
      BY <1>1
    <2>2. /\ SubSeq(s, i, n) \in Seq(S)
          /\ Len(SubSeq(s, i, n)) = IF i <= n THEN n - i + 1 ELSE 0
          /\ \A k \in 1..n - i + 1 : SubSeq(s, i, n)[k] = s[i + k - 1]
      BY <2>1, SubSeqProperties
    <2>3. Len(SubSeq(s, i, n)) = n - i + 1
      BY <2>2
    <2>. QED  BY <2>2, <2>3
  <1>4. <<e>> \in Seq(S) /\ Len(<<e>>) = 1 /\ <<e>>[1] = e
    OBVIOUS
  <1>5. PICK y \in Seq(S) : /\ y = x \o <<e>> /\ Len(y) = i
                            /\ \A k \in 1..i : y[k] = IF k <= i - 1 THEN x[k] ELSE e
    <2>1. /\ x \o <<e>> \in Seq(S) /\ Len(x \o <<e>>) = Len(x) + Len(<<e>>)
          /\ \A k \in 1..Len(x) + Len(<<e>>) :
                (x \o <<e>>)[k] = IF k <= Len(x) THEN x[k] ELSE <<e>>[k - Len(x)]
      BY <1>4, ConcatProperties
    <2>2. Len(x \o <<e>>) = i
      BY <1>2, <1>4, <2>1
    <2>3. ASSUME NEW k \in 1..i PROVE (x \o <<e>>)[k] = IF k <= i - 1 THEN x[k] ELSE e
      <3>1. (x \o <<e>>)[k] = IF k <= i - 1 THEN x[k] ELSE <<e>>[k - (i - 1)]
        BY <1>2, <1>4, <2>1
      <3>2. k <= i - 1 \/ k - (i - 1) = 1
        OBVIOUS
      <3>. QED  BY <1>4, <3>1, <3>2
    <2>. QED  BY <2>1, <2>2, <2>3
  <1>6. PICK r \in Seq(S) : /\ r = InsertAt(s, i, e) /\ Len(r) = n + 1
                            /\ \A k \in 1..n + 1 : r[k] = IF k <= i THEN y[k] ELSE z[k - i]
    <2>1. /\ y \o z \in Seq(S) /\ Len(y \o z) = Len(y) + Len(z)
          /\ \A k \in 1..Len(y) + Len(z) : (y \o z)[k] = IF k <= Len(y) THEN y[k] ELSE z[k - Len(y)]
      BY ConcatProperties
    <2>2. Len(y) + Len(z) = n + 1
      <3>1. Len(y) = i /\ Len(z) = n - i + 1
        BY <1>3, <1>5, Zenon
      <3>. QED  BY <3>1
    <2>3. InsertAt(s, i, e) = y \o z
      BY <1>2, <1>3, <1>5 DEF InsertAt
    <2>4. \A k \in 1..n + 1 : (y \o z)[k] = IF k <= i THEN y[k] ELSE z[k - i]
      BY <1>5, <2>1, <2>2
    <2>. QED  BY ONLY <2>1, <2>2, <2>3, <2>4
  <1>7. r[i] = e
    BY <1>5, <1>6
  <1>8. ASSUME NEW k \in 1..n
        PROVE  (k < i => r[k] = s[k]) /\ (k >= i => r[k + 1] = s[k])
    <2>1. ASSUME k < i PROVE r[k] = s[k]
      <3>1. r[k] = y[k] /\ y[k] = x[k]
        BY <1>5, <1>6, <2>1
      <3>. QED  BY <1>2, <2>1, <3>1
    <2>2. ASSUME k >= i PROVE r[k + 1] = s[k]
      <3>1. PICK l \in 1..n - i + 1 : l = k + 1 - i /\ i + l - 1 = k
        BY <2>2
      <3>2. k + 1 \in 1..n + 1 /\ ~(k + 1 <= i)
        BY <2>2
      <3>3. r[k + 1] = z[l]
        BY <1>6, <3>1, <3>2
      <3>. QED  BY <1>3, <3>1, <3>3
    <2>. QED  BY <2>1, <2>2
  <1>. QED  BY <1>6, <1>7, <1>8 DEF Inserted

-----------------------------------------------------------------------------
(* The inductive invariant.  The timerfd has no part in it: whenever it    *)
(* fires, what is run depends on the heap and the clock alone.             *)

Types == /\ clock \in Nat /\ now \in Nat /\ now <= clock
         /\ Added \subseteq Timers /\ when_ \in [Added -> Nat]
         /\ timer_queue_ \in Seq(Timers) /\ ran \in Seq(Timers)
         /\ phase \in {"idle", "reported", "loop", "call"}

\* The heap holds each timer once, the earlier ones first.
HeapOrdered ==
    /\ \A i \in 1..Len(timer_queue_) : timer_queue_[i] \in Added
    /\ \A i, j \in 1..Len(timer_queue_) :
          i < j => /\ timer_queue_[i] # timer_queue_[j]
                   /\ Expiry(timer_queue_[i]) <= Expiry(timer_queue_[j])

\* What has run is over, in order, and was due before all that is in the heap.
RanOrdered ==
    /\ \A i \in 1..Len(ran) : ran[i] \in Added /\ Expiry(ran[i]) <= clock
    /\ \A i, j \in 1..Len(ran) : i < j => /\ ran[i] # ran[j]
                                          /\ Expiry(ran[i]) <= Expiry(ran[j])
    /\ \A i \in 1..Len(ran), j \in 1..Len(timer_queue_) :
          Expiry(ran[i]) <= Expiry(timer_queue_[j])

\* A timer that was added has run or is in the heap; the one that is being run is
\* both, and on top: no timer added by its callback can be due before it.
RanOrWaiting ==
    /\ \A t \in Added : \/ \E i \in 1..Len(ran) : ran[i] = t
                        \/ \E j \in 1..Len(timer_queue_) : timer_queue_[j] = t
    /\ \A i \in 1..Len(ran), j \in 1..Len(timer_queue_) :
          ran[i] = timer_queue_[j] => phase = "call" /\ j = 1
    /\ phase = "call" => /\ timer_queue_ # <<>>
                         /\ \E i \in 1..Len(ran) : ran[i] = timer_queue_[1]
                         /\ Expiry(timer_queue_[1]) < now

IInv == Types /\ HeapOrdered /\ RanOrdered /\ RanOrWaiting

\* The heap is empty and nothing has run at first.
LEMMA InitIInv == Init => IInv
  <1>. SUFFICES ASSUME Init PROVE IInv
    OBVIOUS
  <1>1. Types
    BY DEF Init, Types, Added
  <1>2. HeapOrdered /\ RanOrdered /\ RanOrWaiting
    BY DEF Init, HeapOrdered, RanOrdered, RanOrWaiting, Added
  <1>. QED  BY <1>1, <1>2 DEF IInv

\* The clock, the polls and the reads of the clock change neither the heap nor what
\* has run.
LEMMA OthersKeep ==
    ASSUME IInv, Tick \/ PollReports \/ HandelTimerExpired \/ Finish \/ UNCHANGED vars
    PROVE  IInv'
  <1>0. Types /\ HeapOrdered /\ RanOrdered /\ RanOrWaiting
    BY DEF IInv
  <1>1. UNCHANGED <<timer_queue_, when_, ran>>
    BY DEF Tick, PollReports, HandelTimerExpired, Finish, vars
  <1>2. /\ clock' \in Nat /\ clock <= clock' /\ now' \in Nat /\ now' <= clock'
        /\ phase' \in {"idle", "reported", "loop", "call"}
    BY <1>0, MaxTimeAssumption DEF Types, Tick, PollReports, HandelTimerExpired, Finish, vars
  <1>3. (phase = "call" <=> phase' = "call") /\ (phase' = "call" => now' = now)
    BY DEF Tick, PollReports, HandelTimerExpired, Finish, vars
  <1>4. Types'
    BY <1>0, <1>1, <1>2 DEF Types, Added
  <1>5. HeapOrdered'
    BY <1>0, <1>1 DEF HeapOrdered, Added, Expiry
  <1>6. RanOrdered'
    <2>1. ASSUME NEW i \in 1..Len(ran) PROVE Expiry(ran[i]) <= clock'
      <3>1. ran[i] \in Added /\ Expiry(ran[i]) <= clock
        BY <1>0 DEF RanOrdered
      <3>2. Expiry(ran[i]) \in Nat
        BY <1>0, <3>1 DEF Types, Expiry
      <3>. QED  BY <1>0, <1>2, <3>1, <3>2 DEF Types
    <2>. QED  BY <1>0, <1>1, <2>1 DEF RanOrdered, Added, Expiry
  <1>7. RanOrWaiting'
    BY <1>0, <1>1, <1>3 DEF RanOrWaiting, Added, Expiry
  <1>. QED  BY <1>4, <1>5, <1>6, <1>7 DEF IInv

\* Run appends the first timer of the heap, which is due and none of those that ran.
LEMMA RunKeeps ==
    ASSUME IInv, Run
    PROVE  IInv'
  <1>0. Types /\ HeapOrdered /\ RanOrdered /\ RanOrWaiting
    BY DEF IInv
  <1>1. /\ timer_queue_ \in Seq(Timers) /\ ran \in Seq(Timers) /\ timer_queue_ # <<>>
        /\ phase = "loop"
    BY <1>0 DEF Types, Run, IsDue
  <1>2. PICK n \in Nat : n = Len(timer_queue_) /\ 1 \in 1..n
    BY <1>1, LenProperties, EmptySeq
  <1>3. PICK m \in Nat : m = Len(ran)
    BY <1>1, LenProperties
  <1>4. PICK t \in Timers : t = timer_queue_[1] /\ t = Top /\ t \in Added
    BY <1>0, <1>1, <1>2 DEF HeapOrdered, Top, Types
  <1>5. /\ ran' \in Seq(Timers) /\ Len(ran') = m + 1
        /\ \A i \in 1..m : ran'[i] = ran[i]
        /\ ran'[m + 1] = t
    BY <1>1, <1>3, <1>4, AppendProperties DEF Run
  <1>6. /\ UNCHANGED <<timer_queue_, when_, clock, now>> /\ phase' = "call" /\ Expiry(t) < now
        /\ Expiry(t) \in Nat
    BY <1>0, <1>4 DEF Run, IsDue, Types, Expiry
  <1>7. Types'
    BY <1>0, <1>5, <1>6 DEF Types, Added
  <1>8. HeapOrdered'
    BY <1>0, <1>6 DEF HeapOrdered, Added, Expiry
  <1>9. ASSUME NEW i \in 1..m
        PROVE  /\ ran[i] \in Added /\ Expiry(ran[i]) <= clock /\ Expiry(ran[i]) <= Expiry(t)
               /\ \A j \in 1..n : ran[i] # timer_queue_[j] /\ Expiry(ran[i]) <= Expiry(timer_queue_[j])
    BY <1>0, <1>1, <1>2, <1>3, <1>4 DEF RanOrdered, RanOrWaiting
  <1>10. ASSUME NEW j \in 1..n
         PROVE  /\ Expiry(t) <= Expiry(timer_queue_[j])
                /\ t = timer_queue_[j] => j = 1
    <2>1. CASE j = 1
      <3>1. timer_queue_[j] = t
        BY <1>4, <2>1
      <3>. QED  BY <1>6, <2>1, <3>1
    <2>2. CASE j # 1
      <3>1. 1 < j
        BY <2>2
      <3>. QED  BY <1>0, <1>2, <1>4, <2>2, <3>1 DEF HeapOrdered
    <2>. QED  BY <2>1, <2>2
  <1>11. Expiry(t) <= clock
    BY <1>0, <1>6 DEF Types
  <1>12. ASSUME NEW i \in 1..m + 1
         PROVE  (i \in 1..m /\ ran'[i] = ran[i]) \/ (i = m + 1 /\ ran'[i] = t)
    BY <1>5
  <1>13. RanOrdered'
    <2>1. ASSUME NEW i \in 1..m + 1 PROVE ran'[i] \in Added /\ Expiry(ran'[i]) <= clock
      BY <1>4, <1>9, <1>11, <1>12
    <2>2. ASSUME NEW i \in 1..m + 1, NEW j \in 1..m + 1, i < j
          PROVE  ran'[i] # ran'[j] /\ Expiry(ran'[i]) <= Expiry(ran'[j])
      <3>1. i \in 1..m /\ ran'[i] = ran[i]
        BY <1>5, <2>2
      <3>2. CASE j \in 1..m
        <4>1. ran'[j] = ran[j]
          BY <1>5, <3>2
        <4>. QED  BY <1>0, <1>3, <2>2, <3>1, <3>2, <4>1 DEF RanOrdered
      <3>3. CASE ran'[j] = t
        <4>1. ran[i] # timer_queue_[1]
          BY <1>2, <1>9, <3>1
        <4>. QED  BY <1>4, <1>9, <3>1, <3>3, <4>1
      <3>. QED  BY <1>12, <3>2, <3>3
    <2>3. ASSUME NEW i \in 1..m + 1, NEW j \in 1..n
          PROVE  Expiry(ran'[i]) <= Expiry(timer_queue_[j])
      <3>1. CASE i \in 1..m /\ ran'[i] = ran[i]
        BY <1>9, <3>1
      <3>2. CASE ran'[i] = t
        BY <1>10, <3>2
      <3>. QED  BY <1>12, <3>1, <3>2
    <2>. QED  BY <1>2, <1>5, <1>6, <2>1, <2>2, <2>3 DEF RanOrdered, Added, Expiry
  <1>14. RanOrWaiting'
    <2>1. ASSUME NEW x \in Added
          PROVE  \/ \E i \in 1..m + 1 : ran'[i] = x
                 \/ \E j \in 1..n : timer_queue_[j] = x
      <3>1. CASE \E i \in 1..m : ran[i] = x
        <4>1. PICK i \in 1..m : ran[i] = x
          BY <3>1
        <4>2. i \in 1..m + 1 /\ ran'[i] = x
          BY <1>5, <4>1
        <4>. QED  BY <4>2
      <3>. QED  BY <1>0, <1>2, <1>3, <3>1 DEF RanOrWaiting
    <2>2. ASSUME NEW i \in 1..m + 1, NEW j \in 1..n, ran'[i] = timer_queue_[j]
          PROVE  j = 1
      <3>1. CASE i \in 1..m /\ ran'[i] = ran[i]
        BY <1>9, <2>2, <3>1
      <3>2. CASE ran'[i] = t
        BY <1>10, <2>2, <3>2
      <3>. QED  BY <1>12, <3>1, <3>2
    <2>3. \E i \in 1..m + 1 : ran'[i] = timer_queue_[1]
      BY <1>4, <1>5
    <2>4. Expiry(timer_queue_[1]) < now
      BY <1>4, <1>6
    <2>. QED  BY <1>1, <1>2, <1>5, <1>6, <2>1, <2>2, <2>3, <2>4 DEF RanOrWaiting, Added, Expiry
  <1>. QED  BY <1>7, <1>8, <1>13, <1>14 DEF IInv

\* RunReturn takes the timer that was run off the heap: it is on top still.
LEMMA RunReturnKeeps ==
    ASSUME IInv, RunReturn
    PROVE  IInv'
  <1>0. Types /\ HeapOrdered /\ RanOrdered /\ RanOrWaiting
    BY DEF IInv
  <1>1. /\ timer_queue_ \in Seq(Timers) /\ ran \in Seq(Timers) /\ timer_queue_ # <<>>
        /\ phase = "call"
    BY <1>0 DEF Types, RunReturn, RanOrWaiting
  <1>2. PICK n \in Nat : n + 1 = Len(timer_queue_) /\ 1 \in 1..n + 1
    <2>1. Len(timer_queue_) \in Nat /\ Len(timer_queue_) # 0
      BY <1>1, LenProperties, EmptySeq
    <2>. QED  BY <2>1
  <1>3. PICK m \in Nat : m = Len(ran)
    BY <1>1, LenProperties
  <1>4. /\ timer_queue_' \in Seq(Timers) /\ Len(timer_queue_') = n
        /\ \A j \in 1..n : timer_queue_'[j] = timer_queue_[j + 1]
    BY <1>1, <1>2, HeadTailProperties DEF RunReturn, Pop
  <1>5. UNCHANGED <<when_, clock, now, ran>> /\ phase' = "loop"
    BY DEF RunReturn
  <1>6. Types'
    BY <1>0, <1>4, <1>5 DEF Types, Added
  <1>7. ASSUME NEW j \in 1..n PROVE j + 1 \in 1..n + 1 /\ j + 1 # 1 /\ timer_queue_'[j] = timer_queue_[j + 1]
    BY <1>4
  <1>8. HeapOrdered'
    <2>1. ASSUME NEW j \in 1..n PROVE timer_queue_'[j] \in Added
      BY <1>0, <1>2, <1>7 DEF HeapOrdered
    <2>2. ASSUME NEW i \in 1..n, NEW j \in 1..n, i < j
          PROVE  /\ timer_queue_'[i] # timer_queue_'[j]
                 /\ Expiry(timer_queue_'[i]) <= Expiry(timer_queue_'[j])
      <3>1. i + 1 < j + 1
        BY <2>2
      <3>. QED  BY <1>0, <1>2, <1>7, <3>1 DEF HeapOrdered
    <2>. QED  BY <1>4, <1>5, <2>1, <2>2 DEF HeapOrdered, Added, Expiry
  <1>9. RanOrdered'
    <2>1. ASSUME NEW i \in 1..m, NEW j \in 1..n
          PROVE  Expiry(ran[i]) <= Expiry(timer_queue_'[j])
      BY <1>0, <1>2, <1>3, <1>7 DEF RanOrdered
    <2>. QED  BY <1>0, <1>3, <1>4, <1>5, <2>1 DEF RanOrdered, Added, Expiry
  <1>10. RanOrWaiting'
    <2>1. ASSUME NEW x \in Added
          PROVE  \/ \E i \in 1..m : ran[i] = x
                 \/ \E j \in 1..n : timer_queue_'[j] = x
      <3>1. CASE \E j \in 1..n + 1 : timer_queue_[j] = x
        <4>1. PICK j \in 1..n + 1 : timer_queue_[j] = x
          BY <3>1
        <4>2. CASE j = 1
          BY <1>0, <1>1, <1>3, <4>1, <4>2 DEF RanOrWaiting
        <4>3. CASE j # 1
          <5>1. PICK k \in 1..n : k + 1 = j
            BY <4>3
          <5>. QED  BY <1>4, <4>1, <5>1
        <4>. QED  BY <4>2, <4>3
      <3>. QED  BY <1>0, <1>2, <1>3, <3>1 DEF RanOrWaiting
    <2>2. ASSUME NEW i \in 1..m, NEW j \in 1..n PROVE ran[i] # timer_queue_'[j]
      BY <1>0, <1>2, <1>3, <1>7 DEF RanOrWaiting
    <2>. QED  BY <1>3, <1>4, <1>5, <2>1, <2>2 DEF RanOrWaiting, Added
  <1>. QED  BY <1>6, <1>8, <1>9, <1>10 DEF IInv

\* AddTimer puts a timer in its place in the heap, behind all that has run, since it
\* expires now or later; and not on top of the timer whose callback adds it.
LEMMA AddTimerKeeps ==
    ASSUME IInv, NEW t \in Timers, NEW interval \in Intervals, AddTimer(t, interval)
    PROVE  IInv'
  <1>0. Types /\ HeapOrdered /\ RanOrdered /\ RanOrWaiting
    BY DEF IInv
  <1>1. /\ timer_queue_ \in Seq(Timers) /\ ran \in Seq(Timers) /\ clock \in Nat /\ now \in Nat
        /\ now <= clock /\ t \notin Added
    BY <1>0 DEF Types, AddTimer
  <1>2. PICK n \in Nat : n = Len(timer_queue_)
    BY <1>1, LenProperties
  <1>3. PICK m \in Nat : m = Len(ran)
    BY <1>1, LenProperties
  <1>4. PICK when \in Nat : when = clock + interval /\ clock <= when
    BY <1>1, IntervalsAssumption
  <1>5. when_' = [x \in Added \cup {t} |-> IF x = t THEN when ELSE when_[x]] /\ Push(t, when)
    BY <1>4 DEF AddTimer
  <1>6. /\ UNCHANGED <<phase, now, ran>> /\ clock' \in Nat /\ clock <= clock'
    BY <1>1, MaxTimeAssumption DEF AddTimer
  <1>7. /\ Added' = Added \cup {t} /\ Expiry(t)' = when
        /\ \A x \in Added : when_'[x] = when_[x]
    BY <1>1, <1>5 DEF Added, Expiry
  <1>8. \A x \in Added : when_[x] \in Nat
    BY <1>0 DEF Types
  <1>9. PICK i \in 1..n + 1 :
           /\ \A j \in 1..i - 1 : when_[timer_queue_[j]] <= when
           /\ \A j \in i..n : when <= when_[timer_queue_[j]]
           /\ i = 1 /\ timer_queue_ # <<>> => when < when_[timer_queue_[1]]
           /\ timer_queue_' = InsertAt(timer_queue_, i, t)
    BY <1>1, <1>2, <1>5 DEF Push, Expiry, Top
  <1>10. PICK q \in Seq(Timers) :
            /\ q = timer_queue_' /\ Len(q) = n + 1 /\ q[i] = t
            /\ \A k \in 1..n : /\ k < i => q[k] = timer_queue_[k]
                               /\ k >= i => q[k + 1] = timer_queue_[k]
    <2>1. timer_queue_ \in Seq(Timers) /\ t \in Timers /\ n = Len(timer_queue_)
      BY <1>1, <1>2
    <2>2. Inserted(Timers, InsertAt(timer_queue_, i, t), timer_queue_, i, t)
      BY ONLY <2>1, n \in Nat, i \in 1..n + 1, InsertAtFacts
    <2>3. Inserted(Timers, timer_queue_', timer_queue_, i, t)
      BY <1>9, <2>2
    <2>. QED  BY ONLY <2>1, <2>3 DEF Inserted
  <1>11. ASSUME NEW j \in 1..n + 1, j # i
         PROVE  \E k \in 1..n : /\ q[j] = timer_queue_[k]
                                /\ (k < i /\ j = k) \/ (k >= i /\ j = k + 1)
    <2>1. CASE j < i
      BY <1>10, <2>1
    <2>2. CASE j > i
      <3>1. PICK k \in 1..n : k >= i /\ j = k + 1
        BY <2>2
      <3>. QED  BY <1>10, <3>1
    <2>. QED  BY <1>11, <2>1, <2>2
  <1>12. ASSUME NEW k \in 1..n
         PROVE  /\ timer_queue_[k] \in Added /\ timer_queue_[k] # t
                /\ when_'[timer_queue_[k]] = when_[timer_queue_[k]]
                /\ when_[timer_queue_[k]] \in Nat
                /\ k < i => when_[timer_queue_[k]] <= when
                /\ k >= i => when <= when_[timer_queue_[k]]
    <2>1. timer_queue_[k] \in Added
      BY <1>0, <1>2 DEF HeapOrdered
    <2>2. (k < i => k \in 1..i - 1) /\ (k >= i => k \in i..n)
      OBVIOUS
    <2>. QED  BY <1>1, <1>7, <1>8, <1>9, <2>1, <2>2
  <1>13. ASSUME NEW l \in 1..m
         PROVE  /\ ran[l] \in Added /\ ran[l] # t
                /\ when_'[ran[l]] = when_[ran[l]] /\ when_[ran[l]] \in Nat
                /\ when_[ran[l]] <= clock /\ when_[ran[l]] <= when
    <2>1. ran[l] \in Added /\ when_[ran[l]] <= clock
      BY <1>0, <1>3 DEF RanOrdered, Expiry
    <2>. QED  BY <1>1, <1>4, <1>7, <1>8, <2>1
  <1>14. Types'
    <2>1. when_' \in [Added' -> Nat] /\ Added' \subseteq Timers
      BY <1>0, <1>5, <1>7 DEF Types
    <2>. QED  BY <1>0, <1>1, <1>6, <1>10, <2>1 DEF Types
  <1>15. HeapOrdered'
    <2>1. ASSUME NEW j \in 1..n + 1 PROVE q[j] \in Added'
      BY <1>7, <1>10, <1>11, <1>12
    <2>2. ASSUME NEW j \in 1..n + 1, NEW l \in 1..n + 1, j < l
          PROVE  q[j] # q[l] /\ when_'[q[j]] <= when_'[q[l]]
      <3>1. CASE j = i
        <4>1. PICK k \in 1..n : q[l] = timer_queue_[k] /\ k >= i
          BY <1>11, <2>2, <3>1
        <4>. QED  BY <1>7, <1>10, <1>12, <3>1, <4>1, ZenonT(60) DEF Expiry
      <3>2. CASE l = i
        <4>1. PICK k \in 1..n : q[j] = timer_queue_[k] /\ k < i
          BY <1>11, <2>2, <3>2
        <4>. QED  BY <1>7, <1>10, <1>12, <3>2, <4>1 DEF Expiry
      <3>3. CASE j # i /\ l # i
        <4>1. PICK k \in 1..n : q[j] = timer_queue_[k] /\ ((k < i /\ j = k) \/ (k >= i /\ j = k + 1))
          BY <1>11, <3>3
        <4>2. PICK o \in 1..n : q[l] = timer_queue_[o] /\ ((o < i /\ l = o) \/ (o >= i /\ l = o + 1))
          BY <1>11, <3>3
        <4>3. k < o
          BY <2>2, <4>1, <4>2
        <4>4. /\ timer_queue_[k] # timer_queue_[o]
              /\ when_[timer_queue_[k]] <= when_[timer_queue_[o]]
          BY <1>0, <1>2, <4>3 DEF HeapOrdered, Expiry
        <4>. QED  BY <1>12, <4>1, <4>2, <4>4
      <3>. QED  BY <3>1, <3>2, <3>3
    <2>. QED  BY <1>10, <2>1, <2>2 DEF HeapOrdered, Expiry
  <1>16. RanOrdered'
    <2>1. ASSUME NEW l \in 1..m PROVE ran[l] \in Added' /\ when_'[ran[l]] <= clock'
      BY <1>1, <1>6, <1>7, <1>13
    <2>2. ASSUME NEW l \in 1..m, NEW o \in 1..m, l < o
          PROVE  ran[l] # ran[o] /\ when_'[ran[l]] <= when_'[ran[o]]
      <3>1. ran[l] # ran[o] /\ when_[ran[l]] <= when_[ran[o]]
        BY <1>0, <1>3, <2>2 DEF RanOrdered, Expiry
      <3>. QED  BY <1>13, <3>1
    <2>3. ASSUME NEW l \in 1..m, NEW j \in 1..n + 1
          PROVE  when_'[ran[l]] <= when_'[q[j]]
      <3>1. CASE j = i
        BY <1>7, <1>10, <1>13, <3>1 DEF Expiry
      <3>2. CASE j # i
        <4>1. PICK k \in 1..n : q[j] = timer_queue_[k]
          BY <1>11, <3>2
        <4>2. when_[ran[l]] <= when_[timer_queue_[k]]
          BY <1>0, <1>2, <1>3 DEF RanOrdered, Expiry
        <4>. QED  BY <1>12, <1>13, <4>1, <4>2
      <3>. QED  BY <3>1, <3>2
    <2>. QED  BY <1>3, <1>6, <1>10, <2>1, <2>2, <2>3 DEF RanOrdered, Expiry
  <1>17. RanOrWaiting'
    <2>1. ASSUME NEW x \in Added'
          PROVE  \/ \E l \in 1..m : ran[l] = x
                 \/ \E j \in 1..n + 1 : q[j] = x
      <3>1. CASE x = t
        BY <1>10, <3>1
      <3>2. CASE x \in Added /\ \E k \in 1..n : timer_queue_[k] = x
        <4>1. PICK k \in 1..n : timer_queue_[k] = x
          BY <3>2
        <4>2. (k < i => k \in 1..n + 1 /\ q[k] = x) /\ (k >= i => k + 1 \in 1..n + 1 /\ q[k + 1] = x)
          BY <1>10, <4>1
        <4>. QED  BY <4>2
      <3>. QED  BY <1>0, <1>2, <1>3, <1>7, <3>1, <3>2 DEF RanOrWaiting
    <2>2. phase = "call" => /\ 1 # i /\ q[1] = timer_queue_[1]
                            /\ 1 \in 1..n /\ when_[timer_queue_[1]] < now
                            /\ \E l \in 1..m : ran[l] = timer_queue_[1]
      <3>. SUFFICES ASSUME phase = "call"
                    PROVE  /\ 1 # i /\ q[1] = timer_queue_[1]
                           /\ 1 \in 1..n /\ when_[timer_queue_[1]] < now
                           /\ \E l \in 1..m : ran[l] = timer_queue_[1]
        OBVIOUS
      <3>1. /\ timer_queue_ # <<>> /\ when_[timer_queue_[1]] < now
            /\ \E l \in 1..m : ran[l] = timer_queue_[1]
        BY <1>0, <1>3 DEF RanOrWaiting, Expiry
      <3>2. 1 \in 1..n
        BY <1>1, <1>2, <3>1, EmptySeq
      <3>3. 1 # i
        BY <1>1, <1>4, <1>9, <1>12, <3>1, <3>2
      <3>4. q[1] = timer_queue_[1]
        BY <1>10, <3>2, <3>3
      <3>. QED  BY <3>1, <3>2, <3>3, <3>4
    <2>3. ASSUME NEW l \in 1..m, NEW j \in 1..n + 1, ran[l] = q[j]
          PROVE  phase = "call" /\ j = 1
      <3>1. j # i
        BY <1>10, <1>13, <2>3
      <3>2. PICK k \in 1..n : q[j] = timer_queue_[k] /\ ((k < i /\ j = k) \/ (k >= i /\ j = k + 1))
        BY <1>11, <3>1
      <3>3. phase = "call" /\ k = 1
        BY <1>0, <1>2, <1>3, <2>3, <3>2 DEF RanOrWaiting
      <3>. QED  BY <2>2, <3>2, <3>3
    <2>4. q # <<>>
      BY <1>10
    <2>. QED  BY <1>3, <1>6, <1>7, <1>10, <1>12, <2>1, <2>2, <2>3, <2>4 DEF RanOrWaiting, Expiry
  <1>. QED  BY <1>14, <1>15, <1>16, <1>17 DEF IInv

-----------------------------------------------------------------------------
(* The theorems.                                                           *)

\* Every step keeps the invariant.
LEMMA NextIInv == IInv /\ [Next]_vars => IInv'
  <1>. SUFFICES ASSUME IInv, [Next]_vars PROVE IInv'
    OBVIOUS
  <1>1. ASSUME NEW t \in Timers, NEW interval \in Intervals, AddTimer(t, interval) PROVE IInv'
    BY <1>1, AddTimerKeeps
  <1>2. CASE Run
    BY <1>2, RunKeeps
  <1>3. CASE RunReturn
    BY <1>3, RunReturnKeeps
  <1>4. CASE Tick \/ PollReports \/ HandelTimerExpired \/ Finish \/ UNCHANGED vars
    BY <1>4, OthersKeep
  <1>. QED  BY <1>1, <1>2, <1>3, <1>4 DEF Next, Handler

\* The invariant holds of every reachable state.
LEMMA InvariantIInv == Spec => []IInv
  BY InitIInv, NextIInv, PTL DEF Spec

\* What has left the heap is what has run, except for the timer whose callback runs.
LEMMA IInvRunsOnce == IInv => EachRunsOnce
  <1>. SUFFICES ASSUME IInv PROVE EachRunsOnce
    OBVIOUS
  <1>0. Types /\ HeapOrdered /\ RanOrdered /\ RanOrWaiting
    BY DEF IInv
  <1>1. PICK m \in Nat : m = Len(ran) /\ DOMAIN ran = 1..m
    BY <1>0, LenProperties DEF Types
  <1>2. PICK n \in Nat : n = Len(timer_queue_) /\ DOMAIN timer_queue_ = 1..n
    BY <1>0, LenProperties DEF Types
  <1>3. IsInjective(ran)
    <2>. SUFFICES ASSUME NEW i \in 1..m, NEW j \in 1..m, ran[i] = ran[j] PROVE i = j
      BY <1>1 DEF IsInjective
    <2>1. ~(i < j) /\ ~(j < i)
      BY <1>0, <1>1 DEF RanOrdered
    <2>. QED  BY <2>1
  <1>4. ASSUME NEW x
        PROVE  x \in Range(ran) <=> x \in (Added \ Range(timer_queue_))
                                         \cup (IF phase = "call" THEN {Top} ELSE {})
    <2>1. x \in Range(ran) <=> \E i \in 1..m : ran[i] = x
      BY <1>1 DEF Range
    <2>2. x \in Range(timer_queue_) <=> \E j \in 1..n : timer_queue_[j] = x
      BY <1>2 DEF Range
    <2>3. CASE phase = "call"
      <3>1. Top = timer_queue_[1] /\ \E i \in 1..m : ran[i] = timer_queue_[1]
        BY <1>0, <1>1, <2>3 DEF RanOrWaiting, Types, Top
      <3>2. ASSUME x # Top PROVE x \in Range(ran) <=> x \in Added \ Range(timer_queue_)
        BY <1>0, <1>1, <1>2, <2>1, <2>2, <3>1, <3>2 DEF RanOrWaiting, RanOrdered
      <3>. QED  BY <2>1, <2>3, <3>1, <3>2
    <2>4. CASE phase # "call"
      <3>1. x \in Range(ran) <=> x \in Added \ Range(timer_queue_)
        BY <1>0, <1>1, <1>2, <2>1, <2>2, <2>4 DEF RanOrWaiting, RanOrdered
      <3>. QED  BY <2>4, <3>1
    <2>. QED  BY <2>3, <2>4
  <1>. QED  BY <1>3, <1>4 DEF EachRunsOnce

\* Every timer that runs runs once, in the order of the expiries and not before its
\* own, whatever callbacks add and however long they take (timerqueue.cpp:27-75).
THEOREM TimersRunOnceInOrder == Spec => []RunOnceInOrder
  <1>1. IInv => RunInOrder
    <2>. SUFFICES ASSUME IInv PROVE RunInOrder
      OBVIOUS
    <2>1. RanOrdered /\ DOMAIN ran = 1..Len(ran)
      BY LenProperties DEF IInv, Types
    <2>. QED  BY <2>1 DEF RanOrdered, RunInOrder
  <1>2. IInv => RunOnceInOrder
    BY <1>1, IInvRunsOnce DEF RunOnceInOrder
  <1>. QED  BY <1>2, InvariantIInv, PTL
=============================================================================

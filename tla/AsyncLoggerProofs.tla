------------------------- MODULE AsyncLoggerProofs -------------------------
(***************************************************************************)
(* The circulation of the log's buffers proved correct for any capacity,   *)
(* any drop limit of at least two and any number of messages.              *)
(*                                                                         *)
(* EnoughBuffers holds because the two sides hand buffers to each other in *)
(* a fixed rhythm: whenever the backend is not writing it owns its two     *)
(* spare buffers, and the front lacks its next buffer only after it has    *)
(* handed a full one over, which the backend then takes back.  Circulation *)
(* states that rhythm.                                                     *)
(*                                                                         *)
(* The log with its file is a log: each of its steps is a step of          *)
(* AsyncLogger or leaves it alone, so that what is proved of that holds of *)
(* it.  And whatever is written in a round reaches the disk by the end of  *)
(* the round, unless the disk was full: FileInv adds to RoundsAreFlushed   *)
(* that a disk is full only after it has filled up and that the thread     *)
(* closes the file on its way out.                                         *)
(***************************************************************************)
EXTENDS LogFile, TLAPS

Circulation ==
    /\ cur_buffer_ # Null
    /\ next_buffer_ = Null => buffers_ # <<>>
    /\ pc # "write" => /\ back_buffer_1 # Null
                       /\ back_buffer_2 # Null
                       /\ buffers_to_write = <<>>
    /\ pc = "write" => /\ back_buffer_1 = Null
                       /\ Len(buffers_to_write) >= 1
                       /\ back_buffer_2 = Null => Len(buffers_to_write) >= 2

\* BuffersDisjoint, with the pointers spelled out.
Apart ==
    /\ cur_buffer_ # next_buffer_ /\ cur_buffer_ # back_buffer_1 /\ cur_buffer_ # back_buffer_2
    /\ next_buffer_ # Null => next_buffer_ # back_buffer_1 /\ next_buffer_ # back_buffer_2
    /\ back_buffer_1 # Null => back_buffer_1 # back_buffer_2
    /\ \A p \in {cur_buffer_, next_buffer_, back_buffer_1, back_buffer_2} :
          /\ \A i \in 1..Len(buffers_) : buffers_[i] # p
          /\ \A i \in 1..Len(buffers_to_write) : buffers_to_write[i] # p
    /\ \A i \in 1..Len(buffers_), j \in 1..Len(buffers_to_write) :
          buffers_[i] # buffers_to_write[j]
    /\ \A i, j \in 1..Len(buffers_) : i # j => buffers_[i] # buffers_[j]
    /\ \A i, j \in 1..Len(buffers_to_write) :
          i # j => buffers_to_write[i] # buffers_to_write[j]

IInv == TypeOK /\ Circulation /\ Apart

-----------------------------------------------------------------------------

\* Appending one element: its length, its elements, its type.
LEMMA AppendFacts ==
    ASSUME NEW S, NEW s \in Seq(S), NEW e \in S
    PROVE  /\ Append(s, e) \in Seq(S)
           /\ Len(s) \in Nat
           /\ Len(Append(s, e)) = Len(s) + 1
           /\ Append(s, e) # <<>>
           /\ \A i \in 1..Len(s) : Append(s, e)[i] = s[i]
           /\ Append(s, e)[Len(s) + 1] = e
  <1>1. /\ Append(s, e) \in Seq(S)
        /\ Len(s) \in Nat
        /\ Len(Append(s, e)) = Len(s) + 1
        /\ \A i \in 1..Len(s) : Append(s, e)[i] = s[i]
        /\ Append(s, e)[Len(s) + 1] = e
    OBVIOUS
  <1>. QED  BY <1>1

\* The buffers a round keeps as spares: its first two, however long it is, dropping
\* and resizing together.
LEMMA SparesFacts ==
    ASSUME NEW s \in Seq(Bufs)
    PROVE  LET k == FirstTwo(Written(s)) IN
           /\ k \in Seq(Bufs)
           /\ Len(s) > 2 => Len(k) = 2
           /\ ~(Len(s) > 2) => Len(k) = Len(s)
           /\ \A i \in 1..Len(k) : k[i] = s[i]
  <1>. DEFINE w == Written(s)
              k == FirstTwo(w)
  <1>0. DropAbove \in Nat /\ DropAbove >= 2 /\ Len(s) \in Nat
    BY DropAssumption
  <1>1. CASE Len(s) > DropAbove
    <2>1. w = SubSeq(s, 1, 2)
      BY <1>1 DEF Written
    <2>2. Len(s) > 2
      BY <1>0, <1>1
    <2>3. w \in Seq(Bufs) /\ Len(w) = 2 /\ \A i \in 1..2 : w[i] = s[i]
      BY <2>1, <2>2, <1>0
    <2>4. k = w
      BY <2>3 DEF FirstTwo
    <2>. QED  BY <2>2, <2>3, <2>4
  <1>2. CASE ~(Len(s) > DropAbove)
    <2>1. w = s
      BY <1>2 DEF Written
    <2>2. CASE Len(s) > 2
      <3>1. k = SubSeq(s, 1, 2)
        BY <2>1, <2>2 DEF FirstTwo
      <3>2. k \in Seq(Bufs) /\ Len(k) = 2 /\ \A i \in 1..2 : k[i] = s[i]
        BY <3>1, <2>2, <1>0
      <3>. QED  BY <2>2, <3>2
    <2>3. CASE ~(Len(s) > 2)
      <3>1. k = s
        BY <2>1, <2>3 DEF FirstTwo
      <3>. QED  BY <2>3, <3>1
    <2>. QED  BY <2>2, <2>3
  <1>. QED  BY <1>1, <1>2

-----------------------------------------------------------------------------

\* The four buffers of the first state are four.
LEMMA InitIInv == Init => IInv
  <1>. SUFFICES ASSUME Init PROVE IInv
    OBVIOUS
  <1>1. {1, 2, 3, 4} \subseteq Bufs
    BY BufCountAssumption DEF Bufs
  <1>2. Null \notin {1, 2, 3, 4}
    BY <1>1, NullAssumption
  <1>3. TypeOK
    <2>1. 0 \in 0..Messages
      BY MessagesAssumption
    <2>2. <<>> \in Seq(Bufs) /\ <<>> \in Seq(Nat)
      OBVIOUS
    <2>3. heap \in [Bufs -> Seq(Nat)]
      BY <2>2 DEF Init
    <2>. QED  BY <1>1, <2>1, <2>2, <2>3 DEF Init, TypeOK, Pointers
  <1>4. Circulation
    BY <1>2 DEF Init, Circulation
  <1>5. Apart
    BY DEF Init, Apart
  <1>. QED  BY <1>3, <1>4, <1>5 DEF IInv

\* Append in the current buffer moves no buffer.
LEMMA AppendToCurrentIInv == IInv /\ AppendToCurrent => IInv'
  <1>. SUFFICES ASSUME IInv, AppendToCurrent PROVE IInv'
    OBVIOUS
  <1>. USE DEF IInv
  <1>1. accepted' \in 0..Messages /\ accepted + 1 \in Nat
    BY MessagesAssumption DEF TypeOK, AppendToCurrent
  <1>2. cur_buffer_ \in Bufs
    BY DEF TypeOK, Circulation, Pointers
  <1>3. Append(heap[cur_buffer_], accepted + 1) \in Seq(Nat)
    BY <1>1, <1>2, AppendFacts DEF TypeOK
  <1>4. TypeOK'
    BY <1>1, <1>2, <1>3 DEF TypeOK, AppendToCurrent, stopVars, frontVars, backVars
  <1>5. Circulation' /\ Apart'
    BY DEF Circulation, Apart, AppendToCurrent, frontVars, backVars
  <1>. QED  BY <1>4, <1>5

\* Append in the next buffer, or in a new one, which no pointer holds.
LEMMA AppendToNextIInv == IInv /\ AppendToNext => IInv'
  <1>. SUFFICES ASSUME IInv, AppendToNext PROVE IInv'
    OBVIOUS
  <1>. USE DEF IInv
  <1>1. accepted' \in 0..Messages /\ accepted + 1 \in Nat
    BY MessagesAssumption DEF TypeOK, AppendToNext
  <1>2. cur_buffer_ \in Bufs
    BY DEF TypeOK, Circulation, Pointers
  <1>3. /\ buffers_' = Append(buffers_, cur_buffer_)
        /\ next_buffer_' = Null
        /\ UNCHANGED <<back_buffer_1, back_buffer_2, buffers_to_write, pc>>
    BY DEF AppendToNext, ReplaceCurrent, backVars
  <1>4. /\ cur_buffer_' \in Bufs
        /\ cur_buffer_' # cur_buffer_
        /\ cur_buffer_' # back_buffer_1 /\ cur_buffer_' # back_buffer_2
        /\ \A i \in 1..Len(buffers_) : buffers_[i] # cur_buffer_'
        /\ \A i \in 1..Len(buffers_to_write) : buffers_to_write[i] # cur_buffer_'
    <2>1. CASE next_buffer_ # Null /\ cur_buffer_' = next_buffer_
      BY <2>1 DEF TypeOK, Pointers, Apart
    <2>2. CASE CanAllocate /\ cur_buffer_' = Fresh
      <3>1. cur_buffer_' \in Bufs /\ cur_buffer_' \notin InUse
        BY <2>2 DEF CanAllocate, Fresh
      <3>2. \A i \in 1..Len(buffers_) : buffers_[i] \in InUse
        BY DEF InUse, Range, TypeOK
      <3>3. \A i \in 1..Len(buffers_to_write) : buffers_to_write[i] \in InUse
        BY DEF InUse, Range, TypeOK
      <3>. QED  BY <3>1, <3>2, <3>3 DEF InUse
    <2>. QED  BY <2>1, <2>2 DEF AppendToNext, ReplaceCurrent
  <1>5. /\ buffers_' \in Seq(Bufs)
        /\ Len(buffers_) \in Nat
        /\ Len(buffers_') = Len(buffers_) + 1
        /\ buffers_' # <<>>
        /\ \A i \in 1..Len(buffers_) : buffers_'[i] = buffers_[i]
        /\ buffers_'[Len(buffers_) + 1] = cur_buffer_
    <2>1. buffers_ \in Seq(Bufs)
      BY DEF TypeOK
    <2>2. /\ Append(buffers_, cur_buffer_) \in Seq(Bufs)
          /\ Len(Append(buffers_, cur_buffer_)) = Len(buffers_) + 1
          /\ Append(buffers_, cur_buffer_) # <<>>
          /\ \A i \in 1..Len(buffers_) : Append(buffers_, cur_buffer_)[i] = buffers_[i]
          /\ Append(buffers_, cur_buffer_)[Len(buffers_) + 1] = cur_buffer_
      BY <1>2, <2>1, AppendFacts
    <2>. QED  BY <1>3, <2>1, <2>2
  <1>6. TypeOK'
    <2>1. heap' \in [Bufs -> Seq(Nat)]
      <3>1. heap[cur_buffer_'] \in Seq(Nat)
        BY <1>4 DEF TypeOK
      <3>2. Append(heap[cur_buffer_'], accepted + 1) \in Seq(Nat)
        BY <3>1, <1>1, AppendFacts
      <3>. QED  BY <3>2, <1>4 DEF AppendToNext, TypeOK
    <2>2. notified' \in BOOLEAN
      BY DEF AppendToNext, NotifyFull, Notify
    <2>3. UNCHANGED <<is_running_, owner, beforeStop, pc>>
      BY DEF AppendToNext, stopVars
    <2>. QED  BY <1>1, <1>3, <1>4, <1>5, <2>1, <2>2, <2>3 DEF TypeOK, Pointers
  <1>7. Circulation'
    <2>1. cur_buffer_' # Null
      BY <1>4, NullAssumption
    <2>. QED  BY <1>3, <1>5, <2>1 DEF Circulation
  <1>8. Apart'
    <2>1. cur_buffer_' # Null /\ cur_buffer_ # Null
      BY <1>4, <1>2, NullAssumption
    <2>2. \A i \in 1..Len(buffers_') : \/ i \in 1..Len(buffers_) /\ buffers_'[i] = buffers_[i]
                                       \/ i = Len(buffers_) + 1 /\ buffers_'[i] = cur_buffer_
      BY <1>5
    <2>3. /\ cur_buffer_' # next_buffer_' /\ cur_buffer_' # back_buffer_1'
          /\ cur_buffer_' # back_buffer_2'
          /\ next_buffer_' = Null
          /\ back_buffer_1' # Null => back_buffer_1' # back_buffer_2'
      BY <1>3, <1>4, <2>1 DEF Apart
    <2>4. \A i \in 1..Len(buffers_) : buffers_[i] # Null /\ buffers_[i] # cur_buffer_
      BY NullAssumption DEF TypeOK, Apart
    <2>5. \A i \in 1..Len(buffers_to_write) : buffers_to_write[i] # Null
      BY NullAssumption DEF TypeOK
    <2>6. \A i \in 1..Len(buffers_') : /\ buffers_'[i] # cur_buffer_'
                                       /\ buffers_'[i] # Null
                                       /\ buffers_'[i] # back_buffer_1
                                       /\ buffers_'[i] # back_buffer_2
      BY <1>4, <2>1, <2>2, <2>4 DEF Apart
    <2>7. \A i \in 1..Len(buffers_') : \A j \in 1..Len(buffers_to_write) :
             buffers_'[i] # buffers_to_write[j]
      BY <2>2 DEF Apart
    <2>8. \A i, j \in 1..Len(buffers_') : i # j => buffers_'[i] # buffers_'[j]
      BY <2>2, <2>4 DEF Apart
    <2>9. \A p \in {cur_buffer_', next_buffer_', back_buffer_1', back_buffer_2'} :
             /\ \A i \in 1..Len(buffers_') : buffers_'[i] # p
             /\ \A i \in 1..Len(buffers_to_write') : buffers_to_write'[i] # p
      BY <1>3, <1>4, <2>5, <2>6 DEF Apart
    <2>. QED  BY <1>3, <2>3, <2>7, <2>8, <2>9 DEF Apart
  <1>. QED  BY <1>6, <1>7, <1>8
\* The exchange under the mutex: what the front loses is what the backend gains.
LEMMA SwapIInv ==
    ASSUME IInv, Swap, pc # "write", pc = "lock" => buffers_ # <<>>,
           UNCHANGED <<stopVars, heap, accepted, output>>
    PROVE  IInv'
  <1>. USE DEF IInv
  <1>1. /\ cur_buffer_ \in Bufs /\ back_buffer_1 \in Bufs /\ back_buffer_2 \in Bufs
        /\ buffers_to_write = <<>> /\ buffers_ \in Seq(Bufs)
        /\ Len(buffers_) \in Nat
    BY DEF TypeOK, Circulation, Pointers
  <1>2. /\ buffers_to_write' = Append(buffers_, cur_buffer_)
        /\ buffers_' = <<>>
        /\ cur_buffer_' = back_buffer_1
        /\ back_buffer_1' = Null
        /\ pc' = "write"
    BY <1>1 DEF Swap
  <1>3. \/ next_buffer_ = Null /\ next_buffer_' = back_buffer_2 /\ back_buffer_2' = Null
        \/ next_buffer_ # Null /\ next_buffer_' = next_buffer_ /\ back_buffer_2' = back_buffer_2
    BY DEF Swap
  <1>4. /\ buffers_to_write' \in Seq(Bufs)
        /\ Len(buffers_to_write') = Len(buffers_) + 1
        /\ \A i \in 1..Len(buffers_) : buffers_to_write'[i] = buffers_[i]
        /\ buffers_to_write'[Len(buffers_) + 1] = cur_buffer_
    <2>1. /\ Append(buffers_, cur_buffer_) \in Seq(Bufs)
          /\ Len(Append(buffers_, cur_buffer_)) = Len(buffers_) + 1
          /\ \A i \in 1..Len(buffers_) : Append(buffers_, cur_buffer_)[i] = buffers_[i]
          /\ Append(buffers_, cur_buffer_)[Len(buffers_) + 1] = cur_buffer_
      BY <1>1, AppendFacts
    <2>. QED  BY <1>2, <2>1
  <1>5. TypeOK'
    <2>1. <<>> \in Seq(Bufs)
      OBVIOUS
    <2>2. notified' \in BOOLEAN
      BY DEF Swap
    <2>. QED  BY <1>1, <1>2, <1>3, <1>4, <2>1, <2>2 DEF TypeOK, Pointers, stopVars
  <1>6. Circulation'
    <2>1. cur_buffer_' # Null /\ next_buffer_' # Null
      BY <1>1, <1>2, <1>3, NullAssumption
    <2>2. Len(buffers_to_write') >= 1
      BY <1>1, <1>4
    <2>3. back_buffer_2' = Null => Len(buffers_to_write') >= 2
      <3>. SUFFICES ASSUME back_buffer_2' = Null PROVE Len(buffers_to_write') >= 2
        OBVIOUS
      <3>1. buffers_ # <<>>
        BY <1>1, <1>3, NullAssumption DEF Circulation
      <3>2. Len(buffers_) >= 1
        BY <1>1, <3>1
      <3>. QED  BY <1>1, <1>4, <3>2
    <2>. QED  BY <1>2, <2>1, <2>2, <2>3 DEF Circulation
  <1>7. Apart'
    <2>1. \A i \in 1..Len(buffers_to_write') :
             \/ i \in 1..Len(buffers_) /\ buffers_to_write'[i] = buffers_[i]
             \/ i = Len(buffers_) + 1 /\ buffers_to_write'[i] = cur_buffer_
      BY <1>1, <1>4
    <2>2. \A i \in 1..Len(buffers_) : buffers_[i] # Null /\ buffers_[i] # cur_buffer_
      BY <1>1, NullAssumption DEF Apart
    <2>3. /\ cur_buffer_' # next_buffer_' /\ cur_buffer_' # back_buffer_1'
          /\ cur_buffer_' # back_buffer_2'
          /\ next_buffer_' # Null => /\ next_buffer_' # back_buffer_1'
                                     /\ next_buffer_' # back_buffer_2'
          /\ back_buffer_1' = Null
      BY <1>1, <1>2, <1>3, NullAssumption DEF Apart
    <2>4. \A p \in {cur_buffer_', next_buffer_', back_buffer_1', back_buffer_2'} :
             p \in {Null, next_buffer_, back_buffer_1, back_buffer_2}
      BY <1>2, <1>3
    <2>5. \A i \in 1..Len(buffers_to_write') :
             buffers_to_write'[i] \notin {Null, next_buffer_, back_buffer_1, back_buffer_2}
      BY <1>1, <2>1, <2>2, NullAssumption DEF Apart
    <2>6. \A i, j \in 1..Len(buffers_to_write') :
             i # j => buffers_to_write'[i] # buffers_to_write'[j]
      BY <2>1, <2>2 DEF Apart
    <2>7. Len(buffers_') = 0
      BY <1>2
    <2>8. \A i \in 1..Len(buffers_') : FALSE
      BY <2>7
    <2>. QED  BY <2>3, <2>4, <2>5, <2>6, <2>8 DEF Apart
  <1>. QED  BY <1>5, <1>6, <1>7

\* The backend takes its spare buffers back out of the round it has written, and
\* they are two different ones.
LEMMA WriteBuffersIInv == IInv /\ WriteBuffers => IInv'
  <1>. SUFFICES ASSUME IInv, WriteBuffers PROVE IInv'
    OBVIOUS
  <1>. USE DEF IInv
  <1>. DEFINE spares == FirstTwo(Written(buffers_to_write))
  <1>1. /\ back_buffer_1 = Null
        /\ buffers_to_write \in Seq(Bufs)
        /\ Len(buffers_to_write) \in Nat
        /\ Len(buffers_to_write) >= 1
        /\ back_buffer_2 = Null => Len(buffers_to_write) >= 2
    BY DEF WriteBuffers, TypeOK, Circulation
  <1>2. /\ spares \in Seq(Bufs)
        /\ Len(buffers_to_write) > 2 => Len(spares) = 2
        /\ ~(Len(buffers_to_write) > 2) => Len(spares) = Len(buffers_to_write)
        /\ \A i \in 1..Len(spares) : spares[i] = buffers_to_write[i]
    BY <1>1, SparesFacts
  <1>. HIDE DEF spares
  <1>. DEFINE n == Len(buffers_to_write)
              k == Len(spares)
  <1>3. k \in {1, 2} /\ (back_buffer_2 = Null => k = 2) /\ k \in 1..n /\ k \in 1..k
    <2>1. /\ n \in Nat /\ n >= 1
          /\ back_buffer_2 = Null => n >= 2
          /\ n > 2 => k = 2
          /\ ~(n > 2) => k = n
      BY <1>1, <1>2
    <2>. HIDE DEF n, k
    <2>. QED  BY <2>1
  <1>4. /\ back_buffer_1' = spares[Len(spares)]
        /\ back_buffer_2' = IF back_buffer_2 = Null THEN Last(Front(spares)) ELSE back_buffer_2
        /\ buffers_to_write' = <<>>
        /\ pc' = "test"
        /\ UNCHANGED <<cur_buffer_, next_buffer_, buffers_, notified, accepted>>
        /\ UNCHANGED <<is_running_, owner, beforeStop>>
    BY <1>1 DEF WriteBuffers, Last, spares, frontVars, stopVars
  <1>5. PICK m \in 1..n : back_buffer_1' = buffers_to_write[m]
    <2>1. spares[k] = buffers_to_write[k]
      BY <1>2, <1>3
    <2>. QED  BY <1>3, <1>4, <2>1
  <1>6. back_buffer_2 = Null => /\ Len(spares) = 2
                                /\ back_buffer_2' = buffers_to_write[1]
                                /\ back_buffer_1' = buffers_to_write[2]
    <2>. SUFFICES ASSUME back_buffer_2 = Null
                  PROVE  /\ Len(spares) = 2
                         /\ back_buffer_2' = buffers_to_write[1]
                         /\ back_buffer_1' = buffers_to_write[2]
      OBVIOUS
    <2>1. Len(spares) = 2
      BY <1>3
    <2>2. Front(spares) = SubSeq(spares, 1, 1)
      BY <2>1 DEF Front
    <2>3. Len(SubSeq(spares, 1, 1)) = 1 /\ SubSeq(spares, 1, 1)[1] = spares[1]
      BY <1>2, <2>1
    <2>4. Last(Front(spares)) = spares[1]
      BY <2>2, <2>3 DEF Last
    <2>. QED  BY <1>2, <1>4, <2>1, <2>4
  <1>7. /\ back_buffer_1' \in Bufs /\ back_buffer_2' \in Bufs
        /\ back_buffer_1' # back_buffer_2'
    <2>1. back_buffer_1' \in Bufs
      BY <1>1, <1>5
    <2>2. CASE back_buffer_2 = Null
      <3>1. 1 \in 1..Len(buffers_to_write) /\ 2 \in 1..Len(buffers_to_write)
        BY <1>1, <2>2
      <3>. QED  BY <1>1, <1>6, <2>1, <2>2, <3>1 DEF Apart
    <2>3. CASE back_buffer_2 # Null
      BY <1>1, <1>4, <1>5, <2>1, <2>3 DEF Apart, TypeOK, Pointers
    <2>. QED  BY <2>2, <2>3
  <1>8. /\ \A i \in 1..Len(buffers_) : /\ buffers_[i] # back_buffer_1'
                                        /\ buffers_[i] # back_buffer_2'
        /\ cur_buffer_ # back_buffer_1' /\ cur_buffer_ # back_buffer_2'
        /\ next_buffer_ # back_buffer_1'
        /\ next_buffer_ # Null => next_buffer_ # back_buffer_2'
    <2>1. CASE back_buffer_2 = Null
      <3>1. 1 \in 1..Len(buffers_to_write)
        BY <1>1
      <3>. QED  BY <1>5, <1>6, <2>1, <3>1 DEF Apart
    <2>2. CASE back_buffer_2 # Null
      BY <1>4, <1>5, <2>2 DEF Apart
    <2>. QED  BY <2>1, <2>2
  <1>9. TypeOK'
    <2>1. heap' \in [Bufs -> Seq(Nat)]
      <3>1. <<>> \in Seq(Nat)
        OBVIOUS
      <3>. QED  BY <3>1 DEF WriteBuffers, Emptied, TypeOK
    <2>2. <<>> \in Seq(Bufs)
      OBVIOUS
    <2>. QED  BY <1>4, <1>7, <2>1, <2>2 DEF TypeOK, Pointers
  <1>10. Circulation'
    BY <1>4, <1>7, NullAssumption DEF Circulation
  <1>11. Apart'
    <2>1. \A i \in 1..Len(buffers_to_write') : FALSE
      BY <1>4
    <2>2. back_buffer_1' # Null /\ back_buffer_2' # Null
      BY <1>7, NullAssumption
    <2>3. /\ cur_buffer_' # next_buffer_'
          /\ cur_buffer_' # back_buffer_1' /\ cur_buffer_' # back_buffer_2'
          /\ next_buffer_' # Null => next_buffer_' # back_buffer_1' /\ next_buffer_' # back_buffer_2'
      BY <1>4, <1>8 DEF Apart
    <2>4. ASSUME NEW p \in {cur_buffer_', next_buffer_', back_buffer_1', back_buffer_2'},
                 NEW i \in 1..Len(buffers_')
          PROVE  buffers_'[i] # p
      BY <1>4, <1>8, <2>4 DEF Apart
    <2>5. \A i, j \in 1..Len(buffers_') : i # j => buffers_'[i] # buffers_'[j]
      BY <1>4 DEF Apart
    <2>. QED  BY ONLY <1>7, <2>1, <2>2, <2>3, <2>4, <2>5 DEF Apart
  <1>. QED  BY <1>9, <1>10, <1>11

\* Every step keeps the rhythm and keeps the buffers apart.
LEMMA NextIInv == IInv /\ [Next]_vars => IInv'
  <1>. SUFFICES ASSUME IInv, [Next]_vars PROVE IInv'
    OBVIOUS
  <1>1. CASE AppendToCurrent
    BY <1>1, AppendToCurrentIInv
  <1>2. CASE AppendToNext
    BY <1>2, AppendToNextIInv
  <1>3. CASE LoopTest
    BY <1>3 DEF LoopTest, IInv, TypeOK, Circulation, Apart, stopVars, frontVars, backVars
  <1>4. CASE Wait
    <2>1. /\ pc' = "wait" /\ pc = "lock" /\ notified' = FALSE
          /\ UNCHANGED <<stopVars, frontVars, buffers_, backVars, heap, accepted, output>>
      BY <1>4 DEF Wait
    <2>2. TypeOK'
      BY <2>1 DEF IInv, TypeOK, stopVars, frontVars, backVars
    <2>3. Circulation'
      BY <2>1 DEF IInv, Circulation, stopVars, frontVars, backVars
    <2>4. Apart'
      BY <2>1 DEF IInv, Apart, stopVars, frontVars, backVars
    <2>. QED  BY <2>2, <2>3, <2>4 DEF IInv
  <1>5. CASE SwapAtOnce \/ SwapNotified \/ SwapTimedOut
    <2>1. /\ Swap
          /\ pc # "write"
          /\ pc = "lock" => buffers_ # <<>>
          /\ UNCHANGED <<stopVars, heap, accepted, output>>
      BY <1>5 DEF SwapAtOnce, SwapNotified, SwapTimedOut, Swap
    <2>. QED  BY <2>1, SwapIInv
  <1>6. CASE WriteBuffers
    BY <1>6, WriteBuffersIInv
  <1>7. CASE Stop
    <2>1. /\ notified' \in BOOLEAN
          /\ owner' \in {"running", "stopping", "joined"}
          /\ is_running_' \in BOOLEAN
          /\ beforeStop' = accepted
          /\ UNCHANGED <<cur_buffer_, next_buffer_, buffers_, back_buffer_1, back_buffer_2,
                         buffers_to_write, heap, pc, accepted>>
      BY <1>7 DEF Stop, Notify, frontVars, backVars
    <2>. QED  BY <2>1 DEF IInv, TypeOK, Circulation, Apart
  <1>8. CASE Join
    BY <1>8 DEF Join, IInv, TypeOK, Circulation, Apart, frontVars, backVars
  <1>9. CASE UNCHANGED vars
    BY <1>9 DEF vars, IInv, TypeOK, Circulation, Apart, stopVars, frontVars, backVars
  <1>. QED
    BY <1>1, <1>2, <1>3, <1>4, <1>5, <1>6, <1>7, <1>8, <1>9 DEF Next, Log, Backend

\* The inductive invariant holds in every state.
LEMMA Inductive == Spec => []IInv
  BY InitIInv, NextIInv, PTL DEF Spec

\* The type invariant of the log holds in every state.
THEOREM TypeCorrect == Spec => []TypeOK
  BY Inductive, PTL DEF IInv

\* The front never uses a null buffer and the backend never takes one out of an
\* empty vector, for every capacity and drop limit.
THEOREM BuffersSuffice == Spec => []EnoughBuffers
  <1>1. IInv => EnoughBuffers
    <2>. SUFFICES ASSUME IInv PROVE EnoughBuffers
      OBVIOUS
    <2>1. cur_buffer_ # Null
      BY DEF IInv, Circulation
    <2>2. ASSUME pc = "write"
          PROVE  Len(FirstTwo(Written(buffers_to_write)))
                    >= (IF back_buffer_1 = Null THEN 1 ELSE 0)
                       + (IF back_buffer_2 = Null THEN 1 ELSE 0)
      <3>1. /\ buffers_to_write \in Seq(Bufs)
            /\ Len(buffers_to_write) \in Nat
            /\ Len(buffers_to_write) >= 1
            /\ back_buffer_2 = Null => Len(buffers_to_write) >= 2
        BY <2>2 DEF IInv, TypeOK, Circulation
      <3>2. \/ Len(FirstTwo(Written(buffers_to_write))) = 2
            \/ Len(FirstTwo(Written(buffers_to_write))) = Len(buffers_to_write)
        BY <3>1, SparesFacts
      <3>. QED  BY <3>1, <3>2
    <2>. QED  BY <2>1, <2>2 DEF EnoughBuffers
  <1>. QED  BY <1>1, Inductive, PTL

\* No buffer is ever held by two pointers, so that front and backend never touch
\* the same one.
THEOREM BuffersStayApart == Spec => []BuffersDisjoint
  <1>1. IInv => BuffersDisjoint
    <2>. SUFFICES ASSUME IInv PROVE BuffersDisjoint
      OBVIOUS
    <2>1. \A p, q \in 1..4 : p # q /\ Held[p] # Null => Held[p] # Held[q]
      BY DEF IInv, Apart, Held
    <2>2. \A p \in 1..4 : Held[p] \in {cur_buffer_, next_buffer_, back_buffer_1, back_buffer_2}
      BY DEF Held
    <2>0. /\ DOMAIN buffers_ = 1..Len(buffers_)
          /\ DOMAIN buffers_to_write = 1..Len(buffers_to_write)
      BY DEF IInv, TypeOK
    <2>3. \A p \in 1..4 : Held[p] \notin Range(buffers_) \cup Range(buffers_to_write)
      BY <2>0, <2>2 DEF IInv, Apart, Range
    <2>4. Range(buffers_) \cap Range(buffers_to_write) = {}
      BY <2>0 DEF IInv, Apart, Range
    <2>5. IsInjective(buffers_) /\ IsInjective(buffers_to_write)
      BY <2>0 DEF IInv, Apart, IsInjective
    <2>. QED  BY <2>1, <2>3, <2>4, <2>5 DEF BuffersDisjoint
  <1>. QED  BY <1>1, Inductive, PTL

-----------------------------------------------------------------------------
(* The log with its file.                                                  *)

\* A step of the log with its file is one of AsyncLogger, or leaves it alone.
LEMMA StepsOfTheLog ==
    ASSUME [LogNext]_logVars
    PROVE  [Next]_vars
  <1>1. CASE Runs(BackendWrites)
    <2>1. CASE WriteBuffer
      BY <2>1 DEF WriteBuffer
    <2>2. CASE RoundEnd
      BY <2>2 DEF RoundEnd, Next, Backend
    <2>3. CASE NextRound
      BY <2>3 DEF NextRound, Next, Backend
    <2>4. CASE TakeBuffers
      BY <2>4 DEF TakeBuffers, Next, Backend
    <2>. QED  BY <1>1, <2>1, <2>2, <2>3, <2>4 DEF Runs, BackendWrites
  <1>2. CASE Runs(TimedOut)
    BY <1>2 DEF Runs, TimedOut, Next
  <1>3. CASE Runs(Others)
    BY <1>3 DEF Runs, Others, Next
  <1>4. CASE DiskFills
    BY <1>4 DEF DiskFills
  <1>5. CASE DiskClears
    BY <1>5 DEF DiskClears
  <1>6. CASE UNCHANGED logVars
    BY <1>6 DEF logVars
  <1>. QED  BY <1>1, <1>2, <1>3, <1>4, <1>5, <1>6 DEF LogNext

\* The log with its file is a log, so that its buffers are neither shared nor short
\* (asynclogger.cpp:57-137 with logfile.cpp and fileutil.cpp below it).
THEOREM FileLogIsALog == LogSpec => Spec
  <1>1. LogInit => Init
    BY DEF LogInit
  <1>2. [LogNext]_logVars => [Next]_vars
    BY StepsOfTheLog
  <1>. QED  BY <1>1, <1>2, PTL DEF LogSpec, Spec

\* Down to the disk, too, the two sides never hold the same buffer, and neither runs
\* out of buffers.
THEOREM FileLogBuffersApart == LogSpec => [](BuffersDisjoint /\ EnoughBuffers)
  BY FileLogIsALog, BuffersStayApart, BuffersSuffice, PTL

-----------------------------------------------------------------------------

FileInv == /\ RoundsAreFlushed
           /\ full \in BOOLEAN
           /\ fills \in Nat
           /\ full => fills # 0
           /\ pc = "done" => fileBuffer = <<>>
           /\ owner = "joined" => pc = "done"

LEMMA FileInvInit == LogInit => FileInv
  <1>. SUFFICES ASSUME LogInit
                PROVE  FileInv
    OBVIOUS
  <1>1. pc = "test" /\ owner = "running"
    BY DEF LogInit, Init
  <1>2. lost = {} /\ fileBuffer = <<>> /\ full = FALSE /\ fills = 0
    BY DEF LogInit, FileInit
  <1>. QED  BY <1>1, <1>2 DEF FileInv, RoundsAreFlushed

\* A step that leaves the file, the disk and the place of the backend alone.
LEMMA FileInvApart ==
    ASSUME FileInv, UNCHANGED <<fileVars, diskVars, pc>>,
           owner' = "joined" => owner = "joined" \/ pc = "done"
    PROVE  FileInv'
  BY DEF FileInv, RoundsAreFlushed, fileVars, diskVars

LEMMA FileInvNext ==
    ASSUME FileInv, [LogNext]_logVars
    PROVE  FileInv'
  <1>1. CASE Runs(WriteBuffer)
    <2>1. /\ pc = "write" /\ pc' = pc /\ owner' = owner
          /\ fills' = fills /\ full' = full
      BY <1>1 DEF Runs, WriteBuffer, vars, stopVars, diskVars
    <2>2. fills = 0 => lost' = {}
      <3>. SUFFICES ASSUME fills = 0
                    PROVE  lost' = {}
        OBVIOUS
      <3>1. ~full /\ lost = {}
        BY DEF FileInv, RoundsAreFlushed
      <3>2. lost' = lost
        BY <1>1, <3>1 DEF Runs, WriteBuffer, FileAppend, Put
      <3>. QED  BY <3>1, <3>2
    <2>. QED  BY <2>1, <2>2 DEF FileInv, RoundsAreFlushed
  <1>2. CASE Runs(RoundEnd)
    BY <1>2 DEF Runs, RoundEnd, WriteBuffers, Flush, FileInv, RoundsAreFlushed, diskVars, stopVars
  <1>3. CASE Runs(NextRound)
    BY <1>3 DEF Runs, NextRound, LoopTest, Close, FileInv, RoundsAreFlushed, fileVars, diskVars,
                stopVars
  <1>4. CASE Runs(TakeBuffers) \/ Runs(TimedOut)
    <2>1. UNCHANGED <<fileVars, diskVars, stopVars>> /\ pc \in {"lock", "wait"}
                                                     /\ pc' \in {"wait", "write"}
      BY <1>4 DEF Runs, TakeBuffers, TimedOut, Wait, SwapAtOnce, SwapNotified, SwapTimedOut, Swap
    <2>. QED  BY <2>1 DEF FileInv, RoundsAreFlushed, fileVars, diskVars, stopVars
  <1>5. CASE Runs(Others)
    <2>1. UNCHANGED <<fileVars, diskVars, pc>>
      BY <1>5 DEF Runs, Others, Log, AppendToCurrent, AppendToNext, Stop, Join, backVars
    <2>2. owner' = "joined" => owner = "joined" \/ pc = "done"
      BY <1>5 DEF Runs, Others, Log, AppendToCurrent, AppendToNext, Stop, Join, stopVars
    <2>. QED  BY <2>1, <2>2, FileInvApart
  <1>6. CASE DiskFills \/ DiskClears
    <2>1. UNCHANGED <<pc, owner, fileBuffer, lost>>
      BY <1>6 DEF DiskFills, DiskClears, fileVars, vars, stopVars
    <2>2. CASE DiskFills
      <3>1. fills' = fills + 1 /\ full' = TRUE
        BY <2>2 DEF DiskFills
      <3>2. fills' \in Nat /\ fills' # 0
        BY <3>1 DEF FileInv
      <3>. QED  BY <2>1, <3>1, <3>2 DEF FileInv, RoundsAreFlushed
    <2>3. CASE DiskClears
      BY <2>1, <2>3 DEF DiskClears, FileInv, RoundsAreFlushed
    <2>. QED  BY <1>6, <2>2, <2>3
  <1>7. CASE UNCHANGED logVars
    BY <1>7, FileInvApart DEF logVars, vars, stopVars
  <1>. QED  BY <1>1, <1>2, <1>3, <1>4, <1>5, <1>6, <1>7 DEF LogNext, Runs, BackendWrites

\* What the rounds that are over have written is on the disk, unless the disk was
\* full, and all of it once Stop has returned (asynclogger.cpp:134-136).
THEOREM RoundsReachTheDisk == LogSpec => []RoundsAreFlushed
  <1>1. FileInv => RoundsAreFlushed
    BY DEF FileInv
  <1>. QED  BY FileInvInit, FileInvNext, <1>1, PTL DEF LogSpec
=============================================================================

---------------------------- MODULE AsyncLogger ----------------------------
(***************************************************************************)
(* The asynchronous log of src/src/log/asynclogger.cpp: the threads that   *)
(* log append to a current buffer under a mutex, a backend thread takes    *)
(* the filled buffers away and writes them with the mutex released, and    *)
(* four buffers circulate between the two sides.                           *)
(*                                                                         *)
(* Buffers are identities and heap gives their contents, so that a buffer  *)
(* both sides hold, or a null pointer used, would be seen.  A message is   *)
(* its number in the order of the appends; a buffer holds Capacity of them.*)
(***************************************************************************)
EXTENDS Naturals, Sequences, SequencesExt

CONSTANTS BufCount,   \* how many buffers exist at a time at most
          Null,       \* a BufferPtr that holds nothing
          Capacity,   \* messages a buffer has room for
          DropAbove,  \* a round with more buffers than this is cut down: 25
          Messages    \* how many messages are ever logged

Bufs == 1..BufCount

ASSUME NullAssumption == Null \notin Bufs
ASSUME BufCountAssumption == BufCount \in Nat /\ BufCount >= 4
ASSUME CapacityAssumption == Capacity \in Nat \ {0}
ASSUME DropAssumption == DropAbove \in Nat /\ DropAbove >= 2
ASSUME MessagesAssumption == Messages \in Nat

VARIABLES is_running_,
          cur_buffer_, next_buffer_,
          buffers_,                      \* handed over, not yet taken
          back_buffer_1, back_buffer_2, buffers_to_write,
          heap,        \* heap[b]: the messages in buffer b
          pc,          \* where the backend thread is
          notified,    \* condition_ was notified while the backend waits
          owner,       \* whether Stop is "running" yet, "stopping", "joined"
          accepted,    \* messages appended so far
          beforeStop,  \* those appended before Stop was called
          output       \* the messages given to the log file, in order

frontVars == <<cur_buffer_, next_buffer_>>
backVars == <<back_buffer_1, back_buffer_2, buffers_to_write>>
stopVars == <<is_running_, owner, beforeStop>>
vars == <<stopVars, frontVars, buffers_, backVars, heap, pc, notified, accepted, output>>

Pointers == Bufs \cup {Null}

TypeOK == /\ is_running_ \in BOOLEAN
          /\ cur_buffer_ \in Pointers
          /\ next_buffer_ \in Pointers
          /\ buffers_ \in Seq(Bufs)
          /\ back_buffer_1 \in Pointers
          /\ back_buffer_2 \in Pointers
          /\ buffers_to_write \in Seq(Bufs)
          /\ heap \in [Bufs -> Seq(Nat)]
          /\ pc \in {"test", "lock", "wait", "write", "done"}
          /\ notified \in BOOLEAN
          /\ owner \in {"running", "stopping", "joined"}
          /\ accepted \in 0..Messages
          /\ beforeStop \in 0..Messages

\* The state after Start: four empty buffers and a backend about to test the flag.
Init == /\ is_running_ = TRUE
        /\ cur_buffer_ = 1
        /\ next_buffer_ = 2
        /\ back_buffer_1 = 3
        /\ back_buffer_2 = 4
        /\ buffers_ = <<>>
        /\ buffers_to_write = <<>>
        /\ heap = [b \in Bufs |-> <<>>]
        /\ pc = "test"
        /\ notified = FALSE
        /\ owner = "running"
        /\ accepted = 0
        /\ beforeStop = 0
        /\ output = <<>>

-----------------------------------------------------------------------------
(* The threads that log.                                                   *)

InUse == {cur_buffer_, next_buffer_, back_buffer_1, back_buffer_2}
            \cup Range(buffers_) \cup Range(buffers_to_write)

\* new FixedBuffer: any buffer no pointer holds (which one makes no difference).
CanAllocate == Bufs \ InUse # {}
Fresh == CHOOSE b \in Bufs : b \notin InUse

\* notify_one reaches a backend that waits, and nobody otherwise.
Notify == notified' = (pc = "wait")

\* Mutant: nobody is told of a full buffer.
NotifyNot == UNCHANGED notified

NotifyFull == Notify

\* Append to a current buffer with room.
AppendToCurrent ==
    /\ accepted < Messages
    /\ Len(heap[cur_buffer_]) < Capacity
    /\ heap' = [heap EXCEPT ![cur_buffer_] = Append(@, accepted + 1)]
    /\ accepted' = accepted + 1
    /\ UNCHANGED <<stopVars, frontVars, buffers_, backVars, pc, notified, output>>

\* Mutant: the next buffer becomes the current one and stays the next one.
ReplaceCurrentKeepsNext ==
    /\ \/ cur_buffer_' = next_buffer_ /\ next_buffer_ # Null
       \/ next_buffer_ = Null /\ CanAllocate /\ cur_buffer_' = Fresh
    /\ UNCHANGED next_buffer_

\* The current buffer is replaced by the next one, or by a new one.
ReplaceCurrent ==
    /\ \/ cur_buffer_' = next_buffer_ /\ next_buffer_ # Null
       \/ next_buffer_ = Null /\ CanAllocate /\ cur_buffer_' = Fresh
    /\ next_buffer_' = Null

\* Append to a full current buffer, all of it under the mutex.
AppendToNext ==
    /\ accepted < Messages
    /\ Len(heap[cur_buffer_]) >= Capacity
    /\ buffers_' = Append(buffers_, cur_buffer_)
    /\ ReplaceCurrent
    /\ heap' = [heap EXCEPT ![cur_buffer_'] = Append(@, accepted + 1)]
    /\ accepted' = accepted + 1
    /\ NotifyFull
    /\ UNCHANGED <<stopVars, backVars, pc, output>>

-----------------------------------------------------------------------------
(* The backend thread.                                                     *)

LoopTest ==
    /\ pc = "test"
    /\ pc' = IF is_running_ THEN "lock" ELSE "done"
    /\ UNCHANGED <<stopVars, frontVars, buffers_, backVars, heap, notified, accepted, output>>

\* Nothing to write: wait_for releases the mutex.
Wait ==
    /\ pc = "lock"
    /\ buffers_ = <<>>
    /\ pc' = "wait"
    /\ notified' = FALSE
    /\ UNCHANGED <<stopVars, frontVars, buffers_, backVars, heap, accepted, output>>

\* Mutant: the current buffer is handed over only when it is full.
SwapFullOnly ==
    /\ IF Len(heap[cur_buffer_]) < Capacity
       THEN /\ buffers_to_write' = buffers_
            /\ UNCHANGED <<cur_buffer_, back_buffer_1>>
       ELSE /\ buffers_to_write' = Append(buffers_, cur_buffer_)
            /\ cur_buffer_' = back_buffer_1
            /\ back_buffer_1' = Null
    /\ buffers_' = buffers_to_write
    /\ UNCHANGED <<next_buffer_, back_buffer_2>>
    /\ notified' = FALSE
    /\ pc' = "write"
    /\ UNCHANGED <<stopVars, heap, accepted, output>>

\* Mutant: cur_buffer_ is reset before it is handed over.
SwapResetFirst ==
    /\ buffers_to_write' = Append(buffers_, Null)
    /\ buffers_' = buffers_to_write
    /\ cur_buffer_' = back_buffer_1
    /\ back_buffer_1' = Null
    /\ UNCHANGED <<next_buffer_, back_buffer_2>>
    /\ notified' = FALSE
    /\ pc' = "write"
    /\ UNCHANGED <<stopVars, heap, accepted, output>>

\* Mutant: the second spare buffer is always given away.
SwapBothSpares ==
    /\ buffers_to_write' = Append(buffers_, cur_buffer_)
    /\ buffers_' = buffers_to_write
    /\ cur_buffer_' = back_buffer_1
    /\ back_buffer_1' = Null
    /\ next_buffer_' = back_buffer_2
    /\ back_buffer_2' = Null
    /\ notified' = FALSE
    /\ pc' = "write"
    /\ UNCHANGED <<stopVars, heap, accepted, output>>

\* Under the mutex: the current buffer joins the others, its place is taken by the
\* first spare one, and a missing next buffer by the second.
Swap ==
    /\ buffers_to_write' = Append(buffers_, cur_buffer_)
    /\ buffers_' = buffers_to_write
    /\ cur_buffer_' = back_buffer_1
    /\ back_buffer_1' = Null
    /\ \/ next_buffer_ = Null /\ next_buffer_' = back_buffer_2 /\ back_buffer_2' = Null
       \/ next_buffer_ # Null /\ UNCHANGED <<next_buffer_, back_buffer_2>>
    /\ notified' = FALSE
    /\ pc' = "write"
    /\ UNCHANGED <<stopVars, heap, accepted, output>>

SwapAtOnce == pc = "lock" /\ buffers_ # <<>> /\ Swap
SwapNotified == pc = "wait" /\ notified /\ Swap
SwapTimedOut == pc = "wait" /\ ~notified /\ Swap

\* The buffers of a round that are written, and those of them kept as spares.
FirstTwo(s) == IF Len(s) > 2 THEN SubSeq(s, 1, 2) ELSE s
\* Mutant: an overlong round is cut from its front.
WrittenLast(s) == IF Len(s) > DropAbove THEN SubSeq(s, Len(s) - 1, Len(s)) ELSE s
Written(s) == IF Len(s) > DropAbove THEN SubSeq(s, 1, 2) ELSE s
Contents(s) == FlattenSeq([i \in DOMAIN s |-> heap[s[i]]])

\* Reset of the buffers taken back; the others of the round are freed.
Emptied == heap' = [b \in Bufs |-> IF b \in Range(buffers_to_write) THEN <<>> ELSE heap[b]]

\* With the mutex released: drop, write, take the spare buffers back, flush.
WriteBuffers ==
    LET spares == FirstTwo(Written(buffers_to_write))
        left == IF back_buffer_1 = Null THEN Front(spares) ELSE spares
    IN  /\ pc = "write"
        /\ output' = output \o Contents(Written(buffers_to_write))
        /\ back_buffer_1' = IF back_buffer_1 = Null THEN Last(spares) ELSE back_buffer_1
        /\ back_buffer_2' = IF back_buffer_2 = Null THEN Last(left) ELSE back_buffer_2
        /\ Emptied
        /\ buffers_to_write' = <<>>
        /\ pc' = "test"
        /\ UNCHANGED <<stopVars, frontVars, buffers_, notified, accepted>>

-----------------------------------------------------------------------------
(* The owner.                                                              *)

\* Mutant: Stop notifies and joins, but the flag stays set.
StopKeepsRunning ==
    /\ owner = "running"
    /\ owner' = "stopping"
    /\ beforeStop' = accepted
    /\ Notify
    /\ UNCHANGED <<is_running_, frontVars, buffers_, backVars, heap, pc, accepted, output>>

\* Stop up to its join: the flag and the notification, without the mutex.
Stop ==
    /\ owner = "running"
    /\ owner' = "stopping"
    /\ is_running_' = FALSE
    /\ beforeStop' = accepted
    /\ Notify
    /\ UNCHANGED <<frontVars, buffers_, backVars, heap, pc, accepted, output>>

Join ==
    /\ owner = "stopping"
    /\ pc = "done"
    /\ owner' = "joined"
    /\ UNCHANGED <<is_running_, beforeStop, frontVars, buffers_, backVars, heap, pc,
                   notified, accepted, output>>

-----------------------------------------------------------------------------

Log == AppendToCurrent \/ AppendToNext

Backend == LoopTest \/ Wait \/ SwapAtOnce \/ SwapNotified \/ WriteBuffers

Next == Log \/ Backend \/ SwapTimedOut \/ Stop \/ Join

Spec == Init /\ [][Next]_vars

-----------------------------------------------------------------------------
(* Properties.                                                             *)

Held == <<cur_buffer_, next_buffer_, back_buffer_1, back_buffer_2>>

\* No two pointers of the two sides ever hold the same buffer, so that the front
\* never appends to a buffer the backend is writing, or a spare one is handed out
\* twice (asynclogger.cpp:36-49, 82-95, 117-130).
BuffersDisjoint ==
    /\ \A p, q \in 1..4 : /\ p # q
                         /\ Held[p] # Null
                         => Held[p] # Held[q]
    /\ \A p \in 1..4 : Held[p] \notin Range(buffers_) \cup Range(buffers_to_write)
    /\ Range(buffers_) \cap Range(buffers_to_write) = {}
    /\ IsInjective(buffers_) /\ IsInjective(buffers_to_write)

\* The current buffer is never null when Append uses it, and the backend, which
\* has given its spare buffers away, finds as many buffers in its round to take
\* back: back() and pop_back() are never called on an empty vector, dropping and
\* resizing included (asynclogger.cpp:82-130).
EnoughBuffers ==
    /\ cur_buffer_ # Null
    /\ pc = "write" => Len(FirstTwo(Written(buffers_to_write)))
                          >= (IF back_buffer_1 = Null THEN 1 ELSE 0)
                             + (IF back_buffer_2 = Null THEN 1 ELSE 0)

Pending == Contents(buffers_to_write \o buffers_ \o <<cur_buffer_>>)

\* The log is a LogSink: nothing is written twice or out of order, and only a
\* backlog of more than DropAbove buffers costs messages, those of the first two
\* buffers apart.
Sink == INSTANCE LogSink WITH pending <- Pending,
                              Backlog <- DropAbove * Capacity,
                              Spared <- 2 * Capacity

RefinesSink == Sink!Spec
=============================================================================

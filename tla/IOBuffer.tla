------------------------------ MODULE IOBuffer ------------------------------
(***************************************************************************)
(* The buffer of src/src/net/iobuffer.h and iobuffer.cpp: one storage with *)
(* a reserve of PREPEND_SIZE bytes in front, what is readable between      *)
(* read_index_ and write_index_, and room to write behind it, which is     *)
(* made by moving what is readable to the front or by a larger storage.    *)
(*                                                                         *)
(* The operations are functions from buffers to buffers, as they call one  *)
(* another.  Bytes are numbered in the order they are put; MaxPut bounds   *)
(* them and MaxLen the length of one operation.                            *)
(***************************************************************************)
EXTENDS Integers, Sequences

CONSTANTS PREPEND_SIZE,
          INITIAL_SIZE,
          EXTRA_SIZE,    \* sizeof(extra_buf) in ReadFd
          MaxLen,
          MaxPut

ASSUME SizesAssumption == PREPEND_SIZE \in Nat /\ INITIAL_SIZE \in Nat /\ EXTRA_SIZE \in Nat
ASSUME BoundsAssumption == MaxLen \in Nat /\ MaxPut \in Nat

VARIABLES buf,      \* [size, data, read, write]: buffer_.size(), its bytes and the indices
          put,      \* how many bytes have been put
          asked     \* the most bytes it was asked to hold: readable ones and room for more

vars == <<buf, put, asked>>

\* A byte of the storage that has never been written.
Junk == 0

GetReadableSize(b) == b.write - b.read
GetWritableSize(b) == b.size - b.write
GetPrependSize(b) == b.read

Larger(m, n) == IF m > n THEN m ELSE n

\* What the buffer holds.
Readable(b) == [i \in 1..GetReadableSize(b) |-> b.data[b.read + i - 1]]

\* The next k bytes to be put.
Fresh(k) == [i \in 1..k |-> put + i]

New == [size  |-> PREPEND_SIZE + INITIAL_SIZE,
        data  |-> [i \in 0..PREPEND_SIZE + INITIAL_SIZE - 1 |-> Junk],
        read  |-> PREPEND_SIZE,
        write |-> PREPEND_SIZE]

\* b is a buffer of bytes up to n.
IsBuffer(b, n) ==
    /\ b = [size |-> b.size, data |-> b.data, read |-> b.read, write |-> b.write]
    /\ b.size \in Nat /\ b.read \in Nat /\ b.write \in Nat
    /\ b.read <= b.write /\ b.write <= b.size
    /\ b.data \in [0..b.size - 1 -> 0..n]

-----------------------------------------------------------------------------
(* Making space.                                                           *)

\* buffer_.resize
Resized(b, n) ==
    [size  |-> n,
     data  |-> [i \in 0..n - 1 |-> IF i < b.size THEN b.data[i] ELSE Junk],
     read  |-> b.read,
     write |-> b.write]

\* Mutant: the resize forgets what is in front of read_index_ is not writable.
GrownToReadable(b, len) == Resized(b, GetReadableSize(b) + len)

Grown(b, len) == Resized(b, b.write + len)

\* What is readable is moved behind the reserve.
Moved(b) ==
    LET n == GetReadableSize(b) IN
    [size  |-> b.size,
     data  |-> [i \in 0..b.size - 1 |-> IF PREPEND_SIZE <= i /\ i < PREPEND_SIZE + n
                                        THEN b.data[b.read + (i - PREPEND_SIZE)]
                                        ELSE b.data[i]],
     read  |-> PREPEND_SIZE,
     write |-> PREPEND_SIZE + n]

\* Mutant: the reserve is counted as room.
GrowsWithoutReserve(b, len) == GetWritableSize(b) + GetPrependSize(b) < len

\* Mutant: space is always made by a larger storage.
GrowsAlways(b, len) == TRUE

Grows(b, len) == GetWritableSize(b) + GetPrependSize(b) < len + PREPEND_SIZE

MakeSpace(b, len) == IF Grows(b, len) THEN Grown(b, len) ELSE Moved(b)

EnsureWritable(b, len) == IF GetWritableSize(b) < len THEN MakeSpace(b, len) ELSE b

-----------------------------------------------------------------------------
(* The operations.                                                         *)

\* The bytes are copied to write_index_, where there is room for them.
Copied(b, bytes) ==
    [size  |-> b.size,
     data  |-> [i \in 0..b.size - 1 |-> IF b.write <= i /\ i < b.write + Len(bytes)
                                        THEN bytes[i - b.write + 1] ELSE b.data[i]],
     read  |-> b.read,
     write |-> b.write + Len(bytes)]

Append_(b, bytes) == Copied(EnsureWritable(b, Len(bytes)), bytes)

RetrieveAll(b) ==
    [size |-> b.size, data |-> b.data, read |-> PREPEND_SIZE, write |-> PREPEND_SIZE]

Retrieve(b, len) ==
    IF len < GetReadableSize(b) THEN [b EXCEPT !.read = b.read + len] ELSE RetrieveAll(b)

\* There must be room for them in front of read_index_.
Prepend(b, bytes) ==
    [size  |-> b.size,
     data  |-> [i \in 0..b.size - 1 |-> IF b.read - Len(bytes) <= i /\ i < b.read
                                        THEN bytes[i - (b.read - Len(bytes)) + 1]
                                        ELSE b.data[i]],
     read  |-> b.read - Len(bytes),
     write |-> b.write]

Shrink(b, reserve) ==
    Append_(EnsureWritable(New, GetReadableSize(b) + reserve), Readable(b))

\* Mutant: what does not fit is appended without counting what does.
ReadFdLosesIndex(b, bytes) ==
    IF Len(bytes) <= GetWritableSize(b) THEN Copied(b, bytes)
    ELSE Append_(b, SubSeq(bytes, GetWritableSize(b) + 1, Len(bytes)))

\* readv fills the room there is and then extra_buf, which is appended.
ReadFd(b, bytes) ==
    LET writable == GetWritableSize(b) IN
    IF Len(bytes) <= writable THEN Copied(b, bytes)
    ELSE Append_(Copied(b, SubSeq(bytes, 1, writable)), SubSeq(bytes, writable + 1, Len(bytes)))

\* How many bytes one readv may take.
ReadMax(b) == GetWritableSize(b) + (IF GetWritableSize(b) < EXTRA_SIZE THEN EXTRA_SIZE ELSE 0)

-----------------------------------------------------------------------------
(* The calls.                                                              *)

\* The call leaves b, and asked for room for k bytes beyond those there were.
Hold(b, k) == /\ buf' = b
              /\ asked' = Larger(asked, GetReadableSize(buf) + k)

CallAppend(k) ==
    /\ put + k <= MaxPut
    /\ put' = put + k
    /\ Hold(Append_(buf, Fresh(k)), k)

CallReadFd(k) ==
    /\ put + k <= MaxPut
    /\ k <= ReadMax(buf)
    /\ put' = put + k
    /\ Hold(ReadFd(buf, Fresh(k)), k)

CallPrepend(k) ==
    /\ put + k <= MaxPut
    /\ k <= GetPrependSize(buf)
    /\ put' = put + k
    /\ Hold(Prepend(buf, Fresh(k)), k)

CallRetrieve(k) ==
    /\ k <= GetReadableSize(buf)
    /\ UNCHANGED put
    /\ Hold(Retrieve(buf, k), 0)

CallEnsureWritable(k) ==
    /\ UNCHANGED put
    /\ Hold(EnsureWritable(buf, k), k)

CallShrink(k) ==
    /\ UNCHANGED put
    /\ Hold(Shrink(buf, k), k)

Init == buf = New /\ put = 0 /\ asked = 0

Next == \E k \in 0..MaxLen : \/ CallAppend(k)
                             \/ CallReadFd(k)
                             \/ CallPrepend(k)
                             \/ CallRetrieve(k)
                             \/ CallEnsureWritable(k)
                             \/ CallShrink(k)

Spec == Init /\ [][Next]_vars
-----------------------------------------------------------------------------
(* What the buffer promises.                                               *)

\* The indices stay in order and inside the storage, whatever is moved,
\* retrieved, prepended or read (every pointer the class hands out is one of
\* them), and every place of the storage holds a byte.
TypeOK ==
    /\ put \in 0..MaxPut
    /\ asked \in Nat
    /\ IsBuffer(buf, put)

Queue == INSTANCE ByteQueue WITH Lengths <- 0..MaxLen, bytes <- Readable(buf)

\* The buffer is a queue of bytes: no call loses, repeats or reorders a byte,
\* those that move the bytes or change the storage (MakeSpace, Shrink, the
\* second part of a readv) among them.
RefinesQueue == Queue!Spec

\* When MakeSpace moves what is readable, it moves it towards the front, which
\* is what std::copy of an overlapping range needs, although Prepend may have
\* taken read_index_ into the reserve; and the room asked for is there then.
MoveIsSafe ==
    \A len \in 0..MaxLen :
        GetWritableSize(buf) < len /\ ~Grows(buf, len)
            => buf.read > PREPEND_SIZE /\ GetWritableSize(Moved(buf)) >= len

\* The storage grows with what the buffer is asked to hold, and not with all
\* that has passed through it.
BoundedStorage == buf.size <= PREPEND_SIZE + Larger(INITIAL_SIZE, asked + MaxLen)
=============================================================================

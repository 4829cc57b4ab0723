--------------------------- MODULE IOBufferProofs ---------------------------
(***************************************************************************)
(* An IOBuffer for every size of the reserve, of the storage and of        *)
(* extra_buf: its indices stay in the storage, and it is a ByteQueue.  Two *)
(* lemmas for each of the functions the operations are made of say what it *)
(* does to a buffer's indices and to what is readable.                     *)
(***************************************************************************)
EXTENDS IOBuffer, SequenceTheorems, TLAPS

USE SizesAssumption, BoundsAssumption

\* A sequence of k bytes numbered up to n.
IsBytes(bytes, k, n) == k \in Nat /\ bytes \in Seq(0..n) /\ Len(bytes) = k

\* The indices of a buffer, as numbers.
LEMMA Indices ==
    ASSUME NEW n \in Nat, NEW b, IsBuffer(b, n)
    PROVE  /\ b.size \in Nat /\ b.read \in Nat /\ b.write \in Nat
           /\ b.read <= b.write /\ b.write <= b.size
BY DEF IsBuffer


\* A larger vector is a buffer with the same indices.
LEMMA ResizedIsBuffer ==
    ASSUME NEW n \in Nat, NEW b, IsBuffer(b, n), NEW m \in Nat, b.size <= m
    PROVE  /\ IsBuffer(Resized(b, m), n)
           /\ Resized(b, m).size = m
           /\ Resized(b, m).read = b.read
           /\ Resized(b, m).write = b.write
<1> DEFINE d == [i \in 0..m - 1 |-> IF i < b.size THEN b.data[i] ELSE Junk]
<1>1. Resized(b, m) = [size |-> m, data |-> d, read |-> b.read, write |-> b.write]
  BY DEF IsBuffer, Resized
<1>2. d \in [0..m - 1 -> 0..n]
  <2> SUFFICES ASSUME NEW i \in 0..m - 1
               PROVE  (IF i < b.size THEN b.data[i] ELSE Junk) \in 0..n
    OBVIOUS
  <2>1. CASE i < b.size
    BY <2>1 DEF IsBuffer
  <2>2. CASE ~(i < b.size)
    BY <2>2 DEF Junk
  <2> QED BY <2>1, <2>2
<1> HIDE DEF d
<1> QED BY <1>1, <1>2 DEF IsBuffer

\* So is one whose bytes were moved to the front.
LEMMA MovedIsBuffer ==
    ASSUME NEW n \in Nat, NEW b, IsBuffer(b, n), b.read >= PREPEND_SIZE
    PROVE  /\ IsBuffer(Moved(b), n)
           /\ Moved(b).size = b.size
           /\ Moved(b).read = PREPEND_SIZE
           /\ Moved(b).write = PREPEND_SIZE + GetReadableSize(b)
<1> DEFINE k == GetReadableSize(b)
<1> DEFINE d == [i \in 0..b.size - 1 |-> IF PREPEND_SIZE <= i /\ i < PREPEND_SIZE + k
                                        THEN b.data[b.read + (i - PREPEND_SIZE)] ELSE b.data[i]]
<1>1. Moved(b) = [size |-> b.size, data |-> d, read |-> PREPEND_SIZE, write |-> PREPEND_SIZE + k]
  BY DEF IsBuffer, Moved
<1>2. k \in Nat /\ b.read + k <= b.size
  BY DEF IsBuffer, GetReadableSize
<1>3. d \in [0..b.size - 1 -> 0..n]
  <2> HIDE DEF k
  <2> SUFFICES ASSUME NEW i \in 0..b.size - 1
               PROVE  (IF PREPEND_SIZE <= i /\ i < PREPEND_SIZE + k
                       THEN b.data[b.read + (i - PREPEND_SIZE)] ELSE b.data[i]) \in 0..n
    OBVIOUS
  <2>1. CASE PREPEND_SIZE <= i /\ i < PREPEND_SIZE + k
    <3> DEFINE j == b.read + (i - PREPEND_SIZE)
    <3>1. j \in 0..b.size - 1
      BY <1>2, <2>1, Indices
    <3> HIDE DEF j
    <3>2. b.data[j] \in 0..n
      BY <3>1 DEF IsBuffer
    <3> QED BY <2>1, <3>2 DEF j
  <2>2. CASE ~(PREPEND_SIZE <= i /\ i < PREPEND_SIZE + k)
    BY <2>2 DEF IsBuffer
  <2> QED BY <2>1, <2>2
<1> HIDE DEF d, k
<1>4. PREPEND_SIZE + k <= b.size
  BY <1>2 DEF IsBuffer
<1>5. GetReadableSize(b) = k
  BY DEF k
<1> QED BY <1>1, <1>2, <1>3, <1>4, <1>5 DEF IsBuffer

\* Copying bytes into the room behind the write index keeps the indices in order.
LEMMA CopiedIsBuffer ==
    ASSUME NEW n \in Nat, NEW b, IsBuffer(b, n),
           NEW k, NEW bytes, IsBytes(bytes, k, n), k <= GetWritableSize(b)
    PROVE  /\ IsBuffer(Copied(b, bytes), n)
           /\ Copied(b, bytes).size = b.size
           /\ Copied(b, bytes).read = b.read
           /\ Copied(b, bytes).write = b.write + k
<1> DEFINE d == [i \in 0..b.size - 1 |-> IF b.write <= i /\ i < b.write + k
                                        THEN bytes[i - b.write + 1] ELSE b.data[i]]
<1>1. Copied(b, bytes) = [size |-> b.size, data |-> d, read |-> b.read, write |-> b.write + k]
  BY DEF IsBytes, Copied
<1>2. k \in Nat /\ b.write + k <= b.size
  BY DEF IsBuffer, IsBytes, GetWritableSize
<1>3. d \in [0..b.size - 1 -> 0..n]
  <2> SUFFICES ASSUME NEW i \in 0..b.size - 1
               PROVE  (IF b.write <= i /\ i < b.write + k
                       THEN bytes[i - b.write + 1] ELSE b.data[i]) \in 0..n
    OBVIOUS
  <2>1. CASE b.write <= i /\ i < b.write + k
    <3>1. i - b.write + 1 \in 1..Len(bytes)
      BY <1>2, <2>1, Indices DEF IsBytes
    <3>2. bytes[i - b.write + 1] \in 0..n
      BY <3>1 DEF IsBytes
    <3> QED BY <2>1, <3>2
  <2>2. CASE ~(b.write <= i /\ i < b.write + k)
    BY <2>2 DEF IsBuffer
  <2> QED BY <2>1, <2>2
<1> HIDE DEF d
<1> QED BY <1>1, <1>2, <1>3 DEF IsBuffer

\* One of the facts about space is needed by all who make it: when MakeSpace
\* moves, it moves to the front.
LEMMA MoveIsToTheFront ==
    ASSUME NEW n \in Nat, NEW b, IsBuffer(b, n), NEW len \in Nat,
           GetWritableSize(b) < len, ~Grows(b, len)
    PROVE  /\ b.read > PREPEND_SIZE
           /\ b.size - (PREPEND_SIZE + GetReadableSize(b)) >= len
BY DEF IsBuffer, Grows, GetWritableSize, GetPrependSize, GetReadableSize

\* There is room for len bytes afterwards; the storage grew only when
\* what is readable and twice what is asked for outgrew it.
LEMMA EnsureWritableIsBuffer ==
    ASSUME NEW n \in Nat, NEW b, IsBuffer(b, n), NEW len \in Nat
    PROVE  LET e == EnsureWritable(b, len) IN
           /\ IsBuffer(e, n)
           /\ GetWritableSize(e) >= len
           /\ GetReadableSize(e) = GetReadableSize(b)
           /\ b.size <= e.size
           /\ e.size = b.size \/ e.size <= PREPEND_SIZE + GetReadableSize(b) + len + len
<1>1. CASE GetWritableSize(b) >= len
  <2>1. EnsureWritable(b, len) = b
    BY <1>1 DEF EnsureWritable, GetWritableSize, IsBuffer
  <2> QED BY <1>1, <2>1 DEF IsBuffer
<1>2. CASE GetWritableSize(b) < len /\ Grows(b, len)
  <2>1. EnsureWritable(b, len) = Resized(b, b.write + len)
    BY <1>2 DEF EnsureWritable, MakeSpace, Grown
  <2>2. b.write + len \in Nat /\ b.size <= b.write + len
    BY <1>2 DEF IsBuffer, GetWritableSize
  <2> DEFINE e == EnsureWritable(b, len)
  <2>3. /\ IsBuffer(e, n)
        /\ e.size = b.write + len
        /\ e.read = b.read
        /\ e.write = b.write
    BY <2>1, <2>2, ResizedIsBuffer
  <2>4. (b.size - b.write) + b.read < len + PREPEND_SIZE
    BY <1>2 DEF Grows, GetWritableSize, GetPrependSize
  <2> HIDE DEF e
  <2>5. /\ GetWritableSize(e) >= len
        /\ GetReadableSize(e) = GetReadableSize(b)
    BY <2>3 DEF IsBuffer, GetWritableSize, GetReadableSize
  <2>6. b.read <= PREPEND_SIZE + len
    BY <2>4 DEF IsBuffer
  <2>7. b.write = GetReadableSize(b) + b.read /\ GetReadableSize(b) \in Nat /\ b.read \in Nat
    BY DEF IsBuffer, GetReadableSize
  <2>8. b.write + len <= PREPEND_SIZE + GetReadableSize(b) + len + len
    BY <2>6, <2>7
  <2> QED BY <2>2, <2>3, <2>5, <2>8 DEF e
<1>3. CASE GetWritableSize(b) < len /\ ~Grows(b, len)
  <2>1. EnsureWritable(b, len) = Moved(b)
    BY <1>3 DEF EnsureWritable, MakeSpace
  <2>2. b.read > PREPEND_SIZE /\ b.size - (PREPEND_SIZE + GetReadableSize(b)) >= len
    BY <1>3, MoveIsToTheFront
  <2> DEFINE e == EnsureWritable(b, len)
  <2>3. /\ IsBuffer(e, n)
        /\ e.size = b.size
        /\ e.read = PREPEND_SIZE
        /\ e.write = PREPEND_SIZE + GetReadableSize(b)
    BY <2>1, <2>2, MovedIsBuffer, Indices, SMTT(30)
  <2> HIDE DEF e
  <2>4. /\ GetWritableSize(e) >= len
        /\ GetReadableSize(e) = GetReadableSize(b)
    BY <2>2, <2>3 DEF IsBuffer, GetWritableSize, GetReadableSize
  <2> QED BY <2>3, <2>4 DEF e, IsBuffer
<1>4. GetWritableSize(b) \in Int
  BY Indices DEF GetWritableSize
<1> QED BY ONLY <1>1, <1>2, <1>3, <1>4, len \in Nat

\* What each operation returns is a buffer again: Append,
LEMMA AppendIsBuffer ==
    ASSUME NEW n \in Nat, NEW b, IsBuffer(b, n), NEW k, NEW bytes, IsBytes(bytes, k, n)
    PROVE  LET a == Append_(b, bytes) IN
           /\ IsBuffer(a, n)
           /\ GetReadableSize(a) = GetReadableSize(b) + k
           /\ b.size <= a.size
           /\ a.size = b.size \/ a.size <= PREPEND_SIZE + GetReadableSize(b) + k + k
<1> DEFINE e == EnsureWritable(b, k)
<1>1. k \in Nat /\ Append_(b, bytes) = Copied(e, bytes)
  BY DEF Append_, IsBytes
<1>2. /\ IsBuffer(e, n)
      /\ GetWritableSize(e) >= k
      /\ GetReadableSize(e) = GetReadableSize(b)
      /\ b.size <= e.size
      /\ e.size = b.size \/ e.size <= PREPEND_SIZE + GetReadableSize(b) + k + k
  BY <1>1, EnsureWritableIsBuffer
<1> HIDE DEF e
<1>3. k <= GetWritableSize(e)
  BY <1>1, <1>2 DEF GetWritableSize, IsBuffer
<1>4. /\ IsBuffer(Copied(e, bytes), n)
      /\ Copied(e, bytes).size = e.size
      /\ Copied(e, bytes).read = e.read
      /\ Copied(e, bytes).write = e.write + k
  BY <1>2, <1>3, CopiedIsBuffer
<1>5. GetReadableSize(Copied(e, bytes)) = GetReadableSize(b) + k
  BY <1>1, <1>2, <1>4, Indices DEF GetReadableSize
<1> QED BY ONLY <1>1, <1>2, <1>4, <1>5

\* a new one,
LEMMA NewIsBuffer ==
    ASSUME NEW n \in Nat
    PROVE  /\ IsBuffer(New, n)
           /\ New.size = PREPEND_SIZE + INITIAL_SIZE
           /\ GetReadableSize(New) = 0
           /\ GetWritableSize(New) = INITIAL_SIZE
<1>1. [i \in 0..PREPEND_SIZE + INITIAL_SIZE - 1 |-> Junk] \in [0..New.size - 1 -> 0..n]
  BY DEF New, Junk
<1> QED BY <1>1 DEF New, IsBuffer, GetReadableSize, GetWritableSize

\* Retrieve,
LEMMA RetrieveIsBuffer ==
    ASSUME NEW n \in Nat, NEW b, IsBuffer(b, n), PREPEND_SIZE <= b.size,
           NEW len \in Nat
    PROVE  LET r == Retrieve(b, len) IN
           /\ IsBuffer(r, n)
           /\ r.size = b.size
<1>1. CASE len < GetReadableSize(b)
  BY <1>1, SMTT(30) DEF Retrieve, IsBuffer, GetReadableSize
<1>2. CASE ~(len < GetReadableSize(b))
  BY <1>2 DEF Retrieve, RetrieveAll, IsBuffer
<1> QED BY <1>1, <1>2

\* Prepend,
LEMMA PrependIsBuffer ==
    ASSUME NEW n \in Nat, NEW b, IsBuffer(b, n),
           NEW k, NEW bytes, IsBytes(bytes, k, n), k <= GetPrependSize(b)
    PROVE  LET p == Prepend(b, bytes) IN
           /\ IsBuffer(p, n)
           /\ p.size = b.size
<1> DEFINE d == [i \in 0..b.size - 1 |-> IF b.read - k <= i /\ i < b.read
                                        THEN bytes[i - (b.read - k) + 1] ELSE b.data[i]]
<1>1. Prepend(b, bytes) = [size |-> b.size, data |-> d, read |-> b.read - k, write |-> b.write]
  BY DEF IsBytes, Prepend
<1>2. k \in Nat /\ k <= b.read
  BY DEF IsBuffer, IsBytes, GetPrependSize
<1>3. d \in [0..b.size - 1 -> 0..n]
  <2> SUFFICES ASSUME NEW i \in 0..b.size - 1
               PROVE  (IF b.read - k <= i /\ i < b.read
                       THEN bytes[i - (b.read - k) + 1] ELSE b.data[i]) \in 0..n
    OBVIOUS
  <2>1. CASE b.read - k <= i /\ i < b.read
    <3>1. i - (b.read - k) + 1 \in 1..Len(bytes)
      BY <1>2, <2>1, Indices DEF IsBytes
    <3>2. bytes[i - (b.read - k) + 1] \in 0..n
      BY <3>1 DEF IsBytes
    <3> QED BY <2>1, <3>2
  <2>2. CASE ~(b.read - k <= i /\ i < b.read)
    BY <2>2 DEF IsBuffer
  <2> QED BY <2>1, <2>2
<1> HIDE DEF d
<1> QED BY <1>1, <1>2, <1>3 DEF IsBuffer

\* and ReadFd.
LEMMA ReadFdIsBuffer ==
    ASSUME NEW n \in Nat, NEW b, IsBuffer(b, n), NEW k, NEW bytes, IsBytes(bytes, k, n)
    PROVE  LET a == ReadFd(b, bytes) IN
           /\ IsBuffer(a, n)
           /\ b.size <= a.size
           /\ a.size = b.size \/ a.size <= PREPEND_SIZE + GetReadableSize(b) + k + k
<1> DEFINE w == GetWritableSize(b)
<1>0. w \in Nat /\ b.size = b.write + w /\ k \in Nat /\ k = Len(bytes)
  BY DEF IsBuffer, GetWritableSize, IsBytes
<1>1. CASE k <= w
  <2>1. ReadFd(b, bytes) = Copied(b, bytes)
    BY <1>0, <1>1 DEF ReadFd
  <2> QED BY <1>1, <2>1, CopiedIsBuffer DEF IsBuffer
<1>2. CASE ~(k <= w)
  <2> DEFINE first == SubSeq(bytes, 1, w)
  <2> DEFINE rest == SubSeq(bytes, w + 1, k)
  <2> DEFINE c == Copied(b, first)
  <2>1. ReadFd(b, bytes) = Append_(c, rest)
    BY <1>0, <1>2 DEF ReadFd
  <2>2. IsBytes(first, w, n) /\ IsBytes(rest, k - w, n)
    <3> HIDE DEF w
    <3>1. bytes \in Seq(0..n)
      BY DEF IsBytes
    <3>2. first \in Seq(0..n) /\ Len(first) = w
      BY <1>0, <1>2, <3>1, SubSeqProperties
    <3>3. rest \in Seq(0..n) /\ Len(rest) = k - w
      BY <1>0, <1>2, <3>1, SubSeqProperties
    <3> QED BY <1>0, <1>2, <3>2, <3>3 DEF IsBytes
  <2> HIDE DEF first, rest
  <2>3. w <= GetWritableSize(b)
    BY <1>0
  <2>4. IsBuffer(c, n) /\ c.size = b.size /\ c.read = b.read /\ c.write = b.write + w
    BY <2>2, <2>3, CopiedIsBuffer
  <2> DEFINE a == Append_(c, rest)
  <2> HIDE DEF c
  <2>5. /\ IsBuffer(a, n)
        /\ c.size <= a.size
        /\ \/ a.size = c.size
           \/ a.size <= PREPEND_SIZE + GetReadableSize(c) + (k - w) + (k - w)
    BY <2>2, <2>4, AppendIsBuffer
  <2>6. GetReadableSize(c) = GetReadableSize(b) + w /\ GetReadableSize(b) \in Nat
    BY <1>0, <2>4, Indices, SMTT(30) DEF GetReadableSize
  <2> HIDE DEF a, w
  <2>7. a.size \in Nat
    BY <2>5 DEF IsBuffer
  <2>8. a.size = b.size \/ a.size <= PREPEND_SIZE + GetReadableSize(b) + k + k
    BY <1>0, <1>2, <2>4, <2>5, <2>6, <2>7
  <2> QED BY <2>1, <2>4, <2>5, <2>8 DEF a
<1> QED BY <1>1, <1>2

\* Bytes concatenated are bytes.
LEMMA SequencesOfBytes ==
    ASSUME NEW n \in Nat, NEW k \in Nat, NEW bytes,
           bytes = [i \in 1..k |-> bytes[i]], \A i \in 1..k : bytes[i] \in 0..n
    PROVE  IsBytes(bytes, k, n)
BY DEF IsBytes

\* What is readable is a sequence of bytes.
LEMMA ReadableIsBytes ==
    ASSUME NEW n \in Nat, NEW b, IsBuffer(b, n)
    PROVE  IsBytes(Readable(b), GetReadableSize(b), n)
<1> DEFINE k == GetReadableSize(b)
<1>1. k \in Nat /\ b.read + k <= b.size
  BY DEF IsBuffer, GetReadableSize
<1>2. Readable(b) = [i \in 1..k |-> b.data[b.read + i - 1]]
  BY DEF Readable
<1> HIDE DEF k
<1>3. ASSUME NEW i \in 1..k PROVE b.data[b.read + i - 1] \in 0..n
  <2>1. b.read + i - 1 \in 0..b.size - 1
    BY <1>1 DEF IsBuffer
  <2> QED BY <2>1 DEF IsBuffer
<1>4. IsBytes(Readable(b), k, n)
  BY <1>1, <1>2, <1>3, SequencesOfBytes
<1> QED BY <1>4 DEF k

\* The new storage has room for all, so that the copy does not make it grow.
LEMMA ShrinkIsBuffer ==
    ASSUME NEW n \in Nat, NEW b, IsBuffer(b, n), NEW reserve \in Nat
    PROVE  LET s == Shrink(b, reserve) IN
           /\ IsBuffer(s, n)
           /\ \/ s.size = PREPEND_SIZE + INITIAL_SIZE
              \/ s.size = PREPEND_SIZE + GetReadableSize(b) + reserve
           /\ PREPEND_SIZE <= s.size
<1> DEFINE k == GetReadableSize(b)
<1> DEFINE e == EnsureWritable(New, k + reserve)
<1>1. k \in Nat
  BY DEF IsBuffer, GetReadableSize
<1>2. Shrink(b, reserve) = Append_(e, Readable(b))
  BY DEF Shrink
<1>3. IsBytes(Readable(b), k, n)
  BY ReadableIsBytes
<1> HIDE DEF k
<1>4. k + reserve \in Nat
  BY <1>1
<1>5. IsBuffer(e, n) /\ GetWritableSize(e) >= k + reserve
  BY <1>4, NewIsBuffer, EnsureWritableIsBuffer
<1>6. e.size = PREPEND_SIZE + INITIAL_SIZE \/ e.size = PREPEND_SIZE + k + reserve
  <2>1. CASE INITIAL_SIZE < k + reserve
    <3>1. Grows(New, k + reserve)
      BY <2>1, <1>4 DEF Grows, New, GetWritableSize, GetPrependSize
    <3>2. e = Resized(New, PREPEND_SIZE + (k + reserve))
      BY <2>1, <3>1, <1>4 DEF EnsureWritable, MakeSpace, Grown, New, GetWritableSize
    <3> QED BY <3>2, <1>1, <1>4 DEF Resized
  <2>2. CASE ~(INITIAL_SIZE < k + reserve)
    BY <2>2, <1>4 DEF EnsureWritable, New, GetWritableSize
  <2> QED BY <2>1, <2>2
<1> HIDE DEF e
<1>8. k <= GetWritableSize(e)
  <2>1. GetWritableSize(e) \in Int
    BY <1>5, Indices DEF GetWritableSize
  <2> QED BY ONLY <1>1, <1>4, <1>5, <2>1, reserve \in Nat
<1>7. Append_(e, Readable(b)) = Copied(e, Readable(b))
  <2>1. Len(Readable(b)) = k
    BY <1>3 DEF IsBytes
  <2>2. ~(GetWritableSize(e) < k)
    BY <1>1, <1>8, <1>5, Indices DEF GetWritableSize
  <2> QED BY <2>1, <2>2 DEF Append_, EnsureWritable
<1>9. IsBuffer(Copied(e, Readable(b)), n) /\ Copied(e, Readable(b)).size = e.size
  BY <1>3, <1>5, <1>8, CopiedIsBuffer
<1>10. PREPEND_SIZE <= e.size
  BY <1>1, <1>6
<1> QED BY <1>2, <1>6, <1>7, <1>9, <1>10 DEF k

-----------------------------------------------------------------------------
(* What is readable, byte by byte.                                         *)

\* A buffer that has these bytes between its indices reads as them.
LEMMA ReadsAs ==
    ASSUME NEW n \in Nat, NEW b, IsBuffer(b, n), NEW k, NEW bytes, IsBytes(bytes, k, n),
           GetReadableSize(b) = k, \A i \in 1..k : b.data[b.read + i - 1] = bytes[i]
    PROVE  Readable(b) = bytes
<1>1. /\ Readable(b) \in Seq(0..n) /\ Len(Readable(b)) = k
      /\ bytes \in Seq(0..n) /\ Len(bytes) = k
  BY ReadableIsBytes DEF IsBytes
<1>2. \A i \in 1..k : Readable(b)[i] = bytes[i]
  BY DEF Readable
<1> QED BY <1>1, <1>2, SeqEqual

\* The bytes of the storage that are readable.
LEMMA ReadableBytes ==
    ASSUME NEW n \in Nat, NEW b, IsBuffer(b, n)
    PROVE  /\ GetReadableSize(b) \in Nat /\ b.read + GetReadableSize(b) = b.write
           /\ IsBytes(Readable(b), GetReadableSize(b), n)
           /\ \A i \in 1..GetReadableSize(b) : /\ b.read + i - 1 \in 0..b.size - 1
                                               /\ Readable(b)[i] = b.data[b.read + i - 1]
<1>1. GetReadableSize(b) \in Nat /\ b.read + GetReadableSize(b) = b.write
  BY DEF IsBuffer, GetReadableSize
<1>2. \A i \in 1..GetReadableSize(b) : b.read + i - 1 \in 0..b.size - 1
  BY <1>1 DEF IsBuffer
<1> QED BY <1>1, <1>2, ReadableIsBytes DEF Readable

\* A larger vector reads the same,
LEMMA ResizedReads ==
    ASSUME NEW n \in Nat, NEW b, IsBuffer(b, n), NEW m \in Nat, b.size <= m
    PROVE  Readable(Resized(b, m)) = Readable(b)
<1> DEFINE r == Resized(b, m)
<1>1. IsBuffer(r, n) /\ r.read = b.read /\ r.write = b.write
  BY ResizedIsBuffer
<1>2. \A i \in 0..b.size - 1 : r.data[i] = b.data[i]
  BY DEF Resized, IsBuffer
<1> HIDE DEF r
<1>3. GetReadableSize(r) = GetReadableSize(b)
  BY <1>1 DEF GetReadableSize
<1>4. \A i \in 1..GetReadableSize(b) : r.data[r.read + i - 1] = Readable(b)[i]
  BY <1>1, <1>2, ReadableBytes
<1>5. Readable(r) = Readable(b)
  BY <1>1, <1>3, <1>4, ReadableBytes, ReadsAs
<1> QED BY <1>5 DEF r

\* so does one whose bytes were moved,
LEMMA MovedReads ==
    ASSUME NEW n \in Nat, NEW b, IsBuffer(b, n), b.read >= PREPEND_SIZE
    PROVE  Readable(Moved(b)) = Readable(b)
<1> DEFINE r == Moved(b)
<1>1. IsBuffer(r, n) /\ r.read = PREPEND_SIZE /\ r.write = PREPEND_SIZE + GetReadableSize(b)
  BY MovedIsBuffer
<1>2. ASSUME NEW i \in 1..GetReadableSize(b)
      PROVE  r.data[PREPEND_SIZE + i - 1] = Readable(b)[i]
  <2> DEFINE j == PREPEND_SIZE + i - 1
  <2>0. /\ GetReadableSize(b) \in Nat /\ b.read + GetReadableSize(b) = b.write
        /\ b.size \in Nat /\ b.read \in Nat /\ b.write <= b.size
    BY ReadableBytes, Indices
  <2>1. /\ j \in 0..b.size - 1 /\ PREPEND_SIZE <= j /\ j < PREPEND_SIZE + GetReadableSize(b)
        /\ b.read + (j - PREPEND_SIZE) = b.read + i - 1
    BY <2>0
  <2> HIDE DEF j
  <2>2. r.data[j] = b.data[b.read + (j - PREPEND_SIZE)]
    BY <2>1 DEF Moved
  <2>3. b.data[b.read + i - 1] = Readable(b)[i]
    BY ReadableBytes
  <2> QED BY <2>1, <2>2, <2>3 DEF j
<1> HIDE DEF r
<1>3. GetReadableSize(r) = GetReadableSize(b)
  BY <1>1, ReadableBytes DEF GetReadableSize
<1>4. Readable(r) = Readable(b)
  BY <1>1, <1>2, <1>3, ReadableBytes, ReadsAs
<1> QED BY <1>4 DEF r

\* and so whatever space was made.
LEMMA EnsureWritableReads ==
    ASSUME NEW n \in Nat, NEW b, IsBuffer(b, n), NEW len \in Nat
    PROVE  Readable(EnsureWritable(b, len)) = Readable(b)
<1>1. CASE ~(GetWritableSize(b) < len)
  BY <1>1 DEF EnsureWritable
<1>2. CASE GetWritableSize(b) < len /\ Grows(b, len)
  <2>1. EnsureWritable(b, len) = Resized(b, b.write + len)
    BY <1>2 DEF EnsureWritable, MakeSpace, Grown
  <2>2. b.write + len \in Nat /\ b.size <= b.write + len
    BY <1>2 DEF IsBuffer, GetWritableSize
  <2> QED BY <2>1, <2>2, ResizedReads
<1>3. CASE GetWritableSize(b) < len /\ ~Grows(b, len)
  <2>1. EnsureWritable(b, len) = Moved(b)
    BY <1>3 DEF EnsureWritable, MakeSpace
  <2>2. b.read > PREPEND_SIZE
    BY <1>3, MoveIsToTheFront
  <2>3. b.read >= PREPEND_SIZE
    BY <2>2 DEF IsBuffer
  <2> QED BY <2>1, <2>3, MovedReads
<1> QED BY <1>1, <1>2, <1>3

\* Bytes that are copied behind the write index come after the others.
LEMMA CopiedReads ==
    ASSUME NEW n \in Nat, NEW b, IsBuffer(b, n),
           NEW k, NEW bytes, IsBytes(bytes, k, n), k <= GetWritableSize(b)
    PROVE  Readable(Copied(b, bytes)) = Readable(b) \o bytes
<1> DEFINE r == Copied(b, bytes)
<1> DEFINE h == GetReadableSize(b)
<1> DEFINE all == Readable(b) \o bytes
<1>1. IsBuffer(r, n) /\ r.read = b.read /\ r.write = b.write + k
  BY CopiedIsBuffer
<1>2. /\ k \in Nat /\ h \in Nat /\ b.read + h = b.write /\ b.write + k <= b.size
      /\ b.size \in Nat /\ b.read \in Nat /\ b.write \in Nat
  <2>1. k \in Nat
    BY DEF IsBytes
  <2>2. /\ h \in Nat /\ b.read + h = b.write
        /\ b.size \in Nat /\ b.read \in Nat /\ b.write \in Nat
    BY ReadableBytes, Indices
  <2>3. b.write + k <= b.size
    BY <2>1, <2>2 DEF GetWritableSize
  <2> QED BY <2>1, <2>2, <2>3
<1>3. /\ bytes \in Seq(0..n) /\ Len(bytes) = k
      /\ Readable(b) \in Seq(0..n) /\ Len(Readable(b)) = h
  BY ReadableBytes DEF IsBytes
<1>4. /\ all \in Seq(0..n) /\ Len(all) = h + k
      /\ \A i \in 1..h + k : all[i] = IF i <= h THEN Readable(b)[i] ELSE bytes[i - h]
  <2> HIDE DEF h
  <2> QED BY <1>2, <1>3, ConcatProperties
<1>5. ASSUME NEW i \in 1..h + k PROVE r.data[r.read + i - 1] = all[i]
  <2> DEFINE j == b.read + i - 1
  <2> HIDE DEF r, h, all
  <2>1. j \in 0..b.size - 1 /\ r.read + i - 1 = j
    BY <1>1, <1>2
  <2>2. CASE i <= h
    <3>1. ~(b.write <= j) /\ i \in 1..h
      BY <1>2, <2>2
    <3>2. b.data[j] = Readable(b)[i]
      BY <3>1, ReadableBytes DEF h
    <3> HIDE DEF j
    <3>3. r.data[j] = b.data[j]
      BY <2>1, <3>1 DEF Copied, r
    <3> QED BY <1>4, <2>1, <2>2, <3>2, <3>3
  <2>3. CASE ~(i <= h)
    <3>1. b.write <= j /\ j < b.write + Len(bytes) /\ j - b.write + 1 = i - h
      BY <1>2, <1>3, <2>3, SMTT(30) DEF j
    <3> HIDE DEF j
    <3>2. r.data[j] = bytes[i - h]
      BY <2>1, <3>1 DEF Copied, r
    <3> QED BY <1>4, <2>1, <2>3, <3>2
  <2> QED BY <2>2, <2>3
<1>6. IsBytes(all, h + k, n)
  BY <1>2, <1>4 DEF IsBytes
<1>7. GetReadableSize(r) = h + k
  BY <1>1, <1>2 DEF GetReadableSize, IsBuffer
<1> HIDE DEF r, h, all
<1>8. Readable(r) = all
  BY <1>1, <1>5, <1>6, <1>7, ReadsAs
<1> QED BY <1>8 DEF r, all

\* Append puts them at the end, whatever it takes to make the room,
LEMMA AppendReads ==
    ASSUME NEW n \in Nat, NEW b, IsBuffer(b, n), NEW k, NEW bytes, IsBytes(bytes, k, n)
    PROVE  Readable(Append_(b, bytes)) = Readable(b) \o bytes
<1> DEFINE e == EnsureWritable(b, k)
<1>1. k \in Nat /\ Append_(b, bytes) = Copied(e, bytes)
  BY DEF Append_, IsBytes
<1>2. IsBuffer(e, n) /\ GetWritableSize(e) >= k /\ Readable(e) = Readable(b)
  BY <1>1, EnsureWritableIsBuffer, EnsureWritableReads
<1> HIDE DEF e
<1>3. k <= GetWritableSize(e)
  BY <1>1, <1>2, Indices DEF GetWritableSize
<1>4. Readable(Copied(e, bytes)) = Readable(e) \o bytes
  BY ONLY <1>2, <1>3, n \in Nat, IsBytes(bytes, k, n), CopiedReads
<1> QED BY ONLY <1>1, <1>2, <1>4

\* Retrieve takes them from the front,
LEMMA RetrieveReads ==
    ASSUME NEW n \in Nat, NEW b, IsBuffer(b, n), PREPEND_SIZE <= b.size,
           NEW k \in Nat, k <= GetReadableSize(b)
    PROVE  Readable(Retrieve(b, k)) = SubSeq(Readable(b), k + 1, GetReadableSize(b))
<1> DEFINE r == Retrieve(b, k)
<1> DEFINE h == GetReadableSize(b)
<1> DEFINE rest == SubSeq(Readable(b), k + 1, h)
<1>1. /\ h \in Nat /\ b.read + h = b.write /\ b.read \in Nat
      /\ Readable(b) \in Seq(0..n) /\ Len(Readable(b)) = h
  <2>1. IsBytes(Readable(b), h, n) /\ h \in Nat /\ b.read + h = b.write
    BY ReadableBytes
  <2> QED BY <2>1, Indices DEF IsBytes
<1>2. IsBuffer(r, n)
  BY RetrieveIsBuffer
<1>3. rest \in Seq(0..n) /\ Len(rest) = h - k /\ \A i \in 1..h - k : rest[i] = Readable(b)[k + i]
  <2> HIDE DEF h
  <2>1. \A i \in k + 1..h : Readable(b)[i] \in 0..n
    BY <1>1
  <2>2. /\ rest \in Seq(0..n) /\ Len(rest) = (IF k + 1 <= h THEN h - (k + 1) + 1 ELSE 0)
        /\ \A i \in 1..h - (k + 1) + 1 : rest[i] = Readable(b)[k + 1 + i - 1]
    BY <1>1, <2>1, SubSeqProperties
  <2> QED BY <1>1, <2>2 DEF h
<1>4. IsBytes(rest, h - k, n)
  BY <1>1, <1>3 DEF IsBytes
<1>5. CASE k < h
  <2>1. r.data = b.data /\ r.read = b.read + k /\ r.write = b.write
    BY <1>5 DEF Retrieve, IsBuffer
  <2>2. GetReadableSize(r) = h - k
    BY <1>1, <2>1 DEF GetReadableSize
  <2>3. ASSUME NEW i \in 1..h - k PROVE r.data[r.read + i - 1] = rest[i]
    <3>1. k + i \in 1..h /\ r.read + i - 1 = b.read + (k + i) - 1
      BY ONLY <1>1, <1>5, <2>1, k \in Nat, i \in 1..h - k
    <3>2. b.data[b.read + (k + i) - 1] = Readable(b)[k + i]
      BY <3>1, ReadableBytes
    <3> HIDE DEF r, h, rest
    <3> QED BY <1>3, <2>1, <3>1, <3>2
  <2> HIDE DEF r, h, rest
  <2>4. Readable(r) = rest
    BY <1>2, <1>4, <2>2, <2>3, ReadsAs
  <2> QED BY <2>4 DEF r, rest, h
<1>6. CASE ~(k < h)
  <2>1. r.read = PREPEND_SIZE /\ r.write = PREPEND_SIZE /\ h - k = 0
    BY <1>1, <1>6 DEF Retrieve, RetrieveAll
  <2>2. GetReadableSize(r) = 0
    BY <2>1 DEF GetReadableSize
  <2> HIDE DEF r, h, rest
  <2>3. Readable(r) = rest
    BY <1>2, <1>4, <2>1, <2>2, ReadsAs
  <2> QED BY <2>3 DEF r, rest, h
<1> QED BY <1>5, <1>6

\* Prepend puts them in front,
LEMMA PrependReads ==
    ASSUME NEW n \in Nat, NEW b, IsBuffer(b, n),
           NEW k, NEW bytes, IsBytes(bytes, k, n), k <= GetPrependSize(b)
    PROVE  Readable(Prepend(b, bytes)) = bytes \o Readable(b)
<1> DEFINE r == Prepend(b, bytes)
<1> DEFINE h == GetReadableSize(b)
<1> DEFINE all == bytes \o Readable(b)
<1>1. /\ k \in Nat /\ h \in Nat /\ b.read + h = b.write /\ b.write <= b.size /\ k <= b.read
      /\ b.size \in Nat /\ b.read \in Nat /\ b.write \in Nat
  BY ReadableBytes, Indices DEF IsBytes, GetPrependSize
<1>2. /\ bytes \in Seq(0..n) /\ Len(bytes) = k
      /\ Readable(b) \in Seq(0..n) /\ Len(Readable(b)) = h
  BY ReadableBytes DEF IsBytes
<1>3. IsBuffer(r, n)
  BY PrependIsBuffer
<1>4. r.read = b.read - k /\ r.write = b.write
  BY <1>2 DEF Prepend
<1>5. /\ all \in Seq(0..n) /\ Len(all) = k + h
      /\ \A i \in 1..k + h : all[i] = IF i <= k THEN bytes[i] ELSE Readable(b)[i - k]
  <2> HIDE DEF h
  <2> QED BY <1>1, <1>2, ConcatProperties
<1>6. ASSUME NEW i \in 1..k + h PROVE r.data[r.read + i - 1] = all[i]
  <2> DEFINE j == b.read - k + i - 1
  <2> HIDE DEF r, h, all
  <2>1. j \in 0..b.size - 1 /\ r.read + i - 1 = j
    BY <1>1, <1>4
  <2>2. CASE i <= k
    <3>1. b.read - k <= j /\ j < b.read /\ j - (b.read - k) + 1 = i
      BY <1>1, <2>2
    <3> HIDE DEF j
    <3>2. r.data[j] = bytes[i]
      BY <1>2, <2>1, <3>1 DEF Prepend, r
    <3> QED BY <1>5, <2>1, <2>2, <3>2
  <2>3. CASE ~(i <= k)
    <3>1. ~(j < b.read) /\ i - k \in 1..h /\ j = b.read + (i - k) - 1
      BY <1>1, <2>3
    <3>2. b.data[b.read + (i - k) - 1] = Readable(b)[i - k]
      BY <3>1, ReadableBytes DEF h
    <3> HIDE DEF j
    <3>3. r.data[j] = b.data[j]
      BY <2>1, <3>1 DEF Prepend, r
    <3> QED BY <1>5, <2>1, <2>3, <3>1, <3>2, <3>3
  <2> QED BY <2>2, <2>3
<1>7. IsBytes(all, k + h, n)
  BY <1>1, <1>5 DEF IsBytes
<1>8. GetReadableSize(r) = k + h
  BY <1>1, <1>4 DEF GetReadableSize
<1> HIDE DEF r, h, all
<1>9. Readable(r) = all
  BY <1>3, <1>6, <1>7, <1>8, ReadsAs
<1> QED BY <1>9 DEF r, all

\* ReadFd puts at the end what went into the storage and what went into extra_buf,
LEMMA ReadFdReads ==
    ASSUME NEW n \in Nat, NEW b, IsBuffer(b, n), NEW k, NEW bytes, IsBytes(bytes, k, n)
    PROVE  Readable(ReadFd(b, bytes)) = Readable(b) \o bytes
<1> DEFINE w == GetWritableSize(b)
<1>1. w \in Nat /\ k \in Nat /\ bytes \in Seq(0..n) /\ k = Len(bytes)
  BY Indices DEF GetWritableSize, IsBytes
<1>2. CASE k <= w
  <2>1. ReadFd(b, bytes) = Copied(b, bytes)
    BY <1>1, <1>2 DEF ReadFd
  <2> QED BY <1>2, <2>1, CopiedReads
<1>3. CASE ~(k <= w)
  <2> DEFINE first == SubSeq(bytes, 1, w)
  <2> DEFINE rest == SubSeq(bytes, w + 1, k)
  <2> DEFINE c == Copied(b, first)
  <2>1. ReadFd(b, bytes) = Append_(c, rest)
    BY <1>1, <1>3 DEF ReadFd
  <2>2. IsBytes(first, w, n) /\ IsBytes(rest, k - w, n) /\ first \o rest = bytes
    <3> HIDE DEF w
    <3>1. first \in Seq(0..n) /\ Len(first) = w
      BY <1>1, <1>3, SubSeqProperties
    <3>2. rest \in Seq(0..n) /\ Len(rest) = k - w
      BY <1>1, <1>3, SubSeqProperties
    <3>3. first \o rest = SubSeq(bytes, 1, k)
      <4>1. /\ 1 \in 1..Len(bytes) + 1 /\ w \in 1 - 1..Len(bytes)
            /\ Len(bytes) \in w..Len(bytes)
        BY <1>1, <1>3
      <4>2. SubSeq(bytes, 1, w) \o SubSeq(bytes, w + 1, Len(bytes)) = SubSeq(bytes, 1, Len(bytes))
        BY <1>1, <4>1, ConcatAdjacentSubSeq
      <4> QED BY <1>1, <4>2
    <3>4. SubSeq(bytes, 1, k) = bytes
      BY <1>1, SubSeqFull
    <3> QED BY <1>1, <1>3, <3>1, <3>2, <3>3, <3>4 DEF IsBytes
  <2> HIDE DEF first, rest
  <2>3. w <= GetWritableSize(b)
    BY <1>1
  <2>4. IsBuffer(c, n) /\ Readable(c) = Readable(b) \o first
    BY <2>2, <2>3, CopiedIsBuffer, CopiedReads
  <2> HIDE DEF c, w
  <2>5. Readable(Append_(c, rest)) = (Readable(b) \o first) \o rest
    <3>1. IsBuffer(c, n) /\ IsBytes(rest, k - w, n) /\ n \in Nat
      BY <2>2, <2>4
    <3>2. Readable(Append_(c, rest)) = Readable(c) \o rest
      BY ONLY <3>1, AppendReads
    <3> QED BY ONLY <2>4, <3>2
  <2>6. (Readable(b) \o first) \o rest = Readable(b) \o (first \o rest)
    <3>1. Readable(b) \in Seq(0..n) /\ first \in Seq(0..n) /\ rest \in Seq(0..n)
      BY <2>2, ReadableIsBytes DEF IsBytes
    <3> QED BY ONLY <3>1, ConcatAssociative
  <2> QED BY <2>1, <2>2, <2>5, <2>6
<1> QED BY <1>2, <1>3

\* and Shrink keeps what there is.
LEMMA ShrinkReads ==
    ASSUME NEW n \in Nat, NEW b, IsBuffer(b, n), NEW reserve \in Nat
    PROVE  Readable(Shrink(b, reserve)) = Readable(b)
<1> DEFINE k == GetReadableSize(b)
<1> DEFINE e == EnsureWritable(New, k + reserve)
<1>1. Shrink(b, reserve) = Append_(e, Readable(b))
  BY DEF Shrink
<1>2. k \in Nat /\ IsBytes(Readable(b), k, n)
  BY ReadableBytes
<1> HIDE DEF k
<1>3. k + reserve \in Nat
  BY <1>2
<1>4. IsBuffer(e, n) /\ GetReadableSize(e) = 0
  BY <1>3, NewIsBuffer, EnsureWritableIsBuffer
<1> HIDE DEF e
<1>5. Readable(e) = <<>>
  BY <1>4, ReadableIsBytes, EmptySeq DEF IsBytes
<1>6. Readable(Append_(e, Readable(b))) = Readable(e) \o Readable(b)
  BY ONLY <1>2, <1>4, n \in Nat, AppendReads
<1>7. <<>> \o Readable(b) = Readable(b)
  BY <1>2, ConcatEmptySeq DEF IsBytes
<1> QED BY <1>1, <1>5, <1>6, <1>7

-----------------------------------------------------------------------------
(* The invariant.                                                          *)

\* RetrieveAll puts the indices behind the reserve, so that a storage must
\* never be smaller than it.
IInv == TypeOK /\ PREPEND_SIZE <= buf.size /\ BoundedStorage

\* So is what a call appends.
LEMMA FreshIsBytes ==
    ASSUME TypeOK, NEW k \in Nat
    PROVE  /\ IsBytes(Fresh(k), k, put + k)
           /\ IsBuffer(buf, put + k)
<1>1. put \in Nat /\ IsBuffer(buf, put)
  BY DEF TypeOK
<1>2. IsBytes(Fresh(k), k, put + k)
  <2>1. Fresh(k) = [i \in 1..k |-> put + i]
    BY DEF Fresh
  <2>2. put + k \in Nat /\ \A i \in 1..k : put + i \in 0..put + k
    BY <1>1
  <2> QED BY <2>1, <2>2, SequencesOfBytes
<1>3. buf.data \in [0..buf.size - 1 -> 0..put + k]
  <2>1. 0..put \subseteq 0..put + k
    BY <1>1
  <2>2. buf.data \in [0..buf.size - 1 -> 0..put]
    BY <1>1 DEF IsBuffer
  <2> QED BY <2>1, <2>2
<1> QED BY <1>1, <1>2, <1>3 DEF IsBuffer

\* The bound on the storage grows with what it bounds.
LEMMA LargerIsABound ==
    ASSUME NEW m \in Nat, NEW n \in Nat, NEW o \in Nat, n <= o
    PROVE  /\ Larger(m, n) \in Nat /\ Larger(m, o) \in Nat
           /\ Larger(m, n) <= Larger(m, o)
           /\ m <= Larger(m, n)
           /\ n <= Larger(m, n) /\ o <= Larger(m, o)
BY DEF Larger

\* a is what was asked for so far and a2 with this call, size and size2 are
\* those of the storage before and after it.
LEMMA BoundIsKept ==
    ASSUME NEW size \in Nat, NEW size2 \in Nat, NEW a \in Nat, NEW a2 \in Nat,
           NEW r \in Nat, NEW k \in Nat, a <= a2, r + k <= a2, k <= MaxLen,
           size <= PREPEND_SIZE + Larger(INITIAL_SIZE, a + MaxLen),
           \/ size2 = size
           \/ size2 = PREPEND_SIZE + INITIAL_SIZE
           \/ size2 <= PREPEND_SIZE + r + k + k
    PROVE  size2 <= PREPEND_SIZE + Larger(INITIAL_SIZE, a2 + MaxLen)
<1> DEFINE most == Larger(INITIAL_SIZE, a + MaxLen)
<1> DEFINE most2 == Larger(INITIAL_SIZE, a2 + MaxLen)
<1>1. /\ a + MaxLen \in Nat /\ a2 + MaxLen \in Nat
      /\ a + MaxLen <= a2 + MaxLen /\ r + k + k <= a2 + MaxLen
  OBVIOUS
<1>2. /\ most \in Nat /\ most2 \in Nat
      /\ most <= most2 /\ INITIAL_SIZE <= most2 /\ a2 + MaxLen <= most2
  BY <1>1, LargerIsABound
<1>3. size <= PREPEND_SIZE + most
  OBVIOUS
<1> HIDE DEF most, most2
<1>4. size2 <= PREPEND_SIZE + most2
  BY <1>1, <1>2, <1>3
<1> QED BY <1>4 DEF most2

\* What a call must show of the buffer it leaves: that it is one, keeps the
\* reserve and is no larger than it was or than what was asked for.
LEMMA HoldKeepsInvariant ==
    ASSUME IInv, NEW b, NEW k \in 0..MaxLen, Hold(b, k),
           put' \in 0..MaxPut, IsBuffer(b, put'), PREPEND_SIZE <= b.size,
           \/ b.size = buf.size
           \/ b.size = PREPEND_SIZE + INITIAL_SIZE
           \/ b.size <= PREPEND_SIZE + GetReadableSize(buf) + k + k
    PROVE  IInv'
<1> DEFINE r == GetReadableSize(buf)
<1>1. r \in Nat /\ asked \in Nat /\ buf.size \in Nat /\ b.size \in Nat /\ k \in Nat /\ k <= MaxLen
  BY Indices DEF IInv, TypeOK, GetReadableSize
<1>2. buf' = b /\ asked' = Larger(asked, r + k)
  BY DEF Hold
<1>3. buf.size <= PREPEND_SIZE + Larger(INITIAL_SIZE, asked + MaxLen)
  BY DEF IInv, BoundedStorage
<1> HIDE DEF r
<1>4. asked' \in Nat /\ asked <= asked' /\ r + k <= asked'
  BY <1>1, <1>2 DEF Larger
<1>5. b.size <= PREPEND_SIZE + Larger(INITIAL_SIZE, asked' + MaxLen)
  BY <1>1, <1>3, <1>4, BoundIsKept DEF r
<1>6. TypeOK'
  BY <1>2, <1>4 DEF TypeOK, IsBuffer
<1>7. BoundedStorage'
  BY <1>2, <1>5 DEF BoundedStorage, Larger
<1> QED BY <1>2, <1>6, <1>7 DEF IInv

\* The invariant holds at first,
LEMMA InitInvariant == Init => IInv
<1> SUFFICES ASSUME Init PROVE IInv
  OBVIOUS
<1>1. buf = New /\ put = 0 /\ asked = 0
  BY DEF Init
<1>2. IsBuffer(buf, put) /\ buf.size = PREPEND_SIZE + INITIAL_SIZE
  BY <1>1, NewIsBuffer
<1>3. INITIAL_SIZE <= Larger(INITIAL_SIZE, asked + MaxLen)
      /\ Larger(INITIAL_SIZE, asked + MaxLen) \in Nat
  BY <1>1 DEF Larger
<1>4. BoundedStorage
  BY <1>2, <1>3 DEF BoundedStorage
<1> QED BY <1>1, <1>2, <1>4 DEF IInv, TypeOK

\* and every step keeps it.
LEMMA NextInvariant == IInv /\ [Next]_vars => IInv'
<1> SUFFICES ASSUME IInv, [Next]_vars PROVE IInv'
  OBVIOUS
<1>1. TypeOK /\ put \in Nat /\ IsBuffer(buf, put) /\ PREPEND_SIZE <= buf.size /\ buf.size \in Nat
  BY DEF IInv, TypeOK, IsBuffer
<1>2. ASSUME NEW k \in 0..MaxLen, CallAppend(k) PROVE IInv'
  <2> DEFINE b == Append_(buf, Fresh(k))
  <2>1. k \in Nat /\ put' = put + k /\ put' \in 0..MaxPut /\ Hold(b, k)
    BY <1>1, <1>2 DEF CallAppend
  <2>2. /\ IsBuffer(b, put + k)
        /\ buf.size <= b.size
        /\ b.size = buf.size \/ b.size <= PREPEND_SIZE + GetReadableSize(buf) + k + k
    BY <1>1, <2>1, FreshIsBytes, AppendIsBuffer
  <2> HIDE DEF b
  <2>3. PREPEND_SIZE <= b.size
    BY <1>1, <2>2 DEF IsBuffer
  <2> QED BY <2>1, <2>2, <2>3, HoldKeepsInvariant
<1>3. ASSUME NEW k \in 0..MaxLen, CallReadFd(k) PROVE IInv'
  <2> DEFINE b == ReadFd(buf, Fresh(k))
  <2>1. k \in Nat /\ put' = put + k /\ put' \in 0..MaxPut /\ Hold(b, k)
    BY <1>1, <1>3 DEF CallReadFd
  <2>2. /\ IsBuffer(b, put + k)
        /\ buf.size <= b.size
        /\ b.size = buf.size \/ b.size <= PREPEND_SIZE + GetReadableSize(buf) + k + k
    BY <1>1, <2>1, FreshIsBytes, ReadFdIsBuffer
  <2> HIDE DEF b
  <2>3. PREPEND_SIZE <= b.size
    BY <1>1, <2>2 DEF IsBuffer
  <2> QED BY <2>1, <2>2, <2>3, HoldKeepsInvariant
<1>4. ASSUME NEW k \in 0..MaxLen, CallPrepend(k) PROVE IInv'
  <2> DEFINE b == Prepend(buf, Fresh(k))
  <2>1. k \in Nat /\ put' = put + k /\ put' \in 0..MaxPut /\ Hold(b, k) /\ k <= GetPrependSize(buf)
    BY <1>1, <1>4 DEF CallPrepend
  <2>2. IsBuffer(b, put + k) /\ b.size = buf.size
    BY <1>1, <2>1, FreshIsBytes, PrependIsBuffer
  <2> HIDE DEF b
  <2> QED BY <1>1, <2>1, <2>2, HoldKeepsInvariant
<1>5. ASSUME NEW k \in 0..MaxLen, CallRetrieve(k) PROVE IInv'
  <2> DEFINE b == Retrieve(buf, k)
  <2>1. k \in Nat /\ put' = put /\ put' \in 0..MaxPut /\ Hold(b, 0) /\ 0 \in 0..MaxLen
    BY <1>1, <1>5 DEF CallRetrieve, TypeOK
  <2>2. IsBuffer(b, put) /\ b.size = buf.size
    BY <1>1, <2>1, RetrieveIsBuffer
  <2> HIDE DEF b
  <2> QED BY <1>1, <2>1, <2>2, HoldKeepsInvariant
<1>6. ASSUME NEW k \in 0..MaxLen, CallEnsureWritable(k) PROVE IInv'
  <2> DEFINE b == EnsureWritable(buf, k)
  <2>1. k \in Nat /\ put' = put /\ put' \in 0..MaxPut /\ Hold(b, k)
    BY <1>1, <1>6 DEF CallEnsureWritable, TypeOK
  <2>2. /\ IsBuffer(b, put)
        /\ buf.size <= b.size
        /\ b.size = buf.size \/ b.size <= PREPEND_SIZE + GetReadableSize(buf) + k + k
    BY <1>1, <2>1, EnsureWritableIsBuffer
  <2> HIDE DEF b
  <2>3. PREPEND_SIZE <= b.size
    BY <1>1, <2>2 DEF IsBuffer
  <2> QED BY <2>1, <2>2, <2>3, HoldKeepsInvariant
<1>7. ASSUME NEW k \in 0..MaxLen, CallShrink(k) PROVE IInv'
  <2> DEFINE b == Shrink(buf, k)
  <2>1. k \in Nat /\ put' = put /\ put' \in 0..MaxPut /\ Hold(b, k)
    BY <1>1, <1>7 DEF CallShrink, TypeOK
  <2>2. /\ IsBuffer(b, put)
        /\ \/ b.size = PREPEND_SIZE + INITIAL_SIZE
           \/ b.size = PREPEND_SIZE + GetReadableSize(buf) + k
        /\ PREPEND_SIZE <= b.size
    BY <1>1, <2>1, ShrinkIsBuffer
  <2>3. GetReadableSize(buf) \in Nat
    BY <1>1 DEF IsBuffer, GetReadableSize
  <2> HIDE DEF b
  <2>4. \/ b.size = PREPEND_SIZE + INITIAL_SIZE
        \/ b.size <= PREPEND_SIZE + GetReadableSize(buf) + k + k
    BY <2>1, <2>2, <2>3
  <2> QED BY <2>1, <2>2, <2>4, HoldKeepsInvariant
<1>8. CASE UNCHANGED vars
  BY <1>8 DEF vars, IInv, TypeOK, BoundedStorage, IsBuffer, Larger
<1> QED BY <1>2, <1>3, <1>4, <1>5, <1>6, <1>7, <1>8 DEF Next

-----------------------------------------------------------------------------
(* The theorems.                                                           *)

\* The indices of the buffer stay in order and inside its storage, for every
\* sequence of calls of Append, ReadFd, Prepend, Retrieve, EnsureWritable and
\* Shrink.
THEOREM IndicesInBounds == Spec => []TypeOK
<1>1. IInv => TypeOK
  BY DEF IInv
<1> QED BY <1>1, InitInvariant, NextInvariant, PTL DEF Spec

\* MakeSpace never moves the bytes backwards over themselves, and makes the
\* room that was asked for.
THEOREM MovesAreSafe == Spec => []MoveIsSafe
<1>1. IInv => MoveIsSafe
  <2> SUFFICES ASSUME IInv, NEW len \in 0..MaxLen,
                      GetWritableSize(buf) < len, ~Grows(buf, len)
               PROVE  buf.read > PREPEND_SIZE /\ GetWritableSize(Moved(buf)) >= len
    BY DEF MoveIsSafe
  <2>1. put \in Nat /\ IsBuffer(buf, put) /\ len \in Nat
    BY DEF IInv, TypeOK
  <2>2. buf.read > PREPEND_SIZE /\ buf.size - (PREPEND_SIZE + GetReadableSize(buf)) >= len
    BY <2>1, MoveIsToTheFront
  <2>3. GetWritableSize(Moved(buf)) = buf.size - (PREPEND_SIZE + GetReadableSize(buf))
    BY DEF Moved, GetWritableSize
  <2> QED BY <2>2, <2>3
<1> QED BY <1>1, InitInvariant, NextInvariant, PTL DEF Spec

\* The storage is bounded by what was asked for and not by what has passed
\* through it.
THEOREM StorageIsBounded == Spec => []BoundedStorage
<1>1. IInv => BoundedStorage
  BY DEF IInv
<1> QED BY <1>1, InitInvariant, NextInvariant, PTL DEF Spec

\* The buffer is a queue of bytes, for every size of the reserve, the storage
\* and extra_buf: no sequence of calls loses, repeats or reorders a byte, although
\* they move the bytes, make the storage larger or smaller and write in front of
\* the first one.
THEOREM BufferIsAQueue == Spec => RefinesQueue
<1>1. ASSUME Init PROVE Queue!Init
  <2>1. buf = New /\ put = 0 /\ put \in Nat
    BY <1>1 DEF Init
  <2>2. IsBuffer(buf, put) /\ GetReadableSize(buf) = 0
    BY <2>1, NewIsBuffer
  <2>3. Readable(buf) = <<>>
    BY <2>1, <2>2, ReadableIsBytes, EmptySeq DEF IsBytes
  <2> QED BY <2>1, <2>3 DEF Queue!Init
<1>2. ASSUME IInv, [Next]_vars PROVE [Queue!Next]_(Queue!queueVars)
  <2>1. /\ put \in Nat /\ IsBuffer(buf, put) /\ PREPEND_SIZE <= buf.size
        /\ Len(Readable(buf)) = GetReadableSize(buf)
    BY <1>2, ReadableIsBytes DEF IInv, TypeOK, IsBytes
  <2>2. ASSUME NEW k \in 0..MaxLen
        PROVE  /\ k \in Nat /\ put + k \in Nat
               /\ IsBytes(Fresh(k), k, put + k) /\ IsBuffer(buf, put + k)
               /\ Fresh(k) = Queue!Fresh(k)
    BY <1>2, <2>1, FreshIsBytes DEF IInv, Fresh, Queue!Fresh
  <2>3. ASSUME NEW k \in 0..MaxLen, CallAppend(k) PROVE Queue!Put(k)
    <3>1. buf' = Append_(buf, Fresh(k)) /\ put' = put + k
      BY <2>3 DEF CallAppend, Hold
    <3>2. Readable(Append_(buf, Fresh(k))) = Readable(buf) \o Fresh(k)
      <4>1. put + k \in Nat /\ IsBytes(Fresh(k), k, put + k) /\ IsBuffer(buf, put + k)
        BY <2>2
      <4> QED BY ONLY <4>1, AppendReads
    <3> QED BY <2>2, <3>1, <3>2 DEF Queue!Put, Readable, GetReadableSize
  <2>4. ASSUME NEW k \in 0..MaxLen, CallReadFd(k) PROVE Queue!Put(k)
    <3>1. buf' = ReadFd(buf, Fresh(k)) /\ put' = put + k
      BY <2>4 DEF CallReadFd, Hold
    <3>2. Readable(ReadFd(buf, Fresh(k))) = Readable(buf) \o Fresh(k)
      <4>1. put + k \in Nat /\ IsBytes(Fresh(k), k, put + k) /\ IsBuffer(buf, put + k)
        BY <2>2
      <4> QED BY ONLY <4>1, ReadFdReads
    <3> QED BY <2>2, <3>1, <3>2 DEF Queue!Put, Readable, GetReadableSize
  <2>5. ASSUME NEW k \in 0..MaxLen, CallPrepend(k) PROVE Queue!PutFront(k)
    <3>1. buf' = Prepend(buf, Fresh(k)) /\ put' = put + k /\ k <= GetPrependSize(buf)
      BY <2>5 DEF CallPrepend, Hold
    <3>2. Readable(Prepend(buf, Fresh(k))) = Fresh(k) \o Readable(buf)
      <4>1. put + k \in Nat /\ IsBytes(Fresh(k), k, put + k) /\ IsBuffer(buf, put + k)
        BY <2>2
      <4> QED BY ONLY <3>1, <4>1, PrependReads
    <3> QED BY <2>2, <3>1, <3>2 DEF Queue!PutFront, Readable, GetReadableSize
  <2>6. ASSUME NEW k \in 0..MaxLen, CallRetrieve(k) PROVE Queue!Take(k)
    <3>1. buf' = Retrieve(buf, k) /\ put' = put /\ k <= GetReadableSize(buf)
      BY <2>6 DEF CallRetrieve, Hold
    <3>2. Readable(Retrieve(buf, k)) = SubSeq(Readable(buf), k + 1, Len(Readable(buf)))
      BY <2>1, <2>2, <3>1, RetrieveReads
    <3> QED BY <2>1, <2>2, <3>1, <3>2 DEF Queue!Take, Readable, GetReadableSize
  <2>7. ASSUME NEW k \in 0..MaxLen, CallEnsureWritable(k) PROVE UNCHANGED Queue!queueVars
    <3>1. buf' = EnsureWritable(buf, k) /\ put' = put
      BY <2>7 DEF CallEnsureWritable, Hold
    <3>2. Readable(EnsureWritable(buf, k)) = Readable(buf)
      BY <2>1, <2>2, EnsureWritableReads
    <3> QED BY <3>1, <3>2 DEF Queue!queueVars, Readable, GetReadableSize
  <2>8. ASSUME NEW k \in 0..MaxLen, CallShrink(k) PROVE UNCHANGED Queue!queueVars
    <3>1. buf' = Shrink(buf, k) /\ put' = put
      BY <2>8 DEF CallShrink, Hold
    <3>2. Readable(Shrink(buf, k)) = Readable(buf)
      BY <2>1, <2>2, ShrinkReads
    <3> QED BY <3>1, <3>2 DEF Queue!queueVars, Readable, GetReadableSize
  <2>9. CASE UNCHANGED vars
    BY <2>9 DEF vars, Queue!queueVars, Readable, GetReadableSize
  <2> QED BY <1>2, <2>3, <2>4, <2>5, <2>6, <2>7, <2>8, <2>9 DEF Next, Queue!Next
<1> QED BY <1>1, <1>2, InitInvariant, NextInvariant, PTL DEF Spec, RefinesQueue, Queue!Spec
=============================================================================

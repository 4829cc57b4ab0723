-------------------------- MODULE ConnectionProofs --------------------------
(***************************************************************************)
(* The streams of a connection proved intact, for sockets, messages and    *)
(* streams of any size.                                                    *)
(***************************************************************************)
EXTENDS Connection, SequenceTheorems, TLAPS

-----------------------------------------------------------------------------
(* Sequences.                                                              *)

\* The operators of the lemmas below: the second sequence goes behind the first;
\* what has arrived, what is under way and what still waits.
Behind(s, t) == s \o t
Joined(a, b, c) == Behind(Behind(a, b), c)

\* What is put behind keeps its type.
LEMMA BehindType ==
    ASSUME NEW S, NEW a \in Seq(S), NEW b \in Seq(S)
    PROVE  Behind(a, b) \in Seq(S)
  BY ConcatProperties DEF Behind

\* In which order the parts are put together makes no difference.
LEMMA BehindAssociative ==
    ASSUME NEW S, NEW a \in Seq(S), NEW b \in Seq(S), NEW c \in Seq(S)
    PROVE  Behind(Behind(a, b), c) = Behind(a, Behind(b, c))
  BY ConcatAssociative DEF Behind

\* A sequence cut in two.
LEMMA Cut ==
    ASSUME NEW S, NEW s \in Seq(S), NEW n \in 0..Len(s)
    PROVE  /\ Taken(s, n) \in Seq(S) /\ Len(Taken(s, n)) = n
           /\ Rest(s, n) \in Seq(S) /\ Len(Rest(s, n)) = Len(s) - n
           /\ Behind(Taken(s, n), Rest(s, n)) = s
           /\ \A i \in 1..n : Taken(s, n)[i] = s[i]
           /\ \A i \in 1..Len(s) - n : Rest(s, n)[i] = s[n + i]
  <1>1. Len(s) \in Nat /\ n \in Nat
    BY LenProperties
  <1>2. \A i \in 1..Len(s) : s[i] \in S
    BY ElementOfSeq
  <1>3. /\ Taken(s, n) \in Seq(S) /\ Len(Taken(s, n)) = n
        /\ \A i \in 1..n : Taken(s, n)[i] = s[i]
    <2>1. \A i \in 1..n : s[i] \in S
      BY <1>1, <1>2
    <2>2. /\ SubSeq(s, 1, n) \in Seq(S)
          /\ Len(SubSeq(s, 1, n)) = IF 1 <= n THEN n - 1 + 1 ELSE 0
          /\ \A i \in 1..n - 1 + 1 : SubSeq(s, 1, n)[i] = s[1 + i - 1]
      BY <1>1, <2>1, SubSeqProperties
    <2>. QED  BY <1>1, <2>2 DEF Taken
  <1>4. /\ Rest(s, n) \in Seq(S) /\ Len(Rest(s, n)) = Len(s) - n
        /\ \A i \in 1..Len(s) - n : Rest(s, n)[i] = s[n + i]
    <2>1. \A i \in n + 1..Len(s) : s[i] \in S
      BY <1>1, <1>2
    <2>2. /\ SubSeq(s, n + 1, Len(s)) \in Seq(S)
          /\ Len(SubSeq(s, n + 1, Len(s))) = IF n + 1 <= Len(s) THEN Len(s) - (n + 1) + 1 ELSE 0
          /\ \A i \in 1..Len(s) - (n + 1) + 1 : SubSeq(s, n + 1, Len(s))[i] = s[n + 1 + i - 1]
      BY <1>1, <2>1, SubSeqProperties
    <2>3. \A i \in 1..Len(s) - n : n + 1 + i - 1 = n + i
      BY <1>1
    <2>. QED  BY <1>1, <2>2, <2>3 DEF Rest
  <1>5. Behind(Taken(s, n), Rest(s, n)) = s
    <2>1. SubSeq(s, 1, n) \o SubSeq(s, n + 1, Len(s)) = SubSeq(s, 1, Len(s))
      <3>1. 1 \in 1..Len(s) + 1 /\ n \in 1 - 1..Len(s) /\ Len(s) \in n..Len(s)
        BY <1>1
      <3>. QED  BY <3>1, ConcatAdjacentSubSeq
    <2>. QED  BY <2>1, SubSeqFull DEF Taken, Rest, Behind
  <1>. QED  BY <1>3, <1>4, <1>5

\* Consecutive numbers.
LEMMA NumbersFacts ==
    ASSUME NEW m \in Nat, NEW a \in Nat, NEW b \in Nat, a <= b, b <= m
    PROVE  /\ Numbers(a, b) \in Seq(1..m)
           /\ Len(Numbers(a, b)) = b - a
           /\ \A i \in 1..b - a : Numbers(a, b)[i] = a + i
  <1>1. b - a \in Nat
    OBVIOUS
  <1>2. \A i \in 1..b - a : a + i \in 1..m
    OBVIOUS
  <1>. QED  BY <1>1, <1>2 DEF Numbers

\* Numbers from one on.
LEMMA FirstNumbers ==
    ASSUME NEW m \in Nat, NEW b \in Nat, b <= m
    PROVE  /\ Numbers(0, b) \in Seq(1..m)
           /\ Len(Numbers(0, b)) = b
           /\ \A i \in 1..b : Numbers(0, b)[i] = i
  <1>1. b - 0 = b /\ \A i \in 1..b : 0 + i = i /\ i \in 1..m
    OBVIOUS
  <1>2. Numbers(0, b) = [i \in 1..b |-> i]
    BY <1>1 DEF Numbers
  <1>. QED  BY <1>1, <1>2

\* More numbers behind those there are.
LEMMA NumbersGrow ==
    ASSUME NEW m \in Nat, NEW a \in Nat, NEW b \in Nat, a <= b, b <= m
    PROVE  Behind(Numbers(0, a), Numbers(a, b)) = Numbers(0, b)
  <1>. DEFINE s == Numbers(0, a)
              t == Numbers(a, b)
              u == Numbers(0, b)
  <1>0. 0 <= a /\ a <= m /\ 0 <= b /\ b - a \in Nat
    OBVIOUS
  <1>1. s \in Seq(1..m) /\ Len(s) = a /\ \A i \in 1..a : s[i] = i
    BY <1>0, FirstNumbers
  <1>2. t \in Seq(1..m) /\ Len(t) = b - a /\ \A i \in 1..b - a : t[i] = a + i
    BY NumbersFacts
  <1>3. u \in Seq(1..m) /\ Len(u) = b /\ \A i \in 1..b : u[i] = i
    BY <1>0, FirstNumbers
  <1>. HIDE DEF s, t, u
  <1>4. /\ s \o t \in Seq(1..m)
        /\ Len(s \o t) = Len(s) + Len(t)
        /\ \A i \in 1..Len(s) + Len(t) :
              (s \o t)[i] = IF i <= Len(s) THEN s[i] ELSE t[i - Len(s)]
    BY <1>1, <1>2, ConcatProperties
  <1>5. \A i \in 1..b : (s \o t)[i] = u[i]
    <2>. SUFFICES ASSUME NEW i \in 1..b
                  PROVE  (s \o t)[i] = u[i]
      OBVIOUS
    <2>1. u[i] = i /\ (s \o t)[i] = IF i <= a THEN s[i] ELSE t[i - a]
      <3>1. i \in 1..Len(s) + Len(t)
        BY <1>0, <1>1, <1>2
      <3>2. (s \o t)[i] = IF i <= Len(s) THEN s[i] ELSE t[i - Len(s)]
        BY <3>1, <1>4
      <3>. QED  BY <3>2, <1>1, <1>3
    <2>2. i <= a => s[i] = i
      BY <1>1
    <2>3. ~(i <= a) => t[i - a] = i
      <3>. SUFFICES ASSUME ~(i <= a)
                    PROVE  t[i - a] = i
        OBVIOUS
      <3>1. PICK j \in 1..b - a : j = i - a
        OBVIOUS
      <3>2. t[j] = a + j
        BY <1>2
      <3>. QED  BY <3>1, <3>2
    <2>. QED  BY <2>1, <2>2, <2>3
  <1>6. s \o t = u
    BY <1>1, <1>2, <1>3, <1>4, <1>5, SeqEqual
  <1>. QED  BY <1>6 DEF s, t, u, Behind

\* What is a prefix of the first numbers.
LEMMA PrefixOfNumbers ==
    ASSUME NEW m \in Nat, NEW b \in Nat, b <= m, NEW s \in Seq(1..m)
    PROVE  IsPrefix(s, Numbers(0, b)) <=> /\ Len(s) <= b
                                          /\ \A i \in 1..Len(s) : s[i] = i
  <1>1. PICK t \in Seq(1..m) : /\ t = Numbers(0, b)
                                /\ Len(t) = b /\ \A i \in 1..b : t[i] = i
    BY FirstNumbers
  <1>2. PICK n \in Nat : n = Len(s) /\ Taken(s, n) = s
    BY SubSeqFull, LenProperties DEF Taken
  <1>3. CASE n <= b
    <2>1. n \in 0..Len(t)
      BY <1>1, <1>3
    <2>2. PICK r \in Seq(1..m) : /\ r = Taken(t, n)
                                  /\ Len(r) = n /\ \A i \in 1..n : r[i] = t[i]
      BY ONLY <2>1, Cut
    <2>3. \A i \in 1..n : r[i] = i
      BY <2>2, <1>1, <1>2, <1>3
    <2>4. s = r <=> \A i \in 1..n : s[i] = i
      <3>1. ASSUME \A i \in 1..n : s[i] = i PROVE s = r
        <4>1. Len(s) = Len(r) /\ \A i \in 1..Len(s) : s[i] = r[i]
          BY <1>2, <2>2, <2>3, <3>1
        <4>. QED  BY <4>1, SeqEqual
      <3>2. ASSUME s = r, NEW i \in 1..n PROVE s[i] = i
        BY <2>3, <3>2
      <3>. QED  BY <3>1, <3>2
    <2>. QED  BY <1>1, <1>2, <1>3, <2>2, <2>4 DEF IsPrefix, Taken
  <1>4. CASE ~(n <= b)
    BY <1>1, <1>2, <1>4 DEF IsPrefix
  <1>. QED  BY <1>3, <1>4

\* What begins the first numbers is a prefix of them.
LEMMA PrefixOfConcat ==
    ASSUME NEW m \in Nat, NEW b \in Nat, b <= m, NEW s \in Seq(1..m), NEW u \in Seq(1..m),
           s \o u = Numbers(0, b)
    PROVE  IsPrefix(s, Numbers(0, b))
  <1>1. Len(Numbers(0, b)) = b /\ \A i \in 1..b : Numbers(0, b)[i] = i
    BY FirstNumbers
  <1>2. /\ Len(s \o u) = Len(s) + Len(u)
        /\ \A i \in 1..Len(s) + Len(u) : (s \o u)[i] = IF i <= Len(s) THEN s[i] ELSE u[i - Len(s)]
    BY ConcatProperties
  <1>3. Len(s) \in Nat /\ Len(u) \in Nat
    BY LenProperties
  <1>4. Len(s) <= b
    BY <1>1, <1>2, <1>3
  <1>5. ASSUME NEW i \in 1..Len(s) PROVE s[i] = i
    <2>1. i \in 1..b /\ i \in 1..Len(s) + Len(u) /\ i <= Len(s)
      BY <1>3, <1>4
    <2>. QED  BY <2>1, <1>1, <1>2
  <1>. QED  BY <1>4, <1>5, PrefixOfNumbers

\* A prefix stays one when there are more numbers.
LEMMA PrefixGrows ==
    ASSUME NEW m \in Nat, NEW a \in Nat, NEW b \in Nat, a <= b, b <= m,
           NEW s \in Seq(1..m), IsPrefix(s, Numbers(0, a))
    PROVE  IsPrefix(s, Numbers(0, b))
  <1>1. a <= m /\ Len(s) \in Nat
    BY LenProperties
  <1>2. Len(s) <= a /\ \A i \in 1..Len(s) : s[i] = i
    BY <1>1, PrefixOfNumbers
  <1>3. Len(s) <= b
    BY <1>1, <1>2
  <1>. QED  BY <1>2, <1>3, PrefixOfNumbers

\* The first part of c moves to the end of a.
LEMMA TakeOver ==
    ASSUME NEW S, NEW a \in Seq(S), NEW c \in Seq(S), NEW n \in 0..Len(c)
    PROVE  Behind(Behind(a, Taken(c, n)), Rest(c, n)) = Behind(a, c)
  <1>1. PICK t \in Seq(S), u \in Seq(S) : t = Taken(c, n) /\ u = Rest(c, n) /\ Behind(t, u) = c
    BY Cut
  <1>2. Behind(Behind(a, t), u) = Behind(a, Behind(t, u))
    BY BehindAssociative
  <1>. QED  BY <1>1, <1>2

\* Part of what is in c moves to the end of b.
LEMMA MoveOn ==
    ASSUME NEW S, NEW a \in Seq(S), NEW b \in Seq(S), NEW c \in Seq(S), NEW n \in 0..Len(c)
    PROVE  Joined(a, Behind(b, Taken(c, n)), Rest(c, n)) = Joined(a, b, c)
  <1>1. PICK t \in Seq(S), u \in Seq(S) : t = Taken(c, n) /\ u = Rest(c, n) /\ Behind(t, u) = c
    BY Cut
  <1>2. Behind(Behind(a, Behind(b, t)), u) = Behind(Behind(a, b), Behind(t, u))
    BY BehindType, BehindAssociative
  <1>. QED  BY <1>1, <1>2 DEF Joined

\* Data that is put behind c, some of it before c if there is nothing in c.
LEMMA PutBehind ==
    ASSUME NEW S, NEW a \in Seq(S), NEW b \in Seq(S), NEW c \in Seq(S), NEW d \in Seq(S),
           NEW n \in 0..Len(d), c = <<>> \/ n = 0
    PROVE  Joined(a, Behind(b, Taken(d, n)), Behind(c, Rest(d, n))) = Behind(Joined(a, b, c), d)
  <1>1. PICK t \in Seq(S), u \in Seq(S) : t = Taken(d, n) /\ u = Rest(d, n) /\ Behind(t, u) = d
    BY Cut
  <1>2. CASE c = <<>>
    <2>1. Behind(Behind(a, Behind(b, t)), u) = Behind(Behind(a, b), Behind(t, u))
      BY BehindType, BehindAssociative
    <2>2. Behind(c, u) = u
      BY <1>2, ConcatEmptySeq DEF Behind
    <2>3. PICK ab \in Seq(S) : ab = Behind(a, b)
      BY BehindType
    <2>4. Behind(ab, c) = ab
      BY <1>2, ConcatEmptySeq DEF Behind
    <2>. QED  BY <1>1, <2>1, <2>2, <2>3, <2>4 DEF Joined
  <1>3. CASE n = 0
    <2>1. t = <<>>
      BY <1>1, <1>3, SubSeqEmpty DEF Taken
    <2>2. u = d
      BY <1>1, <1>3, SubSeqFull DEF Rest
    <2>3. Behind(b, <<>>) = b
      BY ConcatEmptySeq DEF Behind
    <2>4. Behind(Behind(Behind(a, b), c), d) = Behind(Behind(a, b), Behind(c, d))
      BY BehindType, BehindAssociative
    <2>. QED  BY <1>1, <2>1, <2>2, <2>3, <2>4 DEF Joined
  <1>. QED  BY <1>2, <1>3

-----------------------------------------------------------------------------
(* The inductive invariant: what StreamsIntact says while the connection   *)
(* is not reset gives its prefixes after a reset, when what the sockets    *)
(* held is gone and nothing reaches the peer or the input buffer any more. *)

USE RoomAssumption, SendAssumption, BoundAssumption

\* The stream from Send to the peer.
OutIntact == /\ IsPrefix(received, Numbers(0, sent))
             /\ peer # "reset" => Joined(received, outSocket, output_buffer_) = Numbers(0, sent)

\* The stream from the peer to the user.
InIntact == /\ IsPrefix(consumed \o input_buffer_, Numbers(0, peerSent))
            /\ peer # "reset" => Joined(consumed, input_buffer_, inSocket) = Numbers(0, peerSent)

\* What waits in the output buffer of a socket shut down was sent after Shutdown.
ShutAfterWritten == wrShut /\ shutdownAt # NotAsked =>
                       \A i \in DOMAIN output_buffer_ : output_buffer_[i] > shutdownAt

\* A reset leaves nothing in the socket, and only Shutdown, which comes after what
\* had been sent by then, closes the writing side.
Ends == /\ peer = "reset" => inSocket = <<>>
        /\ shutdownAt = NotAsked \/ shutdownAt <= sent
        /\ wrShut => shutdownAt # NotAsked

IInv == TypeOK /\ WatchedIffPending /\ OutIntact /\ InIntact /\ ShutAfterWritten /\ Ends

\* A write takes no more than it is given, and no more than there is room for.
LEMMA WritesFacts ==
    ASSUME TypeOK, NEW k \in Nat, NEW n \in Writes(k)
    PROVE  n \in 0..k /\ Len(outSocket) + n <= Room
  <1>1. Len(outSocket) \in Nat /\ Len(outSocket) <= Room /\ Room \in Nat
    BY LenProperties DEF TypeOK
  <1>2. n \in 0..k /\ (n = 0 \/ n <= Room - Len(outSocket))
    BY <1>1 DEF Writes
  <1>. QED  BY <1>1, <1>2

\* Send keeps the invariant: data goes behind what waits already.
LEMMA SendKeeps ==
    ASSUME IInv, NEW k \in 1..SendMax, Send(k)
    PROVE  IInv'
  <1>0. TypeOK /\ WatchedIffPending /\ OutIntact /\ InIntact /\ ShutAfterWritten /\ Ends
    BY DEF IInv
  <1>1. PICK e \in Nat : /\ e = sent + k /\ k \in Nat /\ sent \in Nat /\ MaxOut \in Nat
                         /\ sent <= e /\ e <= MaxOut /\ sent' = e /\ e - sent = k
    BY <1>0 DEF TypeOK, Send
  <1>2. PICK d \in Seq(1..MaxOut) : /\ d = Numbers(sent, e)
                                    /\ Len(d) = k /\ \A i \in 1..k : d[i] = sent + i
    <2>1. /\ Numbers(sent, e) \in Seq(1..MaxOut)
          /\ Len(Numbers(sent, e)) = e - sent
          /\ \A i \in 1..e - sent : Numbers(sent, e)[i] = sent + i
      BY ONLY <1>1, NumbersFacts
    <2>. QED  BY <1>1, <2>1
  <1>3. PICK n \in IF SendsDirectly THEN Writes(k) ELSE {0} :
           /\ outSocket' = outSocket \o Taken(d, n)
           /\ BufferRest(Rest(d, n))
           /\ reply' = IF n = k THEN e ELSE reply
    <2>1. \E n \in IF SendsDirectly THEN Writes(k) ELSE {0} :
             /\ outSocket' = outSocket \o Taken(Numbers(sent, sent + k), n)
             /\ BufferRest(Rest(Numbers(sent, sent + k), n))
             /\ reply' = IF n = k THEN sent + k ELSE reply
      BY DEF Send
    <2>. QED  BY <1>1, <1>2, <2>1, Zenon
  <1>4. n \in 0..Len(d) /\ Len(outSocket) + n <= Room
    <2>1. CASE SendsDirectly
      <3>1. n \in Writes(k)
        BY <1>3, <2>1
      <3>2. n \in 0..k /\ Len(outSocket) + n <= Room
        BY ONLY <1>0, <1>1, <3>1, WritesFacts
      <3>. QED  BY <1>2, <3>2
    <2>2. CASE ~SendsDirectly
      <3>1. n = 0
        BY <1>3, <2>2
      <3>2. Len(outSocket) \in Nat /\ Len(outSocket) <= Room /\ Room \in Nat
        BY <1>0, LenProperties DEF TypeOK
      <3>. QED  BY <1>1, <1>2, <3>1, <3>2
    <2>. QED  BY <2>1, <2>2
  <1>5. output_buffer_ = <<>> \/ n = 0
    BY <1>3 DEF SendsDirectly
  <1>6. PICK t \in Seq(1..MaxOut), u \in Seq(1..MaxOut) :
           /\ t = Taken(d, n) /\ Len(t) = n
           /\ u = Rest(d, n) /\ Len(u) = k - n
           /\ \A i \in 1..k - n : u[i] = d[n + i]
    <2>1. /\ Taken(d, n) \in Seq(1..MaxOut) /\ Len(Taken(d, n)) = n
          /\ Rest(d, n) \in Seq(1..MaxOut) /\ Len(Rest(d, n)) = Len(d) - n
          /\ \A i \in 1..Len(d) - n : Rest(d, n)[i] = d[n + i]
      BY ONLY <1>4, Cut
    <2>. QED  BY <1>2, <2>1
  <1>7. output_buffer_' = output_buffer_ \o u
    <2>1. output_buffer_ \o <<>> = output_buffer_
      BY <1>0, ConcatEmptySeq DEF TypeOK
    <2>2. BufferRest(u)
      BY <1>3, <1>6
    <2>3. CASE u = <<>>
      BY <2>1, <2>2, <2>3 DEF BufferRest
    <2>4. CASE u # <<>>
      BY <2>2, <2>4 DEF BufferRest
    <2>. QED  BY <2>3, <2>4
  <1>8. TypeOK'
    <2>1. outSocket' \in Seq(1..MaxOut) /\ Len(outSocket') <= Room
      <3>1. PICK s \in Seq(1..MaxOut) : s = outSocket \o t /\ Len(s) = Len(outSocket) + Len(t)
        BY <1>0, <1>6, ConcatProperties DEF TypeOK
      <3>. QED  BY <1>3, <1>4, <1>6, <3>1
    <2>2. output_buffer_' \in Seq(1..MaxOut)
      BY <1>0, <1>6, <1>7, ConcatProperties DEF TypeOK
    <2>3. isWriting' \in BOOLEAN
      BY <1>0, <1>3 DEF BufferRest, TypeOK
    <2>4. reply' \in 0..MaxOut /\ sent' \in 0..MaxOut
      BY <1>0, <1>1, <1>3 DEF TypeOK
    <2>. QED  BY <1>0, <2>1, <2>2, <2>3, <2>4 DEF TypeOK, Send, inVars, endVars, NotAsked
  <1>9. WatchedIffPending'
    <2>1. CASE u = <<>>
      BY <1>0, <1>3, <1>6, <2>1 DEF BufferRest, WatchedIffPending
    <2>2. CASE u # <<>>
      <3>1. Len(output_buffer_') # 0
        <4>1. /\ output_buffer_ \in Seq(1..MaxOut)
              /\ Len(output_buffer_ \o u) = Len(output_buffer_) + Len(u)
          BY <1>0, <1>6, ConcatProperties DEF TypeOK
        <4>2. Len(output_buffer_) \in Nat /\ Len(u) \in Nat /\ Len(u) # 0
          BY ONLY <1>6, <2>2, <4>1, LenProperties, EmptySeq
        <4>. QED  BY <1>7, <4>1, <4>2
      <3>2. isWriting' = TRUE
        BY <1>3, <1>6, <2>2 DEF BufferRest
      <3>. QED  BY <1>0, <3>1, <3>2, EmptySeq DEF WatchedIffPending
    <2>. QED  BY <2>1, <2>2
  <1>10. UNCHANGED <<received, consumed, input_buffer_, inSocket, peerSent, peer, wrShut, shutdownAt>>
    BY DEF Send, inVars, endVars
  <1>11. OutIntact'
    <2>1. IsPrefix(received', Numbers(0, sent'))
      BY <1>0, <1>1, <1>10, PrefixGrows DEF OutIntact, TypeOK
    <2>2. ASSUME peer' # "reset"
          PROVE  Joined(received', outSocket', output_buffer_') = Numbers(0, sent')
      <3>1. Joined(received, outSocket, output_buffer_) = Numbers(0, sent)
        BY <1>0, <1>10, <2>2 DEF OutIntact
      <3>2. Joined(received, Behind(outSocket, Taken(d, n)), Behind(output_buffer_, Rest(d, n)))
               = Behind(Joined(received, outSocket, output_buffer_), d)
        <4>1. /\ received \in Seq(1..MaxOut) /\ outSocket \in Seq(1..MaxOut)
              /\ output_buffer_ \in Seq(1..MaxOut) /\ d \in Seq(1..MaxOut) /\ n \in 0..Len(d)
          BY <1>0, <1>4 DEF TypeOK
        <4>. QED  BY <1>5, <4>1, PutBehind
      <3>3. Behind(Numbers(0, sent), Numbers(sent, e)) = Numbers(0, e)
        BY ONLY <1>1, NumbersGrow
      <3>. QED  BY <1>1, <1>2, <1>3, <1>6, <1>7, <1>10, <3>1, <3>2, <3>3, Zenon DEF Behind
    <2>. QED  BY <1>0, <2>1, <2>2 DEF OutIntact
  <1>12. InIntact'
    BY <1>0, <1>10 DEF InIntact
  <1>13. ShutAfterWritten'
    <2>. SUFFICES ASSUME wrShut, shutdownAt # NotAsked, NEW i \in DOMAIN output_buffer_'
                  PROVE  output_buffer_'[i] > shutdownAt
      BY <1>0, <1>10 DEF ShutAfterWritten, NotAsked
    <2>1. PICK m \in Nat : m = Len(output_buffer_)
      BY <1>0, LenProperties DEF TypeOK
    <2>2. /\ i \in 1..m + (k - n)
          /\ output_buffer_'[i] = IF i <= m THEN output_buffer_[i] ELSE u[i - m]
      <3>1. output_buffer_ \in Seq(1..MaxOut)
        BY <1>0 DEF TypeOK
      <3>2. /\ output_buffer_' \in Seq(1..MaxOut)
            /\ Len(output_buffer_') = Len(output_buffer_) + Len(u)
            /\ \A j \in 1..Len(output_buffer_) + Len(u) : output_buffer_'[j] =
                  IF j <= Len(output_buffer_) THEN output_buffer_[j] ELSE u[j - Len(output_buffer_)]
        BY ONLY <1>7, <3>1, ConcatProperties
      <3>3. i \in 1..Len(output_buffer_')
        BY ONLY <3>2, LenProperties
      <3>. QED  BY <1>6, <2>1, <3>2, <3>3
    <2>3. CASE i <= m
      <3>1. i \in DOMAIN output_buffer_
        BY <1>0, <2>1, <2>2, <2>3, LenProperties DEF TypeOK
      <3>. QED  BY <1>0, <2>2, <2>3, <3>1 DEF ShutAfterWritten
    <2>4. CASE ~(i <= m)
      <3>1. PICK j \in 1..k - n : j = i - m
        BY <1>2, <1>4, <2>2, <2>4
      <3>2. n + j \in 1..k /\ u[j] = d[n + j]
        <4>1. n \in Nat /\ k \in Nat /\ n <= k
          BY <1>1, <1>2, <1>4
        <4>2. n + j \in 1..k
          BY ONLY <4>1, j \in 1..k - n
        <4>. QED  BY ONLY <1>6, <4>2, j \in 1..k - n
      <3>3. d[n + j] = sent + (n + j) /\ shutdownAt <= sent
        BY <1>0, <1>2, <3>2 DEF Ends
      <3>4. shutdownAt \in Nat /\ n + j > 0
        BY <1>0, <1>2, <1>4 DEF TypeOK, NotAsked
      <3>. QED  BY <1>1, <2>2, <2>4, <3>1, <3>2, <3>3, <3>4
    <2>. QED  BY <2>3, <2>4
  <1>14. Ends'
    BY <1>0, <1>1, <1>10 DEF Ends, NotAsked, TypeOK
  <1>. QED  BY <1>8, <1>9, <1>11, <1>12, <1>13, <1>14 DEF IInv

\* HandleWrite keeps the invariant: what is written moves on from the output buffer.
LEMMA HandleWriteKeeps ==
    ASSUME IInv, HandleWrite
    PROVE  IInv'
  <1>0. TypeOK /\ WatchedIffPending /\ OutIntact /\ InIntact /\ ShutAfterWritten /\ Ends
    BY DEF IInv
  <1>1. /\ received \in Seq(1..MaxOut) /\ outSocket \in Seq(1..MaxOut)
        /\ output_buffer_ \in Seq(1..MaxOut)
    BY <1>0 DEF TypeOK
  <1>2. PICK n \in Writes(Len(output_buffer_)) :
           /\ outSocket' = outSocket \o Taken(output_buffer_, n)
           /\ output_buffer_' = Rest(output_buffer_, n)
           /\ isWriting' = StillWriting(n)
           /\ reply' = IF Replies(n) THEN sent ELSE reply
    BY DEF HandleWrite
  <1>3. PICK m \in Nat : m = Len(output_buffer_)
    BY <1>1, LenProperties
  <1>4. n \in 0..m /\ Len(outSocket) + n <= Room
    BY <1>0, <1>2, <1>3, WritesFacts
  <1>5. /\ Taken(output_buffer_, n) \in Seq(1..MaxOut) /\ Len(Taken(output_buffer_, n)) = n
        /\ Rest(output_buffer_, n) \in Seq(1..MaxOut) /\ Len(Rest(output_buffer_, n)) = m - n
        /\ \A i \in 1..m - n : Rest(output_buffer_, n)[i] = output_buffer_[n + i]
    <2>1. n \in 0..Len(output_buffer_)
      BY <1>3, <1>4
    <2>. QED  BY ONLY <1>1, <1>3, <2>1, Cut
  <1>6. UNCHANGED <<received, sent, consumed, input_buffer_, inSocket, peerSent, peer, wrShut, shutdownAt>>
    BY DEF HandleWrite, inVars, endVars
  <1>7. TypeOK'
    <2>1. outSocket' \in Seq(1..MaxOut) /\ Len(outSocket') <= Room
      BY <1>1, <1>2, <1>4, <1>5, ConcatProperties
    <2>2. isWriting' \in BOOLEAN
      BY <1>2, <1>3, <1>4 DEF StillWriting
    <2>3. reply' \in 0..MaxOut
      BY <1>0, <1>2 DEF TypeOK
    <2>. QED  BY <1>0, <1>2, <1>5, <2>1, <2>2, <2>3 DEF TypeOK, HandleWrite, inVars, endVars, NotAsked
  <1>8. WatchedIffPending'
    <2>1. isWriting' <=> m - n # 0
      <3>1. isWriting' = (n < m)
        BY <1>2, <1>3, Zenon DEF StillWriting
      <3>2. n < m <=> m - n # 0
        BY ONLY <1>3, <1>4
      <3>. QED  BY <3>1, <3>2, Zenon
    <2>2. output_buffer_' = <<>> <=> m - n = 0
      BY <1>2, <1>5, EmptySeq
    <2>. QED  BY <2>1, <2>2 DEF WatchedIffPending
  <1>9. OutIntact'
    <2>1. ASSUME peer # "reset"
          PROVE  Joined(received, outSocket', output_buffer_') = Numbers(0, sent)
      <3>1. Joined(received, Behind(outSocket, Taken(output_buffer_, n)), Rest(output_buffer_, n))
               = Joined(received, outSocket, output_buffer_)
        <4>1. n \in 0..Len(output_buffer_)
          BY <1>3, <1>4
        <4>. QED  BY <1>1, <4>1, MoveOn
      <3>2. Joined(received, outSocket, output_buffer_) = Numbers(0, sent)
        BY <1>0, <2>1 DEF OutIntact
      <3>. QED  BY <1>2, <3>1, <3>2, Zenon DEF Behind
    <2>. QED  BY <1>0, <1>6, <2>1 DEF OutIntact
  <1>10. InIntact'
    BY <1>0, <1>6 DEF InIntact
  <1>11. ShutAfterWritten'
    <2>. SUFFICES ASSUME wrShut, shutdownAt # NotAsked, NEW i \in 1..m - n
                  PROVE  output_buffer_'[i] > shutdownAt
      BY <1>2, <1>5, <1>6, LenProperties DEF ShutAfterWritten, NotAsked
    <2>1. n + i \in DOMAIN output_buffer_ /\ output_buffer_'[i] = output_buffer_[n + i]
      BY <1>1, <1>2, <1>3, <1>4, <1>5, LenProperties
    <2>. QED  BY <1>0, <2>1 DEF ShutAfterWritten
  <1>12. Ends'
    BY <1>0, <1>6 DEF Ends, NotAsked
  <1>. QED  BY <1>7, <1>8, <1>9, <1>10, <1>11, <1>12 DEF IInv

\* HandleRead keeps the invariant: what is read moves on from the socket.
LEMMA HandleReadKeeps ==
    ASSUME IInv, NEW n \in 1..MaxIn, HandleRead(n)
    PROVE  IInv'
  <1>0. TypeOK /\ WatchedIffPending /\ OutIntact /\ InIntact /\ ShutAfterWritten /\ Ends
    BY DEF IInv
  <1>1. /\ consumed \in Seq(1..MaxIn) /\ input_buffer_ \in Seq(1..MaxIn)
        /\ inSocket \in Seq(1..MaxIn) /\ peerSent \in Nat /\ peerSent <= MaxIn
    BY <1>0 DEF TypeOK
  <1>2. n \in 1..Len(inSocket) /\ Len(inSocket) \in Nat /\ n \in 0..Len(inSocket)
    BY <1>1, LenProperties DEF HandleRead
  <1>3. /\ input_buffer_' = Behind(input_buffer_, Taken(inSocket, n))
        /\ inSocket' = Rest(inSocket, n)
    BY DEF HandleRead, Behind
  <1>4. /\ Taken(inSocket, n) \in Seq(1..MaxIn)
        /\ Rest(inSocket, n) \in Seq(1..MaxIn) /\ Len(Rest(inSocket, n)) = Len(inSocket) - n
    BY ONLY <1>1, <1>2, Cut
  <1>5. UNCHANGED <<open, output_buffer_, isWriting, outSocket, sent, received, consumed, peerSent,
                    reply, peer, wrShut, shutdownAt>>
    BY DEF HandleRead, outVars, endVars
  <1>6. input_buffer_' \in Seq(1..MaxIn) /\ inSocket' \in Seq(1..MaxIn)
    BY <1>1, <1>3, <1>4, ConcatProperties DEF Behind
  <1>7. TypeOK'
    <2>1. Len(inSocket') <= Room
      BY <1>0, <1>2, <1>3, <1>4 DEF TypeOK
    <2>2. revents' \subseteq {"in", "out", "hup"}
      BY <1>0 DEF TypeOK, HandleRead
    <2>. QED  BY <1>0, <1>5, <1>6, <2>1, <2>2 DEF TypeOK, NotAsked
  <1>8. peer # "reset"
    BY <1>0, <1>2, EmptySeq DEF Ends
  <1>9. InIntact'
    <2>1. Joined(consumed, Behind(input_buffer_, Taken(inSocket, n)), Rest(inSocket, n))
             = Joined(consumed, input_buffer_, inSocket)
      BY <1>1, <1>2, MoveOn
    <2>2. Joined(consumed, input_buffer_, inSocket) = Numbers(0, peerSent)
      BY <1>0, <1>8 DEF InIntact
    <2>3. Joined(consumed, input_buffer_', inSocket') = Numbers(0, peerSent)
      BY <1>3, <2>1, <2>2, Zenon
    <2>4. IsPrefix(consumed \o input_buffer_', Numbers(0, peerSent))
      <3>1. consumed \o input_buffer_' \in Seq(1..MaxIn)
        BY <1>1, <1>6, ConcatProperties
      <3>. QED  BY <1>1, <1>6, <2>3, <3>1, PrefixOfConcat DEF Joined, Behind
    <2>. QED  BY <1>5, <2>3, <2>4 DEF InIntact
  <1>10. WatchedIffPending' /\ OutIntact' /\ ShutAfterWritten' /\ Ends'
    BY <1>0, <1>5, <1>8 DEF WatchedIffPending, OutIntact, ShutAfterWritten, Ends, NotAsked
  <1>. QED  BY <1>7, <1>9, <1>10 DEF IInv

\* Retrieve keeps the invariant: what is retrieved moves on from the input buffer.
LEMMA RetrieveKeeps ==
    ASSUME IInv, NEW n \in 1..MaxIn, Retrieve(n)
    PROVE  IInv'
  <1>0. TypeOK /\ WatchedIffPending /\ OutIntact /\ InIntact /\ ShutAfterWritten /\ Ends
    BY DEF IInv
  <1>1. consumed \in Seq(1..MaxIn) /\ input_buffer_ \in Seq(1..MaxIn)
    BY <1>0 DEF TypeOK
  <1>2. n \in 0..Len(input_buffer_)
    BY <1>1, LenProperties DEF Retrieve
  <1>3. Taken(input_buffer_, n) \in Seq(1..MaxIn) /\ Rest(input_buffer_, n) \in Seq(1..MaxIn)
    BY ONLY <1>1, <1>2, Cut
  <1>4. /\ consumed' = Behind(consumed, Taken(input_buffer_, n))
        /\ input_buffer_' = Rest(input_buffer_, n)
    BY DEF Retrieve, Behind
  <1>5. UNCHANGED <<open, output_buffer_, isWriting, outSocket, inSocket, sent, received, peerSent,
                    reply, peer, wrShut, shutdownAt, revents>>
    BY DEF Retrieve, outVars, endVars
  <1>6. TypeOK'
    <2>1. consumed' \in Seq(1..MaxIn) /\ input_buffer_' \in Seq(1..MaxIn)
      BY <1>1, <1>3, <1>4, ConcatProperties DEF Behind
    <2>. QED  BY <1>0, <1>5, <2>1 DEF TypeOK, NotAsked
  <1>7. consumed' \o input_buffer_' = consumed \o input_buffer_
    BY <1>1, <1>2, <1>4, TakeOver DEF Behind
  <1>8. InIntact'
    BY <1>0, <1>5, <1>7 DEF InIntact, Joined, Behind
  <1>9. WatchedIffPending' /\ OutIntact' /\ ShutAfterWritten' /\ Ends'
    BY <1>0, <1>5 DEF WatchedIffPending, OutIntact, ShutAfterWritten, Ends, NotAsked
  <1>. QED  BY <1>6, <1>8, <1>9 DEF IInv

\* A byte that is read moves on, one that is sent is put behind.
LEMMA OneByte ==
    ASSUME NEW S, NEW a \in Seq(S), NEW b \in Seq(S), NEW c \in Seq(S), b # <<>>
    PROVE  Joined(Append(a, Head(b)), Tail(b), c) = Joined(a, b, c)
  <1>1. PICK h \in S, t \in Seq(S) : h = Head(b) /\ t = Tail(b) /\ b = <<h>> \o t
    <2>1. PICK h \in S, t \in Seq(S) : /\ h = Head(b) /\ t = Tail(b) /\ Len(t) = Len(b) - 1
                                       /\ \A i \in 1..Len(t) : t[i] = b[i + 1]
      <3>1. /\ Head(b) \in S /\ Tail(b) \in Seq(S) /\ Len(Tail(b)) = Len(b) - 1
            /\ \A i \in 1..Len(Tail(b)) : Tail(b)[i] = b[i + 1]
        BY HeadTailProperties, Zenon
      <3>. QED  BY ONLY <3>1, Zenon
    <2>2. PICK n \in Nat : n = Len(t) /\ Len(b) = 1 + n
      <3>1. Len(t) \in Nat /\ Len(b) \in Nat
        BY LenProperties
      <3>2. Len(t) = Len(b) - 1
        BY <2>1, Zenon
      <3>3. Len(b) = 1 + Len(t)
        BY ONLY <3>1, <3>2
      <3>. QED  BY <3>1, <3>3, Zenon
    <2>3. <<h>> \in Seq(S) /\ Len(<<h>>) = 1 /\ <<h>>[1] = h /\ h = b[1]
      BY <2>1
    <2>4. PICK g \in Seq(S) : /\ g = <<h>> \o t /\ Len(g) = 1 + n
                              /\ \A i \in 1..1 + n : g[i] = IF i <= 1 THEN <<h>>[i] ELSE t[i - 1]
      <3>1. /\ <<h>> \o t \in Seq(S) /\ Len(<<h>> \o t) = Len(<<h>>) + Len(t)
            /\ \A i \in 1..Len(<<h>>) + Len(t) :
                  (<<h>> \o t)[i] = IF i <= Len(<<h>>) THEN <<h>>[i] ELSE t[i - Len(<<h>>)]
        BY <2>3, ConcatProperties
      <3>. QED  BY <2>2, <2>3, <3>1
    <2>5. ASSUME NEW i \in 1..1 + n PROVE b[i] = g[i]
      <3>1. CASE i = 1
        BY <2>3, <2>4, <3>1
      <3>2. CASE i # 1
        <4>1. PICK j \in 1..n : j = i - 1 /\ i = j + 1
          BY <2>2, <3>2
        <4>. QED  BY <2>1, <2>2, <2>4, <3>2, <4>1
      <3>. QED  BY <3>1, <3>2
    <2>6. b = g
      <3>1. Len(b) = Len(g) /\ \A i \in 1..Len(b) : b[i] = g[i]
        BY <2>2, <2>4, <2>5
      <3>. QED  BY <3>1, SeqEqual
    <2>. QED  BY <2>1, <2>4, <2>6
  <1>2. PICK g \in Seq(S) : g = <<h>>
    <2>1. <<h>> \in Seq(S)
      OBVIOUS
    <2>. QED  BY <2>1, Zenon
  <1>3. Append(a, h) = Behind(a, g) /\ b = Behind(g, t)
    BY <1>1, <1>2, AppendIsConcat DEF Behind
  <1>4. Behind(Behind(a, g), t) = Behind(a, Behind(g, t))
    BY BehindAssociative
  <1>. QED  BY <1>1, <1>3, <1>4 DEF Joined, Behind

\* The next number is put behind.
LEMMA OneMore ==
    ASSUME NEW m \in Nat, NEW p \in Nat, p < m,
           NEW a \in Seq(1..m), NEW b \in Seq(1..m), NEW c \in Seq(1..m),
           Joined(a, b, c) = Numbers(0, p)
    PROVE  Joined(a, b, Append(c, p + 1)) = Numbers(0, p + 1)
  <1>1. PICK q \in Nat : q = p + 1 /\ p <= q /\ q <= m /\ q - p = 1 /\ q \in 1..m
    OBVIOUS
  <1>2. PICK g \in Seq(1..m) : g = <<q>> /\ g = Numbers(p, q)
    <2>1. <<q>> \in Seq(1..m)
      BY <1>1
    <2>2. <<q>> = Numbers(p, q)
      BY <1>1 DEF Numbers
    <2>. QED  BY <2>1, <2>2, Zenon
  <1>3. Append(c, q) = Behind(c, g)
    BY <1>1, <1>2, AppendIsConcat DEF Behind
  <1>4. PICK ab \in Seq(1..m) : ab = Behind(a, b)
    BY BehindType
  <1>5. Behind(Behind(ab, c), g) = Behind(ab, Behind(c, g))
    BY BehindAssociative
  <1>6. Behind(Numbers(0, p), Numbers(p, q)) = Numbers(0, q)
    BY ONLY <1>1, m \in Nat, NumbersGrow
  <1>. QED  BY <1>1, <1>2, <1>3, <1>4, <1>5, <1>6 DEF Joined, Behind

\* What has arrived is a prefix of the numbers.
LEMMA PrefixOfJoined ==
    ASSUME NEW m \in Nat, NEW p \in Nat, p <= m,
           NEW a \in Seq(1..m), NEW b \in Seq(1..m), NEW c \in Seq(1..m),
           Joined(a, b, c) = Numbers(0, p)
    PROVE  IsPrefix(a, Numbers(0, p))
  <1>1. PICK u \in Seq(1..m) : u = Behind(b, c)
    BY BehindType
  <1>2. Behind(Behind(a, b), c) = Behind(a, Behind(b, c))
    BY BehindAssociative
  <1>3. a \o u = Numbers(0, p)
    BY <1>1, <1>2 DEF Joined, Behind
  <1>. QED  BY <1>3, PrefixOfConcat

\* The peer's reading keeps the invariant.
LEMMA PeerReadsKeeps ==
    ASSUME IInv, PeerReads
    PROVE  IInv'
  <1>0. TypeOK /\ WatchedIffPending /\ OutIntact /\ InIntact /\ ShutAfterWritten /\ Ends
    BY DEF IInv
  <1>1. /\ received \in Seq(1..MaxOut) /\ outSocket \in Seq(1..MaxOut) /\ outSocket # <<>>
        /\ output_buffer_ \in Seq(1..MaxOut) /\ sent \in Nat /\ sent <= MaxOut /\ MaxOut \in Nat
    BY <1>0 DEF TypeOK, PeerReads
  <1>2. /\ received' = Append(received, Head(outSocket)) /\ outSocket' = Tail(outSocket)
        /\ UNCHANGED <<output_buffer_, isWriting, sent, reply, inVars, endVars, revents>>
        /\ peer # "reset"
    BY DEF PeerReads
  <1>3. /\ Head(outSocket) \in 1..MaxOut /\ Tail(outSocket) \in Seq(1..MaxOut)
        /\ Len(outSocket') <= Len(outSocket)
    BY <1>1, <1>2, HeadTailProperties, LenProperties
  <1>4. received' \in Seq(1..MaxOut)
    BY <1>1, <1>2, <1>3, AppendProperties
  <1>5. TypeOK'
    <2>1. Len(outSocket') <= Room
      BY <1>0, <1>1, <1>2, <1>3, LenProperties DEF TypeOK
    <2>. QED  BY <1>0, <1>2, <1>3, <1>4, <2>1 DEF TypeOK, inVars, endVars, NotAsked
  <1>6. OutIntact'
    <2>1. Joined(Append(received, Head(outSocket)), Tail(outSocket), output_buffer_)
             = Joined(received, outSocket, output_buffer_)
      BY <1>1, OneByte
    <2>2. Joined(received, outSocket, output_buffer_) = Numbers(0, sent)
      BY <1>0, <1>2 DEF OutIntact
    <2>3. Joined(received', outSocket', output_buffer_') = Numbers(0, sent')
      BY <1>2, <2>1, <2>2, Zenon
    <2>4. IsPrefix(received', Numbers(0, sent'))
      BY <1>1, <1>2, <1>3, <1>4, <2>3, PrefixOfJoined
    <2>. QED  BY <2>3, <2>4 DEF OutIntact
  <1>7. WatchedIffPending' /\ InIntact' /\ ShutAfterWritten' /\ Ends'
    BY <1>0, <1>2 DEF inVars, endVars, WatchedIffPending, InIntact, ShutAfterWritten, Ends, NotAsked
  <1>. QED  BY <1>5, <1>6, <1>7 DEF IInv

\* The peer's sending keeps the invariant.
LEMMA PeerSendsKeeps ==
    ASSUME IInv, PeerSends
    PROVE  IInv'
  <1>0. TypeOK /\ WatchedIffPending /\ OutIntact /\ InIntact /\ ShutAfterWritten /\ Ends
    BY DEF IInv
  <1>1. /\ consumed \in Seq(1..MaxIn) /\ input_buffer_ \in Seq(1..MaxIn)
        /\ inSocket \in Seq(1..MaxIn) /\ peerSent \in Nat /\ peerSent < MaxIn /\ MaxIn \in Nat
    BY <1>0 DEF TypeOK, PeerSends
  <1>2. /\ inSocket' = Append(inSocket, peerSent + 1) /\ peerSent' = peerSent + 1
        /\ UNCHANGED <<outVars, endVars, input_buffer_, consumed, received, revents>>
        /\ peer = "up" /\ Len(inSocket) < Room
    BY DEF PeerSends
  <1>3. TypeOK'
    <2>1. peerSent + 1 \in 1..MaxIn
      BY <1>1
    <2>2. inSocket' \in Seq(1..MaxIn) /\ Len(inSocket') = Len(inSocket) + 1
      BY <1>1, <1>2, <2>1, AppendProperties
    <2>3. Len(inSocket') <= Room
      BY <1>1, <1>2, <2>2, LenProperties
    <2>. QED  BY <1>0, <1>2, <2>1, <2>2, <2>3 DEF TypeOK, outVars, endVars, NotAsked
  <1>4. InIntact'
    <2>1. Joined(consumed, input_buffer_, inSocket) = Numbers(0, peerSent)
      BY <1>0, <1>2 DEF InIntact
    <2>2. Joined(consumed, input_buffer_, Append(inSocket, peerSent + 1)) = Numbers(0, peerSent + 1)
      BY <1>1, <2>1, OneMore
    <2>3. IsPrefix(consumed \o input_buffer_, Numbers(0, peerSent'))
      <3>1. PICK s \in Seq(1..MaxIn) : s = consumed \o input_buffer_
        BY <1>1, ConcatProperties
      <3>2. IsPrefix(s, Numbers(0, peerSent))
        BY <1>0, <3>1 DEF InIntact
      <3>3. peerSent' \in Nat /\ peerSent <= peerSent' /\ peerSent' <= MaxIn
        BY <1>1, <1>2
      <3>. QED  BY <1>1, <3>1, <3>2, <3>3, PrefixGrows
    <2>. QED  BY <1>2, <2>2, <2>3 DEF InIntact
  <1>5. WatchedIffPending' /\ OutIntact' /\ ShutAfterWritten' /\ Ends'
    BY <1>0, <1>2 DEF outVars, endVars, WatchedIffPending, OutIntact, ShutAfterWritten, Ends, NotAsked
  <1>. QED  BY <1>3, <1>4, <1>5 DEF IInv

\* A reset keeps the invariant: what has arrived by then is a prefix already.
LEMMA PeerResetsKeeps ==
    ASSUME IInv, PeerResets
    PROVE  IInv'
  <1>0. TypeOK /\ WatchedIffPending /\ OutIntact /\ InIntact /\ ShutAfterWritten /\ Ends
    BY DEF IInv
  <1>1. /\ peer' = "reset" /\ outSocket' = <<>> /\ inSocket' = <<>>
        /\ UNCHANGED <<output_buffer_, isWriting, sent, reply, input_buffer_, peerSent,
                       consumed, open, wrShut, shutdownAt, received, revents>>
    BY DEF PeerResets
  <1>2. TypeOK'
    <2>1. Len(outSocket') <= Room /\ Len(inSocket') <= Room
      BY <1>1, RoomAssumption
    <2>. QED  BY <1>0, <1>1, <2>1 DEF TypeOK, NotAsked
  <1>3. OutIntact' /\ InIntact'
    BY <1>0, <1>1 DEF OutIntact, InIntact
  <1>4. WatchedIffPending' /\ ShutAfterWritten' /\ Ends'
    BY <1>0, <1>1 DEF WatchedIffPending, ShutAfterWritten, Ends, NotAsked
  <1>. QED  BY <1>2, <1>3, <1>4 DEF IInv

\* Shutdown keeps the invariant: it closes the writing side only when nothing waits.
LEMMA ShutdownKeeps ==
    ASSUME IInv, Shutdown
    PROVE  IInv'
  <1>0. TypeOK /\ WatchedIffPending /\ OutIntact /\ InIntact /\ ShutAfterWritten /\ Ends
    BY DEF IInv
  <1>1. /\ wrShut' = (wrShut \/ ~isWriting)
        /\ shutdownAt' = IF shutdownAt = NotAsked THEN sent ELSE shutdownAt
        /\ UNCHANGED <<outVars, inVars, open, peer, received, revents>>
    BY DEF Shutdown, ShutdownIfWritten
  <1>2. sent \in Nat /\ sent <= MaxOut /\ NotAsked # sent /\ sent \in 0..NotAsked /\ NotAsked' = NotAsked
    BY <1>0 DEF TypeOK, NotAsked
  <1>3. TypeOK'
    <2>1. wrShut' \in BOOLEAN
      BY <1>1, Zenon
    <2>. QED  BY <1>0, <1>1, <1>2, <2>1 DEF TypeOK, outVars, inVars
  <1>4. ShutAfterWritten'
    <2>1. CASE isWriting
      <3>1. wrShut' <=> wrShut
        BY <1>1, <2>1, Zenon
      <3>2. wrShut => shutdownAt' = shutdownAt /\ shutdownAt # NotAsked
        BY <1>0, <1>1, Zenon DEF Ends
      <3>. QED  BY <1>0, <1>1, <1>2, <3>1, <3>2 DEF ShutAfterWritten, outVars
    <2>2. CASE ~isWriting
      <3>1. output_buffer_' = <<>>
        BY <1>0, <1>1, <2>2 DEF WatchedIffPending, outVars
      <3>. QED  BY <3>1 DEF ShutAfterWritten
    <2>. QED  BY <2>1, <2>2
  <1>5. Ends'
    <2>1. shutdownAt' <= sent'
      BY <1>0, <1>1, <1>2 DEF Ends, outVars
    <2>2. shutdownAt' # NotAsked
      BY <1>1, <1>2
    <2>. QED  BY <1>0, <1>1, <1>2, <2>1, <2>2 DEF Ends, inVars
  <1>6. WatchedIffPending' /\ OutIntact' /\ InIntact'
    BY <1>0, <1>1 DEF WatchedIffPending, OutIntact, InIntact, outVars, inVars
  <1>. QED  BY <1>3, <1>4, <1>5, <1>6 DEF IInv

\* Polls, closes and a peer that finishes touch neither stream.
LEMMA OthersKeep ==
    ASSUME IInv,
           Poll \/ HandleClose \/ HandleReadFails \/ PeerFinishes \/ UNCHANGED vars
    PROVE  IInv'
  <1>0. TypeOK /\ WatchedIffPending /\ OutIntact /\ InIntact /\ ShutAfterWritten /\ Ends
    BY DEF IInv
  <1>1. UNCHANGED <<outVars, inVars, wrShut, shutdownAt, received>>
    BY DEF Poll, HandleClose, HandleReadFails, PeerFinishes, vars, endVars
  <1>2. peer' = peer \/ (peer = "up" /\ peer' = "finished")
    BY DEF Poll, HandleClose, HandleReadFails, PeerFinishes, vars, endVars
  <1>3. TypeOK'
    <2>1. open' \in BOOLEAN /\ revents' \subseteq {"in", "out", "hup"}
      BY <1>0 DEF TypeOK, Poll, Ready, HandleClose, HandleReadFails, PeerFinishes, vars, endVars
    <2>2. peer' \in {"up", "finished", "reset"}
      BY <1>0, <1>2 DEF TypeOK
    <2>. QED  BY <1>0, <1>1, <2>1, <2>2 DEF TypeOK, outVars, inVars, NotAsked
  <1>4. WatchedIffPending' /\ ShutAfterWritten'
    BY <1>0, <1>1 DEF WatchedIffPending, ShutAfterWritten, outVars, NotAsked
  <1>5. OutIntact' /\ InIntact' /\ Ends'
    BY <1>0, <1>1, <1>2 DEF OutIntact, InIntact, Ends, outVars, inVars, NotAsked
  <1>. QED  BY <1>3, <1>4, <1>5 DEF IInv

-----------------------------------------------------------------------------
(* The theorems.                                                           *)

\* Nothing is sent or received at first.
LEMMA InitIInv == Init => IInv
  <1>. SUFFICES ASSUME Init PROVE IInv
    OBVIOUS
  <1>1. TypeOK
    <2>1. <<>> \in Seq(1..MaxOut) /\ <<>> \in Seq(1..MaxIn) /\ Len(<<>>) <= Room
      OBVIOUS
    <2>2. 0 \in 0..MaxOut /\ 0 \in 0..MaxIn /\ NotAsked \in 0..NotAsked
      BY DEF NotAsked
    <2>. QED  BY <2>1, <2>2 DEF Init, TypeOK
  <1>2. WatchedIffPending /\ ShutAfterWritten /\ Ends
    BY DEF Init, WatchedIffPending, ShutAfterWritten, Ends
  <1>3. Joined(<<>>, <<>>, <<>>) = <<>> /\ <<>> \o <<>> = <<>>
    BY DEF Joined, Behind
  <1>4. Numbers(0, 0) = <<>>
    BY FirstNumbers, EmptySeq
  <1>5. IsPrefix(<<>>, <<>>)
    BY DEF IsPrefix
  <1>6. OutIntact /\ InIntact
    BY <1>3, <1>4, <1>5 DEF Init, OutIntact, InIntact
  <1>. QED  BY <1>1, <1>2, <1>6 DEF IInv

\* Every step keeps the invariant.
LEMMA NextIInv == IInv /\ [Next]_vars => IInv'
  <1>. SUFFICES ASSUME IInv, [Next]_vars PROVE IInv'
    OBVIOUS
  <1>1. ASSUME NEW k \in 1..SendMax, Send(k) PROVE IInv'
    BY <1>1, SendKeeps
  <1>2. CASE Shutdown
    BY <1>2, ShutdownKeeps
  <1>3. ASSUME NEW n \in 1..MaxIn, Retrieve(n) PROVE IInv'
    BY <1>3, RetrieveKeeps
  <1>4. ASSUME NEW n \in 1..MaxIn, HandleRead(n) PROVE IInv'
    BY <1>4, HandleReadKeeps
  <1>5. CASE HandleWrite
    BY <1>5, HandleWriteKeeps
  <1>6. CASE PeerReads
    BY <1>6, PeerReadsKeeps
  <1>7. CASE PeerSends
    BY <1>7, PeerSendsKeeps
  <1>8. CASE PeerResets
    BY <1>8, PeerResetsKeeps
  <1>9. CASE Poll \/ HandleClose \/ HandleReadFails \/ PeerFinishes \/ UNCHANGED vars
    BY <1>9, OthersKeep
  <1>. QED  BY <1>1, <1>2, <1>3, <1>4, <1>5, <1>6, <1>7, <1>8, <1>9
            DEF Next, User, HandleEvent, Peer

\* The invariant holds of every reachable state.
LEMMA InvariantIInv == Spec => []IInv
  BY InitIInv, NextIInv, PTL DEF Spec

\* The streams, the buffers and the flags have their types whatever is sent, read
\* and cut short (connection.cpp:36-132).
THEOREM TypeCorrect == Spec => []TypeOK
  <1>1. IInv => TypeOK
    BY DEF IInv
  <1>. QED  BY <1>1, InvariantIInv, PTL

\* EPOLLOUT is watched exactly while output waits (connection.cpp:63-67, 117-120).
THEOREM OutputIsWatched == Spec => []WatchedIffPending
  <1>1. IInv => WatchedIffPending
    BY DEF IInv
  <1>. QED  BY <1>1, InvariantIInv, PTL

\* Neither stream loses, doubles or reorders a byte, and Shutdown leaves behind
\* nothing that was sent before it (connection.cpp:36-69, 82-132).
THEOREM NothingIsLostOrReordered == Spec => []StreamsIntact
  <1>1. IInv => StreamsIntact
    BY DEF IInv, OutIntact, InIntact, ShutAfterWritten, StreamsIntact, Joined, Behind
  <1>. QED  BY <1>1, InvariantIInv, PTL

\* The reply callback runs only when the output buffer is empty and all that was
\* sent is in the hands of the kernel (connection.cpp:45-47, 117-124).
THEOREM RepliesAreWritten == Spec => ReplyMeansWritten
  <1>1. IInv /\ [Next]_vars => [reply' # reply => output_buffer_' = <<>> /\ reply' = sent']_vars
    <2>. SUFFICES ASSUME IInv, [Next]_vars, reply' # reply
                  PROVE  output_buffer_' = <<>> /\ reply' = sent'
      OBVIOUS
    <2>0. TypeOK
      BY DEF IInv
    <2>1. ASSUME NEW k \in 1..SendMax, Send(k)
          PROVE  output_buffer_' = <<>> /\ reply' = sent'
      <3>1. PICK e \in Nat : /\ e = sent + k /\ k \in Nat /\ sent \in Nat /\ MaxOut \in Nat
                             /\ sent <= e /\ e <= MaxOut /\ sent' = e /\ e - sent = k
        BY <2>0, <2>1 DEF TypeOK, Send
      <3>2. /\ Numbers(sent, e) \in Seq(1..MaxOut)
            /\ Len(Numbers(sent, e)) = e - sent
        BY <3>1, NumbersFacts
      <3>3. \E n \in IF SendsDirectly THEN Writes(k) ELSE {0} :
               /\ BufferRest(Rest(Numbers(sent, sent + k), n))
               /\ reply' = IF n = k THEN sent + k ELSE reply
        BY <2>1 DEF Send
      <3>4. /\ BufferRest(Rest(Numbers(sent, e), k)) /\ reply' = e
            /\ k \in IF SendsDirectly THEN Writes(k) ELSE {0}
        BY <3>1, <3>3
      <3>5. output_buffer_ = <<>>
        BY <3>4 DEF SendsDirectly
      <3>6. Rest(Numbers(sent, e), k) = <<>>
        <4>1. k \in 0..Len(Numbers(sent, e)) /\ Len(Numbers(sent, e)) = k
          BY <3>1, <3>2
        <4>2. /\ Rest(Numbers(sent, e), k) \in Seq(1..MaxOut)
              /\ Len(Rest(Numbers(sent, e), k)) = Len(Numbers(sent, e)) - k
          BY ONLY <3>2, <4>1, Cut
        <4>. QED  BY <4>1, <4>2, EmptySeq
      <3>. QED  BY <3>1, <3>4, <3>5, <3>6 DEF BufferRest
    <2>2. CASE HandleWrite
      <3>1. output_buffer_ \in Seq(1..MaxOut) /\ Len(output_buffer_) \in Nat
        BY <2>0, LenProperties DEF TypeOK
      <3>2. output_buffer_' = Rest(output_buffer_, Len(output_buffer_)) /\ reply' = sent /\ sent' = sent
        BY <2>2 DEF HandleWrite, Replies
      <3>3. Len(output_buffer_) \in 0..Len(output_buffer_)
        BY <3>1
      <3>4. /\ Rest(output_buffer_, Len(output_buffer_)) \in Seq(1..MaxOut)
            /\ Len(Rest(output_buffer_, Len(output_buffer_))) = Len(output_buffer_) - Len(output_buffer_)
        BY ONLY <3>1, <3>3, Cut
      <3>. QED  BY <3>1, <3>2, <3>4, EmptySeq
    <2>. QED  BY <2>1, <2>2 DEF Next, User, HandleEvent, Peer, Shutdown, Retrieve, Poll,
              HandleClose, HandleReadFails, HandleRead, PeerReads, PeerSends, PeerFinishes,
              PeerResets, vars, outVars
  <1>. QED  BY <1>1, InvariantIInv, PTL DEF Spec, ReplyMeansWritten
=============================================================================

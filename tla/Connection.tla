----------------------------- MODULE Connection -----------------------------
(***************************************************************************)
(* The two byte streams of one connection (src/src/net/connection.cpp,     *)
(* eventbase.cpp): Send and HandleWrite between the user, the output       *)
(* buffer and the socket, HandleRead between the socket, the input buffer  *)
(* and the user, and how Shutdown, HandleClose and a reset by the peer cut *)
(* into them.                                                              *)
(*                                                                         *)
(* All handlers of a connection run in the thread of its loop, so a handler*)
(* is one step; what it races with is the socket and the peer, who go on   *)
(* between the poll and the handlers of what it reported.  Bytes are       *)
(* numbered in the order they are sent, a socket buffer has room for Room. *)
(***************************************************************************)
EXTENDS Naturals, Sequences, SequencesExt

CONSTANTS Room,      \* bytes a socket buffer holds
          SendMax,   \* the longest message given to Send
          MaxOut,    \* how many bytes the user ever sends
          MaxIn      \* how many bytes the peer ever sends

ASSUME RoomAssumption == Room \in Nat \ {0}
ASSUME SendAssumption == SendMax \in Nat \ {0}
ASSUME BoundAssumption == MaxOut \in Nat /\ MaxIn \in Nat

VARIABLES open,           \* registered with the loop: HandleClose has not run
          output_buffer_, input_buffer_,
          isWriting,      \* conn_eventbase_->IsWriting()
          outSocket,      \* what the kernel has taken and the peer not yet read
          inSocket,       \* what the peer has sent and HandleRead not yet read
          wrShut,         \* the socket is shut down for writing
          sent,           \* bytes given to Send
          received,       \* what the peer has read
          peerSent,       \* bytes the peer has sent
          consumed,       \* what the user has retrieved from the input buffer
          peer,           \* "up", "finished" sending, or "reset"
          reply,          \* the bytes sent when reply_complete_cb_ last ran
          shutdownAt,     \* the bytes sent when Shutdown was first called
          revents         \* what the poll reported and HandleEvent has not handled

outVars == <<output_buffer_, isWriting, outSocket, sent, reply>>
inVars == <<input_buffer_, inSocket, peerSent, consumed>>
endVars == <<open, wrShut, peer, shutdownAt>>
vars == <<outVars, inVars, endVars, received, revents>>

\* shutdownAt before Shutdown: more bytes than are ever sent.
NotAsked == MaxOut + 1

TypeOK == /\ open \in BOOLEAN /\ isWriting \in BOOLEAN /\ wrShut \in BOOLEAN
          /\ output_buffer_ \in Seq(1..MaxOut)
          /\ outSocket \in Seq(1..MaxOut) /\ Len(outSocket) <= Room
          /\ received \in Seq(1..MaxOut)
          /\ input_buffer_ \in Seq(1..MaxIn)
          /\ inSocket \in Seq(1..MaxIn) /\ Len(inSocket) <= Room
          /\ consumed \in Seq(1..MaxIn)
          /\ sent \in 0..MaxOut /\ reply \in 0..MaxOut /\ peerSent \in 0..MaxIn
          /\ peer \in {"up", "finished", "reset"}
          /\ shutdownAt \in 0..NotAsked
          /\ revents \subseteq {"in", "out", "hup"}

Init == /\ open = TRUE /\ isWriting = FALSE /\ wrShut = FALSE
        /\ output_buffer_ = <<>> /\ outSocket = <<>> /\ received = <<>>
        /\ input_buffer_ = <<>> /\ inSocket = <<>> /\ consumed = <<>>
        /\ sent = 0 /\ reply = 0 /\ peerSent = 0
        /\ peer = "up"
        /\ shutdownAt = NotAsked
        /\ revents = {}

-----------------------------------------------------------------------------
(* The socket.                                                             *)

Numbers(from, to) == [i \in 1..(to - from) |-> from + i]

Taken(data, n) == SubSeq(data, 1, n)
Rest(data, n) == SubSeq(data, n + 1, Len(data))

\* Mutant: a write is taken to have written all it was given.
WritesAll(len) == IF Len(outSocket) = Room THEN {0} ELSE {len}

\* How many bytes a non-blocking write of len bytes may take: as many as there is
\* room for or fewer, and none (EAGAIN, EPIPE, ECONNRESET) when there is no room,
\* after a shutdown, or after a reset.
Writes(len) ==
    LET free == Room - Len(outSocket) IN
    IF free = 0 \/ wrShut \/ peer = "reset" THEN {0}
    ELSE {n \in 1..len : n <= free}

-----------------------------------------------------------------------------
(* The user's calls, made from callbacks in the loop's thread.             *)

\* Mutant: the direct write is tried whatever the output buffer holds.
SendsDirectlyAlways == TRUE

SendsDirectly == ~isWriting /\ output_buffer_ = <<>>

\* Mutant: what could not be written is buffered, EPOLLOUT is left as it is.
BufferOnly(data) ==
    /\ output_buffer_' = output_buffer_ \o data
    /\ UNCHANGED isWriting

\* What was not written goes to the output buffer, and EPOLLOUT is watched.
BufferRest(data) ==
    IF data = <<>> THEN UNCHANGED <<output_buffer_, isWriting>>
    ELSE /\ output_buffer_' = output_buffer_ \o data
         /\ isWriting' = TRUE

\* Send of k bytes: the part a direct write takes, the reply callback when that
\* is all, the rest buffered.
Send(k) ==
    /\ open
    /\ sent + k <= MaxOut
    /\ sent' = sent + k
    /\ LET data == Numbers(sent, sent + k) IN
       \E n \in IF SendsDirectly THEN Writes(k) ELSE {0} :
          /\ outSocket' = outSocket \o Taken(data, n)
          /\ BufferRest(Rest(data, n))
          /\ reply' = IF n = k THEN sent + k ELSE reply
    /\ UNCHANGED <<inVars, endVars, received, revents>>

\* Mutant: Shutdown does not ask whether output is pending.
ShutdownNow == wrShut' = TRUE

\* Shutdown leaves the socket alone while output is pending, for good.
ShutdownIfWritten == wrShut' = (wrShut \/ ~isWriting)

Shutdown ==
    /\ open
    /\ ShutdownIfWritten
    /\ shutdownAt' = IF shutdownAt = NotAsked THEN sent ELSE shutdownAt
    /\ UNCHANGED <<outVars, inVars, open, peer, received, revents>>

\* The user takes some of what the input buffer holds.
Retrieve(n) ==
    /\ open
    /\ n \in 1..Len(input_buffer_)
    /\ consumed' = consumed \o Taken(input_buffer_, n)
    /\ input_buffer_' = Rest(input_buffer_, n)
    /\ UNCHANGED <<outVars, endVars, inSocket, peerSent, received, revents>>

-----------------------------------------------------------------------------
(* The handlers, called by HandleEvent in this order for what was polled.  *)

HangsUp == peer # "up"

\* Level triggered: every poll reports all that is so.  EPOLLHUP, EPOLLRDHUP and
\* EPOLLERR lead to the same close; with EPOLLHUP there is EPOLLRDHUP.
Ready == {e \in {"in", "out", "hup"} :
             \/ e = "in" /\ inSocket # <<>>
             \/ e = "out" /\ isWriting /\ (Len(outSocket) < Room \/ wrShut \/ HangsUp)
             \/ e = "hup" /\ HangsUp}

Poll ==
    /\ open
    /\ revents = {}
    /\ revents' = Ready
    /\ UNCHANGED <<outVars, inVars, endVars, received>>

\* A hang-up is handled first and alone: input not read is left.
HandleClose ==
    /\ "hup" \in revents
    /\ open' = FALSE
    /\ revents' = {}
    /\ UNCHANGED <<outVars, inVars, wrShut, peer, shutdownAt, received>>

\* A read takes all there is, or up to the size of the buffers.
HandleRead(n) ==
    /\ "in" \in revents /\ "hup" \notin revents
    /\ n \in 1..Len(inSocket)
    /\ input_buffer_' = input_buffer_ \o Taken(inSocket, n)
    /\ inSocket' = Rest(inSocket, n)
    /\ revents' = revents \ {"in"}
    /\ UNCHANGED <<outVars, endVars, peerSent, consumed, received>>

\* The read fails (a reset since the poll): HandleRead closes, and HandleEvent goes
\* on to EPOLLOUT.
HandleReadFails ==
    /\ "in" \in revents /\ "hup" \notin revents
    /\ inSocket = <<>>
    /\ open' = FALSE
    /\ revents' = revents \ {"in"}
    /\ UNCHANGED <<outVars, inVars, wrShut, peer, shutdownAt, received>>

\* Mutant: EPOLLOUT is no longer watched once anything has been written.
StillWritingNever(n) == FALSE

StillWriting(n) == n < Len(output_buffer_)

\* Mutant: the reply is complete when anything has been written.
RepliesAlways(n) == n > 0

Replies(n) == n = Len(output_buffer_)

\* HandleWrite writes what the socket takes; when nothing is left EPOLLOUT is no
\* longer watched and the reply is complete.  A write that fails changes nothing.
HandleWrite ==
    /\ revents = {"out"}
    /\ revents' = {}
    /\ \E n \in Writes(Len(output_buffer_)) :
          /\ outSocket' = outSocket \o Taken(output_buffer_, n)
          /\ output_buffer_' = Rest(output_buffer_, n)
          /\ isWriting' = StillWriting(n)
          /\ reply' = IF Replies(n) THEN sent ELSE reply
    /\ UNCHANGED <<inVars, endVars, received, sent>>

-----------------------------------------------------------------------------
(* The peer.                                                               *)

PeerReads ==
    /\ peer # "reset"
    /\ outSocket # <<>>
    /\ received' = Append(received, Head(outSocket))
    /\ outSocket' = Tail(outSocket)
    /\ UNCHANGED <<output_buffer_, isWriting, sent, reply, inVars, endVars, revents>>

PeerSends ==
    /\ peer = "up"
    /\ peerSent < MaxIn
    /\ Len(inSocket) < Room
    /\ inSocket' = Append(inSocket, peerSent + 1)
    /\ peerSent' = peerSent + 1
    /\ UNCHANGED <<outVars, endVars, input_buffer_, consumed, received, revents>>

\* A FIN: EPOLLRDHUP.
PeerFinishes ==
    /\ peer = "up"
    /\ peer' = "finished"
    /\ UNCHANGED <<outVars, inVars, open, wrShut, shutdownAt, received, revents>>

\* An RST: EPOLLHUP and EPOLLERR, and what the sockets held is gone.
PeerResets ==
    /\ peer # "reset"
    /\ peer' = "reset"
    /\ outSocket' = <<>>
    /\ inSocket' = <<>>
    /\ UNCHANGED <<output_buffer_, isWriting, sent, reply, input_buffer_, peerSent,
                   consumed, open, wrShut, shutdownAt, received, revents>>

-----------------------------------------------------------------------------

User == \/ \E k \in 1..SendMax : Send(k)
        \/ Shutdown
        \/ \E n \in 1..MaxIn : Retrieve(n)

HandleEvent == \/ HandleClose
               \/ HandleReadFails
               \/ \E n \in 1..MaxIn : HandleRead(n)
               \/ HandleWrite

Peer == PeerReads \/ PeerSends \/ PeerFinishes \/ PeerResets

Next == User \/ Poll \/ HandleEvent \/ Peer

Spec == Init /\ [][Next]_vars

\* The loop goes on polling and handles what is reported.  The peer reads.
FairSpec == /\ Spec
            /\ WF_vars(Poll)
            /\ WF_vars(HandleEvent)
            /\ WF_vars(PeerReads)

-----------------------------------------------------------------------------
(* Properties.                                                             *)

\* Nothing is lost, doubled or out of order between Send and the peer and between
\* the peer and the user, however writes are cut short and whether they are direct
\* or buffered, as long as the connection is not reset; a reset only cuts the
\* streams off; and when Shutdown closes the writing side, all the bytes sent
\* before it are in the hands of the kernel
\* (connection.cpp:36-69, 82-88, 91-132, README.md:288-290).
StreamsIntact ==
    /\ IsPrefix(received, Numbers(0, sent))
    /\ IsPrefix(consumed \o input_buffer_, Numbers(0, peerSent))
    /\ peer # "reset" =>
          /\ received \o outSocket \o output_buffer_ = Numbers(0, sent)
          /\ consumed \o input_buffer_ \o inSocket = Numbers(0, peerSent)
    /\ wrShut /\ shutdownAt # NotAsked =>
          \A i \in DOMAIN output_buffer_ : output_buffer_[i] > shutdownAt

\* Output that waits is output that EPOLLOUT is watched for, and an idle socket is
\* not watched (which level triggering would turn into a busy loop)
\* (connection.cpp:63-67, 117-120).
WatchedIffPending == isWriting <=> output_buffer_ # <<>>

\* reply_complete_cb_ says that all that has been sent is in the hands of the
\* kernel: it never runs while the output buffer still holds bytes, those of an
\* earlier or a later Send included (connection.cpp:45-47, 117-124).
ReplyMeansWritten ==
    [][reply' # reply => output_buffer_' = <<>> /\ reply' = sent']_vars

\* Output is written out in the end, unless the connection closes, is reset, or its
\* writing side is closed already.
OutputDrains ==
    (output_buffer_ # <<>>) ~> (output_buffer_ = <<>> \/ HangsUp \/ wrShut)

\* A connection the user has shut down closes its writing side, at the latest when
\* the pending output is written (README.md:137).
ShutdownCloses == (shutdownAt # NotAsked) ~> (wrShut \/ HangsUp)
=============================================================================

------------------------------ MODULE LogFile ------------------------------
(***************************************************************************)
(* The asynchronous log down to the disk: what the backend thread of       *)
(* AsyncLogger gives to its LogFile (src/src/log/logfile.cpp), which puts  *)
(* it into the buffer of a FILE (src/src/log/fileutil.cpp) and flushes     *)
(* that now and then; and a disk that is full for a while.                 *)
(*                                                                         *)
(* The actions are those of AsyncLogger with what each does to the file.   *)
(* A round writes its buffers one by one, so that the disk may fill up and *)
(* the program may abort between any two of them.  An abort (LOG_FATAL,    *)
(* src/src/log/logger.cpp:96-110, flushes stdout only) needs no action:    *)
(* what it leaves behind is the disk of some state.                        *)
(***************************************************************************)
EXTENDS AsyncLogger

CONSTANTS FlushEvery,   \* flush_every_n_
          StdioRoom,    \* the messages buffer_ of an AppendFile has room for
          MaxFills      \* bound: how often the disk becomes full

ASSUME FileAssumption == /\ FlushEvery \in Nat \ {0}
                         /\ StdioRoom \in Nat
                         /\ MaxFills \in Nat

VARIABLES written,    \* i of the loop that writes a round
          count_,     \* appends since the last flush they caused
          fileBuffer, \* what fp_ has in its buffer
          disk,       \* what has reached the disk
          lost,       \* messages given up because the disk was full
          full,       \* the disk is full
          fills       \* how often it has become so

fileVars == <<written, count_, fileBuffer, disk, lost>>
diskVars == <<full, fills>>
logVars == <<vars, fileVars, diskVars>>

FileInit == /\ written = 0
            /\ count_ = 0
            /\ fileBuffer = <<>>
            /\ disk = <<>>
            /\ lost = {}
            /\ full = FALSE
            /\ fills = 0

LogInit == Init /\ FileInit

-----------------------------------------------------------------------------
(* The file.                                                               *)

Upto(s, k) == SubSeq(s, 1, k)
From(s, k) == SubSeq(s, k + 1, Len(s))

\* What is in the buffer, and what the disk did not take, is thrown away.
Discard(s) == fileBuffer' = <<>> /\ lost' = lost \cup Range(s)

\* A flush that the full disk refuses: one library keeps the buffer, another one
\* (glibc) throws it away.
Flush == \/ ~full /\ disk' = disk \o fileBuffer /\ fileBuffer' = <<>> /\ UNCHANGED lost
         \/ full /\ UNCHANGED <<disk, fileBuffer, lost>>
         \/ full /\ Discard(fileBuffer) /\ UNCHANGED disk

\* fclose flushes, and there is no buffer any more.
Close == /\ disk' = IF full THEN disk ELSE disk \o fileBuffer
         /\ lost' = IF full THEN lost \cup Range(fileBuffer) ELSE lost
         /\ fileBuffer' = <<>>

\* The disk takes what the buffer has no room for.
WriteThrough(s) ==
    LET k == IF Len(s) > StdioRoom THEN Len(s) - StdioRoom ELSE 0
    IN  disk' = disk \o Upto(s, k) /\ fileBuffer' = From(s, k)

\* Mutant: the loop writes all of a buffer again after its first part.
PutAllAgain(c) ==
    \/ ~full /\ \E k \in 0..Len(c) : WriteThrough(fileBuffer \o Upto(c, k) \o c) /\ UNCHANGED lost
    \/ full /\ UNCHANGED <<disk, fileBuffer>> /\ lost' = lost \cup Range(c)

\* The buffer keeps what fits, and a write that takes nothing ends the loop.
KeepFirst(s) ==
    LET k == IF Len(s) <= StdioRoom THEN Len(s) ELSE StdioRoom
    IN  fileBuffer' = Upto(s, k) /\ lost' = lost \cup Range(From(s, k))

\* The buffer is thrown away whenever it is full, so that the loop goes on with the
\* rest, or gives that up, too.
KeepLast(s) == \E k \in 0..Len(s) : /\ k + StdioRoom >= Len(s)
                                    /\ fileBuffer' = From(s, k)
                                    /\ lost' = lost \cup Range(Upto(s, k))

\* AppendFile::Append: writes until all of c is taken, or until a write takes
\* nothing because the disk is full.
Put(c) ==
    LET all == fileBuffer \o c
    IN  \/ ~full /\ WriteThrough(all) /\ UNCHANGED lost
        \/ full /\ KeepFirst(all) /\ UNCHANGED disk
        \/ full /\ Len(all) > StdioRoom /\ KeepLast(all) /\ UNCHANGED disk

\* LogFile::Append: every FlushEvery-th one flushes what it has put there.
FileAppend(c) ==
    IF count_ + 1 >= FlushEvery
    THEN /\ count_' = 0
         /\ \/ ~full /\ disk' = disk \o fileBuffer \o c /\ fileBuffer' = <<>> /\ UNCHANGED lost
            \/ full /\ Put(c)
            \/ full /\ Discard(fileBuffer \o c) /\ UNCHANGED disk
    ELSE count_' = count_ + 1 /\ Put(c)

-----------------------------------------------------------------------------
(* The backend thread with its file.                                       *)

Round == Written(buffers_to_write)

WriteBuffer == /\ pc = "write"
               /\ written < Len(Round)
               /\ FileAppend(heap[Round[written + 1]])
               /\ written' = written + 1
               /\ UNCHANGED vars

RoundWritten == written = Len(Round)

\* Mutant: a round does not flush.
RoundEndNoFlush ==
    /\ RoundWritten
    /\ WriteBuffers
    /\ written' = 0
    /\ UNCHANGED <<count_, lost, disk, fileBuffer>>

RoundEnd ==
    /\ RoundWritten
    /\ WriteBuffers
    /\ Flush
    /\ written' = 0
    /\ UNCHANGED count_

\* The thread goes on, or it flushes, closes the file and returns.
NextRound ==
    /\ LoopTest
    /\ \/ is_running_ /\ UNCHANGED fileVars
       \/ ~is_running_ /\ Close /\ UNCHANGED <<written, count_>>

TakeBuffers == (Wait \/ SwapAtOnce \/ SwapNotified) /\ UNCHANGED fileVars

TimedOut == SwapTimedOut /\ UNCHANGED fileVars

-----------------------------------------------------------------------------
(* The other threads, and the disk.                                        *)

Others == (Log \/ Stop \/ Join) /\ UNCHANGED fileVars

DiskFills == /\ ~full
             /\ fills < MaxFills
             /\ full' = TRUE
             /\ fills' = fills + 1
             /\ UNCHANGED <<vars, fileVars>>

DiskClears == /\ full
              /\ full' = FALSE
              /\ UNCHANGED <<fills, vars, fileVars>>

BackendWrites == WriteBuffer \/ RoundEnd \/ NextRound \/ TakeBuffers

Runs(action) == action /\ UNCHANGED diskVars

LogNext == \/ Runs(BackendWrites)
           \/ Runs(TimedOut)
           \/ Runs(Others)
           \/ DiskFills
           \/ DiskClears

LogSpec == LogInit /\ [][LogNext]_logVars

\* As in AsyncLogger: the backend and the owner in join are scheduled, and a wait
\* ends when it is notified; the disk and the timeout have no fairness.
FairLogSpec == /\ LogSpec
               /\ WF_logVars(Runs(BackendWrites))
               /\ WF_logVars(Runs(Join /\ UNCHANGED fileVars))

\* A wait ends after flush_interval_ at the latest.
TimeoutComes == WF_logVars(Runs(TimedOut))

\* Somebody makes room on the disk.
DiskRecovers == WF_logVars(DiskClears)

-----------------------------------------------------------------------------
(* Properties.                                                             *)

RoundsAreFlushed == /\ fills = 0 => /\ lost = {}
                                    /\ pc # "write" => fileBuffer = <<>>
                    /\ owner = "joined" => fileBuffer = <<>>

\* A crash at any moment loses only what was not written in a round that is over:
\* the disk and the buffer of the file hold messages once and in the order they were
\* logged, each message of a round that is over is there unless the disk was full,
\* and none of them is left in the buffer of the file unless the disk was full
\* (asynclogger.cpp:98-136, logfile.cpp:14-25, fileutil.cpp:22-45).
CrashLosesNoRound ==
    LET file == disk \o fileBuffer
    IN  /\ \A i, j \in DOMAIN file : i < j => file[i] < file[j]
        /\ Range(output) \subseteq Range(file) \cup lost
        /\ RoundsAreFlushed

\* One of the buffers in bs holds m.
Holds(bs, m) == \E b \in bs : m \in Range(heap[b])

\* m is not on its way to the file any more.
Left(m) == ~Holds(Range(buffers_to_write) \cup Range(buffers_) \cup {cur_buffer_}, m)

\* It is on the disk, was dropped in a backlog or was lost to a full disk.
Settled(m) == m <= accepted /\ Left(m) /\ m \notin Range(fileBuffer)

\* A message in a full buffer is written or dropped without waiting for the
\* timeout of the backend, unless the log is stopped: no notification is lost
\* between the test of buffers_ and the wait (asynclogger.cpp:51-52, 75-80).
FullBuffersArePrompt ==
    \A m \in 1..Messages :
        Holds(Range(buffers_), m) ~> (Left(m) \/ ~is_running_)

\* Every message settles in the end, the one alone in its buffer and the one a full
\* disk has kept in the buffer of the file too, unless the log is stopped.
EveryMessageSettles ==
    TimeoutComes /\ DiskRecovers =>
        \A m \in 1..Messages : (m <= accepted) ~> (Settled(m) \/ ~is_running_)

\* No message stays: neither one in a full buffer for the length of a timeout, nor
\* one alone in its buffer, or in that of the file, for ever.
MessagesLeave == FullBuffersArePrompt /\ EveryMessageSettles

\* Stop returns, even when its notification comes before the wait; and a backend
\* that has begun a round before it sees the flag writes all that was appended
\* before the Stop, and closes the file.  One that sees the flag first leaves it in
\* the buffers (asynclogger.h:37-43, asynclogger.cpp:73-93).
StopWritesResidue ==
    TimeoutComes =>
        /\ (owner = "stopping") ~> (owner = "joined")
        /\ (owner = "stopping" /\ pc \in {"lock", "wait"})
              ~> (\A m \in 1..beforeStop : Settled(m))
=============================================================================

----------------------------- MODULE TimerQueue -----------------------------
(***************************************************************************)
(* The timers of a loop (src/src/net/timerqueue.cpp, Looper::RunTaskAfter):*)
(* a heap of timers by expiry and one timerfd armed for the first of them. *)
(*                                                                         *)
(* Everything runs in the loop's thread; what it races with is the clock,  *)
(* which goes on between any two reads of it.  Time is counted in ticks up *)
(* to MaxTime, and the clocks behind system_clock and the timerfd keep the *)
(* same pace and are not set.                                              *)
(***************************************************************************)
EXTENDS Naturals, Sequences, SequencesExt

CONSTANTS Timers,     \* the timers, each of them added at most once
          Intervals,  \* the intervals RunTaskAfter is called with
          MaxTime     \* the last tick of the clock

ASSUME IntervalsAssumption == Intervals \subseteq Nat
ASSUME MaxTimeAssumption == MaxTime \in Nat

Times == 0..MaxTime

VARIABLES clock,
          timer_queue_,  \* the heap, in the order in which its timers get to the top
          when_,         \* the expiry of each timer added
          timerfd_,      \* when the timerfd fires or has fired, or Off
          phase,         \* "idle", "reported": polled and not handled yet,
                         \* "loop" and "call": in HandelTimerExpired
          now,           \* what HandelTimerExpired has read from the clock
          ran            \* the timers that have been run, in this order

vars == <<clock, timer_queue_, when_, timerfd_, phase, now, ran>>

\* A timerfd that is disarmed, or has fired and been read.
Off == MaxTime + 1

Added == DOMAIN when_
Expiry(t) == when_[t]
Top == Head(timer_queue_)

Init == /\ clock = 0
        /\ timer_queue_ = <<>>
        /\ when_ = <<>>
        /\ timerfd_ = Off
        /\ phase = "idle"
        /\ now = 0
        /\ ran = <<>>

-----------------------------------------------------------------------------
(* The clock and the timerfd.                                              *)

Tick == /\ clock < MaxTime
        /\ clock' = clock + 1
        /\ UNCHANGED <<timer_queue_, when_, timerfd_, phase, now, ran>>

\* ResetTimerfd at clock': a gap of zero disarms the timerfd, a negative one is an
\* error of timerfd_settime and changes nothing.
ResetTimerfd(when) ==
    timerfd_' = IF when > clock' THEN when
                ELSE IF when = clock' THEN Off
                ELSE timerfd_

Readable == timerfd_ <= clock

-----------------------------------------------------------------------------
(* AddTimer, called in the loop's thread: from a handler, a task, or the   *)
(* callback of a timer.                                                    *)

\* Mutant: the heap is ordered by the time of the call.
PushLast(t, when) == timer_queue_' = Append(timer_queue_, t)

\* A place in the heap's order; what is not earlier than the top does not replace it.
Push(t, when) ==
    \E i \in 1..Len(timer_queue_) + 1 :
        /\ \A j \in 1..(i - 1) : Expiry(timer_queue_[j]) <= when
        /\ \A j \in i..Len(timer_queue_) : when <= Expiry(timer_queue_[j])
        /\ i = 1 /\ timer_queue_ # <<>> => when < Expiry(Top)
        /\ timer_queue_' = InsertAt(timer_queue_, i, t)

\* The clock is read for the expiry, and again to arm the timerfd.
AddTimer(t, interval) ==
    /\ phase \in {"idle", "reported", "call"}
    /\ t \notin Added
    /\ clock + interval <= MaxTime
    /\ \E later \in clock..MaxTime : clock' = later
    /\ LET when == clock + interval IN
       /\ when_' = [x \in Added \cup {t} |-> IF x = t THEN when ELSE when_[x]]
       /\ IF timer_queue_ = <<>> \/ (timer_queue_ # <<>> /\ when < Expiry(Top))
          THEN ResetTimerfd(when) ELSE UNCHANGED timerfd_
       /\ Push(t, when)
    /\ UNCHANGED <<phase, now, ran>>

-----------------------------------------------------------------------------
(* HandelTimerExpired.                                                     *)

PollReports ==
    /\ phase = "idle"
    /\ Readable
    /\ phase' = "reported"
    /\ UNCHANGED <<clock, timer_queue_, when_, timerfd_, now, ran>>

HandelTimerExpired ==
    /\ phase = "reported"
    /\ timerfd_' = IF Readable THEN Off ELSE timerfd_
    /\ now' = clock
    /\ phase' = "loop"
    /\ UNCHANGED <<clock, timer_queue_, when_, ran>>

\* Mutant: the first timer is run without a look at its expiry.
IsDueAlways == timer_queue_ # <<>>

IsDue == timer_queue_ # <<>> /\ Expiry(Top) < now

Run ==
    /\ phase = "loop"
    /\ IsDue
    /\ ran' = Append(ran, Top)
    /\ phase' = "call"
    /\ UNCHANGED <<clock, timer_queue_, when_, timerfd_, now>>

\* Mutant: the timer stays in the heap.
PopNot == UNCHANGED timer_queue_

\* The timer on top is popped after the callback has returned.
Pop == timer_queue_' = Tail(timer_queue_)

RunReturn ==
    /\ phase = "call"
    /\ Pop
    /\ phase' = "loop"
    /\ UNCHANGED <<clock, when_, timerfd_, now, ran>>

Finish ==
    /\ phase = "loop"
    /\ ~IsDue
    /\ clock' = clock
    /\ IF timer_queue_ # <<>> THEN ResetTimerfd(Expiry(Top)) ELSE UNCHANGED timerfd_
    /\ phase' = "idle"
    /\ UNCHANGED <<timer_queue_, when_, now, ran>>

-----------------------------------------------------------------------------

Handler == HandelTimerExpired \/ Run \/ RunReturn \/ Finish

Next == \/ Tick
        \/ \E t \in Timers, interval \in Intervals : AddTimer(t, interval)
        \/ PollReports
        \/ Handler

Spec == Init /\ [][Next]_vars

\* Time goes on, the loop polls and its handlers return.
FairSpec == Spec /\ WF_vars(Tick) /\ WF_vars(PollReports) /\ WF_vars(Handler)

-----------------------------------------------------------------------------
(* Properties.                                                             *)

\* Every timer that has left the heap has run, once, and nothing else has run except
\* the one whose callback is running: the timer popped after a callback is the one
\* that was run, whatever timers the callback has added (timerqueue.cpp:71-75).
EachRunsOnce ==
    /\ IsInjective(ran)
    /\ Range(ran) = (Added \ Range(timer_queue_))
                    \cup (IF phase = "call" THEN {Top} ELSE {})

\* Timers run in the order of their expiry, over all rounds of HandelTimerExpired and
\* whenever they are added, and none before its expiry
\* (timerqueue.cpp:15-21, 27-38, 63-75).
RunInOrder ==
    /\ \A i, j \in DOMAIN ran : i < j => Expiry(ran[i]) <= Expiry(ran[j])
    /\ \A i \in DOMAIN ran : Expiry(ran[i]) <= clock

\* A timer that runs is run once, not before its time and not before an earlier one.
RunOnceInOrder == EachRunsOnce /\ RunInOrder

\* A task given to RunTaskAfter is executed after its interval (looper.cpp:114); those
\* that expire with the last tick are left out.
TimersRun ==
    \A t \in Timers : (t \in Added /\ Expiry(t) < MaxTime) ~> (t \in Range(ran))
=============================================================================

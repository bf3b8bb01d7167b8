---------------------------- MODULE FixedStepLoop ----------------------------
(***************************************************************************)
(* The loop that steps all matches at a fixed rate (fixedStepLoop.ts): a   *)
(* record of its private fields, and an operator for each of its methods.  *)
(*                                                                         *)
(* The times of the code are told by their differences: `late` is how long *)
(* ago the frame it has reached was due, clock - epoch - frame * Period,   *)
(* and `away` how long ago it was paused.  `wake` is the time until its    *)
(* callback is due; a cancelled callback does not come, which is what the  *)
(* generation of a wake makes sure of.                                     *)
(*                                                                         *)
(* A definition named X_Mutation is X with a plausible bug: nothing uses   *)
(* it, it documents which property notices that bug.                       *)
(***************************************************************************)
EXTENDS Integers

CONSTANTS
    Period,             \* the time of a frame
    Grain,              \* delays are whole multiples of this: milliseconds
    MaxCatchUpSteps     \* frames of one callback

ASSUME LoopAssumption == {Period, Grain, MaxCatchUpSteps} \subseteq Nat \ {0}

Unset == -1
NewLoop == [state |-> "idle", late |-> 0, away |-> 0, wake |-> Unset, overloaded |-> FALSE]

\* Whole frames between the one reached and the one the clock asks for: #targetFrame.
Behind(l) == l.late \div Period

\* #scheduleNext: at once when a frame is due, or when the next one is, in whole grains.
RoundedUp(t) == ((t + Grain - 1) \div Grain) * Grain
ScheduledNext(l) ==
    [l EXCEPT !.wake = IF Behind(l) > 0 THEN 0 ELSE RoundedUp(Period - l.late)]

\* start, pause and resume: the epoch moves on by the time the loop was away.
LoopStart(l) == ScheduledNext([l EXCEPT !.state = "running", !.late = 0])
LoopPause(l) == [l EXCEPT !.state = "paused", !.away = 0, !.wake = Unset]
LoopResume_KeepsEpoch(l) == ScheduledNext([l EXCEPT !.state = "running", !.away = 0])
LoopResume(l) ==
    ScheduledNext([l EXCEPT !.state = "running", !.late = @ - l.away, !.away = 0])

\* close, and #halt when the clock goes back or the scheduler refuses; nothing reads its
\* times afterwards.
LoopEnd(state) == [NewLoop EXCEPT !.state = state]

\* #updateOverload
Overloaded(l) ==
    [l EXCEPT !.overloaded = IF @ THEN Behind(l) # 0 ELSE Behind(l) > MaxCatchUpSteps]

\* #pump runs at most MaxCatchUpSteps of the frames that are due, in which time passes.
Batch(l) == IF Behind(l) < MaxCatchUpSteps THEN Behind(l) ELSE MaxCatchUpSteps
LoopPump(l, spent) ==
    LET caught == [Overloaded(l) EXCEPT !.late = @ - Batch(l) * Period + spent,
                                        !.wake = Unset]
    IN  ScheduledNext(Overloaded(caught))

\* The clock and the timer of the scheduler.
LoopElapsed(l, t) ==
    [l EXCEPT !.late = @ + t,
              !.away = IF l.state = "paused" THEN @ + t ELSE @,
              !.wake = IF @ > t THEN @ - t ELSE IF @ = Unset THEN @ ELSE 0]

LoopType ==
    [state : {"idle", "running", "paused", "stopped", "closed"}, late : Nat, away : Nat,
     wake : {Unset} \cup Nat, overloaded : BOOLEAN]

=============================================================================

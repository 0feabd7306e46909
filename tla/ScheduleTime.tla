----------------------------- MODULE ScheduleTime -----------------------------
(***************************************************************************)
(* The date arithmetic of the auto-task scheduler, internal/service/       *)
(* auto_draw.go.  Time is a count of units since a Beijing midnight; day d *)
(* is d*Day .. (d+1)*Day - 1.  UTC days begin UTCShift units after the     *)
(* Beijing midnight they are named after.                                  *)
(***************************************************************************)
EXTENDS Integers

CONSTANTS
    Day,         \* units per day
    Hour,        \* units per hour: autoCheckinPostponeWindow, and the cap of
                 \* the random offset
    UTCShift     \* Beijing time minus UTC, 8 hours

ASSUME TimeAssumption ==
    /\ Hour \in Nat \ {0}
    /\ Day \in Nat /\ Day > Hour
    /\ UTCShift \in Nat /\ UTCShift < Day

DayOf(t) == t \div Day

\* Mutant of FixedTimes: a fixed time less than a unit ahead is too late.
FixedTimesLate(d, start, now) == {d * Day + start} \ (0 .. now + 1)

\* scheduleTime, the plan times an entry may get when the tick at `now` first
\* meets it on day d.  A fixed entry needs its time to be still ahead.
FixedTimes(d, start, now) == {d * Day + start} \ (0 .. now)

\* Mutant of RandomTimes: the offset is drawn from the window's full length.
RandomTimesFull(d, start, end, now) ==
    LET from == IF d * Day + start < now THEN now ELSE d * Day + start
    IN  {from + offset : offset \in 0 .. (end - start) - 1}

\* A random entry takes what remains of its window, at most an hour of it.
RandomTimes(d, start, end, now) ==
    LET from == IF d * Day + start < now THEN now ELSE d * Day + start
        last == d * Day + end
        duration == IF last - from > Hour THEN Hour ELSE last - from
    IN  {from + offset : offset \in 0 .. duration - 1}

\* time.Truncate(24h) cuts at midnight UTC.
Truncate(t) == ((t - UTCShift) \div Day) * Day + UTCShift

\* Mutant of GivesUp: a retry after midnight is a retry like any other.
GivesUpNever(now) == now + Hour >= Truncate(now + Day) + Day

\* postponeCheckinPlan: skip for today instead of retrying in an hour.
GivesUp(now) ==
    LET next == now + Hour
    IN  \/ DayOf(next) # DayOf(now)
        \/ next >= Truncate(now + Day)
===============================================================================

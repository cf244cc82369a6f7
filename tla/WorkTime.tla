------------------------------ MODULE WorkTime ------------------------------
(***************************************************************************)
(* The working time of a team between two instants                         *)
(* (core/work_schedule/service.py), computed day by day, with its rotation *)
(* of shifts, its days off and a holiday of the schedule.                  *)
(*                                                                         *)
(* A day has DayLength ticks.  A shift starts at a tick and takes at most  *)
(* a day, so that it may end on the next one.  The walk of the code adds   *)
(* the shift of the day and what is left of that of the day before, and    *)
(* takes a whole rotation at once where it can.  The reference is the      *)
(* number of ticks of its shifts that lie in the window.                   *)
(***************************************************************************)
EXTENDS Integers, SequencesExt

CONSTANTS
    DayLength,
    Rotations,      \* sequences of segments: [shift, on, off], the shift or None
    RotationStart,  \* the day of rotation_start
    Froms, Tos,     \* ticks a window may begin and end at
    Holidays        \* sets of non-working periods: [start, length]

\* A segment whose shift was deleted has no shift left.
NoShift == [start |-> 0, length |-> 0]

\* A shift starts on its day and takes a day at most.
Shifts == [start : 0..(DayLength - 1), length : 1..DayLength]

ASSUME WorkTimeAssumption ==
    /\ DayLength \in Nat \ {0} /\ RotationStart \in Nat
    /\ Froms \cup Tos \subseteq Nat
    /\ Holidays \subseteq SUBSET [start : Nat, length : Nat]
    /\ \A periods \in Holidays : IsFiniteSet(periods)
    /\ Rotations \subseteq Seq([shift : Shifts \cup {NoShift}, on : Nat \ {0}, off : Nat])

VARIABLES
    plan,       \* the rotation, the window and the holidays
    today,      \* this_date
    now,        \* this_time
    lastShift,  \* last_shift
    worked,     \* total
    skips,      \* ghost: how often a whole rotation was taken at once
    answer      \* of compute_working_time, or -1

workVars == <<plan, today, now, lastShift, worked, skips, answer>>

DayOf(t) == t \div DayLength
TimeOf(t) == t % DayLength

WorkTypeOK ==
    /\ plan.rotation \in Rotations /\ plan.from \in Froms /\ plan.to \in Tos
    /\ today \in Nat /\ now \in 0..(DayLength - 1)
    /\ lastShift.start \in 0..(DayLength - 1) /\ lastShift.length \in 0..DayLength
    /\ worked \in Nat /\ skips \in Nat /\ answer \in {-1} \cup Nat

-----------------------------------------------------------------------------
(***************************************************************************)
(* Rotations and shifts.                                                   *)
(***************************************************************************)

\* _build_period_list: one entry a day.
Periods(R) ==
    FlattenSeq([k \in DOMAIN R |-> [i \in 1..R[k].on |-> R[k].shift] \o [i \in 1..R[k].off |-> NoShift]])

\* day_count and working_seconds
DayCount(R) ==
    LET days == [k \in DOMAIN R |-> R[k].on + R[k].off] IN MapThenSumSet(LAMBDA k : days[k], DOMAIN R)
RotationTime(R) ==
    LET time == [k \in DOMAIN R |-> R[k].on * R[k].shift.length] IN MapThenSumSet(LAMBDA k : time[k], DOMAIN R)

\* _day_in_rotation raises for the days before rotation_start.
DayInRotation(R, day) == ((day - RotationStart) % DayCount(R)) + 1

OnHoliday(day) ==
    \E h \in plan.holidays : DayOf(h.start) <= day /\ day <= DayOf(h.start + h.length)

\* _get_shift_instance_for_day; without an instance, NoShift.
ShiftOf(day) ==
    IF plan.rotation = <<>> \/ day < RotationStart \/ OnHoliday(day) THEN NoShift
    ELSE Periods(plan.rotation)[DayInRotation(plan.rotation, day)]

EndTime(s) == (s.start + s.length) % DayLength
SpansMidnight(s) == s # NoShift /\ EndTime(s) <= s.start

\* compute_shift_total_working_time, with before_midnight: the part of the shift
\* between two times of its first day; to is DayLength at the end of the day.
ShiftTime(s, from, to) ==
    LET whole == to = from /\ from = s.start /\ s.length = DayLength
        delta == IF whole THEN DayLength ELSE IF to < from THEN DayLength + to - from ELSE to - from
        until == IF SpansMidnight(s) THEN from + delta ELSE to
        end   == IF SpansMidnight(s) THEN EndTime(s) + DayLength ELSE EndTime(s)
        Clip(t) == IF t < s.start THEN s.start ELSE IF t > end THEN end ELSE t
    IN  Clip(until) - Clip(from)

\* Mutant of InShift: a shift is over at its end.
InShiftBefore(s, t) ==
    IF s.start < EndTime(s) THEN s.start <= t /\ t < EndTime(s) ELSE t >= s.start \/ t < EndTime(s)

\* is_time_in_shift
InShift(s, t) ==
    IF s.start < EndTime(s) THEN s.start <= t /\ t <= EndTime(s) ELSE t >= s.start \/ t <= EndTime(s)

\* compute_shift_instances_for_time: the shift of the day of that instant, or none.
InstanceAt(t) ==
    LET s == ShiftOf(DayOf(t)) IN IF s # NoShift /\ InShift(s, TimeOf(t)) THEN s ELSE NoShift

-----------------------------------------------------------------------------
(***************************************************************************)
(* The walk.                                                               *)
(***************************************************************************)

WorkInit ==
    /\ plan \in [rotation : Rotations, from : Froms, to : Tos, holidays : Holidays]
    /\ plan.from < plan.to
    /\ today = DayOf(plan.from) /\ now = TimeOf(plan.from)
    /\ lastShift = ShiftOf(today - 1)
    /\ worked = 0 /\ skips = 0 /\ answer = -1

\* The hours after midnight of the shift of the day before.
Remainder ==
    IF /\ SpansMidnight(lastShift)
       /\ today < DayOf(plan.to) \/ TimeOf(plan.to) # 0
       /\ EndTime(lastShift) > now
    THEN EndTime(lastShift) - now ELSE 0

\* Mutant of Today: the end of the window is forgotten.
TodayToMidnight ==
    IF ShiftOf(today) = NoShift THEN 0 ELSE ShiftTime(ShiftOf(today), now, DayLength)

Today ==
    IF ShiftOf(today) = NoShift THEN 0
    ELSE ShiftTime(ShiftOf(today), now,
                   IF today = DayOf(plan.to) THEN TimeOf(plan.to) ELSE DayLength)

\* On the last day of a rotation, the next one is taken as a whole if it ends
\* before the window does.
TakesRotation ==
    LET R == plan.rotation IN
    /\ R # <<>> /\ today >= RotationStart /\ DayInRotation(R, today) = DayCount(R)
    /\ today + DayCount(R) < DayOf(plan.to)

\* One turn of the loop of compute_team_working_time.
WalkDay ==
    /\ answer = -1
    /\ today <= DayOf(plan.to)
    /\ worked' = worked + Remainder + Today
                 + (IF TakesRotation THEN RotationTime(plan.rotation) ELSE 0)
    /\ lastShift' = ShiftOf(today)
    /\ today' = today + (IF TakesRotation THEN DayCount(plan.rotation) ELSE 1)
    /\ skips' = IF TakesRotation THEN skips + 1 ELSE skips
    /\ now' = 0
    /\ UNCHANGED <<plan, answer>>

EndOfPeriod(h) == h.start + h.length

\* The part of a non-working period that lies in the window.
HolidayPart(h) ==
    LET begin == Max({h.start, plan.from})
        end   == Min({EndOfPeriod(h), plan.to})
    IN  IF end > begin THEN end - begin ELSE 0

TimeOff(periods) ==
    LET time == [h \in periods |-> HolidayPart(h)] IN MapThenSumSet(LAMBDA h : time[h], periods)

\* The periods are gone through by their start, those that start together in any order.
InTurn ==
    {turn \in Injection(plan.holidays, 1..Cardinality(plan.holidays)) :
        \A h, k \in plan.holidays : turn[h] < turn[k] => h.start <= k.start}

\* Mutant of Reached: the loop ends before that period is added.
ReachedBefore(turn) ==
    {h \in plan.holidays : \A k \in plan.holidays : turn[k] <= turn[h] => EndOfPeriod(k) < plan.to}

\* The loop ends with the first period that reaches the end of the window.
Reached(turn) ==
    {h \in plan.holidays : \A k \in plan.holidays : turn[k] < turn[h] => EndOfPeriod(k) < plan.to}

\* compute_non_working_time
HolidayTime(turn) == TimeOff(Reached(turn))

\* compute_working_time, after the teams: one team.
Deduct ==
    /\ answer = -1
    /\ today > DayOf(plan.to)
    /\ \E turn \in InTurn : answer' = Max({worked - HolidayTime(turn), 0})
    /\ UNCHANGED <<plan, today, now, lastShift, worked, skips>>

WorkNext == WalkDay \/ Deduct

WorkSpec == WorkInit /\ [][WorkNext]_workVars

-----------------------------------------------------------------------------
(***************************************************************************)
(* Properties.                                                             *)
(***************************************************************************)

\* The ticks of the shifts of the days that lie in the window, each with the day.
Ticks(days) ==
    {x \in days \X (plan.from..(plan.to - 1)) :
        LET begin == x[1] * DayLength + ShiftOf(x[1]).start
        IN  begin <= x[2] /\ x[2] < begin + ShiftOf(x[1]).length}

\* The reference: as many as there are, with the shift of the evening before.
Reference == Cardinality(Ticks((DayOf(plan.from) - 1)..DayOf(plan.to)))

\* What the docstring of compute_team_working_time promises: the shifts of the days,
\* clipped to the window, and what follows midnight.
WorkingTimeExact == answer # -1 => worked = Reference

\* The last day of a rotation is counted again after every rotation taken as a whole.
CountedAgain ==
    LET P == Periods(plan.rotation) IN IF P = <<>> THEN 0 ELSE skips * P[Len(P)].length

\* On the last day the remainder of a shift is not cut off at the end of the window.
Uncut ==
    LET s == ShiftOf(DayOf(plan.to) - 1)
        t == TimeOf(plan.to)
    IN  IF SpansMidnight(s) /\ t > 0 /\ EndTime(s) > t THEN EndTime(s) - t ELSE 0

\* A shift of a day that starts where the window ends, at midnight, counts in full.
WholeDay ==
    IF TimeOf(plan.to) = 0 /\ ShiftOf(DayOf(plan.to)) = [start |-> 0, length |-> DayLength]
    THEN DayLength ELSE 0

\* Without holidays the result is the reference, but for these three; with one it is
\* the reference without the days it touches, as long as no rotation is skipped.
WorkingTimeExplained ==
    answer # -1 /\ (plan.holidays = {} \/ skips = 0) =>
        worked = Reference + CountedAgain + Uncut + WholeDay

\* A shift is under way at an instant, its end included.
UnderWay(day, t) ==
    /\ ShiftOf(day) # NoShift
    /\ day * DayLength + ShiftOf(day).start <= t
    /\ t <= day * DayLength + ShiftOf(day).start + ShiftOf(day).length

\* The shift a history row is given is one that is under way, and there is one if any
\* is, except in the hours a shift that spans midnight has on its second day: then the
\* row is given the shift of the new day, which has not begun, or none.
ShiftAtTimeExplained ==
    LET t == plan.to  day == DayOf(t) IN
    \/ /\ InstanceAt(t) = (IF UnderWay(day, t) THEN ShiftOf(day) ELSE NoShift)
       /\ UnderWay(day - 1, t) => UnderWay(day, t)
    \/ \E s \in {ShiftOf(day), ShiftOf(day - 1)} : SpansMidnight(s) /\ TimeOf(t) <= EndTime(s)

\* The ticks of the window that lie in a non-working period.
Off(h) == {t \in plan.from..(plan.to - 1) : h.start <= t /\ t < EndOfPeriod(h)}

\* Although the loop over the periods ends early, every tick of the window that lies in
\* one is taken off; where they overlap more may be, but no more than all of them.
HolidaysTakenOff ==
    LET once == Cardinality(UNION {Off(h) : h \in plan.holidays}) IN
    answer # -1 =>
        /\ Max({worked - TimeOff(plan.holidays), 0}) <= answer
        /\ answer <= Max({worked - once, 0})

\* What the schedule says of an interval, with its holidays, and of an instant.
SchedulesExplained == WorkingTimeExplained /\ HolidaysTakenOff /\ ShiftAtTimeExplained
=============================================================================

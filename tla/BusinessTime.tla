---------------------------- MODULE BusinessTime ----------------------------
(***************************************************************************)
(* Business hours: a weekly schedule of open windows, and the sums over it *)
(* that due dates and consumed minutes are made of.  Pure operators, from  *)
(* src/src/modules/sla/utils/business-time.helpers.js and                  *)
(* business-hours.helpers.js.  Time counts minutes; the time zone is a     *)
(* fixed offset (the code asks Intl for it at every date).                 *)
(***************************************************************************)
EXTENDS Integers, Sequences, FiniteSets, FiniteSetsExt, TLC

CONSTANTS DayLength, \* minutes in a day
          WeekDays,  \* days in a week
          Offset     \* minutes the local time is ahead of UTC

TimeAssumption == /\ DayLength \in Nat \ {0} /\ WeekDays \in Nat \ {0}
                  /\ Offset \in 0 .. DayLength

Never == -1   \* no date

(* A time of the day is HH:MM, so no window ends at midnight.              *)
Window == [start : 0 .. DayLength - 1, end : 0 .. DayLength - 1]
Weekday == 0 .. WeekDays - 1

(* sortBusinessHoursWindows.                                               *)
Sorted(windows) ==
    SortSeq(windows, LAMBDA v, w : v.start < w.start \/ (v.start = w.start /\ v.end < w.end))

(* collectBusinessHoursScheduleIssues finds nothing wrong with a day.      *)
ValidDay(day) ==
    LET ws == Sorted(day.windows)
    IN  /\ day.isOpen <=> ws # <<>>
        /\ \A i \in DOMAIN ws : /\ ws[i].start < ws[i].end
                                /\ i > 1 => ws[i - 1].end =< ws[i].start

(* ... and each day is given once.                                         *)
ValidSchedule(schedule) ==
    /\ \A i \in DOMAIN schedule : ValidDay(schedule[i])
    /\ Cardinality({schedule[i].dayOfWeek : i \in DOMAIN schedule}) = Len(schedule)

(* normalizeWeeklySchedule: the windows of every day; the last entry of a  *)
(* day counts, and a day without one is closed.                            *)
Week(schedule) ==
    [d \in Weekday |->
        LET given == {i \in DOMAIN schedule : schedule[i].dayOfWeek = d}
            day == schedule[Max(given)]
        IN  IF given = {} \/ (given # {} /\ ~day.isOpen) THEN <<>>
            ELSE Sorted(day.windows)]

LocalDate(t) == (t + Offset) \div DayLength

(* listBusinessWindowRangesForLocalDate, in UTC.                           *)
Ranges(week, date) ==
    LET ws == week[date % WeekDays]
        utc(m) == date * DayLength + m - Offset
    IN  {[startAt |-> utc(ws[i].start), endAt |-> utc(ws[i].end)] :
            i \in {j \in DOMAIN ws : ws[j].start < ws[j].end}}

(* The windows of two weeks from the local date of t on.                   *)
WindowsFrom(week, t) ==
    UNION {Ranges(week, LocalDate(t) + d) : d \in 0 .. 2 * WeekDays - 1}

Earliest(windows) == CHOOSE w \in windows : \A v \in windows : w.startAt =< v.startAt

(* findActiveOrNextBusinessWindow looks for the first of these.            *)
OpenAfter(week, t) == {w \in WindowsFrom(week, t) : t < w.endAt}

IsWithinBusinessWindow(week, t) ==
    \E w \in Ranges(week, LocalDate(t)) : w.startAt =< t /\ t < w.endAt

(* getNextBusinessStart.                                                   *)
NextBusinessStart(week, t) ==
    LET open == OpenAfter(week, t)
    IN  IF open = {} THEN Never ELSE Max({t, Earliest(open).startAt})

(* addBusinessMinutes walks from window to window.                         *)
AddBusinessMinutes(week, startAt, minutes) ==
    LET add[t \in Int, left \in Nat] ==
          LET open == OpenAfter(week, t)
              w == Earliest(open)
              from == Max({t, w.startAt})
          IN  IF open = {} THEN Never
              ELSE IF left =< w.endAt - from THEN from + left
              ELSE add[w.endAt, left - (w.endAt - from)]
    IN  IF minutes = 0 THEN startAt ELSE add[startAt, minutes]

(* Mutant: the window in which the time ends counts to its end.            *)
BusinessMinutesBetween_WholeWindow(week, startAt, endAt) ==
    LET sum[t \in Int] ==
          LET open == OpenAfter(week, t)
              w == Earliest(open)
          IN  IF open = {} \/ (open # {} /\ w.startAt >= endAt) THEN 0
              ELSE (w.endAt - Max({t, w.startAt})) + sum[w.endAt]
    IN  IF endAt =< startAt THEN 0 ELSE sum[startAt]

(* calculateBusinessMinutesBetween.                                        *)
BusinessMinutesBetween(week, startAt, endAt) ==
    LET sum[t \in Int] ==
          LET open == OpenAfter(week, t)
              w == Earliest(open)
          IN  IF open = {} \/ (open # {} /\ w.startAt >= endAt) THEN 0
              ELSE (Min({endAt, w.endAt}) - Max({t, w.startAt}))
                   + (IF endAt =< w.endAt THEN 0 ELSE sum[w.endAt])
    IN  IF endAt =< startAt THEN 0 ELSE sum[startAt]

----------------------------------------------------------------------------
(* The reference: a week minute by minute. *)

IsOpen(week, t) ==
    \E i \in DOMAIN week[LocalDate(t) % WeekDays] :
        LET w == week[LocalDate(t) % WeekDays][i]
        IN  (t + Offset) % DayLength \in w.start .. w.end - 1

OpenMinutes(week, from, to) == Cardinality({t \in from .. to - 1 : IsOpen(week, t)})
============================================================================

------------------------------ MODULE ServiceLevel ------------------------------
(***************************************************************************)
(* Due times of an incident: calculate_sla adds the minutes of a target to *)
(* the opening time, over the clock or over the working hours of a         *)
(* calendar, round by round of the loop in add_minutes.                    *)
(*                                                                         *)
(* Time is in half minutes, the least that tells whether a time has        *)
(* seconds.  Opening hours are whole minutes.  Changes of the local offset *)
(* are left out: the code computes in local time.                          *)
(***************************************************************************)
EXTENDS Integers, FiniteSets

CONSTANTS DayLength, OpeningTime, ClosingTime,   \* half minutes
          WeekLength, WorkingWeekdays, Holidays,
          MaxStart, MaxMinutes           \* bounds: opening times, targets

ASSUME CalendarAssumption ==
  /\ {DayLength, WeekLength, MaxStart, MaxMinutes} \subseteq Nat
  /\ {OpeningTime, ClosingTime, DayLength} \subseteq {2 * n : n \in 0 .. DayLength}
  /\ OpeningTime < ClosingTime /\ ClosingTime <= DayLength
  /\ WorkingWeekdays # {} /\ WorkingWeekdays \subseteq 0 .. WeekLength - 1

VARIABLES opened, minutes, calendar, cursor, remaining

slaVars == <<opened, minutes, calendar, cursor, remaining>>

SlaTypeOK ==
  /\ opened \in 0 .. MaxStart /\ minutes \in 0 .. MaxMinutes
  /\ calendar \in {"continuous", "business"}
  /\ cursor \in Nat /\ cursor >= opened
  /\ remaining \in 0 .. minutes

\* Every target of every priority is one of these; TARGETS says which.
SlaInit ==
  /\ opened \in 0 .. MaxStart /\ minutes \in 0 .. MaxMinutes
  /\ calendar \in {"continuous", "business"}
  /\ cursor = opened /\ remaining = minutes
-----------------------------------------------------------------------------
Day(t) == t \div DayLength
Works(day) == day % WeekLength \in WorkingWeekdays /\ day \notin Holidays
NextOpening(t) == (Day(t) + 1) * DayLength + OpeningTime

\* max(cursor, opening).
FromOpening(t) == IF t % DayLength < OpeningTime THEN Day(t) * DayLength + OpeningTime ELSE t

\* Mutant: closing time still counts as open.
AfterHoursLate(t) == t % DayLength > ClosingTime

AfterHours(t) == t % DayLength >= ClosingTime

AddContinuous ==
  /\ calendar = "continuous" /\ remaining > 0
  /\ cursor' = cursor + 2 * remaining /\ remaining' = 0
  /\ UNCHANGED <<opened, minutes, calendar>>

\* A round of the loop: on a day off or after closing, to the next day's opening; within
\* working hours, as many whole minutes as are left of the day.
Round ==
  IF ~Works(Day(cursor)) \/ AfterHours(cursor) THEN <<NextOpening(cursor), remaining>>
  ELSE LET from      == FromOpening(cursor)
           available == (Day(from) * DayLength + ClosingTime - from) \div 2
           consumed  == IF remaining < available THEN remaining ELSE available
       IN <<from + 2 * consumed, remaining - consumed>>

AddMinutes ==
  /\ calendar = "business" /\ remaining > 0
  /\ cursor' = Round[1] /\ remaining' = Round[2]
  /\ UNCHANGED <<opened, minutes, calendar>>

SlaNext == AddContinuous \/ AddMinutes

SlaSpec == SlaInit /\ [][SlaNext]_slaVars
-----------------------------------------------------------------------------
\* A half minute of working hours, and those from one time up to another.
Open(t) == Works(Day(t)) /\ OpeningTime <= t % DayLength /\ t % DayLength < ClosingTime
Worked(from, to) == Cardinality({t \in from .. to - 1 : Open(t)})

\* What the loop cannot finish: a time of working hours with seconds, and more minutes than
\* the rest of the day has whole ones.  The part of a minute before closing is never used
\* up, and the next day never reached.
NeverDue(t, left) ==
  /\ t % 2 = 1 /\ Open(t)
  /\ left > (ClosingTime - (t % DayLength)) \div 2

\* The time found is the first by which the target's minutes were worked, holidays, nights
\* and days off not counted.  The targets for which none is found are told by their opening
\* time and minutes: for those no round is the last, and for no other does a round leave
\* everything as it was, to be repeated for ever.
DueWhenWorked ==
  /\ calendar = "business" =>
       /\ Worked(opened, cursor) = 2 * (minutes - remaining)
       /\ remaining = 0 /\ minutes > 0 => Worked(opened, cursor - 1) < 2 * minutes
       /\ NeverDue(opened, minutes) => NeverDue(cursor, remaining) /\ remaining > 0
       /\ remaining > 0 /\ Round = <<cursor, remaining>> => NeverDue(opened, minutes)
  /\ calendar = "continuous" /\ remaining = 0 => cursor = opened + 2 * minutes
===============================================================================

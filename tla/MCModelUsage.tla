---------------------------- MODULE MCModelUsage ----------------------------
(* Instances of ModelUsage for TLC.                                         *)
EXTENDS ModelUsage, TLC

Date(y, m, d) == [year |-> y, month |-> m, day |-> d]

(* Where a day of utc_period's own arithmetic, which begins its years in    *)
(* March, is the last of a year of 400.                                     *)
LeapDay == {Date(2000, 2, 29)}
LeapDayMonths == {<<2000, 2>>, <<2000, 3>>}

Symmetry == Permutations(EvidenceId)

(* utc_period names the calendar's month on the first and the last day of   *)
(* every month, and on the days next to them, for over 400 years.           *)
ASSUME PeriodIsCalendarMonth ==
    \A y \in 1970 .. 2401, m \in 1 .. 12 :
        LET first == DayNumber(Date(y, m, 1))
        IN  \A d \in {1, 2, DaysIn(y, m) - 1, DaysIn(y, m)} :
                UtcPeriod(first + d - 1) = <<y, m>>

(* CHANGELOG.md:14: the tenant's evidence is verified before the provider   *)
(* is called.                                                               *)
EvidenceVerified == \A i \in DOMAIN calls : calls[i].available
=============================================================================

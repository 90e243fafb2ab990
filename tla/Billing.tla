------------------------------ MODULE Billing -------------------------------
(***************************************************************************)
(* The pure functions of billing: quote_monthly_usage, the addition of     *)
(* UsageLedger::record and utc_period.  Quantities are u64, and the        *)
(* release build the Dockerfile makes wraps what does not fit; Word is the *)
(* number of values, 2^64 in the code.                                     *)
(***************************************************************************)
EXTENDS Integers

CONSTANT Word        \* quantities are 0 .. Word - 1

ASSUME WordAssumption == Word \in Nat /\ Word > 10000000

Quantity == 0 .. Word - 1

-----------------------------------------------------------------------------
(* UsageLedger::record adds an entry to the total of its period and kind.   *)
BugWidePlus(total, quantity) == total + quantity     \* mutant: a total wider than u64
Plus(total, quantity) == (total + quantity) % Word

Plan == {"Starter", "Growth", "Scale"}

Tariff(included, runs, base, unit, run_unit) ==
    [included_observations |-> included, included_agent_runs |-> runs, base_price |-> base,
     per_thousand |-> unit, per_run |-> run_unit]

Tariffs == [Starter |-> Tariff(100000, 100, 1900, 3, 10),
            Growth |-> Tariff(1000000, 2000, 9900, 2, 6),
            Scale |-> Tariff(10000000, 20000, 49900, 1, 3)]

(* used.saturating_sub(included): nothing is over until all is used.        *)
BugWrappingSub(used, included) == (used - included) % Word  \* mutant: plain subtraction
Over(used, included) == IF used > included THEN used - included ELSE 0

(* div_ceil(1_000): a thousand that was begun is charged whole.             *)
Thousands(quantity) == (quantity + 999) \div 1000

ObservationOverage(plan, observations) ==
    Thousands(Over(observations, Tariffs[plan].included_observations)) * Tariffs[plan].per_thousand

RunOverage(plan, agent_runs) ==
    Over(agent_runs, Tariffs[plan].included_agent_runs) * Tariffs[plan].per_run

(* The total in cents before it is cut to u64, and total_cents itself: every*)
(* product and sum of quote_monthly_usage wraps, which is the same as       *)
(* wrapping once at the end.                                                *)
ExactTotal(plan, observations, agent_runs) ==
    Tariffs[plan].base_price + ObservationOverage(plan, observations) + RunOverage(plan, agent_runs)

Total(plan, observations, agent_runs) == ExactTotal(plan, observations, agent_runs) % Word

-----------------------------------------------------------------------------
(* utc_period, for a day counted from 1970-01-01: the year and the month.   *)
(* now_ms is never negative, so neither is the day.  It counts in eras of   *)
(* 400 years that begin on a first of March: the leap day comes last.       *)
EraYear(day_of_era) ==
    (day_of_era - day_of_era \div 1460 + day_of_era \div 36524 - day_of_era \div 146096) \div 365

DayOfYear(day_of_era) ==
    LET year_of_era == EraYear(day_of_era)
    IN  day_of_era - (365 * year_of_era + year_of_era \div 4 - year_of_era \div 100)

MonthOf(day_of_year) ==
    LET month_prime == (5 * day_of_year + 2) \div 153
    IN  IF month_prime < 10 THEN month_prime + 3 ELSE month_prime - 9

PeriodOf(era, day_of_era) ==
    LET month == MonthOf(DayOfYear(day_of_era))
    IN  <<EraYear(day_of_era) + era * 400 + (IF month <= 2 THEN 1 ELSE 0), month>>

UtcPeriod(days) ==
    LET shifted == days + 719468
        era == shifted \div 146097
    IN  PeriodOf(era, shifted - era * 146097)

-----------------------------------------------------------------------------
(* The civil calendar by its rules, to compare utc_period with.             *)
Leap(year) == year % 4 = 0 /\ (year % 100 # 0 \/ year % 400 = 0)

DaysIn(year, month) ==
    CASE month = 2 -> IF Leap(year) THEN 29 ELSE 28
      [] month \in {4, 6, 9, 11} -> 30
      [] OTHER -> 31

(* Leap years before a year, and days of a year before a month.             *)
LeapsBefore(year) == (year - 1) \div 4 - (year - 1) \div 100 + (year - 1) \div 400

DaysBefore(year, month) ==
    <<0, 31, 59, 90, 120, 151, 181, 212, 243, 273, 304, 334>>[month]
        + (IF month > 2 /\ Leap(year) THEN 1 ELSE 0)

(* Days from 1970-01-01 to a date.                                          *)
DayNumber(date) ==
    365 * (date.year - 1970) + LeapsBefore(date.year) - LeapsBefore(1970)
      + DaysBefore(date.year, date.month) + date.day - 1

DayAfter(date) ==
    IF date.day < DaysIn(date.year, date.month)
    THEN [year |-> date.year, month |-> date.month, day |-> date.day + 1]
    ELSE IF date.month < 12 THEN [year |-> date.year, month |-> date.month + 1, day |-> 1]
    ELSE [year |-> date.year + 1, month |-> 1, day |-> 1]
=============================================================================

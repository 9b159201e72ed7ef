---------------------------- MODULE Eligibility ----------------------------
(***************************************************************************)
(* The claims a birth date entitles to on a day: age in whole years as the *)
(* issuer computes it, and, to compare it with, the calendar definition it *)
(* stands for.  A date is a record of a year, a month and a day.           *)
(***************************************************************************)
EXTENDS Integers

CLAIM_MIN_AGE == [AGE_OVER_13 |-> 13, AGE_OVER_16 |-> 16,
                  AGE_OVER_18 |-> 18, AGE_OVER_21 |-> 21]
Claims == DOMAIN CLAIM_MIN_AGE

\* Faulty variant of AgeInYears that breaks AgeCountsBirthdays: the birthday
\* itself does not count yet.
AgeInYearsLate(dob, today) ==
  LET years == today.year - dob.year IN
    IF today.month > dob.month \/ (today.month = dob.month /\ today.day > dob.day)
    THEN years ELSE years - 1

\* _age_in_years: one less while this year's birthday is still to come.
AgeInYears(dob, today) ==
  LET years == today.year - dob.year
      birthday_passed == \/ today.month > dob.month
                         \/ today.month = dob.month /\ today.day >= dob.day
  IN IF birthday_passed THEN years ELSE years - 1

EligibleClaims(dob, today) ==
  {c \in Claims : AgeInYears(dob, today) >= CLAIM_MIN_AGE[c]}

-----------------------------------------------------------------------------
(* The calendar, apart from all of the above.                              *)

IsLeap(year) == year % 4 = 0 /\ (year % 100 # 0 \/ year % 400 = 0)
DaysIn(year, month) ==
  IF month = 2 THEN (IF IsLeap(year) THEN 29 ELSE 28)
  ELSE IF month \in {4, 6, 9, 11} THEN 30 ELSE 31
\* datetime.date takes no other.
IsDate(date) ==
  /\ date \in [year : Nat \ {0}, month : 1 .. 12, day : 1 .. 31]
  /\ date.day <= DaysIn(date.year, date.month)
DaysBefore(year, month) ==
  <<0, 31, 59, 90, 120, 151, 181, 212, 243, 273, 304, 334>>[month]
    + (IF month > 2 /\ IsLeap(year) THEN 1 ELSE 0)
\* The number of a day, counted from the first of January of year 1.
DayNumber(date) ==
  LET y == date.year - 1 IN
    365 * y + y \div 4 - y \div 100 + y \div 400
      + DaysBefore(date.year, date.month) + date.day

\* The day on which somebody born on dob is n years old; who is born on a 29
\* February grows older on 1 March when there is no such day.
Birthday(dob, n) ==
  LET year == dob.year + n IN
    IF dob.month = 2 /\ dob.day = 29 /\ ~ IsLeap(year)
    THEN [year |-> year, month |-> 3, day |-> 1]
    ELSE [dob EXCEPT !.year = year]
OfAge(dob, years, today) == DayNumber(Birthday(dob, years)) <= DayNumber(today)
=============================================================================

------------------------------ MODULE Guardrail ------------------------------
(***************************************************************************)
(* The disposition guardrail, app/services/disposition.py: what the        *)
(* customer said is resolved to a date, and the stage code reported is     *)
(* checked against it.                                                     *)
(*                                                                         *)
(* A resolved date is a day number (date.toordinal); the reference day is  *)
(* a calendar date, as months differ in length.  What was said is modelled *)
(* by the kind of expression it is; what dateutil makes of it is external. *)
(***************************************************************************)
EXTENDS Integers

CONSTANTS
  DateOffsets,   \* fully qualified dates said, in days from the call
  MonthDays,     \* dates said without a year, as <<month, day>>
  DayNumbers,    \* bare day numbers said ("the thirtieth", "30th")
  MaxDaysAhead,  \* settings.max_ptp_days_ahead
  NoDate

\* dateutil takes a number above 31 for a year; such a text is a date said.
ASSUME GuardrailAssumption ==
  MaxDaysAhead \in Nat /\ NoDate \notin Int /\ DayNumbers \subseteq 0..31

-----------------------------------------------------------------------------
(* The calendar (Python's datetime) *)

LeapYear(y) == (y % 4 = 0 /\ y % 100 # 0) \/ y % 400 = 0
DaysIn(y, m) ==
  IF m = 2 THEN (IF LeapYear(y) THEN 29 ELSE 28)
  ELSE IF m \in {4, 6, 9, 11} THEN 30 ELSE 31
DaysBefore == <<0, 31, 59, 90, 120, 151, 181, 212, 243, 273, 304, 334>>
IsDate(y, m, d) == d \in 1..DaysIn(y, m)
IsCalendarDate(date) ==
  date \in [y: Int, m: 1..12, d: 1..31] /\ IsDate(date.y, date.m, date.d)
ToOrdinal(y, m, d) ==
  LET x == y - 1
  IN  365 * x + x \div 4 - x \div 100 + x \div 400 + DaysBefore[m]
        + (IF m > 2 /\ LeapYear(y) THEN 1 ELSE 0) + d
Ordinal(date) == ToOrdinal(date.y, date.m, date.d)
Weekday(date) == (Ordinal(date) + 6) % 7
NextDay(date) ==
  IF date.d < DaysIn(date.y, date.m) THEN [date EXCEPT !.d = @ + 1]
  ELSE IF date.m < 12 THEN [y |-> date.y, m |-> date.m + 1, d |-> 1]
  ELSE [y |-> date.y + 1, m |-> 1, d |-> 1]

-----------------------------------------------------------------------------
(* What the customer said *)

Said(day) ==
  [kind: {"nothing", "vague", "today", "tomorrow"}]
    \cup [kind: {"weekday"}, day: 0..6]
    \cup [kind: {"ordinal_word"}, day: DayNumbers \ {0}]
    \cup [kind: {"numeric_ordinal"}, day: DayNumbers]
    \cup [kind: {"month_day", "month_ordinal_word"}, month_day: MonthDays]
    \cup [kind: {"date"}, date: {Ordinal(day) + k : k \in DateOffsets}]

\* Mutant: the day of this month, passed or not.
ResolveDayOfThisMonth(day, ref) ==
  IF IsDate(ref.y, ref.m, day) THEN ToOrdinal(ref.y, ref.m, day) ELSE NoDate

\* This month if the day has not passed, else next month.
ResolveDayOfMonth(day, ref) ==
  LET year(ahead) == ref.y + (ref.m - 1 + ahead) \div 12
      month(ahead) == ((ref.m - 1 + ahead) % 12) + 1
      date(ahead) == ToOrdinal(year(ahead), month(ahead), day)
      fits(ahead) == /\ day \in 1..31
                     /\ IsDate(year(ahead), month(ahead), day)
                     /\ date(ahead) >= Ordinal(ref)
  IN  IF fits(0) THEN date(0) ELSE IF fits(1) THEN date(1) ELSE NoDate

\* dateutil.parser.parse with the reference day as default; NoDate for the
\* ValueError of a text without a date or of a day the month lacks.  Of
\* "January fifth" it knows the month alone, the day is the default's.
DateUtil(said, ref) ==
  CASE said.kind = "date" -> said.date
    [] said.kind = "month_day" ->
         LET m == said.month_day[1] d == said.month_day[2]
         IN  IF IsDate(ref.y, m, d) THEN ToOrdinal(ref.y, m, d) ELSE NoDate
    [] said.kind = "month_ordinal_word" ->
         LET m == said.month_day[1]
             last == DaysIn(ref.y, m)
         IN  ToOrdinal(ref.y, m, IF ref.d <= last THEN ref.d ELSE last)
    [] said.kind = "numeric_ordinal" ->
         IF IsDate(ref.y, ref.m, said.day) THEN ToOrdinal(ref.y, ref.m, said.day)
                                           ELSE NoDate
    [] OTHER -> NoDate

ParseSpokenDay(said, ref) ==
  IF said.kind \in {"ordinal_word", "numeric_ordinal"}
    THEN ResolveDayOfMonth(said.day, ref) ELSE NoDate

ResolvePtpDate(said, ref) ==
  CASE said.kind = "nothing" -> NoDate
    [] said.kind = "today" -> Ordinal(ref)
    [] said.kind = "tomorrow" -> Ordinal(ref) + 1
    [] said.kind = "weekday" ->
         LET ahead == (said.day - Weekday(ref)) % 7
         IN  Ordinal(ref) + (IF ahead = 0 THEN 7 ELSE ahead)
    [] OTHER -> IF DateUtil(said, ref) # NoDate THEN DateUtil(said, ref)
                                                ELSE ParseSpokenDay(said, ref)

-----------------------------------------------------------------------------
(* validate *)

PtpCodesRequiringDate == {"PTP_TODAY", "PTP_TOMORROW", "PTP_FUTURE", "PTP_PARTIAL"}
\* OTHER stands for the fourteen codes besides UNCLEAR that carry no date.
StageCode == PtpCodesRequiringDate \cup {"UNCLEAR", "OTHER"}
RawCode == StageCode \cup {"unrecognised"}

Result(code, date, adjusted) ==
  [stage_code |-> code, ptp_date |-> date, adjusted |-> adjusted]

Expected(offset) ==
  IF offset = 0 THEN "PTP_TODAY"
  ELSE IF offset = 1 THEN "PTP_TOMORROW" ELSE "PTP_FUTURE"

\* Mutants: no limit on how far ahead the day is; the label is believed.
ReconcileUnbounded(code, date, ref) ==
  LET offset == date - ref
      kept == code = "PTP_PARTIAL" \/ code = Expected(offset)
  IN  IF offset < 0 THEN Result("UNCLEAR", NoDate, TRUE)
      ELSE Result(IF kept THEN code ELSE Expected(offset), date, ~kept)
ReconcileTrusting(code, date, ref) ==
  IF date - ref \notin 0..MaxDaysAhead THEN Result("UNCLEAR", NoDate, TRUE)
  ELSE Result(code, date, code # Expected(date - ref))

\* A date before the call or beyond the limit is no commitment; a label other
\* than PTP_PARTIAL gives way to the one the date calls for.
Reconcile(code, date, ref) ==
  LET offset == date - ref
      kept == code = "PTP_PARTIAL" \/ code = Expected(offset)
  IN  IF offset \notin 0..MaxDaysAhead THEN Result("UNCLEAR", NoDate, TRUE)
      ELSE Result(IF kept THEN code ELSE Expected(offset), date, ~kept)

\* Mutant: a code with a date is taken for a promise.
ValidateByDate(code, date, ref) ==
  IF code \notin StageCode THEN Result("UNCLEAR", NoDate, TRUE)
  ELSE IF date # NoDate THEN Reconcile(code, date, ref)
  ELSE Result(IF code \in PtpCodesRequiringDate THEN "UNCLEAR" ELSE code, NoDate,
              code \in PtpCodesRequiringDate)

Validate(code, date, ref) ==
  IF code \notin StageCode THEN Result("UNCLEAR", NoDate, TRUE)
  ELSE IF code \notin PtpCodesRequiringDate
    THEN Result(code, NoDate, date # NoDate)
  ELSE IF date = NoDate THEN Result("UNCLEAR", NoDate, TRUE)
  ELSE Reconcile(code, date, ref)
=============================================================================

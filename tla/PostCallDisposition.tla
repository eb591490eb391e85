-------------------------- MODULE PostCallDisposition --------------------------
(***************************************************************************)
(* From the body of a post-call webhook to the disposition of the record:  *)
(* the router parses it (PostCallPayload), the service resolves the day    *)
(* promised and validates the code (Guardrail).  A call happens on one day *)
(* and its webhook is handled on that day, the next, or both: an event     *)
(* with another id may report the same call again.                         *)
(***************************************************************************)
EXTENDS Guardrail, PostCallPayload

CONSTANTS
  Days,       \* calendar dates a call may happen on
  Bodies(_),  \* the bodies that may report a call of that day
  NoResult

ASSUME DispositionAssumption ==
  \A date \in Days : IsCalendarDate(date) /\ \A b \in Bodies(date) : IsBody(b)

VARIABLES
  day,     \* the day of the call
  body,    \* what the webhook reports
  today,   \* the day on which a delivery is handled
  result,  \* the disposition of the record
  dlq      \* the body is a dead letter

vars == <<day, body, today, result, dlq>>

Init ==
  /\ day \in Days
  /\ body \in Bodies(day)
  /\ today = day
  /\ result = NoResult
  /\ dlq = FALSE

\* Bound: one midnight.
Midnight ==
  today = day /\ today' = NextDay(today) /\ UNCHANGED <<day, body, result, dlq>>

\* Mutant: the day of processing is the reference.
CallDayToday == today

CallDay == IF Started(body) THEN day ELSE today

Payload(b) ==
  LET fields == Flattened(b)
      code == StageCodeOf(fields)
  IN  [code |-> IF code \in {Absent, Blank} THEN "unrecognised" ELSE code,
       said |-> IF Filled(fields, "ptp_date") THEN fields["ptp_date"]
                                             ELSE [kind |-> "nothing"]]

Disposition(payload) ==
  Validate(payload.code, ResolvePtpDate(payload.said, CallDay), Ordinal(CallDay))

ApplyPostCall ==
  /\ Valid(body)
  /\ result' = Disposition(Payload(body))
  /\ UNCHANGED <<day, body, today, dlq>>

\* post_call_validation_failed
DeadLetterInvalid ==
  /\ ~Valid(body)
  /\ dlq' = TRUE
  /\ UNCHANGED <<day, body, today, result>>

Next == Midnight \/ ApplyPostCall \/ DeadLetterInvalid

Spec == Init /\ [][Next]_vars

-----------------------------------------------------------------------------
(* Properties *)

Decided == result # NoResult

\* A promise to pay names a day from the call on and within the limit, and
\* its code agrees with that day; no other disposition has a date.
Dated(r, ref) ==
  IF r.stage_code \notin PtpCodesRequiringDate THEN r.ptp_date = NoDate
  ELSE /\ r.ptp_date - ref \in 0..MaxDaysAhead
       /\ r.stage_code # "PTP_PARTIAL" =>
            r.stage_code = Expected(r.ptp_date - ref)
PromiseIsDated ==
  [][ApplyPostCall => Dated(result', Ordinal(CallDay))]_vars

\* The guardrail never makes a promise of a call reported as something else,
\* and never silently alters the code reported.
NothingInvented ==
  Decided =>
    /\ result.stage_code \in PtpCodesRequiringDate =>
         Payload(body).code \in PtpCodesRequiringDate
    /\ result.stage_code # Payload(body).code => result.adjusted

\* What the guardrail stored it would accept as it is.
Revalidates ==
  [][ApplyPostCall =>
       Validate(result'.stage_code, result'.ptp_date, Ordinal(CallDay)) =
         Result(result'.stage_code, result'.ptp_date, FALSE)]_vars

\* The first day numbered n from a day on, found by walking the calendar day
\* by day: two months in a row never both lack a number from 1 to 31.
FirstSuch(n, ref) ==
  LET walk[k \in 0..61] == IF k = 0 THEN ref ELSE NextDay(walk[k - 1])
      hits == {k \in 0..61 : walk[k].d = n}
  IN  IF hits = {} THEN NoDate
      ELSE Ordinal(ref) + (CHOOSE k \in hits : \A j \in hits : k <= j)
NextMonthEnds(ref) ==
  Ordinal(ref) + (DaysIn(ref.y, ref.m) - ref.d) + DaysIn(ref.y, (ref.m % 12) + 1)

\* "the thirtieth" is the first thirtieth from the call on, if that lies in
\* this month or the next; on 31 January it lies in March, and there is none.
\* "30th" is the same day, unless it has passed in this month: that one
\* dateutil takes before the code's own reading is asked.
DayStillToCome(said, ref) ==
  \/ said.kind = "ordinal_word"
  \/ said.kind = "numeric_ordinal" /\ said.day \notin 1..ref.d - 1
SpokenDayIsNext ==
  LET said == Payload(body).said
      first == FirstSuch(said.day, CallDay)
  IN  DayStillToCome(said, CallDay) =>
        ResolvePtpDate(said, CallDay) =
          IF first # NoDate /\ first <= NextMonthEnds(CallDay) THEN first ELSE NoDate

\* A webhook that says when the call was, at the top or in call_infra, gets
\* the same disposition on whatever day its deliveries are handled.
TellsTheDay == body.call_started_at \/ body.call_infra.start
StableOverDays == [][Decided /\ TellsTheDay => result' = result]_vars

\* The console's shape is read like the flat one: the fields nested in either
\* copy of the extraction, the code as DISPOSITION and repeated as a top-level
\* STAGE_CODE, the start in call_infra.
ConsoleShape(b, copy, code) ==
  LET nested == [Empty EXCEPT !["DISPOSITION"] = code,
                              !["ptp_date"] = b.top["ptp_date"]]
  IN  [b EXCEPT !.top = [Empty EXCEPT !["STAGE_CODE"] = code],
                ![copy] = nested, !.call_started_at = FALSE,
                !.call_infra = [start |-> b.call_started_at, end |-> "none"]]
IsFlat(b) ==
  /\ b.disposition_result = Empty /\ b.post_call_extraction_v2 = Empty
  /\ ~b.call_infra.start
  /\ \E k \in CodeKey : Filled(b.top, k) /\ b.top = [Empty EXCEPT
       ![k] = b.top[k], !["ptp_date"] = b.top["ptp_date"]]
ShapesAgree ==
  IsFlat(body) =>
    \A copy \in {"disposition_result", "post_call_extraction_v2"} :
      LET console == ConsoleShape(body, copy, StageCodeOf(body.top))
      IN  /\ Payload(console) = Payload(body)
          /\ Started(console) = Started(body)
          /\ Valid(console) = Valid(body)

-----------------------------------------------------------------------------
(* A statement of the documentation the code does not keep *)

\* A day number said, in words or as "30th", becomes a date at or after the
\* day of the call, if this month or the next has such a day.
InEitherMonth(n, ref) ==
  IsDate(ref.y, ref.m, n) \/ n \in 1..DaysIn(ref.y, (ref.m % 12) + 1)
SpokenDayResolves ==
  LET said == Payload(body).said
      date == ResolvePtpDate(said, CallDay)
  IN  said.kind \in {"ordinal_word", "numeric_ordinal"} =>
        (InEitherMonth(said.day, CallDay) => date # NoDate /\ date >= Ordinal(CallDay))
=============================================================================

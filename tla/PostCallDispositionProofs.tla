----------------------- MODULE PostCallDispositionProofs -----------------------
(***************************************************************************)
(* The guardrail keeps its promises for every calendar date, every text    *)
(* and whatever dateutil makes of it, and every limit.                     *)
(***************************************************************************)
EXTENDS PostCallDisposition, WellFoundedInduction, TLAPS

\* What validate can answer.
LEMMA Validated ==
  ASSUME NEW code, NEW date, NEW ref
  PROVE  \/ Validate(code, date, ref) = Result("UNCLEAR", NoDate, TRUE)
         \/ /\ code \in StageCode \ PtpCodesRequiringDate
            /\ Validate(code, date, ref) = Result(code, NoDate, date # NoDate)
         \/ /\ code \in PtpCodesRequiringDate /\ date # NoDate
            /\ Validate(code, date, ref) = Reconcile(code, date, ref)
  BY DEF Validate, StageCode

\* The same with the last rule spelt out.
LEMMA Answers ==
  ASSUME NEW code, NEW date, NEW ref
  PROVE  \/ Validate(code, date, ref) = Result("UNCLEAR", NoDate, TRUE)
         \/ /\ code \in StageCode \ PtpCodesRequiringDate
            /\ Validate(code, date, ref) = Result(code, NoDate, date # NoDate)
         \/ /\ date - ref \in 0..MaxDaysAhead
            /\ code = "PTP_PARTIAL" \/ code = Expected(date - ref)
            /\ Validate(code, date, ref) = Result(code, date, FALSE)
         \/ /\ date # NoDate /\ date - ref \in 0..MaxDaysAhead
            /\ code \in PtpCodesRequiringDate
            /\ Validate(code, date, ref) = Result(Expected(date - ref), date, TRUE)
<1>1. CASE /\ code \in PtpCodesRequiringDate /\ date # NoDate
           /\ Validate(code, date, ref) = Reconcile(code, date, ref)
  <2>1. CASE date - ref \notin 0..MaxDaysAhead
    <3>1. Reconcile(code, date, ref) = Result("UNCLEAR", NoDate, TRUE)
      BY <2>1 DEF Reconcile
    <3> QED
      BY <1>1, <3>1, Zenon
  <2>2. CASE /\ date - ref \in 0..MaxDaysAhead
             /\ code = "PTP_PARTIAL" \/ code = Expected(date - ref)
    <3>1. Reconcile(code, date, ref) = Result(code, date, FALSE)
      BY <2>2 DEF Reconcile
    <3> QED
      BY <1>1, <2>2, <3>1, Zenon
  <2>3. CASE /\ date - ref \in 0..MaxDaysAhead
             /\ code # "PTP_PARTIAL" /\ code # Expected(date - ref)
    <3>1. Reconcile(code, date, ref) = Result(Expected(date - ref), date, TRUE)
      BY <2>3 DEF Reconcile
    <3> QED
      BY <1>1, <2>3, <3>1, Zenon
  <2> QED
    BY <2>1, <2>2, <2>3, Zenon
<1> QED
  BY <1>1, Validated, Zenon

LEMMA ExpectedIsPromise ==
  ASSUME NEW offset
  PROVE  Expected(offset) \in PtpCodesRequiringDate \ {"PTP_PARTIAL"}
  BY DEF Expected, PtpCodesRequiringDate

LEMMA ResultFields ==
  ASSUME NEW code, NEW date, NEW adjusted
  PROVE  /\ Result(code, date, adjusted).stage_code = code
         /\ Result(code, date, adjusted).ptp_date = date
  BY DEF Result

LEMMA ResultAdjusted ==
  ASSUME NEW code, NEW date, NEW adjusted
  PROVE  Result(code, date, adjusted).adjusted = adjusted
  BY Zenon DEF Result

LEMMA UnclearIsNoPromise ==
  "UNCLEAR" \in StageCode /\ "UNCLEAR" \notin PtpCodesRequiringDate
  BY DEF StageCode, PtpCodesRequiringDate

LEMMA UndatedIsDated ==
  ASSUME NEW code, code \notin PtpCodesRequiringDate, NEW adjusted, NEW ref
  PROVE  Dated(Result(code, NoDate, adjusted), ref)
  BY ResultFields DEF Dated

LEMMA PromiseOfItsDay ==
  ASSUME NEW code, NEW date, NEW adjusted, NEW ref,
         date - ref \in 0..MaxDaysAhead,
         code = "PTP_PARTIAL" \/ code = Expected(date - ref)
  PROVE  Dated(Result(code, date, adjusted), ref)
<1>1. code # "PTP_PARTIAL" => code = Expected(date - ref)
  OBVIOUS
<1>2. code \in PtpCodesRequiringDate
  BY ExpectedIsPromise DEF PtpCodesRequiringDate
<1> QED
  BY <1>1, <1>2, ResultFields DEF Dated

LEMMA ValidatedIsDated ==
  ASSUME NEW code, NEW date, NEW ref
  PROVE  Dated(Validate(code, date, ref), ref)
<1>1. CASE Validate(code, date, ref) = Result("UNCLEAR", NoDate, TRUE)
  BY <1>1, UndatedIsDated, UnclearIsNoPromise
<1>2. CASE /\ code \in StageCode \ PtpCodesRequiringDate
           /\ Validate(code, date, ref) = Result(code, NoDate, date # NoDate)
  <2>1. code \notin PtpCodesRequiringDate
    BY <1>2
  <2>2. Dated(Result(code, NoDate, date # NoDate), ref)
    BY <2>1, UndatedIsDated
  <2> QED
    BY <1>2, <2>2
<1>3. CASE /\ date - ref \in 0..MaxDaysAhead
           /\ code = "PTP_PARTIAL" \/ code = Expected(date - ref)
           /\ Validate(code, date, ref) = Result(code, date, FALSE)
  BY <1>3, PromiseOfItsDay
<1>4. CASE /\ date - ref \in 0..MaxDaysAhead
           /\ Validate(code, date, ref) = Result(Expected(date - ref), date, TRUE)
  BY <1>4, PromiseOfItsDay
<1> QED
  BY <1>1, <1>2, <1>3, <1>4, Answers, Zenon

\* Every promise that is stored has a date that agrees with its code
\* (apply_post_call, validate).
THEOREM PromisesAreDated == Spec => PromiseIsDated
<1>1. ApplyPostCall => Dated(result', Ordinal(CallDay))
  BY ValidatedIsDated DEF ApplyPostCall, Disposition
<1>2. [Next]_vars => [ApplyPostCall => Dated(result', Ordinal(CallDay))]_vars
  BY <1>1
<1> QED
  BY <1>2, PTL DEF Spec, PromiseIsDated

-----------------------------------------------------------------------------
\* A second validation of what validate answered changes nothing.
Again(r, ref) ==
  Validate(r.stage_code, r.ptp_date, ref) = Result(r.stage_code, r.ptp_date, FALSE)

LEMMA AgainOf ==
  ASSUME NEW code, NEW date, NEW adjusted, NEW ref,
         Validate(code, date, ref) = Result(code, date, FALSE)
  PROVE  Again(Result(code, date, adjusted), ref)
<1>1. /\ Result(code, date, adjusted).stage_code = code
      /\ Result(code, date, adjusted).ptp_date = date
  BY ResultFields
<1> QED
  BY <1>1, Zenon DEF Again

LEMMA ValidateIdempotent ==
  ASSUME NEW code, NEW date, NEW ref
  PROVE  Again(Validate(code, date, ref), ref)
<1>1. CASE Validate(code, date, ref) = Result("UNCLEAR", NoDate, TRUE)
  <2>1. (NoDate # NoDate) = FALSE
    OBVIOUS
  <2>2. Validate("UNCLEAR", NoDate, ref) = Result("UNCLEAR", NoDate, FALSE)
    BY <2>1, UnclearIsNoPromise, Zenon DEF Validate
  <2> QED
    BY <1>1, <2>2, AgainOf
<1>2. CASE /\ code \in StageCode \ PtpCodesRequiringDate
           /\ Validate(code, date, ref) = Result(code, NoDate, date # NoDate)
  <2>1. code \in StageCode /\ code \notin PtpCodesRequiringDate
        /\ (NoDate # NoDate) = FALSE
    BY <1>2
  <2>2. Validate(code, NoDate, ref) = Result(code, NoDate, FALSE)
    BY <2>1, Zenon DEF Validate
  <2>3. Again(Result(code, NoDate, date # NoDate), ref)
    BY <2>2, AgainOf
  <2> QED
    BY <1>2, <2>3
<1>3. CASE Validate(code, date, ref) = Result(code, date, FALSE)
  BY <1>3, AgainOf
<1>4. CASE /\ date # NoDate /\ date - ref \in 0..MaxDaysAhead
           /\ Validate(code, date, ref) = Result(Expected(date - ref), date, TRUE)
  <2>1. Expected(date - ref) \in StageCode
        /\ Expected(date - ref) \in PtpCodesRequiringDate
    BY ExpectedIsPromise DEF StageCode
  <2>2. Validate(Expected(date - ref), date, ref)
          = Reconcile(Expected(date - ref), date, ref)
    BY <1>4, <2>1, Zenon DEF Validate
  <2>3. Reconcile(Expected(date - ref), date, ref)
          = Result(Expected(date - ref), date, FALSE)
    BY <1>4 DEF Reconcile
  <2> QED
    BY <1>4, <2>2, <2>3, AgainOf
<1> QED
  BY <1>1, <1>2, <1>3, <1>4, Answers, Zenon

\* The guardrail accepts what it stored (validate).
THEOREM StoredRevalidates == Spec => Revalidates
<1>1. ApplyPostCall => Again(result', Ordinal(CallDay))
  BY ValidateIdempotent DEF ApplyPostCall, Disposition
<1>2. [Next]_vars =>
        [ApplyPostCall =>
           Validate(result'.stage_code, result'.ptp_date, Ordinal(CallDay)) =
             Result(result'.stage_code, result'.ptp_date, FALSE)]_vars
  BY <1>1 DEF Again
<1> QED
  BY <1>2, PTL DEF Spec, Revalidates

-----------------------------------------------------------------------------
\* What is stored is the guardrail's answer to the code of this body.
Answered ==
  Decided => \E date, ref : result = Validate(Payload(body).code, date, ref)

LEMMA AnsweredAlways == Spec => []Answered
<1>1. Init => Answered
  BY DEF Init, Answered, Decided
<1>2. Answered /\ [Next]_vars => Answered'
  <2> SUFFICES ASSUME Answered, [Next]_vars PROVE Answered'
    OBVIOUS
  <2>1. CASE ApplyPostCall
    <3>1. /\ result' = Validate(Payload(body).code,
                         ResolvePtpDate(Payload(body).said, CallDay), Ordinal(CallDay))
          /\ Payload(body)' = Payload(body)
      BY <2>1 DEF ApplyPostCall, Disposition, Payload
    <3> QED
      BY <3>1 DEF Answered
  <2>2. CASE Midnight \/ DeadLetterInvalid \/ UNCHANGED vars
    <3>1. UNCHANGED <<body, result>>
      BY <2>2 DEF Midnight, DeadLetterInvalid, vars
    <3>2. Payload(body)' = Payload(body) /\ Decided' = Decided /\ result' = result
      BY <3>1 DEF Payload, Decided
    <3> QED
      BY <3>2 DEF Answered
  <2> QED
    BY <2>1, <2>2 DEF Next
<1> QED
  BY <1>1, <1>2, PTL DEF Spec

Honest(code, r) ==
  /\ r.stage_code \in PtpCodesRequiringDate => code \in PtpCodesRequiringDate
  /\ r.stage_code # code => r.adjusted

LEMMA HonestOf ==
  ASSUME NEW code, NEW stored, NEW date, NEW adjusted,
         stored \in PtpCodesRequiringDate => code \in PtpCodesRequiringDate,
         stored # code => adjusted
  PROVE  Honest(code, Result(stored, date, adjusted))
<1>1. Result(stored, date, adjusted).stage_code = stored
  BY ResultFields
<1>2. Result(stored, date, adjusted).adjusted = adjusted
  BY ResultAdjusted
<1> QED
  BY <1>1, <1>2, Zenon DEF Honest

LEMMA NothingAdded ==
  ASSUME NEW code, NEW date, NEW ref
  PROVE  Honest(code, Validate(code, date, ref))
<1>1. CASE Validate(code, date, ref) = Result("UNCLEAR", NoDate, TRUE)
  BY <1>1, HonestOf, UnclearIsNoPromise
<1>2. CASE /\ code \in StageCode \ PtpCodesRequiringDate
           /\ Validate(code, date, ref) = Result(code, NoDate, date # NoDate)
  <2>1. Honest(code, Result(code, NoDate, date # NoDate))
    BY HonestOf
  <2> QED
    BY <1>2, <2>1
<1>3. CASE Validate(code, date, ref) = Result(code, date, FALSE)
  BY <1>3, HonestOf
<1>4. CASE /\ code \in PtpCodesRequiringDate
           /\ Validate(code, date, ref) = Result(Expected(date - ref), date, TRUE)
  BY <1>4, HonestOf
<1> QED
  BY <1>1, <1>2, <1>3, <1>4, Answers, Zenon

\* No promise is made of a call reported as something else, and no code is
\* altered silently (validate).
THEOREM NothingIsInvented == Spec => []NothingInvented
<1>1. Answered => NothingInvented
  BY NothingAdded DEF Answered, NothingInvented, Honest
<1> QED
  BY <1>1, AnsweredAlways, PTL

-----------------------------------------------------------------------------
\* A body that tells the day of the call has one disposition.
Settled == Decided /\ TellsTheDay => result = Disposition(Payload(body))

LEMMA ToldDay == TellsTheDay => CallDay = day
  BY DEF TellsTheDay, CallDay, Started

LEMMA SettledStep == Settled /\ [Next]_vars => Settled'
<1> SUFFICES ASSUME Settled, [Next]_vars, TellsTheDay', Decided'
             PROVE  result' = Disposition(Payload(body))'
  BY DEF Settled
<1>1. UNCHANGED <<day, body>>
  BY DEF Next, Midnight, ApplyPostCall, DeadLetterInvalid, vars
<1>2. TellsTheDay
  BY <1>1 DEF TellsTheDay
<1>3. Disposition(Payload(body))' = Disposition(Payload(body))
  <2>1. CallDay' = CallDay
    BY <1>1, <1>2, ToldDay DEF TellsTheDay, CallDay, Started
  <2> QED
    BY <1>1, <2>1 DEF Disposition, Payload
<1>4. CASE ApplyPostCall
  BY <1>3, <1>4 DEF ApplyPostCall
<1>5. CASE UNCHANGED result
  BY <1>2, <1>3, <1>5 DEF Settled, Decided
<1> QED
  BY <1>4, <1>5 DEF Next, Midnight, DeadLetterInvalid, vars

\* The day on which a delivery is handled makes no difference to a body that
\* tells when the call was (apply_post_call).
THEOREM StableDisposition == Spec => StableOverDays
<1>1. Init => Settled
  BY DEF Init, Settled, Decided
<1>2. Settled /\ [Next]_vars => [Decided /\ TellsTheDay => result' = result]_vars
  <2> SUFFICES ASSUME Settled, [Next]_vars, Decided, TellsTheDay
               PROVE  result' = result
    OBVIOUS
  <2>1. CASE ApplyPostCall
    BY <2>1 DEF ApplyPostCall, Settled
  <2> QED
    BY <2>1 DEF Next, Midnight, DeadLetterInvalid, vars
<1> QED
  BY <1>1, <1>2, SettledStep, PTL DEF Spec, StableOverDays

-----------------------------------------------------------------------------
(* Two shapes of a body *)

LEMMA KeysAre ==
  /\ CodeKey = {"DISPOSITION", "disposition", "stage_code", "STAGE_CODE"}
  /\ CodeKey \subseteq Key /\ "ptp_date" \in Key /\ "ptp_date" \notin CodeKey
<1>1. DOMAIN Aliases = 1..4
  BY DEF Aliases
<1>2. CodeKey = {Aliases[1], Aliases[2], Aliases[3], Aliases[4]}
  BY <1>1 DEF CodeKey
<1>. QED
  BY <1>2 DEF Aliases, Key

\* A body with one code is read as that code.
LEMMA OnlyCode ==
  ASSUME NEW fields, NEW k \in CodeKey, fields[k] # Absent,
         \A j \in CodeKey \ {k} : fields[j] = Absent
  PROVE  StageCodeOf(fields) = fields[k]
<1> DEFINE there == {i \in DOMAIN Aliases : fields[Aliases[i]] # Absent}
<1>1. PICK i \in DOMAIN Aliases : Aliases[i] = k
  BY DEF CodeKey
<1>2. DOMAIN Aliases = 1..4 /\ \A a, b \in 1..4 : Aliases[a] = Aliases[b] => a = b
  BY DEF Aliases
<1>3. \A j \in DOMAIN Aliases : Aliases[j] \in CodeKey
  BY DEF CodeKey
<1>4. there = {i}
  BY <1>1, <1>2, <1>3
<1>5. (CHOOSE n \in there : \A j \in there : n <= j) = i
  BY <1>2, <1>4
<1>. QED
  BY <1>1, <1>4, <1>5 DEF StageCodeOf

\* DISPOSITION is the alias that is looked for first.
LEMMA FirstCode ==
  ASSUME NEW fields, fields["DISPOSITION"] # Absent
  PROVE  StageCodeOf(fields) = fields["DISPOSITION"]
<1> DEFINE there == {i \in DOMAIN Aliases : fields[Aliases[i]] # Absent}
<1>1. DOMAIN Aliases = 1..4 /\ Aliases[1] = "DISPOSITION"
  BY DEF Aliases
<1>2. 1 \in there /\ there \subseteq 1..4
  BY <1>1
<1> HIDE DEF there
<1>3. \A n \in there : (\A j \in there : n <= j) <=> n = 1
  BY <1>2
<1>4. (CHOOSE n \in there : \A j \in there : n <= j) = 1
  BY <1>2, <1>3
<1>. QED
  BY <1>1, <1>2, <1>4 DEF StageCodeOf, there

\* A flat body has nothing to flatten.
LEMMA FlatIsFlattened ==
  ASSUME NEW b, NEW k \in CodeKey, Extraction(b) = Empty, Filled(b.top, k),
         b.top = [Empty EXCEPT ![k] = b.top[k], !["ptp_date"] = b.top["ptp_date"]]
  PROVE  Flattened(b) = b.top
<1>1. b.top = [j \in Key |-> b.top[j]]
  BY DEF Empty
<1>2. \A j \in Key : Extraction(b)[j] = Absent
  BY DEF Empty
<1>. QED
  BY <1>1, <1>2 DEF Flattened

\* The console's shape of a flat body, field by field.
ConsoleTop(code) == [Empty EXCEPT !["STAGE_CODE"] = code]
ConsoleNested(b, code) ==
  [Empty EXCEPT !["DISPOSITION"] = code, !["ptp_date"] = b.top["ptp_date"]]

IsConsole(c, b, code) ==
  /\ c.top = ConsoleTop(code) /\ Extraction(c) = ConsoleNested(b, code)
  /\ c.call_started_at = FALSE
  /\ c.call_infra.start = b.call_started_at /\ c.call_infra.end = "none"
  /\ c.conversation_id = b.conversation_id /\ c.call_id = b.call_id

LEMMA ConsoleFields ==
  ASSUME NEW b, IsBody(b), NEW code, code # Absent,
         NEW copy \in {"disposition_result", "post_call_extraction_v2"},
         b.disposition_result = Empty, b.post_call_extraction_v2 = Empty
  PROVE  IsConsole(ConsoleShape(b, copy, code), b, code)
<1> DEFINE nested == ConsoleNested(b, code)
           fields == ConsoleTop(code)
           infra == [start |-> b.call_started_at, end |-> "none"]
           console == ConsoleShape(b, copy, code)
<1>1. nested["DISPOSITION"] = code /\ Empty["DISPOSITION"] = Absent
  BY KeysAre DEF Empty, ConsoleNested
<1>2. nested # Empty
  BY <1>1
<1> HIDE DEF nested, fields, infra
<1>3. console = [b EXCEPT !.top = fields, ![copy] = nested, !.call_started_at = FALSE,
                          !.call_infra = infra]
  BY DEF ConsoleShape, ConsoleTop, ConsoleNested, nested, fields, infra
<1>4. b = [top |-> b.top, disposition_result |-> Empty,
           post_call_extraction_v2 |-> Empty, call_started_at |-> b.call_started_at,
           call_infra |-> b.call_infra,
           call_duration_seconds |-> b.call_duration_seconds,
           conversation_id |-> b.conversation_id, call_id |-> b.call_id]
  BY DEF IsBody, Body
<1>5. CASE copy = "disposition_result"
  <2>1. console = [top |-> fields, disposition_result |-> nested,
           post_call_extraction_v2 |-> Empty, call_started_at |-> FALSE,
           call_infra |-> infra, call_duration_seconds |-> b.call_duration_seconds,
           conversation_id |-> b.conversation_id, call_id |-> b.call_id]
    BY <1>3, <1>4, <1>5
  <2> HIDE DEF console
  <2>. QED
    BY <2>1, <1>2 DEF IsConsole, Extraction, nested, fields, infra, console
<1>6. CASE copy = "post_call_extraction_v2"
  <2>1. console = [top |-> fields, disposition_result |-> Empty,
           post_call_extraction_v2 |-> nested, call_started_at |-> FALSE,
           call_infra |-> infra, call_duration_seconds |-> b.call_duration_seconds,
           conversation_id |-> b.conversation_id, call_id |-> b.call_id]
    BY <1>3, <1>4, <1>6
  <2> HIDE DEF console
  <2>. QED
    BY <2>1, <1>2 DEF IsConsole, Extraction, nested, fields, infra, console
<1>. QED
  BY <1>5, <1>6

LEMMA SamePayload ==
  ASSUME NEW b, NEW d, StageCodeOf(Flattened(b)) = StageCodeOf(Flattened(d)),
         Flattened(b)["ptp_date"] = Flattened(d)["ptp_date"]
  PROVE  Payload(b) = Payload(d)
  BY DEF Payload, Filled

LEMMA FlatAgrees ==
  ASSUME IsBody(body)
  PROVE  ShapesAgree
<1> SUFFICES ASSUME IsFlat(body),
                    NEW copy \in {"disposition_result", "post_call_extraction_v2"}
             PROVE  LET console == ConsoleShape(body, copy, StageCodeOf(body.top))
                    IN  /\ Payload(console) = Payload(body)
                        /\ Started(console) = Started(body)
                        /\ Valid(console) = Valid(body)
  BY DEF ShapesAgree
<1> DEFINE code == StageCodeOf(body.top)
           console == ConsoleShape(body, copy, code)
<1>1. PICK k \in CodeKey : Filled(body.top, k) /\ body.top =
        [Empty EXCEPT ![k] = body.top[k], !["ptp_date"] = body.top["ptp_date"]]
  BY DEF IsFlat
<1>2. body.disposition_result = Empty /\ body.post_call_extraction_v2 = Empty
  BY DEF IsFlat
<1>3. code = body.top[k] /\ code # Absent /\ code # Blank
  <2>1. \A j \in CodeKey \ {k} : body.top[j] = Absent
    BY <1>1, KeysAre DEF Empty
  <2>2. body.top[k] # Absent /\ body.top[k] # Blank
    BY <1>1 DEF Filled
  <2>. QED
    BY <2>1, <2>2, OnlyCode
<1>4. Flattened(body) = body.top
  <2>1. Extraction(body) = Empty
    BY <1>2 DEF Extraction
  <2>. QED
    BY <1>1, <2>1, FlatIsFlattened
<1> HIDE DEF code
<1>5. IsConsole(console, body, code)
  BY <1>2, <1>3, ConsoleFields
<1> HIDE DEF console
<1>6. Flattened(console)["DISPOSITION"] = code
  <2>1. console.top["DISPOSITION"] = Absent /\ Extraction(console)["DISPOSITION"] = code
    BY <1>5, KeysAre DEF IsConsole, Empty, ConsoleTop, ConsoleNested
  <2>. QED
    BY <1>3, <2>1, KeysAre DEF Flattened, Filled
<1>7. Flattened(console)["ptp_date"] = body.top["ptp_date"]
  <2>1. console.top["ptp_date"] = Absent
        /\ Extraction(console)["ptp_date"] = body.top["ptp_date"]
    BY <1>5, KeysAre DEF IsConsole, Empty, ConsoleTop, ConsoleNested
  <2>. QED
    BY <2>1, KeysAre DEF Flattened, Filled
<1>8. Payload(console) = Payload(body)
  <2>1. StageCodeOf(Flattened(console)) = code
    BY <1>3, <1>6, FirstCode
  <2>2. StageCodeOf(Flattened(body)) = code
    BY <1>4 DEF code
  <2>3. Flattened(body)["ptp_date"] = Flattened(console)["ptp_date"]
    BY <1>4, <1>7
  <2>. QED
    BY <2>1, <2>2, <2>3, SamePayload
<1>9. Started(console) = Started(body)
  <2>1. body.call_infra.start = FALSE /\ body.call_started_at \in BOOLEAN
    BY DEF IsFlat, IsBody, Infra
  <2>. QED
    BY <1>5, <2>1, Zenon DEF IsConsole, Started
<1>10. Valid(console) = Valid(body)
  <2>1. DurationOK(console) = TRUE
    BY <1>5 DEF IsConsole, DurationOK
  <2>2. DurationOK(body) = TRUE
    BY DEF DurationOK, IsFlat
  <2>3. IdentifierOK(console) = IdentifierOK(body)
    BY <1>5, Zenon DEF IsConsole, IdentifierOK
  <2>. QED
    BY <2>1, <2>2, <2>3, Zenon DEF Valid
<1>. QED
  BY <1>8, <1>9, <1>10 DEF console, code

\* What the console nests in either copy of its extraction is read as if it had
\* been written at the top of the body (_flatten_gnani_shape and the aliases).
THEOREM ShapesAgreeAlways == Spec => []ShapesAgree
<1>1. Init => IsBody(body)
  BY DispositionAssumption DEF Init
<1>2. IsBody(body) /\ [Next]_vars => IsBody(body)'
  BY DEF Next, Midnight, ApplyPostCall, DeadLetterInvalid, vars
<1>. QED
  BY <1>1, <1>2, FlatAgrees, PTL DEF Spec

-----------------------------------------------------------------------------
(* Induction on a set of numbers *)

\* A set of numbers has a least one.
LEMMA LeastOf ==
  ASSUME NEW T \in SUBSET Nat, T # {}
  PROVE  \E n \in T : \A m \in T : n <= m
<1> DEFINE Less == {p \in Nat \X Nat : p[1] < p[2]}
<1>1. OpToRel(<, Nat) = Less
  BY Zenon DEF OpToRel
<1>2. IsWellFoundedOn(OpToRel(<, Nat), Nat)
  BY NatLessThanWellFounded, Zenon
<1>3. IsWellFoundedOn(Less, Nat)
  BY <1>1, <1>2, Zenon
<1> HIDE DEF Less
<1>4. PICK n \in T : \A m \in T : <<m, n>> \notin Less
  BY <1>3, WFMin
<1>5. ASSUME NEW m \in T PROVE n <= m
  <2>1. m < n => <<m, n>> \in Less
    BY DEF Less
  <2>. QED
    BY <1>4, <2>1
<1>. QED
  BY <1>5

\* Induction: a number that is not in T would have a least one before it.
LEMMA UpTo ==
  ASSUME NEW N \in Nat, NEW T, 0 \in T, \A k \in 0..N : k # N /\ k \in T => k + 1 \in T
  PROVE  0..N \subseteq T
<1> DEFINE out == {k \in 0..N : k \notin T}
<1>1. CASE out # {}
  <2>1. out \in SUBSET Nat
    OBVIOUS
  <2>2. PICK n \in out : \A m \in out : n <= m
    <3> HIDE DEF out
    <3>. QED
      BY <1>1, <2>1, LeastOf
  <2>3. n \in 1..N
    BY <2>2
  <2>4. n - 1 \in T
    BY <2>2, <2>3
  <2>. QED
    BY <2>2, <2>3, <2>4
<1>. QED
  BY <1>1

-----------------------------------------------------------------------------
(* The calendar *)

Month(ref, j) == ((ref.m - 1 + j) % 12) + 1
Year(ref, j) == ref.y + (ref.m - 1 + j) \div 12
Length(ref, j) == DaysIn(Year(ref, j), Month(ref, j))
DayOf(ref, j, d) == [y |-> Year(ref, j), m |-> Month(ref, j), d |-> d]

LEMMA LengthOfMonth ==
  ASSUME NEW y \in Int, NEW m \in 1..12
  PROVE  DaysIn(y, m) \in 28..31
BY DEF DaysIn

\* What the division by twelve of _resolve_day_of_month comes to.
LEMMA MonthsAhead ==
  ASSUME NEW ref, IsCalendarDate(ref), NEW j \in 0..4
  PROVE  /\ Year(ref, j) = IF ref.m + j <= 12 THEN ref.y ELSE ref.y + 1
         /\ Month(ref, j) = IF ref.m + j <= 12 THEN ref.m + j ELSE ref.m + j - 12
<1>1. ref.m \in 1..12 /\ ref.y \in Int
  BY DEF IsCalendarDate
<1> DEFINE q == ref.m - 1 + j
<1>2. q \in 0..15
  BY <1>1
<1>3. (q < 12 => q \div 12 = 0 /\ q % 12 = q) /\ (q >= 12 => q \div 12 = 1 /\ q % 12 = q - 12)
  <2> HIDE DEF q
  <2>. QED
    BY <1>2
<1>4. Year(ref, j) = ref.y + (q \div 12) /\ Month(ref, j) = (q % 12) + 1
  BY DEF Year, Month
<1>5. q = ref.m - 1 + j
  OBVIOUS
<1> HIDE DEF q
<1>6. CASE ref.m + j <= 12
  <2>1. q \div 12 = 0 /\ q % 12 = ref.m - 1 + j
    BY <1>1, <1>3, <1>5, <1>6
  <2>2. Year(ref, j) = ref.y /\ Month(ref, j) = ref.m + j
    BY <1>1, <1>4, <2>1
  <2>. QED
    BY <1>6, <2>2
<1>7. CASE ref.m + j > 12
  <2>1. q \div 12 = 1 /\ q % 12 = q - 12
    BY <1>1, <1>3, <1>5, <1>7
  <2>. QED
    BY <1>1, <1>4, <1>5, <1>7, <2>1
<1>. QED
  BY <1>1, <1>6, <1>7

LEMMA DateParts ==
  ASSUME NEW ref, IsCalendarDate(ref)
  PROVE  /\ ref.m \in 1..12 /\ ref.y \in Int /\ ref.d \in 1..Length(ref, 0)
         /\ Year(ref, 0) = ref.y /\ Month(ref, 0) = ref.m
         /\ \A j \in 0..4 : Length(ref, j) \in 28..31
<1>1. ref.m \in 1..12 /\ ref.y \in Int
  BY DEF IsCalendarDate
<1>2. \A j \in 0..4 : Year(ref, j) \in Int /\ Month(ref, j) \in 1..12
  BY <1>1, MonthsAhead
<1>3. Year(ref, 0) = ref.y /\ Month(ref, 0) = ref.m
  BY <1>1, MonthsAhead
<1>4. ref.d \in 1..Length(ref, 0)
  BY <1>3 DEF IsCalendarDate, IsDate, Length
<1>5. \A j \in 0..4 : Length(ref, j) \in 28..31
  BY <1>2, LengthOfMonth DEF Length
<1>. QED
  BY <1>1, <1>3, <1>4, <1>5

\* A day ends its month or not.
LEMMA DayAfter ==
  ASSUME NEW ref, IsCalendarDate(ref), NEW j \in 0..3, NEW d \in 1..Length(ref, j)
  PROVE  NextDay(DayOf(ref, j, d)) =
           IF d < Length(ref, j) THEN DayOf(ref, j, d + 1) ELSE DayOf(ref, j + 1, 1)
<1>1. ref.m \in 1..12 /\ ref.y \in Int
  BY DEF IsCalendarDate
<1>2. /\ Year(ref, j) \in Int /\ Month(ref, j) \in 1..12
      /\ Year(ref, j + 1) = IF Month(ref, j) < 12 THEN Year(ref, j) ELSE Year(ref, j) + 1
      /\ Month(ref, j + 1) = IF Month(ref, j) < 12 THEN Month(ref, j) + 1 ELSE 1
  BY <1>1, MonthsAhead
<1>3. /\ DayOf(ref, j, d).y = Year(ref, j) /\ DayOf(ref, j, d).m = Month(ref, j)
      /\ DayOf(ref, j, d).d = d
      /\ [DayOf(ref, j, d) EXCEPT !.d = @ + 1] = DayOf(ref, j, d + 1)
  BY DEF DayOf
<1>4. Length(ref, j) \in 28..31
  BY <1>2, LengthOfMonth DEF Length
<1>5. CASE d < Length(ref, j)
  BY <1>3, <1>5, Zenon DEF NextDay, Length
<1>6. CASE ~(d < Length(ref, j))
  BY <1>2, <1>3, <1>6 DEF NextDay, Length, DayOf
<1>. QED
  BY <1>5, <1>6

\* The leap days up to a year: one more than the year before if it is one.
LeapDays(y) == y \div 4 - y \div 100 + y \div 400

LEMMA YearTurn ==
  ASSUME NEW y \in Int
  PROVE  /\ LeapDays(y) \in Int
         /\ LeapDays(y) = LeapDays(y - 1) + (IF LeapYear(y) THEN 1 ELSE 0)
<1>1. y \div 4 = (y - 1) \div 4 + (IF y % 4 = 0 THEN 1 ELSE 0)
  OBVIOUS
<1>2. y \div 100 = (y - 1) \div 100 + (IF y % 100 = 0 THEN 1 ELSE 0)
  OBVIOUS
<1>3. y \div 400 = (y - 1) \div 400 + (IF y % 400 = 0 THEN 1 ELSE 0)
  OBVIOUS
<1>4. (y % 100 = 0 => y % 4 = 0) /\ (y % 400 = 0 => y % 100 = 0)
  OBVIOUS
<1>5. /\ y \div 4 \in Int /\ y \div 100 \in Int /\ y \div 400 \in Int
      /\ (y - 1) \div 4 \in Int /\ (y - 1) \div 100 \in Int /\ (y - 1) \div 400 \in Int
  OBVIOUS
<1>6. LeapDays(y) \in Int
  BY <1>5 DEF LeapDays
<1>. QED
  BY <1>1, <1>2, <1>3, <1>4, <1>5, <1>6 DEF LeapYear, LeapDays

\* The ordinals of a month go on where those of the last month end.
LEMMA OrdinalOfNextMonth ==
  ASSUME NEW ref, IsCalendarDate(ref), NEW d \in Int
  PROVE  ToOrdinal(Year(ref, 1), Month(ref, 1), d) =
           ToOrdinal(ref.y, ref.m, d) + DaysIn(ref.y, ref.m)
<1>1. ref.m \in 1..12 /\ ref.y \in Int
  BY DEF IsCalendarDate
<1>2. CASE ref.m < 12
  <2>1. Year(ref, 1) = ref.y /\ Month(ref, 1) = ref.m + 1
    BY <1>1, <1>2, MonthsAhead
  <2>2. DaysBefore[ref.m + 1] + (IF ref.m + 1 > 2 /\ LeapYear(ref.y) THEN 1 ELSE 0)
          = DaysBefore[ref.m] + (IF ref.m > 2 /\ LeapYear(ref.y) THEN 1 ELSE 0)
              + DaysIn(ref.y, ref.m)
    <3> HIDE DEF LeapYear
    <3>. QED
      BY <1>1, <1>2 DEF DaysBefore, DaysIn
  <2>3. DaysBefore[ref.m] \in Int /\ DaysBefore[ref.m + 1] \in Int
    BY <1>1, <1>2 DEF DaysBefore
  <2>4. DaysIn(ref.y, ref.m) \in 28..31
    BY <1>1, LengthOfMonth
  <2> DEFINE x == ref.y - 1
             elapsed == 365 * x + x \div 4 - x \div 100 + x \div 400
  <2>5. elapsed \in Int
    BY <1>1
  <2>6. /\ ToOrdinal(ref.y, ref.m + 1, d) = elapsed + DaysBefore[ref.m + 1]
             + (IF ref.m + 1 > 2 /\ LeapYear(ref.y) THEN 1 ELSE 0) + d
        /\ ToOrdinal(ref.y, ref.m, d) = elapsed + DaysBefore[ref.m]
             + (IF ref.m > 2 /\ LeapYear(ref.y) THEN 1 ELSE 0) + d
    BY DEF ToOrdinal
  <2> HIDE DEF elapsed
  <2>. QED
    BY <2>1, <2>2, <2>3, <2>4, <2>5, <2>6
<1>3. CASE ref.m = 12
  <2>1. Year(ref, 1) = ref.y + 1 /\ Month(ref, 1) = 1
    BY <1>1, <1>3, MonthsAhead
  <2> DEFINE y == ref.y
             leap == IF LeapYear(y) THEN 1 ELSE 0
  <2>2. DaysBefore[1] = 0 /\ DaysBefore[12] = 334 /\ DaysIn(y, 12) = 31
    BY DEF DaysBefore, DaysIn
  <2>3. ToOrdinal(y + 1, 1, d) = 365 * y + LeapDays(y) + d
    BY <1>1, <2>2 DEF ToOrdinal, LeapDays
  <2>4. ToOrdinal(y, 12, d) = 365 * (y - 1) + LeapDays(y - 1) + 334 + leap + d
    BY <1>1, <2>2 DEF ToOrdinal, LeapDays
  <2>5. LeapDays(y) = LeapDays(y - 1) + leap
    BY <1>1, YearTurn
  <2>6. LeapDays(y - 1) \in Int /\ leap \in Int
    BY <1>1, YearTurn
  <2> HIDE DEF leap
  <2>7. ToOrdinal(y + 1, 1, d) = ToOrdinal(y, 12, d) + 31
    BY <1>1, <2>3, <2>4, <2>5, <2>6
  <2>. QED
    BY <1>3, <2>1, <2>2, <2>7
<1>. QED
  BY <1>1, <1>2, <1>3

-----------------------------------------------------------------------------
(* Walking the calendar *)

Walking(w, ref) == w = [k \in 0..61 |-> IF k = 0 THEN ref ELSE NextDay(w[k - 1])]
Walk(ref) == CHOOSE w : Walking(w, ref)
Hits(n, ref) == {k \in 0..61 : Walk(ref)[k].d = n}

LEMMA FirstSuchIs ==
  ASSUME NEW n, NEW ref
  PROVE  FirstSuch(n, ref) =
           IF Hits(n, ref) = {} THEN NoDate
           ELSE Ordinal(ref) + (CHOOSE k \in Hits(n, ref) : \A j \in Hits(n, ref) : k <= j)
BY Zenon DEF FirstSuch, Hits, Walk, Walking

\* There is such a walk: one of n days can be taken a day further.
LEMMA WalkExists ==
  ASSUME NEW ref
  PROVE  Walking(Walk(ref), ref)
<1> DEFINE Trip(w, n) == w = [k \in 0..n |-> IF k = 0 THEN ref ELSE NextDay(w[k - 1])]
           T == {n \in Nat : \E w : Trip(w, n)}
<1>1. 0 \in T
  <2>1. Trip([k \in 0..0 |-> ref], 0)
    OBVIOUS
  <2>. QED
    BY <2>1
<1>2. ASSUME NEW n \in 0..61, n \in T PROVE n + 1 \in T
  <2>1. PICK w : Trip(w, n)
    BY <1>2
  <2> DEFINE v == [k \in 0..n + 1 |-> IF k = n + 1 THEN NextDay(w[n]) ELSE w[k]]
  <2>2. ASSUME NEW k \in 0..n + 1
        PROVE  v[k] = IF k = 0 THEN ref ELSE NextDay(v[k - 1])
    <3>1. \A i \in 0..n : w[i] = IF i = 0 THEN ref ELSE NextDay(w[i - 1])
      BY <2>1
    <3>2. CASE k = n + 1
      BY <3>2
    <3>3. CASE k \in 0..n
      BY <3>1, <3>3
    <3>. QED
      BY <3>2, <3>3
  <2>3. v = [k \in 0..n + 1 |-> v[k]]
    OBVIOUS
  <2> HIDE DEF v
  <2>4. Trip(v, n + 1)
    BY <2>2, <2>3
  <2>. QED
    BY <1>2, <2>4
<1> HIDE DEF T
<1>3. 61 \in T
  BY <1>1, <1>2, UpTo
<1>4. \E w : Walking(w, ref)
  BY <1>3 DEF T, Walking
<1>. QED
  BY <1>4, Zenon DEF Walk

\* Where the walk is after k days: in the month of ref, in the next, or well
\* beyond.
Placed(ref, k, j, d) ==
  /\ j = 0 => d = ref.d + k
  /\ j = 1 => d = k - (Length(ref, 0) - ref.d)
  /\ j >= 2 => k >= Length(ref, 0) - ref.d + Length(ref, 1) + 28 * (j - 2) + d
Reached(ref, k, date) ==
  \E j \in 0..3 : \E d \in 1..Length(ref, j) :
    date = DayOf(ref, j, d) /\ Placed(ref, k, j, d)

LEMMA Reaching ==
  ASSUME NEW ref, IsCalendarDate(ref), NEW k \in 0..61
  PROVE  Reached(ref, k, Walk(ref)[k])
<1> DEFINE T == {i \in 0..61 : Reached(ref, i, Walk(ref)[i])}
<1>0. /\ ref.m \in 1..12 /\ ref.y \in Int /\ ref.d \in 1..Length(ref, 0)
      /\ \A j \in 0..4 : Length(ref, j) \in 28..31
  BY DateParts
<1>1. Walk(ref)[0] = ref /\ \A i \in 1..61 : Walk(ref)[i] = NextDay(Walk(ref)[i - 1])
  BY WalkExists DEF Walking
<1>2. ref = DayOf(ref, 0, ref.d)
  BY MonthsAhead DEF IsCalendarDate, DayOf
<1>3. 0 \in T
  <2>1. Placed(ref, 0, 0, ref.d)
    BY <1>0 DEF Placed
  <2>. QED
    BY <1>0, <1>1, <1>2, <2>1 DEF Reached
<1>4. ASSUME NEW i \in 0..61, i # 61, i \in T PROVE i + 1 \in T
  <2>1. PICK j \in 0..3 : \E d \in 1..Length(ref, j) :
          Walk(ref)[i] = DayOf(ref, j, d) /\ Placed(ref, i, j, d)
    BY <1>4 DEF Reached
  <2>2. PICK d \in 1..Length(ref, j) : Walk(ref)[i] = DayOf(ref, j, d) /\ Placed(ref, i, j, d)
    BY <2>1
  <2>3. Walk(ref)[i + 1] =
          IF d < Length(ref, j) THEN DayOf(ref, j, d + 1) ELSE DayOf(ref, j + 1, 1)
    BY <1>1, <1>4, <2>2, DayAfter
  <2>4. CASE d < Length(ref, j)
    <3>1. d + 1 \in 1..Length(ref, j) /\ Walk(ref)[i + 1] = DayOf(ref, j, d + 1)
      BY <1>0, <2>3, <2>4
    <3>2. Placed(ref, i + 1, j, d + 1)
      BY <1>0, <2>2 DEF Placed
    <3>. QED
      BY <1>4, <3>1, <3>2 DEF Reached
  <2>5. CASE d = Length(ref, j)
    <3>1. Walk(ref)[i + 1] = DayOf(ref, j + 1, 1)
      BY <1>0, <2>3, <2>5
    <3>2. j # 3
      BY <1>0, <1>4, <2>2, <2>5 DEF Placed
    <3>3. 1 \in 1..Length(ref, j + 1) /\ j + 1 \in 0..3
      BY <1>0, <3>2
    <3>4. Placed(ref, i + 1, j + 1, 1)
      BY <1>0, <2>2, <2>5 DEF Placed
    <3>. QED
      BY <1>4, <3>1, <3>3, <3>4 DEF Reached
  <2>. QED
    BY <1>0, <2>4, <2>5
<1>5. 0..61 \subseteq T
  <2> HIDE DEF T
  <2>. QED
    BY <1>3, <1>4, UpTo
<1>. QED
  BY <1>5

\* The days of the walk in the month of ref and in the next.
LEMMA NearDays ==
  ASSUME NEW ref, IsCalendarDate(ref), NEW k \in 0..61
  PROVE  /\ ref.d + k <= Length(ref, 0) => Walk(ref)[k].d = ref.d + k
         /\ ref.d + k > Length(ref, 0) /\ ref.d + k <= Length(ref, 0) + Length(ref, 1) =>
              Walk(ref)[k].d = ref.d + k - Length(ref, 0)
<1>0. ref.d \in 1..Length(ref, 0) /\ \A j \in 0..4 : Length(ref, j) \in 28..31
  BY DateParts
<1>1. PICK j \in 0..3 : \E d \in 1..Length(ref, j) :
        Walk(ref)[k] = DayOf(ref, j, d) /\ Placed(ref, k, j, d)
  BY Reaching DEF Reached
<1>2. PICK d \in 1..Length(ref, j) : Walk(ref)[k] = DayOf(ref, j, d) /\ Placed(ref, k, j, d)
  BY <1>1
<1>3. Walk(ref)[k].d = d
  BY <1>2 DEF DayOf
<1>4. CASE j = 0
  BY <1>0, <1>2, <1>3, <1>4 DEF Placed
<1>5. CASE j = 1
  BY <1>0, <1>2, <1>3, <1>5 DEF Placed
<1>6. CASE j \in {2, 3}
  <2>1. ref.d + k > Length(ref, 0) + Length(ref, 1)
    BY <1>0, <1>2, <1>6 DEF Placed
  <2>. QED
    BY <1>0, <2>1
<1>. QED
  BY <1>4, <1>5, <1>6

LEMMA NextMonthLength ==
  ASSUME NEW ref, IsCalendarDate(ref)
  PROVE  Length(ref, 0) = DaysIn(ref.y, ref.m)
         /\ Length(ref, 1) = DaysIn(ref.y, (ref.m % 12) + 1)
<1>1. ref.m \in 1..12 /\ ref.y \in Int
  BY DateParts
<1>2. CASE ref.m \in 1..11
  <2>1. Year(ref, 1) = ref.y /\ Month(ref, 1) = ref.m + 1 /\ (ref.m % 12) + 1 = ref.m + 1
    BY <1>1, <1>2, MonthsAhead
  <2>. QED
    BY <2>1, DateParts, MonthsAhead DEF Length
<1>3. CASE ref.m = 12
  <2>1. Year(ref, 1) = ref.y + 1 /\ Month(ref, 1) = 1 /\ (ref.m % 12) + 1 = 1
    BY <1>1, <1>3, MonthsAhead
  <2>2. DaysIn(ref.y, 1) = 31 /\ DaysIn(ref.y + 1, 1) = 31
    BY DEF DaysIn
  <2>. QED
    BY <2>1, <2>2, DateParts DEF Length
<1>. QED
  BY <1>1, <1>2, <1>3

\* The two months _resolve_day_of_month tries are those the walk passes first.
NextNamed(n, ref) ==
  LET first == FirstSuch(n, ref)
  IN  IF first # NoDate /\ first <= NextMonthEnds(ref) THEN first ELSE NoDate

LEMMA SpokenDay ==
  ASSUME NEW ref, IsCalendarDate(ref), NEW n
  PROVE  ResolveDayOfMonth(n, ref) = NextNamed(n, ref)
<1> DEFINE this == Length(ref, 0)
           next == Length(ref, 1)
           hits == Hits(n, ref)
<1>1. /\ ref.m \in 1..12 /\ ref.y \in Int /\ ref.d \in 1..this
      /\ this \in 28..31 /\ next \in 28..31
      /\ Year(ref, 0) = ref.y /\ Month(ref, 0) = ref.m
      /\ this = DaysIn(ref.y, ref.m)
  BY DateParts DEF Length
<1> DEFINE here == ToOrdinal(Year(ref, 0), Month(ref, 0), n)
           there == ToOrdinal(Year(ref, 1), Month(ref, 1), n)
           fitsHere == n \in 1..31 /\ IsDate(Year(ref, 0), Month(ref, 0), n) /\ here >= Ordinal(ref)
           fitsThere == n \in 1..31 /\ IsDate(Year(ref, 1), Month(ref, 1), n) /\ there >= Ordinal(ref)
<1>2. ResolveDayOfMonth(n, ref) = IF fitsHere THEN here ELSE IF fitsThere THEN there ELSE NoDate
  BY Zenon DEF ResolveDayOfMonth, Year, Month
<1>3. Ordinal(ref) \in Int
  <2>1. DaysBefore[ref.m] \in Int
    BY <1>1 DEF DaysBefore
  <2>. QED
    BY <1>1, <2>1 DEF Ordinal, ToOrdinal
<1>4. ASSUME n \in Int
      PROVE  here = Ordinal(ref) + n - ref.d /\ there = Ordinal(ref) + this + n - ref.d
  <2>1. here = Ordinal(ref) + n - ref.d
    <3>1. DaysBefore[ref.m] \in Int
      BY <1>1 DEF DaysBefore
    <3>. QED
      BY <1>1, <1>4, <3>1 DEF Ordinal, ToOrdinal
  <2>2. there = here + this
    BY <1>1, <1>4, OrdinalOfNextMonth
  <2> HIDE DEF here, there, this
  <2>. QED
    BY <1>1, <1>3, <1>4, <2>1, <2>2
<1>5. fitsHere <=> n \in ref.d..this
  <2> SUFFICES ASSUME n \in 1..31 PROVE (here >= Ordinal(ref)) <=> n >= ref.d
    BY <1>1 DEF IsDate
  <2>. QED
    BY <1>1, <1>3, <1>4
<1>6. fitsThere <=> n \in 1..next
  <2> SUFFICES ASSUME n \in 1..31 PROVE there >= Ordinal(ref)
    BY <1>1 DEF IsDate, Length
  <2>. QED
    BY <1>1, <1>3, <1>4
<1>7. ASSUME NEW k \in 0..61, ref.d + k <= this + next
      PROVE  k \in hits <=> \/ ref.d + k <= this /\ n = ref.d + k
                            \/ ref.d + k \in this + 1..this + next /\ n = ref.d + k - this
  <2>1. /\ ref.d + k <= this => Walk(ref)[k].d = ref.d + k
        /\ ref.d + k > this /\ ref.d + k <= this + next =>
             Walk(ref)[k].d = ref.d + k - this
    BY NearDays
  <2> HIDE DEF this, next
  <2>. QED
    BY <1>1, <1>7, <2>1 DEF Hits
<1>7a. hits \subseteq 0..61
  BY DEF Hits
<1>7b. NextMonthEnds(ref) = Ordinal(ref) + (this - ref.d) + next
  BY NextMonthLength DEF NextMonthEnds, Length, this, next
<1> DEFINE first == CHOOSE k \in hits : \A j \in hits : k <= j
<1>8. FirstSuch(n, ref) = IF hits = {} THEN NoDate ELSE Ordinal(ref) + first
  BY FirstSuchIs
<1> HIDE DEF hits, this, next
<1>9. ASSUME NEW k \in hits, \A j \in hits : k <= j PROVE first = k
  <2>1. hits \subseteq Int
    BY <1>7a
  <2>2. \A j \in hits : (\A i \in hits : j <= i) => j = k
    BY <1>9, <2>1
  <2>. QED
    BY <1>9, <2>2
<1> HIDE DEF here, there, fitsHere, fitsThere, first
<1>10. CASE n \in ref.d..this
  <2>1. n - ref.d \in hits
    <3> DEFINE k == n - ref.d
    <3>1. k \in 0..61 /\ ref.d + k = n /\ n <= this /\ n <= this + next
      BY <1>1, <1>10
    <3> HIDE DEF k
    <3>2. k \in hits
      BY <1>7, <3>1
    <3>. QED
      BY <3>2 DEF k
  <2>2. ASSUME NEW j \in hits PROVE n - ref.d <= j
    <3>1. j \in 0..61
      BY <1>7a
    <3>2. CASE ref.d + j <= this + next
      <4>1. \/ ref.d + j <= this /\ n = ref.d + j
            \/ ref.d + j \in this + 1..this + next
        BY <1>7, <3>1, <3>2
      <4>. QED
        BY <1>1, <1>10, <3>1, <4>1
    <3>3. CASE ref.d + j > this + next
      BY <1>1, <1>10, <3>1, <3>3
    <3>. QED
      BY <1>1, <3>1, <3>2, <3>3
  <2>3. first = n - ref.d
    BY <1>9, <2>1, <2>2
  <2>4. FirstSuch(n, ref) = Ordinal(ref) + (n - ref.d)
    BY <1>8, <2>1, <2>3
  <2>5. ResolveDayOfMonth(n, ref) = here
    BY <1>2, <1>5, <1>10, Zenon
  <2>6. n \in Int /\ ref.d \in Int
    BY <1>1, <1>10
  <2>7. here = Ordinal(ref) + n - ref.d
    BY <1>4, <2>6
  <2>8. NextNamed(n, ref) = FirstSuch(n, ref)
    BY <1>1, <1>3, <1>7b, <1>10, <2>4, GuardrailAssumption DEF NextNamed
  <2>. QED
    BY <1>3, <2>4, <2>5, <2>6, <2>7, <2>8
<1>11. CASE n \in 1..next /\ n \notin ref.d..this
  <2>1. this - ref.d + n \in hits
    <3> DEFINE k == this - ref.d + n
    <3>1. n \in 1..next /\ next \in 28..31 /\ this \in 28..31 /\ ref.d \in 1..this
      BY <1>1, <1>11
    <3>2. k \in 0..61 /\ ref.d + k = this + n
      <4>1. n \in Int /\ this \in Int /\ ref.d \in Int
        BY <3>1
      <4>2. n >= 1 /\ n <= 31 /\ this <= 31 /\ ref.d >= 1 /\ ref.d <= this
        BY <3>1
      <4>3. k \in Int /\ ref.d + k = this + n
        BY <4>1
      <4> HIDE DEF k
      <4>4. k >= 0 /\ k <= 61
        BY <4>1, <4>2, <4>3
      <4>. QED
        BY <4>3, <4>4
    <3> HIDE DEF k
    <3>3. ref.d + k \in this + 1..this + next
      BY <3>1, <3>2
    <3>4. n = ref.d + k - this
      BY <3>1, <3>2
    <3>5. k \in hits
      BY <1>7, <3>2, <3>3, <3>4
    <3>. QED
      BY <3>5 DEF k
  <2>2. ASSUME NEW j \in hits PROVE this - ref.d + n <= j
    <3>1. j \in 0..61
      BY <1>7a
    <3>2. CASE ref.d + j <= this + next
      <4>1. \/ ref.d + j <= this /\ n = ref.d + j
            \/ n = ref.d + j - this
        BY <1>7, <3>1, <3>2
      <4>. QED
        BY <1>1, <1>11, <3>1, <4>1
    <3>3. CASE ref.d + j > this + next
      BY <1>1, <1>11, <3>1, <3>3
    <3>. QED
      BY <1>1, <3>1, <3>2, <3>3
  <2>3. first = this - ref.d + n
    BY <1>9, <2>1, <2>2
  <2>4. FirstSuch(n, ref) = Ordinal(ref) + (this - ref.d + n)
    BY <1>8, <2>1, <2>3
  <2>5. ResolveDayOfMonth(n, ref) = there
    BY <1>2, <1>5, <1>6, <1>11, Zenon
  <2>6. n \in Int /\ ref.d \in Int
    BY <1>1, <1>11
  <2>7. there = Ordinal(ref) + this + n - ref.d
    BY <1>4, <2>6
  <2>8. NextNamed(n, ref) = FirstSuch(n, ref)
    BY <1>1, <1>3, <1>7b, <1>11, <2>4, GuardrailAssumption DEF NextNamed
  <2>. QED
    BY <1>1, <1>3, <2>4, <2>5, <2>6, <2>7, <2>8
<1>12. CASE n \notin 1..next /\ n \notin ref.d..this
  <2>1. ASSUME NEW k \in hits PROVE ref.d + k > this + next
    <3>1. k \in 0..61
      BY <1>7a
    <3>2. CASE ref.d + k <= this + next
      <4>1. \/ ref.d + k <= this /\ n = ref.d + k
            \/ ref.d + k \in this + 1..this + next /\ n = ref.d + k - this
        BY <1>7, <3>1, <3>2
      <4>. QED
        BY <1>1, <1>12, <3>1, <4>1
    <3>. QED
      BY <1>1, <3>1, <3>2
  <2>2. NextNamed(n, ref) = NoDate
    <3>1. CASE hits = {}
      BY <1>8, <3>1 DEF NextNamed
    <3>2. CASE hits # {}
      <4>1. hits \in SUBSET Nat
        BY <1>7a
      <4>2. PICK k \in hits : \A j \in hits : k <= j
        BY <3>2, <4>1, LeastOf
      <4>3. FirstSuch(n, ref) = Ordinal(ref) + k
        BY <1>8, <1>9, <4>2
      <4>4. k \in Nat /\ ref.d + k > this + next
        BY <2>1, <4>1
      <4>5. Ordinal(ref) + k > NextMonthEnds(ref)
        BY <1>1, <1>3, <1>7b, <4>4
      <4>. QED
        BY <1>1, <1>3, <1>7b, <4>3, <4>4, <4>5 DEF NextNamed
    <3>. QED
      BY <3>1, <3>2
  <2>. QED
    BY <1>2, <1>5, <1>6, <1>12, <2>2
<1>. QED
  BY <1>10, <1>11, <1>12

-----------------------------------------------------------------------------
(* Dates said *)

\* Ordinals count days: the day after a date is a date and has the next ordinal,
\* over the ends of months and years, leap or not (date.toordinal).
THEOREM OrdinalsCountDays ==
  ASSUME NEW date, IsCalendarDate(date)
  PROVE  IsCalendarDate(NextDay(date)) /\ Ordinal(NextDay(date)) = Ordinal(date) + 1
<1>1. /\ date.m \in 1..12 /\ date.y \in Int /\ date.d \in 1..Length(date, 0)
      /\ Year(date, 0) = date.y /\ Month(date, 0) = date.m
      /\ Length(date, 0) \in 28..31 /\ Length(date, 1) \in 28..31
  BY DateParts
<1>2. date = DayOf(date, 0, date.d)
  BY <1>1 DEF IsCalendarDate, DayOf
<1>3. NextDay(date) = IF date.d < Length(date, 0) THEN DayOf(date, 0, date.d + 1)
                                                 ELSE DayOf(date, 1, 1)
  BY <1>1, <1>2, DayAfter
<1>4. DaysBefore[date.m] \in Int
  BY <1>1 DEF DaysBefore
<1>5. CASE date.d < Length(date, 0)
  <2>1. NextDay(date) = [y |-> date.y, m |-> date.m, d |-> date.d + 1]
    BY <1>1, <1>3, <1>5 DEF DayOf
  <2>2. date.d + 1 \in 1..DaysIn(date.y, date.m) /\ date.d + 1 \in 1..31
    BY <1>1, <1>5 DEF Length
  <2>3. IsCalendarDate(NextDay(date))
    BY <1>1, <2>1, <2>2 DEF IsCalendarDate, IsDate
  <2>4. Ordinal(NextDay(date)) = Ordinal(date) + 1
    BY <1>1, <1>4, <2>1 DEF Ordinal, ToOrdinal
  <2>. QED
    BY <2>3, <2>4
<1>6. CASE date.d = Length(date, 0)
  <2>1. NextDay(date) = [y |-> Year(date, 1), m |-> Month(date, 1), d |-> 1]
    BY <1>1, <1>3, <1>6 DEF DayOf
  <2>2. Year(date, 1) \in Int /\ Month(date, 1) \in 1..12
    BY <1>1, MonthsAhead
  <2>3. IsCalendarDate(NextDay(date))
    BY <1>1, <2>1, <2>2 DEF IsCalendarDate, IsDate, Length
  <2>4. Ordinal(NextDay(date)) = ToOrdinal(date.y, date.m, 1) + DaysIn(date.y, date.m)
    BY <2>1, OrdinalOfNextMonth DEF Ordinal
  <2>5. Ordinal(date) = ToOrdinal(date.y, date.m, 1) + DaysIn(date.y, date.m) - 1
    BY <1>1, <1>4, <1>6 DEF Ordinal, ToOrdinal, Length
  <2>6. Ordinal(date) \in Int
    BY <1>1, <1>4 DEF Ordinal, ToOrdinal
  <2>7. ToOrdinal(date.y, date.m, 1) \in Int /\ DaysIn(date.y, date.m) \in Int
    BY <1>1, <1>4 DEF ToOrdinal, Length
  <2>. QED
    BY <2>3, <2>4, <2>5, <2>6, <2>7
<1>. QED
  BY <1>1, <1>5, <1>6

\* Weeks go round: from a day whose number leaves w the next that leaves d.
DaysUntil(d, w) == IF (d - w) % 7 = 0 THEN 7 ELSE (d - w) % 7

LEMMA ComingWeekday ==
  ASSUME NEW t \in Int, NEW d \in 0..6
  PROVE  /\ DaysUntil(d, (t + 6) % 7) \in 1..7
         /\ (t + 6 + DaysUntil(d, (t + 6) % 7)) % 7 = d
<1>1. PICK w \in 0..6 : w = (t + 6) % 7
  OBVIOUS
<1>2. PICK q \in Int : t + 6 = 7 * q + w
  <2>1. (t + 6) \div 7 \in Int /\ t + 6 = 7 * ((t + 6) \div 7) + w
    BY <1>1
  <2>. QED
    BY <2>1
<1>3. (d - w) % 7 = IF d >= w THEN d - w ELSE d - w + 7
  BY <1>1
<1>4. PICK days \in 1..7 : days = DaysUntil(d, w)
  BY <1>1, <1>3 DEF DaysUntil
<1>5. w + days = d \/ w + days = d + 7
  BY <1>1, <1>3, <1>4 DEF DaysUntil
<1>6. (t + 6 + days) % 7 = d
  <2>1. CASE w + days = d
    <3>1. t + 6 + days = 7 * q + d
      BY <1>2, <2>1
    <3>. QED
      BY <3>1
  <2>2. CASE w + days = d + 7
    <3>1. t + 6 + days = 7 * (q + 1) + d
      BY <1>2, <2>2
    <3>. QED
      BY <3>1
  <2>. QED
    BY <1>5, <2>1, <2>2
<1>. QED
  BY <1>1, <1>4, <1>6

\* "tomorrow" is the day after, and a weekday the coming one, never today
\* (resolve_ptp_date).
THEOREM ComingDays ==
  ASSUME NEW ref, IsCalendarDate(ref), NEW said
  PROVE  /\ said.kind = "tomorrow" => ResolvePtpDate(said, ref) = Ordinal(NextDay(ref))
         /\ said.kind = "weekday" /\ said.day \in 0..6 =>
              /\ ResolvePtpDate(said, ref) - Ordinal(ref) \in 1..7
              /\ (ResolvePtpDate(said, ref) + 6) % 7 = said.day
<1>1. ASSUME said.kind = "tomorrow" PROVE ResolvePtpDate(said, ref) = Ordinal(NextDay(ref))
  BY <1>1, OrdinalsCountDays DEF ResolvePtpDate
<1>2. ASSUME said.kind = "weekday", said.day \in 0..6
      PROVE  /\ ResolvePtpDate(said, ref) - Ordinal(ref) \in 1..7
             /\ (ResolvePtpDate(said, ref) + 6) % 7 = said.day
  <2> DEFINE days == DaysUntil(said.day, Weekday(ref))
  <2>1. ResolvePtpDate(said, ref) = Ordinal(ref) + days
    BY <1>2 DEF ResolvePtpDate, DaysUntil
  <2>2. Ordinal(ref) \in Int
    <3>1. DaysBefore[ref.m] \in Int
      BY DateParts DEF DaysBefore
    <3>. QED
      BY <3>1, DateParts DEF Ordinal, ToOrdinal
  <2>3. days \in 1..7 /\ (Ordinal(ref) + 6 + days) % 7 = said.day
    BY <1>2, <2>2, ComingWeekday DEF Weekday
  <2> HIDE DEF days
  <2>4. ResolvePtpDate(said, ref) - Ordinal(ref) = days
    BY <2>1, <2>2, <2>3
  <2>5. ResolvePtpDate(said, ref) + 6 = Ordinal(ref) + 6 + days
    BY <2>1, <2>2, <2>3
  <2>6. (ResolvePtpDate(said, ref) + 6) % 7 = said.day
    BY <2>3, <2>5, Zenon
  <2>. QED
    BY <2>3, <2>4, <2>6
<1>. QED
  BY <1>1, <1>2

\* dateutil's reading of a numeral, where there is one and it has not passed, is
\* that of _resolve_day_of_month.
LEMMA NumeralToCome ==
  ASSUME NEW ref, IsCalendarDate(ref), NEW n, n \notin 1..ref.d - 1,
         IsDate(ref.y, ref.m, n)
  PROVE  ToOrdinal(ref.y, ref.m, n) = ResolveDayOfMonth(n, ref)
<1>1. /\ ref.m \in 1..12 /\ ref.y \in Int /\ ref.d \in 1..31
      /\ Year(ref, 0) = ref.y /\ Month(ref, 0) = ref.m
      /\ DaysIn(ref.y, ref.m) \in 28..31
  BY DateParts DEF Length
<1>2. n \in 1..31 /\ n >= ref.d
  BY <1>1 DEF IsDate
<1>3. ToOrdinal(ref.y, ref.m, n) >= Ordinal(ref)
  <2>1. DaysBefore[ref.m] \in Int
    BY <1>1 DEF DaysBefore
  <2>. QED
    BY <1>1, <1>2, <2>1 DEF Ordinal, ToOrdinal
<1>. QED
  BY <1>1, <1>2, <1>3, Zenon DEF ResolveDayOfMonth, Year, Month

\* A day number said, in words or as a numeral whose day has not passed, is the
\* first such day from the call on if this month or the next has it, and no
\* date otherwise, whatever day of whatever year the call was on: the
\* arithmetic of _resolve_day_of_month and dateutil's find the day a walk of the
\* calendar finds.
THEOREM SpokenDaysAreNext == Spec => []SpokenDayIsNext
<1> DEFINE OnCalendar == IsCalendarDate(day) /\ IsCalendarDate(today)
<1>1. Init => OnCalendar
  BY DispositionAssumption DEF Init
<1>2. OnCalendar /\ [Next]_vars => OnCalendar'
  BY OrdinalsCountDays DEF Next, Midnight, ApplyPostCall, DeadLetterInvalid, vars
<1>3. ASSUME OnCalendar PROVE SpokenDayIsNext
  <2> SUFFICES ASSUME NEW said, DayStillToCome(said, CallDay)
               PROVE  ResolvePtpDate(said, CallDay) = NextNamed(said.day, CallDay)
    BY DEF SpokenDayIsNext, NextNamed
  <2>1. IsCalendarDate(CallDay)
    BY <1>3 DEF CallDay
  <2>2. ResolveDayOfMonth(said.day, CallDay) = NextNamed(said.day, CallDay)
    BY <2>1, SpokenDay
  <2>3. CASE said.kind = "ordinal_word"
    BY <2>2, <2>3 DEF ResolvePtpDate, DateUtil, ParseSpokenDay
  <2>4. CASE said.kind = "numeric_ordinal" /\ said.day \notin 1..CallDay.d - 1
    BY <2>1, <2>2, <2>4, NumeralToCome
       DEF ResolvePtpDate, DateUtil, ParseSpokenDay
  <2>. QED
    BY <2>3, <2>4 DEF DayStillToCome
<1>. QED
  BY <1>1, <1>2, <1>3, PTL DEF Spec
=============================================================================

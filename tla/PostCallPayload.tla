---------------------------- MODULE PostCallPayload ----------------------------
(***************************************************************************)
(* PostCallWebhookPayload of app/models/schemas.py: how the body of a      *)
(* post-call webhook becomes the payload the service works with.           *)
(*                                                                         *)
(* The console nests its extraction under disposition_result and again     *)
(* under post_call_extraction_v2, and the times of the call under          *)
(* call_infra; a hand-built body has everything at the top level.  A field *)
(* is Absent, Blank (null or ""), or a value.  The fields that only travel *)
(* through are left out, and so are values of a wrong type.                *)
(***************************************************************************)
EXTENDS Naturals

CONSTANTS Absent, Blank

\* AliasChoices of stage_code, in the order in which they are looked for.
Aliases == <<"DISPOSITION", "disposition", "stage_code", "STAGE_CODE">>
CodeKey == {Aliases[i] : i \in DOMAIN Aliases}
Key == CodeKey \cup {"ptp_date"}

Empty == [k \in Key |-> Absent]
Filled(fields, k) == fields[k] \notin {Absent, Blank}

\* A body: its fields, the two copies of the extraction, whether it says when
\* the call began (a started that is an unreadable infra time is FALSE), how
\* the end in call_infra lies to that, whether it has a duration other than
\* zero at the top or in the extraction, and what identifies the call.
Body(fields, result, v2, started, infra, duration, conversation, call_id) ==
  [top |-> fields, disposition_result |-> result,
   post_call_extraction_v2 |-> v2, call_started_at |-> started,
   call_infra |-> infra, call_duration_seconds |-> duration,
   conversation_id |-> conversation, call_id |-> call_id]

\* call_infra.call_status: whether it has a start, and where the end lies.
Infra == [start: BOOLEAN, end: {"none", "after", "before"}]

IsBody(b) ==
  /\ b = Body(b.top, b.disposition_result, b.post_call_extraction_v2,
              b.call_started_at, b.call_infra, b.call_duration_seconds,
              b.conversation_id, b.call_id)
  /\ {b.call_started_at, b.call_duration_seconds, b.call_id} \subseteq BOOLEAN
  /\ b.call_infra \in Infra

\* Mutant: the second copy is not looked at.
ExtractionFirstOnly(b) == b.disposition_result

\* disposition_result or post_call_extraction_v2: an empty dict is no answer.
Extraction(b) ==
  IF b.disposition_result # Empty THEN b.disposition_result
                                  ELSE b.post_call_extraction_v2

\* A key of the extraction fills the key of the same name, if that is not set.
Flattened(b) ==
  [k \in Key |-> IF ~Filled(b.top, k) /\ Extraction(b)[k] # Absent
                   THEN Extraction(b)[k] ELSE b.top[k]]

\* The first alias that is there, filled or not.
StageCodeOf(fields) ==
  LET there == {i \in DOMAIN Aliases : fields[Aliases[i]] # Absent}
  IN  IF there = {} THEN Absent
      ELSE fields[Aliases[CHOOSE i \in there : \A j \in there : i <= j]]

Started(b) == b.call_started_at \/ b.call_infra.start

\* The duration computed from both times, where none is given, must not be
\* negative.
DurationOK(b) ==
  b.call_infra.start /\ ~b.call_duration_seconds => b.call_infra.end # "before"

\* conversation_id is required, though it may be blank next to a call_id.
IdentifierOK(b) ==
  b.conversation_id = "given" \/ (b.conversation_id = "blank" /\ b.call_id)

Valid(b) == DurationOK(b) /\ IdentifierOK(b)
=============================================================================

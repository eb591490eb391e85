------------------------ MODULE MCPostCallDisposition ------------------------
(* Small instances of PostCallDisposition for TLC. *)
EXTENDS PostCallDisposition

On(y, m, d) == [y |-> y, m |-> m, d |-> d]

\* Month ends of every length, the turn of a year, leap and common years; the
\* offsets, month days and day numbers sit on and around every limit.
MCDays ==
  {On(2026, 7, 29), On(2026, 9, 15), On(2026, 12, 31), On(2027, 1, 31),
   On(2027, 2, 28), On(2028, 1, 30), On(2028, 2, 28), On(2028, 2, 29)}
MCDateOffsets == {-1, 0, 1, 2, MaxDaysAhead, MaxDaysAhead + 1}
MCMonthDays == {<<1, 5>>, <<2, 29>>, <<12, 31>>}
MCDayNumbers == {0, 1, 15, 28, 29, 30, 31}

NoInfra == [start |-> FALSE, end |-> "none"]

\* Hand-built bodies: every code with everything that may be said.
Flat(date) ==
  {Body([Empty EXCEPT !["stage_code"] = code, !["ptp_date"] = said],
        Empty, Empty, started, NoInfra, FALSE, "given", FALSE) :
     code \in RawCode, said \in Said(date), started \in BOOLEAN}

\* Bodies with codes under two spellings and in either copy of the extraction.
Codes == {Absent, Blank, "PTP_TODAY", "OTHER"}
Today == [kind |-> "today"]
Nested(code, said) == [Empty EXCEPT !["DISPOSITION"] = code, !["ptp_date"] = said]
Layered ==
  {Body([Empty EXCEPT !["DISPOSITION"] = c, !["STAGE_CODE"] = d, !["ptp_date"] = s],
        Nested(e, Today), Nested(f, s), FALSE,
        [start |-> start, end |-> "after"], FALSE, "given", FALSE) :
     c \in Codes, d \in Codes, e \in Codes, f \in Codes, s \in {Absent, Today},
     start \in BOOLEAN}

\* Bodies that may fail validation.
Identified ==
  {Body(Empty, Nested("PTP_TODAY", Today), Empty, FALSE, infra, duration,
        conversation, id) :
     infra \in Infra, duration \in BOOLEAN,
     conversation \in {"missing", "blank", "given"}, id \in BOOLEAN}

MCBodies(date) ==
  Flat(date) \cup (IF date = On(2026, 9, 15) THEN Layered \cup Identified ELSE {})
=============================================================================

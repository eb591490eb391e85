----------------------------- MODULE CallListing -----------------------------
(***************************************************************************)
(* What the dashboard makes of the stored calls: list_calls of the         *)
(* repository, the seven filters and the rows of app/routers/dashboard.py, *)
(* the eight cards and the chart of app/services/metrics.py.  The page and *)
(* GET /api/v1/calls are built from the same listing.                      *)
(***************************************************************************)
EXTENDS Naturals, FiniteSets, FiniteSetsExt

CONSTANTS
  Call,        \* call ids
  NoFilter,    \* a filter left blank
  NoStage,     \* a call without an outcome
  ListLimit    \* list_calls: the newest calls it returns (500)

-----------------------------------------------------------------------------
(* Stage codes and their groups *)

PTP == {"PTP_TODAY", "PTP_TOMORROW", "PTP_FUTURE", "PTP_PARTIAL"}
ALREADY_PAID == {"ALREADY_PAID"}
REFUSAL_TO_PAY == {"RTP_FINANCIAL", "RTP_MEDICAL", "RTP_NO_REASON"}
DISPUTE == {"DISPUTE_PAID", "DISPUTE_CHARGES", "NO_LOAN"}
NON_CONNECT == {"RNR", "VM", "DSCN", "BUSY", "WRONG_NUMBER"}
Stage ==
  PTP \cup ALREADY_PAID \cup REFUSAL_TO_PAY \cup DISPUTE \cup NON_CONNECT
    \cup {"CALLBACK_SCHEDULED", "THIRD_PARTY", "UNCLEAR"}

\* Mutant: the codes listed by hand, one forgotten.
ConnectedByHand == Stage \ (NON_CONNECT \cup {"CALLBACK_SCHEDULED"})

CONNECTED == Stage \ NON_CONNECT

ASSUME ListingAssumption == ListLimit \in Nat /\ NoStage \notin Stage

CARD_GROUPS ==
  [ptp_calls |-> PTP, already_paid |-> ALREADY_PAID,
   refusal_to_pay |-> REFUSAL_TO_PAY, dispute |-> DISPUTE,
   non_connect |-> NON_CONNECT]

-----------------------------------------------------------------------------
(* The listing *)

\* A table row.  Days, languages, customers and loan accounts are any values:
\* they are only compared with what is asked for.
FilterField ==
  {"day", "status", "stage", "customer", "loan", "language", "ptp_day"}

\* The newest calls, whatever is asked for.
ListCalls(records) ==
  {r \in records :
     Cardinality({s \in records : s.created > r.created}) < ListLimit}

\* A filter gives for each field the values it accepts: the one asked for, or
\* the ids that contain the text asked for.
Matches(r, filter) ==
  \A k \in FilterField : filter[k] = NoFilter \/ r[k] \in filter[k]

Filtered(records, filter) == {r \in ListCalls(records) : Matches(r, filter)}

-----------------------------------------------------------------------------
(* Cards and chart *)

CountOf(rows, field, values) == Cardinality({r \in rows : r[field] \in values})

Summarise(rows) ==
  [total |-> Cardinality(rows),
   completed |-> CountOf(rows, "status", {"COMPLETED"}),
   connected |-> CountOf(rows, "stage", CONNECTED),
   groups |-> [label \in DOMAIN CARD_GROUPS |->
                 CountOf(rows, "stage", CARD_GROUPS[label])]]

\* The codes present, with their counts; the chart orders them by count.
StageDistribution(rows) ==
  [code \in {r.stage : r \in rows} \ {NoStage} |-> CountOf(rows, "stage", {code})]
=============================================================================

------------------------------ MODULE BulkUpload ------------------------------
(***************************************************************************)
(* POST /api/v1/calls/bulk (bulk_upload of app/routers/dashboard.py): the  *)
(* rows of a CSV file placed one after the other through the same initiate *)
(* as single requests, and competing with them for the trigger lock, while *)
(* greetings and webhooks of the calls already placed come in.             *)
(*                                                                         *)
(* The handler runs to its end although the client may have left: only the *)
(* death of the process stops it, and then nobody is told which rows were  *)
(* placed.  The client may upload again.                                   *)
(***************************************************************************)
EXTENDS CallLifecycle, Sequences

CONSTANT MaxRows     \* bound: rows of a file

ASSUME UploadAssumption == MaxRows \in Nat

\* A file is a sequence of rows, TRUE where InitialMessageRequest accepts the
\* row.
File == UNION {[1..n -> BOOLEAN] : n \in 0..MaxRows}

VARIABLES
  upload,     \* "idle", "rows", "reported", or "gone" with the process
  file,       \* the rows uploaded
  line,       \* the row being worked on
  current,    \* the call initiated for it, while initiate runs
  accepted,   \* call ids accepted, of the answer once reported
  rejected,   \* lines with an error, of the answer once reported
  placed      \* history: line -> the call initiated for it

handler == <<upload, file, line, current, accepted, rejected, placed>>
uploadVars == <<vars, handler>>

UploadTypeOK ==
  /\ upload \in {"idle", "rows", "reported", "gone"}
  /\ file \in File
  /\ line \in 1..MaxRows + 1
  /\ current \in CallId \cup {NoCall}
  /\ accepted \subseteq CallId
  /\ rejected \subseteq 1..MaxRows
  /\ placed \in [1..MaxRows -> CallId \cup {NoCall}]
  /\ current # NoCall => upload = "rows" /\ placed[line] = current

\* The local variables of a handler at its start, or of none.
Locals(f) ==
  /\ file' = f /\ line' = 1 /\ current' = NoCall
  /\ placed' = [i \in 1..MaxRows |-> NoCall]

UploadInit ==
  /\ Init
  /\ upload = "idle" /\ file = <<>> /\ line = 1 /\ current = NoCall
  /\ accepted = {} /\ rejected = {}
  /\ placed = [i \in 1..MaxRows |-> NoCall]

\* Calls the upload is still to create: the bound on calls leaves them room.
ToPlace(f, from) == Cardinality({i \in from..Len(f) : f[i]})
Reserved ==
  IF upload # "rows" THEN 0
  ELSE ToPlace(file, IF current = NoCall THEN line ELSE line + 1)

-----------------------------------------------------------------------------
(* The handler *)

\* A file that is not a .csv is refused before anything is read.  One file is
\* uploaded, and again if its answer never came.
StartUpload(f) ==
  /\ upload \in {"idle", "gone"}
  /\ clock + ToPlace(f, 1) <= MaxInitiated
  /\ upload' = "rows"
  /\ Locals(f)
  /\ accepted' = {} /\ rejected' = {}
  /\ UNCHANGED vars

\* new_call_id draws an id nobody has; which one makes no difference.
Fresh == {c \in CallId : req[c] = "unused"}
NewCallId == IF Fresh = {} THEN {} ELSE {CHOOSE c \in Fresh : TRUE}

AtRow == upload = "rows" /\ current = NoCall /\ line <= Len(file)

\* model_validate raises: the row is reported, the loop goes on.
RejectRow ==
  /\ AtRow /\ ~file[line]
  /\ rejected' = rejected \cup {line}
  /\ line' = line + 1
  /\ UNCHANGED <<vars, upload, file, current, accepted, placed>>

\* Mutant: a batch stores its calls and triggers them without the lock.
InitiateRowUnlocked(c, p) ==
  /\ AtRow /\ file[line]
  /\ req[c] = "unused" /\ clock < MaxInitiated
  /\ clock' = clock + 1
  /\ calls' = [calls EXCEPT ![c] = ApiRecord(p, clock + 1)]
  /\ stored' = stored \cup {c}
  /\ req' = [req EXCEPT ![c] = "precall"]
  /\ current' = c
  /\ placed' = [placed EXCEPT ![line] = c]
  /\ UNCHANGED <<ledger, dlq, task, gnani, applied, faults,
                 upload, file, line, accepted, rejected>>

InitiateRow(c, p) ==
  /\ AtRow /\ file[line]
  /\ Initiate(c, p)
  /\ current' = c
  /\ placed' = [placed EXCEPT ![line] = c]
  /\ UNCHANGED <<upload, file, line, accepted, rejected>>

\* How initiate ends: it returns the record, or it raises; a store operation
\* may make it raise even after the trigger was recorded.
Returned(c) == req[c] = "answered" /\ calls[c].response = "ok"
Raised(c) ==
  req[c] = "error" \/ (req[c] = "answered" /\ calls[c].response # "ok")

RowAccepted ==
  /\ current # NoCall /\ Returned(current)
  /\ accepted' = accepted \cup {current}
  /\ line' = line + 1 /\ current' = NoCall
  /\ UNCHANGED <<vars, upload, file, rejected, placed>>

\* Mutants: the call of a failed row stays the current one; only GnaniError is
\* caught; a failed call is reported by its id.
RowFailedKeepingCall ==
  /\ current # NoCall /\ Raised(current)
  /\ rejected' = rejected \cup {line}
  /\ line' = line + 1
  /\ UNCHANGED <<vars, upload, file, current, accepted, placed>>
RowFailedGnaniOnly ==
  /\ current # NoCall /\ req[current] = "answered" /\ Raised(current)
  /\ rejected' = rejected \cup {line}
  /\ line' = line + 1 /\ current' = NoCall
  /\ UNCHANGED <<vars, upload, file, accepted, placed>>
RowFailedAccepted ==
  /\ current # NoCall /\ Raised(current)
  /\ accepted' = accepted \cup {current}
  /\ line' = line + 1 /\ current' = NoCall
  /\ UNCHANGED <<vars, upload, file, rejected, placed>>

\* Whatever initiate raised, the row is reported and the loop goes on.
RowFailed ==
  /\ current # NoCall /\ Raised(current)
  /\ rejected' = rejected \cup {line}
  /\ line' = line + 1 /\ current' = NoCall
  /\ UNCHANGED <<vars, upload, file, accepted, placed>>

Report ==
  /\ upload = "rows" /\ line > Len(file)
  /\ upload' = "reported"
  /\ Locals(<<>>)
  /\ UNCHANGED <<vars, accepted, rejected>>

HandlerGoesOn ==
  \/ RejectRow
  \/ \E c \in NewCallId, p \in Phone : InitiateRow(c, p)
  \/ RowAccepted \/ RowFailed
  \/ Report

-----------------------------------------------------------------------------
(* Beside the upload *)

\* POST /api/Initial_Message of another client.
SingleRequest(c, p) ==
  /\ clock + Reserved < MaxInitiated
  /\ Initiate(c, p)
  /\ UNCHANGED handler

\* The process dies, and with it all the upload knew.
CrashDuringUpload ==
  /\ Crash
  /\ IF upload = "rows"
       THEN upload' = "gone" /\ accepted' = {} /\ rejected' = {} /\ Locals(<<>>)
       ELSE UNCHANGED handler

Beside ==
  /\ \/ \E c \in CallId : RequestGoesOn(c)
     \/ \E w \in Worker : HandlerNext(w)
     \/ GnaniNext
     \/ StoreFails
  /\ UNCHANGED handler

UploadNext ==
  \/ \E f \in File : StartUpload(f)
  \/ HandlerGoesOn
  \/ \E c \in NewCallId, p \in Phone : SingleRequest(c, p)
  \/ CrashDuringUpload
  \/ Beside

UploadSpec == UploadInit /\ [][UploadNext]_uploadVars

\* The event loop runs every ready coroutine, httpx bounds every request by a
\* timeout and the retries are bounded: a handler that began goes on to its
\* end.  Of the requests and the upload it is enough that one that can go on
\* does: each has finitely many steps.  Nothing makes Gnani deliver or an
\* operator start a call.
PlacingGoesOn ==
  \/ HandlerGoesOn
  \/ (\E c \in CallId : RequestGoesOn(c)) /\ UNCHANGED handler

FairUploadSpec ==
  /\ UploadSpec
  /\ WF_uploadVars(PlacingGoesOn)
  /\ \A w \in Worker : WF_uploadVars(HandlerNext(w) /\ UNCHANGED handler)

-----------------------------------------------------------------------------
(* Properties *)

\* Every line behind the handler is told in one way, and what is told of it is
\* what the store and Gnani have: an accepted call is stored, was triggered
\* and has not failed, then and after the report; a rejected line placed no
\* call, or one that is not stored as triggered, unless the store failed
\* initiate after the trigger was recorded: the one way in which a row is
\* reported as failed while its customer is called.
RaisedTriggered(c) == req[c] = "error" /\ faults > 0
Told(i) ==
  IF i \in rejected
    THEN /\ placed[i] \notin accepted
         /\ file[i] =>
              /\ placed[i] # NoCall
              /\ calls[placed[i]].response = "ok" => RaisedTriggered(placed[i])
    ELSE placed[i] \in accepted
ReportMatchesStore ==
  /\ \A i \in 1..line - 1 : Told(i)
  /\ \A c \in accepted :
       /\ c \in stored \cap posted /\ calls[c].response = "ok"
       /\ calls[c].status # "TRIGGER_FAILED"
  /\ upload = "rows" => Cardinality(accepted) + Cardinality(rejected) = line - 1

\* No upload stays among its rows for good: it gets to the end of its file,
\* through rows that are refused by validation, by Gnani or by an error nobody
\* thought of, while it waits for the trigger lock like everyone else.
UploadEnds == []<>(upload # "rows")

\* The rows of a file are ordinary requests: an upload adds nothing to what
\* the call lifecycle allows, and what is proved of that holds here.
UploadsAreRequests == Spec
=============================================================================

--------------------------- MODULE BulkUploadProofs ---------------------------
(***************************************************************************)
(* Proofs about BulkUpload, for every set of calls, every length of files, *)
(* both backends and any number of faults.                                 *)
(***************************************************************************)
EXTENDS BulkUpload, CallLifecycleProofs, FiniteSetTheorems, SequenceTheorems

\* The handler's own steps leave the lifecycle alone but for the call of a row,
\* which is a request like any other.
LEMMA HandlerStep == HandlerGoesOn => [Next]_vars
<1> SUFFICES ASSUME HandlerGoesOn PROVE [Next]_vars
  OBVIOUS
<1>1. CASE RejectRow
  BY <1>1 DEF RejectRow, vars
<1>2. CASE \E c \in NewCallId, p \in Phone : InitiateRow(c, p)
  <2>1. PICK c \in NewCallId, p \in Phone : InitiateRow(c, p)
    BY <1>2
  <2>2. c \in CallId
    BY DEF NewCallId, Fresh
  <2>3. InitiateNext(c)
    BY <2>1 DEF InitiateRow, InitiateNext
  <2> QED
    BY <2>2, <2>3 DEF Next
<1>3. CASE RowAccepted
  BY <1>3 DEF RowAccepted, vars
<1>4. CASE RowFailed
  BY <1>4 DEF RowFailed, vars
<1>5. CASE Report
  BY <1>5 DEF Report, vars
<1> QED
  BY <1>1, <1>2, <1>3, <1>4, <1>5 DEF HandlerGoesOn

LEMMA BesideStep == Beside => [Next]_vars
<1> SUFFICES ASSUME Beside PROVE [Next]_vars
  OBVIOUS
<1>1. CASE \E c \in CallId : RequestGoesOn(c)
  <2>1. PICK c \in CallId : RequestGoesOn(c)
    BY <1>1
  <2>2. InitiateNext(c)
    BY <2>1 DEF RequestGoesOn, InitiateNext
  <2> QED
    BY <2>2 DEF Next
<1>2. CASE \E w \in Worker : HandlerNext(w)
  BY <1>2 DEF Next
<1>3. CASE GnaniNext
  BY <1>3 DEF Next
<1>4. CASE StoreFails
  BY <1>4 DEF Next
<1> QED
  BY <1>1, <1>2, <1>3, <1>4 DEF Beside

LEMMA UploadStep == [UploadNext]_uploadVars => [Next]_vars
<1> SUFFICES ASSUME [UploadNext]_uploadVars PROVE [Next]_vars
  OBVIOUS
<1>1. CASE \E f \in File : StartUpload(f)
  BY <1>1 DEF StartUpload, vars
<1>2. CASE HandlerGoesOn
  BY <1>2, HandlerStep
<1>3. CASE \E c \in NewCallId, p \in Phone : SingleRequest(c, p)
  <2>1. PICK c \in NewCallId, p \in Phone : SingleRequest(c, p)
    BY <1>3
  <2>2. c \in CallId
    BY DEF NewCallId, Fresh
  <2>3. InitiateNext(c)
    BY <2>1 DEF SingleRequest, InitiateNext
  <2> QED
    BY <2>2, <2>3 DEF Next
<1>4. CASE CrashDuringUpload
  BY <1>4 DEF CrashDuringUpload, Next
<1>5. CASE Beside
  BY <1>5, BesideStep
<1>6. CASE UNCHANGED uploadVars
  BY <1>6 DEF uploadVars
<1> QED
  BY <1>1, <1>2, <1>3, <1>4, <1>5, <1>6 DEF UploadNext

\* An upload does nothing the call lifecycle does not allow: what
\* bulk_upload adds to initiate is only what it reports.
THEOREM UploadsAreRequestsHold == UploadSpec => UploadsAreRequests
<1>1. UploadInit => Init
  BY DEF UploadInit
<1> QED
  BY <1>1, UploadStep, PTL DEF UploadSpec, UploadsAreRequests, Spec

\* Hence the guarantees of the lifecycle hold during uploads: an event takes
\* effect on one call and once, whatever else is being placed, every event the
\* ledger has is accounted for, the sender of webhooks is promised what the inbox
\* promises, and the calls of a batch are correlated with conversations of their
\* own numbers.
THEOREM UploadsAreSafe ==
  UploadSpec => /\ [](OneCallPerEvent /\ LedgerAccounted /\ CorrelatedByPhone)
                /\ NeverReapplied /\ ImplementsInbox
BY UploadsAreRequestsHold, OneCallPerEventHolds, LedgerIsAccounted, CorrelationHolds,
   NeverReappliedHolds, InboxImplemented, PTL DEF UploadsAreRequests

-----------------------------------------------------------------------------
(* What an upload reports *)

\* How an initiate has come out shows in its record: ok only once the trigger
\* request was sent and its answer recorded, error whenever the status says so;
\* and a request that ended in an exception has an answer recorded only if the
\* store failed it after that.
OutcomeOK ==
  \A c \in CallId :
    /\ req[c] \in InTriggerLock
                   \cup {"lock", "placed", "failed", "recorded", "answered"} =>
         c \in stored
    /\ req[c] \in {"trigger", "placed"} => c \in posted
    /\ calls[c].response # "none" =>
         req[c] \in {"recorded", "answered", "error", "dead"}
    /\ calls[c].response # "none" /\ req[c] = "error" => faults > 0
    /\ calls[c].response # "none" => c \in stored
    /\ calls[c].response = "ok" => c \in posted
    /\ calls[c].status = "TRIGGER_FAILED" => calls[c].response = "error"

\* Calls of lines: each line its own, of an accepted row, up to the current one.
PlacedOK ==
  /\ line <= Len(file) + 1
  /\ upload # "rows" => file = <<>> /\ line = 1
  /\ current # NoCall => line <= Len(file)
  /\ \A i \in 1..MaxRows : placed[i] # NoCall =>
       /\ i <= line /\ (i = line => current # NoCall)
       /\ file[i] /\ req[placed[i]] # "unused"
  /\ \A i, j \in 1..MaxRows : placed[i] = placed[j] /\ placed[i] # NoCall => i = j

\* Requests whose outcome is final.
Settled(c) == req[c] \in {"answered", "error"}

\* What has been told, of which lines, and why it stays true.
ToldOK ==
  /\ IsFiniteSet(accepted) /\ IsFiniteSet(rejected)
  /\ upload = "rows" =>
       /\ rejected \subseteq 1..line - 1
       /\ \A c \in accepted : \E i \in 1..line - 1 : placed[i] = c
       /\ Cardinality(accepted) + Cardinality(rejected) = line - 1
  /\ \A c \in accepted : Returned(c)
  /\ \A i \in 1..line - 1 :
       /\ i \notin rejected => placed[i] \in accepted
       /\ i \in rejected /\ file[i] =>
            /\ placed[i] # NoCall /\ Settled(placed[i])
            /\ calls[placed[i]].response = "ok" => RaisedTriggered(placed[i])

UploadInv == UploadTypeOK /\ OutcomeOK /\ PlacedOK /\ ToldOK

LEMMA FileLength ==
  /\ \A f \in File : Len(f) \in 0..MaxRows
  /\ <<>> \in File /\ Len(<<>>) = 0
<1>1. ASSUME NEW f \in File PROVE Len(f) \in 0..MaxRows
  <2>1. PICK n \in 0..MaxRows : f \in [1..n -> BOOLEAN]
    BY DEF File
  <2>2. f \in Seq(BOOLEAN)
    BY <2>1, UploadAssumption, SeqDef
  <2>3. DOMAIN f = 1..Len(f) /\ Len(f) \in Nat /\ DOMAIN f = 1..n
    BY <2>1, <2>2, LenProperties
  <2>. QED
    BY <2>3, UploadAssumption
<1>2. <<>> \in [1..0 -> BOOLEAN] /\ Len(<<>>) = 0
  OBVIOUS
<1>. QED
  BY <1>1, <1>2, UploadAssumption DEF File

LEMMA InitUpload == UploadInit => UploadInv
<1>1. IsFiniteSet({}) /\ Cardinality({}) = 0
  BY FS_EmptySet
<1>. QED
  BY <1>1, FileLength, UploadAssumption, LifecycleAssumption
     DEF UploadInit, Init, UploadInv, UploadTypeOK, OutcomeOK, PlacedOK, ToldOK,
         AdoptedRecord, InTriggerLock, Settled

\* The steps of the lifecycle keep what a record says of its outcome ...
LEMMA NextOutcome ==
  ASSUME TypeInv, OutcomeOK, [Next]_vars
  PROVE  OutcomeOK'
<1> USE DEF TypeInv, TypeOK, OutcomeOK, InTriggerLock, store, gnani
<1>1. ASSUME NEW c \in CallId, InitiateNext(c) PROVE OutcomeOK'
  <2>1. CASE \E p \in Phone : Initiate(c, p)
    BY <1>1, <2>1 DEF Initiate, ApiRecord
  <2>2. CASE InsertCall(c)
    BY <2>2 DEF InsertCall
  <2>3. CASE AcquireTriggerLock(c)
    BY <2>3 DEF AcquireTriggerLock
  <2>4. CASE TriggerCall(c)
    BY <2>4 DEF TriggerCall
  <2>5. CASE RecordTriggered(c)
    BY <2>5 DEF RecordTriggered, Record
  <2>6. CASE RecordTriggerFailed(c)
    BY <2>6 DEF RecordTriggerFailed, Record
  <2>7. CASE AnswerRequest(c)
    BY <2>7 DEF AnswerRequest
  <2>. QED
    BY <1>1, <2>1, <2>2, <2>3, <2>4, <2>5, <2>6, <2>7 DEF InitiateNext
<1>2. ASSUME NEW w \in Worker, HandlerNext(w) PROVE OutcomeOK'
  <2>1. CASE GreetBind(w)
    BY <2>1 DEF GreetBind, TaskOK, Binding, Record
  <2>2. CASE ApplyPostCall(w)
    BY <2>2 DEF ApplyPostCall, StatusAfter, TaskOK, Binding, Record
  <2>3. ASSUME NEW c \in CallId, AdoptConsoleCall(w, c) PROVE OutcomeOK'
    BY <2>3 DEF AdoptConsoleCall, AdoptedRecord
  <2>4. CASE GreetFind(w) \/ GreetUnmatched(w) \/ RecordWebhookEvent(w) \/ PostFind(w)
             \/ DeadLetterPostCall(w)
    BY <2>4 DEF GreetFind, GreetUnmatched, RecordWebhookEvent, PostFind,
                DeadLetterPostCall
  <2>. QED
    BY <1>2, <2>1, <2>2, <2>3, <2>4 DEF HandlerNext, UnmatchedPostCall
<1>3. CASE GnaniNext
  BY <1>3 DEF GnaniNext, Dial, ConsoleDials, GreetingArrives, PostCallArrives
<1>4. CASE Crash
  BY <1>4 DEF Crash
<1>5. CASE StoreFails
  BY <1>5 DEF StoreFails
<1>6. CASE UNCHANGED vars
  BY <1>6 DEF vars
<1>. QED
  BY <1>1, <1>2, <1>3, <1>4, <1>5, <1>6 DEF Next

\* ... and an outcome that is final stays so.
Kept(c) ==
  /\ Settled(c)' /\ calls'[c].response = calls[c].response
  /\ RaisedTriggered(c) => RaisedTriggered(c)'
  /\ Returned(c) => Returned(c)'

LEMMA SettledKept ==
  ASSUME TypeInv, [Next]_vars, NEW c \in CallId, Settled(c)
  PROVE  Kept(c)
<1> USE DEF TypeInv, TypeOK, Kept, Settled, RaisedTriggered, Returned, store, gnani
<1>1. ASSUME NEW d \in CallId, InitiateNext(d)
      PROVE  Kept(c)
  <2>1. d # c
    BY <1>1 DEF InitiateNext, Initiate, InsertCall, AcquireTriggerLock, TriggerCall,
                InTriggerLock, RecordTriggered, RecordTriggerFailed, AnswerRequest
  <2>2. req'[c] = req[c] /\ calls'[c] = calls[c] /\ faults' = faults
    BY <1>1, <2>1
       DEF InitiateNext, Initiate, InsertCall, AcquireTriggerLock, TriggerCall,
           RecordTriggered, RecordTriggerFailed, AnswerRequest
  <2>. QED
    BY <2>2
<1>2. ASSUME NEW w \in Worker, HandlerNext(w)
      PROVE  Kept(c)
  <2>1. CASE GreetBind(w)
    BY <2>1 DEF GreetBind, Record
  <2>2. CASE ApplyPostCall(w)
    BY <2>2 DEF ApplyPostCall, Record
  <2>3. ASSUME NEW d \in CallId, AdoptConsoleCall(w, d)
        PROVE  Kept(c)
    BY <2>3 DEF AdoptConsoleCall
  <2>4. CASE GreetFind(w) \/ GreetUnmatched(w) \/ RecordWebhookEvent(w) \/ PostFind(w)
             \/ DeadLetterPostCall(w)
    BY <2>4 DEF GreetFind, GreetUnmatched, RecordWebhookEvent, PostFind,
                DeadLetterPostCall
  <2>. QED
    BY <1>2, <2>1, <2>2, <2>3, <2>4 DEF HandlerNext, UnmatchedPostCall
<1>3. CASE GnaniNext
  BY <1>3 DEF GnaniNext, Dial, ConsoleDials, GreetingArrives, PostCallArrives
<1>4. CASE Crash
  BY <1>4 DEF Crash
<1>5. CASE StoreFails
  BY <1>5 DEF StoreFails
<1>6. CASE UNCHANGED vars
  BY <1>6 DEF vars
<1>. QED
  BY <1>1, <1>2, <1>3, <1>4, <1>5, <1>6 DEF Next

\* What happens beside the handler changes nothing it has told or placed.
LEMMA BesideKeeps ==
  ASSUME TypeInv, UploadInv, [Next]_vars, UNCHANGED handler
  PROVE  UploadInv'
<1> USE DEF UploadInv
<1>1. UploadTypeOK'
  BY DEF UploadTypeOK, handler
<1>2. PlacedOK'
  <2>1. \A i \in 1..MaxRows : placed[i] # NoCall =>
          placed[i] \in CallId /\ req'[placed[i]] # "unused"
    BY NextFrame DEF Frame, PlacedOK, UploadTypeOK
  <2>. QED
    BY <2>1 DEF PlacedOK, handler
<1>3. ToldOK'
  <2>0. \A c \in CallId : Settled(c) => Kept(c)
    BY SettledKept
  <2>1. \A c \in accepted : Returned(c)'
    BY <2>0 DEF ToldOK, UploadTypeOK, Kept, Returned, Settled
  <2>2. \A i \in 1..line - 1 : i \in rejected /\ file[i] =>
          /\ placed[i] # NoCall /\ Settled(placed[i])'
          /\ calls'[placed[i]].response = "ok" => RaisedTriggered(placed[i])'
    <3> SUFFICES ASSUME NEW i \in 1..line - 1, i \in rejected, file[i]
                 PROVE  /\ placed[i] # NoCall /\ Settled(placed[i])'
                        /\ calls'[placed[i]].response = "ok" => RaisedTriggered(placed[i])'
      OBVIOUS
    <3>1. /\ placed[i] # NoCall /\ Settled(placed[i])
          /\ calls[placed[i]].response = "ok" => RaisedTriggered(placed[i])
      BY DEF ToldOK
    <3>2. i \in 1..MaxRows
      BY UploadAssumption DEF UploadTypeOK
    <3>3. placed[i] \in CallId
      BY <3>1, <3>2 DEF UploadTypeOK
    <3>4. placed' = placed
      BY DEF handler
    <3>. QED
      BY <2>0, <3>1, <3>3, <3>4 DEF Kept, Settled, RaisedTriggered
  <2>. QED
    BY <2>1, <2>2 DEF ToldOK, handler
<1>. QED
  BY <1>1, <1>2, <1>3, NextOutcome

\* An upload begins, or the process dies under it: nothing is told.
LEMMA NothingTold ==
  ASSUME TypeInv, OutcomeOK', NEW f \in File, Locals(f),
         upload' \in {"rows", "gone"}, upload' = "gone" => f = <<>>,
         accepted' = {}, rejected' = {}
  PROVE  UploadInv'
<1>1. IsFiniteSet({}) /\ Cardinality({}) = 0
  BY FS_EmptySet
<1>2. Len(f) \in 0..MaxRows
  BY FileLength
<1>3. UploadTypeOK' /\ PlacedOK'
  BY <1>2, UploadAssumption DEF Locals, UploadTypeOK, PlacedOK
<1>4. ToldOK'
  BY <1>1 DEF Locals, ToldOK
<1>. QED
  BY <1>3, <1>4 DEF UploadInv

\* Each step of the handler.
LEMMA RejectRowKeeps ==
  ASSUME TypeInv, UploadInv, RejectRow
  PROVE  UploadInv'
<1> USE DEF UploadInv, RejectRow, AtRow
<1>1. line \in 1..MaxRows
  BY FileLength, UploadAssumption DEF UploadTypeOK
<1>2. line \notin rejected /\ placed[line] = NoCall
  BY <1>1 DEF ToldOK, PlacedOK
<1>3. /\ IsFiniteSet(rejected')
      /\ Cardinality(rejected') = Cardinality(rejected) + 1
  BY <1>2, FS_AddElement DEF ToldOK
<1>4. UploadTypeOK'
  BY <1>1, UploadAssumption DEF UploadTypeOK
<1>5. OutcomeOK'
  BY DEF OutcomeOK, vars, store, gnani
<1>6. PlacedOK'
  BY <1>1, <1>2, FileLength DEF PlacedOK, UploadTypeOK, vars
<1>7. ToldOK'
  <2>1. Cardinality(accepted) \in Nat /\ Cardinality(rejected) \in Nat
    BY FS_CardinalityType DEF ToldOK
  <2>2. Cardinality(accepted') + Cardinality(rejected') = line' - 1
    BY <1>1, <1>3, <2>1 DEF ToldOK
  <2>3. \A i \in 1..line' - 1 : i # line => i \in 1..line - 1
    BY <1>1
  <2>. QED
    BY <1>1, <1>3, <2>2, <2>3 DEF ToldOK, Settled, RaisedTriggered, Returned, vars,
        store
<1>. QED
  BY <1>4, <1>5, <1>6, <1>7

LEMMA InitiateRowKeeps ==
  ASSUME TypeInv, UploadInv, NEW c \in NewCallId, NEW p \in Phone, InitiateRow(c, p)
  PROVE  UploadInv'
<1> USE DEF UploadInv, InitiateRow, AtRow
<1>1. line \in 1..MaxRows /\ c \in CallId /\ c # NoCall
  BY FileLength, UploadAssumption, LifecycleAssumption
     DEF UploadTypeOK, NewCallId, Fresh
<1>2. [Next]_vars
  <2>1. InitiateNext(c)
    BY DEF InitiateNext
  <2>. QED
    BY <1>1, <2>1 DEF Next
<1>3. /\ req[c] = "unused" /\ req' = [req EXCEPT ![c] = "insert"]
      /\ \A d \in CallId \ {c} : calls'[d] = calls[d]
  BY DEF Initiate, TypeInv, TypeOK
<1>4. UploadTypeOK'
  BY <1>1, UploadAssumption DEF UploadTypeOK
<1>5. PlacedOK'
  <2>1. \A i \in 1..MaxRows : placed[i] # NoCall =>
          i < line /\ placed[i] # c /\ req'[placed[i]] # "unused"
    BY <1>1, <1>3 DEF PlacedOK, UploadTypeOK, TypeInv, TypeOK
  <2>2. req'[c] # "unused"
    BY <1>1, <1>3 DEF TypeInv, TypeOK
  <2>. QED
    BY <1>1, <2>1, <2>2 DEF PlacedOK, UploadTypeOK
<1>6. ToldOK'
  <2>1. \A d \in accepted : d \in CallId \ {c} /\ Returned(d)'
    BY <1>1, <1>3 DEF ToldOK, UploadTypeOK, Returned, TypeInv, TypeOK
  <2>2. \A i \in 1..line - 1 : placed'[i] = placed[i] /\ i \in 1..MaxRows
    BY <1>1, UploadAssumption DEF UploadTypeOK
  <2>3. \A i \in 1..line - 1 : i \in rejected /\ file[i] =>
          /\ placed[i] # NoCall /\ Settled(placed[i])'
          /\ calls'[placed[i]].response = "ok" => RaisedTriggered(placed[i])'
    <3> SUFFICES ASSUME NEW i \in 1..line - 1, i \in rejected, file[i]
                 PROVE  /\ placed[i] # NoCall /\ Settled(placed[i])'
                        /\ calls'[placed[i]].response = "ok" => RaisedTriggered(placed[i])'
      OBVIOUS
    <3>1. /\ placed[i] # NoCall /\ Settled(placed[i])
          /\ calls[placed[i]].response = "ok" => RaisedTriggered(placed[i])
      BY DEF ToldOK
    <3>2. placed[i] \in CallId
      BY <2>2, <3>1 DEF UploadTypeOK
    <3>. QED
      <4>1. \A d \in CallId : Settled(d) => Kept(d)
        BY <1>2, SettledKept
      <4>2. placed'[i] = placed[i]
        BY <2>2
      <4>. QED
        BY <3>1, <3>2, <4>1, <4>2 DEF Kept, Settled, RaisedTriggered
  <2>. QED
    BY <2>1, <2>2, <2>3 DEF ToldOK
<1>. QED
  BY <1>2, <1>4, <1>5, <1>6, NextOutcome

LEMMA RowAcceptedKeeps ==
  ASSUME TypeInv, UploadInv, RowAccepted
  PROVE  UploadInv'
<1> USE DEF UploadInv, RowAccepted
<1>1. /\ upload = "rows" /\ current \in CallId /\ placed[line] = current
      /\ line \in 1..MaxRows /\ line <= Len(file) /\ current # NoCall
  BY FileLength, UploadAssumption DEF UploadTypeOK, PlacedOK
<1>2. current \notin accepted /\ line \notin rejected
  BY <1>1, UploadAssumption DEF ToldOK, PlacedOK, UploadTypeOK
<1>3. /\ IsFiniteSet(accepted')
      /\ Cardinality(accepted') = Cardinality(accepted) + 1
  BY <1>2, FS_AddElement DEF ToldOK
<1>4. UploadTypeOK'
  BY <1>1, UploadAssumption DEF UploadTypeOK
<1>5. OutcomeOK'
  BY DEF OutcomeOK, vars, store, gnani
<1>6. PlacedOK'
  BY <1>1, FileLength DEF PlacedOK, UploadTypeOK, vars
<1>7. ToldOK'
  <2>1. Cardinality(accepted) \in Nat /\ Cardinality(rejected) \in Nat
    BY FS_CardinalityType DEF ToldOK
  <2>2. Cardinality(accepted') + Cardinality(rejected') = line' - 1
    BY <1>1, <1>3, <2>1 DEF ToldOK
  <2>3. \A i \in 1..line' - 1 : i # line => i \in 1..line - 1
    BY <1>1
  <2>4. line \in 1..line' - 1 /\ \A i \in 1..line - 1 : i \in 1..line' - 1
    BY <1>1
  <2>5. /\ accepted' = accepted \cup {current} /\ line' = line + 1
        /\ UNCHANGED <<placed, file, req, calls, faults, rejected, upload>>
    BY DEF vars, store
  <2>6. \A c \in accepted' : Returned(c)'
    BY <2>5 DEF ToldOK, Returned
  <2>7. \A c \in accepted' : \E i \in 1..line' - 1 : placed'[i] = c
    BY <1>1, <2>4, <2>5 DEF ToldOK
  <2>8. \A i \in 1..line' - 1 :
          /\ i \notin rejected' => placed'[i] \in accepted'
          /\ i \in rejected' /\ file'[i] =>
               /\ placed'[i] # NoCall /\ Settled(placed[i])'
               /\ calls'[placed'[i]].response = "ok" => RaisedTriggered(placed[i])'
    BY <1>1, <1>2, <2>3, <2>5 DEF ToldOK, Settled, RaisedTriggered
  <2>. QED
    BY <1>1, <1>3, <2>2, <2>4, <2>5, <2>6, <2>7, <2>8 DEF ToldOK
<1>. QED
  BY <1>4, <1>5, <1>6, <1>7

LEMMA RowFailedKeeps ==
  ASSUME TypeInv, UploadInv, RowFailed
  PROVE  UploadInv'
<1> USE DEF UploadInv, RowFailed
<1>1. /\ upload = "rows" /\ current \in CallId /\ placed[line] = current
      /\ line \in 1..MaxRows /\ line <= Len(file) /\ current # NoCall
  BY FileLength, UploadAssumption DEF UploadTypeOK, PlacedOK
<1>2. /\ line \notin rejected /\ Settled(current)
      /\ calls[current].response = "ok" => RaisedTriggered(current)
  BY <1>1 DEF ToldOK, OutcomeOK, Raised, RaisedTriggered, Settled
<1>3. /\ IsFiniteSet(rejected')
      /\ Cardinality(rejected') = Cardinality(rejected) + 1
  BY <1>2, FS_AddElement DEF ToldOK
<1>4. UploadTypeOK'
  BY <1>1, UploadAssumption DEF UploadTypeOK
<1>5. OutcomeOK'
  BY DEF OutcomeOK, vars, store, gnani
<1>6. PlacedOK'
  BY <1>1, FileLength DEF PlacedOK, UploadTypeOK, vars
<1>7. ToldOK'
  <2>0. /\ accepted' = accepted /\ line' = line + 1 /\ rejected' = rejected \cup {line}
        /\ UNCHANGED <<placed, file, req, calls, faults>>
    BY DEF vars, store
  <2>1. /\ Cardinality(accepted) \in Nat /\ Cardinality(rejected) \in Nat
        /\ Cardinality(accepted) + Cardinality(rejected) = line - 1
    BY <1>1, FS_CardinalityType DEF ToldOK
  <2>2. Cardinality(accepted') + Cardinality(rejected') = line' - 1
    BY <1>1, <1>3, <2>0, <2>1
  <2>3. \A i \in 1..line' - 1 : i # line => i \in 1..line - 1
    BY <1>1
  <2>4. line \in 1..line' - 1 /\ \A i \in 1..line - 1 : i \in 1..line' - 1
    BY <1>1
  <2>5. /\ rejected' \subseteq 1..line' - 1
        /\ \A c \in accepted' : \E i \in 1..line' - 1 : placed'[i] = c
    BY <1>1, <2>0, <2>4 DEF ToldOK
  <2>6. \A c \in accepted' : Returned(c)'
    BY <2>0 DEF ToldOK, Returned
  <2>7. \A i \in 1..line' - 1 :
          /\ i \notin rejected' => placed'[i] \in accepted'
          /\ i \in rejected' /\ file'[i] =>
               /\ placed'[i] # NoCall /\ Settled(placed[i])'
               /\ calls'[placed'[i]].response = "ok" => RaisedTriggered(placed[i])'
    <3> SUFFICES ASSUME NEW i \in 1..line' - 1
                 PROVE  /\ i \notin rejected' => placed'[i] \in accepted'
                        /\ i \in rejected' /\ file'[i] =>
                             /\ placed'[i] # NoCall /\ Settled(placed[i])'
                             /\ calls'[placed'[i]].response = "ok" =>
                                  RaisedTriggered(placed[i])'
      OBVIOUS
    <3>1. CASE i = line
      BY <1>1, <1>2, <2>0, <3>1 DEF Settled, RaisedTriggered
    <3>2. CASE i \in 1..line - 1 /\ i # line
      BY <2>0, <3>2 DEF ToldOK, Settled, RaisedTriggered
    <3>. QED
      BY <2>3, <3>1, <3>2
  <2>. QED
    BY <1>3, <2>0, <2>2, <2>5, <2>6, <2>7 DEF ToldOK
<1>. QED
  BY <1>4, <1>5, <1>6, <1>7

LEMMA ReportKeeps ==
  ASSUME TypeInv, UploadInv, Report
  PROVE  UploadInv'
<1> USE DEF UploadInv, Report, Locals
<1>1. UploadTypeOK' /\ PlacedOK'
  BY FileLength, UploadAssumption DEF UploadTypeOK, PlacedOK
<1>2. ToldOK' /\ OutcomeOK'
  BY DEF ToldOK, OutcomeOK, Settled, RaisedTriggered, Returned, vars, store, gnani
<1>. QED
  BY <1>1, <1>2

LEMMA NextUpload ==
  ASSUME TypeInv, UploadInv, [UploadNext]_uploadVars
  PROVE  UploadInv'
<1>0. [Next]_vars /\ OutcomeOK'
  BY UploadStep, NextOutcome DEF UploadInv
<1>1. ASSUME NEW f \in File, StartUpload(f) PROVE UploadInv'
  BY <1>0, <1>1, NothingTold DEF StartUpload
<1>2. CASE HandlerGoesOn
  BY <1>2, RejectRowKeeps, InitiateRowKeeps, RowAcceptedKeeps, RowFailedKeeps,
     ReportKeeps DEF HandlerGoesOn
<1>3. CASE \E c \in NewCallId, p \in Phone : SingleRequest(c, p)
  BY <1>0, <1>3, BesideKeeps DEF SingleRequest
<1>4. CASE CrashDuringUpload
  BY <1>0, <1>4, BesideKeeps, NothingTold, FileLength DEF CrashDuringUpload
<1>5. CASE Beside
  BY <1>0, <1>5, BesideKeeps DEF Beside
<1>6. CASE UNCHANGED uploadVars
  BY <1>0, <1>6, BesideKeeps DEF uploadVars
<1>. QED
  BY <1>1, <1>2, <1>3, <1>4, <1>5, <1>6 DEF UploadNext

LEMMA UploadInvariance == UploadSpec => [](TypeInv /\ UploadInv)
<1>1. UploadInit => TypeInv /\ UploadInv
  BY InitTypes, InitUpload DEF UploadInit
<1>2. TypeInv /\ UploadInv /\ [UploadNext]_uploadVars => (TypeInv /\ UploadInv)'
  BY NextUpload, NextTypes, UploadStep
<1>. QED
  BY <1>1, <1>2, PTL DEF UploadSpec

\* The handler's variables stay in their types: above all, the call it waits
\* for is the one placed for its line, and no upload runs past its file.
THEOREM UploadTypesHold == UploadSpec => []UploadTypeOK
<1>1. UploadInv => UploadTypeOK
  BY DEF UploadInv
<1>. QED
  BY <1>1, UploadInvariance, PTL

\* Every row behind the handler is told once, and what is told of it agrees
\* with the store and with what Gnani was sent, while the rows go on and after
\* the report, whatever callbacks, other requests and faults come between.
THEOREM ReportIsTrue == UploadSpec => []ReportMatchesStore
<1>1. ASSUME UploadInv PROVE ReportMatchesStore
  <2> USE <1>1 DEF UploadInv
  <2>1. ASSUME NEW i \in 1..line - 1 PROVE Told(i)
    <3>1. i \in 1..MaxRows
      BY UploadAssumption DEF UploadTypeOK
    <3>2. CASE i \in rejected /\ file[i]
      BY <3>2 DEF ToldOK, Told, Returned, RaisedTriggered
    <3>3. CASE i \in rejected /\ ~file[i]
      BY <3>1, <3>3, LifecycleAssumption DEF ToldOK, PlacedOK, Told, UploadTypeOK
    <3>4. CASE i \notin rejected
      BY <3>4 DEF ToldOK, Told
    <3>. QED
      BY <3>2, <3>3, <3>4
  <2>2. ASSUME NEW c \in accepted
        PROVE  /\ c \in stored \cap posted /\ calls[c].response = "ok"
               /\ calls[c].status # "TRIGGER_FAILED"
    BY <2>2 DEF ToldOK, UploadTypeOK, OutcomeOK, Returned
  <2>3. upload = "rows" => Cardinality(accepted) + Cardinality(rejected) = line - 1
    BY DEF ToldOK
  <2>. QED
    BY <2>1, <2>2, <2>3 DEF ReportMatchesStore
<1>. QED
  BY <1>1, UploadInvariance, PTL
=============================================================================

-------------------------- MODULE CallLifecycleProofs --------------------------
(***************************************************************************)
(* Proofs about CallLifecycle, for every set of calls, conversations,      *)
(* numbers and workers, both backends, adoption on or off, and any number  *)
(* of faults.                                                              *)
(***************************************************************************)
EXTENDS CallLifecycle, TLAPS

-----------------------------------------------------------------------------
(* Types *)

TypeInv == TypeOK /\ TaskOK

LEMMA IdleTask == Idle \in Task
BY DEF Idle, Task, Step

\* What the handlers store: new records, and updates of one.
LEMMA NewRecords ==
  ASSUME NEW t \in Nat
  PROVE  /\ \A p \in Phone : ApiRecord(p, t) \in Record
         /\ \A v \in Conv \cup {NoConv} : AdoptedRecord(v, t) \in Record
BY DEF ApiRecord, AdoptedRecord, Record, Status

LEMMA RecordUpdates ==
  ASSUME NEW r \in Record
  PROVE  /\ [r EXCEPT !.response = "ok"] \in Record
         /\ [r EXCEPT !.status = "TRIGGER_FAILED", !.response = "error"] \in Record
         /\ \A v \in Conv :
              [r EXCEPT !.conv = v, !.status = "IN_PROGRESS"] \in Record
         /\ \A e \in Event, s \in Status :
              [r EXCEPT !.payload = e, !.status = s] \in Record
BY DEF Record, Status

LEMMA TaskUpdates ==
  ASSUME NEW t \in Task, NEW pc \in Step
  PROVE  /\ [t EXCEPT !.pc = pc] \in Task
         /\ \A c \in CallId, s \in Status :
              [t EXCEPT !.pc = pc, !.call = c, !.seen = s] \in Task
BY DEF Task

LEMMA InitTypes == Init => TypeInv
BY LifecycleAssumption
   DEF Init, TypeInv, TypeOK, TaskOK, Record, AdoptedRecord, Status, Progress,
       Idle, Task, Step, Claiming, Binding, Event

\* The steps of initiate() keep every record and progress in its type, and
\* leave the callbacks alone.
LEMMA RequestTypes ==
  ASSUME TypeInv, NEW c \in CallId, InitiateNext(c)
  PROVE  TypeInv'
<1> USE DEF TypeInv, TypeOK, TaskOK, Progress, store, gnani
<1>1. CASE \E p \in Phone : Initiate(c, p)
  BY <1>1, NewRecords DEF Initiate
<1>2. CASE InsertCall(c)
  BY <1>2 DEF InsertCall
<1>3. CASE AcquireTriggerLock(c)
  BY <1>3 DEF AcquireTriggerLock
<1>4. CASE TriggerCall(c)
  BY <1>4 DEF TriggerCall
<1>5. CASE RecordTriggered(c)
  <2>1. calls' \in [CallId -> Record]
    BY <1>5, RecordUpdates DEF RecordTriggered
  <2> QED BY <1>5, <2>1 DEF RecordTriggered
<1>6. CASE RecordTriggerFailed(c)
  <2>1. calls' \in [CallId -> Record]
    BY <1>6, RecordUpdates DEF RecordTriggerFailed
  <2> QED BY <1>6, <2>1 DEF RecordTriggerFailed
<1>7. CASE AnswerRequest(c)
  BY <1>7 DEF AnswerRequest
<1> QED BY <1>1, <1>2, <1>3, <1>4, <1>5, <1>6, <1>7 DEF InitiateNext

LEMMA LookupStored ==
  /\ \A v : FindCallByConversation(v) \subseteq stored
  /\ \A p : FindPendingCallByPhone(p) \subseteq stored
  /\ \A e : EchoedCallId(e) \subseteq stored
BY DEF FindCallByConversation, FindPendingCallByPhone, EchoedCallId

\* A lookup that finds nothing moves the task to a step that binds nothing;
\* one that finds a call keeps a stored one.
LEMMA LookupTypes ==
  ASSUME TypeInv, NEW w \in Worker, NEW found \in SUBSET stored,
         NEW hit \in Step \ {"post_record"},
         NEW miss \in Step \ (Binding \cup {"post_record"}),
         task[w].pc # "idle",
         hit \in Claiming \/ miss \in Claiming => task[w].pc \in Claiming,
         Lookup(w, found, hit, miss),
         UNCHANGED <<stored, ledger>>
  PROVE  task' \in [Worker -> Task] /\ TaskOK'
<1>1. CASE found # {}
  <2>1. PICK c \in found : task' = Holding(w, hit, c)
    BY <1>1 DEF Lookup
  <2>2. calls[c].status \in Status
    BY DEF TypeInv, TypeOK, Record
  <2>3. task' \in [Worker -> Task]
    BY <2>1, <2>2, TaskUpdates DEF Holding, TypeInv, TypeOK
  <2>4. TaskOK'
    BY <2>1 DEF Holding, TypeInv, TypeOK, TaskOK, Task, Claiming, Binding
  <2> QED BY <2>3, <2>4
<1>2. CASE found = {}
  <2>1. task' = Goto(w, miss)
    BY <1>2 DEF Lookup
  <2>2. task' \in [Worker -> Task]
    BY <2>1, TaskUpdates DEF Goto, TypeInv, TypeOK
  <2>3. TaskOK'
    BY <2>1 DEF Goto, TypeInv, TypeOK, TaskOK, Task, Claiming, Binding
  <2> QED BY <2>2, <2>3
<1> QED BY <1>1, <1>2

\* The steps of the two callbacks.
LEMMA HandlerTypes ==
  ASSUME TypeInv, NEW w \in Worker, HandlerNext(w)
  PROVE  TypeInv'
<1>1. CASE GreetFind(w)
  <2>1. task' \in [Worker -> Task] /\ TaskOK'
    BY <1>1, LookupTypes, LookupStored
       DEF GreetFind, store, Step, Binding, Claiming
  <2> QED BY <1>1, <2>1 DEF GreetFind, TypeInv, TypeOK, store, gnani
<1>2. CASE GreetBind(w)
  <2>1. task[w].conv \in Conv /\ task[w].call \in CallId
    BY <1>2 DEF GreetBind, TypeInv, TypeOK, TaskOK, Binding
  <2>2. calls' \in [CallId -> Record]
    BY <1>2, <2>1, RecordUpdates DEF GreetBind, TypeInv, TypeOK
  <2> QED BY <1>2, <2>2, IdleTask
          DEF GreetBind, TypeInv, TypeOK, TaskOK, Idle, Claiming, Binding, gnani
<1>3. CASE GreetUnmatched(w)
  BY <1>3, IdleTask
     DEF GreetUnmatched, TypeInv, TypeOK, TaskOK, Idle, Claiming, Binding, gnani
<1>4. CASE RecordWebhookEvent(w)
  <2>1. task[w].event \in Event
    BY <1>4 DEF RecordWebhookEvent, TypeInv, TaskOK
  <2>2. task' \in [Worker -> Task]
    <3>1. CASE task' = [task EXCEPT ![w] = Idle]
      BY <3>1, IdleTask DEF TypeInv, TypeOK
    <3>2. CASE task' = Goto(w, "post_find")
      BY <3>2, TaskUpdates DEF Goto, TypeInv, TypeOK, Step
    <3> QED BY <1>4, <3>1, <3>2 DEF RecordWebhookEvent
  <2>3. TaskOK'
    BY <1>4 DEF RecordWebhookEvent, Goto, TypeInv, TypeOK, TaskOK, Task, Idle,
                Claiming, Binding
  <2> QED BY <1>4, <2>1, <2>2, <2>3
          DEF RecordWebhookEvent, TypeInv, TypeOK, gnani
<1>5. CASE PostFind(w)
  <2>1. task' \in [Worker -> Task] /\ TaskOK'
    BY <1>5, LookupTypes, LookupStored
       DEF PostFind, store, Step, Binding, Claiming
  <2> QED BY <1>5, <2>1 DEF PostFind, TypeInv, TypeOK, store, gnani
<1>6. ASSUME NEW c \in CallId, AdoptConsoleCall(w, c) PROVE TypeInv'
  <2>1. task[w].conv \in Conv
    BY <1>6 DEF AdoptConsoleCall, TypeInv, TaskOK
  <2>2. calls' \in [CallId -> Record]
    BY <1>6, <2>1, NewRecords DEF AdoptConsoleCall, TypeInv, TypeOK
  <2>3. task' = [task EXCEPT ![w] =
           [task[w] EXCEPT !.pc = "post_adopted", !.call = c,
                           !.seen = "IN_PROGRESS"]]
    BY <1>6 DEF AdoptConsoleCall, TypeInv, TypeOK
  <2>4. task' \in [Worker -> Task]
    BY <2>3, TaskUpdates DEF TypeInv, TypeOK, Step, Status
  <2>5. TaskOK'
    BY <1>6, <2>3 DEF AdoptConsoleCall, TypeInv, TypeOK, TaskOK, Task,
                      Claiming, Binding
  <2> QED BY <1>6, <2>2, <2>4, <2>5
          DEF AdoptConsoleCall, TypeInv, TypeOK, Progress, gnani
<1>7. CASE DeadLetterPostCall(w)
  <2>1. task[w].event \in Event
    BY <1>7 DEF DeadLetterPostCall, TypeInv, TaskOK, Claiming
  <2> QED BY <1>7, <2>1, IdleTask
          DEF DeadLetterPostCall, TypeInv, TypeOK, TaskOK, Idle, Claiming,
              Binding, gnani
<1>8. CASE ApplyPostCall(w)
  <2>1. task[w].event \in Event /\ task[w].call \in CallId
    BY <1>8 DEF ApplyPostCall, TypeInv, TypeOK, TaskOK, Claiming, Binding
  <2>2. StatusAfter(w) \in Status
    BY <2>1 DEF StatusAfter, TypeInv, TypeOK, Record, Status
  <2>3. calls' \in [CallId -> Record]
    BY <1>8, <2>1, <2>2, RecordUpdates DEF ApplyPostCall, TypeInv, TypeOK
  <2> QED BY <1>8, <2>1, <2>3, IdleTask
          DEF ApplyPostCall, TypeInv, TypeOK, TaskOK, Idle, Claiming, Binding,
              gnani
<1> QED BY <1>1, <1>2, <1>3, <1>4, <1>5, <1>6, <1>7, <1>8 DEF HandlerNext, UnmatchedPostCall

\* Gnani and the faults.
LEMMA GnaniTypes ==
  ASSUME TypeInv, GnaniNext
  PROVE  TypeInv'
<1>1. ASSUME NEW c \in CallId, NEW v \in Conv, Dial(c, v) PROVE TypeInv'
  <2>1. calls[c].phone \in Phone \cup {BlankPhone}
    BY DEF TypeInv, TypeOK, Record
  <2> QED BY <1>1, <2>1 DEF Dial, TypeInv, TypeOK, TaskOK, store
<1>2. ASSUME NEW v \in Conv, NEW p \in ConsolePhones, ConsoleDials(v, p)
      PROVE  TypeInv'
  BY <1>2, LifecycleAssumption DEF ConsoleDials, TypeInv, TypeOK, TaskOK, store
<1>3. ASSUME NEW w \in Worker, NEW v \in Conv, GreetingArrives(w, v)
      PROVE  TypeInv'
  <2>1. [Idle EXCEPT !.pc = "greet_find", !.conv = v] \in Task
    BY DEF Idle, Task, Step
  <2> QED BY <1>3, <2>1
          DEF GreetingArrives, TypeInv, TypeOK, TaskOK, Idle, Claiming, Binding,
              store, gnani
<1>4. ASSUME NEW w \in Worker, NEW e \in Event, PostCallArrives(w, e)
      PROVE  TypeInv'
  <2>1. e.conv \in Conv
    BY DEF Event
  <2>2. [Idle EXCEPT !.pc = "post_record", !.conv = e.conv, !.event = e] \in Task
    BY <2>1 DEF Idle, Task, Step
  <2> QED BY <1>4, <2>1, <2>2
          DEF PostCallArrives, TypeInv, TypeOK, TaskOK, Idle, Claiming, Binding,
              store, gnani
<1> QED BY <1>1, <1>2, <1>3, <1>4 DEF GnaniNext

LEMMA FaultTypes ==
  ASSUME TypeInv, Crash \/ StoreFails
  PROVE  TypeInv'
<1>1. CASE Crash
  BY <1>1, IdleTask
     DEF Crash, TypeInv, TypeOK, TaskOK, Idle, Claiming, Binding, Progress,
         store, gnani
<1>2. CASE StoreFails
  BY <1>2, IdleTask
     DEF StoreFails, TypeInv, TypeOK, TaskOK, Idle, Claiming, Binding, Progress,
         store, gnani
<1> QED BY <1>1, <1>2

\* Every step preserves the types and what a handler holds at each step.
LEMMA NextTypes == TypeInv /\ [Next]_vars => TypeInv'
<1> SUFFICES ASSUME TypeInv, [Next]_vars PROVE TypeInv'
  OBVIOUS
<1>1. CASE UNCHANGED vars
  BY <1>1 DEF vars, store, gnani, TypeInv, TypeOK, TaskOK
<1> QED BY <1>1, RequestTypes, HandlerTypes, GnaniTypes, FaultTypes DEF Next

\* Every reachable state is well typed: the documents, the handlers' local
\* values and Gnani's conversations stay in their types on every path.
THEOREM TypeCorrect == Spec => []TypeOK
<1>1. TypeInv => TypeOK
  BY DEF TypeInv
<1> QED BY <1>1, InitTypes, NextTypes, PTL DEF Spec

-----------------------------------------------------------------------------
(* The inbox: one claim and one fate per event *)

ClaimInv == ClaimsOK /\ OneCallPerEvent /\ LedgerAccounted

LEMMA InitClaims == Init => ClaimInv
BY NoEventAssumption
   DEF Init, ClaimInv, ClaimsOK, OneCallPerEvent, LedgerAccounted, ClaimedBy,
       Resolved, DeadLettered, Idle, Claiming, AdoptedRecord

\* A step that touches neither the claims nor what became of the events: it
\* may only give a document that holds no payload.
Quiet ==
  /\ UNCHANGED <<ledger, applied, faults>>
  /\ \A e \in Event : DeadLettered(e)' <=> DeadLettered(e)
  /\ \A w \in Worker, e \in Event : ClaimedBy(w, e)' <=> ClaimedBy(w, e)
  /\ \A c \in CallId : calls'[c].payload \in {calls[c].payload, NoEvent}

LEMMA QuietClaims ==
  ASSUME TypeInv, ClaimInv, Quiet
  PROVE  ClaimInv' /\ \A e \in Event : Fate(e)' = Fate(e)
<1>1. \A e \in Event : Resolved(e)' <=> Resolved(e)
  BY DEF Quiet, Resolved
<1>2. ClaimsOK'
  BY <1>1, NoEventAssumption DEF Quiet, ClaimInv, ClaimsOK
<1>3. OneCallPerEvent'
  BY DEF Quiet, ClaimInv, OneCallPerEvent
<1>4. \A e \in Event :
        (\E w \in Worker : ClaimedBy(w, e))' <=> \E w \in Worker : ClaimedBy(w, e)
  BY DEF Quiet
<1>5. LedgerAccounted'
  BY <1>1, <1>4 DEF Quiet, ClaimInv, LedgerAccounted, TypeInv, TypeOK
<1>6. \A e \in Event : Fate(e)' = Fate(e)
  BY <1>4 DEF Quiet, Fate
<1> QED BY <1>2, <1>3, <1>5, <1>6 DEF ClaimInv

LEMMA RequestQuiet ==
  ASSUME TypeInv, NEW c \in CallId, InitiateNext(c)
  PROVE  Quiet
<1> USE DEF Quiet, TypeInv, TypeOK, DeadLettered, ClaimedBy, store, gnani
<1>1. CASE \E p \in Phone : Initiate(c, p)
  BY <1>1 DEF Initiate, ApiRecord
<1>2. CASE InsertCall(c)
  BY <1>2 DEF InsertCall
<1>3. CASE AcquireTriggerLock(c)
  BY <1>3 DEF AcquireTriggerLock
<1>4. CASE TriggerCall(c)
  BY <1>4 DEF TriggerCall
<1>5. CASE RecordTriggered(c)
  BY <1>5 DEF RecordTriggered, Record
<1>6. CASE RecordTriggerFailed(c)
  BY <1>6 DEF RecordTriggerFailed, Record
<1>7. CASE AnswerRequest(c)
  BY <1>7 DEF AnswerRequest
<1> QED BY <1>1, <1>2, <1>3, <1>4, <1>5, <1>6, <1>7 DEF InitiateNext

LEMMA LookupClaims ==
  ASSUME TypeInv, NEW w \in Worker, NEW found, NEW hit, NEW miss,
         hit \in Claiming <=> task[w].pc \in Claiming,
         miss \in Claiming <=> task[w].pc \in Claiming,
         Lookup(w, found, hit, miss)
  PROVE  \A u \in Worker, e \in Event : ClaimedBy(u, e)' <=> ClaimedBy(u, e)
<1>1. CASE \E c \in found : task' = Holding(w, hit, c)
  BY <1>1 DEF Holding, ClaimedBy, TypeInv, TypeOK, Task
<1>2. CASE task' = Goto(w, miss)
  BY <1>2 DEF Goto, ClaimedBy, TypeInv, TypeOK, Task
<1> QED BY <1>1, <1>2 DEF Lookup

LEMMA GnaniQuiet ==
  ASSUME TypeInv, GnaniNext
  PROVE  Quiet
<1> USE DEF Quiet, TypeInv, TypeOK, DeadLettered, ClaimedBy, store, gnani
<1>1. ASSUME NEW c \in CallId, NEW v \in Conv, Dial(c, v) PROVE Quiet
  BY <1>1 DEF Dial
<1>2. ASSUME NEW v \in Conv, NEW p \in ConsolePhones, ConsoleDials(v, p)
      PROVE  Quiet
  BY <1>2 DEF ConsoleDials
<1>3. ASSUME NEW w \in Worker, NEW v \in Conv, GreetingArrives(w, v) PROVE Quiet
  BY <1>3 DEF GreetingArrives, Idle, Claiming
<1>4. ASSUME NEW w \in Worker, NEW e \in Event, PostCallArrives(w, e) PROVE Quiet
  BY <1>4 DEF PostCallArrives, Idle, Claiming
<1> QED BY <1>1, <1>2, <1>3, <1>4 DEF GnaniNext

LEMMA HandlerQuiet ==
  ASSUME TypeInv, NEW w \in Worker,
         \/ GreetFind(w) \/ GreetBind(w) \/ GreetUnmatched(w) \/ PostFind(w)
         \/ \E c \in CallId : AdoptConsoleCall(w, c)
         \/ RecordWebhookEvent(w) /\ task[w].event \in ledger
  PROVE  Quiet
<1> USE DEF Quiet, TypeInv, TypeOK, DeadLettered, store, gnani
<1>1. CASE GreetFind(w)
  <2>1. \A u \in Worker, e \in Event : ClaimedBy(u, e)' <=> ClaimedBy(u, e)
    BY <1>1, LookupClaims DEF GreetFind, Claiming
  <2> QED BY <1>1, <2>1 DEF GreetFind
<1>2. CASE GreetBind(w)
  BY <1>2 DEF GreetBind, ClaimedBy, Claiming, Idle, Record
<1>3. CASE GreetUnmatched(w)
  BY <1>3 DEF GreetUnmatched, ClaimedBy, Claiming, Idle
<1>4. CASE PostFind(w)
  <2>1. \A u \in Worker, e \in Event : ClaimedBy(u, e)' <=> ClaimedBy(u, e)
    BY <1>4, LookupClaims DEF PostFind, Claiming
  <2> QED BY <1>4, <2>1 DEF PostFind
<1>5. ASSUME NEW c \in CallId, AdoptConsoleCall(w, c) PROVE Quiet
  <2>1. task' = [task EXCEPT ![w] =
           [task[w] EXCEPT !.pc = "post_adopted", !.call = c,
                           !.seen = "IN_PROGRESS"]]
    BY <1>5 DEF AdoptConsoleCall
  <2>2. /\ task[w].pc = "post_unknown" /\ task'[w].pc = "post_adopted"
        /\ task'[w].event = task[w].event
        /\ \A u \in Worker : u # w => task'[u] = task[u]
    <3>1. task[w].pc = "post_unknown" /\ task[w] \in Task
      BY <1>5 DEF AdoptConsoleCall
    <3>2. task'[w] = [task[w] EXCEPT !.pc = "post_adopted", !.call = c,
                                     !.seen = "IN_PROGRESS"]
      BY <2>1
    <3>3. \A u \in Worker : u # w => task'[u] = task[u]
      BY <2>1
    <3> HIDE DEF TypeInv, TypeOK
    <3> QED BY <3>1, <3>2, <3>3 DEF Task
  <2>3. \A u \in Worker, e \in Event : ClaimedBy(u, e)' <=> ClaimedBy(u, e)
    BY <2>2 DEF ClaimedBy, Claiming
  <2>4. PICK t \in 0..clock :
          calls' = [calls EXCEPT ![c] = AdoptedRecord(task[w].conv, t)]
    BY <1>5 DEF AdoptConsoleCall
  <2>5. \A d \in CallId : calls'[d].payload \in {calls[d].payload, NoEvent}
    BY <2>4 DEF AdoptedRecord
  <2> QED BY <1>5, <2>3, <2>5 DEF AdoptConsoleCall
<1>6. CASE RecordWebhookEvent(w) /\ task[w].event \in ledger
  BY <1>6 DEF RecordWebhookEvent, ClaimedBy, Claiming, Idle
<1> QED BY <1>1, <1>2, <1>3, <1>4, <1>5, <1>6

\* A first delivery claims its event.
LEMMA ClaimStep ==
  ASSUME TypeInv, ClaimInv, NEW w \in Worker, RecordWebhookEvent(w),
         task[w].event \notin ledger
  PROVE  /\ ClaimInv'
         /\ Fate(task[w].event) = "new"
         /\ \A e \in Event :
              Fate(e)' = IF e = task[w].event THEN "claimed" ELSE Fate(e)
<1> DEFINE d == task[w].event
<1>1. /\ d \in Event /\ ledger' = ledger \cup {d}
      /\ UNCHANGED <<calls, dlq, applied, faults>>
  BY DEF RecordWebhookEvent, TypeInv, TaskOK
<1>2. \A u \in Worker, e \in Event :
        ClaimedBy(u, e)' <=> ClaimedBy(u, e) \/ (u = w /\ e = d)
  BY DEF RecordWebhookEvent, Goto, ClaimedBy, Claiming, TypeInv, TypeOK, Task
<1>3. \A e \in Event :
        /\ Resolved(e)' <=> Resolved(e)
        /\ DeadLettered(e)' <=> DeadLettered(e)
  BY <1>1 DEF Resolved, DeadLettered
<1>4. ~Resolved(d) /\ \A u \in Worker : ~ClaimedBy(u, d)
  BY <1>1 DEF ClaimInv, ClaimsOK
<1>5. ClaimsOK'
  BY <1>1, <1>2, <1>3, <1>4 DEF ClaimInv, ClaimsOK
<1>6. OneCallPerEvent'
  BY <1>1 DEF ClaimInv, OneCallPerEvent
<1>7. LedgerAccounted'
  BY <1>1, <1>2, <1>3 DEF ClaimInv, LedgerAccounted, TypeInv, TypeOK
<1>8. Fate(d) = "new"
  BY DEF Fate
<1>9. \A e \in Event :
        Fate(e)' = IF e = task[w].event THEN "claimed" ELSE Fate(e)
  <2> SUFFICES ASSUME NEW e \in Event
               PROVE  Fate(e)' = IF e = d THEN "claimed" ELSE Fate(e)
    OBVIOUS
  <2>1. CASE e = d
    BY <1>1, <1>2, <1>3, <1>4, <2>1 DEF Fate, Resolved
  <2>2. CASE e # d
    <3>1. (\E u \in Worker : ClaimedBy(u, e))' <=> \E u \in Worker : ClaimedBy(u, e)
      BY <1>2, <2>2
    <3> QED BY <1>1, <1>3, <2>2, <3>1 DEF Fate
  <2> QED BY <2>1, <2>2
<1> QED BY <1>5, <1>6, <1>7, <1>8, <1>9 DEF ClaimInv

\* The holder of a claim ends it in one of two ways.
LEMMA ResolveStep ==
  ASSUME TypeInv, ClaimInv, NEW w \in Worker,
         ApplyPostCall(w) \/ DeadLetterPostCall(w)
  PROVE  /\ ClaimInv'
         /\ task[w].event \in Event /\ Fate(task[w].event) = "claimed"
         /\ \E f \in {"applied", "dead_lettered"} : \A e \in Event :
              Fate(e)' = IF e = task[w].event THEN f ELSE Fate(e)
         /\ UNCHANGED faults
         /\ task[w].event \notin applied
         /\ \A c \in CallId :
              calls'[c].payload \in {calls[c].payload, task[w].event}
<1>0. PICK d \in Event : d = task[w].event
  BY DEF ApplyPostCall, DeadLetterPostCall, Claiming, TypeInv, TaskOK
<1>1. /\ d = task[w].event /\ ClaimedBy(w, d) /\ task' = [task EXCEPT ![w] = Idle]
      /\ UNCHANGED <<ledger, faults>>
  BY <1>0 DEF ApplyPostCall, DeadLetterPostCall, ClaimedBy, Claiming
<1>2. d \in ledger /\ d \notin applied /\ ~DeadLettered(d)
  BY <1>1 DEF ClaimInv, ClaimsOK, Resolved
<1>3. \A u \in Worker, e \in Event :
        ClaimedBy(u, e)' <=> ClaimedBy(u, e) /\ e # d
  <2>1. \A u \in Worker : u # w => task'[u] = task[u]
    BY <1>1 DEF TypeInv, TypeOK
  <2>2. task'[w].pc = "idle" /\ task[w].pc \in Claiming
    BY <1>1 DEF TypeInv, TypeOK, Idle, ClaimedBy
  <2>3. \A u \in Worker : ClaimedBy(u, d) => u = w
    BY <1>1 DEF ClaimInv, ClaimsOK
  <2> QED BY <1>0, <2>1, <2>2, <2>3 DEF ClaimedBy, Claiming
<1>4. PICK f \in {"applied", "dead_lettered"} :
        /\ applied' = IF f = "applied" THEN applied \cup {d} ELSE applied
        /\ \A e \in Event :
             DeadLettered(e)' <=> DeadLettered(e) \/ (f = "dead_lettered" /\ e = d)
        /\ \A c \in CallId :
             \/ calls'[c].payload = calls[c].payload
             \/ f = "applied" /\ c = task[w].call /\ calls'[c].payload = d
  <2>1. CASE ApplyPostCall(w)
    <3> DEFINE k == task[w].call
               r == [calls[k] EXCEPT !.payload = d, !.status = StatusAfter(w)]
    <3>1. k \in CallId /\ calls[k] \in Record
      BY <2>1 DEF ApplyPostCall, TypeInv, TypeOK, TaskOK, Binding
    <3>2. r.payload = d
      BY <3>1 DEF Record
    <3>3. calls' = [calls EXCEPT ![k] = r]
      BY <1>0, <2>1 DEF ApplyPostCall
    <3>4. \A c \in CallId :
            \/ calls'[c].payload = calls[c].payload
            \/ c = k /\ calls'[c].payload = d
      BY <3>1, <3>2, <3>3 DEF TypeInv, TypeOK
    <3>5. applied' = applied \cup {d} /\ UNCHANGED dlq
      BY <1>0, <2>1 DEF ApplyPostCall
    <3>6. \A e \in Event : DeadLettered(e)' <=> DeadLettered(e)
      BY <3>5 DEF DeadLettered
    <3> WITNESS "applied" \in {"applied", "dead_lettered"}
    <3> QED BY <1>0, <3>4, <3>5, <3>6
  <2>2. CASE DeadLetterPostCall(w)
    <3>1. dlq' = dlq \cup {<<"post_call_unmatched", d>>} /\ UNCHANGED <<applied, calls>>
      BY <1>0, <2>2 DEF DeadLetterPostCall
    <3> QED BY <3>1 DEF DeadLettered
  <2> QED BY <2>1, <2>2
<1>5. \A e \in Event : e # d =>
        (Resolved(e)' <=> Resolved(e)) /\ (DeadLettered(e)' <=> DeadLettered(e))
          /\ (e \in applied' <=> e \in applied)
  BY <1>4 DEF Resolved
<1>6. Resolved(d)' /\ ~(d \in applied' /\ DeadLettered(d)')
  BY <1>1, <1>2, <1>4 DEF Resolved
<1>7. ClaimsOK'
  BY <1>1, <1>2, <1>3, <1>4, <1>5, <1>6, NoEventAssumption DEF ClaimInv, ClaimsOK
<1>8. OneCallPerEvent'
  BY <1>1, <1>2, <1>4 DEF ClaimInv, ClaimsOK, OneCallPerEvent
<1>9. LedgerAccounted'
  BY <1>1, <1>3, <1>5, <1>6
     DEF ClaimInv, LedgerAccounted, TypeInv, TypeOK
<1>10. Fate(d) = "claimed"
  BY <1>1, <1>2 DEF Fate
<1>11. \A e \in Event : Fate(e)' = IF e = d THEN f ELSE Fate(e)
  <2> SUFFICES ASSUME NEW e \in Event
               PROVE  Fate(e)' = IF e = d THEN f ELSE Fate(e)
    OBVIOUS
  <2>1. CASE e = d
    BY <1>1, <1>2, <1>4, <2>1 DEF Fate
  <2>2. CASE e # d
    <3>1. (\E u \in Worker : ClaimedBy(u, e))' <=> \E u \in Worker : ClaimedBy(u, e)
      BY <1>3, <2>2
    <3> QED BY <1>1, <1>5, <2>2, <3>1 DEF Fate
  <2> QED BY <2>1, <2>2
<1> QED BY <1>1, <1>2, <1>4, <1>7, <1>8, <1>9, <1>10, <1>11 DEF ClaimInv

\* A fault drops claims and nothing else.
LEMMA FaultStep ==
  ASSUME TypeInv, ClaimInv, Crash \/ StoreFails
  PROVE  /\ ClaimInv'
         /\ faults < MaxFaults /\ faults' = faults + 1
         /\ UNCHANGED <<calls, applied>>
         /\ \A e \in Event :
              Fate(e)' = Fate(e) \/ (Fate(e) = "claimed" /\ Fate(e)' = "lost")
<1>1. /\ faults < MaxFaults /\ faults' = faults + 1
      /\ UNCHANGED <<calls, ledger, dlq, applied>>
  BY DEF Crash, StoreFails, store
<1>2. \A w \in Worker, e \in Event : ClaimedBy(w, e)' => ClaimedBy(w, e)
  <2>1. \A w \in Worker : task'[w] \in {task[w], Idle}
    BY DEF Crash, StoreFails, TypeInv, TypeOK
  <2> QED BY <2>1 DEF ClaimedBy, Claiming, Idle
<1>3. \A e \in Event :
        /\ Resolved(e)' <=> Resolved(e)
        /\ DeadLettered(e)' <=> DeadLettered(e)
  BY <1>1 DEF Resolved, DeadLettered
<1>4. ClaimsOK'
  BY <1>1, <1>2, <1>3 DEF ClaimInv, ClaimsOK
<1>5. OneCallPerEvent'
  BY <1>1 DEF ClaimInv, OneCallPerEvent
<1>6. LedgerAccounted'
  BY <1>1 DEF LedgerAccounted, TypeInv, TypeOK
<1>7. ASSUME NEW e \in Event
      PROVE  Fate(e)' = Fate(e) \/ (Fate(e) = "claimed" /\ Fate(e)' = "lost")
  <2>1. (\E w \in Worker : ClaimedBy(w, e))' => \E w \in Worker : ClaimedBy(w, e)
    BY <1>2
  <2> QED BY <1>1, <1>3, <2>1 DEF Fate
<1> QED BY <1>1, <1>4, <1>5, <1>6, <1>7 DEF ClaimInv

LEMMA NextClaims == TypeInv /\ ClaimInv /\ [Next]_vars => ClaimInv'
<1> SUFFICES ASSUME TypeInv, ClaimInv, [Next]_vars PROVE ClaimInv'
  OBVIOUS
<1>1. CASE Quiet
  BY <1>1, QuietClaims
<1>2. CASE UNCHANGED vars
  <2>1. Quiet
    BY <1>2 DEF Quiet, vars, store, gnani, ClaimedBy, DeadLettered
  <2> QED BY <2>1, QuietClaims
<1>3. ASSUME NEW w \in Worker, HandlerNext(w) PROVE ClaimInv'
  BY <1>3, <1>1, HandlerQuiet, ClaimStep, ResolveStep DEF HandlerNext, UnmatchedPostCall
<1> QED BY <1>1, <1>2, <1>3, RequestQuiet, GnaniQuiet, FaultStep DEF Next

THEOREM Invariance == Spec => [](TypeInv /\ ClaimInv)
BY InitTypes, InitClaims, NextTypes, NextClaims, PTL DEF Spec

\* Retries of one webhook neither complete nor adopt two calls.
THEOREM OneCallPerEventHolds == Spec => []OneCallPerEvent
BY Invariance, PTL DEF ClaimInv

\* While nothing crashes, a recorded event is applied, dead-lettered or in
\* the hands of a handler.
THEOREM LedgerIsAccounted == Spec => []LedgerAccounted
BY Invariance, PTL DEF ClaimInv

\* Applying a disposition is the only step that gives a document a payload, and
\* its handler holds the only claim of an event not applied before.
THEOREM NeverReappliedHolds == Spec => NeverReapplied
<1> DEFINE Fresh == \A c \in CallId, e \in Event :
             calls'[c].payload = e /\ calls[c].payload # e => e \notin applied
<1>1. TypeInv /\ ClaimInv /\ [Next]_vars => [Fresh]_vars
  <2> SUFFICES ASSUME TypeInv, ClaimInv, Next PROVE Fresh
    OBVIOUS
  <2>1. CASE Quiet
    BY <2>1, NoEventAssumption DEF Quiet
  <2>2. ASSUME NEW w \in Worker, HandlerNext(w) PROVE Fresh
    <3>1. CASE ApplyPostCall(w) \/ DeadLetterPostCall(w)
      BY <3>1, ResolveStep
    <3>2. CASE RecordWebhookEvent(w)
      BY <3>2 DEF RecordWebhookEvent
    <3> QED BY <2>1, <2>2, <3>1, <3>2, HandlerQuiet DEF HandlerNext, UnmatchedPostCall
  <2>3. CASE Crash \/ StoreFails
    BY <2>3, FaultStep
  <2> QED BY <2>1, <2>2, <2>3, RequestQuiet, GnaniQuiet DEF Next
<1> QED BY <1>1, Invariance, PTL DEF Spec, NeverReapplied

\* The flows implement the inbox: a first delivery claims its event, applying
\* or dead-lettering resolves it, a fault loses the claims it hits, and every
\* other step is invisible to the sender of the webhook.
fateOf == [e \in Event |-> Fate(e)]

LEMMA InboxInit == Init => Inbox!Init
BY DEF Init, Inbox!Init, Fate

LEMMA InboxStep ==
  TypeInv /\ ClaimInv /\ [Next]_vars => [Inbox!Next]_<<fateOf, faults>>
<1> SUFFICES ASSUME TypeInv, ClaimInv, [Next]_vars
             PROVE  Inbox!Next \/ UNCHANGED <<fateOf, faults>>
  OBVIOUS
<1>1. CASE Quiet
  BY <1>1, QuietClaims DEF Quiet, fateOf
<1>2. CASE UNCHANGED vars
  <2>1. Quiet
    BY <1>2 DEF Quiet, vars, store, gnani, ClaimedBy, DeadLettered
  <2> QED BY <1>1, <2>1
<1>3. ASSUME NEW w \in Worker, RecordWebhookEvent(w), task[w].event \notin ledger
      PROVE  Inbox!Next
  <2>1. PICK d \in Event : d = task[w].event
    BY <1>3 DEF RecordWebhookEvent, TypeInv, TaskOK
  <2>2. fateOf[d] = "new" /\ fateOf' = [fateOf EXCEPT ![d] = "claimed"]
    BY <1>3, <2>1, ClaimStep DEF fateOf
  <2>3. UNCHANGED faults
    BY <1>3 DEF RecordWebhookEvent
  <2>4. Inbox!Claim(d)
    BY <2>2, <2>3 DEF Inbox!Claim, fateOf
  <2> QED BY <2>1, <2>4 DEF Inbox!Next
<1>4. ASSUME NEW w \in Worker, ApplyPostCall(w) \/ DeadLetterPostCall(w)
      PROVE  Inbox!Next
  <2>1. PICK d \in Event : d = task[w].event
    BY <1>4, ResolveStep
  <2>2. PICK f \in {"applied", "dead_lettered"} : \A e \in Event :
          Fate(e)' = IF e = d THEN f ELSE Fate(e)
    BY <1>4, <2>1, ResolveStep
  <2>3. fateOf[d] = "claimed" /\ fateOf' = [fateOf EXCEPT ![d] = f]
    BY <1>4, <2>1, <2>2, ResolveStep DEF fateOf
  <2>4. Inbox!Resolve(d)
    BY <1>4, <2>3, ResolveStep DEF Inbox!Resolve, fateOf
  <2> QED BY <2>1, <2>4 DEF Inbox!Next
<1>5. CASE Crash \/ StoreFails
  <2> DEFINE hit == {e \in Event : fateOf[e] = "claimed" /\ fateOf'[e] = "lost"}
  <2>1. fateOf' = [e \in Event |-> IF e \in hit THEN "lost" ELSE fateOf[e]]
    BY <1>5, FaultStep DEF fateOf
  <2>2. hit \in SUBSET {e \in Event : fateOf[e] = "claimed"}
    OBVIOUS
  <2>3. faults < MaxFaults /\ faults' = faults + 1
    BY <1>5, FaultStep
  <2> HIDE DEF hit
  <2>4. Inbox!Fault
    BY <2>1, <2>2, <2>3 DEF Inbox!Fault, fateOf
  <2> QED BY <2>4 DEF Inbox!Next
<1>6. ASSUME NEW w \in Worker, HandlerNext(w)
      PROVE  Inbox!Next \/ UNCHANGED <<fateOf, faults>>
  BY <1>1, <1>3, <1>4, <1>6, HandlerQuiet DEF HandlerNext, UnmatchedPostCall
<1> QED BY <1>1, <1>2, <1>5, <1>6, RequestQuiet, GnaniQuiet DEF Next

THEOREM InboxImplemented == Spec => ImplementsInbox
<1>1. Spec => [][Inbox!Next]_<<fateOf, faults>>
  BY Invariance, InboxStep, PTL DEF Spec
<1>2. Spec => Inbox!Init
  BY InboxInit, PTL DEF Spec
<1> QED BY <1>1, <1>2, PTL DEF ImplementsInbox, Inbox!Spec, fateOf

-----------------------------------------------------------------------------
(* Correlation by phone number *)

LEMMA InitPhones == Init => PhonesOK
BY LifecycleAssumption
   DEF Init, PhonesOK, DialledOK, UnusedOK, HeldOK, FiledOK, Begun, Idle,
       Binding, AdoptedRecord

\* No step changes the number or the origin of a call in use, or what is known
\* of a conversation already dialled.
Frame ==
  /\ \A v \in Conv : Known(v) => convs'[v] = convs[v]
  /\ \A c \in CallId : req[c] # "unused" =>
       /\ calls'[c].phone = calls[c].phone /\ calls'[c].origin = calls[c].origin
       /\ req'[c] # "unused" /\ (req'[c] = "adopted" <=> req[c] = "adopted")

LEMMA RequestFrame ==
  ASSUME TypeInv, NEW c \in CallId, InitiateNext(c)
  PROVE  Frame
<1> USE DEF TypeInv, TypeOK, Frame, store, gnani
<1>1. CASE \E p \in Phone : Initiate(c, p)
  BY <1>1 DEF Initiate
<1>2. CASE InsertCall(c)
  BY <1>2 DEF InsertCall
<1>3. CASE AcquireTriggerLock(c)
  BY <1>3 DEF AcquireTriggerLock
<1>4. CASE TriggerCall(c)
  BY <1>4 DEF TriggerCall, InTriggerLock
<1>5. CASE RecordTriggered(c)
  BY <1>5 DEF RecordTriggered, Record
<1>6. CASE RecordTriggerFailed(c)
  BY <1>6 DEF RecordTriggerFailed, Record
<1>7. CASE AnswerRequest(c)
  BY <1>7 DEF AnswerRequest
<1> QED BY <1>1, <1>2, <1>3, <1>4, <1>5, <1>6, <1>7 DEF InitiateNext

LEMMA HandlerFrame ==
  ASSUME TypeInv, NEW w \in Worker, HandlerNext(w)
  PROVE  Frame
<1> USE DEF TypeInv, TypeOK, Frame, store, gnani
<1>1. CASE GreetFind(w)
  BY <1>1 DEF GreetFind
<1>2. CASE GreetBind(w)
  BY <1>2 DEF GreetBind, Record
<1>3. CASE GreetUnmatched(w)
  BY <1>3 DEF GreetUnmatched
<1>4. CASE RecordWebhookEvent(w)
  BY <1>4 DEF RecordWebhookEvent
<1>5. CASE PostFind(w)
  BY <1>5 DEF PostFind
<1>6. CASE \E c \in CallId : AdoptConsoleCall(w, c)
  BY <1>6 DEF AdoptConsoleCall
<1>7. CASE DeadLetterPostCall(w)
  BY <1>7 DEF DeadLetterPostCall
<1>8. CASE ApplyPostCall(w)
  BY <1>8 DEF ApplyPostCall, Record
<1> QED BY <1>1, <1>2, <1>3, <1>4, <1>5, <1>6, <1>7, <1>8 DEF HandlerNext, UnmatchedPostCall

LEMMA OtherFrame ==
  ASSUME TypeInv, GnaniNext \/ Crash \/ StoreFails
  PROVE  Frame
<1> USE DEF TypeInv, TypeOK, Frame, store, gnani
<1>1. CASE GnaniNext
  BY <1>1 DEF GnaniNext, Dial, ConsoleDials, GreetingArrives, PostCallArrives, Known
<1>2. CASE Crash
  BY <1>2 DEF Crash
<1>3. CASE StoreFails
  BY <1>3 DEF StoreFails
<1> QED BY <1>1, <1>2, <1>3

LEMMA NextFrame == TypeInv /\ [Next]_vars => Frame
<1> SUFFICES ASSUME TypeInv, [Next]_vars PROVE Frame
  OBVIOUS
<1>1. CASE UNCHANGED vars
  BY <1>1 DEF Frame, vars, store, gnani
<1> QED BY <1>1, RequestFrame, HandlerFrame, OtherFrame DEF Next

LEMMA MatchesKept ==
  ASSUME Frame, NEW c \in CallId, NEW v \in Conv, req[c] # "unused", Matches(c, v)
  PROVE  Matches(c, v)'
BY DEF Frame, Matches, Known

\* A handler that goes on holding what it held, and a document that keeps its
\* conversation and payload, stay correlated.
HeldBy(w) ==
  /\ task[w].pc # "idle" => Known(task[w].conv)
  /\ task[w].pc \in Binding => Matches(task[w].call, task[w].conv)
FiledIn(c) ==
  /\ calls[c].conv # NoConv => Matches(c, calls[c].conv)
  /\ calls[c].payload # NoEvent => Matches(c, calls[c].payload.conv)

LEMMA HeldKept ==
  ASSUME TypeInv, PhonesOK, Frame, NEW w \in Worker, task'[w] \in {task[w], Idle}
  PROVE  HeldBy(w)'
<1>1. CASE task'[w] = Idle
  BY <1>1 DEF HeldBy, Idle, Binding
<1>2. CASE task'[w] = task[w]
  <2>1. task[w].pc # "idle" => task[w].conv \in Conv /\ Known(task[w].conv)
    BY DEF TypeInv, TaskOK, PhonesOK, HeldOK
  <2>2. task[w].pc # "idle" => convs'[task[w].conv] = convs[task[w].conv]
    BY <2>1 DEF Frame
  <2>3. task[w].pc \in Binding =>
          /\ task[w].call \in CallId /\ req[task[w].call] # "unused"
          /\ Matches(task[w].call, task[w].conv)
    BY DEF TypeInv, TypeOK, TaskOK, PhonesOK, HeldOK, UnusedOK
  <2>4. task[w].pc \in Binding => task[w].pc # "idle"
    BY DEF Binding
  <2> QED BY <1>2, <2>1, <2>2, <2>3, <2>4 DEF HeldBy, Frame, Matches, Known
<1> QED BY <1>1, <1>2

LEMMA FiledKept ==
  ASSUME TypeInv, PhonesOK, Frame, NEW c \in CallId,
         calls'[c].conv \in {calls[c].conv, NoConv},
         calls'[c].payload \in {calls[c].payload, NoEvent}
  PROVE  FiledIn(c)'
<1>1. calls[c].conv # NoConv =>
        calls[c].conv \in Conv /\ req[c] # "unused" /\ Matches(c, calls[c].conv)
  BY DEF TypeInv, TypeOK, Record, PhonesOK, UnusedOK, FiledOK
<1>2. calls[c].payload # NoEvent =>
        /\ calls[c].payload.conv \in Conv /\ req[c] # "unused"
        /\ Matches(c, calls[c].payload.conv)
  BY DEF TypeInv, TypeOK, Record, Event, PhonesOK, UnusedOK, FiledOK
<1>3. calls[c].conv # NoConv => convs'[calls[c].conv] = convs[calls[c].conv]
  BY <1>1 DEF Frame, Matches
<1>4. calls[c].payload # NoEvent =>
        convs'[calls[c].payload.conv] = convs[calls[c].payload.conv]
  BY <1>2 DEF Frame, Matches
<1> QED BY <1>1, <1>2, <1>3, <1>4 DEF FiledIn, Frame, Matches, Known

LEMMA DialledKept ==
  ASSUME TypeInv, PhonesOK, Frame, UNCHANGED convs,
         posted' \subseteq {c \in CallId : c \in posted \/ Begun(c)}
  PROVE  DialledOK'
<1>1. ASSUME NEW c \in CallId, Begun(c)
      PROVE  Begun(c)' /\ calls'[c].phone = calls[c].phone
  BY <1>1 DEF Frame, Begun
<1>2. ASSUME NEW c \in posted' PROVE Begun(c)'
  BY <1>1, <1>2 DEF PhonesOK, DialledOK
<1> QED BY <1>1, <1>2 DEF PhonesOK, DialledOK

LEMMA RequestPhones ==
  ASSUME TypeInv, PhonesOK, Frame, NEW c \in CallId, InitiateNext(c)
  PROVE  PhonesOK'
<1>1. UNCHANGED <<task, convs>>
  BY DEF InitiateNext, Initiate, InsertCall, AcquireTriggerLock, TriggerCall,
         RecordTriggered, RecordTriggerFailed, AnswerRequest, gnani
<1>2. posted' \subseteq {d \in CallId : d \in posted \/ Begun(d)}
  BY DEF InitiateNext, Initiate, InsertCall, AcquireTriggerLock, TriggerCall,
         RecordTriggered, RecordTriggerFailed, AnswerRequest, gnani, TypeInv, TypeOK, Begun
<1>3. \A d \in CallId :
        /\ calls'[d].conv \in {calls[d].conv, NoConv}
        /\ calls'[d].payload \in {calls[d].payload, NoEvent}
  <2>1. CASE \E p \in Phone : Initiate(c, p)
    BY <2>1 DEF Initiate, ApiRecord, TypeInv, TypeOK
  <2>2. CASE RecordTriggered(c)
    BY <2>2 DEF RecordTriggered, Record, TypeInv, TypeOK
  <2>3. CASE RecordTriggerFailed(c)
    BY <2>3 DEF RecordTriggerFailed, Record, TypeInv, TypeOK
  <2>4. CASE UNCHANGED calls
    BY <2>4
  <2> QED BY <2>1, <2>2, <2>3, <2>4
          DEF InitiateNext, InsertCall, AcquireTriggerLock, TriggerCall, AnswerRequest,
              store
<1>4. UnusedOK'
  <2>1. \A d \in CallId : req'[d] = "unused" => req[d] = "unused"
    BY DEF Frame
  <2>2. \A d \in stored' : req'[d] # "unused"
    BY DEF PhonesOK, UnusedOK, InitiateNext, Initiate, InsertCall,
           AcquireTriggerLock, TriggerCall, RecordTriggered, RecordTriggerFailed,
           AnswerRequest, InTriggerLock, store, TypeInv, TypeOK
  <2> QED BY <1>3, <2>1, <2>2 DEF PhonesOK, UnusedOK
<1>5. DialledOK'
  BY <1>1, <1>2, DialledKept
<1>6. HeldOK'
  BY <1>1, HeldKept DEF HeldOK, HeldBy
<1>7. FiledOK'
  BY <1>3, FiledKept DEF FiledOK, FiledIn
<1> QED BY <1>4, <1>5, <1>6, <1>7 DEF PhonesOK

\* What a lookup may return for the conversation of a handler.
LEMMA FoundMatches ==
  ASSUME TypeInv, PhonesOK, NEW w \in Worker, task[w].pc # "idle"
  PROVE  /\ \A c \in FindCallByConversation(task[w].conv) : Matches(c, task[w].conv)
         /\ \A c \in FindPendingCallByPhone(convs[task[w].conv].phone) :
              Matches(c, task[w].conv)
         /\ \A e \in Event : \A c \in EchoedCallId(e) :
              e.conv = task[w].conv => Matches(c, task[w].conv)
<1>1. task[w].conv \in Conv /\ Known(task[w].conv)
  BY DEF TypeInv, TaskOK, PhonesOK, HeldOK
<1>2. \A c \in FindCallByConversation(task[w].conv) : Matches(c, task[w].conv)
  BY <1>1, LifecycleAssumption
     DEF FindCallByConversation, PhonesOK, FiledOK, TypeInv, TypeOK
<1>3. \A c \in FindPendingCallByPhone(convs[task[w].conv].phone) :
        Matches(c, task[w].conv)
  BY <1>1 DEF FindPendingCallByPhone, Matches
<1>4. \A e \in Event : \A c \in EchoedCallId(e) :
        e.conv = task[w].conv => Matches(c, task[w].conv)
  BY <1>1 DEF EchoedCallId, Matches, PhonesOK, DialledOK, TypeInv, TypeOK
<1> QED BY <1>2, <1>3, <1>4

LEMMA LookupPhones ==
  ASSUME TypeInv, PhonesOK, Frame, NEW w \in Worker, task[w].pc # "idle",
         NEW found \in SUBSET stored, NEW hit, NEW miss, miss \notin Binding,
         \A c \in found : Matches(c, task[w].conv),
         Lookup(w, found, hit, miss), UNCHANGED <<calls, stored, req, posted, convs>>
  PROVE  PhonesOK'
<1>1. Known(task[w].conv)
  BY DEF PhonesOK, HeldOK
<1>2. /\ \A u \in Worker : u # w => task'[u] = task[u]
      /\ task'[w].conv = task[w].conv
      /\ task'[w].pc \in Binding => Matches(task'[w].call, task[w].conv)
  <2>1. ASSUME NEW c \in found, task' = Holding(w, hit, c)
        PROVE  /\ \A u \in Worker : u # w => task'[u] = task[u]
               /\ task'[w].conv = task[w].conv /\ task'[w].call = c
    BY <2>1 DEF Holding, TypeInv, TypeOK, Task
  <2>2. ASSUME task' = Goto(w, miss)
        PROVE  /\ \A u \in Worker : u # w => task'[u] = task[u]
               /\ task'[w].conv = task[w].conv /\ task'[w].pc = miss
    BY <2>2 DEF Goto, TypeInv, TypeOK, Task
  <2> QED BY <2>1, <2>2 DEF Lookup
<1>3. HeldOK'
  <2>1. \A u \in Worker \ {w} : HeldBy(u)'
    BY <1>2, HeldKept
  <2>2. HeldBy(w)'
    BY <1>1, <1>2 DEF HeldBy, Matches, Known
  <2> QED BY <2>1, <2>2 DEF HeldOK, HeldBy
<1>4. DialledOK' /\ UnusedOK' /\ FiledOK'
  BY DEF PhonesOK, DialledOK, UnusedOK, FiledOK, Begun, Matches, Known
<1> QED BY <1>3, <1>4 DEF PhonesOK

\* A step that rewrites one document in use, for a conversation it matches.
LEMMA WritePhones ==
  ASSUME TypeInv, PhonesOK, Frame, NEW w \in Worker, task[w].pc \in Binding,
         task' = [task EXCEPT ![w] = Idle],
         NEW r \in Record, calls' = [calls EXCEPT ![task[w].call] = r],
         r.conv \in {calls[task[w].call].conv, task[w].conv},
         r.payload = calls[task[w].call].payload \/ r.payload.conv = task[w].conv,
         UNCHANGED <<stored, req, posted, convs>>
  PROVE  PhonesOK'
<1>0. PICK k \in CallId, v \in Conv : k = task[w].call /\ v = task[w].conv
  BY DEF TypeInv, TypeOK, TaskOK, Binding
<1>1. req[k] # "unused" /\ Matches(k, v)
  BY <1>0 DEF TypeInv, TypeOK, TaskOK, PhonesOK, HeldOK, UnusedOK, Binding
<1>2. /\ calls'[k] = r
      /\ \A c \in CallId : c # k => calls'[c] = calls[c]
  BY <1>0 DEF TypeInv, TypeOK
<1>3. DialledOK' /\ UnusedOK'
  <2>1. DialledOK'
    BY DialledKept DEF PhonesOK, DialledOK, TypeInv, TypeOK
  <2> QED BY <1>1, <1>2, <2>1 DEF PhonesOK, UnusedOK
<1>4. HeldOK'
  <2>1. \A u \in Worker : task'[u] \in {task[u], Idle}
    BY DEF TypeInv, TypeOK
  <2> QED BY <2>1, HeldKept DEF HeldOK, HeldBy
<1>5. FiledOK'
  <2>1. \A c \in CallId : c # k => FiledIn(c)'
    BY <1>2, FiledKept
  <2>2. \A u \in Conv : Matches(k, u) => Matches(k, u)'
    BY <1>1, MatchesKept
  <2>3. /\ r.conv # NoConv => r.conv \in Conv /\ Matches(k, r.conv)
        /\ r.payload # NoEvent =>
             r.payload.conv \in Conv /\ Matches(k, r.payload.conv)
    BY <1>0, <1>1 DEF PhonesOK, FiledOK, Record, Event
  <2>4. FiledIn(k)'
    BY <1>2, <2>2, <2>3 DEF FiledIn
  <2> QED BY <2>1, <2>4 DEF FiledOK, FiledIn
<1> QED BY <1>3, <1>4, <1>5 DEF PhonesOK

LEMMA HandlerPhones ==
  ASSUME TypeInv, PhonesOK, Frame, NEW w \in Worker, HandlerNext(w)
  PROVE  PhonesOK'
<1>1. CASE GreetFind(w)
  BY <1>1, FoundMatches, LookupPhones, LookupStored
     DEF GreetFind, Binding, store, gnani
<1>2. CASE PostFind(w)
  <2>1. task[w].event \in Event /\ task[w].event.conv = task[w].conv
    BY <1>2 DEF PostFind, TypeInv, TaskOK, Claiming
  <2> QED BY <1>2, <2>1, FoundMatches, LookupPhones, LookupStored
          DEF PostFind, Binding, store, gnani
<1>3. CASE GreetBind(w)
  <2> DEFINE k == task[w].call
             r == [calls[k] EXCEPT !.conv = task[w].conv, !.status = "IN_PROGRESS"]
  <2>1. task[w].conv \in Conv /\ calls[k] \in Record
    BY <1>3 DEF GreetBind, TypeInv, TypeOK, TaskOK, Binding
  <2>2. r \in Record
    BY <2>1, RecordUpdates
  <2>3. r.conv = task[w].conv /\ r.payload = calls[k].payload
    BY <2>1 DEF Record
  <2>4. calls' = [calls EXCEPT ![k] = r]
    BY <1>3 DEF GreetBind
  <2> HIDE DEF r
  <2> QED BY <1>3, <2>2, <2>3, <2>4, WritePhones DEF GreetBind, Binding, gnani
<1>4. CASE ApplyPostCall(w)
  <2> DEFINE k == task[w].call
             r == [calls[k] EXCEPT !.payload = task[w].event,
                                   !.status = StatusAfter(w)]
  <2>1. /\ task[w].event \in Event /\ task[w].event.conv = task[w].conv
        /\ k \in CallId /\ calls[k] \in Record
    BY <1>4 DEF ApplyPostCall, TypeInv, TypeOK, TaskOK, Claiming, Binding
  <2>2. StatusAfter(w) \in Status
    BY <2>1 DEF StatusAfter, Record, Status
  <2>3. r \in Record
    BY <2>1, <2>2, RecordUpdates
  <2>4. r.conv = calls[k].conv /\ r.payload = task[w].event
    BY <2>1 DEF Record
  <2>5. calls' = [calls EXCEPT ![k] = r]
    BY <1>4 DEF ApplyPostCall
  <2> HIDE DEF r
  <2> QED BY <1>4, <2>1, <2>3, <2>4, <2>5, WritePhones
          DEF ApplyPostCall, Binding, gnani
<1>5. CASE GreetUnmatched(w) \/ RecordWebhookEvent(w) \/ DeadLetterPostCall(w)
  <2>1. UNCHANGED <<calls, stored, req, posted, convs>>
    BY <1>5 DEF GreetUnmatched, RecordWebhookEvent, DeadLetterPostCall, gnani
  <2>2. /\ task[w].pc # "idle" /\ task'[w].pc \notin Binding
        /\ task'[w].pc # "idle" => task'[w].conv = task[w].conv
        /\ \A u \in Worker : u # w => task'[u] = task[u]
    BY <1>5 DEF GreetUnmatched, RecordWebhookEvent, DeadLetterPostCall, Goto,
                Binding, Idle, TypeInv, TypeOK, Task
  <2>3. HeldBy(w)'
    BY <2>1, <2>2 DEF HeldBy, PhonesOK, HeldOK, Known
  <2>4. \A u \in Worker : u # w => HeldBy(u)'
    BY <2>2, HeldKept
  <2> QED BY <2>1, <2>3, <2>4
          DEF PhonesOK, DialledOK, UnusedOK, HeldOK, HeldBy, FiledOK, Begun,
              Matches, Known
<1>6. ASSUME NEW c \in CallId, AdoptConsoleCall(w, c) PROVE PhonesOK'
  <2>1. PICK v \in Conv : v = task[w].conv /\ Known(v)
    BY <1>6 DEF AdoptConsoleCall, TypeInv, TaskOK, PhonesOK, HeldOK
  <2>2. /\ req[c] = "unused" /\ req' = [req EXCEPT ![c] = "adopted"]
        /\ stored' = stored \cup {c} /\ UNCHANGED <<posted, convs>>
    BY <1>6 DEF AdoptConsoleCall, gnani
  <2>3. PICK t \in 0..clock : calls' = [calls EXCEPT ![c] = AdoptedRecord(v, t)]
    BY <1>6, <2>1 DEF AdoptConsoleCall
  <2>4. /\ \A d \in CallId : d # c => calls'[d] = calls[d]
        /\ calls'[c].origin = "gnani_console" /\ calls'[c].conv = v
        /\ calls'[c].payload = NoEvent
    BY <2>3 DEF AdoptedRecord, TypeInv, TypeOK
  <2>5. Matches(c, v)'
    BY <2>1, <2>2, <2>4 DEF Matches, Known
  <2>6. UnusedOK'
    BY <2>2, <2>4 DEF PhonesOK, UnusedOK, TypeInv, TypeOK
  <2>7. DialledOK'
    BY <2>2, DialledKept DEF TypeInv, TypeOK
  <2>8. FiledOK'
    <3>1. \A d \in CallId : d # c => FiledIn(d)'
      BY <2>4, FiledKept
    <3>2. FiledIn(c)'
      BY <2>4, <2>5 DEF FiledIn
    <3> QED BY <3>1, <3>2 DEF FiledOK, FiledIn
  <2>9. HeldOK'
    <3>1. task' = [task EXCEPT ![w] =
             [task[w] EXCEPT !.pc = "post_adopted", !.call = c,
                             !.seen = "IN_PROGRESS"]]
      BY <1>6 DEF AdoptConsoleCall
    <3>2. \A u \in Worker : u # w => HeldBy(u)'
      BY <3>1, HeldKept DEF TypeInv, TypeOK
    <3>3. task'[w].call = c /\ task'[w].conv = v
      BY <2>1, <3>1 DEF TypeInv, TypeOK, Task
    <3>4. HeldBy(w)'
      BY <2>5, <3>3 DEF HeldBy, Matches
    <3> QED BY <3>2, <3>4 DEF HeldOK, HeldBy
  <2> QED BY <2>6, <2>7, <2>8, <2>9 DEF PhonesOK
<1> QED BY <1>1, <1>2, <1>3, <1>4, <1>5, <1>6 DEF HandlerNext, UnmatchedPostCall

LEMMA GnaniPhones ==
  ASSUME TypeInv, PhonesOK, Frame, GnaniNext
  PROVE  PhonesOK'
<1>1. UNCHANGED <<calls, stored, req, posted>>
  BY DEF GnaniNext, Dial, ConsoleDials, GreetingArrives, PostCallArrives, store,
         gnani
<1>2. UnusedOK'
  BY <1>1 DEF PhonesOK, UnusedOK
<1>3. FiledOK'
  BY <1>1, FiledKept DEF FiledOK, FiledIn
<1>4. DialledOK'
  <2>1. ASSUME NEW c \in CallId, NEW v \in Conv, Dial(c, v) PROVE DialledOK'
    BY <1>1, <2>1 DEF Dial, PhonesOK, DialledOK, Begun, TypeInv, TypeOK
  <2>2. ASSUME NEW v \in Conv, NEW p \in ConsolePhones, ConsoleDials(v, p)
        PROVE  DialledOK'
    BY <1>1, <2>2, LifecycleAssumption
       DEF ConsoleDials, PhonesOK, DialledOK, Begun, TypeInv, TypeOK
  <2>3. CASE UNCHANGED convs
    BY <1>1, <2>3, DialledKept DEF TypeInv, TypeOK
  <2> QED BY <2>1, <2>2, <2>3 DEF GnaniNext, GreetingArrives, PostCallArrives, gnani
<1>5. HeldOK'
  <2>1. CASE UNCHANGED task
    BY <2>1, HeldKept DEF HeldOK, HeldBy
  <2>2. ASSUME NEW w \in Worker, NEW v \in Conv, convs[v].owner # NoCall,
               UNCHANGED convs, task'[w].conv = v, task'[w].pc \notin Binding,
               \A u \in Worker : u # w => task'[u] = task[u]
        PROVE  HeldOK'
    <3>1. \A u \in Worker : u # w => HeldBy(u)'
      BY <2>2, HeldKept
    <3>2. HeldBy(w)'
      BY <2>2 DEF HeldBy, Known
    <3> QED BY <3>1, <3>2 DEF HeldOK, HeldBy
  <2>3. ASSUME NEW w \in Worker, NEW v \in Conv, GreetingArrives(w, v) PROVE HeldOK'
    <3>1. task' = [task EXCEPT ![w] = [Idle EXCEPT !.pc = "greet_find", !.conv = v]]
      BY <2>3 DEF GreetingArrives
    <3>2. task'[w].conv = v /\ task'[w].pc = "greet_find"
      BY <3>1 DEF Idle, TypeInv, TypeOK
    <3> QED BY <2>2, <2>3, <3>1, <3>2
            DEF GreetingArrives, Binding, gnani, TypeInv, TypeOK
  <2>4. ASSUME NEW w \in Worker, NEW e \in Event, PostCallArrives(w, e) PROVE HeldOK'
    <3>1. task' = [task EXCEPT ![w] =
             [Idle EXCEPT !.pc = "post_record", !.conv = e.conv, !.event = e]]
      BY <2>4 DEF PostCallArrives
    <3>2. e.conv \in Conv /\ task'[w].conv = e.conv /\ task'[w].pc = "post_record"
      BY <3>1 DEF Idle, TypeInv, TypeOK, Event
    <3> QED BY <2>2, <2>4, <3>1, <3>2
            DEF PostCallArrives, Binding, gnani, TypeInv, TypeOK
  <2> QED BY <2>1, <2>3, <2>4 DEF GnaniNext, Dial, ConsoleDials
<1> QED BY <1>2, <1>3, <1>4, <1>5 DEF PhonesOK

LEMMA FaultPhones ==
  ASSUME TypeInv, PhonesOK, Frame, Crash \/ StoreFails
  PROVE  PhonesOK'
<1>1. UNCHANGED <<calls, stored, posted, convs>>
  BY DEF Crash, StoreFails, store, gnani
<1>2. UnusedOK'
  BY <1>1 DEF PhonesOK, UnusedOK, Frame
<1>3. FiledOK'
  BY <1>1, FiledKept DEF FiledOK, FiledIn
<1>4. DialledOK'
  BY <1>1, DialledKept DEF TypeInv, TypeOK
<1>5. HeldOK'
  <2>1. \A w \in Worker : task'[w] \in {task[w], Idle}
    BY DEF Crash, StoreFails, TypeInv, TypeOK
  <2> QED BY <2>1, HeldKept DEF HeldOK, HeldBy
<1> QED BY <1>2, <1>3, <1>4, <1>5 DEF PhonesOK

LEMMA NextPhones == TypeInv /\ PhonesOK /\ [Next]_vars => PhonesOK'
<1> SUFFICES ASSUME TypeInv, PhonesOK, [Next]_vars PROVE PhonesOK'
  OBVIOUS
<1>1. Frame
  BY NextFrame
<1>2. CASE UNCHANGED vars
  BY <1>2 DEF vars, store, gnani, PhonesOK, DialledOK, UnusedOK, HeldOK, FiledOK,
              Begun, Matches, Known
<1> QED BY <1>1, <1>2, RequestPhones, HandlerPhones, GnaniPhones, FaultPhones DEF Next

\* A call placed through the API is only ever bound to, and given the outcome
\* of, a conversation held on its own number.
THEOREM CorrelationHolds == Spec => []CorrelatedByPhone
<1>1. TypeInv /\ PhonesOK => CorrelatedByPhone
  BY DEF TypeInv, TypeOK, PhonesOK, FiledOK, Matches, CorrelatedByPhone
<1> QED BY <1>1, InitTypes, NextTypes, InitPhones, NextPhones, PTL DEF Spec
=============================================================================

---------------------------- MODULE CallLifecycle ----------------------------
(***************************************************************************)
(* The three flows of app/services/call_service.py over the call store of  *)
(* app/db/repository.py, as they interleave on one event loop:             *)
(*                                                                         *)
(*   initiate          POST /api/Initial_Message                           *)
(*   resolve_greeting  POST /api/v1/gnani/dynamic-message                  *)
(*   apply_post_call   POST /api/v1/webhooks/post-call                     *)
(*                                                                         *)
(* A handler is a sequence of steps, one per awaited call of the store or  *)
(* of Gnani; what it has read stays in its local state and may be stale by *)
(* the time it is used.  Gnani is the environment: it dials the calls it   *)
(* was asked for, knows conversations started from its own console, and    *)
(* delivers callbacks and webhooks at any time, in any order, any number   *)
(* of times.                                                               *)
(***************************************************************************)
EXTENDS Naturals, FiniteSets

CONSTANTS
  CallId,              \* call ids new_call_id can draw
  Conv,                \* Gnani conversation ids
  Phone,               \* phone suffixes (app/utils/phone.py) of stored calls
  BlankPhone,          \* the suffix "" of a mobile without digits
  ConsolePhones,       \* suffixes a console conversation may report
  Worker,              \* slots for callbacks being handled at a time
  NoCall, NoConv, NoEvent, NoStatus,
  Console,             \* owner of a conversation started from the console
  MaxInitiated,        \* bound: calls started through the API
  EventsPerConv,       \* bound: distinct webhook events of a conversation
  MaxAttempts,         \* gnani_max_retries: trigger requests of one call
  MaxFaults,           \* bound: crashes and failed store operations
  AdoptConsoleCalls,   \* settings.adopt_console_calls
  EchoCallId,          \* does the webhook body carry our call_id
  Backend              \* settings.storage_backend: "mongo" or "json"

ASSUME LifecycleAssumption ==
  /\ BlankPhone \notin Phone
  /\ ConsolePhones \subseteq Phone \cup {BlankPhone}
  /\ NoCall \notin CallId /\ NoConv \notin Conv /\ Console \notin CallId
  /\ NoCall # Console
  /\ MaxInitiated \in Nat /\ EventsPerConv \in Nat
  /\ MaxAttempts \in Nat /\ MaxFaults \in Nat
  /\ AdoptConsoleCalls \in BOOLEAN /\ EchoCallId \in BOOLEAN
  /\ Backend \in {"mongo", "json"}

Event == [conv: Conv, n: 1..EventsPerConv]

ASSUME NoEventAssumption == NoEvent \notin Event

-----------------------------------------------------------------------------
(* Types *)

Status == {"INITIATED", "TRIGGER_FAILED", "IN_PROGRESS", "COMPLETED", "FAILED"}
TerminalStatuses == {"COMPLETED", "TRIGGER_FAILED", "FAILED"}

ASSUME NoStatusAssumption == NoStatus \notin Status

\* The part of a call_records document the flows read or decide on.
\* payload stands for post_call_payload and every field set together with it.
Record == [origin: {"api", "gnani_console"}, phone: Phone \cup {BlankPhone},
           created: Nat, conv: Conv \cup {NoConv}, status: Status,
           response: {"none", "ok", "error"}, payload: Event \cup {NoEvent}]

\* Progress of the initiate() that owns a call id.
Progress == {"unused", "insert", "lock", "precall", "trigger", "placed",
             "failed", "recorded", "answered", "error", "adopted", "dead"}
InTriggerLock == {"precall", "trigger"}

\* Progress of a callback handler: greet_* in resolve_greeting, post_* in
\* apply_post_call.
Step == {"idle", "greet_find", "greet_phone", "greet_bind", "greet_unmatched",
         "post_record", "post_find", "post_byid", "post_unknown",
         "post_adopted", "post_apply"}
Task == [pc: Step, conv: Conv \cup {NoConv}, event: Event \cup {NoEvent},
         call: CallId \cup {NoCall}, seen: Status \cup {NoStatus}]
Idle == [pc |-> "idle", conv |-> NoConv, event |-> NoEvent,
         call |-> NoCall, seen |-> NoStatus]

\* Steps a coroutine of the JSON backend reaches without having suspended
\* since its previous step: its store operations never yield to the loop.
MidRun == {"greet_phone", "greet_bind", "greet_unmatched", "post_find",
           "post_byid", "post_unknown", "post_apply"}
\* Steps of a webhook handler that has written its ledger entry.
Claiming == {"post_find", "post_byid", "post_unknown", "post_adopted",
             "post_apply"}

-----------------------------------------------------------------------------
VARIABLES
  calls,     \* call_id -> its document, in memory until stored
  stored,    \* call ids with a document in call_records
  ledger,    \* webhook_events
  dlq,       \* webhook_dlq
  clock,     \* orders created_at
  req,       \* progress of each initiate()
  task,      \* what each worker is handling
  posted,    \* Gnani: call ids a trigger request was sent for
  convs,     \* Gnani: conversations under way or over, with owner and phone
  applied,   \* history: events whose disposition was written to a call
  faults     \* crashes and failed store operations so far

store == <<calls, stored, ledger, dlq>>
gnani == <<posted, convs>>
vars == <<store, clock, req, task, gnani, applied, faults>>

TypeOK ==
  /\ calls \in [CallId -> Record]
  /\ stored \subseteq CallId
  /\ ledger \subseteq Event
  /\ dlq \subseteq ({"dynamic_message_unmatched"} \X Conv)
                     \cup ({"post_call_unmatched"} \X Event)
  /\ clock \in Nat
  /\ req \in [CallId -> Progress]
  /\ task \in [Worker -> Task]
  /\ posted \subseteq CallId
  /\ convs \in [Conv -> [owner: CallId \cup {Console, NoCall},
                         phone: Phone \cup {BlankPhone}]]
  /\ applied \subseteq ledger
  /\ faults \in Nat

ApiRecord(p, t) ==
  [origin |-> "api", phone |-> p, created |-> t, conv |-> NoConv,
   status |-> "INITIATED", response |-> "none", payload |-> NoEvent]

AdoptedRecord(v, t) ==
  [origin |-> "gnani_console", phone |-> BlankPhone, created |-> t, conv |-> v,
   status |-> "IN_PROGRESS", response |-> "none", payload |-> NoEvent]

Init ==
  /\ calls = [c \in CallId |-> AdoptedRecord(NoConv, 0)]
  /\ stored = {} /\ ledger = {} /\ dlq = {}
  /\ clock = 0
  /\ req = [c \in CallId |-> "unused"]
  /\ task = [w \in Worker |-> Idle]
  /\ posted = {}
  /\ convs = [v \in Conv |-> [owner |-> NoCall, phone |-> BlankPhone]]
  /\ applied = {}
  /\ faults = 0

\* On the JSON backend a coroutine that has not suspended runs alone.
Scheduled(w) ==
  Backend = "json" =>
    /\ \A u \in Worker \ {w} : task[u].pc \notin MidRun
    /\ \A c \in CallId : req[c] # "insert"
RequestScheduled(c) ==
  Backend = "json" =>
    /\ \A w \in Worker : task[w].pc \notin MidRun
    /\ \A d \in CallId \ {c} : req[d] # "insert"

-----------------------------------------------------------------------------
(* POST /api/Initial_Message *)

\* The handler builds the record, stamped with its time, before inserting it.
Initiate(c, p) ==
  /\ req[c] = "unused"
  /\ clock < MaxInitiated
  /\ RequestScheduled(c)
  /\ clock' = clock + 1
  /\ calls' = [calls EXCEPT ![c] = ApiRecord(p, clock + 1)]
  /\ req' = [req EXCEPT ![c] = "insert"]
  /\ UNCHANGED <<stored, ledger, dlq, task, gnani, applied, faults>>

InsertCall(c) ==
  /\ req[c] = "insert"
  /\ stored' = stored \cup {c}
  /\ req' = [req EXCEPT ![c] = "lock"]
  /\ UNCHANGED <<calls, ledger, dlq, clock, task, gnani, applied, faults>>

\* Mutant: an exception that escapes the lock leaves it held.
AcquireTriggerLockLeaky(c) ==
  /\ req[c] = "lock"
  /\ \A d \in CallId : req[d] \notin InTriggerLock \cup {"error"}
  /\ RequestScheduled(c)
  /\ req' = [req EXCEPT ![c] = "precall"]
  /\ UNCHANGED <<store, clock, task, gnani, applied, faults>>

AcquireTriggerLock(c) ==
  /\ req[c] = "lock"
  /\ \A d \in CallId : req[d] \notin InTriggerLock
  /\ RequestScheduled(c)
  /\ req' = [req EXCEPT ![c] = "precall"]
  /\ UNCHANGED <<store, clock, task, gnani, applied, faults>>

\* trigger_call returns to initiate: through the pre-call request, then the
\* retried trigger.  "error" is an exception that is not a GnaniError (a
\* transport error of the pre-call request, a body that is not JSON).
TriggerCall(c) ==
  /\ \/ /\ req[c] = "precall"
        /\ req' = [req EXCEPT ![c] = "trigger"]
        /\ posted' = posted \cup {c}
     \/ /\ req[c] = "trigger"
        /\ req' = [req EXCEPT ![c] = "placed"]
        /\ UNCHANGED posted
     \/ /\ req[c] \in InTriggerLock
        /\ \E r \in {"failed", "error"} : req' = [req EXCEPT ![c] = r]
        /\ UNCHANGED posted
  /\ UNCHANGED <<store, clock, task, convs, applied, faults>>

RecordTriggered(c) ==
  /\ req[c] = "placed"
  /\ RequestScheduled(c)
  /\ calls' = [calls EXCEPT ![c].response = "ok"]
  /\ req' = [req EXCEPT ![c] = "recorded"]
  /\ UNCHANGED <<stored, ledger, dlq, clock, task, gnani, applied, faults>>

RecordTriggerFailed(c) ==
  /\ req[c] = "failed"
  /\ RequestScheduled(c)
  /\ calls' = [calls EXCEPT ![c].status = "TRIGGER_FAILED",
                            ![c].response = "error"]
  /\ req' = [req EXCEPT ![c] = "recorded"]
  /\ UNCHANGED <<stored, ledger, dlq, clock, task, gnani, applied, faults>>

\* What follows the update: the audit entry, the broadcast, and reading the
\* record back to return it, or raising the GnaniError again.
AnswerRequest(c) ==
  /\ req[c] = "recorded"
  /\ RequestScheduled(c)
  /\ req' = [req EXCEPT ![c] = "answered"]
  /\ UNCHANGED <<store, clock, task, gnani, applied, faults>>

InitiateNext(c) ==
  \/ \E p \in Phone : Initiate(c, p)
  \/ InsertCall(c)
  \/ AcquireTriggerLock(c)
  \/ TriggerCall(c)
  \/ RecordTriggered(c)
  \/ RecordTriggerFailed(c)
  \/ AnswerRequest(c)

-----------------------------------------------------------------------------
(* Lookups of the repository *)

FindCallByConversation(v) == {c \in stored : calls[c].conv = v}

\* Mutants: the newest call of any number; any call of the number.
FindNewestCall(p) ==
  {c \in stored : \A d \in stored : calls[d].created <= calls[c].created}
FindAnyCallByPhone(p) == {c \in stored : calls[c].phone = p}

FindPendingCallByPhone(p) ==
  LET matches == {c \in stored : calls[c].phone = p}
  IN  {c \in matches : \A d \in matches : calls[d].created <= calls[c].created}

Goto(w, pc) == [task EXCEPT ![w].pc = pc]
Holding(w, pc, c) ==
  [task EXCEPT ![w].pc = pc, ![w].call = c, ![w].seen = calls[c].status]

\* Continue with one of the calls found, or on the path for none.
Lookup(w, found, hit, miss) ==
  IF found # {} THEN \E c \in found : task' = Holding(w, hit, c)
                ELSE task' = Goto(w, miss)

-----------------------------------------------------------------------------
(* POST /api/v1/gnani/dynamic-message *)

GreetingArrives(w, v) ==
  /\ task[w] = Idle
  /\ convs[v].owner # NoCall
  /\ task' = [task EXCEPT ![w] = [Idle EXCEPT !.pc = "greet_find", !.conv = v]]
  /\ UNCHANGED <<store, clock, req, gnani, applied, faults>>

\* Mutant: correlation by number alone.
GreetFindByPhone(w) ==
  /\ task[w].pc = "greet_find"
  /\ Lookup(w, FindPendingCallByPhone(convs[task[w].conv].phone),
            "greet_bind", "greet_unmatched")
  /\ Scheduled(w)
  /\ UNCHANGED <<store, clock, req, gnani, applied, faults>>

GreetFind(w) ==
  /\ \/ /\ task[w].pc = "greet_find"
        /\ Lookup(w, FindCallByConversation(task[w].conv),
                  "greet_bind", "greet_phone")
     \/ /\ task[w].pc = "greet_phone"
        /\ Lookup(w, FindPendingCallByPhone(convs[task[w].conv].phone),
                  "greet_bind", "greet_unmatched")
  /\ Scheduled(w)
  /\ UNCHANGED <<store, clock, req, gnani, applied, faults>>

\* Mutant: a terminal status survives, the conversation is rebound all the same.
GreetBindKeepingTerminal(w) ==
  /\ task[w].pc = "greet_bind"
  /\ Scheduled(w)
  /\ calls' = [calls EXCEPT ![task[w].call].conv = task[w].conv,
                            ![task[w].call].status =
                              IF @ \in TerminalStatuses THEN @ ELSE "IN_PROGRESS"]
  /\ task' = [task EXCEPT ![w] = Idle]
  /\ UNCHANGED <<stored, ledger, dlq, clock, req, gnani, applied, faults>>

\* The update does not look at the status the call has, or had when read.
GreetBind(w) ==
  /\ task[w].pc = "greet_bind"
  /\ Scheduled(w)
  /\ calls' = [calls EXCEPT ![task[w].call].conv = task[w].conv,
                            ![task[w].call].status = "IN_PROGRESS"]
  /\ task' = [task EXCEPT ![w] = Idle]
  /\ UNCHANGED <<stored, ledger, dlq, clock, req, gnani, applied, faults>>

GreetUnmatched(w) ==
  /\ task[w].pc = "greet_unmatched"
  /\ Scheduled(w)
  /\ dlq' = dlq \cup {<<"dynamic_message_unmatched", task[w].conv>>}
  /\ task' = [task EXCEPT ![w] = Idle]
  /\ UNCHANGED <<calls, stored, ledger, clock, req, gnani, applied, faults>>

-----------------------------------------------------------------------------
(* POST /api/v1/webhooks/post-call *)

PostCallArrives(w, e) ==
  /\ task[w] = Idle
  /\ convs[e.conv].owner # NoCall
  /\ task' = [task EXCEPT ![w] = [Idle EXCEPT !.pc = "post_record",
                                              !.conv = e.conv, !.event = e]]
  /\ UNCHANGED <<store, clock, req, gnani, applied, faults>>

\* Mutants: the duplicate is not looked for; the event is not recorded.
RecordWebhookEventAlways(w) ==
  /\ task[w].pc = "post_record"
  /\ Scheduled(w)
  /\ ledger' = ledger \cup {task[w].event}
  /\ task' = Goto(w, "post_find")
  /\ UNCHANGED <<calls, stored, dlq, clock, req, gnani, applied, faults>>
RecordWebhookEventUnrecorded(w) ==
  /\ task[w].pc = "post_record"
  /\ Scheduled(w)
  /\ task' = IF task[w].event \in ledger THEN [task EXCEPT ![w] = Idle]
                                         ELSE Goto(w, "post_find")
  /\ UNCHANGED <<store, clock, req, gnani, applied, faults>>

\* One insert under the unique index on event_id; a duplicate is answered.
RecordWebhookEvent(w) ==
  /\ task[w].pc = "post_record"
  /\ Scheduled(w)
  /\ IF task[w].event \in ledger
       THEN task' = [task EXCEPT ![w] = Idle] /\ UNCHANGED ledger
       ELSE /\ ledger' = ledger \cup {task[w].event}
            /\ task' = Goto(w, "post_find")
  /\ UNCHANGED <<calls, stored, dlq, clock, req, gnani, applied, faults>>

\* payload.call_id: ours if Gnani echoes it.
EchoedCallId(e) ==
  IF EchoCallId THEN {convs[e.conv].owner} \cap stored ELSE {}

\* Mutant: an event no lookup matches is dropped.
PostFindDropping(w) ==
  /\ \/ /\ task[w].pc = "post_find"
        /\ Lookup(w, FindCallByConversation(task[w].conv),
                  "post_apply", "post_byid")
     \/ /\ task[w].pc = "post_byid"
        /\ Lookup(w, EchoedCallId(task[w].event), "post_apply", "idle")
  /\ Scheduled(w)
  /\ UNCHANGED <<store, clock, req, gnani, applied, faults>>

PostFind(w) ==
  /\ \/ /\ task[w].pc = "post_find"
        /\ Lookup(w, FindCallByConversation(task[w].conv),
                  "post_apply", "post_byid")
     \/ /\ task[w].pc = "post_byid"
        /\ Lookup(w, EchoedCallId(task[w].event), "post_apply", "post_unknown")
  /\ Scheduled(w)
  /\ UNCHANGED <<store, clock, req, gnani, applied, faults>>

\* _adopt_console_call; created_at is payload.call_started_at or now.
AdoptConsoleCall(w, c) ==
  /\ task[w].pc = "post_unknown"
  /\ req[c] = "unused"
  /\ Scheduled(w)
  /\ \E t \in 0..clock :
       calls' = [calls EXCEPT ![c] = AdoptedRecord(task[w].conv, t)]
  /\ stored' = stored \cup {c}
  /\ req' = [req EXCEPT ![c] = "adopted"]
  /\ task' = [task EXCEPT ![w].pc = "post_adopted", ![w].call = c,
                          ![w].seen = "IN_PROGRESS"]
  /\ UNCHANGED <<ledger, dlq, clock, gnani, applied, faults>>

\* Mutant: the 202 is answered, nothing is stored.
DeadLetterNothing(w) ==
  /\ task[w].pc = "post_unknown"
  /\ Scheduled(w)
  /\ task' = [task EXCEPT ![w] = Idle]
  /\ UNCHANGED <<store, clock, req, gnani, applied, faults>>

DeadLetterPostCall(w) ==
  /\ task[w].pc = "post_unknown"
  /\ Scheduled(w)
  /\ dlq' = dlq \cup {<<"post_call_unmatched", task[w].event>>}
  /\ task' = [task EXCEPT ![w] = Idle]
  /\ UNCHANGED <<calls, stored, ledger, clock, req, gnani, applied, faults>>

\* A body that matches no call, by the setting.
UnmatchedPostCall(w) ==
  IF AdoptConsoleCalls THEN \E c \in CallId : AdoptConsoleCall(w, c)
                       ELSE DeadLetterPostCall(w)

\* Mutant: every webhook completes its call.
StatusAfterAlways(w) == "COMPLETED"

\* The status decided on is the one read when the call was found.
StatusAfter(w) ==
  IF task[w].seen \in TerminalStatuses THEN calls[task[w].call].status
                                       ELSE "COMPLETED"

ApplyPostCall(w) ==
  /\ task[w].pc \in {"post_apply", "post_adopted"}
  /\ Scheduled(w)
  /\ calls' = [calls EXCEPT ![task[w].call].payload = task[w].event,
                            ![task[w].call].status = StatusAfter(w)]
  /\ applied' = applied \cup {task[w].event}
  /\ task' = [task EXCEPT ![w] = Idle]
  /\ UNCHANGED <<stored, ledger, dlq, clock, req, gnani, faults>>

HandlerNext(w) ==
  \/ GreetFind(w) \/ GreetBind(w) \/ GreetUnmatched(w)
  \/ RecordWebhookEvent(w) \/ PostFind(w)
  \/ UnmatchedPostCall(w)
  \/ ApplyPostCall(w)

-----------------------------------------------------------------------------
(* Gnani, and faults *)

\* A trigger request that reached Gnani dials, during the request or after it
\* timed out, once per request.
Dial(c, v) ==
  /\ c \in posted
  /\ convs[v].owner = NoCall
  /\ Cardinality({u \in Conv : convs[u].owner = c}) < MaxAttempts
  /\ convs' = [convs EXCEPT ![v] = [owner |-> c, phone |-> calls[c].phone]]
  /\ UNCHANGED <<store, clock, req, task, posted, applied, faults>>

ConsoleDials(v, p) ==
  /\ convs[v].owner = NoCall
  /\ convs' = [convs EXCEPT ![v] = [owner |-> Console, phone |-> p]]
  /\ UNCHANGED <<store, clock, req, task, posted, applied, faults>>

\* The process dies: every handler is gone, the store stays.
Crash ==
  /\ faults < MaxFaults
  /\ faults' = faults + 1
  /\ task' = [w \in Worker |-> Idle]
  /\ req' = [c \in CallId |-> IF req[c] \in {"unused", "adopted", "answered", "error"}
                                THEN req[c] ELSE "dead"]
  /\ UNCHANGED <<store, clock, gnani, applied>>

\* A store operation raises: the handler ends with a 500.  At "lock" it is the
\* audit entry that follows the insert; at "recorded" the audit entry or the
\* reading back that follows the update, which stays in the store.
StoreFails ==
  /\ faults < MaxFaults
  /\ faults' = faults + 1
  /\ \/ \E w \in Worker : /\ task[w].pc # "idle"
                          /\ task' = [task EXCEPT ![w] = Idle]
                          /\ UNCHANGED req
     \/ \E c \in CallId : /\ req[c] \in {"insert", "lock", "placed", "failed",
                                                     "recorded"}
                          /\ req' = [req EXCEPT ![c] = "error"]
                          /\ UNCHANGED task
  /\ UNCHANGED <<store, clock, gnani, applied>>

GnaniNext ==
  \/ \E c \in CallId, v \in Conv : Dial(c, v)
  \/ \E v \in Conv, p \in ConsolePhones : ConsoleDials(v, p)
  \/ \E w \in Worker, v \in Conv : GreetingArrives(w, v)
  \/ \E w \in Worker, e \in Event : PostCallArrives(w, e)

Next ==
  \/ \E c \in CallId : InitiateNext(c)
  \/ \E w \in Worker : HandlerNext(w)
  \/ GnaniNext
  \/ Crash
  \/ StoreFails

Spec == Init /\ [][Next]_vars

\* The steps of an initiate that has begun.
RequestGoesOn(c) ==
  InsertCall(c) \/ AcquireTriggerLock(c) \/ TriggerCall(c)
    \/ RecordTriggered(c) \/ RecordTriggerFailed(c) \/ AnswerRequest(c)

-----------------------------------------------------------------------------
(* Properties *)

\* A webhook event writes a disposition at most once, to one call, however
\* often it is delivered, on however many workers, across crashes: not even
\* after a later event of the same call has replaced what it wrote.
NeverReapplied ==
  [][\A c \in CallId, e \in Event :
       calls'[c].payload = e /\ calls[c].payload # e => e \notin applied]_vars

\* Retries of one webhook neither complete nor adopt two calls.
OneCallPerEvent ==
  \A c, d \in CallId :
    calls[c].payload = calls[d].payload /\ calls[c].payload # NoEvent => c = d

\* While nothing crashes, an event in the idempotency ledger is applied,
\* dead-lettered, or still in the hands of a handler: answering its retry
\* duplicate_ignored drops nothing.
ClaimedBy(w, e) == task[w].pc \in Claiming /\ task[w].event = e
DeadLettered(e) == <<"post_call_unmatched", e>> \in dlq
Resolved(e) == e \in applied \/ DeadLettered(e)
LedgerAccounted ==
  faults = 0 =>
    \A e \in ledger : Resolved(e) \/ \E w \in Worker : ClaimedBy(w, e)

\* A call placed through the API is only ever bound to, and given the outcome
\* of, a conversation held on its own number.
CorrelatedByPhone ==
  \A c \in stored : calls[c].origin = "api" =>
    /\ calls[c].conv # NoConv => convs[calls[c].conv].phone = calls[c].phone
    /\ calls[c].payload # NoEvent =>
         convs[calls[c].payload.conv].phone = calls[c].phone

\* The JSON backend: find_call_by_conversation has one answer at most.
OneCallPerConversation ==
  \A c, d \in stored :
    calls[c].conv = calls[d].conv /\ calls[c].conv # NoConv => c = d

\* The JSON backend: a completed API call carries the outcome of the very
\* conversation it is bound to, even after rebinding and late webhooks.
CompletedByOwnConversation ==
  \A c \in stored :
    calls[c].origin = "api" /\ calls[c].status = "COMPLETED" =>
      calls[c].payload # NoEvent /\ calls[c].payload.conv = calls[c].conv

\* A webhook never moves a call out of a terminal status.  It holds on the
\* JSON backend; on MongoDB the status checked may be out of date when used.
WebhookKeepsTerminal ==
  [][\A w \in Worker, c \in CallId :
       ApplyPostCall(w) /\ calls[c].status \in TerminalStatuses =>
         calls'[c].status = calls[c].status]_vars

\* The JSON backend: a greeting binds the newest stored call of the number,
\* unless the conversation is bound already.
BindsNewest ==
  [][\A c, d \in stored :
       /\ calls'[c].conv # calls[c].conv
       /\ calls[d].phone = calls[c].phone
       => calls[d].created <= calls[c].created]_vars

\* No request to place a call is left pending for good: the lock is released
\* on every path, its queue moves on, and every request is answered.
EveryRequestAnswered ==
  \A c \in CallId :
    []<>(req[c] \in {"unused", "adopted", "answered", "error", "dead"})

\* Unless a fault occurs an event once recorded reaches a call or the DLQ: the
\* ledger forgets nothing, so this is recorded ~> resolved.
EveryEventResolved ==
  \A e \in Event : []<>(e \in ledger => Resolved(e) \/ faults > 0)

\* The flows implement the inbox the sender of webhooks may rely on: one claim
\* and one fate per event, none lost without a fault.
Fate(e) ==
  IF e \notin ledger THEN "new"
  ELSE IF e \in applied THEN "applied"
  ELSE IF DeadLettered(e) THEN "dead_lettered"
  ELSE IF \E w \in Worker : ClaimedBy(w, e) THEN "claimed" ELSE "lost"

Inbox == INSTANCE WebhookInbox WITH fate <- [e \in Event |-> Fate(e)]
ImplementsInbox == Inbox!Spec

-----------------------------------------------------------------------------
(* Inductive invariants, for the proofs of CallLifecycleProofs *)

\* What a handler holds at each of its steps.
Binding == {"greet_bind", "post_apply", "post_adopted"}
TaskOK ==
  \A w \in Worker :
    /\ task[w].pc # "idle" => task[w].conv \in Conv
    /\ task[w].pc \in Claiming \cup {"post_record"} =>
         task[w].event \in Event /\ task[w].event.conv = task[w].conv
    /\ task[w].pc \in Claiming => task[w].event \in ledger
    /\ task[w].pc \in Binding => task[w].call \in stored

\* An event is in the hands of one handler, and then nowhere else.
ClaimsOK ==
  \A e \in Event :
    /\ \A w, u \in Worker : ClaimedBy(w, e) /\ ClaimedBy(u, e) => w = u
    /\ \A w \in Worker : ClaimedBy(w, e) => e \in ledger /\ ~Resolved(e)
    /\ Resolved(e) => e \in ledger
    /\ ~(e \in applied /\ DeadLettered(e))
    /\ \A c \in CallId : calls[c].payload = e => e \in applied

InboxInv ==
  TypeOK /\ TaskOK /\ ClaimsOK /\ OneCallPerEvent /\ LedgerAccounted

\* A conversation keeps the number of the call it was dialled for, and every
\* conversation a handler or a record holds has been dialled.
Known(v) == convs[v].owner # NoCall
Matches(c, v) ==
  Known(v) /\ (calls[c].origin = "api" => convs[v].phone = calls[c].phone)
Begun(c) == req[c] \notin {"unused", "adopted"}
DialledOK ==
  /\ \A c \in posted : Begun(c)
  /\ \A v \in Conv : convs[v].owner \in CallId =>
       Begun(convs[v].owner) /\ convs[v].phone = calls[convs[v].owner].phone
UnusedOK ==
  \A c \in CallId : req[c] = "unused" =>
    c \notin stored /\ calls[c].conv = NoConv /\ calls[c].payload = NoEvent
HeldOK ==
  \A w \in Worker :
    /\ task[w].pc # "idle" => Known(task[w].conv)
    /\ task[w].pc \in Binding => Matches(task[w].call, task[w].conv)
FiledOK ==
  \A c \in CallId :
    /\ calls[c].conv # NoConv => Matches(c, calls[c].conv)
    /\ calls[c].payload # NoEvent => Matches(c, calls[c].payload.conv)
PhonesOK == DialledOK /\ UnusedOK /\ HeldOK /\ FiledOK

PhoneInv == TypeOK /\ TaskOK /\ PhonesOK

=============================================================================

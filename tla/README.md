# Gnani Voice AI Agent: a verification project

TLA+ models of the call agent under `src/`: a FastAPI service that places loan
reminder calls through the Gnani voice platform, answers Gnani's mid-call
callback with a greeting, receives the outcome by webhook, and shows the calls on
a live dashboard. TLC checks the models on small instances; TLAPS proves the
theorems listed below for every value of the constants.

All paths below are relative to `src/`.

## 1. The system

| Component | State it keeps | Operations | Modelled by |
|---|---|---|---|
| Call lifecycle, `app/services/call_service.py`, `app/routers/{calls,webhooks}.py` | the trigger lock; locals of handlers between awaits | `initiate`, `resolve_greeting`, `apply_post_call`, `_adopt_console_call` | `CallLifecycle`, `WebhookInbox` |
| Gnani client, `app/services/gnani_client.py` | none of its own; the bot's variables live at Gnani | `trigger_call`, `add_pre_call_variables`, `_post_trigger` with tenacity | `GnaniTrigger`, `TriggerContract` |
| Disposition guardrail, `app/services/disposition.py` | none (pure) | `resolve_ptp_date`, `validate`, `_reconcile` | `Guardrail`, `PostCallDisposition` |
| Payload parsing, `app/models/schemas.py` | none (pure) | `PostCallWebhookPayload`, `InitialMessageRequest` | `PostCallPayload`, `PostCallDisposition`, `PhoneNumber` (partly) |
| Bulk upload, `bulk_upload` of `app/routers/dashboard.py` | locals of the handler: the line, `accepted`, `rejected` | one `initiate` per row of a CSV file | `BulkUpload` |
| JSON store, `app/db/repository.py`, and `scripts/clear_demo_data.py` on the same file | `_data`, the store file, the temporary file | `init`, inserts, updates, `record_webhook_event`, `_flush` | `JsonStore` |
| Live dashboard, `app/ws/hub.py`, `static/app.js`, `app/main.py` | `_connections`; each page's table, socket and timer | `connect`, `disconnect`, `broadcast`; `handle`, `refreshRow`, `scheduleReload` | `LiveDashboard` |
| Dashboard API and metrics, `app/routers/dashboard.py`, `app/services/metrics.py` | none | `list_calls`, `_matches`, `summarise`, `stage_distribution` | `CallListing`, as `LiveDashboard` uses it |
| MongoDB store, `app/db/repository.py` | four collections, unique index on `event_id` | one atomic server-side operation each | steps of `CallLifecycle` (partly) |
| Correlation key, `app/utils/phone.py`, and the lookups of the callbacks | none | `phone_suffix`; `find_call_by_conversation`, `find_pending_call_by_phone`, `get_call` | `PhoneNumber`, `Correlation` |
| Greeting text, user context, masking, logging, configuration, health, operator scripts | none the flows depend on | | not modelled, see section 7 |

**How they interact.** A request to place a call inserts a record, then under one
process-wide `asyncio.Lock` registers the customer's variables with the bot and
posts a trigger, retried with back-off. Gnani dials, posts `dynamic-message` when
the customer answers, and `post-call` after the call, as often as it likes and in
any order; the two callbacks find the record by conversation id, by echoed call
id or by the phone suffix. Every change of a record is announced to the hub. The
handlers share one event loop: between two awaits a handler is atomic, across an
await anything can happen. On the JSON backend the store operations never suspend
(an uncontended `asyncio.Lock` does not yield), so there a handler runs through several of
its steps alone; on MongoDB every store operation is an await.

**What is hard.** What a handler read before an await and uses after it; retries
of webhooks, on several workers and after a failure; records matched by phone
number when several calls share it; one set of variables per bot; requests that
time out and are carried out all the same; crashes between two writes; the two
backends giving the same code different interleavings. Every such place is listed
with its line under `hazards` in `PROJECT.json`.

**What makes each component correct.**

- Lifecycle: an event takes effect once and on one call; the ledger that answers
  "duplicate" does not swallow events; calls are correlated with conversations of
  their own number; a webhook does not revive a finished call; a request is answered.
- Gnani client: a customer is never called with someone else's variables; the lock
  is always released; at most one dial per attempt.
- Guardrail: a stored promise to pay has a date that agrees with its code, nothing is
  promised that was not reported, redelivery does not move a date.
- JSON store: what was acknowledged survives; a crash leaves a whole file.
- Bulk upload: what is reported of each row is what was stored and triggered, unless the
  store fails between the two; the upload ends, and its rows are requests like any other.
- Correlation: a greeting finds the call it is for in whatever form the number is
  reported; a conversation is filed with another customer's call only if a body names that
  call or a blank conversation id ties the two together.
- Dashboard: a page told of every change ends up showing the store; its cards and its
  table agree or a reload is due; a row fetched on the news of a change is at least as new
  as the news; every outcome is counted once; sockets known to be dead go.

## 2. The modules

### CallLifecycle

One action per step between two awaits. `req[c]` is where the `initiate` that owns
call id `c` has got to; `task[w]` is what callback handler `w` holds: its step, the
conversation and event it handles, the call it found, and the status it read then.

| Code | Actions |
|---|---|
| `initiate` | `Initiate` (builds the record), `InsertCall`, `AcquireTriggerLock`, `TriggerCall`, then `RecordTriggered` or `RecordTriggerFailed`, then `AnswerRequest` (audit entry, broadcast, the record read back or the error raised again) |
| `resolve_greeting` | `GreetingArrives`, `GreetFind` (by conversation, then by phone), `GreetBind` or `GreetUnmatched` (dead letter) |
| `apply_post_call` | `PostCallArrives`, `RecordWebhookEvent` (the ledger), `PostFind` (by conversation, then by echoed id), `UnmatchedPostCall` (by the setting `AdoptConsoleCall` or `DeadLetterPostCall`), `ApplyPostCall` |
| Gnani | `Dial` (at most once per trigger attempt, during the request or after it), `ConsoleDials`, and the arrival of any callback, any number of times |
| faults | `Crash` (every handler is gone), `StoreFails` (one handler ends with a 500) |

`Backend` chooses the interleaving: `"mongo"` lets every step interleave, `"json"`
lets a handler that has not suspended go on alone (`Scheduled`, `RequestScheduled`,
`MidRun`). `AdoptConsoleCalls` is the setting; `EchoCallId` says whether Gnani sends our
`call_id` back. A lookup on a store with several matches returns any of them where
the code does not sort, and the newest where it does.

What is abstracted. Audit entries and broadcasts are folded into the step before
them, as they change nothing the flows read; in `initiate`, whose answer depends on them,
they have places of their own where they may fail: `lock` after the insert, `recorded` after
the trigger was recorded. A failed store operation is one without
effect: one that took effect and then raised is the failure of the following step.
The payload of a webhook, its disposition and the recording fields are one value,
the event, because they are written together. `TriggerCall` is the contract that
`GnaniTrigger` is checked to implement. Webhooks that fail validation are
dead-lettered by the router before any step here (`DeadLetterInvalid` of
`PostCallDisposition`). A phone is the suffix `phone_suffix` gives, and numbers are
taken to be long enough that every form reported of one gives the same suffix, the
blank number among them; what the digits do is `Correlation`'s.

### BulkUpload

Extends `CallLifecycle` by one handler of `bulk_upload` and its locals: the `file`, the
`line` it is at, the `current` call, and what it will report. A row is TRUE where
`InitialMessageRequest` accepts it. `InitiateRow` is `Initiate` of the lifecycle, whose
steps then run as for any request; `RowAccepted` and `RowFailed` are how it comes back,
returning or raising (`Returned`, `Raised`), which it may do after the trigger was
recorded. `SingleRequest` and the callbacks of
`Beside` compete with it; `CrashDuringUpload` kills it, after which the file may be
uploaded again. A client that leaves does not stop the handler, so it has no action.
`UploadSpec` implements `Spec` of the lifecycle (property and theorem).

### PhoneNumber and Correlation

`PhoneNumber` has the texts: the checks and normalisation of `phone_number` and
`country_code`, `digits_only`, `phone_suffix`, and the forms in which Gnani may write a
number (`Reported`, external, from the docstring of `phone.py`). A text is a sequence of
digits, plus signs and separators (`Char`). Both normalisations keep some characters of a
text in their order; `Only` says so by place and rank, without recursion, so that it can be
reasoned about.

`Correlation` uses them end to end, handlers one at a time: `InitialMessage` stores a call
under its key, `Dial` and `ConsoleDials` give a conversation its owner and the forms in which
it may report its number (`convs`), `Greeting` binds whatever `Greeted` finds (by
conversation, else the newest with the key), and `PostCallMatched` or `PostCallAdopted` file
a body. A greeting and a body carry the id of their conversation or a blank one (`IdOf`); a
body may name any stored call, an unknown one or none (`BodyOf`). `nameless` is a history
variable: which calls were bound by greetings without an id, and by which conversations.
Where several records carry one conversation id any of them is found, as on MongoDB.

### WebhookInbox

What the sender of webhooks is promised, with the store and the handlers left out:
one claim per event, one fate, a loss only by a fault. `CallLifecycle` implements it
under the mapping `Fate` (property `ImplementsInbox`, theorem `InboxImplemented`).

### GnaniTrigger and TriggerContract

`trigger_call` with the lock around it, against a platform with one set of variables.
Request 0 of a call registers variables; requests 1, 2, ... are the attempts of its trigger.
`wire` holds what was sent and not carried out; `GiveUp` (a timeout or a transport error)
leaves the request there or drops it, so that it may still be carried out later (`late`).
`Answer` allows a 5xx or an unreadable body for a request that was carried out.
`TriggerContract` is what `CallLifecycle` assumes: phases, and the number of dials of
a call. `PhaseAt` maps a place in the protocol to a phase.

### Guardrail, PostCallPayload and PostCallDisposition

`Guardrail` has `validate` and `resolve_ptp_date` as operators over a real calendar
(ordinals, leap years, month lengths). An utterance is the kind of expression it is, with
its number; the month arithmetic of `_resolve_day_of_month` and the order in which the
rules are tried are those of the code. `DateUtil` stands for the third-party parser and is
marked external.

`PostCallPayload` has the parsing of a body as operators: a body is what is filled at the
top, in `disposition_result`, in `post_call_extraction_v2` and in `call_infra`; the
flattening, the order of the aliases, the duration (given at the top or computed from the
two times), and the two checks that reject a body.

`PostCallDisposition` composes the two, with the service between them, in a machine that
makes them matter: a call on one day, its webhook handled on that day or the next or both
(`Midnight`), applied (`ApplyPostCall`) or dead-lettered (`DeadLetterInvalid`).

### JsonStore

One item per fact an operation writes (a call, its outcome, an event). An operation
changes memory, opens the temporary file, writes it, replaces the store file; a crash
or a failing write may come at each step. Beside it the cleanup script loads the file
and replaces it. `Item` sets stand for the documents; order does not matter except
that `list_calls` returns the newest `ListLimit`.

### CallListing and LiveDashboard

`CallListing` has what the server makes of the stored calls, as operators: the newest
`ListLimit` calls (`ListCalls`), the seven filters (`Matches`), the eight cards
(`Summarise`) over the groups of stage codes, and the chart (`StageDistribution`).

In `LiveDashboard` a call runs through the contents of its `History`. Handlers store, then
broadcast (`ChangeCall`), unless the audit entry between the two raises and nothing is
announced (`ChangeCallUnannounced`); the hub iterates over a copy of its sockets; a page is
rendered from the store under its filter (`Render`), then handles messages, fetches rows,
patches them, and reloads. `asOf` is the store its cards and chart were rendered from,
`view` the version of each row in its table: a patched row is newer than the cards, and is
not filtered again. Sockets break, with a close that reaches the server or in silence
(`silent`): a send to a silent one may raise or be lost. Answers of fetches arrive in any
order.

### The proof modules

| Module | About | Extends |
|---|---|---|
| `CallLifecycleProofs` | the lifecycle on both backends | `CallLifecycle` |
| `LifecycleJsonProofs` | the lifecycle on the JSON backend | `CallLifecycleProofs` |
| `BulkUploadProofs` | uploads | `BulkUpload`, `CallLifecycleProofs` |
| `GnaniTriggerProofs` | the client and its contract | `GnaniTrigger` |
| `PostCallDispositionProofs` | the disposition | `PostCallDisposition` |
| `JsonStoreProofs` | the store | `JsonStore` |
| `CorrelationProofs` | keys and lookups | `Correlation` |
| `LiveDashboardProofs` | the dashboard | `LiveDashboard` |

The `MC*` modules hold the symmetry sets and the values a `.cfg` cannot express (for the
dashboard and the correlation: the histories, filters and requests of the instance).

## 3. The runs

| Run | Instance | Distinct states | What it shows |
|---|---|---|---|
| `lifecycle_redelivery` | MongoDB, 1 API call, 1 conversation on the call's number or a blank one, 2 events, 2 handlers, 1 fault, console calls adopted | 678,584 | Redelivery, also concurrent and across a crash: an event writes once (`NeverReapplied`), to one call (`OneCallPerEvent`), is never swallowed without a fault (`LedgerAccounted`); a call is only bound to, and given the outcome of, conversations of its own number (`CorrelatedByPhone`); the flows implement the inbox (`ImplementsInbox`) |
| `lifecycle_json` | JSON, 2 calls on one number, 2 conversations, adoption | 949,786 | What the uninterrupted runs of the JSON backend add: one call per conversation, a completed call carries its own conversation's outcome, webhooks keep terminal statuses, greetings bind the newest call |
| `bulk_upload` | MongoDB, 2 calls sharing the lock, files of up to 2 rows, single requests beside, 1 conversation, 1 handler of callbacks, no adoption, 1 crash or failing store operation | 832,504 | What is reported of each row matches the store, but for a row whose answer failed after its trigger was recorded; an upload ends; it adds nothing to the lifecycle; every request is answered; every recorded event reaches a call or the dead letters unless a fault occurs |
| `lifecycle_stale_status` | MongoDB, 1 call | violation | finding 1 |
| `trigger_protocol` | 2 calls, 1 process, 3 attempts | 239,654 | No call with foreign variables unless a request was left behind, never a call without variables, the contract of the lifecycle, and termination |
| `trigger_precall_errors` | 1 call, 2 attempts | violation | finding 2 |
| `disposition` | 8 dates, offsets -1, 0, 1, 2, 90, 91, day numbers 0 to 31, flat bodies, the console's bodies, bodies that may be rejected | 21,184 | Promises are dated and agree with their code, nothing is invented, stored results validate again, a spoken day still to come is the first such day of this month and the next by a walk over the calendar, redelivery on another day changes nothing, both shapes of a body are read alike |
| `disposition_spoken_day` | the same | violation | finding 3 |
| `json_store` | 2 calls, 2 events, 1 failing write, 2 crashes, the script at any time | 2,154,916 | Acknowledged items are durable, duplicates ignored are durable, as long as the script runs while the server is down |
| `live_dashboard` | 4 calls, 3 of them listed at a time: one completed without a connection, one promised, one changed twice until it has an outcome, one created later; 1 page without or with a filter (on customer, promised day and status), 2 sockets, 1 drop (a lost connection, a failed fetch or a failed audit entry) | 324,733 | A page told of every change catches up, rows, cards and chart; cards match the table or a reload is due; every outcome is counted once; a row is answered at least as new as what was announced; sockets whose close arrives, or to which a send fails, leave the hub |
| `correlation` | 2 calls through the API out of 6 requests (2 invalid, 2 sharing a key, 1 shorter than the key), 1 adopted call, 2 conversations, greetings and bodies with or without an id, 1 body, digits 0 and 1, keys of 2 digits | 238,564 | A greeting finds its call in every form of the number; a customer's call is bound to conversations of its own only, and takes the outcome of another only from a body that names the call, or through a blank id that a greeting of its own had too |
| `correlation_answers` | the same | violation | finding 4 |

**Why the bounds are enough.** A violation of the lifecycle needs two handlers at work on
one event or one call, hence two workers; a third one would repeat what one of the two does.
Two events of one conversation are needed for "a later event replaced what it wrote", two
conversations on one number for wrong bindings (`lifecycle_json`), an empty number beside a
real one for a wrong match, one fault for a loss. There are as many call ids as calls and
adoptions the bounds allow (`EnoughCallIds`). Two rows make one that follows another, failed
or not; a file with one valid row leaves room for a single request beside it. Three attempts
make a first, a middle and a last one. The dates are the ends of months of every length, of
a leap and a common year and of a year, and the offsets sit on and next to each limit. In
the store, an item and a second one suffice to lose one and keep the other; two crashes
allow a crash of the recovery. Two sockets let a page hold one while its last one is still
in the hub. Four calls and a listing of three make a call leave the list while it is still
in a table; a call without a connection, one connected and one whose outcome comes later
give both cards and several bars of the chart something to count, before and after the first
is pushed out; two changes of a call let two fetches of its row cross, take it in and out of
a filter, and have it counted anew. One body suffices for `Correlation`: what a second one
does to the first is the lifecycle's, and greetings alone reach every binding of a
customer's call that a body may meet; `CustomersApart` is proved for any number of bodies.
Keys of two digits with numbers of one to three have a number on each side of the key's
length, two numbers that share a key, and a country code and a trunk 0 that reach into it;
lengths matter only relative to the key's.

`CHECK_DEADLOCK FALSE` stands where the bounds, or the end of all work, stop the
system legitimately.

## 4. Fairness

- `BulkUpload`, on the lifecycle: weak fairness of each callback handler's next step, and of
  `PlacingGoesOn`: of the upload and the requests, *some* step that is enabled is taken. The
  event loop runs every ready coroutine, httpx bounds requests by a timeout
  (`gnani_timeout_seconds`), the retries are bounded. Fairness of the whole suffices because
  the number of calls is bounded and each takes finitely many steps: the lock is free for
  good once the others have passed. Nothing makes Gnani deliver or an operator place a call.
- `GnaniTrigger`: weak fairness of the client (its timeouts always fire), strong fairness
  of taking the lock (`asyncio.Lock` is first come, first served). None for Gnani:
  `EveryTriggerEnds` holds though the platform never answers.
- `LiveDashboard`: weak fairness of the server's steps and of each page. None for new
  changes or for lost connections. `ToldPagesCatchUp` is conditional: `missed` records
  that some page was not told of a change it does not show, as it was not connected, its
  connection was lost or the announcement was. A close that reaches the server is handled;
  of a socket that died in silence nothing is assumed, and `DeadSocketsForgotten` leaves it
  out until a send to it raises.

Liveness that something *keeps* coming about is stated as `[]<>` of the settled states: a
request settled stays so, and the ledger forgets nothing.

## 5. What is proved

All theorems are about the specification of a module, for every value of its constants that
its named assumption allows (distinguished values differ, bounds are naturals, requests are
texts, days of calls are dates of the calendar, outcomes are stage codes, finitely many
calls are stored at the start): any number of calls, conversations, workers, events,
attempts, rows, sockets and faults. What a theorem assumes beyond that is in its third
column.

| Theorem | Statement | Under |
|---|---|---|
| **`CallLifecycleProofs`** | | |
| `TypeCorrect` | `Spec => []TypeOK` | |
| `OneCallPerEventHolds` | `Spec => []OneCallPerEvent` | |
| `LedgerIsAccounted` | `Spec => []LedgerAccounted` | |
| `NeverReappliedHolds` | `Spec => NeverReapplied` | |
| `InboxImplemented` | `Spec => ImplementsInbox`, the refinement of `WebhookInbox` | |
| `CorrelationHolds` | `Spec => []CorrelatedByPhone` | |
| **`LifecycleJsonProofs`** | | |
| `OneCallPerConversationHolds` | `Spec => []OneCallPerConversation` | `Backend = "json"` |
| `CompletedByOwnHolds` | `Spec => []CompletedByOwnConversation` | `Backend = "json"`, `~EchoCallId` |
| `WebhookKeepsTerminalHolds` | `Spec => WebhookKeepsTerminal` | `Backend = "json"` |
| `BindsNewestHolds` | `Spec => BindsNewest` | `Backend = "json"` |
| **`BulkUploadProofs`** | | |
| `UploadsAreRequestsHold` | `UploadSpec => UploadsAreRequests`, the refinement of the lifecycle | |
| `UploadsAreSafe` | `UploadSpec => [](OneCallPerEvent /\ LedgerAccounted /\ CorrelatedByPhone) /\ NeverReapplied /\ ImplementsInbox` | |
| `UploadTypesHold` | `UploadSpec => []UploadTypeOK` | |
| `ReportIsTrue` | `UploadSpec => []ReportMatchesStore` | |
| **`GnaniTriggerProofs`** | | |
| `TypesHold` | `Spec => []TypeOK` | |
| `OwnVariablesHold` | `Spec => []OwnVariables` | |
| `VariablesAlwaysKnown` | `Spec => []NeverWithoutVariables` | |
| `ContractImplemented` | `Spec => ImplementsContract`, the refinement of `TriggerContract` | `OneProcess` |
| **`PostCallDispositionProofs`** | | |
| `PromisesAreDated` | `Spec => PromiseIsDated` | |
| `StoredRevalidates` | `Spec => Revalidates` | |
| `NothingIsInvented` | `Spec => []NothingInvented` | |
| `StableDisposition` | `Spec => StableOverDays` | |
| `ShapesAgreeAlways` | `Spec => []ShapesAgree` | |
| `OrdinalsCountDays` | the day after a date of the calendar is one, its `Ordinal` one more | |
| `ComingDays` | "tomorrow" is the ordinal of the next day, a weekday the first such day 1 to 7 days ahead | |
| `SpokenDaysAreNext` | `Spec => []SpokenDayIsNext` | |
| **`JsonStoreProofs`** | | |
| `TypesHold` | `Spec => []TypeOK` | |
| `DuplicatesDurable` | `Spec => []DuplicateIsDurable` | |
| `AckedIsDurable` | `Spec => []AckedDurable` | `EveryCallListed` |
| **`CorrelationProofs`** | | |
| `CorrelationTypesHold` | `Spec => []CorrelationTypeOK` | |
| `CustomersApart` | `Spec => []CustomersKeptApart` | |
| `GreetingFindsIt` | `Spec => GreetingFindsTheCall` | |
| **`LiveDashboardProofs`** | | |
| `DashboardTypesHold` | `Spec => []TypeOK` | |
| `CardsMatch` | `Spec => []CardsMatchTable` | |
| `CardsAlwaysAddUp` | `Spec => []CardsAddUp` | |
| `AnswersAreNewsAlways` | `Spec => []AnswersAreNews` | |

**The hypotheses.** `Backend = "json"` chooses one of the two backends; on MongoDB
`WebhookKeepsTerminal` is false (finding 1). `~EchoCallId` is what `trigger_call` does: the
request to Gnani carries no call id of ours that a webhook could send back
(`docs/engineering_log.md:55`); were it echoed, a late webhook of an earlier conversation
would complete a call that another conversation has meanwhile. `OneProcess` is the
deployment `README.md` 6.6 asks for: the lock is one per process. `EveryCallListed` says that
there are not more calls than `list_calls` returns; without it the cleanup deletes what it is
not shown (section 6). `OwnVariables` itself holds for one process and while no request is
late, `GreetingFindsTheCall` for numbers as long as the key that nobody shares and an id,
blank as it may be, that no other call has: these are conditions of the properties, as they
are checked.

**What three statements say, and do not.** `ReportMatchesStore`: a row that is reported as
rejected is not stored as triggered, with one exception, a failure of the store between the
update that records the trigger and the return of `initiate` (`RaisedTriggered`); without a
fault there is none. `SpokenDayIsNext`: "the thirtieth" is the first thirtieth from the call
on, wherever it is, if it lies within this month or the next, and nothing otherwise; for
"30th" this is stated while the day is still to come (`DayStillToCome`). What the docstring
promises beyond that is `SpokenDayResolves`, which is false (finding 3).
`CustomersKeptApart`: bindings to an id are to conversations of the customer's own key,
without exception (as far as the numbers that placed them are as long as the key); a call
carries the blank id only if a greeting of one of its own conversations came without an id
(`GreetedBlank`); the outcome of somebody else's conversation gets to a call only from a
body that names the call, or a blank one while the call may carry the blank id.

**The invariants.** Hardly a property is inductive as it stands; each strengthening was
checked by TLC on small instances before it was proved.

- `InboxInv` (lifecycle) adds `TaskOK` (what a handler holds at each step: its event is that
  of its conversation, it is in the ledger once claimed, the call found is stored) and
  `ClaimsOK` (an event is in the hands of at most one handler, and while it is there it
  is neither applied nor dead-lettered; what a record carries has been applied).
  Without the exclusive claim, two handlers could apply one event to two calls: what
  prevents it is that ledger insert and duplicate check are one step. The proof goes by
  three kinds of step: quiet ones, the claim (`ClaimStep`), and the end of a claim
  (`ResolveStep`); faults only drop claims. The same invariant gives the action property
  and the refinement.
- `PhoneInv` (lifecycle) adds `PhonesOK`: conversations keep the number they were dialled on
  (`DialledOK`), fresh ids carry nothing (`UnusedOK`), and both the call a handler holds
  (`HeldOK`) and what is filed in a record (`FiledOK`) match in number. The frame lemmas
  (`RequestFrame`, `HandlerFrame`, `OtherFrame`) say that no step changes the number or
  origin of a call in use, which is what lets a match survive an await.
- `JsonInv` adds to these `RunInv`, what the uninterrupted runs of the JSON backend are worth:
  one coroutine at a time is inside a run (`AloneOK`), so what it has found out (the call is
  the newest of its number, the conversation is bound to none, the status is the one read)
  is still so when it writes (`FreshOK`). The steps are sorted by what they write
  (`BoundBy`, `AppliedBy`, `AdoptedBy`), and every property is read off that.
- `UploadInv` relates the handler's locals to the lifecycle: how a request has come out
  shows in its record (`OutcomeOK`; an error after a recorded response is one that a fault
  caused), each placed call belongs to one line (`PlacedOK`), and what was told of a line is
  final (`ToldOK`): a settled request is never taken up again, whatever callbacks do to its
  record.
- `TriggerInv`: who is past the lock holds it (`LockInv`), requests are numbered by the
  attempts made (`AttemptInv`, `WireInv`), each is carried out at most once (`DialInv`), a
  2xx not yet read is true (`ReplyInv`), variables precede triggers (`KnownInv`), and on one
  process without late requests only the awaited request is on the wire and the bot has the
  variables of the lock's holder (`CleanInv`). The refinement counts the dials of a call, a
  cardinality that one step raises by one.
- `StoreInv`: the file is never torn and the script's copy is the file (`FileInv`), what is
  about to replace it is the whole memory (`MemoryInv`), and without a failed write an idle
  server remembers nothing that is not in the file (`LedgerInv`). `AckedInv` is the
  strengthening of `AckedDurable`: what was acknowledged is in the file and, while the server
  is up, in memory, so that no later flush drops it.
- The proofs about the disposition go by the answers `validate` can give (`Answers`): the
  UNCLEAR one, a code without a date, a promise as reported, a promise with the code its day
  calls for. `Answered` (the record holds an answer to the code of this body) carries the
  invariant, `Settled` (a body that tells its day has the one disposition of that day) the
  stability. `ShapesAgree` needs of a body only that it has its fields (`IsBody`): a lone
  code is read whatever its alias (`OnlyCode`), `DISPOSITION` before all others
  (`FirstCode`).
- `CorrInv`: a stored record of ours has the key of its number (`KeysOK`), a conversation it
  placed reports a form of that number (`DialledOK`), what is bound to an id or filed has
  one of the reasons the property gives (`BoundOK`, `FiledOK`), and the blank id was bound
  by a greeting without one (`BlankOK`). A handler writes one call (`OneWritten`), and a
  conversation keeps its owner and a call its key, so that a reason stays one. Most of the
  work is about texts: `Only` keeps exactly the characters asked for (`OnlyAll`,
  `OnlyAfter`), hence the key of a text depends on its digits alone (`KeyOfDigits`), and the
  four forms of a number that is long enough have one key (`KeyAsReported`).
- `DashboardInv`: pages share no connection (`SocketsOK`), and without a reload due the table
  is the one that was rendered (`AsRendered`), as every patch arms the timer. The cards then
  match because the rows of a table are the listing it was rendered from (`RowsAreListing`).
  `NewsStored` says that whatever is announced, on its way through the hub or a socket, or
  asked for by a page is stored by then: a row is answered from the store of that moment, so
  `AnswersAreNews`. `StoreRecorded` (finitely many calls, each at a version its history has)
  makes the counts of `CardsAddUp` numbers.
- `CardsAddUp` compares sums folded over the chart. At most one function satisfies the equation
  of such a sum, as a smallest set on which two differ would have a smaller one
  (`SummingUnique`, by `WFMin` of the library, which takes a set and no operator); counting
  rows satisfies it (`CountSplits`), so the bars of the chart sum to a count (`SumOfCounts`).
- The calendar: `OrdinalOfNextMonth` and `YearTurn` carry ordinals over the ends of months and
  years, hence `OrdinalsCountDays`. The walk of `SpokenDayIsNext` is a recursive function:
  that it exists and where it stands after `k` days (`WalkExists`, `Reaching`) is an induction
  by a least counterexample again (`LeastOf`, `UpTo`), and the days within its reach are those
  of this month and the next (`NearDays`), among which `_resolve_day_of_month` chooses; what
  the walk finds beyond them is after `NextMonthEnds`.

The refinement of the lifecycle by an upload goes step by step (`HandlerStep`,
`BesideStep`, `UploadStep`): the call of a row is an `Initiate`, every other step of the
handler leaves the lifecycle's variables alone.

**Only model-checked.** Liveness, which is outside the prover's reach: `UploadEnds`,
`EveryRequestAnswered`, `EveryEventResolved`, `EveryTriggerEnds`, `ToldPagesCatchUp`,
`DeadSocketsForgotten`. Every other property of a passing run is stated by a theorem, with
the hypotheses of the table.

## 6. Findings

1. `lifecycle_stale_status`: on MongoDB a post-call webhook may overwrite a terminal
   status recorded after it read the call (`app/services/call_service.py:392`), against
   `docs/database_schema.md:171`. The trigger timed out, Gnani dialled all the same, and
   the webhook read the call before `TRIGGER_FAILED` was stored.
2. `trigger_precall_errors`: a timeout or transport error of the pre-call request is not
   a `GnaniError`, so the call stays INITIATED and the caller gets a 500, not the 502 or
   504 of `README.md:202`.
3. `disposition_spoken_day`: a day number that this month or the next has does not always
   become a date at or after the call. `resolve_ptp_date` asks dateutil before its own rule
   (`app/services/disposition.py:172`), and of "1st" said on 29 July dateutil makes 1 July:
   a day before the call, for which the guardrail drops the promise. "The thirtieth" said on
   31 January resolves to nothing, as February has none. `README.md:468` says that numeric
   ordinals resolve "with next-occurrence logic (this month, else next)", the docstring at
   `app/services/disposition.py:83` promises a date "at or after `reference`" and none only
   for a day "that does not exist in either candidate month".
4. `correlation_answers`: the greeting callback is answered 500 when it finds the record of
   an adopted call, whose `initial_message` is None (`app/services/call_service.py:284`): the
   conversation's webhook came first, or the mobile has no digits and the empty suffix of
   adopted records matches. `app/routers/gnani.py:40` says "Always answers 200."

Two more, found with these models and not among the runs:

- A `DISPOSITION` nested in the extraction, even a blank one, displaces a stage code given at
  the top level under another spelling (`app/models/schemas.py:254`), against the docstring
  at `app/models/schemas.py:242`, "Explicit top-level values always win", and
  `docs/engineering_log.md:153`.
- `scripts/clear_demo_data.py:70` keeps real calls only among the newest 500
  (`app/db/repository.py:304`): with a `ListLimit` below the number of calls, `AckedDurable`
  fails.

Seen while modelling, with no statement of the repository to check against: a greeting sets
any call it matches to IN_PROGRESS, a finished one too (`CompletedByOwnConversation` is
stated so as to allow it); an event recorded before a crash is lost, as its retries are
answered duplicate (the fate "lost" of `WebhookInbox`); `OwnVariables` needs one process,
and is conditional on no late request; a page misses what is announced between its rendering
and its registration, and while it reconnects (`missed`); a file uploaded again after a
crash dials again; a greeting from a mobile without digits rebinds the newest adopted
record; an upload reports a row as rejected although its customer is called, when the audit
entry or `get_call` fails after the trigger was recorded; a change whose audit entry fails
is never announced; a greeting with a blank conversation id binds a customer's call to it,
or finds the call that has it already, and every later body with a blank id is filed with
that call, whoever it is about; a national number shorter than the key is not found without
its country code, and with a trunk 0 may find another customer's call (the condition `Long`
of `Correlation`).

## 7. What is not modelled

- **Payload parsing** beyond the fields the flows decide on: values of a wrong type, the
  fields that only travel through, the lengths and amounts of the request that starts a call,
  and its defaults.
- **CSV decoding** of an upload: a row is accepted by validation or not. Several uploads at
  once: two are two sequences of requests, as `UploadsAreRequests` says of one.
- **The detail view** (`GET /calls/{call_id}`): it reads one record.
- **MongoDB**: indexes other than the unique one, BSON conversion, `ping`.
- **Greeting text, user context, masking, logging, configuration, health checks,
  operator scripts**: wording, presentation or plumbing; no state the flows decide on.
- **A crash of the machine**: `JsonStore` crashes the process; what was written stays.
- **A client that does not read its socket**: sends are instantaneous here. **Pings**, by which
  a server may find a socket that died in silence.

## 8. Plan

The order is that of importance: the lifecycle and its ledger; the client the lifecycle
relies on; payload and guardrail; the store; the dashboard; uploads; correlation by number.
These exist. Next:

1. Models: two API processes on one bot; the cleanup beside a running server; a bounded send
   buffer in the hub; what a page misses between rendering and registration.
2. Proofs: what remains on MongoDB of the properties now proved for the JSON backend, and under
   which conditions (with one callback handler nothing interleaves but requests); the safety
   that liveness rests on: while a call waits for the trigger lock, its holder can go on.

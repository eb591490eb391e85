-------------------------- MODULE LifecycleJsonProofs --------------------------
(***************************************************************************)
(* Proofs about CallLifecycle on the JSON backend, whose store operations  *)
(* never yield to the event loop: what a handler reads of the store is     *)
(* still so when it writes, in the same run.                               *)
(***************************************************************************)
EXTENDS CallLifecycleProofs

-----------------------------------------------------------------------------
(* Inductive invariants *)

Running(w) == task[w].pc \in MidRun
Unbound(v) == \A c \in stored : calls[c].conv # v
Newest(c) ==
  \A d \in stored : calls[d].phone = calls[c].phone => calls[d].created <= calls[c].created

\* One coroutine at a time is in the middle of a run.
AloneOK ==
  /\ \A w, u \in Worker : Running(w) /\ Running(u) => w = u
  /\ \A c, d \in CallId : req[c] = "insert" /\ req[d] = "insert" => c = d
  /\ \A w \in Worker, c \in CallId : Running(w) => req[c] # "insert"

\* A record not stored yet is as it was built.
InsertOK ==
  \A c \in CallId : req[c] = "insert" =>
    /\ c \notin stored /\ calls[c].origin = "api"
    /\ calls[c].conv = NoConv /\ calls[c].status = "INITIATED"

\* No step of initiate is about an adopted call, so it never fails.
AdoptedOK ==
  \A c \in stored : calls[c].origin = "gnani_console" =>
    req[c] = "adopted" /\ calls[c].status \in {"IN_PROGRESS", "COMPLETED"}

\* What a handler has found out is still so.  The adoption is followed by an
\* audit entry, after which a handler knows its call's origin only.
FreshBy(w) ==
  /\ task[w].pc \in {"greet_phone", "post_byid", "post_unknown"} =>
       Unbound(task[w].conv)
  /\ task[w].pc = "greet_bind" =>
       \/ calls[task[w].call].conv = task[w].conv
       \/ Unbound(task[w].conv) /\ Newest(task[w].call)
  /\ task[w].pc = "post_apply" =>
       /\ task[w].seen = calls[task[w].call].status
       /\ calls[task[w].call].conv = task[w].conv \/ EchoCallId
  /\ task[w].pc = "post_adopted" =>
       calls[task[w].call].origin = "gnani_console" /\ task[w].seen = "IN_PROGRESS"
FreshOK == \A w \in Worker : FreshBy(w)

RunInv == AloneOK /\ InsertOK /\ AdoptedOK /\ FreshOK
JsonInv == TypeInv /\ PhonesOK /\ RunInv

LEMMA InitRun == Init => RunInv
  BY DEF Init, RunInv, AloneOK, InsertOK, AdoptedOK, FreshOK, FreshBy, Running, MidRun, Idle

-----------------------------------------------------------------------------
(* One coroutine at a time *)

\* A handler's step leaves the other handlers and the inserts alone.
LEMMA HandlerAlone ==
  ASSUME Backend = "json", TypeInv, NEW w \in Worker, HandlerNext(w)
  PROVE  /\ \A u \in Worker \ {w} : task'[u] = task[u] /\ ~Running(u)
         /\ \A c \in CallId : req[c] # "insert" /\ req'[c] # "insert"
<1> USE DEF TypeInv, TypeOK
<1>1. Scheduled(w)
  BY DEF HandlerNext, GreetFind, GreetBind, GreetUnmatched, RecordWebhookEvent, PostFind,
         UnmatchedPostCall, AdoptConsoleCall, DeadLetterPostCall, ApplyPostCall
<1>2. \A u \in Worker \ {w} : task'[u] = task[u]
  BY DEF HandlerNext, GreetFind, GreetBind, GreetUnmatched, RecordWebhookEvent, PostFind,
         UnmatchedPostCall, AdoptConsoleCall, DeadLetterPostCall, ApplyPostCall,
         Lookup, Goto, Holding
<1>3. UNCHANGED req \/ \E c \in CallId : req' = [req EXCEPT ![c] = "adopted"]
  BY DEF HandlerNext, GreetFind, GreetBind, GreetUnmatched, RecordWebhookEvent, PostFind,
         UnmatchedPostCall, AdoptConsoleCall, DeadLetterPostCall, ApplyPostCall
<1>. QED
  BY <1>1, <1>2, <1>3 DEF Scheduled, Running

\* The steps of initiate, as far as the handlers are concerned.
LEMMA RequestAlone ==
  ASSUME Backend = "json", TypeInv, NEW c \in CallId, InitiateNext(c)
  PROVE  /\ UNCHANGED task
         /\ \A d \in CallId \ {c} : req'[d] = req[d]
         /\ (req'[c] = "insert" \/ calls' # calls) =>
              /\ \A w \in Worker : ~Running(w)
              /\ \A d \in CallId \ {c} : req[d] # "insert"
<1> USE DEF TypeInv, TypeOK, RequestScheduled, Running, store, gnani
<1>1. CASE \E p \in Phone : Initiate(c, p)
  BY <1>1 DEF Initiate
<1>2. CASE InsertCall(c)
  BY <1>2 DEF InsertCall
<1>3. CASE AcquireTriggerLock(c)
  BY <1>3 DEF AcquireTriggerLock
<1>4. CASE TriggerCall(c)
  BY <1>4 DEF TriggerCall, InTriggerLock
<1>5. CASE RecordTriggered(c)
  BY <1>5 DEF RecordTriggered
<1>6. CASE RecordTriggerFailed(c)
  BY <1>6 DEF RecordTriggerFailed
<1>7. CASE AnswerRequest(c)
  BY <1>7 DEF AnswerRequest
<1>. QED
  BY <1>1, <1>2, <1>3, <1>4, <1>5, <1>6, <1>7 DEF InitiateNext

\* Callbacks start, and faults end, between runs; neither touches the store.
LEMMA OtherAlone ==
  ASSUME TypeInv, GnaniNext \/ Crash \/ StoreFails
  PROVE  /\ UNCHANGED <<calls, stored>>
         /\ \A w \in Worker :
              task'[w] \in {task[w], Idle} \/ task'[w].pc \in {"greet_find", "post_record"}
         /\ \A c \in CallId : req'[c] = "insert" => req[c] = "insert"
         /\ \A c \in CallId : req[c] = "adopted" => req'[c] = "adopted"
<1> USE DEF TypeInv, TypeOK, store, gnani
<1>1. ASSUME NEW w \in Worker, NEW v \in Conv, GreetingArrives(w, v)
      PROVE  task'[w].pc = "greet_find" /\ \A u \in Worker \ {w} : task'[u] = task[u]
  BY <1>1 DEF GreetingArrives, Idle
<1>2. ASSUME NEW w \in Worker, NEW e \in Event, PostCallArrives(w, e)
      PROVE  task'[w].pc = "post_record" /\ \A u \in Worker \ {w} : task'[u] = task[u]
  BY <1>2 DEF PostCallArrives, Idle
<1>3. CASE GnaniNext
  BY <1>1, <1>2, <1>3 DEF GnaniNext, Dial, ConsoleDials, GreetingArrives, PostCallArrives
<1>4. CASE Crash
  BY <1>4 DEF Crash
<1>5. CASE StoreFails
  BY <1>5 DEF StoreFails
<1>. QED
  BY <1>3, <1>4, <1>5

LEMMA NextAlone ==
  ASSUME Backend = "json", TypeInv, AloneOK, [Next]_vars
  PROVE  AloneOK'
<1> USE DEF AloneOK
<1>1. ASSUME NEW w \in Worker, HandlerNext(w) PROVE AloneOK'
  BY <1>1, HandlerAlone DEF Running
<1>2. ASSUME NEW c \in CallId, InitiateNext(c) PROVE AloneOK'
  <2>1. CASE req'[c] = "insert"
    BY <1>2, <2>1, RequestAlone DEF Running
  <2>2. CASE req'[c] # "insert"
    <3>1. \A d \in CallId : req'[d] = "insert" => req[d] = "insert"
      BY <1>2, <2>2, RequestAlone
    <3>. QED
      BY <1>2, <3>1, RequestAlone DEF Running
  <2>. QED
    BY <2>1, <2>2
<1>3. CASE GnaniNext \/ Crash \/ StoreFails
  <2>1. \A w \in Worker : Running(w)' => Running(w)
    BY <1>3, OtherAlone DEF Running, MidRun, Idle
  <2>. QED
    BY <1>3, <2>1, OtherAlone
<1>4. CASE UNCHANGED vars
  BY <1>4 DEF vars, Running
<1>. QED
  BY <1>1, <1>2, <1>3, <1>4 DEF Next

-----------------------------------------------------------------------------
(* What a step writes *)

\* A step of initiate writes its own record, before it is stored, or its
\* response and failure after.
LEMMA RequestWrites ==
  ASSUME TypeInv, PhonesOK, InsertOK, NEW c \in CallId, InitiateNext(c)
  PROVE  /\ \A d \in CallId \ {c} : calls'[d] = calls[d]
         /\ \/ UNCHANGED stored
            \/ req[c] = "insert" /\ stored' = stored \cup {c} /\ UNCHANGED calls
         /\ c \in stored =>
              /\ calls'[c].conv = calls[c].conv /\ calls'[c].payload = calls[c].payload
              /\ calls'[c].status \in {calls[c].status, "TRIGGER_FAILED"}
              /\ calls'[c].created = calls[c].created
              /\ calls'[c] = calls[c] \/ req[c] \notin {"adopted", "unused"}
         /\ req'[c] = "insert" =>
              /\ c \notin stored' /\ calls'[c].origin = "api"
              /\ calls'[c].conv = NoConv /\ calls'[c].status = "INITIATED"
<1> USE DEF TypeInv, TypeOK, store, gnani
<1>1. CASE \E p \in Phone : Initiate(c, p)
  BY <1>1 DEF Initiate, ApiRecord, PhonesOK, UnusedOK
<1>2. CASE InsertCall(c)
  BY <1>2 DEF InsertCall
<1>3. CASE AcquireTriggerLock(c)
  BY <1>3 DEF AcquireTriggerLock
<1>4. CASE TriggerCall(c)
  BY <1>4 DEF TriggerCall
<1>5. CASE RecordTriggered(c)
  BY <1>5 DEF RecordTriggered, Record
<1>6. CASE RecordTriggerFailed(c)
  BY <1>6 DEF RecordTriggerFailed, Record
<1>7. CASE AnswerRequest(c)
  BY <1>7 DEF AnswerRequest
<1>. QED
  BY <1>1, <1>2, <1>3, <1>4, <1>5, <1>6, <1>7 DEF InitiateNext

\* A handler writes the call it holds, a greeting its conversation, a webhook
\* its payload; or it adopts an unused one.
BoundBy(w) ==
  LET k == task[w].call IN
    /\ task[w].pc = "greet_bind" /\ k \in stored /\ UNCHANGED stored
    /\ \A d \in CallId \ {k} : calls'[d] = calls[d]
    /\ calls'[k].conv = task[w].conv /\ calls'[k].status = "IN_PROGRESS"
    /\ calls'[k].payload = calls[k].payload
AppliedBy(w) ==
  LET k == task[w].call IN
    /\ task[w].pc \in {"post_apply", "post_adopted"} /\ k \in stored /\ UNCHANGED stored
    /\ \A d \in CallId \ {k} : calls'[d] = calls[d]
    /\ calls'[k].conv = calls[k].conv /\ calls'[k].payload = task[w].event
    /\ calls'[k].status = StatusAfter(w)
AdoptedBy(w) ==
  \E k \in CallId :
    /\ task[w].pc = "post_unknown" /\ req[k] = "unused" /\ req'[k] = "adopted"
    /\ k \notin stored /\ stored' = stored \cup {k}
    /\ \A d \in CallId \ {k} : calls'[d] = calls[d]
    /\ calls'[k].origin = "gnani_console" /\ calls'[k].status = "IN_PROGRESS"
    /\ calls'[k].conv = task[w].conv
    /\ task'[w].pc = "post_adopted" /\ task'[w].call = k
    /\ task'[w].seen = "IN_PROGRESS"

LEMMA HandlerWrites ==
  ASSUME TypeInv, PhonesOK, NEW w \in Worker, HandlerNext(w)
  PROVE  \/ BoundBy(w) /\ task'[w] = Idle /\ UNCHANGED req
         \/ AppliedBy(w) /\ task'[w] = Idle /\ UNCHANGED req
         \/ AdoptedBy(w) /\ \A d \in CallId : req[d] # "unused" => req'[d] = req[d]
         \/ UNCHANGED <<calls, stored, req>>
<1> USE DEF TypeInv, TypeOK, store
<1>1. CASE GreetBind(w)
  BY <1>1 DEF GreetBind, BoundBy, TaskOK, Binding, Record
<1>2. CASE ApplyPostCall(w)
  BY <1>2 DEF ApplyPostCall, AppliedBy, TaskOK, Binding, Record
<1>3. ASSUME NEW k \in CallId, AdoptConsoleCall(w, k)
      PROVE  AdoptedBy(w) /\ \A d \in CallId : req[d] # "unused" => req'[d] = req[d]
  <2>1. task' = [task EXCEPT ![w] =
           [task[w] EXCEPT !.pc = "post_adopted", !.call = k, !.seen = "IN_PROGRESS"]]
    BY <1>3 DEF AdoptConsoleCall
  <2>2. task'[w].pc = "post_adopted" /\ task'[w].call = k /\ task'[w].seen = "IN_PROGRESS"
    BY <2>1 DEF Task
  <2>. QED
    BY <1>3, <2>2 DEF AdoptConsoleCall, AdoptedBy, AdoptedRecord, PhonesOK, UnusedOK
<1>4. CASE GreetFind(w) \/ GreetUnmatched(w) \/ RecordWebhookEvent(w) \/ PostFind(w)
           \/ DeadLetterPostCall(w)
  BY <1>4 DEF GreetFind, GreetUnmatched, RecordWebhookEvent, PostFind, DeadLetterPostCall
<1>. QED
  BY <1>1, <1>2, <1>3, <1>4 DEF HandlerNext, UnmatchedPostCall

LEMMA NextInsert ==
  ASSUME Backend = "json", TypeInv, PhonesOK, InsertOK, [Next]_vars
  PROVE  InsertOK'
<1> USE DEF InsertOK
<1>1. ASSUME NEW w \in Worker, HandlerNext(w) PROVE InsertOK'
  BY <1>1, HandlerAlone
<1>2. ASSUME NEW c \in CallId, InitiateNext(c) PROVE InsertOK'
  BY <1>2, RequestWrites, RequestAlone
<1>3. CASE GnaniNext \/ Crash \/ StoreFails
  BY <1>3, OtherAlone
<1>4. CASE UNCHANGED vars
  BY <1>4 DEF vars, store
<1>. QED
  BY <1>1, <1>2, <1>3, <1>4 DEF Next

LEMMA NextAdopted ==
  ASSUME TypeInv, PhonesOK, InsertOK, AdoptedOK, [Next]_vars
  PROVE  AdoptedOK'
<1> USE DEF AdoptedOK
<1>0. /\ \A c \in stored : /\ c \in CallId /\ calls'[c].origin = calls[c].origin
                           /\ req[c] # "unused"
                           /\ req[c] = "adopted" => req'[c] = "adopted"
  BY NextFrame DEF Frame, PhonesOK, UnusedOK, TypeInv, TypeOK
<1>1. ASSUME NEW w \in Worker, HandlerNext(w) PROVE AdoptedOK'
  <2>1. CASE BoundBy(w)
    BY <1>0, <2>1 DEF BoundBy
  <2>2. CASE AppliedBy(w)
    BY <1>0, <2>2 DEF AppliedBy, StatusAfter
  <2>3. CASE AdoptedBy(w)
    BY <1>0, <2>3 DEF AdoptedBy
  <2>4. CASE UNCHANGED <<calls, stored, req>>
    BY <2>4
  <2>. QED
    BY <1>1, <2>1, <2>2, <2>3, <2>4, HandlerWrites
<1>2. ASSUME NEW c \in CallId, InitiateNext(c) PROVE AdoptedOK'
  <2>1. \A d \in stored : calls[d].origin = "gnani_console" => calls'[d] = calls[d]
    BY <1>0, <1>2, RequestWrites
  <2>2. \A d \in stored' \ stored : calls'[d].origin = "api"
    BY <1>2, RequestWrites DEF InsertOK
  <2>. QED
    BY <1>0, <2>1, <2>2
<1>3. CASE GnaniNext \/ Crash \/ StoreFails
  BY <1>0, <1>3, OtherAlone
<1>4. CASE UNCHANGED vars
  BY <1>4 DEF vars, store
<1>. QED
  BY <1>1, <1>2, <1>3, <1>4 DEF Next

-----------------------------------------------------------------------------
(* What a handler has found out stays so *)

\* Between two of its steps, a running handler sees the store unchanged and
\* any other keeps at most the call it adopted.
LEMMA FreshKept ==
  ASSUME TypeInv, PhonesOK, FreshOK, Frame, NEW w \in Worker,
         task'[w] \in {task[w], Idle},
         UNCHANGED <<calls, stored>> \/ ~Running(w)
  PROVE  FreshBy(w)'
<1>1. CASE task'[w] = Idle
  BY <1>1 DEF FreshBy, Idle
<1>2. CASE task'[w] = task[w] /\ UNCHANGED <<calls, stored>>
  BY <1>2 DEF FreshOK, FreshBy, Unbound, Newest
<1>3. CASE task'[w] = task[w] /\ ~Running(w)
  <2>1. task[w].pc = "post_adopted" =>
          calls'[task[w].call].origin = calls[task[w].call].origin
    BY DEF TypeInv, TypeOK, TaskOK, Binding, PhonesOK, UnusedOK, Frame
  <2>. QED
    BY <1>3, <2>1 DEF FreshOK, FreshBy, Running, MidRun
<1>. QED
  BY <1>1, <1>2, <1>3

\* A lookup gives a call and its status, or the knowledge that there is none.
LEMMA LookupFresh ==
  ASSUME TypeInv, FreshOK, NEW w \in Worker, GreetFind(w) \/ PostFind(w)
  PROVE  FreshBy(w)'
<1> USE DEF TypeInv, TypeOK
<1>1. UNCHANGED <<calls, stored>>
  BY DEF GreetFind, PostFind, store
<1>2. ASSUME NEW hit, NEW c \in stored, task' = Holding(w, hit, c)
      PROVE  /\ task'[w].pc = hit /\ task'[w].call = c /\ task'[w].conv = task[w].conv
             /\ task'[w].seen = calls[c].status
  BY <1>2 DEF Holding, Task
<1>3. ASSUME NEW miss, task' = Goto(w, miss)
      PROVE  task'[w].pc = miss /\ task'[w].conv = task[w].conv
  BY <1>3 DEF Goto, Task
<1>4. CASE task[w].pc \in {"greet_find", "post_find"}
  <2> DEFINE found == FindCallByConversation(task[w].conv)
  <2>1. PICK hit \in {"greet_bind", "post_apply"}, miss \in {"greet_phone", "post_byid"} :
          Lookup(w, found, hit, miss)
    BY <1>4 DEF GreetFind, PostFind
  <2>2. ASSUME NEW c \in found, task' = Holding(w, hit, c) PROVE FreshBy(w)'
    <3>1. c \in stored /\ calls[c].conv = task[w].conv
      BY DEF FindCallByConversation
    <3>. QED
      BY <1>1, <1>2, <2>2, <3>1 DEF FreshBy
  <2>3. ASSUME found = {}, task' = Goto(w, miss) PROVE FreshBy(w)'
    <3>1. Unbound(task[w].conv)
      BY <2>3 DEF FindCallByConversation, Unbound
    <3>. QED
      BY <1>1, <1>3, <2>3, <3>1 DEF FreshBy, Unbound
  <2>. QED
    BY <2>1, <2>2, <2>3 DEF Lookup
<1>5. CASE task[w].pc = "greet_phone"
  <2> DEFINE found == FindPendingCallByPhone(convs[task[w].conv].phone)
  <2>1. Lookup(w, found, "greet_bind", "greet_unmatched") /\ Unbound(task[w].conv)
    BY <1>5 DEF GreetFind, PostFind, FreshOK, FreshBy
  <2>2. ASSUME NEW c \in found, task' = Holding(w, "greet_bind", c) PROVE FreshBy(w)'
    <3>1. c \in stored /\ Newest(c)
      BY DEF FindPendingCallByPhone, Newest
    <3>. QED
      BY <1>1, <1>2, <2>1, <2>2, <3>1 DEF FreshBy, Unbound, Newest
  <2>3. ASSUME task' = Goto(w, "greet_unmatched") PROVE FreshBy(w)'
    BY <1>3, <2>3 DEF FreshBy
  <2>. QED
    BY <2>1, <2>2, <2>3 DEF Lookup
<1>6. CASE task[w].pc = "post_byid"
  <2> DEFINE found == EchoedCallId(task[w].event)
  <2>1. Lookup(w, found, "post_apply", "post_unknown") /\ Unbound(task[w].conv)
    BY <1>6 DEF GreetFind, PostFind, FreshOK, FreshBy
  <2>2. ASSUME NEW c \in found, task' = Holding(w, "post_apply", c) PROVE FreshBy(w)'
    <3>1. c \in stored /\ EchoCallId
      BY DEF EchoedCallId
    <3>. QED
      BY <1>1, <1>2, <2>2, <3>1 DEF FreshBy
  <2>3. ASSUME task' = Goto(w, "post_unknown") PROVE FreshBy(w)'
    BY <1>1, <1>3, <2>1, <2>3 DEF FreshBy, Unbound
  <2>. QED
    BY <2>1, <2>2, <2>3 DEF Lookup
<1>. QED
  BY <1>4, <1>5, <1>6 DEF GreetFind, PostFind

LEMMA NextFresh ==
  ASSUME Backend = "json", TypeInv, PhonesOK, RunInv, [Next]_vars
  PROVE  FreshOK'
<1>0. Frame
  BY NextFrame
<1> USE DEF RunInv
<1>1. ASSUME NEW w \in Worker, HandlerNext(w) PROVE FreshOK'
  <2>1. \A u \in Worker \ {w} : FreshBy(u)'
    BY <1>0, <1>1, HandlerAlone, FreshKept
  <2>2. FreshBy(w)'
    <3>1. CASE GreetFind(w) \/ PostFind(w)
      BY <3>1, LookupFresh
    <3>2. CASE task'[w] = Idle
      BY <3>2 DEF FreshBy, Idle
    <3>3. CASE AdoptedBy(w)
      BY <3>3 DEF AdoptedBy, FreshBy
    <3>4. CASE RecordWebhookEvent(w)
      <4>1. task'[w].pc \in {"idle", "post_find"}
        BY <3>4 DEF RecordWebhookEvent, Goto, Idle, TypeInv, TypeOK, Task
      <4>. QED
        BY <4>1 DEF FreshBy
    <3>5. CASE GreetUnmatched(w) \/ DeadLetterPostCall(w)
      BY <3>2, <3>5 DEF GreetUnmatched, DeadLetterPostCall, TypeInv, TypeOK
    <3>6. CASE GreetBind(w) \/ ApplyPostCall(w)
      BY <3>2, <3>6 DEF GreetBind, ApplyPostCall, TypeInv, TypeOK
    <3>7. CASE \E c \in CallId : AdoptConsoleCall(w, c)
      <4>1. ~BoundBy(w) /\ ~AppliedBy(w) /\ ~UNCHANGED req
        BY <3>7 DEF AdoptConsoleCall, BoundBy, AppliedBy, TypeInv, TypeOK
      <4>. QED
        BY <1>1, <3>3, <4>1, HandlerWrites
    <3>. QED
      BY <1>1, <3>1, <3>4, <3>5, <3>6, <3>7 DEF HandlerNext, UnmatchedPostCall
  <2>. QED
    BY <2>1, <2>2 DEF FreshOK
<1>2. ASSUME NEW c \in CallId, InitiateNext(c) PROVE FreshOK'
  <2>1. UNCHANGED <<calls, stored>> \/ \A w \in Worker : ~Running(w)
    <3>1. calls' # calls => \A w \in Worker : ~Running(w)
      BY <1>2, RequestAlone
    <3>2. stored' # stored => \A w \in Worker : ~Running(w)
      BY <1>2, RequestWrites DEF AloneOK
    <3>. QED
      BY <3>1, <3>2
  <2>. QED
    BY <1>0, <1>2, <2>1, RequestAlone, FreshKept DEF FreshOK
<1>3. CASE GnaniNext \/ Crash \/ StoreFails
  <2>1. ASSUME NEW w \in Worker, task'[w].pc \in {"greet_find", "post_record"}
        PROVE  FreshBy(w)'
    BY <2>1 DEF FreshBy
  <2>. QED
    BY <1>0, <1>3, <2>1, OtherAlone, FreshKept DEF FreshOK
<1>4. CASE UNCHANGED vars
  BY <1>0, <1>4, FreshKept DEF FreshOK, vars, store
<1>. QED
  BY <1>1, <1>2, <1>3, <1>4 DEF Next

-----------------------------------------------------------------------------
(* What holds of the JSON backend *)

LEMMA JsonInvariance ==
  ASSUME Backend = "json"
  PROVE  Spec => []JsonInv
<1>1. Init => JsonInv
  BY InitTypes, InitPhones, InitRun DEF JsonInv
<1>2. JsonInv /\ [Next]_vars => JsonInv'
  BY NextTypes, NextPhones, NextAlone, NextInsert, NextAdopted, NextFresh
     DEF JsonInv, RunInv
<1>. QED
  BY <1>1, <1>2, PTL DEF Spec

\* What a step does to the stored calls, in the terms of the properties.
Stores ==
  \/ /\ UNCHANGED stored
     /\ \A c \in stored :
          /\ calls'[c].conv = calls[c].conv /\ calls'[c].payload = calls[c].payload
          /\ calls'[c].status \in {calls[c].status, "TRIGGER_FAILED"}
          /\ calls[c].origin = "gnani_console" => calls'[c] = calls[c]
  \/ \E c \in CallId \ stored :
       /\ stored' = stored \cup {c} /\ \A d \in stored : calls'[d] = calls[d]
       /\ calls'[c].origin = "api" =>
            calls'[c].conv = NoConv /\ calls'[c].status = "INITIATED"
       /\ calls'[c].conv # NoConv => Unbound(calls'[c].conv)
  \/ \E w \in Worker : BoundBy(w) \/ AppliedBy(w)

LEMMA NextStores ==
  ASSUME JsonInv, [Next]_vars
  PROVE  Stores
<1> USE DEF JsonInv, RunInv
<1>1. ASSUME NEW w \in Worker, HandlerNext(w) PROVE Stores
  <2>1. CASE AdoptedBy(w)
    <3>1. PICK k \in CallId \ stored :
            /\ stored' = stored \cup {k} /\ \A d \in CallId \ {k} : calls'[d] = calls[d]
            /\ calls'[k].origin = "gnani_console" /\ calls'[k].conv = task[w].conv
            /\ task[w].pc = "post_unknown"
      BY <2>1 DEF AdoptedBy
    <3>2. Unbound(task[w].conv)
      BY <3>1 DEF FreshOK, FreshBy
    <3>. QED
      BY <3>1, <3>2 DEF Stores, TypeInv, TypeOK
  <2>2. CASE UNCHANGED <<calls, stored, req>>
    BY <2>2 DEF Stores
  <2>. QED
    BY <1>1, <2>1, <2>2, HandlerWrites DEF Stores
<1>2. ASSUME NEW c \in CallId, InitiateNext(c) PROVE Stores
  <2>1. CASE UNCHANGED stored
    <3>1. \A d \in stored : calls[d].origin = "gnani_console" => calls'[d] = calls[d]
      BY <1>2, RequestWrites DEF AdoptedOK, TypeInv, TypeOK
    <3>. QED
      BY <1>2, <2>1, <3>1, RequestWrites DEF Stores, TypeInv, TypeOK
  <2>2. CASE req[c] = "insert" /\ stored' = stored \cup {c} /\ UNCHANGED calls
    BY <2>2 DEF InsertOK, Stores
  <2>. QED
    BY <1>2, <2>1, <2>2, RequestWrites
<1>3. CASE GnaniNext \/ Crash \/ StoreFails
  BY <1>3, OtherAlone DEF Stores
<1>4. CASE UNCHANGED vars
  BY <1>4 DEF vars, store, Stores
<1>. QED
  BY <1>1, <1>2, <1>3, <1>4 DEF Next

\* find_call_by_conversation has one answer at most on the JSON backend: a
\* greeting that binds an older call, and an adoption, both found the
\* conversation unbound in the run in which they write it.
THEOREM OneCallPerConversationHolds ==
  ASSUME Backend = "json"
  PROVE  Spec => []OneCallPerConversation
<1> USE DEF JsonInv, RunInv
<1>1. Init => OneCallPerConversation
  BY DEF Init, OneCallPerConversation
<1>2. ASSUME JsonInv, OneCallPerConversation, [Next]_vars PROVE OneCallPerConversation'
  <2>1. ASSUME NEW w \in Worker, BoundBy(w) PROVE OneCallPerConversation'
    <3>1. \/ calls[task[w].call].conv = task[w].conv
          \/ Unbound(task[w].conv)
      BY <1>2, <2>1 DEF BoundBy, FreshOK, FreshBy
    <3>2. /\ stored \subseteq CallId /\ task[w].call \in stored /\ UNCHANGED stored
          /\ \A d \in CallId \ {task[w].call} : calls'[d] = calls[d]
          /\ calls'[task[w].call].conv = task[w].conv
      BY <1>2, <2>1 DEF BoundBy, TypeInv, TypeOK
    <3>. QED
      BY <1>2, <3>1, <3>2 DEF OneCallPerConversation, Unbound
  <2>2. ASSUME NEW w \in Worker, AppliedBy(w) PROVE OneCallPerConversation'
    <3>1. UNCHANGED stored /\ \A c \in stored : calls'[c].conv = calls[c].conv
      BY <1>2, <2>2 DEF AppliedBy, TypeInv, TypeOK
    <3>. QED
      BY <1>2, <3>1 DEF OneCallPerConversation
  <2>3. CASE UNCHANGED stored /\ \A c \in stored : calls'[c].conv = calls[c].conv
    BY <1>2, <2>3 DEF OneCallPerConversation
  <2>4. ASSUME NEW c \in CallId \ stored, stored' = stored \cup {c},
               \A d \in stored : calls'[d] = calls[d],
               calls'[c].conv # NoConv => Unbound(calls'[c].conv)
        PROVE  OneCallPerConversation'
    BY <1>2, <2>4 DEF OneCallPerConversation, Unbound
  <2>. QED
    BY <1>2, <2>1, <2>2, <2>3, <2>4, NextStores DEF Stores
<1>. QED
  BY <1>1, <1>2, JsonInvariance, PTL DEF Spec

\* A completed API call carries the outcome of the conversation it is bound
\* to: a later greeting takes it out of COMPLETED, and a late webhook of the
\* earlier conversation no longer finds it.  With an echoed call_id it would.
THEOREM CompletedByOwnHolds ==
  ASSUME Backend = "json", ~EchoCallId
  PROVE  Spec => []CompletedByOwnConversation
<1> USE DEF JsonInv, RunInv
<1>1. Init => CompletedByOwnConversation
  BY DEF Init, CompletedByOwnConversation
<1>2. ASSUME JsonInv, CompletedByOwnConversation, [Next]_vars
      PROVE  CompletedByOwnConversation'
  <2>0. stored \subseteq CallId /\ \A c \in stored : calls'[c].origin = calls[c].origin
    BY <1>2, NextFrame DEF Frame, PhonesOK, UnusedOK, TypeInv, TypeOK
  <2>1. ASSUME NEW w \in Worker, BoundBy(w) PROVE CompletedByOwnConversation'
    BY <1>2, <2>0, <2>1 DEF BoundBy, CompletedByOwnConversation
  <2>2. ASSUME NEW w \in Worker, AppliedBy(w) PROVE CompletedByOwnConversation'
    <3> DEFINE k == task[w].call
    <3>1. /\ k \in stored /\ UNCHANGED stored
          /\ \A d \in CallId \ {k} : calls'[d] = calls[d]
          /\ calls'[k].conv = calls[k].conv /\ calls'[k].payload = task[w].event
      BY <2>2 DEF AppliedBy
    <3>2. /\ task[w].event \in Event /\ task[w].event # NoEvent
          /\ task[w].event.conv = task[w].conv
      BY <1>2, <2>2, NoEventAssumption DEF AppliedBy, TypeInv, TaskOK, Claiming
    <3>3. calls[k].origin = "api" => calls[k].conv = task[w].conv
      BY <1>2, <2>2 DEF AppliedBy, FreshOK, FreshBy
    <3>. QED
      BY <1>2, <2>0, <3>1, <3>2, <3>3 DEF CompletedByOwnConversation
  <2>3. CASE /\ UNCHANGED stored
             /\ \A c \in stored :
                  /\ calls'[c].conv = calls[c].conv
                  /\ calls'[c].payload = calls[c].payload
                  /\ calls'[c].status \in {calls[c].status, "TRIGGER_FAILED"}
    BY <1>2, <2>0, <2>3 DEF CompletedByOwnConversation
  <2>4. ASSUME NEW c \in CallId \ stored, stored' = stored \cup {c},
               \A d \in stored : calls'[d] = calls[d],
               calls'[c].origin = "api" => calls'[c].status = "INITIATED"
        PROVE  CompletedByOwnConversation'
    BY <1>2, <2>4 DEF CompletedByOwnConversation
  <2>. QED
    BY <1>2, <2>1, <2>2, <2>3, <2>4, NextStores DEF Stores
<1>. QED
  BY <1>1, <1>2, JsonInvariance, PTL DEF Spec

\* On the JSON backend the status a webhook decides on is the one it writes
\* over, so no terminal status is ever overwritten; a call just adopted may
\* have been completed before its own webhook applies, and stays so.
THEOREM WebhookKeepsTerminalHolds ==
  ASSUME Backend = "json"
  PROVE  Spec => WebhookKeepsTerminal
<1> DEFINE Keeps == \A w \in Worker, c \in CallId :
             ApplyPostCall(w) /\ calls[c].status \in TerminalStatuses =>
               calls'[c].status = calls[c].status
<1>1. ASSUME JsonInv, [Next]_vars PROVE [Keeps]_vars
  <2> SUFFICES ASSUME NEW w \in Worker, NEW c \in CallId, ApplyPostCall(w),
                      calls[c].status \in TerminalStatuses
               PROVE  calls'[c].status = calls[c].status
    OBVIOUS
  <2> USE DEF JsonInv, RunInv
  <2>1. /\ task[w].call \in stored /\ stored \subseteq CallId
        /\ calls'[task[w].call].status = StatusAfter(w)
        /\ \A d \in CallId \ {task[w].call} : calls'[d] = calls[d]
    BY <1>1 DEF ApplyPostCall, TypeInv, TypeOK, TaskOK, Binding, Record
  <2>2. CASE task[w].pc = "post_apply"
    BY <1>1, <2>1, <2>2 DEF StatusAfter, FreshOK, FreshBy, TerminalStatuses
  <2>3. CASE task[w].pc = "post_adopted"
    <3>1. calls[task[w].call].status \in {"IN_PROGRESS", "COMPLETED"}
      BY <1>1, <2>1, <2>3 DEF FreshOK, FreshBy, AdoptedOK
    <3>. QED
      BY <1>1, <2>1, <2>3, <3>1 DEF StatusAfter, FreshOK, FreshBy, TerminalStatuses
  <2>. QED
    BY <2>2, <2>3 DEF ApplyPostCall
<1>. QED
  BY <1>1, JsonInvariance, PTL DEF Spec, WebhookKeepsTerminal

\* On the JSON backend a greeting that binds a call to a conversation not its
\* own binds the newest call of the number: the lookup and the update are one
\* run, in which no newer call can be stored.
THEOREM BindsNewestHolds ==
  ASSUME Backend = "json"
  PROVE  Spec => BindsNewest
<1> DEFINE Binds == \A c, d \in stored :
             /\ calls'[c].conv # calls[c].conv
             /\ calls[d].phone = calls[c].phone
             => calls[d].created <= calls[c].created
<1>1. ASSUME JsonInv, [Next]_vars PROVE [Binds]_vars
  <2> USE DEF JsonInv, RunInv
  <2>1. ASSUME NEW w \in Worker, BoundBy(w) PROVE Binds
    <3>1. \/ calls[task[w].call].conv = task[w].conv
          \/ Newest(task[w].call)
      BY <1>1, <2>1 DEF BoundBy, FreshOK, FreshBy
    <3>2. /\ \A c \in stored \ {task[w].call} : calls'[c] = calls[c]
          /\ calls'[task[w].call].conv = task[w].conv
      BY <1>1, <2>1 DEF BoundBy, TypeInv, TypeOK
    <3>. QED
      BY <3>1, <3>2 DEF Newest
  <2>2. ASSUME NEW w \in Worker, AppliedBy(w) PROVE Binds
    <3>1. \A c \in stored : calls'[c].conv = calls[c].conv
      BY <1>1, <2>2 DEF AppliedBy, TypeInv, TypeOK
    <3>. QED
      BY <3>1
  <2>. QED
    BY <1>1, <2>1, <2>2, NextStores DEF Stores
<1>. QED
  BY <1>1, JsonInvariance, PTL DEF Spec, BindsNewest
=============================================================================

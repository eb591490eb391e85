----------------------------- MODULE Correlation -----------------------------
(***************************************************************************)
(* Who a callback is about: the keys by which resolve_greeting and         *)
(* apply_post_call (app/services/call_service.py) find a call, from the    *)
(* texts that reach the service to the answers its routers give.           *)
(* CallLifecycle takes a number for a value that comes back as it was      *)
(* sent and every conversation for one with an id; here a number is        *)
(* checked, stored and reported back in another form, a greeting or a body *)
(* may come with a blank id, and a body may name any call.  Handlers run   *)
(* one at a time: what they may do to each other is CallLifecycle's.       *)
(***************************************************************************)
EXTENDS PhoneNumber, FiniteSets

CONSTANTS
  CallId, Conv,
  NoCall, Foreign,  \* no call_id; one that names no call of this service
  BlankConv,        \* conversation_id ""
  NoConv, NoBody, Console,
  Requests,         \* [phone, country] of requests
  ConsoleMobiles,   \* what a conversation from the console reports
  MaxRequests,      \* bound: calls started through the API
  MaxBodies         \* bound: distinct post-call bodies

ASSUME CorrelationAssumption ==
  /\ {NoCall, Foreign, Console} \cap CallId = {}
  /\ {BlankConv, NoConv} \cap Conv = {} /\ BlankConv # NoConv
  /\ MaxRequests \in Nat /\ MaxBodies \in Nat
  /\ \A request \in Requests :
       request.phone \in Seq(Char) /\ request.country \in Seq(Char)
  /\ ConsoleMobiles \subseteq Seq(Char)

\* A post-call body, with the conversation it is really about.
Body == [conv: Conv \cup {BlankConv}, call: CallId \cup {NoCall, Foreign}, of: Conv]

VARIABLES
  calls,    \* call_id -> its document
  stored,
  convs,    \* Gnani: conversation -> its owner and the mobiles it may report
  ledger,   \* bodies recorded in webhook_events
  nameless  \* history: <<call, conversation>> of the greetings without an id

vars == <<calls, stored, convs, ledger, nameless>>

CorrelationTypeOK ==
  /\ stored \subseteq CallId
  /\ \A c \in stored :
       /\ calls[c].origin \in {"api", "gnani_console"}
       /\ calls[c].created \in 1..Cardinality(stored)
       /\ calls[c].conv \in Conv \cup {BlankConv, NoConv}
       /\ calls[c].outcome \in ledger \cup {NoBody}
  /\ \A v \in Conv : convs[v].owner \in stored \cup {Console, NoCall}
  /\ ledger \subseteq Body
  /\ nameless \subseteq stored \X Conv

Unused ==
  [origin |-> "gnani_console", country |-> <<>>, national |-> <<>>, suffix |-> <<>>,
   created |-> 0, conv |-> NoConv, greeting |-> FALSE, outcome |-> NoBody]

Init ==
  /\ calls = [c \in CallId |-> Unused]
  /\ stored = {} /\ ledger = {} /\ nameless = {}
  /\ convs = [v \in Conv |-> [owner |-> NoCall, reports |-> {}]]

-----------------------------------------------------------------------------
(* POST /api/Initial_Message *)

ApiRecord(request) ==
  LET national == National(request.phone)
      country == CountryDigits(request.country)
  IN  [Unused EXCEPT !.origin = "api", !.country = country, !.national = national,
                     !.suffix = PhoneSuffix(E164(country, national)),
                     !.created = Cardinality(stored) + 1, !.greeting = TRUE]

\* A request that fails a check is answered 422 and leaves no trace.
InitialMessage(c, request) ==
  /\ c \notin stored
  /\ Cardinality({d \in stored : calls[d].origin = "api"}) < MaxRequests
  /\ ValidPhone(request.phone) /\ ValidCountryCode(request.country)
  /\ calls' = [calls EXCEPT ![c] = ApiRecord(request)]
  /\ stored' = stored \cup {c}
  /\ UNCHANGED <<convs, ledger, nameless>>

-----------------------------------------------------------------------------
(* Gnani *)

Dial(c, v) ==
  /\ c \in stored /\ calls[c].origin = "api"
  /\ convs[v].owner = NoCall
  /\ LET reports == Reported(calls[c].country, calls[c].national)
     IN  convs' = [convs EXCEPT ![v] = [owner |-> c, reports |-> reports]]
  /\ UNCHANGED <<calls, stored, ledger, nameless>>

ConsoleDials(v, mobile) ==
  /\ convs[v].owner = NoCall
  /\ convs' = [convs EXCEPT ![v] = [owner |-> Console, reports |-> {mobile}]]
  /\ UNCHANGED <<calls, stored, ledger, nameless>>

-----------------------------------------------------------------------------
(* The lookups *)

ByConversation(v) == {c \in stored : calls[c].conv = v}

\* Mutant: a number that ends as the one reported.
ByPhoneEnding(suffix) ==
  LET n == Len(suffix)
      matches == {c \in stored :
        LET own == calls[c].suffix
        IN  n <= Len(own) /\ SubSeq(own, Len(own) - n + 1, Len(own)) = suffix}
  IN  {c \in matches : \A d \in matches : calls[d].created <= calls[c].created}

ByPhone(suffix) ==
  LET matches == {c \in stored : calls[c].suffix = suffix}
  IN  {c \in matches : \A d \in matches : calls[d].created <= calls[c].created}

OrElse(found, otherwise) == IF found # {} THEN found ELSE otherwise

-----------------------------------------------------------------------------
(* POST /api/v1/gnani/dynamic-message *)

\* The callback of a conversation carries its id or a blank one.
IdOf(v) == {v, BlankConv}

Greeted(id, mobile) == OrElse(ByConversation(id), ByPhone(PhoneSuffix(mobile)))

\* Whatever is found is bound, to a blank id too; a conversation nobody knows
\* is greeted and dead-lettered.
Greeting(v, id, mobile) ==
  /\ convs[v].owner # NoCall /\ mobile \in convs[v].reports
  /\ \E c \in Greeted(id, mobile) :
       /\ calls' = [calls EXCEPT ![c].conv = id]
       /\ nameless' = IF id = BlankConv THEN nameless \cup {<<c, v>>} ELSE nameless
  /\ UNCHANGED <<stored, convs, ledger>>

\* The text of the response is mandatory: it cannot be built from a record
\* without an initial_message.
AnswerTo(c) == IF calls[c].greeting THEN 200 ELSE 500

-----------------------------------------------------------------------------
(* POST /api/v1/webhooks/post-call *)

\* The body of a conversation: its id may be missing, and the call_id may be
\* missing or name any call.
BodyOf(v) == [conv: IdOf(v), of: {v}, call: {NoCall, Foreign} \cup stored]
Identified(body) == body.conv # BlankConv \/ body.call # NoCall

ByCallId(id) == {id} \cap stored

\* created_at is the call's own start, if the body tells it.
AdoptedRecord(body, t) == [Unused EXCEPT !.conv = body.conv, !.created = t]

Found(body) == OrElse(ByConversation(body.conv), ByCallId(body.call))

\* A body without any id is dead-lettered as invalid, one that was recorded
\* before is ignored: neither reaches a call.
Arrives(v, body) ==
  /\ convs[v].owner # NoCall
  /\ Identified(body)
  /\ body \notin ledger /\ Cardinality(ledger) < MaxBodies

\* Mutant: the body is not recorded.
PostCallMatchedUnrecorded(v, body) ==
  /\ Arrives(v, body)
  /\ \E c \in Found(body) : calls' = [calls EXCEPT ![c].outcome = body]
  /\ UNCHANGED <<stored, convs, ledger, nameless>>

PostCallMatched(v, body) ==
  /\ Arrives(v, body)
  /\ \E c \in Found(body) : calls' = [calls EXCEPT ![c].outcome = body]
  /\ ledger' = ledger \cup {body}
  /\ UNCHANGED <<stored, convs, nameless>>

\* _adopt_console_call, then the outcome as for any other call.
PostCallAdopted(v, body, c) ==
  /\ Arrives(v, body)
  /\ Found(body) = {} /\ c \notin stored
  /\ \E t \in 1..Cardinality(stored) + 1 :
       calls' = [calls EXCEPT ![c] = [AdoptedRecord(body, t) EXCEPT !.outcome = body]]
  /\ stored' = stored \cup {c}
  /\ ledger' = ledger \cup {body}
  /\ UNCHANGED <<convs, nameless>>

Next ==
  \/ \E c \in CallId, request \in Requests : InitialMessage(c, request)
  \/ \E c \in CallId, v \in Conv : Dial(c, v)
  \/ \E v \in Conv, mobile \in ConsoleMobiles : ConsoleDials(v, mobile)
  \/ \E v \in Conv : \E id \in IdOf(v), mobile \in convs[v].reports : Greeting(v, id, mobile)
  \/ \E v \in Conv : \E body \in BodyOf(v) : PostCallMatched(v, body)
  \/ \E v \in Conv, c \in CallId : \E body \in BodyOf(v) : PostCallAdopted(v, body, c)

Spec == Init /\ [][Next]_vars

-----------------------------------------------------------------------------
(* Properties *)

Long(c) == Len(calls[c].national) >= SuffixLength
SameKey(c, d) == calls[c].suffix = calls[d].suffix

\* The greeting of a dialled call finds that call by its number, however Gnani
\* writes it, if the number has the digits of the key, nobody shares them and
\* no other call has the id, blank as it may be.
GreetingFindsTheCall ==
  [][\A c \in stored, v \in Conv : \A id \in IdOf(v), mobile \in convs[v].reports :
       /\ convs[v].owner = c /\ Long(c)
       /\ \A d \in stored \ {c} : ~SameKey(c, d)
       /\ ByConversation(id) \subseteq {c}
       /\ Greeting(v, id, mobile)
       => calls'[c].conv = id]_vars

\* A conversation that may be about a customer's call: one of a customer with
\* the same key, or one of the console that reports it, which one without a
\* number does not.  Numbers shorter than the key are not covered.
OwnConversation(c, v) ==
  LET owner == convs[v].owner
  IN  IF owner = Console
        THEN /\ \E mobile \in convs[v].reports : PhoneSuffix(mobile) = calls[c].suffix
             /\ calls[c].suffix # <<>>
        ELSE Long(owner) => SameKey(c, owner)

\* A greeting of one of its own conversations came without an id.
GreetedBlank(c) == \E v \in Conv : <<c, v>> \in nameless /\ OwnConversation(c, v)

\* A customer's call is bound to conversations of its own only, and to the
\* blank id only by a greeting of one of its own.  It takes the outcome of one
\* that is not its own only from a body that names the call, or that has no id
\* once a greeting of its own had none either.
CustomersKeptApart ==
  \A c \in stored : calls[c].origin = "api" =>
    /\ calls[c].conv \in Conv => OwnConversation(c, calls[c].conv)
    /\ calls[c].conv = BlankConv => GreetedBlank(c)
    /\ LET body == calls[c].outcome
       IN  body # NoBody => \/ OwnConversation(c, body.of)
                            \/ body.call = c
                            \/ body.conv = BlankConv /\ GreetedBlank(c)

\* A greeting callback, whichever conversation it is about, with or without an
\* id and whenever it comes, is answered 200.
AlwaysAnswers200 ==
  \A v \in Conv : \A id \in IdOf(v), mobile \in convs[v].reports :
    \A c \in Greeted(id, mobile) : AnswerTo(c) = 200
=============================================================================

---------------------------- MODULE GnaniTrigger ----------------------------
(***************************************************************************)
(* GnaniClient.trigger_call of app/services/gnani_client.py under          *)
(* CallService._trigger_lock, against a platform that keeps one set of     *)
(* pre-call variables per bot and dials with whatever set it holds.        *)
(*                                                                         *)
(* Request 0 of a call registers its variables, request n >= 1 is the n-th *)
(* attempt of its trigger.  A request the client gave up on (a timeout, a  *)
(* broken connection) may be lost or may still be carried out later.       *)
(***************************************************************************)
EXTENDS Naturals, FiniteSets

CONSTANTS
  Call,
  Process,      \* API processes; each has a trigger lock of its own
  ProcessOf,    \* the process a call was posted to
  NoCall,
  MaxAttempts   \* settings.gnani_max_retries, the first attempt included

ASSUME TriggerAssumption ==
  /\ NoCall \notin Call
  /\ MaxAttempts \in Nat \ {0}
  /\ ProcessOf \in [Call -> Process]

Request == Call \X (0..MaxAttempts)
Phase == {"waiting", "precall", "trigger", "backoff"}
GnaniErrors == {"timeout", "unavailable", "rejected"}
Outcome == {"ok", "escaped"} \cup GnaniErrors
Reply == {"none", "2xx", "garbled", "4xx", "5xx"}

VARIABLES
  pc,        \* where trigger_call is, or how it ended
  attempt,   \* the request the call waits for, or sent last
  lock,      \* holder of the trigger lock of each process
  reply,     \* answer to that request, not yet read by the client
  wire,      \* Gnani: requests sent and not carried out
  botVars,   \* Gnani: the call whose variables the bot holds
  dialled,   \* Gnani: calls placed, with the attempt and the variables used
  late       \* a request the client gave up on was left on the wire

gnani == <<wire, botVars, dialled>>
vars == <<pc, attempt, lock, reply, gnani, late>>

TypeOK ==
  /\ pc \in [Call -> Phase \cup Outcome]
  /\ attempt \in [Call -> 0..MaxAttempts]
  /\ lock \in [Process -> Call \cup {NoCall}]
  /\ reply \in [Call -> Reply]
  /\ wire \subseteq Request
  /\ botVars \in Call \cup {NoCall}
  /\ dialled \subseteq [call: Call, n: 1..MaxAttempts, vars: Call \cup {NoCall}]
  /\ late \in BOOLEAN

Init ==
  /\ pc = [c \in Call |-> "waiting"]
  /\ attempt = [c \in Call |-> 0]
  /\ lock = [p \in Process |-> NoCall]
  /\ reply = [c \in Call |-> "none"]
  /\ wire = {} /\ dialled = {}
  /\ botVars = NoCall
  /\ late = FALSE

-----------------------------------------------------------------------------
(* The client *)

Send(c, n) ==
  /\ attempt' = [attempt EXCEPT ![c] = n]
  /\ wire' = wire \cup {<<c, n>>}
  /\ reply' = [reply EXCEPT ![c] = "none"]

\* Mutant: an exception that is not a GnaniError leaves the lock held.
ReturnLeaky(c, outcome) ==
  /\ pc' = [pc EXCEPT ![c] = outcome]
  /\ lock' = IF outcome = "escaped" THEN lock
             ELSE [lock EXCEPT ![ProcessOf[c]] = NoCall]

\* trigger_call returns or raises; the lock is released either way.
Return(c, outcome) ==
  /\ pc' = [pc EXCEPT ![c] = outcome]
  /\ lock' = [lock EXCEPT ![ProcessOf[c]] = NoCall]

\* Mutant: no lock.
StartPreCallUnlocked(c) ==
  /\ pc[c] = "waiting"
  /\ pc' = [pc EXCEPT ![c] = "precall"]
  /\ lock' = [lock EXCEPT ![ProcessOf[c]] = c]
  /\ Send(c, 0)
  /\ UNCHANGED <<botVars, dialled, late>>

StartPreCall(c) ==
  /\ pc[c] = "waiting"
  /\ lock[ProcessOf[c]] = NoCall
  /\ pc' = [pc EXCEPT ![c] = "precall"]
  /\ lock' = [lock EXCEPT ![ProcessOf[c]] = c]
  /\ Send(c, 0)
  /\ UNCHANGED <<botVars, dialled, late>>

\* Mutant: the status of the pre-call answer is not looked at.
PreCallAnsweredUnchecked(c) ==
  /\ pc[c] = "precall"
  /\ reply[c] # "none"
  /\ pc' = [pc EXCEPT ![c] = "trigger"]
  /\ Send(c, 1)
  /\ UNCHANGED <<lock, botVars, dialled, late>>

PreCallAnswered(c) ==
  /\ pc[c] = "precall"
  /\ \/ /\ reply[c] = "2xx"
        /\ pc' = [pc EXCEPT ![c] = "trigger"]
        /\ Send(c, 1)
        /\ UNCHANGED lock
     \/ /\ reply[c] \in {"4xx", "5xx"}
        /\ Return(c, "rejected")
        /\ UNCHANGED <<attempt, wire, reply>>
     \/ /\ reply[c] = "garbled"
        /\ Return(c, "escaped")
        /\ UNCHANGED <<attempt, wire, reply>>
  /\ UNCHANGED <<botVars, dialled, late>>

\* Mutant: one attempt too many.
RetryOrRaiseOnceMore(c, outcome) ==
  IF attempt[c] <= MaxAttempts
    THEN pc' = [pc EXCEPT ![c] = "backoff"] /\ UNCHANGED lock
    ELSE Return(c, outcome)

\* AsyncRetrying: wait and try again, or reraise after the last attempt.
RetryOrRaise(c, outcome) ==
  IF attempt[c] < MaxAttempts
    THEN pc' = [pc EXCEPT ![c] = "backoff"] /\ UNCHANGED lock
    ELSE Return(c, outcome)

TriggerAnswered(c) ==
  /\ pc[c] = "trigger"
  /\ \/ reply[c] = "2xx" /\ Return(c, "ok")
     \/ reply[c] = "garbled" /\ Return(c, "escaped")
     \/ reply[c] = "4xx" /\ Return(c, "rejected")
     \/ reply[c] = "5xx" /\ RetryOrRaise(c, "unavailable")
  /\ UNCHANGED <<attempt, reply, gnani, late>>

Retry(c) ==
  /\ pc[c] = "backoff"
  /\ pc' = [pc EXCEPT ![c] = "trigger"]
  /\ Send(c, attempt[c] + 1)
  /\ UNCHANGED <<lock, botVars, dialled, late>>

\* An httpx timeout or transport error.  Only _post_trigger is retried and
\* only its errors are translated: those of the pre-call request escape.
GiveUp(c) ==
  /\ \/ pc[c] = "precall" /\ Return(c, "escaped")
     \/ /\ pc[c] = "trigger"
        /\ \E e \in {"timeout", "unavailable"} : RetryOrRaise(c, e)
  /\ LET request == <<c, attempt[c]>>
     IN  \E lost \in SUBSET {request} :
           /\ wire' = wire \ lost
           /\ late' = (late \/ request \in wire \ lost)
  /\ UNCHANGED <<attempt, reply, botVars, dialled>>

ClientNext(c) ==
  \/ StartPreCall(c) \/ PreCallAnswered(c)
  \/ TriggerAnswered(c) \/ Retry(c) \/ GiveUp(c)

-----------------------------------------------------------------------------
(* Gnani carries out a request, on time or late *)

Awaited(c, n) == pc[c] \in {"precall", "trigger"} /\ attempt[c] = n

\* A 5xx may be the answer to a request that was carried out all the same.
Answers(done) == IF done THEN {"2xx", "garbled", "5xx"} ELSE {"4xx", "5xx"}

Answer(c, n, done) ==
  /\ <<c, n>> \in wire
  /\ wire' = wire \ {<<c, n>>}
  /\ IF Awaited(c, n)
       THEN \E r \in Answers(done) : reply' = [reply EXCEPT ![c] = r]
       ELSE UNCHANGED reply
  /\ UNCHANGED <<pc, attempt, lock, late>>

SetVariables(c) ==
  /\ Answer(c, 0, TRUE)
  /\ botVars' = c
  /\ UNCHANGED dialled

PlaceCall(c, n) ==
  /\ Answer(c, n, TRUE)
  /\ dialled' = dialled \cup {[call |-> c, n |-> n, vars |-> botVars]}
  /\ UNCHANGED botVars

Refuse(c, n) ==
  /\ Answer(c, n, FALSE)
  /\ UNCHANGED <<botVars, dialled>>

PlatformNext(c) ==
  \/ SetVariables(c)
  \/ \E n \in 1..MaxAttempts : PlaceCall(c, n)
  \/ \E n \in 0..MaxAttempts : Refuse(c, n)

Next == \E c \in Call : ClientNext(c) \/ PlatformNext(c)

Spec == Init /\ [][Next]_vars

\* A client waits for a request no longer than its timeout, asyncio.Lock is
\* first come first served, and tenacity's waits are bounded.
FairSpec ==
  Spec /\ \A c \in Call : SF_vars(StartPreCall(c)) /\ WF_vars(ClientNext(c))

-----------------------------------------------------------------------------
(* Properties *)

\* A customer is never called with another customer's name, loan and amount,
\* unless a request the client gave up on is carried out late.
OneProcess == \A p, q \in Process : p = q
UsesOwnVariables == \A d \in dialled : d.vars = d.call
OwnVariables == OneProcess /\ ~late => UsesOwnVariables

\* Nobody is called before some call's variables were accepted, late requests
\* and further processes or not.
NeverWithoutVariables == \A d \in dialled : d.vars # NoCall

\* trigger_call keeps what CallLifecycle assumes of it.
Dials(c) == Cardinality({d \in dialled : d.call = c})
PhaseAt(step, n) ==
  CASE step \in {"waiting", "precall"} -> step
    [] step \in {"trigger", "backoff"} -> "trigger"
    [] step = "ok" -> "placed"
    [] step \in Outcome \ {"ok"} /\ n = 0 -> "unsent"
    [] step \in GnaniErrors /\ n > 0 -> "failed"
    [] step = "escaped" /\ n > 0 -> "error"
PhaseOf(c) == PhaseAt(pc[c], attempt[c])
Contract == INSTANCE TriggerContract
  WITH phase <- [c \in Call |-> PhaseOf(c)], dials <- [c \in Call |-> Dials(c)]
ImplementsContract == Contract!Spec

\* Whatever the platform does, no call waits for the lock or for Gnani forever.
EveryTriggerEnds == \A c \in Call : <>(pc[c] \in Outcome)

-----------------------------------------------------------------------------
(* Statements of the documentation the code does not keep *)

\* README: 502 Gnani rejected or unreachable, 504 Gnani timeout; an exception
\* that is not a GnaniError is answered 500.
FailuresAreGnaniErrors == \A c \in Call : pc[c] \in Outcome => pc[c] # "escaped"
=============================================================================

-------------------------- MODULE GnaniTriggerProofs --------------------------
(* Proofs about GnaniTrigger. *)
EXTENDS GnaniTrigger, FiniteSetTheorems, TLAPS

-----------------------------------------------------------------------------
(* Inductive invariants *)

Busy(c) == pc[c] \in {"precall", "trigger", "backoff"}
DialledFor(c) == {d \in dialled : d.call = c}

\* Who is inside trigger_call past the lock holds the lock of its process.
LockInv == \A c \in Call : Busy(c) => lock[ProcessOf[c]] = c

\* The pre-call request is number 0, triggers count from 1, and a client
\* backs off only while it has attempts left.
AttemptInv ==
  \A c \in Call :
    /\ pc[c] \in {"waiting", "precall"} => attempt[c] = 0
    /\ pc[c] \in {"trigger", "backoff", "ok"} => attempt[c] > 0
    /\ pc[c] = "backoff" => attempt[c] < MaxAttempts

\* Nothing is on the wire that was not sent.
WireInv ==
  \A c \in Call, n \in 0..MaxAttempts :
    <<c, n>> \in wire => pc[c] # "waiting" /\ n <= attempt[c]

\* A call was placed by a request that was sent and is off the wire, and a
\* request places one call.
DialInv ==
  /\ \A d \in dialled : d.n <= attempt[d.call] /\ <<d.call, d.n>> \notin wire
  /\ \A d, e \in dialled : d.call = e.call /\ d.n = e.n => d = e

\* A 2xx that a client has not read yet tells the truth.
ReplyInv ==
  \A c \in Call :
    /\ pc[c] = "precall" /\ reply[c] = "2xx" => botVars # NoCall
    /\ pc[c] = "trigger" /\ reply[c] = "2xx" => DialledFor(c) # {}

\* Variables come before triggers, and the bot never forgets the last ones.
KnownInv ==
  /\ \A c \in Call, n \in 1..MaxAttempts : <<c, n>> \in wire => botVars # NoCall
  /\ \A c \in Call : pc[c] \in {"trigger", "backoff"} => botVars # NoCall

\* While no request is late, only the awaited one is on the wire, so the
\* variables are those of the lock's holder from its pre-call answer on.
CleanInv ==
  OneProcess /\ ~late =>
    /\ \A c \in Call, n \in 0..MaxAttempts :
         <<c, n>> \in wire => Awaited(c, n) /\ reply[c] = "none"
    /\ \A c \in Call :
         \/ pc[c] \in {"trigger", "backoff"}
         \/ pc[c] = "precall" /\ reply[c] = "2xx"
         => botVars = c

TriggerInv ==
  /\ TypeOK
  /\ LockInv
  /\ AttemptInv /\ WireInv /\ DialInv
  /\ ReplyInv /\ KnownInv /\ NeverWithoutVariables
  /\ CleanInv /\ OwnVariables

-----------------------------------------------------------------------------
(* Each part is preserved by every step *)

\* Requests, replies and records stay in their sets.
LEMMA TypeStep ==
  ASSUME TypeOK, AttemptInv, [Next]_vars
  PROVE  TypeOK'
<1> USE TriggerAssumption DEF TypeOK, Phase, Outcome, GnaniErrors, Reply, Request
<1>1. ASSUME NEW c \in Call, StartPreCall(c) PROVE TypeOK'
  BY <1>1 DEF StartPreCall, Send
<1>2. ASSUME NEW c \in Call, PreCallAnswered(c) PROVE TypeOK'
  BY <1>2 DEF PreCallAnswered, Send, Return
<1>3. ASSUME NEW c \in Call, TriggerAnswered(c) PROVE TypeOK'
  BY <1>3 DEF TriggerAnswered, RetryOrRaise, Return, gnani
<1>4. ASSUME NEW c \in Call, Retry(c) PROVE TypeOK'
  BY <1>4 DEF AttemptInv, Retry, Send
<1>5. ASSUME NEW c \in Call, GiveUp(c) PROVE TypeOK'
  BY <1>5 DEF GiveUp, RetryOrRaise, Return
<1>6. ASSUME NEW c \in Call, SetVariables(c) PROVE TypeOK'
  BY <1>6 DEF SetVariables, Answer, Answers, Awaited
<1>7. ASSUME NEW c \in Call, NEW n \in 1..MaxAttempts, PlaceCall(c, n) PROVE TypeOK'
  BY <1>7 DEF PlaceCall, Answer, Answers, Awaited
<1>8. ASSUME NEW c \in Call, NEW n \in 0..MaxAttempts, Refuse(c, n) PROVE TypeOK'
  BY <1>8 DEF Refuse, Answer, Answers, Awaited
<1>9. CASE UNCHANGED vars
  BY <1>9 DEF vars, gnani
<1>. QED
  BY <1>1, <1>2, <1>3, <1>4, <1>5, <1>6, <1>7, <1>8, <1>9
  DEF Next, ClientNext, PlatformNext

\* The lock is released by its holder only.
LEMMA LockStep ==
  ASSUME TypeOK, LockInv, [Next]_vars
  PROVE  LockInv'
<1> USE TriggerAssumption DEF TypeOK, LockInv, Busy
<1>1. ASSUME NEW c \in Call, StartPreCall(c) PROVE LockInv'
  BY <1>1 DEF StartPreCall, Send
<1>2. ASSUME NEW c \in Call, PreCallAnswered(c) PROVE LockInv'
  BY <1>2 DEF PreCallAnswered, Send, Return
<1>3. ASSUME NEW c \in Call, TriggerAnswered(c) PROVE LockInv'
  BY <1>3 DEF TriggerAnswered, RetryOrRaise, Return, gnani
<1>4. ASSUME NEW c \in Call, Retry(c) PROVE LockInv'
  BY <1>4 DEF Retry, Send
<1>5. ASSUME NEW c \in Call, GiveUp(c) PROVE LockInv'
  BY <1>5 DEF GiveUp, RetryOrRaise, Return
<1>6. ASSUME NEW c \in Call, SetVariables(c) PROVE LockInv'
  BY <1>6 DEF SetVariables, Answer, Answers, Awaited
<1>7. ASSUME NEW c \in Call, NEW n \in 1..MaxAttempts, PlaceCall(c, n) PROVE LockInv'
  BY <1>7 DEF PlaceCall, Answer, Answers, Awaited
<1>8. ASSUME NEW c \in Call, NEW n \in 0..MaxAttempts, Refuse(c, n) PROVE LockInv'
  BY <1>8 DEF Refuse, Answer, Answers, Awaited
<1>9. CASE UNCHANGED vars
  BY <1>9 DEF vars, gnani
<1>. QED
  BY <1>1, <1>2, <1>3, <1>4, <1>5, <1>6, <1>7, <1>8, <1>9
  DEF Next, ClientNext, PlatformNext

\* Attempts are counted from the pre-call's end on.
LEMMA AttemptStep ==
  ASSUME TypeOK, AttemptInv, [Next]_vars
  PROVE  AttemptInv'
<1> USE TriggerAssumption DEF TypeOK, AttemptInv, GnaniErrors, Outcome
<1>1. ASSUME NEW c \in Call, StartPreCall(c) PROVE AttemptInv'
  BY <1>1 DEF StartPreCall, Send
<1>2. ASSUME NEW c \in Call, PreCallAnswered(c) PROVE AttemptInv'
  BY <1>2 DEF PreCallAnswered, Send, Return
<1>3. ASSUME NEW c \in Call, TriggerAnswered(c) PROVE AttemptInv'
  BY <1>3 DEF TriggerAnswered, RetryOrRaise, Return, gnani
<1>4. ASSUME NEW c \in Call, Retry(c) PROVE AttemptInv'
  BY <1>4 DEF Retry, Send
<1>5. ASSUME NEW c \in Call, GiveUp(c) PROVE AttemptInv'
  BY <1>5 DEF GiveUp, RetryOrRaise, Return
<1>6. ASSUME NEW c \in Call, SetVariables(c) PROVE AttemptInv'
  BY <1>6 DEF SetVariables, Answer, Answers, Awaited
<1>7. ASSUME NEW c \in Call, NEW n \in 1..MaxAttempts, PlaceCall(c, n) PROVE AttemptInv'
  BY <1>7 DEF PlaceCall, Answer, Answers, Awaited
<1>8. ASSUME NEW c \in Call, NEW n \in 0..MaxAttempts, Refuse(c, n) PROVE AttemptInv'
  BY <1>8 DEF Refuse, Answer, Answers, Awaited
<1>9. CASE UNCHANGED vars
  BY <1>9 DEF vars, gnani
<1>. QED
  BY <1>1, <1>2, <1>3, <1>4, <1>5, <1>6, <1>7, <1>8, <1>9
  DEF Next, ClientNext, PlatformNext

\* Only Send puts a request on the wire, and it counts it.
LEMMA WireStep ==
  ASSUME TypeOK, AttemptInv, WireInv, [Next]_vars
  PROVE  WireInv'
<1> USE TriggerAssumption DEF TypeOK, AttemptInv, WireInv, GnaniErrors, Outcome
<1>1. ASSUME NEW c \in Call, StartPreCall(c) PROVE WireInv'
  BY <1>1 DEF StartPreCall, Send
<1>2. ASSUME NEW c \in Call, PreCallAnswered(c) PROVE WireInv'
  BY <1>2 DEF PreCallAnswered, Send, Return
<1>3. ASSUME NEW c \in Call, TriggerAnswered(c) PROVE WireInv'
  BY <1>3 DEF TriggerAnswered, RetryOrRaise, Return, gnani
<1>4. ASSUME NEW c \in Call, Retry(c) PROVE WireInv'
  BY <1>4 DEF Retry, Send
<1>5. ASSUME NEW c \in Call, GiveUp(c) PROVE WireInv'
  BY <1>5 DEF GiveUp, RetryOrRaise, Return
<1>6. ASSUME NEW c \in Call, SetVariables(c) PROVE WireInv'
  BY <1>6 DEF SetVariables, Answer, Answers, Awaited
<1>7. ASSUME NEW c \in Call, NEW n \in 1..MaxAttempts, PlaceCall(c, n) PROVE WireInv'
  BY <1>7 DEF PlaceCall, Answer, Answers, Awaited
<1>8. ASSUME NEW c \in Call, NEW n \in 0..MaxAttempts, Refuse(c, n) PROVE WireInv'
  BY <1>8 DEF Refuse, Answer, Answers, Awaited
<1>9. CASE UNCHANGED vars
  BY <1>9 DEF vars, gnani
<1>. QED
  BY <1>1, <1>2, <1>3, <1>4, <1>5, <1>6, <1>7, <1>8, <1>9
  DEF Next, ClientNext, PlatformNext

\* A request leaves the wire as its call is placed, and no number is sent twice.
LEMMA DialStep ==
  ASSUME TypeOK, AttemptInv, WireInv, DialInv, [Next]_vars
  PROVE  DialInv'
<1> USE TriggerAssumption DEF TypeOK, AttemptInv, WireInv, DialInv
<1>1. ASSUME NEW c \in Call, StartPreCall(c) PROVE DialInv'
  BY <1>1 DEF StartPreCall, Send
<1>2. ASSUME NEW c \in Call, PreCallAnswered(c) PROVE DialInv'
  BY <1>2 DEF PreCallAnswered, Send, Return
<1>3. ASSUME NEW c \in Call, TriggerAnswered(c) PROVE DialInv'
  BY <1>3 DEF TriggerAnswered, RetryOrRaise, Return, gnani
<1>4. ASSUME NEW c \in Call, Retry(c) PROVE DialInv'
  BY <1>4 DEF Retry, Send
<1>5. ASSUME NEW c \in Call, GiveUp(c) PROVE DialInv'
  BY <1>5 DEF GiveUp, RetryOrRaise, Return
<1>6. ASSUME NEW c \in Call, SetVariables(c) PROVE DialInv'
  BY <1>6 DEF SetVariables, Answer, Answers, Awaited
<1>7. ASSUME NEW c \in Call, NEW n \in 1..MaxAttempts, PlaceCall(c, n) PROVE DialInv'
  BY <1>7 DEF PlaceCall, Answer, Answers, Awaited
<1>8. ASSUME NEW c \in Call, NEW n \in 0..MaxAttempts, Refuse(c, n) PROVE DialInv'
  BY <1>8 DEF Refuse, Answer, Answers, Awaited
<1>9. CASE UNCHANGED vars
  BY <1>9 DEF vars, gnani
<1>. QED
  BY <1>1, <1>2, <1>3, <1>4, <1>5, <1>6, <1>7, <1>8, <1>9
  DEF Next, ClientNext, PlatformNext

\* Only an answer to a request that was carried out is a 2xx.
LEMMA ReplyStep ==
  ASSUME TypeOK, AttemptInv, ReplyInv, [Next]_vars
  PROVE  ReplyInv'
<1> USE TriggerAssumption DEF TypeOK, AttemptInv, ReplyInv, DialledFor
<1>1. ASSUME NEW c \in Call, StartPreCall(c) PROVE ReplyInv'
  BY <1>1 DEF StartPreCall, Send
<1>2. ASSUME NEW c \in Call, PreCallAnswered(c) PROVE ReplyInv'
  BY <1>2 DEF PreCallAnswered, Send, Return
<1>3. ASSUME NEW c \in Call, TriggerAnswered(c) PROVE ReplyInv'
  BY <1>3 DEF TriggerAnswered, RetryOrRaise, Return, gnani
<1>4. ASSUME NEW c \in Call, Retry(c) PROVE ReplyInv'
  BY <1>4 DEF Retry, Send
<1>5. ASSUME NEW c \in Call, GiveUp(c) PROVE ReplyInv'
  BY <1>5 DEF GiveUp, RetryOrRaise, Return
<1>6. ASSUME NEW c \in Call, SetVariables(c) PROVE ReplyInv'
  BY <1>6 DEF SetVariables, Answer, Answers, Awaited
<1>7. ASSUME NEW c \in Call, NEW n \in 1..MaxAttempts, PlaceCall(c, n) PROVE ReplyInv'
  <2>1. /\ UNCHANGED <<pc, botVars>>
        /\ \A d \in Call \ {c} : reply'[d] = reply[d]
        /\ reply'[c] # reply[c] => Awaited(c, n)
    BY <1>7 DEF PlaceCall, Answer
  <2>2. [call |-> c, n |-> n, vars |-> botVars] \in DialledFor(c)'
    BY <1>7 DEF PlaceCall
  <2>3. \A d \in Call : DialledFor(d) \subseteq DialledFor(d)'
    BY <1>7 DEF PlaceCall
  <2>. QED
    BY <2>1, <2>2, <2>3 DEF Awaited
<1>8. ASSUME NEW c \in Call, NEW n \in 0..MaxAttempts, Refuse(c, n) PROVE ReplyInv'
  BY <1>8 DEF Refuse, Answer, Answers, Awaited
<1>9. CASE UNCHANGED vars
  BY <1>9 DEF vars, gnani
<1>. QED
  BY <1>1, <1>2, <1>3, <1>4, <1>5, <1>6, <1>7, <1>8, <1>9
  DEF Next, ClientNext, PlatformNext

\* A trigger is sent after a pre-call answered 2xx.
LEMMA KnownStep ==
  ASSUME TypeOK, AttemptInv, ReplyInv, KnownInv, [Next]_vars
  PROVE  KnownInv'
<1> USE TriggerAssumption DEF TypeOK, AttemptInv, ReplyInv, KnownInv
<1>1. ASSUME NEW c \in Call, StartPreCall(c) PROVE KnownInv'
  BY <1>1 DEF StartPreCall, Send
<1>2. ASSUME NEW c \in Call, PreCallAnswered(c) PROVE KnownInv'
  BY <1>2 DEF PreCallAnswered, Send, Return
<1>3. ASSUME NEW c \in Call, TriggerAnswered(c) PROVE KnownInv'
  BY <1>3 DEF TriggerAnswered, RetryOrRaise, Return, gnani
<1>4. ASSUME NEW c \in Call, Retry(c) PROVE KnownInv'
  BY <1>4 DEF Retry, Send
<1>5. ASSUME NEW c \in Call, GiveUp(c) PROVE KnownInv'
  BY <1>5 DEF GiveUp, RetryOrRaise, Return
<1>6. ASSUME NEW c \in Call, SetVariables(c) PROVE KnownInv'
  BY <1>6 DEF SetVariables, Answer, Answers, Awaited
<1>7. ASSUME NEW c \in Call, NEW n \in 1..MaxAttempts, PlaceCall(c, n) PROVE KnownInv'
  BY <1>7 DEF PlaceCall, Answer, Answers, Awaited
<1>8. ASSUME NEW c \in Call, NEW n \in 0..MaxAttempts, Refuse(c, n) PROVE KnownInv'
  BY <1>8 DEF Refuse, Answer, Answers, Awaited
<1>9. CASE UNCHANGED vars
  BY <1>9 DEF vars, gnani
<1>. QED
  BY <1>1, <1>2, <1>3, <1>4, <1>5, <1>6, <1>7, <1>8, <1>9
  DEF Next, ClientNext, PlatformNext

\* Only the holder of the lock has a request on the wire, until one is late.
LEMMA CleanStep ==
  ASSUME TypeOK, LockInv, AttemptInv, CleanInv, [Next]_vars
  PROVE  CleanInv'
<1> USE TriggerAssumption DEF TypeOK, LockInv, Busy, AttemptInv, CleanInv, OneProcess, Awaited
<1>1. ASSUME NEW c \in Call, StartPreCall(c) PROVE CleanInv'
  BY <1>1 DEF StartPreCall, Send
<1>2. ASSUME NEW c \in Call, PreCallAnswered(c) PROVE CleanInv'
  BY <1>2 DEF PreCallAnswered, Send, Return
<1>3. ASSUME NEW c \in Call, TriggerAnswered(c) PROVE CleanInv'
  BY <1>3 DEF TriggerAnswered, RetryOrRaise, Return, gnani
<1>4. ASSUME NEW c \in Call, Retry(c) PROVE CleanInv'
  BY <1>4 DEF Retry, Send
<1>5. ASSUME NEW c \in Call, GiveUp(c) PROVE CleanInv'
  <2>. SUFFICES ASSUME OneProcess, ~late' PROVE CleanInv'
    OBVIOUS
  <2>1. /\ ~late
        /\ wire' \subseteq wire
        /\ <<c, attempt[c]>> \notin wire'
        /\ UNCHANGED <<attempt, reply, botVars>>
    BY <1>5 DEF GiveUp
  <2>2. /\ \A d \in Call \ {c} : pc'[d] = pc[d]
        /\ pc'[c] \in {"trigger", "backoff"} => pc[c] = "trigger"
        /\ pc'[c] # "precall"
    BY <1>5 DEF GiveUp, RetryOrRaise, Return, GnaniErrors, Outcome
  <2>3. \A n \in 0..MaxAttempts : <<c, n>> \notin wire'
    BY <2>1
  <2>. QED
    BY <2>1, <2>2, <2>3
<1>6. ASSUME NEW c \in Call, SetVariables(c) PROVE CleanInv'
  BY <1>6 DEF SetVariables, Answer, Answers, Awaited
<1>7. ASSUME NEW c \in Call, NEW n \in 1..MaxAttempts, PlaceCall(c, n) PROVE CleanInv'
  BY <1>7 DEF PlaceCall, Answer, Answers, Awaited
<1>8. ASSUME NEW c \in Call, NEW n \in 0..MaxAttempts, Refuse(c, n) PROVE CleanInv'
  BY <1>8 DEF Refuse, Answer, Answers, Awaited
<1>9. CASE UNCHANGED vars
  BY <1>9 DEF vars, gnani
<1>. QED
  BY <1>1, <1>2, <1>3, <1>4, <1>5, <1>6, <1>7, <1>8, <1>9
  DEF Next, ClientNext, PlatformNext

-----------------------------------------------------------------------------
(* The properties *)

\* A call is placed with variables that were accepted.
LEMMA PlacedStep ==
  ASSUME TypeOK, AttemptInv, KnownInv, NeverWithoutVariables, CleanInv, OwnVariables,
         [Next]_vars
  PROVE  NeverWithoutVariables' /\ OwnVariables'
<1> USE TriggerAssumption DEF TypeOK, NeverWithoutVariables, OwnVariables, UsesOwnVariables
<1>1. ASSUME NEW c \in Call, ClientNext(c) \/ SetVariables(c)
             \/ \E n \in 0..MaxAttempts : Refuse(c, n)
      PROVE  UNCHANGED dialled /\ (late => late')
  BY <1>1 DEF ClientNext, StartPreCall, PreCallAnswered, TriggerAnswered, Retry, GiveUp,
              SetVariables, Refuse, Answer, gnani
<1>2. ASSUME NEW c \in Call, NEW n \in 1..MaxAttempts, PlaceCall(c, n)
      PROVE  NeverWithoutVariables' /\ OwnVariables'
  <2>1. /\ <<c, n>> \in wire
        /\ dialled' = dialled \cup {[call |-> c, n |-> n, vars |-> botVars]}
        /\ UNCHANGED late
    BY <1>2 DEF PlaceCall, Answer
  <2>2. botVars # NoCall
    BY <2>1 DEF KnownInv
  <2>3. OneProcess /\ ~late => botVars = c
    <3>. SUFFICES ASSUME OneProcess, ~late PROVE botVars = c
      OBVIOUS
    <3>1. Awaited(c, n) /\ reply[c] = "none"
      BY <2>1 DEF CleanInv
    <3>. QED
      BY <3>1 DEF AttemptInv, CleanInv, Awaited
  <2>. QED
    BY <2>1, <2>2, <2>3
<1>3. CASE UNCHANGED vars
  BY <1>3 DEF vars, gnani, OneProcess
<1>. QED
  BY <1>1, <1>2, <1>3 DEF Next, PlatformNext, OneProcess

\* The initial state satisfies every part.
LEMMA InitInv == Init => TriggerInv
<1>. SUFFICES ASSUME Init PROVE TriggerInv
  OBVIOUS
<1>. USE TriggerAssumption DEF Init
<1>1. TypeOK
  <2>1. pc \in [Call -> Phase \cup Outcome] /\ reply \in [Call -> Reply]
    BY DEF Phase, Reply
  <2>2. attempt \in [Call -> 0..MaxAttempts]
    OBVIOUS
  <2>. QED
    BY <2>1, <2>2 DEF TypeOK
<1>2. LockInv /\ AttemptInv /\ WireInv /\ DialInv
  BY DEF LockInv, Busy, AttemptInv, WireInv, DialInv
<1>3. ReplyInv /\ KnownInv /\ NeverWithoutVariables
  BY DEF ReplyInv, KnownInv, NeverWithoutVariables
<1>4. CleanInv /\ OwnVariables
  BY DEF CleanInv, OwnVariables, UsesOwnVariables
<1>. QED
  BY <1>1, <1>2, <1>3, <1>4 DEF TriggerInv

\* The parts together are inductive.
LEMMA Invariance == Spec => []TriggerInv
<1>1. TriggerInv /\ [Next]_vars => TriggerInv'
  BY TypeStep, LockStep, AttemptStep, WireStep, DialStep, ReplyStep, KnownStep, CleanStep,
     PlacedStep
  DEF TriggerInv
<1>. QED
  BY InitInv, <1>1, PTL DEF Spec

(***************************************************************************)
(* The variables of trigger_call stay in their sets: no request is         *)
(* numbered past the last attempt, no call placed by the pre-call request. *)
(***************************************************************************)
THEOREM TypesHold == Spec => []TypeOK
  BY Invariance, PTL DEF TriggerInv

(***************************************************************************)
(* However requests are lost, delayed or carried out late, on any number   *)
(* of processes: Gnani places no call before it accepted the variables of  *)
(* some call.                                                              *)
(***************************************************************************)
THEOREM VariablesAlwaysKnown == Spec => []NeverWithoutVariables
  BY Invariance, PTL DEF TriggerInv

(***************************************************************************)
(* One process and no late request: every call is placed with the          *)
(* variables of its own customer, however the calls, answers, retries and  *)
(* failures of the others are interleaved with it.                         *)
(***************************************************************************)
THEOREM OwnVariablesHold == Spec => []OwnVariables
  BY Invariance, PTL DEF TriggerInv

-----------------------------------------------------------------------------
(* Calls are counted *)

\* The records of one call carry different attempts: they are finitely many.
LEMMA DialsCounted ==
  ASSUME TypeOK, DialInv, NEW c \in Call
  PROVE  IsFiniteSet(DialledFor(c)) /\ Dials(c) \in Nat
<1> DEFINE f == [d \in DialledFor(c) |-> d.n]
<1>1. f \in Injection(DialledFor(c), 1..MaxAttempts)
  BY DEF TypeOK, DialInv, DialledFor, Injection, IsInjective
<1>2. IsFiniteSet(1..MaxAttempts)
  BY FS_Interval, TriggerAssumption
<1>3. IsFiniteSet(DialledFor(c))
  BY <1>1, <1>2, FS_Injection
<1>. QED
  BY <1>3, FS_CardinalityType DEF Dials, DialledFor

\* The request on the wire has an attempt of its own: one more can be placed.
LEMMA DialsBounded ==
  ASSUME TypeOK, DialInv, NEW c \in Call, NEW n \in 1..MaxAttempts, <<c, n>> \in wire
  PROVE  Dials(c) < MaxAttempts
<1> DEFINE f == [d \in DialledFor(c) |-> d.n]
           Others == (1..MaxAttempts) \ {n}
<1>1. f \in Injection(DialledFor(c), Others)
  BY DEF TypeOK, DialInv, DialledFor, Injection, IsInjective
<1>2. IsFiniteSet(1..MaxAttempts) /\ Cardinality(1..MaxAttempts) = MaxAttempts
  <2>1. 1 \in Int /\ MaxAttempts \in Int /\ ~(1 > MaxAttempts) /\ MaxAttempts - 1 + 1 = MaxAttempts
    BY TriggerAssumption
  <2>. QED
    BY <2>1, FS_Interval
<1>3. IsFiniteSet(Others) /\ Cardinality(Others) = MaxAttempts - 1
  BY <1>2, FS_RemoveElement
<1>4. Cardinality(DialledFor(c)) <= Cardinality(Others)
  BY <1>1, <1>3, FS_Injection
<1>5. Dials(c) = Cardinality(DialledFor(c)) /\ Dials(c) \in Nat
  BY DialsCounted DEF Dials, DialledFor
<1>. QED
  BY <1>3, <1>4, <1>5, TriggerAssumption

-----------------------------------------------------------------------------
(* Every step is a step of the contract, or a stutter *)


\* The phase each step of trigger_call stands for.
LEMMA Phases ==
  ASSUME NEW n \in Nat
  PROVE  /\ PhaseAt("waiting", n) = "waiting"
         /\ PhaseAt("precall", n) = "precall"
         /\ PhaseAt("trigger", n) = "trigger"
         /\ PhaseAt("backoff", n) = "trigger"
         /\ PhaseAt("ok", n) = "placed"
         /\ n = 0 => \A p \in Outcome \ {"ok"} : PhaseAt(p, n) = "unsent"
         /\ n > 0 => \A p \in GnaniErrors : PhaseAt(p, n) = "failed"
         /\ n > 0 => PhaseAt("escaped", n) = "error"
  BY DEF PhaseAt, Outcome, GnaniErrors

\* A step of one call that places nothing moves its phase alone.
LEMMA PhaseMoves ==
  ASSUME NEW c \in Call, NEW p, UNCHANGED dialled, PhaseOf(c)' = p,
         \A d \in Call \ {c} : pc'[d] = pc[d] /\ attempt'[d] = attempt[d]
  PROVE  Contract!Move(c, p)
<1>1. \A d \in Call : Dials(d)' = Dials(d)
  BY DEF Dials
<1>2. \A d \in Call \ {c} : PhaseOf(d)' = PhaseOf(d)
  BY DEF PhaseOf
<1>. QED
  BY <1>1, <1>2 DEF Contract!Move

\* Nobody is inside while the only lock is free.
LEMMA EnterStep ==
  ASSUME OneProcess, TriggerInv, NEW c \in Call, StartPreCall(c)
  PROVE  Contract!Enter(c)
<1> USE TriggerAssumption DEF TriggerInv, TypeOK, PhaseOf
<1>1. ASSUME NEW d \in Call PROVE ~Busy(d)
  <2>1. ProcessOf[d] = ProcessOf[c] /\ NoCall # d
    BY DEF OneProcess
  <2>2. lock[ProcessOf[d]] # d
    BY <2>1 DEF StartPreCall
  <2>. QED
    BY <2>2 DEF LockInv
<1>2. \A d \in Call : PhaseOf(d) \notin Contract!Inside
  BY <1>1, Phases DEF Busy, Contract!Inside, PhaseAt, Phase, Outcome, GnaniErrors
<1>3. PhaseOf(c) = "waiting" /\ PhaseOf(c)' = "precall"
  BY Phases DEF StartPreCall, Send
<1>4. Contract!Move(c, "precall")
  BY <1>3, PhaseMoves DEF StartPreCall, Send
<1>. QED
  BY <1>2, <1>3, <1>4 DEF Contract!Enter

\* The pre-call's answer lets the call on, or ends it before its trigger.
LEMMA PreCallStep ==
  ASSUME TriggerInv, NEW c \in Call,
         PreCallAnswered(c) \/ GiveUp(c), pc[c] = "precall"
  PROVE  Contract!Post(c) \/ Contract!Fail(c)
<1> USE DEF TriggerInv, TypeOK, PhaseOf
<1>1. attempt[c] = 0 /\ PhaseOf(c) = "precall"
  BY Phases DEF AttemptInv
<1>2. \/ pc'[c] = "trigger" /\ attempt'[c] = 1
      \/ pc'[c] \in Outcome \ {"ok"} /\ attempt'[c] = 0
  BY <1>1 DEF PreCallAnswered, GiveUp, RetryOrRaise, Return, Send, Outcome, GnaniErrors
<1>3. PhaseOf(c)' \in {"trigger", "unsent"}
  BY <1>2, Phases
<1>4. /\ UNCHANGED dialled
      /\ \A d \in Call \ {c} : pc'[d] = pc[d] /\ attempt'[d] = attempt[d]
  BY DEF PreCallAnswered, GiveUp, RetryOrRaise, Return, Send
<1>. QED
  BY <1>1, <1>3, <1>4, PhaseMoves DEF Contract!Post, Contract!Fail

\* A trigger's answer or time-out ends the call, or leaves it to a retry.
LEMMA TriggerStep ==
  ASSUME TriggerInv, NEW c \in Call,
         TriggerAnswered(c) \/ GiveUp(c), pc[c] = "trigger"
  PROVE  Contract!Place(c) \/ Contract!Fail(c) \/ Contract!Move(c, PhaseOf(c))
<1> USE DEF TriggerInv, TypeOK, PhaseOf
<1>1. attempt[c] > 0 /\ PhaseOf(c) = "trigger"
  BY Phases DEF AttemptInv
<1>2. /\ UNCHANGED <<dialled, attempt>>
      /\ \A d \in Call \ {c} : pc'[d] = pc[d]
      /\ pc'[c] \in GnaniErrors \cup {"ok", "escaped", "backoff"}
      /\ pc'[c] = "ok" => reply[c] = "2xx"
  BY DEF TriggerAnswered, GiveUp, RetryOrRaise, Return, GnaniErrors, gnani
<1>3. PhaseOf(c)' = PhaseAt(pc'[c], attempt[c])
  BY <1>2
<1>4. CASE pc'[c] = "ok"
  <2>1. DialledFor(c) # {} /\ IsFiniteSet(DialledFor(c))
    BY <1>2, <1>4, DialsCounted DEF ReplyInv
  <2>2. Dials(c) = Cardinality(DialledFor(c))
    BY DEF Dials, DialledFor
  <2>3. Cardinality(DialledFor(c)) \in Nat /\ Cardinality(DialledFor(c)) # 0
    BY <2>1, FS_CardinalityType, FS_EmptySet
  <2>4. Dials(c) > 0
    BY <2>2, <2>3
  <2>. QED
    BY <1>1, <1>2, <1>3, <1>4, <2>4, Phases, PhaseMoves DEF Contract!Place
<1>5. CASE pc'[c] \in GnaniErrors \cup {"escaped"}
  <2>1. PhaseOf(c)' \in {"failed", "error"}
    BY <1>1, <1>3, <1>5, Phases
  <2>. QED
    BY <1>1, <1>2, <2>1, PhaseMoves DEF Contract!Fail
<1>6. CASE pc'[c] = "backoff"
  BY <1>1, <1>2, <1>3, <1>6, Phases, PhaseMoves
<1>. QED
  BY <1>2, <1>4, <1>5, <1>6

\* Gnani dials for a trigger that was sent, once per attempt.
LEMMA DialStepOfContract ==
  ASSUME TriggerInv, NEW c \in Call, NEW n \in 1..MaxAttempts, PlaceCall(c, n)
  PROVE  Contract!Dial(c)
<1> USE DEF TriggerInv, TypeOK
<1> DEFINE r == [call |-> c, n |-> n, vars |-> botVars]
<1>1. /\ <<c, n>> \in wire
      /\ dialled' = dialled \cup {r}
      /\ UNCHANGED <<pc, attempt>>
  BY DEF PlaceCall, Answer
<1>2. pc[c] \notin {"waiting", "precall"} /\ attempt[c] > 0
  BY <1>1 DEF WireInv, AttemptInv
<1>3. PhaseOf(c) \notin {"waiting", "precall", "unsent"}
  BY <1>2, Phases DEF PhaseOf, Phase, Outcome
<1>4. Dials(c) < MaxAttempts
  BY <1>1, DialsBounded
<1>5. \A d \in Call \ {c} : Dials(d)' = Dials(d)
  <2>1. \A d \in Call \ {c} : {e \in dialled' : e.call = d} = {e \in dialled : e.call = d}
    BY <1>1
  <2>. QED
    BY <2>1 DEF Dials
<1>6. Dials(c)' = Dials(c) + 1
  <2>1. r \notin DialledFor(c)
    BY <1>1 DEF DialInv, DialledFor
  <2>2. {e \in dialled' : e.call = c} = DialledFor(c) \cup {r}
    BY <1>1 DEF DialledFor
  <2>3. IsFiniteSet(DialledFor(c))
    BY DialsCounted
  <2>4. Cardinality(DialledFor(c) \cup {r}) = Cardinality(DialledFor(c)) + 1
    BY <2>1, <2>3, FS_AddElement
  <2>. QED
    BY <2>2, <2>4 DEF Dials, DialledFor
<1>7. \A d \in Call : PhaseOf(d)' = PhaseOf(d)
  BY <1>1 DEF PhaseOf
<1>. QED
  BY <1>3, <1>4, <1>5, <1>6, <1>7 DEF Contract!Dial

\* What the contract does not see.
LEMMA StutterStep ==
  ASSUME TriggerInv, NEW c \in Call,
         \/ Retry(c) \/ SetVariables(c) \/ UNCHANGED vars
         \/ \E n \in 0..MaxAttempts : Refuse(c, n)
  PROVE  \A d \in Call : PhaseOf(d)' = PhaseOf(d) /\ Dials(d)' = Dials(d)
<1> USE DEF TriggerInv, TypeOK, PhaseOf
<1>1. UNCHANGED dialled
  BY DEF Retry, SetVariables, Refuse, Answer, vars, gnani
<1>2. CASE Retry(c)
  <2>1. pc[c] = "backoff" /\ pc'[c] = "trigger"
    BY <1>2 DEF Retry
  <2>2. attempt[c] \in Nat /\ attempt'[c] \in Nat
    BY <1>2, TriggerAssumption DEF Retry, Send, AttemptInv
  <2>3. PhaseOf(c) = "trigger" /\ PhaseOf(c)' = "trigger"
    BY <2>1, <2>2, Phases
  <2>4. \A d \in Call \ {c} : pc'[d] = pc[d] /\ attempt'[d] = attempt[d]
    BY <1>2 DEF Retry, Send
  <2>. QED
    BY <1>1, <2>3, <2>4 DEF Dials
<1>3. CASE ~Retry(c)
  <2>1. UNCHANGED <<pc, attempt>>
    BY <1>3 DEF SetVariables, Refuse, Answer, vars, gnani
  <2>. QED
    BY <1>1, <2>1 DEF Dials
<1>. QED
  BY <1>2, <1>3

\* Initially everybody waits and nothing was dialled.
LEMMA InitContract == Init => Contract!Init
  BY Phases, FS_EmptySet DEF Init, Contract!Init, PhaseOf, Dials

\* One step of trigger_call or of Gnani is at most one step of the contract.
LEMMA StepContract ==
  ASSUME OneProcess, TriggerInv, [Next]_vars
  PROVE  [Contract!Next]_<<[c \in Call |-> PhaseOf(c)], [c \in Call |-> Dials(c)]>>
<1> DEFINE Step == [Contract!Next]_<<[c \in Call |-> PhaseOf(c)], [c \in Call |-> Dials(c)]>>
<1>1. ASSUME NEW c \in Call, ClientNext(c) PROVE Step
  <2>1. CASE StartPreCall(c)
    BY <2>1, EnterStep DEF Contract!Next
  <2>2. CASE PreCallAnswered(c) \/ (GiveUp(c) /\ pc[c] = "precall")
    <3>1. pc[c] = "precall"
      BY <2>2 DEF PreCallAnswered
    <3>. QED
      BY <2>2, <3>1, PreCallStep DEF Contract!Next
  <2>3. CASE TriggerAnswered(c) \/ (GiveUp(c) /\ pc[c] = "trigger")
    <3>1. pc[c] = "trigger"
      BY <2>3 DEF TriggerAnswered
    <3>2. Contract!Place(c) \/ Contract!Fail(c) \/ Contract!Move(c, PhaseOf(c))
      BY <2>3, <3>1, TriggerStep
    <3>3. Contract!Move(c, PhaseOf(c)) =>
            UNCHANGED <<[d \in Call |-> PhaseOf(d)], [d \in Call |-> Dials(d)]>>
      BY DEF Contract!Move
    <3>. QED
      BY <3>2, <3>3 DEF Contract!Next
  <2>4. CASE Retry(c)
    BY <2>4, StutterStep
  <2>. QED
    BY <1>1, <2>1, <2>2, <2>3, <2>4 DEF ClientNext, GiveUp
<1>2. ASSUME NEW c \in Call, PlatformNext(c) PROVE Step
  <2>1. ASSUME NEW n \in 1..MaxAttempts, PlaceCall(c, n) PROVE Step
    BY <2>1, DialStepOfContract DEF Contract!Next
  <2>2. CASE SetVariables(c) \/ \E n \in 0..MaxAttempts : Refuse(c, n)
    BY <2>2, StutterStep
  <2>. QED
    BY <1>2, <2>1, <2>2 DEF PlatformNext
<1>3. CASE UNCHANGED vars
  BY <1>3 DEF vars, gnani, PhaseOf, Dials
<1>. QED
  BY <1>1, <1>2, <1>3 DEF Next

(***************************************************************************)
(* One process: trigger_call under its lock, with every loss, delay, retry *)
(* and late answer, implements the contract CallLifecycle relies on: one   *)
(* call inside at a time, dialled only after its trigger was sent and at   *)
(* most once per attempt, and dialled at least once when reported placed.  *)
(***************************************************************************)
THEOREM ContractImplemented ==
  ASSUME OneProcess
  PROVE  Spec => ImplementsContract
<1>1. TriggerInv /\ [Next]_vars =>
        [Contract!Next]_<<[c \in Call |-> PhaseOf(c)], [c \in Call |-> Dials(c)]>>
  BY StepContract
<1>. QED
  BY InitContract, Invariance, <1>1, PTL DEF Spec, ImplementsContract, Contract!Spec
=============================================================================

--------------------------- MODULE TriggerContract ---------------------------
(***************************************************************************)
(* What CallLifecycle relies on when it calls GnaniClient.trigger_call     *)
(* under the trigger lock, with the requests, retries and replies left     *)
(* out: one call at a time is inside, a call is dialled only once its      *)
(* trigger was sent, possibly long after trigger_call returned, at most    *)
(* once per attempt, and a call reported placed has been dialled.          *)
(* GnaniTrigger implements this specification.                             *)
(***************************************************************************)
EXTENDS Naturals

CONSTANTS Call, MaxAttempts

VARIABLES phase, dials

Inside == {"precall", "trigger"}

Init == phase = [c \in Call |-> "waiting"] /\ dials = [c \in Call |-> 0]

Move(c, p) == phase' = [phase EXCEPT ![c] = p] /\ UNCHANGED dials

Enter(c) ==
  phase[c] = "waiting" /\ (\A d \in Call : phase[d] \notin Inside) /\ Move(c, "precall")

Post(c) == phase[c] = "precall" /\ Move(c, "trigger")

Place(c) == phase[c] = "trigger" /\ dials[c] > 0 /\ Move(c, "placed")

\* Before the trigger was sent, or by a GnaniError or another exception after.
Fail(c) ==
  \/ phase[c] = "precall" /\ Move(c, "unsent")
  \/ phase[c] = "trigger" /\ \E p \in {"failed", "error"} : Move(c, p)

Dial(c) ==
  /\ phase[c] \notin {"waiting", "precall", "unsent"}
  /\ dials[c] < MaxAttempts
  /\ dials' = [dials EXCEPT ![c] = @ + 1]
  /\ UNCHANGED phase

Next == \E c \in Call : Enter(c) \/ Post(c) \/ Place(c) \/ Fail(c) \/ Dial(c)

Spec == Init /\ [][Next]_<<phase, dials>>
=============================================================================

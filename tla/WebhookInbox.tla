---------------------------- MODULE WebhookInbox ----------------------------
(***************************************************************************)
(* What the post-call webhook promises its sender, with the call store,    *)
(* its queries and its handlers left out: each event is claimed once       *)
(* however often it is delivered, and a claimed event then has exactly one *)
(* fate, which nothing changes any more.  Only a fault can make that fate  *)
(* the loss of the event.  CallLifecycle implements this specification.    *)
(***************************************************************************)
EXTENDS Naturals

CONSTANTS Event, MaxFaults

VARIABLES fate, faults

Fates == {"new", "claimed", "applied", "dead_lettered", "lost"}

Init == fate = [e \in Event |-> "new"] /\ faults = 0

\* A delivery; a later one of the same event changes nothing.
Claim(e) ==
  /\ fate[e] = "new"
  /\ fate' = [fate EXCEPT ![e] = "claimed"]
  /\ UNCHANGED faults

Resolve(e) ==
  /\ fate[e] = "claimed"
  /\ \E f \in {"applied", "dead_lettered"} : fate' = [fate EXCEPT ![e] = f]
  /\ UNCHANGED faults

\* A crash or a failed operation drops the claims it hits.
Fault ==
  /\ faults < MaxFaults
  /\ faults' = faults + 1
  /\ \E hit \in SUBSET {e \in Event : fate[e] = "claimed"} :
       fate' = [e \in Event |-> IF e \in hit THEN "lost" ELSE fate[e]]

Next == Fault \/ \E e \in Event : Claim(e) \/ Resolve(e)

Spec == Init /\ [][Next]_<<fate, faults>>
=============================================================================

--------------------------- MODULE MCCallLifecycle ---------------------------
(* Small instances of CallLifecycle for TLC. *)
EXTENDS CallLifecycle, TLC

Symmetry ==
  Permutations(CallId) \cup Permutations(Conv) \cup Permutations(Worker)
    \cup Permutations(Phone)

\* There is a fresh call id for every call the bounds allow to be created.
ASSUME EnoughCallIds ==
  Cardinality(CallId) >= MaxInitiated
    + (IF AdoptConsoleCalls THEN EventsPerConv * Cardinality(Conv) ELSE 0)
=============================================================================

---------------------------- MODULE MCGnaniTrigger ----------------------------
(* Small instances of GnaniTrigger for TLC. *)
EXTENDS GnaniTrigger, TLC

\* Every call goes to the same process.
MCProcessOf == [c \in Call |-> CHOOSE p \in Process : TRUE]
=============================================================================

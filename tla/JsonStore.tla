------------------------------ MODULE JsonStore ------------------------------
(***************************************************************************)
(* JsonCallRepository of app/db/repository.py: the whole store in memory,  *)
(* written to a temporary file that replaces the store file on every       *)
(* change; and scripts/clear_demo_data.py, which works on the same file    *)
(* from a process of its own.                                              *)
(*                                                                         *)
(* No operation of the backend suspends, so the server is one thread here  *)
(* and what interleaves with it are crashes, failing writes and the        *)
(* script.  A crash is that of the process: what was written stays.        *)
(***************************************************************************)
EXTENDS Naturals, FiniteSets

CONSTANTS
  Call,         \* numbered in the order of created_at
  Real,         \* those is_real_gnani_call keeps
  Event,        \* webhook event ids
  Torn,         \* a file cut short
  NoItem,
  ListLimit,    \* list_calls: the newest calls it returns (500)
  MaxErrors,    \* bound: failing writes
  MaxCrashes    \* bound: crashes

\* What the collections hold: a call, the outcome an update gave it, an event.
Item == ({"call", "outcome"} \X Call) \cup ({"event"} \X Event)

ASSUME StoreAssumption ==
  /\ Call \subseteq Nat /\ Real \subseteq Call
  /\ ListLimit \in Nat /\ MaxErrors \in Nat /\ MaxCrashes \in Nat
  /\ (\A d \in SUBSET Item : Torn # d) /\ NoItem \notin Item

VARIABLES
  mem,      \* _data
  file,     \* the store file
  tmp,      \* the temporary file
  pc,       \* the server
  op,       \* what the operation in progress wrote
  acked,    \* items whose operation returned
  ignored,  \* events answered duplicate_ignored
  script,   \* what the script loaded, in an element of its own; {} before
  errors, crashes,
  overlap   \* the script has run beside the server

vars == <<mem, file, tmp, pc, op, acked, ignored, script, errors, crashes, overlap>>

TypeOK ==
  /\ mem \subseteq Item
  /\ file \in (SUBSET Item) \cup {Torn}
  /\ tmp \in (SUBSET Item) \cup {Torn}
  /\ pc \in {"down", "idle", "flush", "writing", "replace"}
  /\ op \in Item \cup {NoItem}
  /\ pc \in {"down", "idle"} => op = NoItem
  /\ acked \subseteq Item /\ ignored \subseteq Event
  /\ script \in {{}} \cup {{d} : d \in SUBSET Item}
  /\ errors \in 0..MaxErrors /\ crashes \in 0..MaxCrashes
  /\ overlap \in BOOLEAN

Init ==
  /\ mem = {} /\ file = {} /\ tmp = {}
  /\ pc = "down" /\ op = NoItem
  /\ acked = {} /\ ignored = {} /\ script = {}
  /\ errors = 0 /\ crashes = 0 /\ overlap = FALSE

Loaded(f) == IF f = Torn THEN {} ELSE f

-----------------------------------------------------------------------------
(* The server *)

\* init; a corrupt file is taken for an empty store, then written over.
Start ==
  /\ pc = "down"
  /\ mem' = Loaded(file)
  /\ pc' = "flush" /\ op' = NoItem
  /\ overlap' = (overlap \/ script # {})
  /\ UNCHANGED <<file, tmp, acked, ignored, script, errors, crashes>>

\* insert_call and update_call: the change is made in memory, then flushed.
Write(i) ==
  /\ pc = "idle"
  /\ i \notin mem
  /\ i[1] = "outcome" => <<"call", i[2]>> \in mem
  /\ mem' = mem \cup {i}
  /\ pc' = "flush" /\ op' = i
  /\ UNCHANGED <<file, tmp, acked, ignored, script, errors, crashes, overlap>>

\* Mutant: the ledger is flushed with the next change.
RecordWebhookEventLazily(e) ==
  /\ pc = "idle"
  /\ IF <<"event", e>> \in mem
       THEN ignored' = ignored \cup {e} /\ UNCHANGED mem
       ELSE mem' = mem \cup {<<"event", e>>} /\ UNCHANGED ignored
  /\ UNCHANGED <<file, tmp, pc, op, acked, script, errors, crashes, overlap>>

RecordWebhookEvent(e) ==
  /\ pc = "idle"
  /\ IF <<"event", e>> \in mem
       THEN ignored' = ignored \cup {e} /\ UNCHANGED <<mem, pc, op>>
       ELSE /\ mem' = mem \cup {<<"event", e>>}
            /\ pc' = "flush" /\ op' = <<"event", e>>
            /\ UNCHANGED ignored
  /\ UNCHANGED <<file, tmp, acked, script, errors, crashes, overlap>>

\* Mutant: the store file itself is opened for writing.
OpenTmpInPlace ==
  /\ pc = "flush"
  /\ file' = Torn
  /\ pc' = "writing"
  /\ UNCHANGED <<mem, tmp, op, acked, ignored, script, errors, crashes, overlap>>

\* _flush: open the temporary file, write it, let it replace the store file.
OpenTmp ==
  /\ pc = "flush"
  /\ tmp' = Torn
  /\ pc' = "writing"
  /\ UNCHANGED <<mem, file, op, acked, ignored, script, errors, crashes, overlap>>

WriteTmp ==
  /\ pc = "writing"
  /\ tmp' = mem
  /\ pc' = "replace"
  /\ UNCHANGED <<mem, file, op, acked, ignored, script, errors, crashes, overlap>>

Replace ==
  /\ pc = "replace"
  /\ file' = tmp /\ tmp' = {}
  /\ pc' = "idle" /\ op' = NoItem
  /\ acked' = acked \cup ({op} \cap Item)
  /\ UNCHANGED <<mem, ignored, script, errors, crashes, overlap>>

\* Mutant: what the failed operation wrote is remembered as its own.
FlushFailsKeepingOp ==
  /\ pc \in {"flush", "writing", "replace"}
  /\ errors < MaxErrors
  /\ errors' = errors + 1
  /\ pc' = IF op = NoItem THEN "down" ELSE "idle"
  /\ UNCHANGED <<mem, file, tmp, op, acked, ignored, script, crashes, overlap>>

\* A full disk or a locked file: the operation raises and the lock is
\* released; the change stays in memory.  A server that starts gives up.
FlushFails ==
  /\ pc \in {"flush", "writing", "replace"}
  /\ errors < MaxErrors
  /\ errors' = errors + 1
  /\ pc' = IF op = NoItem THEN "down" ELSE "idle"
  /\ op' = NoItem
  /\ UNCHANGED <<mem, file, tmp, acked, ignored, script, crashes, overlap>>

Crash ==
  /\ pc # "down"
  /\ crashes < MaxCrashes
  /\ crashes' = crashes + 1
  /\ pc' = "down" /\ op' = NoItem /\ mem' = {}
  /\ UNCHANGED <<file, tmp, acked, ignored, script, errors, overlap>>

-----------------------------------------------------------------------------
(* scripts/clear_demo_data.py *)

CallsIn(d) == {c \in Call : <<"call", c>> \in d}
Listed(d) ==
  {c \in CallsIn(d) : Cardinality({n \in CallsIn(d) : n > c}) < ListLimit}
ItemsOf(d, cs) == {i \in d : i[1] # "event" /\ i[2] \in cs}

ScriptLoads ==
  /\ script = {}
  /\ script' = {Loaded(file)}
  /\ overlap' = (overlap \/ pc # "down")
  /\ UNCHANGED <<mem, file, tmp, pc, op, acked, ignored, errors, crashes>>

\* data[CALLS] = keep, data[EVENTS] = [], and _flush.
ScriptKeeps(d) ==
  /\ script = {d}
  /\ file' = ItemsOf(d, Listed(d) \cap Real)
  /\ tmp' = {} /\ script' = {}
  /\ acked' = ItemsOf(acked, Real)
  /\ ignored' = {}
  /\ UNCHANGED <<mem, pc, op, errors, crashes, overlap>>

Next ==
  \/ Start
  \/ \E i \in {"call", "outcome"} \X Call : Write(i)
  \/ \E e \in Event : RecordWebhookEvent(e)
  \/ OpenTmp \/ WriteTmp \/ Replace \/ FlushFails \/ Crash
  \/ ScriptLoads
  \/ \E d \in script : ScriptKeeps(d)

Spec == Init /\ [][Next]_vars

-----------------------------------------------------------------------------
(* Properties *)

\* What an operation reported written is in the store file, whole, through
\* crashes at any step and failing writes; the cleanup, run while the server
\* is down, keeps every real call and its outcome.
AckedDurable == ~overlap => file # Torn /\ acked \subseteq file

\* An event whose retry was ignored is in the store file, unless a write
\* failed: then the first delivery was answered 500 and the event is known to
\* the memory alone.
DuplicateIsDurable ==
  ~overlap /\ errors = 0 => \A e \in ignored : <<"event", e>> \in file
=============================================================================

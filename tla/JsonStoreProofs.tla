---------------------------- MODULE JsonStoreProofs ----------------------------
(* Proofs about JsonStore. *)
EXTENDS JsonStore, FiniteSetTheorems, TLAPS

-----------------------------------------------------------------------------
(* Inductive invariants *)

Flushing == pc \in {"flush", "writing", "replace"}

\* No outcome without its call.
Closed(d) == \A c \in Call : <<"outcome", c>> \in d => <<"call", c>> \in d

\* Beside a server that runs, no script runs, and the other way round.
AloneInv == pc # "down" => script = {}

\* What is about to replace the file is the whole memory.
MemoryInv ==
  /\ Closed(mem)
  /\ Flushing /\ op # NoItem => op \in mem
  /\ pc = "replace" => tmp = mem

\* The file is never torn, and the script works on it as it is.
FileInv ==
  /\ file # Torn /\ Closed(file)
  /\ \A d \in script : d = file

\* Without a failed write, what an idle server remembers is in the file.
LedgerInv ==
  errors = 0 =>
    /\ pc = "idle" => mem \subseteq file
    /\ \A e \in ignored :
         <<"event", e>> \in file /\ (pc # "down" => <<"event", e>> \in mem)

\* What was reported written is in the file, and in memory at every step of a
\* flush to come.
AckedInv == acked \subseteq file /\ (pc # "down" => acked \subseteq mem)

StoreInv == TypeOK /\ (~overlap => AloneInv /\ MemoryInv /\ FileInv /\ LedgerInv)


-----------------------------------------------------------------------------
(* The cleanup *)

\* list_calls returns every call of the store, if there are not too many.
EveryCallListed == IsFiniteSet(Call) /\ Cardinality(Call) <= ListLimit

LEMMA AllListed ==
  ASSUME EveryCallListed, NEW d
  PROVE  Listed(d) = CallsIn(d)
<1>1. ASSUME NEW c \in CallsIn(d)
      PROVE  Cardinality({n \in CallsIn(d) : n > c}) < ListLimit
  <2> DEFINE newer == {n \in CallsIn(d) : n > c}
  <2>1. c \in Call /\ c \in Nat /\ newer \subseteq Call \ {c}
    BY StoreAssumption DEF CallsIn
  <2>2. IsFiniteSet(Call \ {c}) /\ Cardinality(Call \ {c}) = Cardinality(Call) - 1
    BY <2>1, FS_RemoveElement DEF EveryCallListed
  <2>3. IsFiniteSet(newer) /\ Cardinality(newer) <= Cardinality(Call \ {c})
    BY <2>1, <2>2, FS_Subset
  <2>4. Cardinality(newer) \in Nat /\ Cardinality(Call) \in Nat
    BY <2>3, FS_CardinalityType DEF EveryCallListed
  <2>. QED
    BY <2>2, <2>3, <2>4, StoreAssumption DEF EveryCallListed
<1>. QED
  BY <1>1 DEF Listed

-----------------------------------------------------------------------------
(* Each part is preserved by every step *)

\* A torn file is loaded as an empty store.
LEMMA LoadedType ==
  ASSUME NEW f \in (SUBSET Item) \cup {Torn}
  PROVE  Loaded(f) \in SUBSET Item
  BY DEF Loaded

LEMMA TornType == Torn \in (SUBSET Item) \cup {Torn}
  OBVIOUS

\* Collections keep their items, the counters their bounds.
LEMMA TypeStep ==
  ASSUME TypeOK, [Next]_vars
  PROVE  TypeOK'
<1> USE DEF TypeOK
<1>1. CASE Start
  <2>1. mem' \in SUBSET Item
    BY <1>1, LoadedType DEF Start
  <2>2. overlap' \in BOOLEAN
    BY <1>1 DEF Start
  <2>. QED
    BY <1>1, <2>1, <2>2 DEF Start
<1>2. ASSUME NEW i \in {"call", "outcome"} \X Call, Write(i) PROVE TypeOK'
  BY <1>2 DEF Write, Item
<1>3. ASSUME NEW e \in Event, RecordWebhookEvent(e) PROVE TypeOK'
  BY <1>3 DEF RecordWebhookEvent, Item
<1>4. CASE OpenTmp
  <2>1. tmp' \in (SUBSET Item) \cup {Torn}
    BY <1>4, TornType DEF OpenTmp
  <2>. QED
    BY <1>4, <2>1 DEF OpenTmp
<1>5. CASE WriteTmp
  BY <1>5 DEF WriteTmp
<1>6. CASE Replace
  BY <1>6 DEF Replace
<1>7. CASE FlushFails
  BY <1>7, StoreAssumption DEF FlushFails
<1>8. CASE Crash
  BY <1>8, StoreAssumption DEF Crash
<1>9. CASE ScriptLoads
  <2>1. Loaded(file) \in SUBSET Item
    BY LoadedType
  <2>2. script' \in {{d} : d \in SUBSET Item}
    BY <1>9, <2>1 DEF ScriptLoads
  <2>3. overlap' \in BOOLEAN
    BY <1>9 DEF ScriptLoads
  <2>. QED
    BY <1>9, <2>2, <2>3 DEF ScriptLoads
<1>10. ASSUME NEW d \in script, ScriptKeeps(d) PROVE TypeOK'
  <2>1. d \in SUBSET Item
    BY DEF TypeOK
  <2>2. file' \in SUBSET Item /\ acked' \subseteq Item
    BY <1>10, <2>1 DEF ScriptKeeps, ItemsOf
  <2>. QED
    BY <1>10, <2>2 DEF ScriptKeeps
<1>11. CASE UNCHANGED vars
  BY <1>11 DEF vars
<1>. QED
  BY <1>1, <1>2, <1>3, <1>4, <1>5, <1>6, <1>7, <1>8, <1>9, <1>10, <1>11 DEF Next

\* The script loads the file of a server that is down, which then stays down.
LEMMA AloneStep ==
  ASSUME TypeOK, ~overlap, ~overlap', AloneInv, MemoryInv, FileInv, [Next]_vars
  PROVE  AloneInv'
<1> USE DEF TypeOK, AloneInv
<1>1. CASE Start
  BY <1>1 DEF Start
<1>2. ASSUME NEW i \in {"call", "outcome"} \X Call, Write(i) PROVE AloneInv'
  BY <1>2 DEF Write
<1>3. ASSUME NEW e \in Event, RecordWebhookEvent(e) PROVE AloneInv'
  BY <1>3 DEF RecordWebhookEvent
<1>4. CASE OpenTmp
  BY <1>4 DEF OpenTmp
<1>5. CASE WriteTmp
  BY <1>5 DEF WriteTmp
<1>6. CASE Replace
  BY <1>6 DEF Replace
<1>7. CASE FlushFails
  BY <1>7 DEF FlushFails
<1>8. CASE Crash
  BY <1>8 DEF Crash
<1>9. CASE ScriptLoads
  BY <1>9 DEF ScriptLoads
<1>10. ASSUME NEW d \in script, ScriptKeeps(d) PROVE AloneInv'
  BY <1>10 DEF ScriptKeeps
<1>11. CASE UNCHANGED vars
  BY <1>11 DEF vars
<1>. QED
  BY <1>1, <1>2, <1>3, <1>4, <1>5, <1>6, <1>7, <1>8, <1>9, <1>10, <1>11 DEF Next

\* A flush writes the memory, and the memory only grows while the server is up.
LEMMA MemoryStep ==
  ASSUME TypeOK, ~overlap, ~overlap', AloneInv, MemoryInv, FileInv, [Next]_vars
  PROVE  MemoryInv'
<1> USE DEF TypeOK, AloneInv, MemoryInv, FileInv, Flushing, Closed
<1>1. CASE Start
  BY <1>1 DEF Start, Loaded
<1>2. ASSUME NEW i \in {"call", "outcome"} \X Call, Write(i) PROVE MemoryInv'
  BY <1>2 DEF Write, Item
<1>3. ASSUME NEW e \in Event, RecordWebhookEvent(e) PROVE MemoryInv'
  BY <1>3 DEF RecordWebhookEvent
<1>4. CASE OpenTmp
  BY <1>4 DEF OpenTmp
<1>5. CASE WriteTmp
  BY <1>5 DEF WriteTmp
<1>6. CASE Replace
  <2>1. op \in Item => op \in mem
    BY <1>6, StoreAssumption DEF Replace
  <2>. QED
    BY <1>6, <2>1 DEF Replace
<1>7. CASE FlushFails
  BY <1>7 DEF FlushFails
<1>8. CASE Crash
  BY <1>8 DEF Crash
<1>9. CASE ScriptLoads
  BY <1>9 DEF ScriptLoads
<1>10. ASSUME NEW d \in script, ScriptKeeps(d) PROVE MemoryInv'
  BY <1>10 DEF ScriptKeeps
<1>11. CASE UNCHANGED vars
  BY <1>11 DEF vars
<1>. QED
  BY <1>1, <1>2, <1>3, <1>4, <1>5, <1>6, <1>7, <1>8, <1>9, <1>10, <1>11 DEF Next

\* The file is replaced by the whole memory, or by all that is real of itself.
LEMMA FileStep ==
  ASSUME TypeOK, ~overlap, ~overlap', AloneInv, MemoryInv, FileInv, [Next]_vars
  PROVE  FileInv'
<1> USE DEF TypeOK, AloneInv, MemoryInv, FileInv, Flushing, Closed
<1>1. CASE Start
  BY <1>1 DEF Start
<1>2. ASSUME NEW i \in {"call", "outcome"} \X Call, Write(i) PROVE FileInv'
  BY <1>2 DEF Write
<1>3. ASSUME NEW e \in Event, RecordWebhookEvent(e) PROVE FileInv'
  BY <1>3 DEF RecordWebhookEvent
<1>4. CASE OpenTmp
  BY <1>4 DEF OpenTmp
<1>5. CASE WriteTmp
  BY <1>5 DEF WriteTmp
<1>6. CASE Replace
  BY <1>6, StoreAssumption DEF Replace
<1>7. CASE FlushFails
  BY <1>7 DEF FlushFails
<1>8. CASE Crash
  BY <1>8 DEF Crash
<1>9. CASE ScriptLoads
  BY <1>9 DEF ScriptLoads, Loaded
<1>10. ASSUME NEW d \in script, ScriptKeeps(d) PROVE FileInv'
  <2>1. d = file /\ d \in SUBSET Item
    OBVIOUS
  <2>2. file' \in SUBSET Item /\ script' = {}
    BY <1>10, <2>1 DEF ScriptKeeps, ItemsOf
  <2>3. Closed(file')
    BY <1>10, <2>1 DEF ScriptKeeps, ItemsOf, Listed, CallsIn
  <2>. QED
    BY <2>2, <2>3, StoreAssumption
<1>11. CASE UNCHANGED vars
  BY <1>11 DEF vars
<1>. QED
  BY <1>1, <1>2, <1>3, <1>4, <1>5, <1>6, <1>7, <1>8, <1>9, <1>10, <1>11 DEF Next

\* A server is idle again only after its flush.
LEMMA LedgerStep ==
  ASSUME TypeOK, ~overlap, ~overlap', AloneInv, MemoryInv, FileInv, LedgerInv, [Next]_vars
  PROVE  LedgerInv'
<1> USE DEF TypeOK, AloneInv, MemoryInv, FileInv, LedgerInv
<1>1. CASE Start
  BY <1>1 DEF Start, Loaded
<1>2. ASSUME NEW i \in {"call", "outcome"} \X Call, Write(i) PROVE LedgerInv'
  BY <1>2 DEF Write
<1>3. ASSUME NEW e \in Event, RecordWebhookEvent(e) PROVE LedgerInv'
  BY <1>3 DEF RecordWebhookEvent
<1>4. CASE OpenTmp
  BY <1>4 DEF OpenTmp
<1>5. CASE WriteTmp
  BY <1>5 DEF WriteTmp
<1>6. CASE Replace
  BY <1>6 DEF Replace
<1>7. CASE FlushFails
  BY <1>7 DEF FlushFails
<1>8. CASE Crash
  BY <1>8 DEF Crash
<1>9. CASE ScriptLoads
  BY <1>9 DEF ScriptLoads
<1>10. ASSUME NEW d \in script, ScriptKeeps(d) PROVE LedgerInv'
  BY <1>10 DEF ScriptKeeps
<1>11. CASE UNCHANGED vars
  BY <1>11 DEF vars
<1>. QED
  BY <1>1, <1>2, <1>3, <1>4, <1>5, <1>6, <1>7, <1>8, <1>9, <1>10, <1>11 DEF Next

\* The memory that replaces the file holds all it held, and the cleanup all that is real.
LEMMA AckedStep ==
  ASSUME TypeOK, ~overlap, ~overlap', AloneInv, MemoryInv, FileInv, AckedInv, EveryCallListed, [Next]_vars
  PROVE  AckedInv'
<1> USE DEF TypeOK, AloneInv, MemoryInv, FileInv, AckedInv, Flushing
<1>1. CASE Start
  BY <1>1 DEF Start, Loaded
<1>2. ASSUME NEW i \in {"call", "outcome"} \X Call, Write(i) PROVE AckedInv'
  BY <1>2 DEF Write
<1>3. ASSUME NEW e \in Event, RecordWebhookEvent(e) PROVE AckedInv'
  BY <1>3 DEF RecordWebhookEvent
<1>4. CASE OpenTmp
  BY <1>4 DEF OpenTmp
<1>5. CASE WriteTmp
  BY <1>5 DEF WriteTmp
<1>6. CASE Replace
  <2>1. op \in Item => op \in mem
    BY <1>6, StoreAssumption DEF Replace
  <2>. QED
    BY <1>6, <2>1 DEF Replace
<1>7. CASE FlushFails
  BY <1>7 DEF FlushFails
<1>8. CASE Crash
  BY <1>8 DEF Crash
<1>9. CASE ScriptLoads
  BY <1>9 DEF ScriptLoads
<1>10. ASSUME NEW d \in script, ScriptKeeps(d) PROVE AckedInv'
  <2>1. /\ d = file /\ d \in SUBSET Item /\ acked \subseteq d /\ Closed(d)
        /\ Listed(d) = CallsIn(d)
    BY AllListed
  <2>2. ASSUME NEW i \in acked' PROVE i \in file'
    <3>1. i \in d /\ i[1] # "event" /\ i[2] \in Real
      BY <1>10, <2>1, <2>2 DEF ScriptKeeps, ItemsOf
    <3>2. \E c \in Call : i \in {<<"call", c>>, <<"outcome", c>>} /\ i[2] = c
      BY <3>1, <2>1 DEF Item
    <3>3. i[2] \in CallsIn(d)
      BY <3>1, <3>2, <2>1 DEF Closed, CallsIn
    <3>. QED
      BY <1>10, <2>1, <3>1, <3>3 DEF ScriptKeeps, ItemsOf
  <2>3. pc = "down" /\ UNCHANGED pc
    BY <1>10 DEF ScriptKeeps
  <2>. QED
    BY <2>2, <2>3
<1>11. CASE UNCHANGED vars
  BY <1>11 DEF vars
<1>. QED
  BY <1>1, <1>2, <1>3, <1>4, <1>5, <1>6, <1>7, <1>8, <1>9, <1>10, <1>11 DEF Next

-----------------------------------------------------------------------------
(* The properties *)

\* Once the script has run beside the server, it stays so.
LEMMA OverlapStays ==
  ASSUME overlap \in BOOLEAN, [Next]_vars, ~overlap'
  PROVE  ~overlap
  BY DEF Next, Start, Write, RecordWebhookEvent, OpenTmp, WriteTmp, Replace, FlushFails,
         Crash, ScriptLoads, ScriptKeeps, vars

LEMMA Invariance == Spec => []StoreInv
<1>1. Init => StoreInv
  <2>. SUFFICES ASSUME Init PROVE StoreInv
    OBVIOUS
  <2>1. TypeOK
    <3>1. {} \in (SUBSET Item) \cup {Torn}
      OBVIOUS
    <3>2. 0 \in 0..MaxErrors /\ 0 \in 0..MaxCrashes
      BY StoreAssumption
    <3>3. {} \in {{}} \cup {{d} : d \in SUBSET Item}
      OBVIOUS
    <3>. QED
      BY <3>1, <3>2, <3>3 DEF Init, TypeOK
  <2>2. AloneInv /\ MemoryInv /\ LedgerInv
    BY DEF Init, AloneInv, MemoryInv, LedgerInv, Flushing, Closed
  <2>3. FileInv
    BY StoreAssumption DEF Init, FileInv, Closed
  <2>. QED
    BY <2>1, <2>2, <2>3 DEF StoreInv
<1>2. StoreInv /\ [Next]_vars => StoreInv'
  <2>. SUFFICES ASSUME StoreInv, [Next]_vars PROVE StoreInv'
    OBVIOUS
  <2>1. TypeOK'
    BY TypeStep DEF StoreInv
  <2>2. ~overlap' => ~overlap
    BY OverlapStays DEF StoreInv, TypeOK
  <2>. QED
    BY <2>1, <2>2, AloneStep, MemoryStep, FileStep, LedgerStep DEF StoreInv
<1>. QED
  BY <1>1, <1>2, PTL DEF Spec

(***************************************************************************)
(* Collections, the two files and the script's copy keep to their items:   *)
(* a file is whole or torn, and no operation is left open when the server  *)
(* is idle or down.                                                        *)
(***************************************************************************)
THEOREM TypesHold == Spec => []TypeOK
  BY Invariance, PTL DEF StoreInv

(***************************************************************************)
(* A webhook event whose retry was answered duplicate_ignored is in the    *)
(* store file, through crashes at any step of a flush, as long as no write *)
(* failed and the cleanup did not run beside the server.                   *)
(***************************************************************************)
THEOREM DuplicatesDurable == Spec => []DuplicateIsDurable
<1>1. StoreInv => DuplicateIsDurable
  BY DEF StoreInv, LedgerInv, DuplicateIsDurable
<1>. QED
  BY Invariance, <1>1, PTL

(***************************************************************************)
(* What an operation reported written survives crashes at any step of a    *)
(* flush, failing writes, and the cleanup run while the server is down,    *)
(* which keeps every real call and its outcome -- provided list_calls, cut *)
(* at its limit, returns every call: the cleanup deletes what it is not    *)
(* shown.                                                                  *)
(***************************************************************************)
THEOREM AckedIsDurable ==
  ASSUME EveryCallListed
  PROVE  Spec => []AckedDurable
<1>1. Init => (~overlap => AckedInv)
  BY DEF Init, AckedInv
<1>2. StoreInv /\ [Next]_vars /\ (~overlap => AckedInv) => (~overlap => AckedInv)'
  BY AckedStep, OverlapStays DEF StoreInv, TypeOK
<1>3. StoreInv /\ (~overlap => AckedInv) => AckedDurable
  BY DEF StoreInv, FileInv, AckedInv, AckedDurable
<1>. QED
  BY Invariance, <1>1, <1>2, <1>3, PTL DEF Spec
=============================================================================

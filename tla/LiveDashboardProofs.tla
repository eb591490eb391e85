-------------------------- MODULE LiveDashboardProofs --------------------------
(***************************************************************************)
(* Proofs about LiveDashboard, for every number of calls, pages and        *)
(* sockets, every history of the calls and every choice of filters.        *)
(***************************************************************************)
EXTENDS LiveDashboard, SequenceTheorems, FiniteSetTheorems, WellFoundedInduction, TLAPS

-----------------------------------------------------------------------------
(* Inductive invariants *)

\* No two pages share a connection.
SocketsOK ==
  \A a, b \in Page : socket[a] = socket[b] /\ socket[a] # NoSocket => a = b

\* A page no reload is scheduled for shows the rows it was rendered with.
AsRendered == \A b \in Page : ~timer[b] => view[b] = Rows(asOf[b], filter[b])

\* Finitely many calls are stored, each at a version its history has; so it is
\* in what a page was rendered from.
Recorded(versions) ==
  /\ IsFiniteSet({c \in Call : versions[c] > 0})
  /\ \A c \in Call : versions[c] <= Len(History[c])
StoreRecorded == Recorded(store) /\ \A b \in Page : Recorded(asOf[b])

\* What was announced is stored, wherever the news of it has got to.
Stored(m) == m.version <= store[m.call]
NewsStored ==
  /\ \A m \in announce : Stored(m)
  /\ \A m \in Message : sending[m] # {} => Stored(m)
  /\ \A s \in Socket : \A i \in 1..Len(channel[s]) : Stored(channel[s][i])
  /\ \A b \in Page : \A f \in fetching[b] : Stored(f)

DashboardInv ==
  TypeOK /\ SocketsOK /\ AsRendered /\ StoreRecorded /\ NewsStored /\ AnswersAreNews

-----------------------------------------------------------------------------
(* Messages *)

LEMMA MessageForm ==
  /\ \A m \in Message : /\ m = [call |-> m.call, version |-> m.version]
                        /\ m.call \in Call /\ m.version \in 1..MaxVersion
  /\ \A c \in Call : \A i \in 1..Len(History[c]) : [call |-> c, version |-> i] \in Message
<1>1. ASSUME NEW m \in Message
      PROVE  /\ m = [call |-> m.call, version |-> m.version]
             /\ m.call \in Call /\ m.version \in 1..MaxVersion
  <2>1. PICK c \in Call : m \in [call: {c}, version: 1..Len(History[c])]
    BY DEF Message
  <2>2. 1..Len(History[c]) \subseteq 1..MaxVersion
    BY DashboardAssumption
  <2>. QED
    BY <2>1, <2>2
<1>2. ASSUME NEW c \in Call, NEW i \in 1..Len(History[c])
      PROVE  [call |-> c, version |-> i] \in Message
  BY DEF Message
<1>. QED
  BY <1>1, <1>2

-----------------------------------------------------------------------------
(* The listing *)

\* The rows a page is rendered with are the listing it was rendered from.
LEMMA RowsAreListing ==
  ASSUME NEW versions \in [Call -> 0..MaxVersion], NEW f
  PROVE  /\ Rows(versions, f) \in [Call -> 0..MaxVersion]
         /\ Contents(Rows(versions, f)) = Listing(versions, f)
<1> DEFINE rows == Rows(versions, f)
<1>1. /\ rows \in [Call -> 0..MaxVersion]
      /\ \A c \in Call :
           rows[c] = IF versions[c] > 0 /\ History[c][versions[c]] \in Listing(versions, f)
                       THEN versions[c] ELSE 0
  BY DashboardAssumption DEF Rows
<1>2. Listing(versions, f) \subseteq Contents(versions)
  BY DEF Listing, Filtered, ListCalls
<1> HIDE DEF rows
<1>3. Contents(rows) \subseteq Listing(versions, f)
  BY <1>1 DEF Contents
<1>4. Listing(versions, f) \subseteq Contents(rows)
  <2> SUFFICES ASSUME NEW r \in Listing(versions, f)
               PROVE  r \in Contents(rows)
    OBVIOUS
  <2>1. PICK c \in Call : versions[c] > 0 /\ r = History[c][versions[c]]
    BY <1>2 DEF Contents
  <2>2. rows[c] = versions[c]
    BY <1>1, <2>1
  <2>. QED
    BY <2>1, <2>2 DEF Contents
<1>. QED
  BY <1>1, <1>3, <1>4 DEF rows

-----------------------------------------------------------------------------
(* Sums over sets *)

\* What MapThenSumSet unfolds to: a sum that is a function of the subsets.
PickOf(s) == CHOOSE x \in s : TRUE
IsSumming(h, f, S) ==
  h = [s \in SUBSET S |-> IF s = {} THEN 0 ELSE f[PickOf(s)] + h[s \ {PickOf(s)}]]
Summing(f, S) == CHOOSE h : IsSumming(h, f, S)

LEMMA SumIs ==
  ASSUME NEW f, NEW S
  PROVE  MapThenSumSet(LAMBDA c : f[c], S) = Summing(f, S)[S]
BY Zenon DEF MapThenSumSet, MapThenFoldSet, Summing, IsSumming, PickOf

\* One function at most satisfies the equation of the sum: a smallest set on
\* which two differ would have a smaller one.
LEMMA SummingUnique ==
  ASSUME NEW f, NEW S, IsFiniteSet(S), NEW g, IsSumming(g, f, S), NEW h, IsSumming(h, f, S)
  PROVE  g = h
<1> DEFINE T == {s \in SUBSET S : g[s] # h[s]}
<1>1. CASE T = {}
  BY <1>1, Zenon DEF IsSumming
<1>2. CASE T # {}
  <2>1. IsWellFoundedOn(StrictSubsetOrdering(S), SUBSET S)
    BY FS_StrictSubsetOrderingWellFounded, FS_FiniteSubsetsOfFinite
  <2>2. PICK s \in T : \A r \in T : <<r, s>> \notin StrictSubsetOrdering(S)
    <3>1. T \subseteq SUBSET S
      OBVIOUS
    <3> HIDE DEF T
    <3>. QED
      BY <1>2, <2>1, <3>1, WFMin
  <2>3. s # {}
    BY <2>2, Zenon DEF IsSumming
  <2>4. PickOf(s) \in s
    BY <2>3 DEF PickOf
  <2> DEFINE r == s \ {PickOf(s)}
  <2>5. r \in SUBSET S /\ r \subseteq s /\ r # s
    BY <2>2, <2>4
  <2>6. <<r, s>> \in StrictSubsetOrdering(S)
    BY <2>2, <2>5 DEF StrictSubsetOrdering
  <2>7. g[r] = h[r]
    BY <2>2, <2>5, <2>6
  <2>8. g[s] = f[PickOf(s)] + g[r] /\ h[s] = f[PickOf(s)] + h[r]
    BY <2>2, <2>3 DEF IsSumming
  <2>. QED
    BY <2>2, <2>7, <2>8
<1>. QED
  BY <1>1, <1>2

-----------------------------------------------------------------------------
(* Counting rows *)

LEMMA CountType ==
  ASSUME NEW rows, IsFiniteSet(rows), NEW field, NEW values
  PROVE  /\ CountOf(rows, field, values) \in Nat
         /\ CountOf(rows, field, values) <= Cardinality(rows)
<1> DEFINE counted == {r \in rows : r[field] \in values}
<1>1. counted \in SUBSET rows
  OBVIOUS
<1>2. IsFiniteSet(counted) /\ Cardinality(counted) <= Cardinality(rows)
  BY <1>1, FS_Subset
<1>3. Cardinality(counted) \in Nat
  BY <1>2, FS_CardinalityType
<1>. QED
  BY <1>2, <1>3 DEF CountOf

\* Rows with a value of one of two disjoint sets are counted once.
LEMMA CountSplits ==
  ASSUME NEW rows, IsFiniteSet(rows), NEW field, NEW v, NEW w, v \cap w = {}
  PROVE  CountOf(rows, field, v \cup w) = CountOf(rows, field, v) + CountOf(rows, field, w)
<1> DEFINE V == {r \in rows : r[field] \in v}
           W == {r \in rows : r[field] \in w}
<1>1. V \in SUBSET rows /\ W \in SUBSET rows
  OBVIOUS
<1>2. {r \in rows : r[field] \in v \cup w} = V \cup W /\ V \cap W = {}
  OBVIOUS
<1>3. /\ CountOf(rows, field, v \cup w) = Cardinality(V \cup W)
      /\ CountOf(rows, field, v) = Cardinality(V)
      /\ CountOf(rows, field, w) = Cardinality(W)
  BY <1>2 DEF CountOf
<1> HIDE DEF V, W
<1>4. IsFiniteSet(V) /\ IsFiniteSet(W)
  BY <1>1, FS_Subset
<1>5. Cardinality(V) \in Nat /\ Cardinality(W) \in Nat
  BY <1>4, FS_CardinalityType
<1>6. Cardinality(V \cup W) = Cardinality(V) + Cardinality(W) - Cardinality(V \cap W)
  BY <1>4, FS_Union
<1>7. Cardinality(V \cap W) = 0
  BY <1>2, FS_EmptySet
<1>. QED
  BY <1>3, <1>5, <1>6, <1>7

\* The counts of single values add up to the count of all of them.
LEMMA SumOfCounts ==
  ASSUME NEW rows, IsFiniteSet(rows), NEW field, NEW values, IsFiniteSet(values),
         NEW chart, \A code \in values : chart[code] = CountOf(rows, field, {code})
  PROVE  Summing(chart, values)[values] = CountOf(rows, field, values)
<1> DEFINE g == [s \in SUBSET values |-> CountOf(rows, field, s)]
<1>1. IsSumming(g, chart, values)
  <2> DEFINE rhs(s) == IF s = {} THEN 0 ELSE chart[PickOf(s)] + g[s \ {PickOf(s)}]
  <2>1. ASSUME NEW s \in SUBSET values PROVE g[s] = rhs(s)
    <3>1. CASE s = {}
      <4>1. {r \in rows : r[field] \in s} = {}
        BY <3>1
      <4>. QED
        BY <3>1, <4>1, FS_EmptySet DEF CountOf
    <3>2. CASE s # {}
      <4> DEFINE x == PickOf(s)
      <4>1. x \in s
        BY <3>2 DEF PickOf
      <4>2. s = {x} \cup (s \ {x}) /\ {x} \cap (s \ {x}) = {}
        BY <4>1
      <4> HIDE DEF x
      <4>3. CountOf(rows, field, s) = CountOf(rows, field, {x}) + CountOf(rows, field, s \ {x})
        BY <4>2, CountSplits
      <4>4. chart[x] = CountOf(rows, field, {x}) /\ s \ {x} \in SUBSET values
        BY <4>1
      <4>. QED
        BY <3>2, <4>3, <4>4 DEF x
    <3>. QED
      BY <3>1, <3>2
  <2>2. g = [s \in SUBSET values |-> g[s]]
    OBVIOUS
  <2> HIDE DEF g
  <2>. QED
    BY <2>1, <2>2, Zenon DEF IsSumming
<1>2. g[values] = CountOf(rows, field, values)
  OBVIOUS
<1> HIDE DEF g
<1>3. IsSumming(Summing(chart, values), chart, values)
  BY <1>1, Zenon DEF Summing
<1>4. Summing(chart, values) = g
  BY <1>1, <1>3, SummingUnique
<1>. QED
  BY <1>2, <1>4

-----------------------------------------------------------------------------
(* Cards and chart *)

\* A listing of a recorded store is finite and knows no stage but the codes.
LEMMA ListingRecorded ==
  ASSUME NEW versions \in [Call -> 0..MaxVersion], Recorded(versions), NEW f
  PROVE  /\ IsFiniteSet(Listing(versions, f))
         /\ \A r \in Listing(versions, f) : r.stage \in Stage \cup {NoStage}
<1> DEFINE stored == {c \in Call : versions[c] > 0}
           content == [c \in stored |-> History[c][versions[c]]]
<1>1. content \in Surjection(stored, Contents(versions))
  BY DEF Surjection, Contents
<1>2. IsFiniteSet(Contents(versions))
  <2>1. IsFiniteSet(stored)
    BY DEF Recorded
  <2> HIDE DEF stored, content
  <2>. QED
    BY <1>1, <2>1, FS_Surjection
<1>3. Listing(versions, f) \in SUBSET Contents(versions)
  BY DEF Listing, Filtered, ListCalls
<1>4. \A r \in Contents(versions) : r.stage \in Stage \cup {NoStage}
  <2> SUFFICES ASSUME NEW c \in Call, versions[c] > 0
               PROVE  History[c][versions[c]].stage \in Stage \cup {NoStage}
    BY DEF Contents
  <2>1. versions[c] \in 1..Len(History[c])
    BY DashboardAssumption DEF Recorded
  <2>. QED
    BY <2>1, DashboardAssumption
<1>. QED
  BY <1>2, <1>3, <1>4, FS_Subset

\* The chart adds up to the calls with an outcome, the two cards to as many.
LEMMA ListingAddsUp ==
  ASSUME NEW rows, IsFiniteSet(rows), \A r \in rows : r.stage \in Stage \cup {NoStage}
  PROVE  LET chart == StageDistribution(rows)
             coded == MapThenSumSet(LAMBDA code : chart[code], DOMAIN chart)
         IN  /\ Summarise(rows).connected + Summarise(rows).groups.non_connect = coded
             /\ coded <= Summarise(rows).total
<1> DEFINE codes == {r.stage : r \in rows} \ {NoStage}
           chart == StageDistribution(rows)
<1>1. IsFiniteSet(codes)
  <2> DEFINE coded == {r \in rows : r.stage # NoStage}
             stage == [r \in coded |-> r.stage]
  <2>1. stage \in Surjection(coded, codes)
    BY DEF Surjection
  <2>2. IsFiniteSet(coded)
    <3>1. coded \in SUBSET rows
      OBVIOUS
    <3> HIDE DEF coded
    <3>. QED
      BY <3>1, FS_Subset
  <2> HIDE DEF stage, coded, codes
  <2>. QED
    BY <2>1, <2>2, FS_Surjection
<1>2. DOMAIN chart = codes /\ \A code \in codes : chart[code] = CountOf(rows, "stage", {code})
  BY DEF StageDistribution
<1> HIDE DEF chart
<1>3. MapThenSumSet(LAMBDA code : chart[code], codes) = CountOf(rows, "stage", codes)
  <2> HIDE DEF codes
  <2>1. Summing(chart, codes)[codes] = CountOf(rows, "stage", codes)
    BY <1>1, <1>2, SumOfCounts
  <2>2. MapThenSumSet(LAMBDA code : chart[code], codes) = Summing(chart, codes)[codes]
    BY SumIs
  <2>. QED
    BY <2>1, <2>2, Zenon
<1>4. CountOf(rows, "stage", codes) = CountOf(rows, "stage", Stage)
  <2>1. {r \in rows : r["stage"] \in codes} = {r \in rows : r["stage"] \in Stage}
    BY ListingAssumption
  <2>. QED
    BY <2>1 DEF CountOf
<1>5. CountOf(rows, "stage", Stage)
        = CountOf(rows, "stage", CONNECTED) + CountOf(rows, "stage", NON_CONNECT)
  <2>1. CONNECTED \cap NON_CONNECT = {} /\ Stage = CONNECTED \cup NON_CONNECT
    BY DEF CONNECTED, Stage
  <2>. QED
    BY <2>1, CountSplits
<1>6. CountOf(rows, "stage", Stage) <= Cardinality(rows)
  BY CountType
<1>7. /\ Summarise(rows).connected = CountOf(rows, "stage", CONNECTED)
      /\ Summarise(rows).groups.non_connect = CountOf(rows, "stage", NON_CONNECT)
      /\ Summarise(rows).total = Cardinality(rows)
  BY DEF Summarise, CARD_GROUPS
<1>. QED
  BY <1>2, <1>3, <1>4, <1>5, <1>6, <1>7 DEF chart

-----------------------------------------------------------------------------
(* Types *)

LEMMA InitDashboard == Init => DashboardInv
<1> SUFFICES ASSUME Init PROVE DashboardInv
  OBVIOUS
<1>1. <<>> \in Seq(Message)
  BY EmptySeq
<1>2. store \in [Call -> 0..MaxVersion]
  <2>1. ASSUME NEW c \in Call PROVE MaxVersion >= 1
    BY DashboardAssumption
  <2>. QED
    BY <2>1, DashboardAssumption DEF Init
<1>3. \A b \in Page : Rows(store, filter[b]) \in [Call -> 0..MaxVersion]
  BY <1>2, RowsAreListing
<1>4. TypeOK
  <2>1. /\ store \in [Call -> 0..MaxVersion]
        /\ announce \subseteq Message
        /\ sending \in [Message -> SUBSET Socket] /\ dead \in [Message -> SUBSET Socket]
        /\ registered \subseteq Socket /\ open \subseteq Socket
        /\ silent \subseteq Socket \ open
    BY <1>2 DEF Init
  <2>2. channel \in [Socket -> Seq(Message)]
    BY <1>1 DEF Init
  <2>3. /\ socket \in [Page -> open \cup {NoSocket}]
        /\ filter \in [Page -> Filters]
        /\ asOf \in [Page -> [Call -> 0..MaxVersion]]
        /\ view \in [Page -> [Call -> 0..MaxVersion]]
    BY <1>2, <1>3 DEF Init
  <2>4. fetching \in [Page -> SUBSET [call: Call, version: 1..MaxVersion,
                                      got: 0..MaxVersion]]
    BY DEF Init
  <2>5. timer \in [Page -> BOOLEAN] /\ missed \in BOOLEAN
    BY Zenon DEF Init
  <2>6. drops \in 0..MaxDrops
    BY DashboardAssumption DEF Init
  <2>. QED
    BY <2>1, <2>2, <2>3, <2>4, <2>5, <2>6 DEF TypeOK
<1>5. SocketsOK /\ AsRendered
  BY DEF Init, SocketsOK, AsRendered
<1>6. StoreRecorded
  <2>1. {c \in Call : store[c] > 0} = Earlier
    BY DashboardAssumption DEF Init
  <2>2. \A c \in Call : store[c] <= Len(History[c])
    BY DashboardAssumption DEF Init
  <2>3. \A b \in Page : asOf[b] = store
    BY DEF Init
  <2>. QED
    BY <2>1, <2>2, <2>3, DashboardAssumption DEF StoreRecorded, Recorded
<1>7. NewsStored
  BY DEF Init, NewsStored
<1>8. AnswersAreNews
  BY <1>2 DEF Init, AnswersAreNews, Rows
<1>. QED
  BY <1>4, <1>5, <1>6, <1>7, <1>8 DEF DashboardInv

\* The handlers and the hub.
LEMMA ChangeTypes ==
  ASSUME TypeOK, NEW c \in Call, ChangeCall(c) \/ ChangeCallUnannounced(c)
  PROVE  TypeOK'
<1> USE DEF TypeOK, hub, page, rendering
<1>1. store[c] + 1 \in 1..Len(History[c]) /\ store[c] + 1 \in 1..MaxVersion
  BY DashboardAssumption DEF ChangeCall, ChangeCallUnannounced
<1>2. [call |-> c, version |-> store[c] + 1] \in Message
  BY <1>1, MessageForm
<1>3. CASE ChangeCall(c)
  BY <1>1, <1>2, <1>3 DEF ChangeCall
<1>4. CASE ChangeCallUnannounced(c)
  <2>1. store' \in [Call -> 0..MaxVersion] /\ drops' \in 0..MaxDrops /\ missed' \in BOOLEAN
    BY <1>1, <1>4, DashboardAssumption DEF ChangeCallUnannounced
  <2>. QED
    BY <1>4, <2>1 DEF ChangeCallUnannounced
<1>. QED
  BY <1>3, <1>4

LEMMA ServerTypes ==
  ASSUME TypeOK, ServerNext
  PROVE  TypeOK'
<1> USE DEF TypeOK, page, rendering
<1>1. ASSUME NEW m \in Message, Broadcast(m) PROVE TypeOK'
  <2>1. missed' \in BOOLEAN
    BY <1>1 DEF Broadcast, Untold
  <2>. QED
    BY <1>1, <2>1 DEF Broadcast
<1>2. ASSUME NEW m \in Message, Prune(m) PROVE TypeOK'
  BY <1>2 DEF Prune
<1>3. ASSUME NEW m \in Message, NEW s \in Socket, SendTo(m, s) PROVE TypeOK'
  <2>1. channel[s] \in Seq(Message)
    OBVIOUS
  <2>2. Append(channel[s], m) \in Seq(Message)
    BY <2>1, AppendProperties
  <2>3. channel' \in [Socket -> Seq(Message)]
    BY <1>3, <2>2 DEF SendTo
  <2>4. sending' \in [Message -> SUBSET Socket]
    BY <1>3 DEF SendTo
  <2>5. dead' \in [Message -> SUBSET Socket]
    <3>1. dead[m] \cup {s} \in SUBSET Socket
      OBVIOUS
    <3>2. dead' = [dead EXCEPT ![m] = dead[m] \cup {s}] \/ dead' = dead
      BY <1>3 DEF SendTo
    <3>. QED
      BY <3>1, <3>2
  <2>. QED
    BY <1>3, <2>3, <2>4, <2>5 DEF SendTo
<1>4. ASSUME NEW s \in Socket, Register(s) PROVE TypeOK'
  BY <1>4 DEF Register
<1>5. ASSUME NEW s \in Socket, Disconnect(s) PROVE TypeOK'
  BY <1>5 DEF Disconnect
<1>. QED
  BY <1>1, <1>2, <1>3, <1>4, <1>5 DEF ServerNext

\* The page.
LEMMA CloseTypes ==
  ASSUME TypeOK, NEW s \in Socket \cup {NoSocket}, Close(s)
  PROVE  /\ open' \subseteq open /\ open \ open' \subseteq {s}
         /\ channel' \in [Socket -> Seq(Message)]
<1>1. <<>> \in Seq(Message)
  BY EmptySeq
<1>. QED
  BY <1>1 DEF Close, TypeOK

LEMMA PageTypes ==
  ASSUME TypeOK, SocketsOK, NEW b \in Page, PageNext(b)
  PROVE  TypeOK'
<1> USE DEF TypeOK, hub, rendering
<1>1. ASSUME NEW s \in Socket, Connect(b, s) PROVE TypeOK'
  BY <1>1 DEF Connect
<1>2. CASE HandleMessage(b)
  <2> DEFINE m == Head(channel[socket[b]])
  <2>1. socket[b] \in Socket /\ channel[socket[b]] \in Seq(Message) /\ channel[socket[b]] # <<>>
    BY <1>2, DashboardAssumption DEF HandleMessage
  <2>2. m \in Message /\ Tail(channel[socket[b]]) \in Seq(Message)
    BY <2>1, HeadTailProperties
  <2>3. m.call \in Call /\ m.version \in 1..MaxVersion
    BY <2>2, MessageForm
  <2> HIDE DEF m
  <2>4. [call |-> m.call, version |-> m.version, got |-> 0]
          \in [call: Call, version: 1..MaxVersion, got: 0..MaxVersion]
    BY <2>3, DashboardAssumption
  <2>5. channel' \in [Socket -> Seq(Message)]
    BY <1>2, <2>1, <2>2 DEF HandleMessage
  <2>6. timer' \in [Page -> BOOLEAN]
    BY <1>2 DEF HandleMessage
  <2>7. fetching' \in [Page -> SUBSET [call: Call, version: 1..MaxVersion, got: 0..MaxVersion]]
    BY <1>2, <2>4 DEF HandleMessage, m
  <2>. QED
    BY <1>2, <2>5, <2>6, <2>7 DEF HandleMessage
<1>3. ASSUME NEW f \in fetching[b], ServeRow(b, f) PROVE TypeOK'
  <2>1. f \in [call: Call, version: 1..MaxVersion, got: 0..MaxVersion]
    OBVIOUS
  <2>2. [f EXCEPT !.got = store[f.call]]
          \in [call: Call, version: 1..MaxVersion, got: 0..MaxVersion]
    BY <2>1
  <2>. QED
    BY <1>3, <2>2 DEF ServeRow
<1>4. ASSUME NEW f \in fetching[b], PatchRow(b, f) PROVE TypeOK'
  <2>1. f.call \in Call /\ f.got \in 0..MaxVersion
    OBVIOUS
  <2>. QED
    BY <1>4, <2>1 DEF PatchRow
<1>5. CASE Reload(b)
  <2>1. /\ open' \subseteq open /\ open \ open' \subseteq {socket[b]}
        /\ channel' \in [Socket -> Seq(Message)]
    BY <1>5, CloseTypes DEF Reload, Render
  <2>2. socket' \in [Page -> open' \cup {NoSocket}]
    <3>1. \A a \in Page \ {b} : socket[a] \in open' \cup {NoSocket}
      BY <2>1 DEF SocketsOK
    <3>. QED
      BY <1>5, <3>1 DEF Reload
  <2>3. Rows(store, filter[b]) \in [Call -> 0..MaxVersion]
    BY RowsAreListing
  <2>. QED
    BY <1>5, <2>1, <2>2, <2>3 DEF Reload, Render
<1>. QED
  BY <1>1, <1>2, <1>3, <1>4, <1>5 DEF PageNext

LEMMA LossTypes ==
  ASSUME TypeOK, SocketsOK, NEW b \in Page,
         LoseConnection(b) \/ \E f \in fetching[b] : LoseFetch(b, f)
  PROVE  TypeOK'
<1> USE DEF TypeOK, hub, rendering
<1>1. CASE LoseConnection(b)
  <2>1. /\ open' \subseteq open /\ open \ open' \subseteq {socket[b]}
        /\ channel' \in [Socket -> Seq(Message)]
    BY <1>1, CloseTypes DEF LoseConnection
  <2>2. socket' \in [Page -> open' \cup {NoSocket}]
    <3>1. \A a \in Page \ {b} : socket[a] \in open' \cup {NoSocket}
      BY <2>1 DEF SocketsOK
    <3>. QED
      BY <1>1, <3>1 DEF LoseConnection
  <2>3. missed' \in BOOLEAN /\ drops' \in 0..MaxDrops
    BY <1>1, DashboardAssumption DEF LoseConnection, Pending
  <2>4. UNCHANGED <<store, announce, sending, dead, registered, filter, asOf, view,
                    fetching, timer>>
    BY <1>1 DEF LoseConnection
  <2>5. silent' \subseteq Socket \ open'
    <3>1. socket[b] \in open /\ open' = open \ {socket[b]} /\ silent' \subseteq silent \cup {socket[b]}
      BY <1>1, DashboardAssumption DEF LoseConnection, Close
    <3>. QED
      BY <3>1
  <2>. QED
    BY <2>1, <2>2, <2>3, <2>4, <2>5
<1>2. ASSUME NEW f \in fetching[b], LoseFetch(b, f) PROVE TypeOK'
  <2>1. fetching' \in [Page -> SUBSET [call: Call, version: 1..MaxVersion,
                                       got: 0..MaxVersion]]
    BY <1>2 DEF LoseFetch
  <2>2. drops' \in 0..MaxDrops
    BY <1>2, DashboardAssumption DEF LoseFetch
  <2>3. missed' = TRUE
        /\ UNCHANGED <<store, announce, sending, dead, registered, open, silent, channel,
                       filter, asOf, socket, view, timer>>
    BY <1>2 DEF LoseFetch
  <2>. QED
    BY <2>1, <2>2, <2>3
<1>. QED
  BY <1>1, <1>2

-----------------------------------------------------------------------------
(* Connections and tables *)

LEMMA NextSockets ==
  ASSUME TypeOK, SocketsOK, [Next]_vars
  PROVE  SocketsOK'
<1> USE DEF TypeOK, SocketsOK, page, rendering
<1>1. ASSUME NEW c \in Call, ChangeCall(c) \/ ChangeCallUnannounced(c) PROVE SocketsOK'
  BY <1>1 DEF ChangeCall, ChangeCallUnannounced
<1>2. CASE ServerNext
  BY <1>2 DEF ServerNext, Broadcast, Prune, SendTo, Register, Disconnect
<1>3. ASSUME NEW b \in Page, NEW s \in Socket, Connect(b, s) PROVE SocketsOK'
  <2>1. \A a \in Page : socket[a] # s
    BY <1>3, DashboardAssumption DEF Connect, Free
  <2>. QED
    BY <1>3, <2>1 DEF Connect
<1>4. ASSUME NEW b \in Page, Reload(b) \/ LoseConnection(b) PROVE SocketsOK'
  BY <1>4 DEF Reload, LoseConnection
<1>5. ASSUME NEW b \in Page,
             HandleMessage(b) \/ \E f \in fetching[b] : \/ ServeRow(b, f) \/ PatchRow(b, f)
                                                        \/ LoseFetch(b, f)
      PROVE  SocketsOK'
  BY <1>5 DEF HandleMessage, ServeRow, PatchRow, LoseFetch
<1>6. CASE UNCHANGED vars
  BY <1>6 DEF vars
<1>. QED
  BY <1>1, <1>2, <1>3, <1>4, <1>5, <1>6 DEF Next, PageNext

\* What changes a table without rendering it schedules a reload.
LEMMA NextRendered ==
  ASSUME TypeOK, AsRendered, [Next]_vars
  PROVE  AsRendered'
<1> USE DEF TypeOK, AsRendered, page, rendering
<1>1. ASSUME NEW c \in Call, ChangeCall(c) \/ ChangeCallUnannounced(c) PROVE AsRendered'
  BY <1>1 DEF ChangeCall, ChangeCallUnannounced
<1>2. CASE ServerNext
  BY <1>2 DEF ServerNext, Broadcast, Prune, SendTo, Register, Disconnect
<1>3. ASSUME NEW b \in Page, HandleMessage(b) PROVE AsRendered'
  <2>1. \A a \in Page : ~timer'[a] => ~timer[a]
    BY <1>3 DEF HandleMessage
  <2>. QED
    BY <1>3, <2>1 DEF HandleMessage
<1>4. ASSUME NEW b \in Page, NEW f \in fetching[b], PatchRow(b, f) PROVE AsRendered'
  <2>1. \A a \in Page : ~timer'[a] => ~timer[a] /\ view'[a] = view[a]
    BY <1>4 DEF PatchRow
  <2>. QED
    BY <1>4, <2>1 DEF PatchRow
<1>5. ASSUME NEW b \in Page, Reload(b) PROVE AsRendered'
  <2>1. /\ view'[b] = Rows(store, filter[b]) /\ asOf'[b] = store /\ UNCHANGED filter
        /\ \A a \in Page \ {b} : /\ view'[a] = view[a] /\ asOf'[a] = asOf[a]
                                 /\ timer'[a] = timer[a]
    BY <1>5 DEF Reload, Render
  <2>. QED
    BY <2>1
<1>6. ASSUME NEW b \in Page,
             \/ \E s \in Socket : Connect(b, s)
             \/ LoseConnection(b)
             \/ \E f \in fetching[b] : ServeRow(b, f) \/ LoseFetch(b, f)
      PROVE  AsRendered'
  BY <1>6 DEF Connect, LoseConnection, ServeRow, LoseFetch
<1>7. CASE UNCHANGED vars
  BY <1>7 DEF vars
<1>. QED
  BY <1>1, <1>2, <1>3, <1>4, <1>5, <1>6, <1>7 DEF Next, PageNext

\* A change adds one call at most; a reload takes the store as it is.
LEMMA NextRecorded ==
  ASSUME TypeOK, StoreRecorded, [Next]_vars
  PROVE  StoreRecorded'
<1> USE DEF TypeOK, page, rendering
<1>1. ASSUME NEW c \in Call, ChangeCall(c) \/ ChangeCallUnannounced(c) PROVE StoreRecorded'
  <2> DEFINE stored == {d \in Call : store[d] > 0}
  <2>1. /\ store[c] < Len(History[c]) /\ store' = [store EXCEPT ![c] = @ + 1]
        /\ asOf' = asOf
    BY <1>1 DEF ChangeCall, ChangeCallUnannounced
  <2>2. {d \in Call : store'[d] > 0} = stored \cup {c}
    BY <2>1
  <2>3. \A d \in Call : store'[d] <= Len(History[d])
    BY <2>1, DashboardAssumption DEF StoreRecorded, Recorded
  <2>4. IsFiniteSet(stored \cup {c})
    <3>1. IsFiniteSet(stored)
      BY DEF StoreRecorded, Recorded
    <3> HIDE DEF stored
    <3>. QED
      BY <3>1, FS_AddElement
  <2>5. Recorded(store)'
    BY <2>2, <2>3, <2>4 DEF Recorded
  <2>. QED
    BY <2>1, <2>5 DEF StoreRecorded, Recorded
<1>2. ASSUME NEW b \in Page, Reload(b) PROVE StoreRecorded'
  <2>1. store' = store /\ asOf' = [asOf EXCEPT ![b] = store]
    BY <1>2 DEF Reload, Render
  <2>. QED
    BY <2>1 DEF StoreRecorded
<1>3. ASSUME UNCHANGED <<store, asOf>> PROVE StoreRecorded'
  BY <1>3 DEF StoreRecorded, Recorded
<1>4. CASE ServerNext
  BY <1>3, <1>4 DEF ServerNext, Broadcast, Prune, SendTo, Register, Disconnect
<1>5. ASSUME NEW b \in Page,
             \/ \E s \in Socket : Connect(b, s)
             \/ HandleMessage(b) \/ LoseConnection(b)
             \/ \E f \in fetching[b] : ServeRow(b, f) \/ PatchRow(b, f) \/ LoseFetch(b, f)
      PROVE  StoreRecorded'
  BY <1>3, <1>5 DEF Connect, HandleMessage, LoseConnection, ServeRow, PatchRow, LoseFetch
<1>6. CASE UNCHANGED vars
  BY <1>3, <1>6 DEF vars
<1>. QED
  BY <1>1, <1>2, <1>4, <1>5, <1>6 DEF Next, PageNext

\* News is of what is stored, and a row is read after the news of it.
LEMMA NextNews ==
  ASSUME TypeOK, NewsStored, AnswersAreNews, [Next]_vars
  PROVE  NewsStored' /\ AnswersAreNews'
<1> USE DEF TypeOK, page, rendering, hub
<1>1. ASSUME NEW c \in Call, ChangeCall(c) \/ ChangeCallUnannounced(c)
      PROVE  NewsStored' /\ AnswersAreNews'
  <2>1. /\ \A d \in Call : store'[d] \in Nat /\ store[d] \in Nat /\ store[d] <= store'[d]
        /\ store'[c] = store[c] + 1
    BY <1>1 DEF ChangeCall, ChangeCallUnannounced
  <2>2. \A m : m.call \in Call /\ m.version \in Nat /\ Stored(m) => Stored(m)'
    BY <2>1 DEF Stored
  <2>3. \A m \in Message : m.call \in Call /\ m.version \in Nat
    BY MessageForm
  <2>4. UNCHANGED <<sending, channel, fetching, view, asOf>>
    BY <1>1 DEF ChangeCall, ChangeCallUnannounced
  <2>5. \A m \in announce' : Stored(m)'
    <3>1. \A m \in announce' : m \in announce \/ (m.call = c /\ m.version = store'[c])
      <4> DEFINE news == [call |-> c, version |-> store[c] + 1]
      <4>1. announce' = announce \cup {news} \/ announce' = announce
        BY <1>1 DEF ChangeCall, ChangeCallUnannounced
      <4>2. news.call = c /\ news.version = store'[c]
        BY <2>1
      <4> HIDE DEF news
      <4>. QED
        BY <4>1, <4>2
    <3>2. \A m : m.call = c /\ m.version = store'[c] => Stored(m)'
      BY <2>1 DEF Stored
    <3>. QED
      BY <2>2, <2>3, <3>1, <3>2 DEF NewsStored
  <2>6. \A s \in Socket : \A i \in 1..Len(channel[s]) : channel[s][i] \in Message
    OBVIOUS
  <2>7. \A b \in Page : \A f \in fetching[b] :
          f.call \in Call /\ f.version \in Nat /\ f.got \in Nat
    OBVIOUS
  <2>8. NewsStored'
    BY <2>2, <2>3, <2>4, <2>5, <2>6, <2>7 DEF NewsStored
  <2>9. AnswersAreNews'
    BY <2>1, <2>4, <2>7 DEF AnswersAreNews
  <2>. QED
    BY <2>8, <2>9
<1>2. ASSUME NEW m \in Message, Broadcast(m) PROVE NewsStored' /\ AnswersAreNews'
  BY <1>2 DEF Broadcast, NewsStored, AnswersAreNews, Stored
<1>3. ASSUME NEW m \in Message, NEW t \in Socket, SendTo(m, t)
      PROVE  NewsStored' /\ AnswersAreNews'
  <2>1. UNCHANGED <<store, announce, fetching, view, asOf>>
    BY <1>3 DEF SendTo
  <2>2. Stored(m) /\ \A n \in Message : sending'[n] # {} => sending[n] # {}
    BY <1>3 DEF SendTo, NewsStored
  <2>3. \A s \in Socket : channel'[s] = channel[s] \/ channel'[s] = Append(channel[s], m)
    BY <1>3 DEF SendTo
  <2>4. ASSUME NEW s \in Socket, NEW i \in 1..Len(channel'[s]) PROVE Stored(channel'[s][i])
    <3>1. CASE channel'[s] = channel[s]
      BY <2>4, <3>1 DEF NewsStored
    <3>2. CASE channel'[s] = Append(channel[s], m)
      <4>1. channel[s] \in Seq(Message)
        OBVIOUS
      <4>2. i \in 1..Len(channel[s]) + 1
            /\ channel'[s][i] = IF i = Len(channel[s]) + 1 THEN m ELSE channel[s][i]
        BY <2>4, <3>2, <4>1, AppendProperties
      <4>3. CASE i = Len(channel[s]) + 1
        BY <2>2, <4>2, <4>3
      <4>4. CASE i \in 1..Len(channel[s]) /\ i # Len(channel[s]) + 1
        BY <4>2, <4>4 DEF NewsStored
      <4>5. Len(channel[s]) \in Nat
        BY <4>1, LenProperties
      <4>. QED
        BY <4>2, <4>3, <4>4, <4>5
    <3>. QED
      BY <2>3, <3>1, <3>2
  <2>5. \A n : Stored(n)' <=> Stored(n)
    BY <2>1 DEF Stored
  <2>. QED
    BY <2>1, <2>2, <2>4, <2>5 DEF NewsStored, AnswersAreNews
<1>4. ASSUME NEW b \in Page, HandleMessage(b) PROVE NewsStored' /\ AnswersAreNews'
  <2> DEFINE q == channel[socket[b]]
             m == Head(q)
             asked == [call |-> m.call, version |-> m.version, got |-> 0]
  <2>1. socket[b] \in Socket /\ q \in Seq(Message) /\ q # <<>>
    BY <1>4, DashboardAssumption DEF HandleMessage
  <2>2. m = q[1] /\ 1 \in 1..Len(q) /\ Len(Tail(q)) = Len(q) - 1 /\ Len(q) \in Nat
        /\ \A i \in 1..Len(q) - 1 : Tail(q)[i] = q[i + 1]
    BY <2>1, HeadTailProperties, LenProperties, EmptySeq
  <2>3. Stored(m)
    BY <2>1, <2>2 DEF NewsStored
  <2>4. UNCHANGED <<store, announce, sending, view, asOf>>
        /\ channel' = [channel EXCEPT ![socket[b]] = Tail(q)]
    BY <1>4 DEF HandleMessage
  <2>5. \A n : Stored(n)' <=> Stored(n)
    BY <2>4 DEF Stored
  <2>6. \A a \in Page : \A f \in fetching'[a] : f \in fetching[a] \/ f = asked
    BY <1>4 DEF HandleMessage
  <2>7. Stored(asked) /\ asked.got = 0
    BY <2>3 DEF Stored
  <2>8. ASSUME NEW s \in Socket, NEW i \in 1..Len(channel'[s]) PROVE Stored(channel'[s][i])
    <3>1. CASE s # socket[b]
      BY <2>4, <2>8, <3>1 DEF NewsStored
    <3>2. CASE s = socket[b]
      <4>1. channel'[s] = Tail(q)
        BY <2>4, <3>2
      <4>2. i \in 1..Len(q) - 1 /\ i + 1 \in 1..Len(q) /\ channel'[s][i] = q[i + 1]
        BY <2>2, <2>8, <4>1
      <4>. QED
        BY <2>1, <4>2 DEF NewsStored
    <3>. QED
      BY <3>1, <3>2
  <2> HIDE DEF q, m, asked
  <2>9. NewsStored'
    BY <2>4, <2>5, <2>6, <2>7, <2>8 DEF NewsStored
  <2>10. AnswersAreNews'
    BY <2>4, <2>6, <2>7 DEF AnswersAreNews
  <2>. QED
    BY <2>9, <2>10
<1>5. ASSUME NEW b \in Page, NEW g \in fetching[b], ServeRow(b, g)
      PROVE  NewsStored' /\ AnswersAreNews'
  <2> DEFINE answer == [g EXCEPT !.got = store[g.call]]
  <2>1. /\ g \in [call: Call, version: 1..MaxVersion, got: 0..MaxVersion]
        /\ answer.call = g.call /\ answer.version = g.version /\ answer.got = store[g.call]
        /\ Stored(g)
    BY DEF NewsStored
  <2>2. UNCHANGED <<store, announce, sending, channel, view, asOf>>
    BY <1>5 DEF ServeRow
  <2>3. \A a \in Page : \A f \in fetching'[a] : f \in fetching[a] \/ f = answer
    BY <1>5 DEF ServeRow
  <2>4. Stored(answer) /\ answer.got \in answer.version..store[answer.call]
    BY <2>1 DEF Stored
  <2>5. \A n : Stored(n)' <=> Stored(n)
    BY <2>2 DEF Stored
  <2> HIDE DEF answer
  <2>6. NewsStored'
    BY <2>2, <2>3, <2>4, <2>5 DEF NewsStored
  <2>7. AnswersAreNews'
    BY <2>2, <2>3, <2>4 DEF AnswersAreNews
  <2>. QED
    BY <2>6, <2>7
<1>6. ASSUME NEW b \in Page, NEW g \in fetching[b], PatchRow(b, g)
      PROVE  NewsStored' /\ AnswersAreNews'
  <2>1. g.got <= store[g.call] /\ g.call \in Call
    BY <1>6 DEF PatchRow, AnswersAreNews
  <2>2. UNCHANGED <<store, announce, sending, channel, asOf>>
        /\ \A a \in Page : fetching'[a] \subseteq fetching[a]
    BY <1>6 DEF PatchRow
  <2>3. \A a \in Page : \A c \in Call : view'[a][c] = view[a][c] \/ (c = g.call /\ view'[a][c] = g.got)
    BY <1>6, <2>1 DEF PatchRow
  <2>4. NewsStored'
    BY <2>2 DEF NewsStored, Stored
  <2>5. AnswersAreNews'
    BY <2>1, <2>2, <2>3 DEF AnswersAreNews
  <2>. QED
    BY <2>4, <2>5
<1>7. ASSUME NEW t \in Socket \cup {NoSocket}, Close(t)
      PROVE  \A s \in Socket : channel'[s] = channel[s] \/ channel'[s] = <<>>
  BY <1>7 DEF Close
<1>8. ASSUME UNCHANGED <<store, announce, sending>>,
             \A s \in Socket : channel'[s] = channel[s] \/ channel'[s] = <<>>,
             \A a \in Page : fetching'[a] \subseteq fetching[a]
      PROVE  NewsStored'
  BY <1>8 DEF NewsStored, Stored
<1>9. ASSUME NEW b \in Page, Reload(b) PROVE NewsStored' /\ AnswersAreNews'
  <2>1. /\ UNCHANGED <<store, announce, sending, filter>>
        /\ \A a \in Page : fetching'[a] \subseteq fetching[a]
        /\ view'[b] = Rows(store, filter[b]) /\ asOf'[b] = store
        /\ \A a \in Page \ {b} : view'[a] = view[a] /\ asOf'[a] = asOf[a]
    BY <1>9 DEF Reload, Render
  <2>2. NewsStored'
    BY <1>7, <1>8, <1>9, <2>1 DEF Reload, Render
  <2>3. \A c \in Call : Rows(store, filter[b])[c] <= store[c] /\ store[c] <= store[c]
    BY DEF Rows
  <2>4. AnswersAreNews'
    BY <2>1, <2>3 DEF AnswersAreNews
  <2>. QED
    BY <2>2, <2>4
<1>10. ASSUME NEW b \in Page, LoseConnection(b) PROVE NewsStored' /\ AnswersAreNews'
  <2>1. UNCHANGED <<store, announce, sending, fetching, view, asOf>>
    BY <1>10 DEF LoseConnection
  <2>2. NewsStored'
    BY <1>7, <1>8, <1>10, <2>1 DEF LoseConnection
  <2>. QED
    BY <2>1, <2>2 DEF AnswersAreNews
<1>11. ASSUME NEW b \in Page, NEW g \in fetching[b], LoseFetch(b, g)
       PROVE  NewsStored' /\ AnswersAreNews'
  <2>1. /\ UNCHANGED <<store, announce, sending, channel, view, asOf>>
        /\ \A a \in Page : fetching'[a] \subseteq fetching[a]
    BY <1>11 DEF LoseFetch
  <2>. QED
    BY <1>8, <2>1 DEF AnswersAreNews
<1>12. ASSUME UNCHANGED <<store, announce, sending, channel, fetching, view, asOf>>
       PROVE  NewsStored' /\ AnswersAreNews'
  BY <1>12 DEF NewsStored, Stored, AnswersAreNews
<1>13. ASSUME \/ \E m \in Message : Prune(m)
              \/ \E s \in Socket : Register(s) \/ Disconnect(s)
              \/ \E b \in Page : \E s \in Socket : Connect(b, s)
              \/ UNCHANGED vars
       PROVE  NewsStored' /\ AnswersAreNews'
  BY <1>12, <1>13 DEF Prune, Register, Disconnect, Connect, vars
<1>. QED
  BY <1>1, <1>2, <1>3, <1>4, <1>5, <1>6, <1>9, <1>10, <1>11, <1>13
     DEF Next, ServerNext, PageNext

LEMMA DashboardInvariance == Spec => []DashboardInv
<1>1. ASSUME DashboardInv, [Next]_vars PROVE DashboardInv'
  <2>1. CASE UNCHANGED vars
    BY <1>1, <2>1, NextRecorded, NextNews
       DEF DashboardInv, TypeOK, SocketsOK, AsRendered, vars, hub, page, rendering
  <2>2. CASE Next
    BY <1>1, <2>2, ChangeTypes, ServerTypes, PageTypes, LossTypes, NextSockets, NextRendered,
          NextRecorded, NextNews
       DEF DashboardInv, Next
  <2>. QED
    BY <1>1, <2>1, <2>2
<1>. QED
  BY <1>1, InitDashboard, PTL DEF Spec

-----------------------------------------------------------------------------
(* Theorems *)

\* Versions, messages and rows stay in their types; above all, a page refers to
\* no connection that is not open.
THEOREM DashboardTypesHold == Spec => []TypeOK
<1>1. DashboardInv => TypeOK
  BY DEF DashboardInv
<1>. QED
  BY <1>1, DashboardInvariance, PTL

\* The cards and the chart of a page count the rows of its table, unless a
\* reload that will bring them together is scheduled: whatever is patched, lost
\* or overtaken, and however many calls the listing leaves out.
THEOREM CardsMatch == Spec => []CardsMatchTable
<1>1. ASSUME DashboardInv PROVE CardsMatchTable
  <2> SUFFICES ASSUME NEW b \in Page, ~timer[b]
               PROVE  Contents(view[b]) = Listing(asOf[b], filter[b])
    BY DEF CardsMatchTable, Cards
  <2>1. asOf[b] \in [Call -> 0..MaxVersion] /\ view[b] = Rows(asOf[b], filter[b])
    BY <1>1 DEF DashboardInv, TypeOK, AsRendered
  <2>. QED
    BY <2>1, RowsAreListing
<1>. QED
  BY <1>1, DashboardInvariance, PTL

\* On every page each listed call with an outcome is counted once in the chart
\* and once more as connected or not connected, and calls without one in neither:
\* the chart's counts, summed, are those two cards together.
THEOREM CardsAlwaysAddUp == Spec => []CardsAddUp
<1>1. ASSUME DashboardInv PROVE CardsAddUp
  <2> SUFFICES ASSUME NEW b \in Page
               PROVE  LET rows == Listing(asOf[b], filter[b])
                          chart == StageDistribution(rows)
                          coded == MapThenSumSet(LAMBDA code : chart[code], DOMAIN chart)
                      IN  /\ Summarise(rows).connected + Summarise(rows).groups.non_connect
                               = coded
                          /\ coded <= Summarise(rows).total
    BY DEF CardsAddUp
  <2>1. asOf[b] \in [Call -> 0..MaxVersion] /\ Recorded(asOf[b])
    BY <1>1 DEF DashboardInv, TypeOK, StoreRecorded
  <2>2. /\ IsFiniteSet(Listing(asOf[b], filter[b]))
        /\ \A r \in Listing(asOf[b], filter[b]) : r.stage \in Stage \cup {NoStage}
    BY <2>1, ListingRecorded
  <2>. QED
    BY <2>2, ListingAddsUp
<1>. QED
  BY <1>1, DashboardInvariance, PTL

\* A row is answered at least as new as the change the page asked it for, and no
\* page shows what is not stored yet: the store is written before the change is
\* announced, and the page reads it after the announcement.
THEOREM AnswersAreNewsAlways == Spec => []AnswersAreNews
<1>1. DashboardInv => AnswersAreNews
  BY DEF DashboardInv
<1>. QED
  BY <1>1, DashboardInvariance, PTL
=============================================================================

---------------------------- MODULE LiveDashboard ----------------------------
(***************************************************************************)
(* The live dashboard: handlers change a call and then broadcast it        *)
(* through ConnectionHub (app/ws/hub.py), a page rendered by the server    *)
(* listens on /ws/calls and runs static/app.js.                            *)
(*                                                                         *)
(* A call runs through the versions of its history, 0 before it exists.    *)
(* What a page shows of it is CallListing's.  A socket is one connection   *)
(* of one page and its name is used again once nobody refers to it.        *)
(***************************************************************************)
EXTENDS CallListing, Sequences, SequencesExt

CONSTANTS
  Page, Socket, NoSocket,
  History,      \* call -> the sequence of its contents
  Filters,      \* what pages are filtered by
  Earlier,      \* calls stored before the pages are opened
  MaxVersion,   \* bound: changes of one call, its creation included
  MaxDrops      \* bound: connections lost, fetches and audit entries failed

ASSUME DashboardAssumption ==
  /\ NoSocket \notin Socket /\ MaxDrops \in Nat /\ MaxVersion \in Nat
  /\ Earlier \subseteq Call /\ IsFiniteSet(Earlier)
  /\ \A c \in Call : /\ Len(History[c]) \in 1..MaxVersion
                     /\ \A i \in 1..Len(History[c]) : History[c][i].stage \in Stage \cup {NoStage}

Message == UNION {[call: {c}, version: 1..Len(History[c])] : c \in Call}

VARIABLES
  store,       \* call -> version
  announce,    \* changes made and not yet broadcast
  sending,     \* broadcasts under way: message -> sockets left
  dead,        \* broadcasts under way: message -> sockets that raised
  registered,  \* hub._connections
  open,        \* sockets alive at the browser's end
  silent,      \* sockets gone without a close that reached the server
  channel,     \* socket -> messages on their way
  filter,      \* page -> the filter in its address
  asOf,        \* page -> the store it was rendered from: its cards and chart
  socket,      \* page -> its socket
  view,        \* page -> versions in its table, 0 without a row
  fetching,    \* page -> rows asked for; got is 0 until the server has read it
  timer,       \* page -> a reload is scheduled
  drops,
  missed       \* some page was never told of a change it does not show

hub == <<announce, sending, dead, registered>>
rendering == <<filter, asOf>>
page == <<socket, view, fetching, timer, rendering>>
vars == <<store, hub, open, silent, channel, page, drops, missed>>

TypeOK ==
  /\ store \in [Call -> 0..MaxVersion]
  /\ announce \subseteq Message
  /\ sending \in [Message -> SUBSET Socket] /\ dead \in [Message -> SUBSET Socket]
  /\ registered \subseteq Socket /\ open \subseteq Socket
  /\ silent \subseteq Socket \ open
  /\ channel \in [Socket -> Seq(Message)]
  /\ socket \in [Page -> open \cup {NoSocket}]
  /\ filter \in [Page -> Filters]
  /\ asOf \in [Page -> [Call -> 0..MaxVersion]]
  /\ view \in [Page -> [Call -> 0..MaxVersion]]
  /\ fetching \in [Page -> SUBSET [call: Call, version: 1..MaxVersion,
                                    got: 0..MaxVersion]]
  /\ timer \in [Page -> BOOLEAN]
  /\ drops \in 0..MaxDrops /\ missed \in BOOLEAN

\* The contents of the calls at given versions, and the rows a page rendered
\* from them has.
Contents(versions) == {History[c][versions[c]] : c \in {d \in Call : versions[d] > 0}}
Listing(versions, f) == Filtered(Contents(versions), f)
Rows(versions, f) ==
  LET listing == Listing(versions, f)
  IN  [c \in Call |-> IF versions[c] > 0 /\ History[c][versions[c]] \in listing
                        THEN versions[c] ELSE 0]

Init ==
  /\ store = [c \in Call |-> IF c \in Earlier THEN 1 ELSE 0]
  /\ announce = {} /\ registered = {} /\ open = {} /\ silent = {}
  /\ sending = [m \in Message |-> {}] /\ dead = [m \in Message |-> {}]
  /\ channel = [s \in Socket |-> <<>>]
  /\ socket = [b \in Page |-> NoSocket]
  /\ filter \in [Page -> Filters]
  /\ asOf = [b \in Page |-> store]
  /\ view = [b \in Page |-> Rows(store, filter[b])]
  /\ fetching = [b \in Page |-> {}]
  /\ timer = [b \in Page |-> FALSE]
  /\ drops = 0 /\ missed = FALSE

-----------------------------------------------------------------------------
(* Handlers and the hub *)

\* Mutant: nothing orders the announcement after the write.
ChangeCallUnordered(c) ==
  /\ store[c] < Len(History[c])
  /\ \/ store' = [store EXCEPT ![c] = @ + 1] /\ UNCHANGED announce
     \/ /\ announce' = announce \cup {[call |-> c, version |-> store[c] + 1]}
        /\ UNCHANGED store
  /\ UNCHANGED <<sending, dead, registered, open, silent, channel, page, drops, missed>>

\* The store is written first, the change announced after the audit entry.
ChangeCall(c) ==
  /\ store[c] < Len(History[c])
  /\ store' = [store EXCEPT ![c] = @ + 1]
  /\ announce' = announce \cup {[call |-> c, version |-> store[c] + 1]}
  /\ UNCHANGED <<sending, dead, registered, open, silent, channel, page, drops, missed>>

\* The audit entry between the two raises: the change is stored and never
\* announced.
ChangeCallUnannounced(c) ==
  /\ store[c] < Len(History[c])
  /\ drops < MaxDrops /\ drops' = drops + 1
  /\ store' = [store EXCEPT ![c] = @ + 1]
  /\ missed' = TRUE
  /\ UNCHANGED <<hub, open, silent, channel, page>>

Untold(m) ==
  \E b \in Page : /\ socket[b] \notin registered
                  /\ asOf[b][m.call] < m.version /\ view[b][m.call] < m.version

Broadcast(m) ==
  /\ m \in announce
  /\ announce' = announce \ {m}
  /\ sending' = [sending EXCEPT ![m] = registered]
  /\ missed' = (missed \/ Untold(m))
  /\ UNCHANGED <<store, dead, registered, open, silent, channel, page, drops>>

\* A send to a closed socket raises; one to a socket that died in silence may
\* still be taken by the network and be lost.
SendTo(m, s) ==
  /\ s \in sending[m]
  /\ sending' = [sending EXCEPT ![m] = @ \ {s}]
  /\ \/ s \in open /\ channel' = [channel EXCEPT ![s] = Append(@, m)] /\ UNCHANGED dead
     \/ s \notin open /\ dead' = [dead EXCEPT ![m] = @ \cup {s}] /\ UNCHANGED channel
     \/ s \in silent /\ UNCHANGED <<dead, channel>>
  /\ UNCHANGED <<store, announce, registered, open, silent, page, drops, missed>>

Prune(m) ==
  /\ sending[m] = {} /\ dead[m] # {}
  /\ registered' = registered \ dead[m]
  /\ dead' = [dead EXCEPT ![m] = {}]
  /\ UNCHANGED <<store, announce, sending, open, silent, channel, page, drops, missed>>

\* hub.connect, once the socket is accepted.
Register(s) ==
  /\ s \in open \ registered
  /\ registered' = registered \cup {s}
  /\ UNCHANGED <<store, announce, sending, dead, open, silent, channel, page, drops, missed>>

\* Mutant: a closed socket is left to the next broadcast.
DisconnectIgnored(s) ==
  /\ s \in registered \ open /\ s \notin silent
  /\ UNCHANGED vars

\* The close reaches the server: receive_text raises and the endpoint calls
\* hub.disconnect.
Disconnect(s) ==
  /\ s \in registered \ open /\ s \notin silent
  /\ registered' = registered \ {s}
  /\ UNCHANGED <<store, announce, sending, dead, open, silent, channel, page, drops, missed>>

-----------------------------------------------------------------------------
(* The page *)

Free(s) ==
  /\ s \notin open \cup registered
  /\ \A m \in Message : s \notin sending[m] \cup dead[m]

\* On load, or when the retry delay after a close is over.
Connect(b, s) ==
  /\ socket[b] = NoSocket
  /\ Free(s)
  /\ socket' = [socket EXCEPT ![b] = s]
  /\ open' = open \cup {s} /\ silent' = silent \ {s}
  /\ UNCHANGED <<store, hub, channel, rendering, view, fetching, timer, drops, missed>>

\* Mutant: a patched row schedules no reload.
PatchRowOnly(b, f) ==
  /\ f \in fetching[b] /\ f.got # 0
  /\ fetching' = [fetching EXCEPT ![b] = @ \ {f}]
  /\ view' = [view EXCEPT ![b][f.call] = f.got]
  /\ UNCHANGED <<store, hub, open, silent, channel, rendering, socket, timer, drops, missed>>

\* handle: a new call or one without a row schedules a reload, another asks
\* for its row.
HandleMessage(b) ==
  /\ socket[b] # NoSocket /\ channel[socket[b]] # <<>>
  /\ LET m == Head(channel[socket[b]])
         known == m.version > 1 /\ view[b][m.call] > 0
     IN  /\ timer' = [timer EXCEPT ![b] = @ \/ ~known]
         /\ fetching' = [fetching EXCEPT ![b] =
              IF known THEN @ \cup {[call |-> m.call, version |-> m.version, got |-> 0]}
                       ELSE @]
  /\ channel' = [channel EXCEPT ![socket[b]] = Tail(@)]
  /\ UNCHANGED <<store, hub, open, silent, rendering, socket, view, drops, missed>>

\* GET /api/v1/calls/{call_id} reads the record ...
ServeRow(b, f) ==
  /\ f \in fetching[b] /\ f.got = 0
  /\ fetching' = [fetching EXCEPT ![b] = (@ \ {f}) \cup {[f EXCEPT !.got = store[f.call]]}]
  /\ UNCHANGED <<store, hub, open, silent, channel, rendering, socket, view, timer, drops, missed>>

\* ... and the answer, in any order with others, patches the row.
PatchRow(b, f) ==
  /\ f \in fetching[b] /\ f.got # 0
  /\ fetching' = [fetching EXCEPT ![b] = @ \ {f}]
  /\ view' = [view EXCEPT ![b][f.call] = f.got]
  /\ timer' = [timer EXCEPT ![b] = TRUE]
  /\ UNCHANGED <<store, hub, open, silent, channel, rendering, socket, drops, missed>>

\* The page's connection is closed by its reload or by the network.
Close(s) ==
  IF s = NoSocket THEN UNCHANGED <<open, channel>>
  ELSE open' = open \ {s} /\ channel' = [channel EXCEPT ![s] = <<>>]

\* GET /: the server renders the page from the store as it is.  The form of
\* filters leads to another page.
Render(b) ==
  /\ asOf' = [asOf EXCEPT ![b] = store]
  /\ view' = [view EXCEPT ![b] = Rows(store, filter[b])]
  /\ fetching' = [fetching EXCEPT ![b] = {}]
  /\ timer' = [timer EXCEPT ![b] = FALSE]
  /\ Close(socket[b])

\* Mutant: the page forgets to let go of its socket.
ReloadKeepingSocket(b) ==
  /\ timer[b]
  /\ Render(b)
  /\ UNCHANGED <<store, hub, silent, socket, filter, drops, missed>>

\* The timer fires.
Reload(b) ==
  /\ timer[b]
  /\ Render(b)
  /\ socket' = [socket EXCEPT ![b] = NoSocket]
  /\ UNCHANGED <<store, hub, silent, filter, drops, missed>>

Pending(s) ==
  channel[s] # <<>> \/ \E m \in Message : s \in sending[m]

\* The connection is lost, with or without the server noticing; onclose leads
\* to another connect, not to a reload.
LoseConnection(b) ==
  /\ socket[b] # NoSocket
  /\ drops < MaxDrops /\ drops' = drops + 1
  /\ missed' = (missed \/ Pending(socket[b]))
  /\ Close(socket[b])
  /\ silent' \in {silent, silent \cup {socket[b]}}
  /\ socket' = [socket EXCEPT ![b] = NoSocket]
  /\ UNCHANGED <<store, hub, rendering, view, fetching, timer>>

\* A fetch that fails is caught and forgotten.
LoseFetch(b, f) ==
  /\ f \in fetching[b]
  /\ drops < MaxDrops /\ drops' = drops + 1
  /\ fetching' = [fetching EXCEPT ![b] = @ \ {f}]
  /\ missed' = TRUE
  /\ UNCHANGED <<store, hub, open, silent, channel, rendering, socket, view, timer>>

-----------------------------------------------------------------------------
ServerNext ==
  \/ \E m \in Message : Broadcast(m) \/ Prune(m) \/ \E s \in Socket : SendTo(m, s)
  \/ \E s \in Socket : Register(s) \/ Disconnect(s)
PageNext(b) ==
  \/ \E s \in Socket : Connect(b, s)
  \/ HandleMessage(b)
  \/ \E f \in fetching[b] : ServeRow(b, f) \/ PatchRow(b, f)
  \/ Reload(b)
Next ==
  \/ \E c \in Call : ChangeCall(c) \/ ChangeCallUnannounced(c)
  \/ ServerNext
  \/ \E b \in Page : PageNext(b) \/ LoseConnection(b)
  \/ \E b \in Page : \E f \in fetching[b] : LoseFetch(b, f)

Spec == Init /\ [][Next]_vars

\* The event loop of the server and that of each browser run what is ready.
FairSpec ==
  Spec /\ WF_vars(ServerNext) /\ \A b \in Page : WF_vars(PageNext(b))

-----------------------------------------------------------------------------
(* Properties *)

\* A page that was told of every change it does not show ends up showing what
\* the server would render now, its filtered rows as well as its cards,
\* whatever the order in which rows are fetched, answered and patched, and
\* however reloads interrupt that.
Cards(versions, f) ==
  LET rows == Listing(versions, f) IN <<Summarise(rows), StageDistribution(rows)>>
Fresh ==
  \A b \in Page : /\ view[b] = Rows(store, filter[b])
                  /\ Cards(asOf[b], filter[b]) = Cards(store, filter[b])
ToldPagesCatchUp == []~missed => <>[]Fresh

\* The cards and the chart of a page count the rows of its table, unless a
\* reload that will bring them together is scheduled.
CardsMatchTable ==
  \A b \in Page : ~timer[b] =>
    LET rows == Contents(view[b])
    IN  <<Summarise(rows), StageDistribution(rows)>> = Cards(asOf[b], filter[b])

\* A row is answered at least as new as the change a page asked it for, and
\* no page shows what is not stored yet.
AnswersAreNews ==
  \A b \in Page :
    /\ \A f \in fetching[b] : f.got # 0 => f.got \in f.version..store[f.call]
    /\ \A c \in Call : view[b][c] <= store[c] /\ asOf[b][c] <= store[c]

\* On every page each call with an outcome is counted either as connected or
\* as not connected, and once in the chart.
CardsAddUp ==
  \A b \in Page :
    LET summary == Summarise(Listing(asOf[b], filter[b]))
        chart == StageDistribution(Listing(asOf[b], filter[b]))
        coded == MapThenSumSet(LAMBDA code : chart[code], DOMAIN chart)
    IN  /\ summary.connected + summary.groups.non_connect = coded
        /\ coded <= summary.total

\* The hub does not collect dead sockets: one whose close reached the server,
\* or to which a send failed, is not kept.  One that died in silence and that
\* no send failed on may stay.
DeadSocketsForgotten ==
  []<>(\A s \in registered \ open : s \in silent /\ \A m \in Message : s \notin dead[m])
=============================================================================

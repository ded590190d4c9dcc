------------------------------ MODULE TaskStream ------------------------------
(***************************************************************************)
(* GET /tasks/:id/stream, from the insert of an event row to the browser:  *)
(* writers that append to execution_events and notify on commit, the api's *)
(* LISTEN connection and its hub, one TaskStream and SseConnection per     *)
(* subscriber, and the EventSource hook that reconnects.                   *)
(*                                                                         *)
(* One task is modelled: other tasks' events reach other streams.  Events  *)
(* are their ids, and sizes count frames: an id of Large is a frame larger *)
(* than the output cap, every other frame has size 1.                      *)
(***************************************************************************)
EXTENDS Naturals, Sequences, FiniteSets, FiniteSetsExt

CONSTANTS Clients,        \* browser tabs, each holding one hook
          None,           \* no cursor, no id
          MaxEvents,      \* bound: event ids are 1 .. MaxEvents
          PageLimit,      \* TIMELINE_LIMIT_MAX
          Cap,            \* maxBufferedBytes
          HighWater,      \* unsent output at which write() asks for a pause
          Large,          \* ids of events larger than the cap
          MaxFaults       \* bound on failures and losses

ASSUME StreamAssumption ==
  /\ {MaxEvents, MaxFaults} \subseteq Nat
  /\ {PageLimit, Cap, HighWater} \subseteq Nat \ {0}
  /\ Large \subseteq 1 .. MaxEvents
  /\ None \notin Nat

Ids == 1 .. MaxEvents

VARIABLES committed,    \* ids of the visible execution_events rows
          uncommitted,  \* ids inserted by transactions still open
          nextId,       \* the bigserial
          listening,    \* whether the LISTEN connection is in effect
          channel,      \* notifications on their way to it
          delivery,     \* the hub's chain: events being loaded, in order
          conn,         \* each client's TaskStream and SseConnection
          source,       \* whether the client's EventSource is open
          last,         \* lastEventIdRef of the hook
          since,        \* history: the first anchor read for the client
          faults        \* failures so far

rows  == <<committed, uncommitted, nextId>>
hub   == <<listening, channel, delivery>>
tabs  == <<source, last>>
vars  == <<rows, hub, conn, tabs, since, faults>>

SyncStates == {"none",      \* not syncing
               "anchor",    \* anchor() in flight
               "anchored",  \* anchor() read, its promise to resolve
               "query",     \* backlog() in flight
               "page"}      \* sending the rows of a page

NoConn == [open |-> FALSE, wire |-> {}, oversized |-> None, needDrain |-> FALSE,
           lastSent |-> None, sync |-> "none", page |-> {}, full |-> FALSE,
           resync |-> FALSE, buffer |-> {}]

Conn == [open : BOOLEAN, wire : SUBSET Ids, oversized : Ids \cup {None},
         needDrain : BOOLEAN, lastSent : 0 .. MaxEvents \cup {None},
         sync : SyncStates, page : SUBSET Ids, full : BOOLEAN,
         resync : BOOLEAN, buffer : SUBSET Ids]

ConnOK(n) == /\ n \in Conn
             /\ n.sync = "none" => n.buffer = {} /\ ~n.resync
             /\ n.oversized # None => n.oversized \in n.wire \cap Large

LogOK  == committed \subseteq Ids /\ uncommitted \subseteq Ids /\ nextId \in 1 .. MaxEvents + 1
HubOK  == /\ listening \in BOOLEAN
          /\ channel \in Seq(Ids)
          /\ delivery \in Seq([event : Ids, row : {"loading", "loaded", "failed"}])
TabsOK == /\ source \in [Clients -> BOOLEAN]
          /\ last \in [Clients -> Ids \cup {None}]
          /\ since \in [Clients -> 0 .. MaxEvents \cup {None}]

TypeOK == /\ LogOK /\ HubOK /\ TabsOK /\ faults \in 0 .. MaxFaults
          /\ conn \in [Clients -> Conn] /\ \A c \in Clients : ConnOK(conn[c])

(***************************************************************************)
(* SseConnection.  wire is the output the client has not taken.  It is a   *)
(* set because it is written in id order: send() never writes an id below  *)
(* one it has written.                                                     *)
(***************************************************************************)

\* countedBytes(): an oversized frame in flight is left out of the cap.
Counted(n) == Cardinality(n.wire \ Large)

\* drop(): the connection is destroyed and its unsent output is lost.
Dropped == NoConn
\* end(): nothing is written any more; what was written still arrives.
Ended(n) == [NoConn EXCEPT !.wire = n.wire]

\* write() of the frames of new, one after the other.  A second oversized
\* frame behind one in flight counts, which alone exceeds the cap.
Write(n, new) ==
  LET big     == (n.wire \cup new) \cap Large
      written == [n EXCEPT !.wire = @ \cup new,
                           !.oversized = IF big = {} THEN None ELSE Min(big),
                           !.needDrain = \/ @
                                         \/ Cardinality(n.wire \cup new) >= HighWater
                                         \/ big # {}]
  IN  IF Cardinality(big) > 1 \/ Counted(written) > Cap THEN Dropped ELSE written

(***************************************************************************)
(* TaskStream.                                                             *)
(***************************************************************************)

\* send() of the events of ids, in id order.
Send(n, ids) ==
  IF ~n.open THEN n
  ELSE LET new == {id \in ids : id > n.lastSent}
       IN  IF new = {} THEN n ELSE Write([n EXCEPT !.lastSent = Max(new)], new)

\* The backlog loop asks for the next page; a resync asked for while it ran
\* starts it again.
StartBacklog(n) == [n EXCEPT !.sync = "query", !.page = {}, !.resync = FALSE]

\* The end of sync(): the buffered live events go out, sorted by id.
Flush_KeepsBuffer(n) == Send([n EXCEPT !.sync = "none", !.page = {}], n.buffer)
Flush(n) == Send([n EXCEPT !.sync = "none", !.page = {}, !.buffer = {}], n.buffer)

Opened(cursor) ==
  [NoConn EXCEPT !.open = TRUE, !.lastSent = cursor,
                 !.sync = IF cursor = None THEN "anchor" ELSE "query"]

\* Whether buffering id would take the connection past its cap; one event
\* larger than the cap is admitted when no other is buffered or in flight.
PastCap(n, id) ==
  LET held == Counted(n) + Cardinality(n.buffer \ Large)
  IN  IF id \in Large
      THEN held > Cap \/ n.oversized # None \/ n.buffer \cap Large # {}
      ELSE held + 1 > Cap

Push_Uncapped(n, id) ==
  IF n.open /\ n.sync # "none" THEN [n EXCEPT !.buffer = @ \cup {id}] ELSE Send(n, {id})
Push(n, id) ==
  IF ~n.open \/ n.sync = "none" THEN Send(n, {id})
  ELSE IF PastCap(n, id) THEN Dropped ELSE [n EXCEPT !.buffer = @ \cup {id}]

Resync_Forgotten(n) == IF n.open /\ n.sync = "none" THEN StartBacklog(n) ELSE n
Resync(n) == IF ~n.open THEN n
             ELSE IF n.sync = "none" THEN StartBacklog(n) ELSE [n EXCEPT !.resync = TRUE]

Fault == faults < MaxFaults /\ faults' = faults + 1

Init ==
  /\ committed = {} /\ uncommitted = {} /\ nextId = 1
  /\ listening = TRUE /\ channel = <<>> /\ delivery = <<>>
  /\ conn = [c \in Clients |-> NoConn]
  /\ source = [c \in Clients |-> FALSE]
  /\ last = [c \in Clients |-> None]
  /\ since = [c \in Clients |-> None]
  /\ faults = 0

(***************************************************************************)
(* appendEvent in the writers' transactions.                               *)
(***************************************************************************)

\* The row is inserted under the task's event-order lock, held to the end of
\* the transaction, so an id is assigned once the one before it is decided.
AppendEvent_Unordered ==
  /\ nextId \in Ids
  /\ uncommitted' = uncommitted \cup {nextId}
  /\ nextId' = nextId + 1
  /\ UNCHANGED <<committed, hub, conn, tabs, since, faults>>
AppendEvent ==
  /\ uncommitted = {}
  /\ nextId \in Ids
  /\ uncommitted' = {nextId}
  /\ nextId' = nextId + 1
  /\ UNCHANGED <<committed, hub, conn, tabs, since, faults>>

\* The commit makes the row visible and sends its notification.
Commit(id) ==
  /\ id \in uncommitted
  /\ committed' = committed \cup {id}
  /\ uncommitted' = uncommitted \ {id}
  /\ channel' = IF listening THEN Append(channel, id) ELSE channel
  /\ UNCHANGED <<nextId, listening, delivery, conn, tabs, since, faults>>

\* A rollback discards the row and its notification, and leaves a gap.
Rollback(id) ==
  /\ id \in uncommitted
  /\ uncommitted' = uncommitted \ {id}
  /\ UNCHANGED <<committed, nextId, hub, conn, tabs, since, faults>>

(***************************************************************************)
(* The hub.                                                                *)
(***************************************************************************)

\* The LISTEN connection is lost with the notifications sent to it.
LoseListen ==
  /\ listening /\ Fault
  /\ listening' = FALSE /\ channel' = <<>>
  /\ UNCHANGED <<rows, delivery, conn, tabs, since>>

HandleListen_Quiet ==
  /\ ~listening /\ listening' = TRUE
  /\ UNCHANGED <<rows, channel, delivery, conn, tabs, since, faults>>
HandleListen ==
  /\ ~listening /\ listening' = TRUE
  /\ conn' = [c \in Clients |-> Resync(conn[c])]
  /\ UNCHANGED <<rows, channel, delivery, tabs, since, faults>>

\* With no stream of the task registered the notification is ignored.
HandleNotify ==
  /\ channel # <<>>
  /\ channel' = Tail(channel)
  /\ delivery' = IF \E c \in Clients : conn[c].open
                 THEN Append(delivery, [event |-> Head(channel), row |-> "loading"])
                 ELSE delivery
  /\ UNCHANGED <<rows, listening, conn, tabs, since, faults>>

\* Loads run concurrently and finish in any order.
EventLoaded(i) ==
  /\ delivery[i].row = "loading"
  /\ delivery' = [delivery EXCEPT ![i].row = "loaded"]
  /\ UNCHANGED <<rows, listening, channel, conn, tabs, since, faults>>

EventLoadFails(i) ==
  /\ delivery[i].row = "loading" /\ Fault
  /\ delivery' = [delivery EXCEPT ![i].row = "failed"]
  /\ UNCHANGED <<rows, listening, channel, conn, tabs, since>>

\* Deliveries are chained: the oldest goes first, and a failed load makes
\* every stream of the task read again from its last sent id.
DeliverNext ==
  /\ delivery # <<>>
  /\ Head(delivery).row # "loading"
  /\ delivery' = Tail(delivery)
  /\ conn' = [c \in Clients |-> IF Head(delivery).row = "failed" THEN Resync(conn[c])
                                ELSE Push(conn[c], Head(delivery).event)]
  /\ UNCHANGED <<rows, listening, channel, tabs, since, faults>>

(***************************************************************************)
(* sync() of one stream, a step between two awaits at a time.              *)
(***************************************************************************)

\* lastSentId is assigned when the read returns; until then it is not read.
AnchorRead(c) ==
  /\ conn[c].sync = "anchor"
  /\ LET anchor == Max(committed \cup {0})
     IN  /\ conn' = [conn EXCEPT ![c].sync = "anchored", ![c].lastSent = anchor]
         /\ since' = [since EXCEPT ![c] = IF @ = None THEN anchor ELSE @]
  /\ UNCHANGED <<rows, hub, tabs, faults>>

AnchorReturns(c) ==
  /\ conn[c].sync = "anchored"
  /\ conn' = [conn EXCEPT ![c] = IF @.resync THEN StartBacklog(@) ELSE Flush(@)]
  /\ UNCHANGED <<rows, hub, tabs, since, faults>>

\* listTimeline(after): the first PageLimit rows above the cursor.
Page(after) ==
  {id \in committed : /\ id > after
                      /\ Cardinality({i \in committed : after < i /\ i <= id}) <= PageLimit}

PageRead(c) ==
  /\ conn[c].sync = "query"
  /\ LET page == Page(conn[c].lastSent)
     IN  conn' = [conn EXCEPT ![c].sync = "page", ![c].page = page,
                              ![c].full = Cardinality(page) >= PageLimit]
  /\ UNCHANGED <<rows, hub, tabs, since, faults>>

\* A row goes out once the client has drained what was written before it.
SendRow(c) ==
  /\ conn[c].sync = "page" /\ conn[c].page # {} /\ ~conn[c].needDrain
  /\ LET id == Min(conn[c].page)
     IN  conn' = [conn EXCEPT ![c] = Send([conn[c] EXCEPT !.page = @ \ {id}], {id})]
  /\ UNCHANGED <<rows, hub, tabs, since, faults>>

PageDone(c) ==
  /\ conn[c].sync = "page" /\ conn[c].page = {} /\ ~conn[c].needDrain
  /\ conn' = [conn EXCEPT ![c] = IF @.full THEN [@ EXCEPT !.sync = "query"]
                                 ELSE IF @.resync THEN StartBacklog(@) ELSE Flush(@)]
  /\ UNCHANGED <<rows, hub, tabs, since, faults>>

\* A failed anchor or backlog query ends the stream.
QueryFails(c) ==
  /\ conn[c].sync \in {"anchor", "query"} /\ Fault
  /\ conn' = [conn EXCEPT ![c] = Ended(@)]
  /\ UNCHANGED <<rows, hub, tabs, since>>

(***************************************************************************)
(* The browser: useEventStream.                                            *)
(***************************************************************************)

\* connect(): the cursor is the id of the last event received, if any.
Connect(c) ==
  /\ ~source[c]
  /\ source' = [source EXCEPT ![c] = TRUE]
  /\ conn' = [conn EXCEPT ![c] = Opened(last[c])]
  /\ UNCHANGED <<rows, hub, last, since, faults>>

Receive(c) ==
  /\ source[c] /\ conn[c].wire # {}
  /\ LET id   == Min(conn[c].wire)
         left == conn[c].wire \ {id}
     IN  /\ last' = [last EXCEPT ![c] = id]
         /\ conn' = [conn EXCEPT ![c].wire = left,
                                 ![c].oversized = IF @ = id THEN None ELSE @,
                                 ![c].needDrain = @ /\ left # {}]
  /\ UNCHANGED <<rows, hub, source, since, faults>>

\* onerror: the EventSource is closed and connects again after a delay.
SeesEnd(c) ==
  /\ source[c] /\ ~conn[c].open /\ conn[c].wire = {}
  /\ source' = [source EXCEPT ![c] = FALSE]
  /\ UNCHANGED <<rows, hub, conn, last, since, faults>>

LoseConnection(c) ==
  /\ source[c] /\ Fault
  /\ source' = [source EXCEPT ![c] = FALSE]
  /\ conn' = [conn EXCEPT ![c] = Dropped]
  /\ UNCHANGED <<rows, hub, last, since>>

\* The api process is replaced: the new one serves once its LISTEN is in
\* effect, and knows nothing of the old one's streams and notifications.
RestartApi ==
  /\ Fault
  /\ listening' = TRUE /\ channel' = <<>> /\ delivery' = <<>>
  /\ conn' = [c \in Clients |-> Dropped]
  /\ UNCHANGED <<rows, tabs, since>>

Writer == AppendEvent \/ \E id \in uncommitted : Commit(id) \/ Rollback(id)

Hub == \/ HandleListen \/ HandleNotify \/ DeliverNext
       \/ \E i \in DOMAIN delivery : EventLoaded(i)

Stream(c) == AnchorRead(c) \/ AnchorReturns(c) \/ PageRead(c) \/ SendRow(c) \/ PageDone(c)

Failure ==
  \/ LoseListen \/ RestartApi
  \/ \E i \in DOMAIN delivery : EventLoadFails(i)
  \/ \E c \in Clients : QueryFails(c) \/ LoseConnection(c)

\* Every step a view of the tab does not see.
Unseen == Writer \/ Hub \/ Failure \/ \E c \in Clients : Stream(c) \/ SeesEnd(c)

Next == Unseen \/ \E c \in Clients : Connect(c) \/ Receive(c)

Spec == Init /\ [][Next]_vars

\* Queries return, the LISTEN connection is re-established and an open tab
\* reads and reconnects; nothing makes a writer append or a fault happen.
Fairness ==
  /\ WF_vars(HandleListen) /\ WF_vars(HandleNotify) /\ WF_vars(DeliverNext)
  /\ WF_vars(\E i \in DOMAIN delivery : EventLoaded(i))
  /\ \A c \in Clients : WF_vars(Stream(c)) /\ WF_vars(Connect(c) \/ Receive(c) \/ SeesEnd(c))

LiveSpec == Spec /\ Fairness

(***************************************************************************)
(* Properties.                                                             *)
(***************************************************************************)

Feed == INSTANCE EventFeed WITH log <- committed

\* A subscriber receives every event of the task from its first one on, once
\* and in the order of the log, whatever is lost or restarted in between:
\* the program implements the abstract feed (task-stream.ts, "neither gaps
\* nor duplicates"; events.ts, commits of one task in id order).
ImplementsFeed == Feed!FeedSpec

\* A stream that is not syncing owes its client nothing: with LISTEN in
\* effect and no notification or delivery under way, every event is sent.
\* Reading after a failed load, a lost LISTEN or a full page must not stop
\* early.
IdleIsCaughtUp ==
  listening /\ channel = <<>> /\ delivery = <<>> =>
    \A c \in Clients : conn[c].open /\ conn[c].sync = "none" =>
      \A id \in committed : id <= conn[c].lastSent

\* However slow the client, the output and the buffer held for it stay
\* within the cap each, plus one oversized frame each.
Bounded(n) ==
  /\ Counted(n) <= Cap /\ Cardinality(n.wire \cap Large) <= 1
  /\ Cardinality(n.buffer \ Large) <= Cap /\ Cardinality(n.buffer \cap Large) <= 1

MemoryBounded == \A c \in Clients : Bounded(conn[c])

\* What the hub holds for its clients is well formed and bounded.
MemoryFits == TypeOK /\ MemoryBounded

-----------------------------------------------------------------------------
(* Why the feed is kept: what holds in every state                         *)

Notified   == {channel[i] : i \in DOMAIN channel}
Delivering == {delivery[i].event : i \in DOMAIN delivery}
OnTheWay   == Notified \cup Delivering

\* The ids of one task grow in the order of the commits.
LogFits ==
  /\ \A id \in committed : id < nextId
  /\ \A id \in uncommitted : id < nextId /\ \A x \in committed : x < id
  /\ \A x, y \in uncommitted : x = y

\* Notifications and deliveries keep that order.
WayFits ==
  /\ OnTheWay \subseteq committed
  /\ \A i, j \in DOMAIN channel : i < j => channel[i] < channel[j]
  /\ \A i, j \in DOMAIN delivery : i < j => delivery[i].event < delivery[j].event
  /\ \A x \in Delivering, y \in Notified : x < y

\* The stream has read the log to its end, or is on the last page of it.
AtTheEnd(n) == /\ n.open /\ ~n.resync
               /\ n.sync \in {"none", "anchored"} \/ (n.sync = "page" /\ ~n.full)

\* What a stream still has to send, it has read, buffered or is told of later
\* (way), unless it reads again: an event is past a stream at the end of the
\* log only while LISTEN is lost, and then no later one is on its way.
StreamFits(n, lastId, log, way, told) ==
  /\ n.wire \cup n.page \cup n.buffer \subseteq log
  /\ \A b \in n.buffer, q \in way : b < q
  /\ n.sync # "none" => n.open
  /\ n.open \/ n.lastSent = None
  /\ n.lastSent # None => n.lastSent \in log \cup {0}
  /\ n.open /\ n.lastSent = None => n.sync = "anchor" /\ n.wire = {} /\ lastId = None
  /\ n.sync = "anchor" => n.lastSent = None
  /\ n.sync # "page" => n.page = {}
  /\ \A p \in n.page : /\ n.lastSent < p
                       /\ \A x \in log : n.lastSent < x /\ x <= p => x \in n.page
  /\ AtTheEnd(n) =>
       \A x \in log :
         n.lastSent < x /\ (told \/ \E q \in n.buffer \cup way : x < q)
           => x \in n.page \cup n.buffer \cup way

\* An event the client has not received, from its first one on.
Ahead(n, lastId, x) == IF lastId = None THEN \E w \in n.wire : w <= x ELSE lastId < x

\* The unsent output is the part of the log right after position lastId, up to
\* the last event sent.
SegmentFits(n, lastId, log) ==
  /\ lastId # None => lastId \in log \cup {0} /\ \A y \in n.wire : lastId < y
  /\ \A x \in log, y \in n.wire : Ahead(n, lastId, x) /\ x <= y => x \in n.wire
  /\ n.lastSent # None =>
       /\ \A y \in n.wire : y <= n.lastSent
       /\ lastId # None => lastId <= n.lastSent
       /\ \A x \in log : Ahead(n, lastId, x) /\ x <= n.lastSent => x \in n.wire

ClientFits(n, lastId, log, way, told) ==
  /\ ConnOK(n) /\ Bounded(n)
  /\ StreamFits(n, lastId, log, way, told) /\ SegmentFits(n, lastId, log)

StreamInv ==
  /\ LogOK /\ HubOK /\ TabsOK /\ faults \in 0 .. MaxFaults
  /\ LogFits /\ WayFits
  /\ conn \in [Clients -> Conn]
  /\ \A c \in Clients : /\ last[c] \in committed \cup {None}
                        /\ ClientFits(conn[c], last[c], committed, OnTheWay, listening)

-----------------------------------------------------------------------------
\* Once a subscriber has received an event, it receives every later one in
\* the end: neither a large frame, nor a full buffer, nor a failure leaves it
\* waiting or reconnecting for ever.
CatchesUp ==
  \A c \in Clients, id \in Ids :
    (id \in committed /\ last[c] # None) ~> (last[c] # None /\ last[c] >= id)

\* task-stream.ts says of a stream that ends that "the client reconnects with
\* Last-Event-ID and resumes from there": the first event a client receives
\* is the first one after the position its first stream started at.
ResumesFromAnchor ==
  [][\A c \in Clients : last[c] = None /\ last'[c] # None =>
       \A id \in committed : id > since[c] => last'[c] <= id]_vars
=============================================================================

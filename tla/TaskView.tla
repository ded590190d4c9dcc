------------------------------- MODULE TaskView -------------------------------
(***************************************************************************)
(* The timeline of the task page: TaskDetailView reads the timeline with   *)
(* loadAll() when it mounts, merges what the stream of TaskStream delivers,*)
(* and reads again with catchUp() when the stream reopens.                 *)
(***************************************************************************)
EXTENDS TaskStream

CONSTANT ViewPage     \* TIMELINE_PAGE_LIMIT of the view

ASSUME ViewAssumption == ViewPage \in Nat \ {0}

VARIABLE view

\* The fetch of the current generation, and the await it is at: a getTask(),
\* a getTimeline() not yet read by the api, or its answer on the way.
Fetches == {"none", "loadTask", "loadPage", "loadAnswer",
            "catchTask", "catchPage", "catchAnswer"}

ViewTypeOK ==
  /\ \A c \in Clients : view[c].shown \subseteq committed
                       /\ (view[c].merged # {} => view[c].fetch \in {"loadPage", "loadAnswer"})
  /\ view \in [Clients -> [shown : SUBSET Ids,      \* events
                        fetch : Fetches,         \* the current generation's fetch
                        page : SUBSET Ids,       \* the answer on the way
                        merged : SUBSET Ids,     \* loadAll's local pages
                        after : 0 .. MaxEvents,  \* where the next page starts
                        lastId : 0 .. MaxEvents, \* lastEventIdRef of the view
                        opened : BOOLEAN,        \* openedBeforeRef
                        \* history: how far loadAll read, and lastId when the
                        \* stream last reopened without a cursor
                        loadedTo : 0 .. MaxEvents \cup {None},
                        coldFrom : 0 .. MaxEvents \cup {None}]]

ViewInit ==
  /\ Init
  /\ view = [c \in Clients |-> [shown |-> {}, fetch |-> "loadTask", page |-> {}, merged |-> {},
                               after |-> 0, lastId |-> 0, opened |-> FALSE,
                               loadedTo |-> None, coldFrom |-> None]]

ViewRows(after) ==
  {id \in committed : /\ id > after
                      /\ Cardinality({i \in committed : after < i /\ i <= id}) <= ViewPage}

\* onEvent: the event is merged into the timeline.
OnEvent(c, id) ==
  view' = [view EXCEPT ![c].shown = @ \cup {id}, ![c].lastId = Max({@, id})]

\* onopen: not the first time, catchUp() begins, and with it a generation
\* that makes a fetch still in flight return without showing its result.
Reopened_KeepsPages(v, cursor) == [v EXCEPT !.fetch = "catchTask", !.page = {}]
Reopened(v, cursor) ==
  [v EXCEPT !.fetch = "catchTask", !.page = {}, !.merged = {},
            !.coldFrom = IF cursor = None THEN v.lastId ELSE @]

OnOpen(c) ==
  view' = [view EXCEPT ![c] = IF @.opened THEN Reopened(@, last[c])
                              ELSE [@ EXCEPT !.opened = TRUE]]

\* getTask() returns; catchUp() reads lastEventIdRef only now.
TaskFetched(c) ==
  /\ view[c].fetch \in {"loadTask", "catchTask"}
  /\ view' = [view EXCEPT ![c].fetch = IF @ = "loadTask" THEN "loadPage" ELSE "catchPage",
                          ![c].after = IF view[c].fetch = "loadTask" THEN 0 ELSE view[c].lastId]

\* The api reads a page for loadAll() or catchUp().
PageServed(c) ==
  /\ view[c].fetch \in {"loadPage", "catchPage"}
  /\ view' = [view EXCEPT ![c].fetch = IF @ = "loadPage" THEN "loadAnswer" ELSE "catchAnswer",
                          ![c].page = ViewRows(view[c].after)]

\* loadAll()'s pages are merged with what the stream has shown meanwhile.
ShowLoaded_Replaced(v, all) == all
ShowLoaded(v, all) == v.shown \cup all

\* A page comes back to loadAll(), which shows its pages after the last one.
LoadPage(c) ==
  /\ view[c].fetch = "loadAnswer"
  /\ LET v   == view[c]
         all == v.merged \cup v.page
     IN  view' = [view EXCEPT ![c] =
           IF Cardinality(v.page) < ViewPage
           THEN [v EXCEPT !.fetch = "none", !.page = {}, !.merged = {}, !.after = 0,
                          !.shown = ShowLoaded(v, all), !.lastId = Max({@} \cup all),
                          !.loadedTo = Max(all \cup {0})]
           ELSE [v EXCEPT !.fetch = "loadPage", !.page = {}, !.merged = all,
                          !.after = Max(v.page)]]

\* A page comes back to catchUp(), which shows it at once.
CatchUpPage(c) ==
  /\ view[c].fetch = "catchAnswer"
  /\ LET v    == view[c]
         more == Cardinality(v.page) = ViewPage
     IN  view' = [view EXCEPT ![c] =
           [v EXCEPT !.fetch = IF more THEN "catchPage" ELSE "none",
                     !.page = {},
                     !.after = IF more THEN Max(v.page) ELSE 0,
                     !.shown = @ \cup v.page,
                     !.lastId = IF v.page = {} THEN @ ELSE Max(v.page)]]

ViewNext ==
  \/ Unseen /\ UNCHANGED view
  \/ \E c \in Clients : Connect(c) /\ OnOpen(c)
  \/ \E c \in Clients : Receive(c) /\ OnEvent(c, Min(conn[c].wire))
  \/ \E c \in Clients : /\ TaskFetched(c) \/ PageServed(c) \/ LoadPage(c) \/ CatchUpPage(c)
                        /\ UNCHANGED vars

viewVars == <<vars, view>>

ViewSpec == ViewInit /\ [][ViewNext]_viewVars

\* A fetch of the view may take for ever.
ViewLiveSpec == ViewSpec /\ Fairness

\* Nothing is under way for the client.
Settled(c) ==
  /\ view[c].fetch = "none" /\ listening /\ channel = <<>> /\ delivery = <<>>
  /\ conn[c].open /\ conn[c].sync = "none" /\ conn[c].wire = {}

\* TaskDetailView.tsx: "Subscribing unconditionally, rather than waiting on the
\* backlog load, means no live event between page load and stream open is
\* lost".  Once nothing is under way the timeline shows every event.
OpenLosesNothing == \A c \in Clients : Settled(c) => view[c].shown = committed

\* What that code does ensure: when the page load read as far as the position
\* the stream started from, and the stream never lost that position, the
\* timeline shows every event, however the pages of loadAll and catchUp and
\* the live events were interleaved.
NoHole ==
  \A c \in Clients :
    LET v == view[c] IN
    Settled(c) /\ v.loadedTo # None /\ v.loadedTo >= since[c] /\ v.coldFrom = None =>
      v.shown = committed

\* Once nothing is under way, nothing is missing: neither on the stream nor in a
\* timeline that was loaded.
NothingMissing == ViewTypeOK /\ IdleIsCaughtUp /\ NoHole

-----------------------------------------------------------------------------
(* Why nothing is missing: what holds in every state                       *)

\* loadAll() has read the log up to after, the answer on the way goes on from
\* there, and what it has shown at its end stays shown.
LoadFits(v) ==
  /\ v.merged \cup v.page \subseteq committed
  /\ v.fetch \in {"loadPage", "loadAnswer"} =>
       /\ v.after \in v.merged \cup {0} /\ \A m \in v.merged : m <= v.after
       /\ \A x \in committed : x <= v.after => x \in v.merged
  /\ v.fetch = "loadAnswer" =>
       \A p \in v.page : /\ v.after < p
                         /\ \A x \in committed : v.after < x /\ x <= p => x \in v.page
  /\ v.loadedTo # None =>
       /\ v.loadedTo \in committed \cup {0}
       /\ \A x \in committed : x <= v.loadedTo => x \in v.shown

\* A stream that never lost its position: before the first event it stands at
\* the first anchor, and the view shows all it has received since.
SeenFits(c) ==
  LET v == view[c] IN
  /\ ~v.opened => ~conn[c].open /\ since[c] = None
  /\ since[c] = None => conn[c].lastSent = None /\ conn[c].wire = {} /\ last[c] = None
  /\ since[c] # None => since[c] \in committed \cup {0}
  /\ since[c] # None /\ v.coldFrom = None =>
       IF last[c] = None
       THEN ClientFits(conn[c], since[c], committed, OnTheWay, listening)
       ELSE \A x \in committed : since[c] < x /\ x <= last[c] => x \in v.shown

ViewInv == ViewTypeOK /\ \A c \in Clients : LoadFits(view[c]) /\ SeenFits(c)

-----------------------------------------------------------------------------
\* TaskDetailView.test.tsx: it "catches up the timeline from the last id on
\* reconnect".  Once the catch-up is over, the timeline shows every event
\* above the last id the view had when the stream reopened.
CatchUpRecovers ==
  \A c \in Clients :
    Settled(c) /\ view[c].coldFrom # None =>
      \A id \in committed : id > view[c].coldFrom => id \in view[c].shown
=============================================================================

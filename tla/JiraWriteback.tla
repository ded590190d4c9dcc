---------------------------- MODULE JiraWriteback ----------------------------
(***************************************************************************)
(* The Jira write-back loop of the workers: trigger events are appended to *)
(* execution_events by other transactions, each worker follows them with a *)
(* cursor it keeps in memory, and posts one comment per kind and task that *)
(* carries a marker by which a second one is recognised.                   *)
(***************************************************************************)
EXTENDS Naturals, FiniteSets, FiniteSetsExt

CONSTANTS Workers,      \* worker processes with Jira credentials
          Tasks,
          Kinds,        \* WritebackKind
          Unset,        \* no cursor, no event
          MaxEvents,    \* bound: event ids are 1 .. MaxEvents
          Batch,        \* JIRA_WRITEBACK_BATCH_LIMIT
          MaxAttempts,  \* MAX_EVENT_ATTEMPTS
          MaxRestarts   \* bound on worker restarts

ASSUME WritebackAssumption ==
  /\ {MaxEvents, MaxRestarts} \subseteq Nat
  /\ {Batch, MaxAttempts} \subseteq Nat \ {0}
  /\ Unset \notin Nat

Ids == 1 .. MaxEvents

\* Nothing is said for an event whose payload is malformed or that has no
\* pull request to name.
Says == Kinds \cup {"nothing"}

VARIABLES event,       \* rows: inserted, committed or rolled back
          nextId,      \* the bigserial of execution_events
          comments,    \* Jira: comments with the marker of a kind and task
          gone,        \* Jira: tickets that answer 404
          worker,      \* each worker's loop
          restarts,
          skipped,     \* history: events given up, or found without a ticket
          listed       \* history: events a worker's present life has listed

rowVars == <<event, nextId>>
jira == <<comments, gone>>
history == <<skipped, listed>>
writebackVars == <<rowVars, jira, worker, restarts, history>>

NoEvent == [state |-> "free", task |-> Unset, says |-> "nothing"]

\* at: "idle" between passes, "list" the cursor is set, "next" between two
\* events of a pass, "post" the ticket was read and has no such comment.
NewLoop == [at |-> "idle", cursor |-> Unset, batch |-> {}, failures |-> [id \in Ids |-> 0]]

WritebackTypeOK ==
  /\ event \in [Ids -> [state : {"free", "open", "committed", "rolled_back"},
                        task : Tasks \cup {Unset}, says : Says]]
  /\ nextId \in 1 .. MaxEvents + 1
  /\ comments \in [Tasks -> [Kinds -> Nat]]
  /\ gone \subseteq Tasks
  /\ worker \in [Workers -> [at : {"idle", "list", "next", "post"},
                             cursor : 0 .. MaxEvents \cup {Unset}, batch : SUBSET Ids,
                             failures : [Ids -> 0 .. MaxAttempts - 1]]]
  /\ \A w \in Workers : worker[w].at # "idle" => worker[w].cursor # Unset
  /\ restarts \in 0 .. MaxRestarts
  /\ skipped \subseteq Ids /\ listed \in [Workers -> SUBSET Ids]

Committed == {id \in Ids : event[id].state = "committed"}
WritebackInit ==
  /\ event = [id \in Ids |-> NoEvent] /\ nextId = 1
  /\ comments = [t \in Tasks |-> [k \in Kinds |-> 0]]
  /\ gone = {}
  /\ worker = [w \in Workers |-> NewLoop]
  /\ restarts = 0
  /\ skipped = {} /\ listed = [w \in Workers |-> {}]

\* appendEvent(): the event-order lock is per task, so transactions of
\* different tasks commit in any order.
InsertEvent(t, s) ==
  /\ nextId \in Ids
  /\ \A id \in Ids : event[id].state = "open" => event[id].task # t
  /\ event' = [event EXCEPT ![nextId] = [state |-> "open", task |-> t, says |-> s]]
  /\ nextId' = nextId + 1
  /\ UNCHANGED <<jira, worker, restarts, history>>

EndTransaction(id, how) ==
  /\ event[id].state = "open"
  /\ event' = [event EXCEPT ![id].state = how]
  /\ UNCHANGED <<nextId, jira, worker, restarts, history>>

\* Somebody deletes or moves the ticket.
DeleteTicket(t) ==
  /\ t \notin gone /\ gone' = gone \cup {t}
  /\ UNCHANGED <<rowVars, comments, worker, restarts, history>>

(***************************************************************************)
(* The loop of one worker.  A failed read of the cursor or of the events   *)
(* ends the pass where it began, which is no step.                         *)
(***************************************************************************)

\* The first pass starts at the newest event: no history is replayed.
StartPass(w) ==
  /\ worker[w].at = "idle"
  /\ worker' = [worker EXCEPT ![w].at = "list",
                              ![w].cursor = IF @ = Unset THEN Max(Committed \cup {0}) ELSE @]
  /\ UNCHANGED <<rowVars, jira, restarts, history>>

ListEvents(w) ==
  /\ worker[w].at = "list"
  /\ LET above == {id \in Committed : id > worker[w].cursor}
         batch == {id \in above : Cardinality({i \in above : i <= id}) <= Batch}
     IN  /\ worker' = [worker EXCEPT ![w].at = IF batch = {} THEN "idle" ELSE "next",
                                     ![w].batch = batch]
         /\ listed' = [listed EXCEPT ![w] = @ \cup batch]
  /\ UNCHANGED <<rowVars, jira, restarts, skipped>>

Current(w) == Min(worker[w].batch)

\* The event needs no more attention: on to the next one of the pass.
Advance(n, id) ==
  LET left == n.batch \ {id}
  IN  [n EXCEPT !.at = IF left = {} THEN "idle" ELSE "next", !.batch = left,
                !.cursor = id, !.failures[id] = 0]

Done(w) == worker' = [worker EXCEPT ![w] = Advance(@, Current(w))] /\ UNCHANGED skipped

\* A ticket that answers 404 is skipped.
Skip(w) == /\ worker' = [worker EXCEPT ![w] = Advance(@, Current(w))]
           /\ skipped' = skipped \cup {Current(w)}

\* A failure ends the pass before the event, which the next pass tries again,
\* until its last attempt: then it is skipped.
Retry_Forever(w) ==
  /\ worker' = [worker EXCEPT ![w].at = "idle", ![w].batch = {}]
  /\ UNCHANGED skipped
Retry_NextEvent(w) == Done(w)
Retry_OneMore(w) ==
  LET id == Current(w) IN
  \/ /\ worker[w].failures[id] + 1 <= MaxAttempts
     /\ worker' = [worker EXCEPT ![w].at = "idle", ![w].batch = {}, ![w].failures[id] = @ + 1]
     /\ UNCHANGED skipped
  \/ /\ worker[w].failures[id] = MaxAttempts
     /\ Skip(w)
Retry(w) ==
  LET id == Current(w) IN
  \/ /\ worker[w].failures[id] + 1 < MaxAttempts
     /\ worker' = [worker EXCEPT ![w].at = "idle", ![w].batch = {}, ![w].failures[id] = @ + 1]
     /\ UNCHANGED skipped
  \/ /\ worker[w].failures[id] + 1 = MaxAttempts
     /\ Skip(w)

\* buildWritebackComment() and getIssue(): is there a comment to post?
ReadTicket_NoMarker(w) ==
  /\ worker[w].at = "next"
  /\ LET e == event[Current(w)] IN
     \/ e.says = "nothing" /\ Done(w)
     \/ e.says # "nothing" /\ e.task \in gone /\ Skip(w)
     \/ e.says # "nothing" /\ e.task \notin gone
        /\ worker' = [worker EXCEPT ![w].at = "post"] /\ UNCHANGED skipped
     \/ e.says # "nothing" /\ Retry(w)
  /\ UNCHANGED <<rowVars, jira, restarts, listed>>
ReadTicket(w) ==
  /\ worker[w].at = "next"
  /\ LET e == event[Current(w)] IN
     \/ e.says = "nothing" /\ Done(w)
     \/ e.says # "nothing" /\ e.task \in gone /\ Skip(w)
     \/ /\ e.says # "nothing" /\ e.task \notin gone
        /\ IF comments[e.task][e.says] > 0 THEN Done(w)
           ELSE worker' = [worker EXCEPT ![w].at = "post"] /\ UNCHANGED skipped
     \/ e.says # "nothing" /\ Retry(w)      \* the database or Jira fails
  /\ UNCHANGED <<rowVars, jira, restarts, listed>>

\* addComment(): an answer lost on the way back leaves the comment in Jira
\* and a failure with the worker.
PostComment(w) ==
  /\ worker[w].at = "post"
  /\ LET e      == event[Current(w)]
         posted == [comments EXCEPT ![e.task][e.says] = @ + 1]
     IN  \/ e.task \notin gone /\ comments' = posted /\ Done(w)
         \/ e.task \notin gone /\ comments' = posted /\ Retry(w)
         \/ UNCHANGED comments /\ Retry(w)
         \/ e.task \in gone /\ UNCHANGED comments /\ Skip(w)
  /\ UNCHANGED <<rowVars, gone, restarts, listed>>

\* The process is replaced: cursor and failure counts were in memory.
Restart(w) ==
  /\ restarts < MaxRestarts /\ restarts' = restarts + 1
  /\ worker' = [worker EXCEPT ![w] = NewLoop]
  /\ listed' = [listed EXCEPT ![w] = {}]
  /\ UNCHANGED <<rowVars, jira, skipped>>

Loop(w) == StartPass(w) \/ ListEvents(w) \/ ReadTicket(w) \/ PostComment(w)

WritebackNext ==
  \/ \E t \in Tasks, s \in Says : InsertEvent(t, s)
  \/ \E id \in Ids, how \in {"committed", "rolled_back"} : EndTransaction(id, how)
  \/ \E t \in Tasks : DeleteTicket(t)
  \/ \E w \in Workers : Loop(w) \/ Restart(w)

WritebackSpec == WritebackInit /\ [][WritebackNext]_writebackVars

\* The timer fires and every request answers, if only with a failure.
WritebackLiveSpec == WritebackSpec /\ \A w \in Workers : WF_writebackVars(Loop(w))

(***************************************************************************)
(* Properties.                                                             *)
(***************************************************************************)

\* One comment per kind and task: a lost answer, a retry or a restart posts no
\* second one.  The code comment adds "and concurrent workers".
OneComment == \A t \in Tasks, k \in Kinds : comments[t][k] <= 1

Handled(id) == \/ id \in skipped
               \/ event[id].says = "nothing"
               \/ comments[event[id].task][event[id].says] > 0

\* The cursor of a worker never passes an event it has listed without a
\* comment on the ticket, unless the event was given up after its last
\* attempt or its ticket is gone.
ListedIsHandled ==
  \A w \in Workers : worker[w].cursor # Unset =>
    \A id \in listed[w] : id <= worker[w].cursor => Handled(id)

\* Every event listed is handled, and handled once.
HandledOnce == WritebackTypeOK /\ OneComment /\ ListedIsHandled

-----------------------------------------------------------------------------
(* Why every event is handled: what holds in every state                   *)

\* A row that was inserted is of a task, and is not inserted again.
RowsFit == \A id \in Ids : event[id].state # "free" => event[id].task \in Tasks /\ id < nextId

\* Between two passes nothing is listed.  In a pass the events still to handle
\* are the listed ones right above the cursor.
LoopFits(w) ==
  LET n == worker[w] IN
  /\ n.batch # {} <=> n.at \in {"next", "post"}
  /\ listed[w] \subseteq Committed /\ n.batch \subseteq listed[w]
  /\ n.cursor = Unset => listed[w] = {}
  /\ \A b \in n.batch : /\ n.cursor < b
                        /\ \A id \in listed[w] : n.cursor < id /\ id <= b => id \in n.batch
  /\ n.at = "post" => event[Current(w)].says # "nothing"

\* A comment is posted where there was none when the ticket was read.
PostsTheFirst ==
  \A w \in Workers : worker[w].at = "post" =>
    comments[event[Current(w)].task][event[Current(w)].says] = 0

LoopsFit == WritebackTypeOK /\ RowsFit /\ (\A w \in Workers : LoopFits(w)) /\ ListedIsHandled

-----------------------------------------------------------------------------
\* writeback.ts: the cursor "protects against a *missed* trigger only if the
\* worker never restarts between the trigger and the comment".  With no
\* restart, every trigger the cursor has passed since it started is handled.
PassedIsHandled ==
  restarts = 0 =>
    \A w \in Workers : worker[w].cursor # Unset =>
      \A id \in Committed : id <= worker[w].cursor /\ listed[w] # {} /\ Min(listed[w]) <= id
                            => Handled(id)

\* No poison event stalls the ones behind it: a committed event above the
\* cursor is passed in the end, however often Jira fails, unless the worker
\* is restarted.
NeverStalled ==
  \A w \in Workers, id \in Ids :
    (id \in Committed /\ worker[w].cursor # Unset) ~>
      (worker[w].cursor = Unset \/ worker[w].cursor >= id)
=============================================================================

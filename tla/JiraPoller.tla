------------------------------ MODULE JiraPoller ------------------------------
(***************************************************************************)
(* The Jira poller: every worker reads the tickets of a project, imports   *)
(* new ones as tasks, and tells tasks whose ticket was closed, left the    *)
(* project's JQL or disappeared.  What a pass read from Jira and from the  *)
(* database is old by the time it acts on it, and other workers poll too.  *)
(*                                                                         *)
(* One ticket and its task are modelled: a pass handles them one by one.   *)
(***************************************************************************)
EXTENDS Naturals, Transitions

CONSTANTS Pollers,      \* worker processes with Jira credentials
          None,         \* nothing recorded, nothing read
          MaxChanges,   \* bound on changes of the ticket in Jira
          MaxFailures   \* bound on passes given up

Scopes == {"in_scope", "closed", "left_jql"}
Out == Scopes \ {"in_scope"}

ASSUME PollerAssumption ==
  /\ {MaxChanges, MaxFailures} \subseteq Nat
  /\ None \notin Scopes

\* TERMINAL_TASK_STATES and JIRA_SPEC_GROUP_STATES.
Terminal == {"DONE", "CANCELLED", "FAILED"}
SpecGroup == {"NEEDS_SPEC", "SPEC_IN_PROGRESS", "SPEC_REVIEW", "SPEC_APPROVED"}

VARIABLES ticket,     \* the ticket in Jira
          task,       \* tasks.state, or "absent" before the import
          approved,   \* an approved revision and no draft
          recorded,   \* jiraScope of the poller's last note on the task
          active,     \* whether the task has an active execution
          notified,   \* jira_out_of_scope notifications
          poller,     \* what the present pass of each poller has read
          changes,    \* changes of the ticket so far
          failures,
          back        \* history: a pass saw it in scope after it was noted out

taskVars == <<task, approved, recorded, active, notified>>
counts == <<changes, failures>>
vars == <<ticket, taskVars, poller, counts, back>>

Tickets == [there : BOOLEAN, done : BOOLEAN, inJql : BOOLEAN]

ScopeOf(t) == IF t.done THEN "closed" ELSE IF t.inJql THEN "in_scope" ELSE "left_jql"

\* at: "found" the search has returned, "upserted" the ticket is imported or
\* refreshed, "listed" the task's row is read, "apply" and "fail" a
\* transaction is about to judge it.
NewPass == [at |-> "idle", found |-> None, row |-> None, scope |-> None]

Rows == [state : TaskStates \ Terminal, recorded : Scopes \cup {None}]

TypeOK ==
  /\ ticket \in Tickets
  /\ task \in TaskStates \cup {"absent"}
  /\ recorded \in Scopes \cup {None} /\ notified \in Nat
  /\ approved \in BOOLEAN /\ active \in BOOLEAN
  /\ task = "absent" => recorded = None /\ ~active
  /\ poller \in [Pollers ->
       [at : {"idle", "found", "upserted", "listed", "apply", "fail"},
        found : {"open", "done", "missing", None}, row : Rows \cup {None},
        scope : Scopes \cup {None}]]
  /\ \A p \in Pollers : /\ poller[p].at = "idle" => poller[p] = NewPass
                        /\ poller[p].at = "apply" => poller[p].scope # None
                        /\ poller[p].at \in {"listed", "apply", "fail"} => task # "absent"
  /\ changes \in 0 .. MaxChanges /\ failures \in 0 .. MaxFailures
  /\ back \in BOOLEAN

Init ==
  /\ ticket = [there |-> TRUE, done |-> FALSE, inJql |-> TRUE]
  /\ task = "absent" /\ approved = FALSE /\ recorded = None /\ active = FALSE /\ notified = 0
  /\ poller = [p \in Pollers |-> NewPass]
  /\ changes = 0 /\ failures = 0 /\ back = FALSE

\* Somebody edits, closes, reopens, moves or deletes the ticket.
TicketChanges(t) ==
  /\ changes < MaxChanges /\ changes' = changes + 1
  /\ ticket.there /\ t # ticket /\ ticket' = t
  /\ UNCHANGED <<taskVars, poller, failures, back>>

(***************************************************************************)
(* The rest of the system moves the task: ExecutionLifecycle and the       *)
(* specification routes.                                                   *)
(***************************************************************************)

\* A draft exists from the start of a spec session to its approval.
TaskMoves ==
  /\ \E r \in SpecRows \cup WorkRows :
       /\ r[1] = task /\ task' = r[3]
       /\ approved' = IF r[2] = "spec.approved" THEN TRUE
                      ELSE approved /\ r[3] # "SPEC_IN_PROGRESS"
  /\ UNCHANGED <<ticket, recorded, active, notified, poller, counts, back>>

ExecutionChanges ==
  /\ task \notin Terminal \cup {"absent"} /\ active' = ~active
  /\ UNCHANGED <<ticket, task, approved, recorded, notified, poller, counts, back>>

\* POST /tasks/:id/cancel
UserCancels ==
  /\ TaskEdge(task, "task.cancelled")
  /\ task' = "CANCELLED" /\ active' = FALSE
  /\ UNCHANGED <<ticket, approved, recorded, notified, poller, counts, back>>

\* POST /tasks/:id/reopen is refused while the recorded scope is out.
Reopened == task' = IF approved THEN "SPEC_APPROVED" ELSE "NEEDS_SPEC"
Reopen ==
  /\ task = "CANCELLED" /\ recorded \notin Out /\ Reopened
  /\ UNCHANGED <<ticket, approved, recorded, active, notified, poller, counts, back>>

(***************************************************************************)
(* A pass of a poller.                                                     *)
(***************************************************************************)

\* jiraScopeAction(): the decision table.
ActionFor_NoRepeatCheck(state, last, scope) ==
  IF state \in Terminal THEN "none"
  ELSE IF state \in SpecGroup THEN IF scope = "in_scope" THEN "none" ELSE "cancel"
  ELSE IF scope = "in_scope" THEN "restore" ELSE "signal"
ActionFor_OutIsOut(state, last, scope) ==
  IF state \in Terminal THEN "none"
  ELSE IF state \in SpecGroup THEN IF scope = "in_scope" THEN "none" ELSE "cancel"
  ELSE IF (scope \in Out) = (last \in Out) THEN "none"
  ELSE IF scope = "in_scope" THEN "restore" ELSE "signal"
ActionFor(state, last, scope) ==
  IF state \in Terminal THEN "none"
  ELSE IF state \in SpecGroup THEN IF scope = "in_scope" THEN "none" ELSE "cancel"
  ELSE IF scope = IF last = None THEN "in_scope" ELSE last THEN "none"
  ELSE IF scope = "in_scope" THEN "restore" ELSE "signal"

EndPass(p) == poller' = [poller EXCEPT ![p] = NewPass]

Search(p) ==
  /\ poller[p].at = "idle"
  /\ poller' = [poller EXCEPT ![p].at = "found",
                  ![p].found = IF ~ticket.there \/ ~ticket.inJql THEN "missing"
                               ELSE IF ticket.done THEN "done" ELSE "open"]
  /\ UNCHANGED <<ticket, taskVars, counts, back>>

\* upsertJiraTask(): jira_key is unique, an existing row is only refreshed,
\* and a ticket that is done is not imported.
Upsert_Resets(p) ==
  /\ poller[p].at = "found"
  /\ task' = IF poller[p].found = "open" THEN "NEEDS_SPEC" ELSE task
  /\ poller' = [poller EXCEPT ![p].at = "upserted"]
  /\ UNCHANGED <<ticket, approved, recorded, active, notified, counts, back>>
Upsert(p) ==
  /\ poller[p].at = "found"
  /\ task' = IF task = "absent" /\ poller[p].found = "open" THEN "NEEDS_SPEC" ELSE task
  /\ poller' = [poller EXCEPT ![p].at = "upserted"]
  /\ UNCHANGED <<ticket, approved, recorded, active, notified, counts, back>>

\* An upsert that fails is logged, and the pass goes on.
UpsertFails(p) ==
  /\ poller[p].at = "found" /\ failures < MaxFailures /\ failures' = failures + 1
  /\ poller' = [poller EXCEPT ![p].at = "upserted"]
  /\ UNCHANGED <<ticket, taskVars, changes, back>>

ListTask(p) ==
  /\ poller[p].at = "upserted"
  /\ IF task \in Terminal \cup {"absent"} THEN EndPass(p)
     ELSE poller' = [poller EXCEPT ![p].at = "listed",
                                   ![p].row = [state |-> task, recorded |-> recorded]]
  /\ UNCHANGED <<ticket, taskVars, counts, back>>

\* The observation: what the search returned or, for a ticket it did not
\* return, its status now.  The check on the listed row saves a transaction.
Observe(p, scope) ==
  IF ActionFor(poller[p].row.state, poller[p].row.recorded, scope) = "none" THEN EndPass(p)
  ELSE poller' = [poller EXCEPT ![p].at = "apply", ![p].scope = scope]

LookUp(p) ==
  /\ poller[p].at = "listed"
  /\ IF poller[p].found # "missing"
     THEN LET scope == IF poller[p].found = "done" THEN "closed" ELSE "in_scope"
          IN  /\ Observe(p, scope)
              /\ back' = (back \/ (scope = "in_scope" /\ recorded \in Out))
     ELSE /\ IF ~ticket.there THEN poller' = [poller EXCEPT ![p].at = "fail"]
             ELSE Observe(p, IF ticket.done THEN "closed" ELSE "left_jql")
          /\ UNCHANGED back
  /\ UNCHANGED <<ticket, taskVars, counts>>

Cancel(p) == /\ task' = "CANCELLED" /\ active' = FALSE
             /\ recorded' = poller[p].scope /\ back' = FALSE /\ UNCHANGED <<approved, notified>>
Signal(p) == /\ recorded' = poller[p].scope /\ notified' = notified + 1 /\ back' = FALSE
             /\ UNCHANGED <<task, approved, active>>
Restore(p) == recorded' = "in_scope" /\ back' = FALSE /\ UNCHANGED <<task, approved, active, notified>>

\* applyJiraScope() decides anew from the row it has locked.
ApplyScope(p) ==
  /\ poller[p].at = "apply" /\ EndPass(p)
  /\ LET action == ActionFor(task, recorded, poller[p].scope) IN
     \/ action = "none" /\ UNCHANGED <<taskVars, back>>
     \/ action = "cancel" /\ Cancel(p)
     \/ action = "signal" /\ Signal(p)
     \/ action = "restore" /\ Restore(p)
  /\ UNCHANGED <<ticket, counts>>

\* failJiraTaskNotFound(): a task that ended meanwhile has no such edge, and
\* the transaction is rolled back.  Its note records no scope.
FailNotFound_TaskOnly(p) ==
  /\ poller[p].at = "fail" /\ EndPass(p)
  /\ task' = IF TaskEdge(task, "task.failed") THEN "FAILED" ELSE task
  /\ UNCHANGED <<ticket, approved, active, recorded, notified, counts, back>>
FailNotFound(p) ==
  /\ poller[p].at = "fail" /\ EndPass(p)
  /\ IF TaskEdge(task, "task.failed") THEN task' = "FAILED" /\ active' = FALSE
     ELSE UNCHANGED <<task, active>>
  /\ UNCHANGED <<ticket, approved, recorded, notified, counts, back>>

\* A query, a request or a transaction fails, or the worker stops.
GiveUp(p) ==
  /\ poller[p].at # "idle" /\ failures < MaxFailures /\ failures' = failures + 1
  /\ EndPass(p)
  /\ UNCHANGED <<ticket, taskVars, changes, back>>

Pass(p) == Search(p) \/ Upsert(p) \/ ListTask(p) \/ LookUp(p) \/ ApplyScope(p) \/ FailNotFound(p)

Next ==
  \/ \E t \in Tickets : TicketChanges(t)
  \/ TaskMoves \/ ExecutionChanges \/ UserCancels \/ Reopen
  \/ \E p \in Pollers : Pass(p) \/ UpsertFails(p) \/ GiveUp(p)

Spec == Init /\ [][Next]_vars

\* The timer fires, and a request fails only so often.
LiveSpec == Spec /\ \A p \in Pollers : WF_vars(Pass(p))

(***************************************************************************)
(* Properties.                                                             *)
(***************************************************************************)

\* failJiraTaskNotFound and applyJiraScope: a task never ends and leaves an
\* execution behind, whichever of users and pollers ends it.
EndedRunsNothing == task \in {"CANCELLED", "FAILED"} => ~active

\* Every poll, cancel and reopen follows the tables, and a task whose last
\* recorded scope is out stays cancelled (design.md 5.1): neither a refresh
\* nor a stale pass revives it.
StaysCancelled ==
  [][/\ task # "absent" => TaskMove(task, task')
     /\ task = "CANCELLED" /\ recorded \in Out => task' = "CANCELLED"]_vars

\* jira.ts: "two concurrent polls raise one signal, not two".  A notification
\* always comes with a change of the recorded scope.
OneSignal == [][notified' # notified => recorded' # recorded]_vars

\* design.md 11.1: "a ticket that stays Done or out of the JQL across polls
\* does not repeat the notification".  There are no more notifications than
\* changes of the ticket.
NoRepeat == notified <= changes

\* design.md 11.1: after the ticket came back, "a later close or drop from the
\* JQL signals again".
SignalsAgain ==
  (back /\ ticket.there /\ ScopeOf(ticket) = "closed") ~>
    (~back \/ task \in Terminal \/ ~ticket.there \/ ScopeOf(ticket) # "closed")

\* A ticket that is closed or leaves the JQL, and stays so, is told to the
\* task in the end: the task ends, or work under way is signalled, whatever
\* the task does meanwhile.
OutIsTold ==
  \A s \in Out :
    (task \notin Terminal \cup {"absent"} /\ ticket.there /\ ScopeOf(ticket) = s) ~>
      \/ task \in Terminal \/ ~ticket.there \/ ScopeOf(ticket) # s
      \/ task \notin SpecGroup /\ recorded = s

\* A ticket that stays out is told to the task, and not told again and again.
OutIsToldOnce == []NoRepeat /\ OutIsTold

(***************************************************************************)
(* Why one poller does not repeat a notification.                          *)
(***************************************************************************)

\* The scope the task stands at, and what a pass that judges another owes it
Recorded == IF recorded = None THEN "in_scope" ELSE recorded
Owed(last, scope) == IF scope \in Out /\ scope # last THEN 1 ELSE 0

\* The scope that the pass of a poller has found, or will from its search alone
Searched(p) == poller[p].at \in {"found", "upserted", "listed"}
Finds(p, scope) ==
  \/ poller[p].at = "apply" /\ scope = poller[p].scope
  \/ /\ Searched(p) /\ poller[p].found # "missing"
     /\ scope = IF poller[p].found = "done" THEN "closed" ELSE "in_scope"

\* What was signalled, what the present pass may still signal, and what the
\* next one then may, come to no more than the changes of the ticket.  A ticket
\* the search missed and that is in the JQL has changed since.
SignalsFit ==
  /\ notified + Owed(Recorded, ScopeOf(ticket)) <= changes
  /\ \A p \in Pollers :
       /\ \A s \in Scopes :
            Finds(p, s) => notified + Owed(Recorded, s) + Owed(s, ScopeOf(ticket)) <= changes
       /\ Searched(p) /\ poller[p].found = "missing" /\ ticket.there /\ ticket.inJql =>
            notified < changes
===============================================================================

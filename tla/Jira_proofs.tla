------------------------------ MODULE Jira_proofs ------------------------------
(***************************************************************************)
(* Theorems of the two loops between the tool and Jira: of JiraPoller for  *)
(* any number of pollers, ticket changes and failures, of JiraWriteback    *)
(* for any number of workers, tasks, kinds of comments and events, and     *)
(* every batch size and number of attempts.                                *)
(***************************************************************************)
EXTENDS JiraPoller, JiraWriteback, FiniteSetTheorems, WellFoundedInduction, TLAPS

-----------------------------------------------------------------------------
(* The poller                                                              *)

\* The start of a session, an approval or any other move of a task that a
\* table row describes leads to a state of the table, from one that is open.
LEMMA RowsAreOpen ==
  \A r \in SpecRows \cup WorkRows :
    /\ r[1] \in TaskStates \ Terminal /\ r[3] \in TaskStates \ {"CANCELLED", "FAILED"}
    /\ r \in TaskTable
BY DEF SpecRows, WorkRows, TaskTable, TaskStates, Terminal

\* The scope of a ticket is one of the three.
LEMMA ScopeIsScope == \A t \in Tickets : ScopeOf(t) \in Scopes
BY DEF ScopeOf, Scopes, Tickets

\* The part of the type invariant that is about passes under way.
Passes == [at : {"idle", "found", "upserted", "listed", "apply", "fail"},
           found : {"open", "done", "missing", None}, row : Rows \cup {None},
           scope : Scopes \cup {None}]
PassOK(r) == /\ r.at = "idle" => r = NewPass
             /\ r.at = "apply" => r.scope # None
             /\ r.at \in {"listed", "apply", "fail"} => task # "absent"
PollerOK == poller \in [Pollers -> Passes] /\ \A p \in Pollers : PassOK(poller[p])

\* A step that changes the pass of one poller leaves the others' alone.
LEMMA PassKeepsType ==
  ASSUME TypeOK, task = "absent" \/ task' # "absent",
         NEW p \in Pollers, NEW r \in Passes,
         r.at = "idle" => r = NewPass,
         r.at = "apply" => r.scope # None,
         r.at \in {"listed", "apply", "fail"} => task' # "absent",
         poller' = [poller EXCEPT ![p] = r]
  PROVE  PollerOK'
BY DEF TypeOK, PollerOK, PassOK, Passes

\* A pass that ends forgets all it has read.
LEMMA EndKeepsType ==
  ASSUME TypeOK, NEW p \in Pollers, EndPass(p), task = "absent" \/ task' # "absent"
  PROVE  PollerOK'
BY DEF TypeOK, EndPass, NewPass, PollerOK, PassOK, Passes, Rows

\* The state of every variable of the poller has its type.
THEOREM TypeCorrect == Spec => []TypeOK
<1>1. Init => TypeOK
  <2> SUFFICES ASSUME Init PROVE TypeOK
    OBVIOUS
  <2>1. 0 \in 0 .. MaxChanges /\ 0 \in 0 .. MaxFailures
    BY PollerAssumption
  <2>2. ticket \in Tickets
    BY DEF Init, Tickets
  <2>3. NewPass \in [at : {"idle", "found", "upserted", "listed", "apply", "fail"},
                     found : {"open", "done", "missing", None}, row : Rows \cup {None},
                     scope : Scopes \cup {None}]
    BY DEF NewPass
  <2>4. NewPass.at = "idle"
    BY DEF NewPass
  <2>5. QED
    BY <2>1, <2>2, <2>3, <2>4 DEF Init, TypeOK
<1>2. TypeOK /\ [Next]_vars => TypeOK'
  <2> SUFFICES ASSUME TypeOK, [Next]_vars PROVE TypeOK'
    OBVIOUS
  <2> USE PollerAssumption
  <2>1. ASSUME NEW t \in Tickets, TicketChanges(t) PROVE TypeOK'
    BY <2>1, ScopeIsScope DEF TicketChanges, TypeOK, taskVars
  <2>2. CASE TaskMoves
    BY <2>2, RowsAreOpen DEF TaskMoves, TypeOK, counts, Terminal, TaskStates
  <2>3. CASE ExecutionChanges
    BY <2>3 DEF ExecutionChanges, TypeOK, counts
  <2>4. CASE UserCancels
    BY <2>4 DEF UserCancels, TypeOK, counts, TaskStates, TaskEdge, TaskTable, SpecRows, WorkRows,
              EndRows, Cancellable, Failable
  <2>5. CASE Reopen
    BY <2>5 DEF Reopen, Reopened, TypeOK, counts, TaskStates
  <2>6. ASSUME NEW p \in Pollers, Search(p) PROVE TypeOK'
    <3>1. PICK f \in {"open", "done", "missing"} :
            poller' = [poller EXCEPT ![p].at = "found", ![p].found = f]
      BY <2>6 DEF Search
    <3>2. PICK r \in Passes : r = [poller[p] EXCEPT !.at = "found", !.found = f]
      BY DEF TypeOK, Passes
    <3>3. r.at = "found" /\ poller' = [poller EXCEPT ![p] = r]
      BY <3>1, <3>2 DEF TypeOK, Passes
    <3>5. task' = task
      BY <2>6 DEF Search, taskVars
    <3>6. PollerOK'
      BY <3>3, <3>5, PassKeepsType
    <3>4. QED
      BY <2>6, <3>6 DEF Search, TypeOK, PollerOK, PassOK, Passes, taskVars, counts
  <2>7. ASSUME NEW p \in Pollers, Upsert(p) PROVE TypeOK'
    BY <2>7 DEF Upsert, TypeOK, counts, TaskStates
  <2>8. ASSUME NEW p \in Pollers, UpsertFails(p) PROVE TypeOK'
    BY <2>8 DEF UpsertFails, TypeOK, taskVars
  <2>9. ASSUME NEW p \in Pollers, ListTask(p) PROVE TypeOK'
    <3>1. CASE task \in Terminal \cup {"absent"}
      <4>1. EndPass(p)
        BY <2>9, <3>1 DEF ListTask
      <4>2. QED
        BY <2>9, <4>1, EndKeepsType DEF PollerOK, PassOK, Passes, ListTask, TypeOK, taskVars, counts
    <3>2. CASE task \notin Terminal \cup {"absent"}
      <4>1. [state |-> task, recorded |-> recorded] \in Rows
        BY <3>2 DEF Rows, TypeOK
      <4>2. QED
        BY <2>9, <3>2, <4>1 DEF ListTask, TypeOK, taskVars, counts
    <3>3. QED
      BY <3>1, <3>2
  <2>10. ASSUME NEW p \in Pollers, LookUp(p) PROVE TypeOK'
    <3>1. ASSUME NEW s \in Scopes, Observe(p, s), UNCHANGED <<ticket, taskVars, counts>>,
                 back' \in BOOLEAN, task # "absent"
          PROVE  TypeOK'
      <4>1. CASE EndPass(p)
        BY <3>1, <4>1, EndKeepsType DEF PollerOK, PassOK, Passes, TypeOK, taskVars, counts
      <4>2. CASE poller' = [poller EXCEPT ![p].at = "apply", ![p].scope = s]
        <5>1. PICK r \in Passes : r = [poller[p] EXCEPT !.at = "apply", !.scope = s]
          BY DEF TypeOK, Passes
        <5>2. poller' = [poller EXCEPT ![p] = r] /\ r.at = "apply" /\ r.scope = s
          BY <4>2, <5>1 DEF TypeOK, Passes
        <5>3. s # None
          BY PollerAssumption
        <5>4. task' = task
          BY <3>1 DEF taskVars
        <5>5. PollerOK'
          BY <3>1, <5>2, <5>3, <5>4, PassKeepsType
        <5>6. QED
          BY <3>1, <5>5 DEF TypeOK, PollerOK, PassOK, Passes, taskVars, counts
      <4>3. QED
        BY <3>1, <4>1, <4>2 DEF Observe
    <3>6. task # "absent"
      BY <2>10 DEF LookUp, TypeOK
    <3>2. CASE poller[p].found # "missing"
      BY <2>10, <3>1, <3>6, <3>2 DEF LookUp, Scopes, TypeOK
    <3>3. CASE poller[p].found = "missing" /\ ~ticket.there
      BY <2>10, <3>3 DEF LookUp, TypeOK, taskVars, counts
    <3>4. CASE poller[p].found = "missing" /\ ticket.there
      BY <2>10, <3>1, <3>4, <3>6 DEF LookUp, Scopes, TypeOK
    <3>5. QED
      BY <3>2, <3>3, <3>4 DEF TypeOK, Tickets
  <2>11. ASSUME NEW p \in Pollers, ApplyScope(p) PROVE TypeOK'
    <3>1. poller[p].scope \in Scopes /\ task # "absent"
      BY <2>11 DEF ApplyScope, TypeOK
    <3>2. EndPass(p) /\ UNCHANGED <<ticket, counts>>
      BY <2>11 DEF ApplyScope
    <3>3. task' = task \/ Cancel(p)
      BY <2>11 DEF ApplyScope, Signal, Restore, taskVars
    <3>4. PollerOK'
      BY <3>1, <3>2, <3>3, EndKeepsType DEF Cancel
    <3>5. task' \in TaskStates /\ approved' \in BOOLEAN /\ active' \in BOOLEAN
          /\ recorded' \in Scopes \cup {None} /\ notified' \in Nat /\ back' \in BOOLEAN
      <4>1. /\ "CANCELLED" \in TaskStates /\ "in_scope" \in Scopes
            /\ task \in TaskStates /\ approved \in BOOLEAN /\ active \in BOOLEAN
            /\ recorded \in Scopes \cup {None} /\ notified \in Nat /\ back \in BOOLEAN
        BY <3>1 DEF TypeOK, TaskStates, Scopes
      <4>2. CASE UNCHANGED <<taskVars, back>>
        BY <4>1, <4>2 DEF taskVars
      <4>3. CASE Cancel(p)
        BY <3>1, <4>1, <4>3 DEF Cancel
      <4>4. CASE Signal(p)
        <5>1. notified' \in Nat
          BY <4>1, <4>4 DEF Signal
        <5>2. /\ recorded' = poller[p].scope /\ back' = FALSE
              /\ UNCHANGED <<task, approved, active>>
          BY <4>4 DEF Signal
        <5>3. QED
          BY <3>1, <4>1, <5>1, <5>2, Zenon
      <4>5. CASE Restore(p)
        BY <4>1, <4>5 DEF Restore
      <4>6. UNCHANGED <<taskVars, back>> \/ Cancel(p) \/ Signal(p) \/ Restore(p)
        BY <2>11 DEF ApplyScope
      <4>7. QED
        BY <4>2, <4>3, <4>4, <4>5, <4>6
    <3>6. task' # "absent"
      BY <3>5 DEF TaskStates
    <3>7. QED
      BY <3>2, <3>4, <3>5, <3>6 DEF TypeOK, PollerOK, PassOK, Passes, counts
  <2>12. ASSUME NEW p \in Pollers, FailNotFound(p) PROVE TypeOK'
    BY <2>12, EndKeepsType DEF PollerOK, PassOK, Passes, FailNotFound, TypeOK, counts, TaskStates
  <2>13. ASSUME NEW p \in Pollers, GiveUp(p) PROVE TypeOK'
    BY <2>13, EndKeepsType DEF PollerOK, PassOK, Passes, GiveUp, TypeOK, taskVars
  <2>14. CASE UNCHANGED vars
    BY <2>14 DEF vars, taskVars, counts, TypeOK
  <2>15. QED
    BY <2>1, <2>2, <2>3, <2>4, <2>5, <2>6, <2>7, <2>8, <2>9, <2>10, <2>11, <2>12, <2>13, <2>14
       DEF Next, Pass
<1>3. QED
  BY <1>1, <1>2, PTL DEF Spec

\* No execution is behind a task that was cancelled or failed: what ends the
\* task ends its executions, and nothing starts one on an ended task.
THEOREM NothingRunsAfterTheEnd == Spec => []EndedRunsNothing
<1>1. Init => EndedRunsNothing
  BY DEF Init, EndedRunsNothing
<1>2. TypeOK /\ EndedRunsNothing /\ [Next]_vars => EndedRunsNothing'
  <2> SUFFICES ASSUME TypeOK, EndedRunsNothing, [Next]_vars PROVE EndedRunsNothing'
    OBVIOUS
  <2> USE DEF EndedRunsNothing
  <2>1. CASE TaskMoves
    BY <2>1, RowsAreOpen DEF TaskMoves
  <2>2. CASE ExecutionChanges
    BY <2>2 DEF ExecutionChanges, Terminal
  <2>3. CASE UserCancels \/ Reopen
    BY <2>3 DEF UserCancels, Reopen, Reopened
  <2>4. ASSUME NEW p \in Pollers, Upsert(p) PROVE EndedRunsNothing'
    BY <2>4 DEF Upsert
  <2>5. ASSUME NEW p \in Pollers, ApplyScope(p) PROVE EndedRunsNothing'
    BY <2>5 DEF ApplyScope, Cancel, Signal, Restore, taskVars
  <2>6. ASSUME NEW p \in Pollers, FailNotFound(p) PROVE EndedRunsNothing'
    BY <2>6 DEF FailNotFound
  <2>7. CASE UNCHANGED <<task, active>>
    BY <2>7
  <2>8. QED
    BY <2>1, <2>2, <2>3, <2>4, <2>5, <2>6, <2>7
       DEF Next, Pass, TicketChanges, Search, UpsertFails, ListTask, LookUp, GiveUp, vars, taskVars
<1>3. QED
  BY <1>1, <1>2, TypeCorrect, PTL DEF Spec

\* A task moves along the tables, and one whose last recorded scope is out
\* stays cancelled, whatever the age of what a poller has read.
THEOREM OutStaysCancelled == Spec => StaysCancelled
<1> DEFINE Kept == /\ task # "absent" => TaskMove(task, task')
                   /\ task = "CANCELLED" /\ recorded \in Out => task' = "CANCELLED"
<1>1. TypeOK /\ [Next]_vars => Kept
  <2> SUFFICES ASSUME TypeOK, [Next]_vars PROVE Kept
    OBVIOUS
  <2>1. CASE TaskMoves
    BY <2>1, RowsAreOpen DEF TaskMoves, TaskMove, Terminal
  <2>2. CASE UserCancels
    BY <2>2 DEF UserCancels, TaskMove, TaskEdge, TaskTable, SpecRows, WorkRows, EndRows,
              Cancellable, Failable, TaskStates
  <2>3. CASE Reopen
    <3>1. /\ <<"CANCELLED", "task.reopened.needs_spec", "NEEDS_SPEC">> \in TaskTable
          /\ <<"CANCELLED", "task.reopened.spec_approved", "SPEC_APPROVED">> \in TaskTable
      BY DEF TaskTable, EndRows
    <3>2. TaskMove("CANCELLED", "NEEDS_SPEC") /\ TaskMove("CANCELLED", "SPEC_APPROVED")
      BY <3>1 DEF TaskMove
    <3>3. QED
      BY <2>3, <3>2 DEF Reopen, Reopened
  <2>4. ASSUME NEW p \in Pollers, Upsert(p) PROVE Kept
    BY <2>4 DEF Upsert, TaskMove
  <2>5. ASSUME NEW p \in Pollers, ApplyScope(p) PROVE Kept
    <3>1. task \in TaskStates
      BY <2>5 DEF ApplyScope, TypeOK
    <3>2. CASE task' = task
      BY <3>2 DEF TaskMove
    <3>3. CASE ActionFor(task, recorded, poller[p].scope) = "cancel" /\ task' = "CANCELLED"
      <4>1. task \in Cancellable
        BY <3>1, <3>3 DEF ActionFor, Cancellable, Terminal
      <4>2. <<task, "task.cancelled", "CANCELLED">> \in TaskTable
        BY <4>1 DEF TaskTable, EndRows
      <4>3. TaskMove(task, "CANCELLED")
        BY <4>2 DEF TaskMove
      <4>4. QED
        BY <3>3, <4>3
    <3>4. QED
      BY <2>5, <3>2, <3>3 DEF ApplyScope, Cancel, Signal, Restore, taskVars
  <2>6. ASSUME NEW p \in Pollers, FailNotFound(p) PROVE Kept
    BY <2>6 DEF FailNotFound, TaskMove, TaskEdge, TaskTable, SpecRows, WorkRows, EndRows,
              Cancellable, Failable, TaskStates
  <2>7. CASE UNCHANGED task
    BY <2>7 DEF TaskMove
  <2>8. QED
    BY <2>1, <2>2, <2>3, <2>4, <2>5, <2>6, <2>7
       DEF Next, Pass, TicketChanges, ExecutionChanges, Search, UpsertFails, ListTask, LookUp,
           GiveUp, vars, taskVars
<1>2. QED
  BY <1>1, TypeCorrect, PTL DEF Spec, StaysCancelled

\* A signal comes with a change of what is recorded, so passes of several
\* pollers with one observation make one signal.
THEOREM SignalIsNews == Spec => OneSignal
<1>1. TypeOK /\ [Next]_vars => (notified' # notified => recorded' # recorded)
  <2> SUFFICES ASSUME TypeOK, [Next]_vars, notified' # notified PROVE recorded' # recorded
    OBVIOUS
  <2>1. PICK p \in Pollers : ApplyScope(p)
    BY DEF Next, Pass, TicketChanges, TaskMoves, ExecutionChanges, UserCancels, Reopen, Search,
           Upsert, UpsertFails, ListTask, LookUp, FailNotFound, GiveUp, vars, taskVars
  <2>2. ActionFor(task, recorded, poller[p].scope) = "signal" /\ recorded' = poller[p].scope
    BY <2>1 DEF ApplyScope, Cancel, Signal, Restore, taskVars
  <2>3. poller[p].scope \in Scopes
    BY <2>1 DEF ApplyScope, TypeOK
  <2>4. QED
    BY <2>2, <2>3, PollerAssumption DEF ActionFor
<1>2. QED
  BY <1>1, TypeCorrect, PTL DEF Spec, OneSignal

\* What a pass that judges a scope owes a task that stands at another.
LEMMA OwedLaw ==
  ASSUME NEW x \in Scopes, NEW y \in Scopes
  PROVE  Owed(x, y) \in {0, 1} /\ Owed(x, x) = 0 /\ Owed(x, "in_scope") = 0
BY DEF Owed, Out, Scopes

LEMMA RecordedIsScope == TypeOK => Recorded \in Scopes
BY DEF TypeOK, Recorded, Scopes

LEMMA ScopesAreTyped ==
  ASSUME TypeOK
  PROVE  /\ Recorded \in Scopes /\ ScopeOf(ticket) \in Scopes
         /\ notified \in Nat /\ changes \in Nat
         /\ \A x, y \in Scopes : Owed(x, y) \in {0, 1}
BY OwedLaw, RecordedIsScope, ScopeIsScope, PollerAssumption DEF TypeOK

\* A pass that ends, or goes on with what it had, owes nothing new.
LEMMA NothingNew ==
  ASSUME SignalsFit, UNCHANGED <<ticket, recorded, notified, changes>>,
         \A q \in Pollers :
           \/ poller'[q].at = "idle" \/ poller'[q].at = "fail"
           \/ /\ Searched(q) /\ poller'[q].at \in {"found", "upserted", "listed"}
              /\ poller'[q].found = poller[q].found
           \/ poller'[q] = poller[q]
  PROVE  SignalsFit'
<1>1. /\ Recorded' = Recorded /\ ScopeOf(ticket)' = ScopeOf(ticket)
      /\ \A x, y \in Scopes : Owed(x, y)' = Owed(x, y)
  BY DEF Recorded, ScopeOf, Owed
<1>2. ASSUME NEW q \in Pollers, NEW s \in Scopes, Finds(q, s)' PROVE Finds(q, s)
  BY <1>2 DEF Finds, Searched
<1>3. ASSUME NEW q \in Pollers, Searched(q)', poller'[q].found = "missing"
      PROVE  Searched(q) /\ poller[q].found = "missing"
  BY <1>3 DEF Searched
<1>4. (notified + Owed(Recorded, ScopeOf(ticket)) <= changes)'
  BY <1>1 DEF SignalsFit, Owed
<1>5. ASSUME NEW q \in Pollers, NEW s \in Scopes, Finds(q, s)'
      PROVE  (notified + Owed(Recorded, s) + Owed(s, ScopeOf(ticket)) <= changes)'
  BY <1>1, <1>2, <1>5 DEF SignalsFit, Owed
<1>6. ASSUME NEW q \in Pollers,
             (Searched(q) /\ poller[q].found = "missing" /\ ticket.there /\ ticket.inJql)'
      PROVE  (notified < changes)'
  BY <1>3, <1>6 DEF SignalsFit
<1> QED
  BY <1>4, <1>5, <1>6 DEF SignalsFit

\* The passes of one poller: the ticket moves
LEMMA TicketStep ==
  ASSUME TypeOK, SignalsFit, NEW t \in Tickets, TicketChanges(t)
  PROVE  SignalsFit'
<1> DEFINE was == ScopeOf(ticket)  is == ScopeOf(t)
<1>1. /\ Recorded' = Recorded /\ ScopeOf(ticket)' = is /\ notified' = notified
      /\ changes' = changes + 1 /\ poller' = poller /\ recorded' = recorded
  BY DEF TicketChanges, taskVars, Recorded, ScopeOf
<1>2. /\ notified \in Nat /\ changes \in Nat /\ is \in Scopes /\ was \in Scopes
      /\ Recorded \in Scopes /\ \A x, y \in Scopes : Owed(x, y) \in {0, 1}
  BY ScopesAreTyped, ScopeIsScope
<1> HIDE DEF was, is
<1>3. notified + Owed(Recorded, was) <= changes
  BY DEF SignalsFit, was
<1>4. notified <= changes
  BY <1>2, <1>3
<1>5. (notified + Owed(Recorded, ScopeOf(ticket)) <= changes)'
  <2>1. notified + Owed(Recorded, is) <= changes + 1
    BY <1>2, <1>4
  <2> QED
    BY <1>1, <2>1 DEF Owed
<1>6. ASSUME NEW q \in Pollers, NEW s \in Scopes, Finds(q, s)'
      PROVE  (notified + Owed(Recorded, s) + Owed(s, ScopeOf(ticket)) <= changes)'
  <2>1. Finds(q, s)
    BY <1>1, <1>6 DEF Finds, Searched
  <2>2. notified + Owed(Recorded, s) + Owed(s, was) <= changes
    BY <2>1 DEF SignalsFit, was
  <2>3. notified + Owed(Recorded, s) + Owed(s, is) <= changes + 1
    BY <1>2, <2>2
  <2> QED
    BY <1>1, <2>3 DEF Owed
<1>7. (notified < changes)'
  BY <1>1, <1>2, <1>4
<1> QED
  BY <1>5, <1>6, <1>7 DEF SignalsFit

\* What one poller searches is what the ticket is.
LEMMA SearchStep ==
  ASSUME TypeOK, SignalsFit, NEW p, Pollers = {p}, Search(p)
  PROVE  SignalsFit'
<1>1. UNCHANGED <<ticket, recorded, notified, changes>>
  BY DEF Search, taskVars, counts
<1>2. /\ poller'[p].at = "found"
      /\ poller'[p].found = IF ~ticket.there \/ ~ticket.inJql THEN "missing"
                            ELSE IF ticket.done THEN "done" ELSE "open"
  BY DEF Search, TypeOK
<1>3. /\ Recorded' = Recorded /\ ScopeOf(ticket)' = ScopeOf(ticket)
      /\ \A x, y \in Scopes : Owed(x, y)' = Owed(x, y)
  BY <1>1 DEF Recorded, ScopeOf, Owed
<1>4. (notified + Owed(Recorded, ScopeOf(ticket)) <= changes)'
  BY <1>1, <1>3 DEF SignalsFit, Owed
<1>5. ASSUME NEW s \in Scopes, Finds(p, s)'
      PROVE  (notified + Owed(Recorded, s) + Owed(s, ScopeOf(ticket)) <= changes)'
  <2>1. s = ScopeOf(ticket)
    BY <1>2, <1>5 DEF Finds, Searched, ScopeOf, TypeOK, Tickets
  <2>2. /\ Owed(s, s) = 0 /\ Owed(Recorded, s) \in {0, 1} /\ notified \in Nat
        /\ notified + Owed(Recorded, s) <= changes
    BY <2>1, OwedLaw, ScopesAreTyped DEF SignalsFit
  <2>3. notified + Owed(Recorded, s) + Owed(s, ScopeOf(ticket)) <= changes
    BY <2>1, <2>2
  <2> QED
    BY <1>1, <1>3, <2>3 DEF Owed
<1>6. ~(poller[p].found = "missing" /\ ticket.there /\ ticket.inJql)'
  BY <1>1, <1>2
<1> QED
  BY <1>4, <1>5, <1>6 DEF SignalsFit

\* What a ticket the search missed is found to be, it is, or it came back meanwhile.
LEMMA LookUpStep ==
  ASSUME TypeOK, SignalsFit, NEW p, Pollers = {p}, LookUp(p)
  PROVE  SignalsFit'
<1>1. UNCHANGED <<ticket, recorded, notified, changes>> /\ Searched(p)
  BY DEF LookUp, taskVars, counts, Searched
<1>2. CASE poller'[p].at \in {"idle", "fail"}
  BY <1>1, <1>2, NothingNew
<1>3. CASE poller'[p].at \notin {"idle", "fail"}
  <2> DEFINE s == poller'[p].scope
  <2>1. /\ poller'[p].at = "apply"
        /\ s = IF poller[p].found # "missing"
               THEN IF poller[p].found = "done" THEN "closed" ELSE "in_scope"
               ELSE IF ticket.done THEN "closed" ELSE "left_jql"
        /\ poller[p].found = "missing" => ticket.there
    BY <1>3 DEF LookUp, Observe, EndPass, NewPass, TypeOK
  <2>2. s \in Scopes
    BY <2>1 DEF Scopes
  <2> HIDE DEF s
  <2>3. /\ notified \in Nat /\ changes \in Nat /\ Recorded \in Scopes /\ ScopeOf(ticket) \in Scopes
        /\ \A x, y \in Scopes : Owed(x, y) \in {0, 1}
    BY ScopesAreTyped
  <2>4. notified + Owed(Recorded, s) + Owed(s, ScopeOf(ticket)) <= changes
    <3>1. CASE poller[p].found # "missing"
      BY <1>1, <2>1, <2>2, <3>1 DEF SignalsFit, Finds
    <3>2. CASE poller[p].found = "missing" /\ (ticket.done \/ ~ticket.inJql)
      <4>1. s = ScopeOf(ticket)
        BY <2>1, <3>2 DEF ScopeOf
      <4>2. Owed(s, s) = 0 /\ notified + Owed(Recorded, s) <= changes
        BY <2>2, <4>1, OwedLaw DEF SignalsFit
      <4> QED
        BY <2>2, <2>3, <4>1, <4>2
    <3>3. CASE poller[p].found = "missing" /\ ~ticket.done /\ ticket.inJql
      <4>1. ScopeOf(ticket) = "in_scope" /\ notified < changes
        BY <1>1, <2>1, <3>3 DEF ScopeOf, SignalsFit
      <4>2. Owed(s, ScopeOf(ticket)) = 0
        BY <2>2, <4>1, OwedLaw
      <4> QED
        BY <2>2, <2>3, <4>1, <4>2
    <3> QED
      BY <3>1, <3>2, <3>3
  <2>5. Recorded' = Recorded /\ ScopeOf(ticket)' = ScopeOf(ticket)
    BY <1>1 DEF Recorded, ScopeOf
  <2>6. (notified + Owed(Recorded, ScopeOf(ticket)) <= changes)'
    BY <1>1, <2>5 DEF SignalsFit, Owed
  <2>7. ASSUME NEW x \in Scopes, Finds(p, x)'
        PROVE  (notified + Owed(Recorded, x) + Owed(x, ScopeOf(ticket)) <= changes)'
    <3>1. x = s
      BY <2>1, <2>7 DEF Finds, Searched, s
    <3> QED
      BY <1>1, <2>4, <2>5, <3>1 DEF Owed
  <2>8. ~Searched(p)'
    BY <2>1 DEF Searched
  <2> QED
    BY <2>6, <2>7, <2>8 DEF SignalsFit
<1> QED
  BY <1>2, <1>3

\* A judgement on the locked row pays what it owed.
LEMMA ApplyStep ==
  ASSUME TypeOK, SignalsFit, NEW p, Pollers = {p}, ApplyScope(p)
  PROVE  SignalsFit'
<1> DEFINE s == poller[p].scope  now == ScopeOf(ticket)
<1>1. /\ poller[p].at = "apply" /\ ticket' = ticket /\ changes' = changes
      /\ poller'[p].at = "idle" /\ s \in Scopes
  BY DEF ApplyScope, EndPass, NewPass, counts, TypeOK
<1>2. /\ notified \in Nat /\ changes \in Nat /\ Recorded \in Scopes /\ now \in Scopes
      /\ \A x, y \in Scopes : Owed(x, y) \in {0, 1}
  BY ScopesAreTyped
<1>3. ScopeOf(ticket)' = now
  BY <1>1 DEF ScopeOf
<1>4. /\ notified + Owed(Recorded, now) <= changes
      /\ notified + Owed(Recorded, s) + Owed(s, now) <= changes
  BY <1>1 DEF SignalsFit, Finds
<1>5. notified' + Owed(Recorded', now) <= changes
  <2>1. CASE UNCHANGED <<recorded, notified>>
    BY <1>4, <2>1 DEF Recorded
  <2>2. CASE recorded' = s /\ notified' = notified
    <3>1. Recorded' = s
      BY <1>1, <2>2, PollerAssumption DEF Recorded
    <3> HIDE DEF s, now
    <3> QED
      BY <1>1, <1>2, <1>4, <2>2, <3>1
  <2>3. CASE Signal(p) /\ ActionFor(task, recorded, s) = "signal"
    <3>1. Recorded' = s /\ notified' = notified + 1
      BY <1>1, <2>3, PollerAssumption DEF Recorded, Signal
    <3>2. s # Recorded /\ s # "in_scope"
      BY <2>3 DEF ActionFor, Recorded
    <3>3. Owed(Recorded, s) = 1
      BY <1>1, <3>2 DEF Owed, Out
    <3> HIDE DEF s, now
    <3> QED
      BY <1>1, <1>2, <1>4, <3>1, <3>3
  <2>4. ActionFor(task, recorded, s) = "restore" => s = "in_scope"
    BY DEF ActionFor
  <2> QED
    BY <2>1, <2>2, <2>3, <2>4 DEF ApplyScope, Cancel, Restore, taskVars
<1>6. (notified + Owed(Recorded, ScopeOf(ticket)) <= changes)'
  BY <1>1, <1>3, <1>5 DEF Owed
<1>7. ~Searched(p)' /\ \A x : ~Finds(p, x)'
  BY <1>1 DEF Searched, Finds
<1> QED
  BY <1>6, <1>7 DEF SignalsFit

\* NoRepeat (design.md 11.1: "a ticket that stays Done or out of the JQL across polls
\* does not repeat the notification"): one poller signals at most once per change of the
\* ticket, whatever it read before the change, whatever fails, and however the task is
\* moved, cancelled and reopened meanwhile.
THEOREM OnePollerDoesNotRepeat ==
  ASSUME NEW p, Pollers = {p}
  PROVE  Spec => []NoRepeat
<1>1. Init => SignalsFit
  BY DEF Init, SignalsFit, NewPass, Finds, Searched, Recorded, Owed, ScopeOf, Out, Scopes
<1>2. TypeOK /\ SignalsFit /\ [Next]_vars => SignalsFit'
  <2> SUFFICES ASSUME TypeOK, SignalsFit, [Next]_vars PROVE SignalsFit'
    OBVIOUS
  <2>1. ASSUME NEW t \in Tickets, TicketChanges(t) PROVE SignalsFit'
    BY <2>1, TicketStep
  <2>2. CASE TaskMoves \/ ExecutionChanges \/ UserCancels \/ Reopen \/ UNCHANGED vars
    <3>1. UNCHANGED <<ticket, recorded, notified, changes, poller>>
      BY <2>2 DEF TaskMoves, ExecutionChanges, UserCancels, Reopen, vars, taskVars, counts
    <3> QED
      BY <3>1, NothingNew
  <2>3. CASE Search(p)
    BY <2>3, SearchStep
  <2>4. CASE Upsert(p) \/ UpsertFails(p) \/ ListTask(p) \/ FailNotFound(p) \/ GiveUp(p)
    <3>1. UNCHANGED <<ticket, recorded, notified, changes>>
      BY <2>4 DEF Upsert, UpsertFails, ListTask, FailNotFound, GiveUp, taskVars, counts
    <3>2. \/ poller'[p].at = "idle"
          \/ /\ Searched(p) /\ poller'[p].at \in {"found", "upserted", "listed"}
             /\ poller'[p].found = poller[p].found
      BY <2>4 DEF Upsert, UpsertFails, ListTask, FailNotFound, GiveUp, EndPass, NewPass, Searched,
                  TypeOK
    <3> QED
      BY <3>1, <3>2, NothingNew
  <2>5. CASE LookUp(p)
    BY <2>5, LookUpStep
  <2>6. CASE ApplyScope(p)
    BY <2>6, ApplyStep
  <2> QED
    BY <2>1, <2>2, <2>3, <2>4, <2>5, <2>6 DEF Next, Pass
<1>3. TypeOK /\ SignalsFit => NoRepeat
  BY ScopesAreTyped DEF SignalsFit, NoRepeat
<1> QED
  BY <1>1, <1>2, <1>3, TypeCorrect, PTL DEF Spec

-----------------------------------------------------------------------------
(* The writeback loop                                                      *)

LEMMA Limits == /\ MaxEvents \in Nat /\ MaxRestarts \in Nat /\ Batch \in Nat \ {0}
                /\ MaxAttempts \in Nat \ {0} /\ Unset \notin Nat /\ Unset \notin Ids
                /\ Ids \subseteq Nat \ {0} /\ \A x \in Ids : x <= MaxEvents
BY WritebackAssumption DEF Ids

\* The steps of the less-than relation, as the well-founded relation of the library.
LEMMA LessIsWellFounded == \A x, y \in Nat : x < y => <<x, y>> \in OpToRel(<, Nat)
BY DEF OpToRel

LEMMA Least ==
  ASSUME NEW S \in SUBSET Nat, S # {}
  PROVE  Min(S) \in S /\ \A x \in S : Min(S) <= x
<1>1. PICK R : IsWellFoundedOn(R, Nat) /\ \A x, y \in Nat : x < y => <<x, y>> \in R
  BY LessIsWellFounded, NatLessThanWellFounded, Zenon
<1>2. IsWellFoundedOn(R, Nat)
  BY <1>1
<1>3. PICK m \in S : \A y \in S : ~(<<y, m>> \in R)
  BY <1>2, WFMin
<1>4. ASSUME NEW y \in S PROVE m <= y
  <2>1. y \in Nat /\ m \in Nat /\ ~(<<y, m>> \in R)
    BY <1>3
  <2>2. ~(y < m)
    BY <1>1, <2>1
  <2> QED
    BY <2>1, <2>2
<1> QED
  BY <1>4 DEF Min

LEMMA Greatest ==
  ASSUME NEW S \in SUBSET (0 .. MaxEvents), S # {}
  PROVE  Max(S) \in S
<1> DEFINE U == {m \in Nat : \A x \in S : x <= m}
<1>0. MaxEvents \in Nat /\ \A x \in S : x \in Nat /\ x <= MaxEvents
  BY Limits
<1>1. U \in SUBSET Nat /\ MaxEvents \in U
  BY <1>0
<1>2. PICK m \in U : \A u \in U : m <= u
  BY <1>1, Least
<1>3. m \in S
  <2>1. SUFFICES ASSUME m \notin S PROVE FALSE
    OBVIOUS
  <2>2. \A x \in S : x < m
    BY <1>0, <1>2, <2>1
  <2>3. PICK y \in S : TRUE
    OBVIOUS
  <2>4. m - 1 \in Nat /\ \A x \in S : x <= m - 1
    BY <1>0, <2>2, <2>3
  <2> QED
    BY <1>2, <2>4
<1> QED
  BY <1>2, <1>3 DEF Max

-----------------------------------------------------------------------------
(* One worker's loop                                                       *)

Row  == [state : {"free", "open", "committed", "rolled_back"}, task : Tasks \cup {Unset}, says : Says]
Loops == [at : {"idle", "list", "next", "post"}, cursor : 0 .. MaxEvents \cup {Unset},
          batch : SUBSET Ids, failures : [Ids -> 0 .. MaxAttempts - 1]]

LEMMA Types ==
  WritebackTypeOK <=>
    /\ event \in [Ids -> Row] /\ nextId \in 1 .. MaxEvents + 1
    /\ comments \in [Tasks -> [Kinds -> Nat]] /\ gone \subseteq Tasks
    /\ worker \in [Workers -> Loops]
    /\ \A w \in Workers : worker[w].at # "idle" => worker[w].cursor # Unset
    /\ restarts \in 0 .. MaxRestarts
    /\ skipped \subseteq Ids /\ listed \in [Workers -> SUBSET Ids]
BY DEF WritebackTypeOK, Row, Loops

\* A loop n, the events it has listed and the rows around it.
Fits(n, seen, rows) ==
  /\ n \in Loops
  /\ n.at # "idle" => n.cursor # Unset
  /\ n.batch # {} <=> n.at \in {"next", "post"}
  /\ seen \subseteq {id \in Ids : rows[id].state = "committed"} /\ n.batch \subseteq seen
  /\ n.cursor = Unset => seen = {}
  /\ \A b \in n.batch : /\ n.cursor < b
                        /\ \A id \in seen : n.cursor < id /\ id <= b => id \in n.batch
  /\ n.at = "post" => rows[Min(n.batch)].says # "nothing"

\* What was said or given up about the events a cursor has passed.
Given(id, rows, said, up) ==
  id \in up \/ rows[id].says = "nothing" \/ said[rows[id].task][rows[id].says] > 0

Passed(n, seen, rows, said, up) ==
  n.cursor # Unset => \A id \in seen : id <= n.cursor => Given(id, rows, said, up)

Common ==
  /\ event \in [Ids -> Row] /\ nextId \in 1 .. MaxEvents + 1
  /\ comments \in [Tasks -> [Kinds -> Nat]] /\ gone \subseteq Tasks
  /\ worker \in [Workers -> Loops] /\ restarts \in 0 .. MaxRestarts
  /\ skipped \subseteq Ids /\ listed \in [Workers -> SUBSET Ids]
  /\ RowsFit

LEMMA Parts ==
  LoopsFit <=> /\ Common
               /\ \A w \in Workers : /\ Fits(worker[w], listed[w], event)
                                     /\ Passed(worker[w], listed[w], event, comments, skipped)
<1>1. LoopsFit => /\ Common
                  /\ \A w \in Workers : /\ Fits(worker[w], listed[w], event)
                                        /\ Passed(worker[w], listed[w], event, comments, skipped)
  BY Types DEF LoopsFit, Common, LoopFits, Fits, Current, Committed, ListedIsHandled, Passed, Given,
               Handled
<1>2. Common /\ (\A w \in Workers : /\ Fits(worker[w], listed[w], event)
                                    /\ Passed(worker[w], listed[w], event, comments, skipped))
        => LoopsFit
  BY Types DEF LoopsFit, Common, LoopFits, Fits, Current, Committed, ListedIsHandled, Passed, Given,
               Handled
<1> QED
  BY <1>1, <1>2

LEMMA PartsNext ==
  ASSUME Common', \A w \in Workers : /\ Fits(worker'[w], listed'[w], event')
                                     /\ Passed(worker'[w], listed'[w], event', comments', skipped')
  PROVE  LoopsFit'
<1>1. WritebackTypeOK'
  BY DEF WritebackTypeOK, Row, Loops, Common, Fits
<1>2. RowsFit' /\ \A w \in Workers : LoopFits(w)'
  BY DEF Common, LoopFits, Fits, Current, Committed
<1>3. ListedIsHandled'
  BY DEF ListedIsHandled, Passed, Given, Handled
<1> QED
  BY <1>1, <1>2, <1>3 DEF LoopsFit

LEMMA FirstOfBatch ==
  ASSUME NEW n, NEW seen, NEW rows, Fits(n, seen, rows), n.at \in {"next", "post"}
  PROVE  /\ Min(n.batch) \in n.batch /\ \A b \in n.batch : Min(n.batch) <= b
         /\ Min(n.batch) \in Ids /\ Min(n.batch) \in Nat /\ n.cursor \in Nat
         /\ n.batch \in SUBSET Nat /\ seen \in SUBSET Nat /\ seen \in SUBSET Ids
         /\ rows[Min(n.batch)].state = "committed"
<1>1. /\ n.batch \in SUBSET Ids /\ n.batch # {} /\ seen \in SUBSET Ids /\ n.cursor # Unset
      /\ n.batch \subseteq {id \in Ids : rows[id].state = "committed"} /\ n \in Loops
  BY DEF Fits, Loops
<1>2. n.batch \in SUBSET Nat /\ seen \in SUBSET Nat /\ Ids \subseteq Nat
  BY <1>1, Limits
<1>3. Min(n.batch) \in n.batch /\ \A b \in n.batch : Min(n.batch) <= b
  BY <1>1, <1>2, Least
<1>4. n.cursor \in Nat
  BY <1>1, Limits DEF Loops
<1> QED
  BY <1>1, <1>2, <1>3, <1>4

\* The cursor moves on to an event that something was said or given up about.
LEMMA AdvanceLaw ==
  ASSUME NEW n, NEW seen, NEW rows, NEW said, NEW up, Fits(n, seen, rows),
         n.at \in {"next", "post"}, Passed(n, seen, rows, said, up),
         NEW id, id = Min(n.batch), Given(id, rows, said, up)
  PROVE  LET m == Advance(n, id)
         IN  Fits(m, seen, rows) /\ Passed(m, seen, rows, said, up) /\ m.at # "post"
<1> DEFINE left == n.batch \ {id}
           m == [n EXCEPT !.at = IF left = {} THEN "idle" ELSE "next", !.batch = left,
                          !.cursor = id, !.failures[id] = 0]
<1>1. m = Advance(n, id)
  BY DEF Advance
<1>2. /\ id \in n.batch /\ \A b \in n.batch : id <= b
      /\ id \in Ids /\ id \in Nat /\ n.cursor \in Nat /\ n.batch \in SUBSET Nat
      /\ seen \in SUBSET Nat /\ seen \in SUBSET Ids
  BY FirstOfBatch
<1>3. n \in Loops /\ n.batch \in SUBSET Ids
  BY DEF Fits, Loops
<1>4. id \in 0 .. MaxEvents /\ 0 \in 0 .. MaxAttempts - 1 /\ id # Unset
  BY <1>2, Limits DEF Ids
<1>5. /\ m \in Loops /\ m.at = (IF left = {} THEN "idle" ELSE "next") /\ m.batch = left
      /\ m.cursor = id
  BY <1>2, <1>3, <1>4 DEF Loops
<1>6. \A b \in left : id < b
  BY <1>2
<1>7. \A x \in seen : n.cursor < x /\ x <= id => x = id
  <2>1. ASSUME NEW x \in seen, n.cursor < x, x <= id PROVE x = id
    <3>1. x \in n.batch
      BY <1>2, <2>1 DEF Fits
    <3> QED
      BY <1>2, <2>1, <3>1
  <2> QED
    BY <2>1
<1> HIDE DEF m
<1>8. \A b \in left : \A x \in seen : id < x /\ x <= b => x \in left
  <2>1. ASSUME NEW b \in left, NEW x \in seen, id < x, x <= b PROVE x \in left
    <3>1. n.cursor < id /\ x \in Nat
      BY <1>2 DEF Fits
    <3>2. n.cursor < x
      BY <1>2, <2>1, <3>1
    <3> QED
      BY <1>2, <2>1, <3>1, <3>2 DEF Fits
  <2> QED
    BY <2>1
<1>9. Fits(m, seen, rows)
  BY <1>4, <1>5, <1>6, <1>8 DEF Fits
<1>10. Passed(m, seen, rows, said, up)
  <2>1. ASSUME NEW x \in seen, x <= id PROVE Given(x, rows, said, up)
    <3>1. CASE x <= n.cursor
      <4>1. n.cursor # Unset
        BY <1>2, Limits
      <4> QED
        BY <3>1, <4>1 DEF Passed
    <3>2. CASE ~(x <= n.cursor)
      BY <1>2, <1>7, <2>1, <3>2
    <3> QED
      BY <3>1, <3>2
  <2> QED
    BY <1>5, <2>1 DEF Passed
<1> QED
  BY <1>1, <1>5, <1>9, <1>10

\* A pass that ends leaves the cursor before the event.
LEMMA BackLaw ==
  ASSUME NEW n, NEW seen, NEW rows, NEW said, NEW up, Fits(n, seen, rows),
         Passed(n, seen, rows, said, up),
         NEW m \in Loops, m.at = "idle", m.batch = {}, m.cursor = n.cursor
  PROVE  Fits(m, seen, rows) /\ Passed(m, seen, rows, said, up)
BY DEF Fits, Passed

\* The step of one loop, which adds to what is said and given up, and the others.
LEMMA OneLoop ==
  ASSUME LoopsFit, NEW w \in Workers, NEW n, NEW seen,
         worker' = [worker EXCEPT ![w] = n], listed' = [listed EXCEPT ![w] = seen],
         UNCHANGED rowVars, comments' \in [Tasks -> [Kinds -> Nat]], gone' = gone,
         restarts' \in 0 .. MaxRestarts, skipped \subseteq skipped', skipped' \subseteq Ids,
         \A t \in Tasks, k \in Kinds : comments[t][k] > 0 => comments'[t][k] > 0,
         Fits(n, seen, event), Passed(n, seen, event, comments', skipped')
  PROVE  LoopsFit'
<1>1. /\ Common /\ \A v \in Workers : /\ Fits(worker[v], listed[v], event)
                                      /\ Passed(worker[v], listed[v], event, comments, skipped)
  BY Parts
<1>2. n \in Loops /\ seen \in SUBSET Ids
  BY DEF Fits
<1>3. Common'
  BY <1>1, <1>2 DEF Common, rowVars, RowsFit
<1>4. event' = event
  BY DEF rowVars
<1>5. ASSUME NEW id \in Ids, event[id].state = "committed", Given(id, event, comments, skipped)
      PROVE  Given(id, event, comments', skipped')
  <2>1. event[id].task \in Tasks /\ event[id].says \in Kinds \cup {"nothing"}
    BY <1>1, <1>5 DEF Common, RowsFit, Row, Says
  <2> QED
    BY <1>5, <2>1 DEF Given
<1>6. ASSUME NEW v \in Workers, v # w
      PROVE  Fits(worker'[v], listed'[v], event) /\ Passed(worker'[v], listed'[v], event, comments', skipped')
  <2>1. worker'[v] = worker[v] /\ listed'[v] = listed[v]
    BY <1>1, <1>6 DEF Common
  <2>2. \A id \in listed[v] : id \in Ids /\ event[id].state = "committed"
    BY <1>1 DEF Fits
  <2> QED
    BY <1>1, <1>5, <2>1, <2>2 DEF Passed
<1>7. worker'[w] = n /\ listed'[w] = seen
  BY <1>1 DEF Common
<1>8. \A v \in Workers : /\ Fits(worker'[v], listed'[v], event')
                         /\ Passed(worker'[v], listed'[v], event', comments', skipped')
  BY <1>4, <1>6, <1>7
<1> QED
  BY <1>3, <1>8, PartsNext

\* The facts about one worker that its steps need.
LEMMA OfWorker ==
  ASSUME LoopsFit, NEW w \in Workers
  PROVE  /\ Common /\ Fits(worker[w], listed[w], event)
         /\ Passed(worker[w], listed[w], event, comments, skipped)
         /\ worker[w] \in Loops /\ DOMAIN worker = Workers /\ DOMAIN listed = Workers
         /\ listed = [listed EXCEPT ![w] = listed[w]]
<1>1. Common /\ Fits(worker[w], listed[w], event) /\ Passed(worker[w], listed[w], event, comments, skipped)
  BY Parts
<1> QED
  BY <1>1 DEF Common

-----------------------------------------------------------------------------
(* The steps                                                               *)

LEMMA InitFits == WritebackInit => LoopsFit
<1> SUFFICES ASSUME WritebackInit PROVE LoopsFit
  OBVIOUS
<1>1. /\ 1 \in 1 .. MaxEvents + 1 /\ 0 \in 0 .. MaxRestarts /\ 0 \in 0 .. MaxAttempts - 1
  BY Limits
<1>2. NoEvent \in Row /\ NoEvent.state = "free" /\ NewLoop \in Loops /\ NewLoop.batch = {}
      /\ NewLoop.at = "idle" /\ NewLoop.cursor = Unset
  BY <1>1 DEF NoEvent, Row, Says, NewLoop, Loops
<1>3. Common
  BY <1>1, <1>2 DEF WritebackInit, Common, RowsFit
<1>4. ASSUME NEW w \in Workers
      PROVE  /\ Fits(worker[w], listed[w], event)
             /\ Passed(worker[w], listed[w], event, comments, skipped)
  BY <1>2 DEF WritebackInit, Fits, Passed
<1> QED
  BY <1>3, <1>4, Parts

\* The rows change, but not those a worker may have listed.
LEMMA RowsMove ==
  ASSUME LoopsFit, UNCHANGED <<jira, worker, restarts, history>>,
         event' \in [Ids -> Row], nextId' \in 1 .. MaxEvents + 1, RowsFit',
         \A id \in Ids : event[id].state = "committed" => event'[id] = event[id]
  PROVE  LoopsFit'
<1>1. Common'
  BY Parts DEF Common, jira, history
<1>2. ASSUME NEW w \in Workers
      PROVE  /\ Fits(worker'[w], listed'[w], event')
             /\ Passed(worker'[w], listed'[w], event', comments', skipped')
  <2> DEFINE n == worker[w]
             seen == listed[w]
  <2>1. /\ Fits(n, seen, event) /\ Passed(n, seen, event, comments, skipped)
    BY OfWorker
  <2>2. worker'[w] = n /\ listed'[w] = seen /\ comments' = comments /\ skipped' = skipped
    BY DEF jira, history
  <2>3. \A id \in seen : id \in Ids /\ event[id].state = "committed" /\ event'[id] = event[id]
    BY <2>1 DEF Fits
  <2>4. n.at = "post" => event'[Min(n.batch)] = event[Min(n.batch)]
    <3>1. n.at = "post" => Min(n.batch) \in n.batch
      BY <2>1, FirstOfBatch
    <3> QED
      BY <2>1, <2>3, <3>1 DEF Fits
  <2> HIDE DEF n, seen
  <2>5. Fits(n, seen, event')
    BY <2>1, <2>3, <2>4 DEF Fits
  <2>6. Passed(n, seen, event', comments, skipped)
    BY <2>1, <2>3 DEF Passed, Given
  <2> QED
    BY <2>2, <2>5, <2>6
<1> QED
  BY <1>1, <1>2, PartsNext

LEMMA InsertStep ==
  ASSUME LoopsFit, NEW t \in Tasks, NEW s \in Says, InsertEvent(t, s)
  PROVE  LoopsFit'
<1> DEFINE r == [state |-> "open", task |-> t, says |-> s]
<1>1. Common
  BY Parts
<1>2. /\ nextId \in Ids /\ event' = [event EXCEPT ![nextId] = r] /\ nextId' = nextId + 1
      /\ UNCHANGED <<jira, worker, restarts, history>>
  BY DEF InsertEvent
<1>3. r \in Row /\ r.state = "open" /\ r.task \in Tasks
  BY DEF Row
<1>4. nextId \in Nat /\ nextId <= MaxEvents /\ MaxEvents \in Nat /\ Ids \subseteq Nat
  BY <1>2, Limits
<1> HIDE DEF r
<1>5. event' \in [Ids -> Row] /\ nextId' \in 1 .. MaxEvents + 1
  BY <1>1, <1>2, <1>3, <1>4 DEF Common
<1>6. event[nextId].state = "free"
  BY <1>1, <1>2, <1>4 DEF Common, RowsFit
<1>7. \A id \in Ids : event[id].state = "committed" => event'[id] = event[id]
  BY <1>1, <1>2, <1>6 DEF Common
<1>8. RowsFit'
  <2>1. ASSUME NEW id \in Ids, event'[id].state # "free" PROVE event'[id].task \in Tasks /\ id < nextId'
    <3>1. CASE id = nextId
      BY <1>1, <1>2, <1>3, <1>4, <3>1 DEF Common
    <3>2. CASE id # nextId
      <4>1. event'[id] = event[id] /\ id \in Nat
        BY <1>1, <1>2, <1>4, <3>2 DEF Common
      <4>2. event[id].task \in Tasks /\ id < nextId
        BY <1>1, <2>1, <4>1 DEF Common, RowsFit
      <4> QED
        BY <1>2, <1>4, <4>1, <4>2
    <3> QED
      BY <3>1, <3>2
  <2> QED
    BY <2>1 DEF RowsFit
<1> QED
  BY <1>2, <1>5, <1>7, <1>8, RowsMove

LEMMA EndStep ==
  ASSUME LoopsFit, NEW id \in Ids, NEW how \in {"committed", "rolled_back"}, EndTransaction(id, how)
  PROVE  LoopsFit'
<1>1. Common
  BY Parts
<1>2. /\ event[id].state = "open" /\ event' = [event EXCEPT ![id].state = how]
      /\ nextId' = nextId /\ UNCHANGED <<jira, worker, restarts, history>>
  BY DEF EndTransaction
<1>3. event' \in [Ids -> Row] /\ \A x \in Ids : x # id => event'[x] = event[x]
      /\ event'[id].task = event[id].task
  BY <1>1, <1>2 DEF Common, Row
<1>4. RowsFit'
  BY <1>1, <1>2, <1>3 DEF Common, RowsFit
<1>5. nextId' \in 1 .. MaxEvents + 1 /\ \A x \in Ids : event[x].state = "committed" => event'[x] = event[x]
  BY <1>1, <1>2, <1>3 DEF Common
<1> QED
  BY <1>2, <1>3, <1>4, <1>5, RowsMove

LEMMA DeleteStep == ASSUME LoopsFit, NEW t \in Tasks, DeleteTicket(t) PROVE LoopsFit'
<1>1. /\ Common /\ \A w \in Workers : /\ Fits(worker[w], listed[w], event)
                                      /\ Passed(worker[w], listed[w], event, comments, skipped)
  BY Parts
<1>2. gone' \subseteq Tasks /\ UNCHANGED <<rowVars, comments, worker, restarts, history>>
  BY <1>1 DEF DeleteTicket, Common
<1>3. Common'
  BY <1>1, <1>2 DEF Common, RowsFit, rowVars, history
<1>4. UNCHANGED <<event, comments, worker, listed, skipped>>
  BY <1>2 DEF rowVars, history
<1> QED
  BY <1>1, <1>3, <1>4, PartsNext

LEMMA StutterStep == LoopsFit /\ UNCHANGED writebackVars => LoopsFit'
<1> SUFFICES ASSUME LoopsFit, UNCHANGED writebackVars PROVE LoopsFit'
  OBVIOUS
<1>1. /\ Common /\ \A w \in Workers : /\ Fits(worker[w], listed[w], event)
                                      /\ Passed(worker[w], listed[w], event, comments, skipped)
  BY Parts
<1>2. UNCHANGED <<event, nextId, comments, gone, worker, restarts, skipped, listed>>
  BY DEF writebackVars, rowVars, jira, history
<1>3. Common'
  BY <1>1, <1>2 DEF Common, RowsFit
<1> QED
  BY <1>1, <1>2, <1>3, PartsNext

LEMMA StartStep == ASSUME LoopsFit, NEW w \in Workers, StartPass(w) PROVE LoopsFit'
<1> DEFINE o == worker[w]
           c == IF o.cursor = Unset THEN Max(Committed \cup {0}) ELSE o.cursor
           n == [o EXCEPT !.at = "list", !.cursor = c]
           seen == listed[w]
<1>1. /\ Common /\ Fits(o, seen, event) /\ Passed(o, seen, event, comments, skipped)
      /\ o \in Loops /\ DOMAIN worker = Workers /\ listed = [listed EXCEPT ![w] = seen]
  BY OfWorker
<1>2. /\ o.at = "idle" /\ worker' = [worker EXCEPT ![w] = n]
      /\ UNCHANGED <<rowVars, jira, restarts, history>>
  BY <1>1 DEF StartPass, Loops
<1>3. c \in 0 .. MaxEvents
  <2>1. Committed \cup {0} \in SUBSET (0 .. MaxEvents) /\ Committed \cup {0} # {}
    BY Limits DEF Committed, Ids
  <2>2. Max(Committed \cup {0}) \in 0 .. MaxEvents
    BY <2>1, Greatest
  <2> QED
    BY <1>1, <2>2 DEF Loops
<1>4. c # Unset
  BY <1>3, Limits
<1>5. n \in Loops /\ n.at = "list" /\ n.cursor = c /\ n.batch = o.batch
  BY <1>1, <1>3 DEF Loops
<1>6. o.cursor = Unset => seen = {}
  BY <1>1 DEF Fits
<1>7. o.cursor # Unset => n.cursor = o.cursor
  BY <1>5
<1>8. o.batch = {}
  BY <1>1, <1>2 DEF Fits
<1> HIDE DEF n, c, o, seen
<1>9. Fits(n, seen, event)
  BY <1>1, <1>4, <1>5, <1>6, <1>8 DEF Fits
<1>10. Passed(n, seen, event, comments, skipped)
  BY <1>1, <1>6, <1>7 DEF Passed
<1>11. /\ comments' = comments /\ comments \in [Tasks -> [Kinds -> Nat]] /\ gone' = gone
       /\ restarts' = restarts /\ restarts \in 0 .. MaxRestarts /\ skipped' = skipped
       /\ skipped \subseteq Ids /\ listed' = listed /\ UNCHANGED rowVars
  BY <1>1, <1>2 DEF Common, jira, history
<1> QED
  BY <1>1, <1>2, <1>9, <1>10, <1>11, OneLoop

\* A page of what is committed above the cursor holds all of it up to any event of the page.
LEMMA ListStep == ASSUME LoopsFit, NEW w \in Workers, ListEvents(w) PROVE LoopsFit'
<1> DEFINE o == worker[w]
           above == {id \in Committed : id > o.cursor}
           batch == {id \in above : Cardinality({i \in above : i <= id}) <= Batch}
           n == [o EXCEPT !.at = IF batch = {} THEN "idle" ELSE "next", !.batch = batch]
           old == listed[w]
           seen == old \cup batch
<1>1. /\ Common /\ Fits(o, old, event) /\ Passed(o, old, event, comments, skipped)
      /\ o \in Loops /\ DOMAIN worker = Workers /\ DOMAIN listed = Workers
  BY OfWorker
<1>2. /\ o.at = "list" /\ worker' = [worker EXCEPT ![w] = n]
      /\ listed' = [listed EXCEPT ![w] = seen] /\ UNCHANGED <<rowVars, jira, restarts, skipped>>
  BY <1>1 DEF ListEvents, Loops
<1>3. batch \in SUBSET Ids /\ batch \subseteq Committed /\ above \subseteq Ids
  BY DEF Committed
<1>4. /\ n \in Loops /\ n.at = (IF batch = {} THEN "idle" ELSE "next") /\ n.batch = batch
      /\ n.cursor = o.cursor
  BY <1>1, <1>3 DEF Loops
<1>5. o.cursor # Unset /\ o.cursor \in Nat
  BY <1>1, <1>2, Limits DEF Fits, Loops
<1>6. \A b \in batch : o.cursor < b
  BY <1>5, <1>3, Limits
<1>7. ASSUME NEW b \in batch, NEW id \in seen, o.cursor < id, id <= b PROVE id \in batch
  <2>1. id \in Ids /\ id \in Committed
    BY <1>1, <1>3 DEF Fits, Committed
  <2>2. id \in above /\ id \in Nat /\ b \in Nat
    BY <1>3, <1>5, <1>7, <2>1, Limits
  <2> DEFINE A == {i \in above : i <= id}
             B == {i \in above : i <= b}
  <2>3. A \subseteq B
    <3>1. ASSUME NEW i \in above, i <= id PROVE i <= b
      <4>1. i \in Nat
        BY <1>3, Limits
      <4> QED
        BY <1>7, <2>2, <3>1, <4>1
    <3> QED
      BY <3>1
  <2>4. IsFiniteSet(Ids)
    <3>1. 1 \in Int /\ MaxEvents \in Int
      BY Limits
    <3> QED
      BY <3>1, FS_Interval DEF Ids
  <2>5. IsFiniteSet(B)
    BY <1>3, <2>4, FS_Subset
  <2>6. /\ Cardinality(A) <= Cardinality(B) /\ IsFiniteSet(A)
    BY <2>3, <2>5, FS_Subset
  <2>7. Cardinality(A) \in Nat /\ Cardinality(B) \in Nat /\ Cardinality(B) <= Batch
    BY <2>5, <2>6, FS_CardinalityType
  <2>8. Cardinality(A) <= Batch
    BY <2>6, <2>7, Limits
  <2> QED
    BY <2>2, <2>8
<1>8. old \subseteq {id \in Ids : event[id].state = "committed"}
  BY <1>1 DEF Fits
<1>9. seen \subseteq {id \in Ids : event[id].state = "committed"} /\ batch \subseteq seen
  BY <1>3, <1>8 DEF Committed
<1>10. \A b \in batch : \A id \in seen : o.cursor < id /\ id <= b => id \in batch
  BY <1>7
<1>11. \A id \in seen : id <= o.cursor => id \in old
  <2>1. ASSUME NEW id \in batch PROVE ~(id <= o.cursor)
    <3>1. id \in Nat /\ o.cursor < id
      BY <1>3, <1>6, Limits
    <3> QED
      BY <1>5, <3>1
  <2> QED
    BY <2>1
<1> HIDE DEF n, seen, batch, above, o, old
<1>12. Fits(n, seen, event)
  BY <1>4, <1>5, <1>6, <1>9, <1>10 DEF Fits
<1>13. Passed(n, seen, event, comments, skipped)
  BY <1>1, <1>4, <1>5, <1>11 DEF Passed
<1>14. /\ comments' = comments /\ comments \in [Tasks -> [Kinds -> Nat]] /\ gone' = gone
       /\ restarts' = restarts /\ restarts \in 0 .. MaxRestarts /\ skipped' = skipped
       /\ skipped \subseteq Ids /\ UNCHANGED rowVars
  BY <1>1, <1>2 DEF Common, jira
<1> QED
  BY <1>2, <1>12, <1>13, <1>14, OneLoop

LEMMA RestartStep == ASSUME LoopsFit, NEW w \in Workers, Restart(w) PROVE LoopsFit'
<1>1. Common
  BY Parts
<1>2. NewLoop \in Loops /\ NewLoop.batch = {} /\ NewLoop.at = "idle" /\ NewLoop.cursor = Unset
  BY Limits DEF NewLoop, Loops
<1>3. /\ worker' = [worker EXCEPT ![w] = NewLoop] /\ listed' = [listed EXCEPT ![w] = {}]
      /\ UNCHANGED <<rowVars, jira, skipped>> /\ restarts' = restarts + 1 /\ restarts < MaxRestarts
  BY DEF Restart
<1>4. restarts' \in 0 .. MaxRestarts
  BY <1>1, <1>3, Limits DEF Common
<1>5. Fits(NewLoop, {}, event) /\ Passed(NewLoop, {}, event, comments, skipped)
  BY <1>2 DEF Fits, Passed
<1>6. /\ comments' = comments /\ comments \in [Tasks -> [Kinds -> Nat]] /\ gone' = gone
      /\ skipped' = skipped /\ skipped \subseteq Ids
  BY <1>1, <1>3 DEF Common, jira
<1> QED
  BY <1>3, <1>4, <1>5, <1>6, OneLoop

\* What was said or given up stays so.
LEMMA PassedGrows ==
  ASSUME LoopsFit, NEW w \in Workers, comments' \in [Tasks -> [Kinds -> Nat]],
         \A t \in Tasks, k \in Kinds : comments[t][k] > 0 => comments'[t][k] > 0,
         NEW up, skipped \subseteq up
  PROVE  Passed(worker[w], listed[w], event, comments', up)
<1>1. Common /\ Fits(worker[w], listed[w], event)
      /\ Passed(worker[w], listed[w], event, comments, skipped)
  BY OfWorker
<1>2. ASSUME NEW id \in listed[w], Given(id, event, comments, skipped)
      PROVE  Given(id, event, comments', up)
  <2>1. id \in Ids /\ event[id].state = "committed"
    BY <1>1 DEF Fits
  <2>2. event[id].task \in Tasks /\ event[id].says \in Kinds \cup {"nothing"}
    BY <1>1, <2>1 DEF Common, RowsFit, Row, Says
  <2> QED
    BY <1>2, <2>2 DEF Given
<1> QED
  BY <1>1, <1>2 DEF Passed

\* A worker in a pass is done with its event, gives it up or puts it off.
LEMMA HandleStep ==
  ASSUME LoopsFit, NEW w \in Workers, worker[w].at \in {"next", "post"},
         UNCHANGED <<rowVars, restarts, listed, gone>>, comments' \in [Tasks -> [Kinds -> Nat]],
         \A t \in Tasks, k \in Kinds : comments[t][k] > 0 => comments'[t][k] > 0,
         \/ Done(w) /\ Given(Current(w), event, comments', skipped)
         \/ Skip(w)
         \/ Retry(w)
  PROVE  LoopsFit' /\ worker'[w].at # "post" /\ \A v \in Workers : v # w => worker'[v] = worker[v]
<1> DEFINE o == worker[w]
           id == Current(w)
           seen == listed[w]
           n == Advance(o, id)
           b == [o EXCEPT !.at = "idle", !.batch = {}, !.failures[id] = o.failures[id] + 1]
<1>1. /\ Common /\ Fits(o, seen, event) /\ o \in Loops /\ DOMAIN worker = Workers
      /\ listed = [listed EXCEPT ![w] = seen] /\ o.at \in {"next", "post"}
  BY OfWorker
<1>2. /\ gone' = gone /\ listed' = listed /\ restarts' \in 0 .. MaxRestarts /\ skipped \subseteq Ids
      /\ UNCHANGED rowVars
  BY <1>1 DEF Common
<1>3. id = Min(o.batch) /\ id \in Ids
  BY <1>1, FirstOfBatch DEF Current
<1>4. ASSUME NEW up, skipped \subseteq up PROVE Passed(o, seen, event, comments', up)
  BY <1>4, PassedGrows
<1>5. CASE Done(w) /\ Given(id, event, comments', skipped)
  <2>1. worker' = [worker EXCEPT ![w] = n] /\ skipped' = skipped
    BY <1>5 DEF Done
  <2>2. Fits(n, seen, event) /\ Passed(n, seen, event, comments', skipped') /\ n.at # "post"
    <3>1. Passed(o, seen, event, comments', skipped')
      BY <1>4, <2>1
    <3>2. Given(id, event, comments', skipped')
      BY <1>5, <2>1
    <3> HIDE DEF o, id, seen
    <3> QED
      BY <1>1, <1>3, <3>1, <3>2, AdvanceLaw
  <2> HIDE DEF n
  <2>3. LoopsFit'
    BY <1>1, <1>2, <2>1, <2>2, OneLoop
  <2> QED
    BY <1>1, <2>1, <2>2, <2>3
<1>6. CASE Skip(w)
  <2>1. worker' = [worker EXCEPT ![w] = n] /\ skipped' = skipped \cup {id} /\ skipped' \subseteq Ids
    BY <1>2, <1>3, <1>6 DEF Skip
  <2>2. Fits(n, seen, event) /\ Passed(n, seen, event, comments', skipped') /\ n.at # "post"
    <3>1. Passed(o, seen, event, comments', skipped')
      BY <1>4, <2>1
    <3>2. Given(id, event, comments', skipped')
      BY <2>1 DEF Given
    <3> HIDE DEF o, id, seen
    <3> QED
      BY <1>1, <1>3, <3>1, <3>2, AdvanceLaw
  <2> HIDE DEF n
  <2>3. LoopsFit'
    BY <1>1, <1>2, <2>1, <2>2, OneLoop
  <2> QED
    BY <1>1, <2>1, <2>2, <2>3
<1>7. CASE Retry(w) /\ ~Skip(w)
  <2>1. worker' = [worker EXCEPT ![w] = b] /\ skipped' = skipped /\ o.failures[id] + 1 < MaxAttempts
    BY <1>1, <1>7 DEF Retry, Loops
  <2>2. b \in Loops /\ b.at = "idle" /\ b.batch = {} /\ b.cursor = o.cursor
    <3>1. o.failures[id] + 1 \in 0 .. MaxAttempts - 1
      BY <1>1, <1>3, <2>1, Limits DEF Loops
    <3> HIDE DEF id, o
    <3> QED
      BY <1>1, <1>3, <3>1 DEF Loops
  <2>3. Passed(o, seen, event, comments', skipped')
    BY <1>4, <2>1
  <2> HIDE DEF b, o, id, seen
  <2>4. Fits(b, seen, event) /\ Passed(b, seen, event, comments', skipped')
    BY <1>1, <2>2, <2>3, BackLaw
  <2>5. LoopsFit'
    BY <1>1, <1>2, <2>1, <2>4, OneLoop
  <2> QED
    BY <1>1, <2>1, <2>2, <2>5
<1> QED
  BY <1>5, <1>6, <1>7

\* The row of the event a worker is at.
LEMMA CurrentRow ==
  ASSUME LoopsFit, NEW w \in Workers, worker[w].at \in {"next", "post"}
  PROVE  /\ event[Current(w)] \in Row /\ event[Current(w)].task \in Tasks
         /\ event[Current(w)].state = "committed" /\ Current(w) \in Ids
<1>1. Common /\ Fits(worker[w], listed[w], event)
  BY OfWorker
<1>2. Current(w) \in Ids /\ event[Current(w)].state = "committed"
  BY <1>1, FirstOfBatch DEF Current
<1> QED
  BY <1>1, <1>2 DEF Common, RowsFit

\* The ticket was read, and has no such comment.
ToPost(w) ==
  /\ worker[w].at = "next" /\ worker' = [worker EXCEPT ![w].at = "post"]
  /\ event[Current(w)].says # "nothing"
  /\ comments[event[Current(w)].task][event[Current(w)].says] = 0
  /\ UNCHANGED <<rowVars, jira, restarts, history>>

LEMMA ToPostStep == ASSUME LoopsFit, NEW w \in Workers, ToPost(w) PROVE LoopsFit'
<1> DEFINE o == worker[w]
           n == [o EXCEPT !.at = "post"]
           seen == listed[w]
<1>1. /\ Common /\ Fits(o, seen, event) /\ Passed(o, seen, event, comments, skipped)
      /\ o \in Loops /\ DOMAIN worker = Workers /\ listed = [listed EXCEPT ![w] = seen]
  BY OfWorker
<1>2. /\ o.at = "next" /\ worker' = [worker EXCEPT ![w] = n] /\ event[Min(o.batch)].says # "nothing"
      /\ UNCHANGED <<rowVars, jira, restarts, history>>
  BY <1>1 DEF ToPost, Current
<1>3. n \in Loops /\ n.at = "post" /\ n.cursor = o.cursor /\ n.batch = o.batch
  BY <1>1 DEF Loops
<1> HIDE DEF n, o, seen
<1>4. Fits(n, seen, event)
  BY <1>1, <1>2, <1>3 DEF Fits
<1>5. Passed(n, seen, event, comments, skipped)
  BY <1>1, <1>3 DEF Passed
<1>6. /\ comments' = comments /\ comments \in [Tasks -> [Kinds -> Nat]] /\ gone' = gone
      /\ restarts' = restarts /\ restarts \in 0 .. MaxRestarts /\ skipped' = skipped
      /\ skipped \subseteq Ids /\ listed' = listed /\ UNCHANGED rowVars
  BY <1>1, <1>2 DEF Common, jira, history
<1> QED
  BY <1>1, <1>2, <1>4, <1>5, <1>6, OneLoop

\* What a read of the ticket comes to.
LEMMA ReadCases ==
  ASSUME LoopsFit, NEW w \in Workers, ReadTicket(w)
  PROVE  \/ ToPost(w)
         \/ /\ worker[w].at = "next" /\ UNCHANGED <<rowVars, jira, restarts, listed>>
            /\ \/ Done(w) /\ Given(Current(w), event, comments, skipped)
               \/ Skip(w)
               \/ Retry(w)
<1> DEFINE e == event[Current(w)]
<1>1. /\ worker[w].at = "next" /\ UNCHANGED <<rowVars, jira, restarts, listed>>
      /\ \/ e.says = "nothing" /\ Done(w)
         \/ Skip(w)
         \/ e.says # "nothing" /\ comments[e.task][e.says] > 0 /\ Done(w)
         \/ /\ e.says # "nothing" /\ ~(comments[e.task][e.says] > 0)
            /\ worker' = [worker EXCEPT ![w].at = "post"] /\ UNCHANGED skipped
         \/ Retry(w)
  BY DEF ReadTicket
<1>2. e \in Row /\ e.task \in Tasks
  BY <1>1, CurrentRow
<1>3. e.says # "nothing" => comments[e.task][e.says] \in Nat
  BY <1>2, OfWorker DEF Common, Row, Says
<1>4. CASE /\ e.says # "nothing" /\ ~(comments[e.task][e.says] > 0)
           /\ worker' = [worker EXCEPT ![w].at = "post"] /\ UNCHANGED skipped
  BY <1>1, <1>3, <1>4 DEF ToPost, history
<1>5. CASE e.says = "nothing" /\ Done(w)
  BY <1>1, <1>5 DEF Given
<1>6. CASE e.says # "nothing" /\ comments[e.task][e.says] > 0 /\ Done(w)
  BY <1>1, <1>6 DEF Given
<1> QED
  BY <1>1, <1>4, <1>5, <1>6

LEMMA ReadStep ==
  ASSUME LoopsFit, NEW w \in Workers, ReadTicket(w)
  PROVE  LoopsFit' /\ (ToPost(w) \/ worker'[w].at # "post")
<1>1. CASE ToPost(w)
  BY <1>1, ToPostStep
<1>2. CASE /\ worker[w].at = "next" /\ UNCHANGED <<rowVars, jira, restarts, listed>>
           /\ \/ Done(w) /\ Given(Current(w), event, comments, skipped)
              \/ Skip(w)
              \/ Retry(w)
  <2>1. /\ UNCHANGED <<rowVars, restarts, listed, gone>> /\ comments' = comments
        /\ comments' \in [Tasks -> [Kinds -> Nat]]
    BY <1>2, OfWorker DEF jira, Common
  <2> QED
    BY <1>2, <2>1, HandleStep
<1> QED
  BY <1>1, <1>2, ReadCases

\* The comments after a post.
LEMMA Posted ==
  ASSUME LoopsFit, NEW w \in Workers, worker[w].at = "post"
  PROVE  LET e == event[Current(w)]
             posted == [comments EXCEPT ![e.task][e.says] = @ + 1]
         IN  /\ e.task \in Tasks /\ e.says \in Kinds /\ posted \in [Tasks -> [Kinds -> Nat]]
             /\ posted[e.task][e.says] = comments[e.task][e.says] + 1
             /\ \A t \in Tasks, k \in Kinds : t # e.task \/ k # e.says => posted[t][k] = comments[t][k]
             /\ \A t \in Tasks, k \in Kinds : comments[t][k] \in Nat
<1> DEFINE e == event[Current(w)]
<1>1. e.task \in Tasks /\ e \in Row
  BY CurrentRow
<1>2. e.says \in Kinds
  BY <1>1, OfWorker DEF Fits, Current, Row, Says
<1>3. comments \in [Tasks -> [Kinds -> Nat]]
  BY OfWorker DEF Common
<1> HIDE DEF e
<1>4. DEFINE posted == [comments EXCEPT ![e.task][e.says] = @ + 1]
<1>5. posted \in [Tasks -> [Kinds -> Nat]]
  BY <1>1, <1>2, <1>3
<1>6. /\ posted[e.task][e.says] = comments[e.task][e.says] + 1
      /\ \A t \in Tasks, k \in Kinds : t # e.task \/ k # e.says => posted[t][k] = comments[t][k]
      /\ \A t \in Tasks, k \in Kinds : comments[t][k] \in Nat
  BY <1>1, <1>2, <1>3
<1> QED
  BY <1>1, <1>2, <1>5, <1>6 DEF e

LEMMA PostStep ==
  ASSUME LoopsFit, NEW w \in Workers, PostComment(w)
  PROVE  LoopsFit' /\ worker'[w].at # "post"
<1> DEFINE e == event[Current(w)]
           posted == [comments EXCEPT ![e.task][e.says] = @ + 1]
<1>1. /\ worker[w].at = "post" /\ UNCHANGED <<rowVars, gone, restarts, listed>>
      /\ \/ comments' = posted /\ Done(w)
         \/ comments' = posted /\ Retry(w)
         \/ comments' = comments /\ Retry(w)
         \/ comments' = comments /\ Skip(w)
  BY DEF PostComment
<1>2. /\ e.task \in Tasks /\ e.says \in Kinds /\ posted \in [Tasks -> [Kinds -> Nat]]
      /\ posted[e.task][e.says] = comments[e.task][e.says] + 1
      /\ \A t \in Tasks, k \in Kinds : t # e.task \/ k # e.says => posted[t][k] = comments[t][k]
      /\ \A t \in Tasks, k \in Kinds : comments[t][k] \in Nat
  BY <1>1, Posted
<1>3. comments \in [Tasks -> [Kinds -> Nat]]
  BY OfWorker DEF Common
<1> HIDE DEF posted
<1>4. comments' \in [Tasks -> [Kinds -> Nat]]
  BY <1>1, <1>2, <1>3
<1>5. ASSUME NEW t \in Tasks, NEW k \in Kinds, comments[t][k] > 0 PROVE comments'[t][k] > 0
  <2>1. comments[t][k] \in Nat /\ (comments' = posted \/ comments' = comments)
    BY <1>1, <1>2
  <2>2. CASE t = e.task /\ k = e.says
    BY <1>2, <1>5, <2>1, <2>2
  <2>3. CASE t # e.task \/ k # e.says
    BY <1>2, <1>5, <2>1, <2>3
  <2> QED
    BY <2>2, <2>3
<1>6. ASSUME comments' = posted PROVE Given(Current(w), event, comments', skipped)
  <2>1. comments[e.task][e.says] \in Nat
    BY <1>2
  <2>2. comments'[e.task][e.says] > 0
    BY <1>2, <1>6, <2>1
  <2> QED
    BY <2>2 DEF Given
<1>7. \/ Done(w) /\ Given(Current(w), event, comments', skipped)
      \/ Skip(w)
      \/ Retry(w)
  BY <1>1, <1>6
<1> QED
  BY <1>1, <1>4, <1>5, <1>7, HandleStep

-----------------------------------------------------------------------------
(* Theorems                                                                *)

LEMMA LoopsFitStep == LoopsFit /\ [WritebackNext]_writebackVars => LoopsFit'
<1> SUFFICES ASSUME LoopsFit, [WritebackNext]_writebackVars PROVE LoopsFit'
  OBVIOUS
<1>1. ASSUME NEW t \in Tasks, NEW s \in Says, InsertEvent(t, s) PROVE LoopsFit'
  BY <1>1, InsertStep
<1>2. ASSUME NEW id \in Ids, NEW how \in {"committed", "rolled_back"}, EndTransaction(id, how)
      PROVE  LoopsFit'
  BY <1>2, EndStep
<1>3. ASSUME NEW t \in Tasks, DeleteTicket(t) PROVE LoopsFit'
  BY <1>3, DeleteStep
<1>4. ASSUME NEW w \in Workers, Loop(w) \/ Restart(w) PROVE LoopsFit'
  BY <1>4, StartStep, ListStep, ReadStep, PostStep, RestartStep DEF Loop
<1>5. CASE UNCHANGED writebackVars
  BY <1>5, StutterStep
<1> QED
  BY <1>1, <1>2, <1>3, <1>4, <1>5 DEF WritebackNext

\* The cursor of a worker never passes an event it has listed, unless the
\* ticket has its comment, there was nothing to say, or the event was given up:
\* whatever the other workers do, and however often Jira fails.
THEOREM EveryEventIsHandled == WritebackSpec => [](WritebackTypeOK /\ ListedIsHandled)
<1>1. LoopsFit => WritebackTypeOK /\ ListedIsHandled
  BY DEF LoopsFit
<1> QED
  BY InitFits, LoopsFitStep, <1>1, PTL DEF WritebackSpec

\* With one worker, what it posts is not there yet.
Once == LoopsFit /\ PostsTheFirst /\ OneComment

LEMMA NoPost ==
  ASSUME NEW w, Workers = {w}, worker'[w].at # "post"
  PROVE  PostsTheFirst'
BY DEF PostsTheFirst

LEMMA OnceStep ==
  ASSUME Once, NEW w, Workers = {w}, [WritebackNext]_writebackVars
  PROVE  Once'
<1>1. LoopsFit /\ PostsTheFirst /\ OneComment /\ w \in Workers
  BY DEF Once
<1>2. LoopsFit'
  BY <1>1, LoopsFitStep
<1>3. ASSUME comments' = comments PROVE OneComment'
  BY <1>1, <1>3 DEF OneComment
<1> DEFINE id == Current(w)
<1>4. worker[w].at = "post" => id \in Ids /\ event[id].state = "committed" 
                               /\ comments[event[id].task][event[id].says] = 0
  BY <1>1, CurrentRow DEF PostsTheFirst
<1>5. ASSUME worker' = worker, comments' = comments, worker[w].at = "post" => event'[id] = event[id]
      PROVE  PostsTheFirst'
  BY <1>4, <1>5 DEF PostsTheFirst, Current
<1>6. event \in [Ids -> Row] /\ worker \in [Workers -> Loops] /\ RowsFit
  BY <1>1, OfWorker DEF Common
<1>7. ASSUME NEW t \in Tasks, NEW s \in Says, InsertEvent(t, s) PROVE Once'
  <2>1. /\ nextId \in Ids /\ UNCHANGED <<comments, worker>>
        /\ \A x \in Ids : x # nextId => event'[x] = event[x]
    BY <1>6, <1>7 DEF InsertEvent, jira
  <2>2. event[nextId].state = "free"
    BY <1>6, <2>1, Limits DEF RowsFit
  <2> QED
    BY <1>2, <1>3, <1>4, <1>5, <2>1, <2>2 DEF Once
<1>8. ASSUME NEW x \in Ids, NEW how \in {"committed", "rolled_back"}, EndTransaction(x, how)
      PROVE  Once'
  <2>1. /\ event[x].state = "open" /\ UNCHANGED <<comments, worker>>
        /\ \A y \in Ids : y # x => event'[y] = event[y]
    BY <1>6, <1>8 DEF EndTransaction, jira
  <2> QED
    BY <1>2, <1>3, <1>4, <1>5, <2>1 DEF Once
<1>9. ASSUME NEW t \in Tasks, DeleteTicket(t) PROVE Once'
  <2>1. UNCHANGED <<comments, worker, event>>
    BY <1>9 DEF DeleteTicket, rowVars
  <2> QED
    BY <1>2, <1>3, <1>5, <2>1 DEF Once
<1>10. CASE StartPass(w) \/ ListEvents(w) \/ Restart(w)
  <2>1. comments' = comments
    BY <1>10 DEF StartPass, ListEvents, Restart, jira
  <2>2. worker'[w].at # "post"
    BY <1>6, <1>10 DEF StartPass, ListEvents, Restart, NewLoop, Loops
  <2> QED
    BY <1>2, <1>3, <2>1, <2>2, NoPost DEF Once
<1>11. CASE ReadTicket(w)
  <2>1. comments' = comments
    BY <1>11 DEF ReadTicket, jira
  <2>2. CASE ToPost(w)
    <3>1. /\ worker'[w].batch = worker[w].batch /\ event' = event
          /\ comments[event[id].task][event[id].says] = 0
      BY <1>6, <2>2 DEF ToPost, rowVars, Loops
    <3>2. PostsTheFirst'
      BY <2>1, <3>1 DEF PostsTheFirst, Current
    <3> QED
      BY <1>2, <1>3, <2>1, <3>2 DEF Once
  <2>3. CASE worker'[w].at # "post"
    BY <1>2, <1>3, <2>1, <2>3, NoPost DEF Once
  <2> QED
    BY <1>1, <1>11, <2>2, <2>3, ReadStep
<1>12. CASE PostComment(w)
  <2>1. worker'[w].at # "post" /\ worker[w].at = "post"
    BY <1>1, <1>12, PostStep DEF PostComment
  <2>2. OneComment'
    <3> DEFINE e == event[id]
               posted == [comments EXCEPT ![e.task][e.says] = @ + 1]
    <3>1. comments' = posted \/ comments' = comments
      BY <1>12 DEF PostComment
    <3>2. /\ e.task \in Tasks /\ e.says \in Kinds
          /\ posted[e.task][e.says] = comments[e.task][e.says] + 1
          /\ \A t \in Tasks, k \in Kinds : t # e.task \/ k # e.says => posted[t][k] = comments[t][k]
      BY <1>1, <2>1, Posted
    <3>3. comments[e.task][e.says] = 0
      BY <1>4, <2>1
    <3> HIDE DEF posted, e
    <3>4. \A t \in Tasks, k \in Kinds : posted[t][k] <= 1
      BY <1>1, <3>2, <3>3 DEF OneComment
    <3> QED
      BY <1>1, <3>1, <3>4 DEF OneComment
  <2> QED
    BY <1>2, <2>1, <2>2, NoPost DEF Once
<1>13. CASE UNCHANGED writebackVars
  <2>1. UNCHANGED <<comments, worker, event>>
    BY <1>13 DEF writebackVars, rowVars, jira
  <2> QED
    BY <1>2, <1>3, <1>5, <2>1 DEF Once
<1> QED
  BY <1>1, <1>7, <1>8, <1>9, <1>10, <1>11, <1>12, <1>13 DEF WritebackNext, Loop

\* One worker posts one comment per kind and task, over every lost answer,
\* retry and restart, and leaves no listed event behind unhandled.
THEOREM OneWorkerPostsOnce ==
  ASSUME NEW w, Workers = {w}
  PROVE  WritebackSpec => []HandledOnce
<1>1. WritebackInit => Once
  <2>1. WritebackInit => LoopsFit /\ PostsTheFirst /\ OneComment
    BY InitFits DEF WritebackInit, NewLoop, PostsTheFirst, OneComment
  <2> QED
    BY <2>1 DEF Once
<1>2. Once /\ [WritebackNext]_writebackVars => Once'
  BY OnceStep
<1>3. Once => HandledOnce
  BY DEF Once, LoopsFit, HandledOnce
<1> QED
  BY <1>1, <1>2, <1>3, PTL DEF WritebackSpec
=============================================================================

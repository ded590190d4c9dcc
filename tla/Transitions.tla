----------------------------- MODULE Transitions -----------------------------
(***************************************************************************)
(* The two state machines of the orchestrator, packages/core transitions.ts*)
(* A transition is keyed on (from, trigger): TaskTable and ExecutionTable  *)
(* are the rows of the tables.  A handler that asks transition() for a row *)
(* the tables do not have is rolled back; a module that models handlers    *)
(* states either the edge the handler relies on (TaskEdge) or the checks   *)
(* the handler makes itself, and then that its moves are rows (TaskMove,   *)
(* ExecutionMove).                                                         *)
(***************************************************************************)

TaskStates ==
  {"NEEDS_SPEC", "SPEC_IN_PROGRESS", "SPEC_REVIEW", "SPEC_APPROVED", "READY",
   "BLOCKED", "IMPLEMENTING", "REVIEWING", "CI_RUNNING", "READY_FOR_MERGE",
   "DONE", "NEEDS_HUMAN", "FAILED", "CANCELLED"}

ExecutionStates ==
  {"QUEUED", "ASSIGNED", "RUNNING", "WAITING_FOR_USER",
   "COMPLETED", "FAILED", "CANCELLED"}

\* FAILED may be cancelled but cannot fail again; DONE and CANCELLED neither.
Cancellable == TaskStates \ {"DONE", "CANCELLED"}
Failable    == TaskStates \ {"DONE", "CANCELLED", "FAILED"}

SpecRows ==
  {<<"NEEDS_SPEC", "spec.session_started", "SPEC_IN_PROGRESS">>,
   <<"SPEC_IN_PROGRESS", "spec.review_requested", "SPEC_REVIEW">>,
   <<"SPEC_REVIEW", "spec.sent_back", "SPEC_IN_PROGRESS">>,
   <<"SPEC_REVIEW", "spec.approved", "SPEC_APPROVED">>,
   <<"SPEC_APPROVED", "spec.approved", "IMPLEMENTING">>,
   <<"SPEC_APPROVED", "spec.revise", "SPEC_IN_PROGRESS">>,
   <<"READY", "spec.revise", "SPEC_IN_PROGRESS">>,
   <<"IMPLEMENTING", "issue.resolved.spec_revision", "SPEC_IN_PROGRESS">>,
   <<"REVIEWING", "issue.resolved.spec_revision", "SPEC_IN_PROGRESS">>}

WorkRows ==
  {<<"SPEC_APPROVED", "dependency.satisfied", "READY">>,
   <<"SPEC_APPROVED", "dependency.failed", "BLOCKED">>,
   <<"BLOCKED", "dependency.resolved", "READY">>,
   <<"READY", "task.claimed", "IMPLEMENTING">>,
   <<"IMPLEMENTING", "review.started", "REVIEWING">>,
   <<"REVIEWING", "review.started", "REVIEWING">>,
   <<"REVIEWING", "review.findings", "IMPLEMENTING">>,
   <<"REVIEWING", "pull_request.created", "CI_RUNNING">>,
   <<"CI_RUNNING", "ci.failed", "IMPLEMENTING">>,
   <<"CI_RUNNING", "ci.passed", "READY_FOR_MERGE">>,
   <<"READY_FOR_MERGE", "pull_request.merged", "DONE">>,
   <<"READY_FOR_MERGE", "pull_request.closed", "NEEDS_HUMAN">>,
   <<"IMPLEMENTING", "task.escalated", "NEEDS_HUMAN">>,
   <<"REVIEWING", "task.escalated", "NEEDS_HUMAN">>,
   <<"CI_RUNNING", "task.escalated", "NEEDS_HUMAN">>,
   <<"NEEDS_HUMAN", "human.retry", "READY">>}

EndRows ==
  {<<s, "task.cancelled", "CANCELLED">> : s \in Cancellable} \cup
  {<<s, "task.failed", "FAILED">> : s \in Failable} \cup
  {<<"CANCELLED", "task.reopened.spec_approved", "SPEC_APPROVED">>,
   <<"CANCELLED", "task.reopened.needs_spec", "NEEDS_SPEC">>}

TaskTable == SpecRows \cup WorkRows \cup EndRows

ExecutionTable ==
  {<<"QUEUED", "execution.assigned", "ASSIGNED">>,
   <<"ASSIGNED", "execution.started", "RUNNING">>,
   <<"RUNNING", "execution.waiting", "WAITING_FOR_USER">>,
   <<"WAITING_FOR_USER", "execution.resumed", "RUNNING">>,
   <<"RUNNING", "execution.completed", "COMPLETED">>,
   <<"RUNNING", "execution.failed", "FAILED">>,
   <<"ASSIGNED", "execution.failed", "FAILED">>,
   <<"COMPLETED", "resume_with_ci_failure", "RUNNING">>,
   <<"COMPLETED", "execution.resumed", "RUNNING">>} \cup
  {<<s, "execution.cancelled", "CANCELLED">> :
     s \in {"QUEUED", "ASSIGNED", "RUNNING", "WAITING_FOR_USER"}}

\* resolveTransition(...).ok for a task
TaskEdge(from, trigger) == \E r \in TaskTable : r[1] = from /\ r[2] = trigger

\* What transition() can do to a state in one call, or leave alone.
TaskMove(from, to)      == from = to \/ \E r \in TaskTable : r[1] = from /\ r[3] = to
ExecutionMove(from, to) == from = to \/ \E r \in ExecutionTable : r[1] = from /\ r[3] = to

=============================================================================

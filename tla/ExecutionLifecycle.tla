-------------------------- MODULE ExecutionLifecycle --------------------------
(***************************************************************************)
(* How implementation executions of approved tasks are claimed, run,       *)
(* paused, resumed, retried, swept and reviewed.                           *)
(*                                                                         *)
(* The rows of Postgres (task, exec, lease, pr, cmd) are shared; everything*)
(* a worker process only keeps in memory (run, blocking, batch, swept) is  *)
(* a variable of its own and is lost by Crash.  One action is one database *)
(* transaction or one step a process takes between two awaits, so a value  *)
(* read without a lock may be stale when the next action uses it.          *)
(***************************************************************************)
EXTENDS Naturals, FiniteSets, Transitions

CONSTANTS Tasks,            \* tickets with an approved specification
          Workers,          \* worker processes; one process per host
          Execs,            \* ids of execution rows: the bound on rows
          MaxCommands,      \* ids of command rows are 1 .. MaxCommands
          MaxConcurrent,    \* agent_workers.max_concurrent
          MaxInfraRetries,  \* projects.max_infra_retries
          MaxProtocolRetries, \* projects.max_protocol_retries
          MaxReviewRounds,  \* projects.max_review_rounds
          MaxCiRounds,      \* projects.max_ci_rounds
          MaxIssues,        \* bound on the open blocking issues of an execution
          NoTask, NoWorker, NoExec

ASSUME LifecycleAssumption ==
  /\ {MaxCommands, MaxConcurrent, MaxInfraRetries, MaxProtocolRetries,
      MaxReviewRounds, MaxCiRounds, MaxIssues} \subseteq Nat
  /\ NoTask \notin Tasks /\ NoWorker \notin Workers /\ NoExec \notin Execs

CmdIds == 1 .. MaxCommands

\* end_reason, with one representative of each row of the failure table:
\* adapter_error stands for the one the adapter calls not retriable, and
\* agent_hung for every retriable failure of a turn.
InfraFailures == {"lease_expired", "agent_hung", "setup_failed"}
TurnFailures  == {"agent_hung", "adapter_error", "budget_exceeded"}
Reasons == InfraFailures \cup TurnFailures \cup
           {"none", "protocol_violation", "agent_gave_up"}

Verdicts   == {"none", "clean", "findings", "ask_user"}
\* Definitions whose name ends in a word after an underscore are mutants: the
\* definition that follows, with a mistake a property has to notice.
LiveStates_NoPaused == {"QUEUED", "ASSIGNED", "RUNNING"}
LiveStates == {"QUEUED", "ASSIGNED", "RUNNING", "WAITING_FOR_USER"}
SlotStates == {"ASSIGNED", "RUNNING"}    \* SLOT_HOLDING_STATES, LEASED_STATES
RetryableTaskStates == {"IMPLEMENTING", "REVIEWING"}

Phases == {"idle",       \* not in the runner's live map
           "loading",    \* resume(): in the live map, its transaction to come
           "preparing",  \* worktree, container, everything before the token
           "session",    \* token issued, adapter stream open
           "closing"}    \* the run is over, finalize() to come

NoRow == [state |-> "NONE", task |-> NoTask, host |-> NoWorker, of |-> NoExec,
          used |-> 0, reason |-> "none", token |-> NoWorker, round |-> 0,
          verdict |-> "none", ci |-> 0, issues |-> 0]

\* A row as it is inserted, before the columns its insert names.
NewRow(t) == [NoRow EXCEPT !.state = "QUEUED", !.task = t]

NoLease == [exec |-> NoExec, expired |-> FALSE]
NoCommand == [kind |-> "none", exec |-> NoExec, status |-> "free"]

VARIABLES task,      \* tasks.state
          exec,      \* executions, NoRow where the id is not used yet
          lease,     \* task_leases, one row per task at most
          pr,        \* pull_requests.execution_id of the task's row
          cmd,       \* execution_commands
          worker,    \* whether the process is up, frozen or gone
          stale,     \* last_heartbeat_at is more than 15 minutes old
          run,       \* the runner's live map
          blocking,  \* executions whose registry entry has blockingPending
          batch,     \* commands claimed by the consume phase, not handled yet
          swept      \* the expired lease the sweeper has read, not locked yet

rows   == <<task, exec, lease, pr, cmd>>
memory == <<run, blocking, batch, swept>>
hosts  == <<worker, stale>>
vars   == <<task, exec, lease, pr, cmd, worker, stale, run, blocking, batch, swept>>

-----------------------------------------------------------------------------
(* Queries                                                                 *)

Fresh        == {e \in Execs : exec[e].state = "NONE"}
Of(t)        == {e \in Execs : exec[e].task = t}
LiveOf(t)    == {e \in Of(t) : exec[e].state \in LiveStates}
Up(w)        == worker[w] = "up"
Busy(w)      == Cardinality({e \in Execs : exec[e].host = w /\ exec[e].state \in SlotStates})
HasSlot(w)   == Busy(w) < MaxConcurrent

\* replaceTaskLease throws when the lease row belongs to a live execution.
LeaseFree(t) == lease[t].exec \in Execs => exec[lease[t].exec].state \notin SlotStates

\* renewTaskLease updates the lease row of this execution while it is live.
Renewable(e) == /\ exec[e].state \in SlotStates
                /\ lease[exec[e].task].exec = e

Renewed(l, e) == IF l[exec[e].task].exec = e
                   THEN [l EXCEPT ![exec[e].task].expired = FALSE]
                   ELSE l

\* The commands a worker's claim statement matches: those of executions
\* pinned to its host or to none.
Eligible(w) == {i \in CmdIds : /\ cmd[i].status = "queued"
                               /\ exec[cmd[i].exec].host \in {w, NoWorker}}

\* created_at order: a worker handles its batch from the lowest id.
NextInBatch(w, i) == i \in batch[w] /\ \A j \in batch[w] : i <= j

\* insertExecutionCommand
Enqueue(kind, e) ==
  \E i \in CmdIds :
    /\ cmd[i].status = "free"
    /\ \A j \in CmdIds : cmd[j].status = "free" => i <= j
    /\ cmd' = [cmd EXCEPT ![i] = [kind |-> kind, exec |-> e, status |-> "queued"]]

-----------------------------------------------------------------------------
(* The retry policy, applied in the transaction that makes an execution    *)
(* FAILED (runner/retry.ts)                                                *)

\* countProtocolViolations, the execution now failing included
Violations(e) == Cardinality({x \in Of(exec[e].task) :
                                x = e \/ exec[x].reason = "protocol_violation"})

WithinBudget_OneMore(e, reason) ==
  \/ reason \in InfraFailures /\ exec[e].used <= MaxInfraRetries
  \/ reason = "protocol_violation" /\ Violations(e) <= MaxProtocolRetries

WithinBudget(e, reason) ==
  \/ reason \in InfraFailures /\ exec[e].used < MaxInfraRetries
  \/ reason = "protocol_violation" /\ Violations(e) <= MaxProtocolRetries

Retried(e, reason) == /\ WithinBudget(e, reason)
                      /\ task[exec[e].task] \in RetryableTaskStates

RetryRow(e, reason) ==
  [NewRow(exec[e].task) EXCEPT
     !.of = e,
     !.used = IF reason \in InfraFailures THEN exec[e].used + 1 ELSE exec[e].used]

Escalated_Implementing(t) == IF task[t] = "IMPLEMENTING"
                               THEN [task EXCEPT ![t] = "NEEDS_HUMAN"]
                               ELSE task

Escalated(t) == IF TaskEdge(task[t], "task.escalated")
                  THEN [task EXCEPT ![t] = "NEEDS_HUMAN"]
                  ELSE task

Fail(e, reason, token) ==
  LET ended == [exec EXCEPT ![e].state = "FAILED", ![e].reason = reason,
                            ![e].token = token]
  IN  IF Retried(e, reason)
        THEN /\ \E f \in Fresh : exec' = [ended EXCEPT ![f] = RetryRow(e, reason)]
             /\ UNCHANGED task
        ELSE /\ exec' = ended
             /\ task' = Escalated(exec[e].task)

EndFailed_Unguarded(e, reason) == Fail(e, reason, exec[e].token)

\* endFailed and the other run exits: a row that a tool, the api or the
\* sweeper has ended already is left alone.
EndFailed(e, reason) ==
  IF exec[e].state \in SlotStates
    THEN Fail(e, reason, exec[e].token)
    ELSE UNCHANGED <<exec, task>>

-----------------------------------------------------------------------------
(* Scheduler                                                               *)

\* promoteApprovedTasks, for a task with no dependency
Promote(w, t) ==
  /\ Up(w) /\ task[t] = "SPEC_APPROVED"
  /\ \A e \in Of(t) : exec[e].state # "WAITING_FOR_USER"
  /\ task' = [task EXCEPT ![t] = "READY"]
  /\ UNCHANGED <<exec, lease, pr, cmd, hosts, memory>>

\* claimNextTask, and the hand-off to runner.start after its commit
Claim(w, t) ==
  /\ Up(w) /\ HasSlot(w)
  /\ task[t] = "READY" /\ LiveOf(t) = {}
  /\ LeaseFree(t)
  /\ \E e \in Fresh :
       /\ exec' = [exec EXCEPT ![e] = [NewRow(t) EXCEPT !.state = "ASSIGNED", !.host = w]]
       /\ lease' = [lease EXCEPT ![t] = [exec |-> e, expired |-> FALSE]]
       /\ run' = [run EXCEPT ![w][e] = "preparing"]
  /\ task' = [task EXCEPT ![t] = "IMPLEMENTING"]
  /\ UNCHANGED <<pr, cmd, hosts, blocking, batch, swept>>

NoOtherLive_NotItself(e) == LiveOf(exec[e].task) = {}

\* hasOtherLiveExecution
NoOtherLive(e) == LiveOf(exec[e].task) \subseteq {e}

\* claimNextRetry: the due retry row is pinned here and started
StartRetry(w, e) ==
  /\ Up(w) /\ HasSlot(w)
  /\ exec[e].state = "QUEUED" /\ exec[e].host = NoWorker
  /\ task[exec[e].task] \in RetryableTaskStates
  /\ NoOtherLive(e)
  /\ LeaseFree(exec[e].task)
  /\ exec' = [exec EXCEPT ![e].state = "ASSIGNED", ![e].host = w]
  /\ lease' = [lease EXCEPT ![exec[e].task] = [exec |-> e, expired |-> FALSE]]
  /\ run' = [run EXCEPT ![w][e] = "preparing"]
  /\ UNCHANGED <<task, pr, cmd, hosts, blocking, batch, swept>>

ListExpired_Running(w, t) ==
  /\ Up(w) /\ swept[w] = NoExec
  /\ lease[t].expired /\ exec[lease[t].exec].state = "RUNNING"
  /\ swept' = [swept EXCEPT ![w] = lease[t].exec]
  /\ UNCHANGED <<rows, hosts, run, blocking, batch>>

\* listExpiredLiveLeases, read without locks
ListExpired(w, t) ==
  /\ Up(w) /\ swept[w] = NoExec
  /\ lease[t].expired /\ exec[lease[t].exec].state \in SlotStates
  /\ swept' = [swept EXCEPT ![w] = lease[t].exec]
  /\ UNCHANGED <<rows, hosts, run, blocking, batch>>

StillExpired_AsRead(e) == exec[e].state \in SlotStates /\ lease[exec[e].task].exec = e

\* lockExpiredLease: what the sweeper read is checked again under the locks
StillExpired(e) == Renewable(e) /\ lease[exec[e].task].expired

SweepLease(w) ==
  LET e == swept[w] IN
  /\ Up(w) /\ e # NoExec
  /\ IF StillExpired(e)
       THEN /\ Fail(e, "lease_expired", NoWorker)
            /\ lease' = [lease EXCEPT ![exec[e].task] = NoLease]
       ELSE UNCHANGED <<exec, task, lease>>
  /\ swept' = [swept EXCEPT ![w] = NoExec]
  /\ UNCHANGED <<pr, cmd, hosts, run, blocking, batch>>

\* RELEASABLE_STATES
Releasable == {"WAITING_FOR_USER", "COMPLETED"}

\* releaseExecutionsOnDeadHosts: a worker never takes its own host for dead
ReleaseHost(w, e) ==
  /\ Up(w)
  /\ exec[e].host \in Workers \ {w} /\ stale[exec[e].host]
  /\ exec[e].state \in Releasable
  /\ exec' = [exec EXCEPT ![e].host = NoWorker]
  /\ UNCHANGED <<task, lease, pr, cmd, hosts, memory>>

-----------------------------------------------------------------------------
(* The runner                                                              *)

\* prepareAndRun gives up before the session: worktree or setup_command
SetupFails(w, e) ==
  /\ Up(w) /\ run[w][e] = "preparing"
  /\ EndFailed(e, "setup_failed")
  /\ run' = [run EXCEPT ![w][e] = "closing"]
  /\ UNCHANGED <<lease, pr, cmd, hosts, blocking, batch, swept>>

\* resumeRetry: a retry in the failed attempt's worktree on the same host is
\* RUNNING before its token is issued
ResumeRetry(w, e) ==
  /\ Up(w) /\ run[w][e] = "preparing"
  /\ exec[e].state = "ASSIGNED"
  /\ exec[e].of # NoExec /\ exec[exec[e].of].host = w
  /\ exec' = [exec EXCEPT ![e].state = "RUNNING"]
  /\ UNCHANGED <<task, lease, pr, cmd, hosts, memory>>

IssueToken_Unguarded(w, e) ==
  /\ Up(w) /\ run[w][e] = "preparing"
  /\ exec' = [exec EXCEPT ![e].token = w]
  /\ run' = [run EXCEPT ![w][e] = "session"]
  /\ UNCHANGED <<task, lease, pr, cmd, hosts, blocking, batch, swept>>

\* issueRunToken; a token is named by the worker whose session holds it
IssueToken(w, e) ==
  /\ Up(w) /\ run[w][e] = "preparing"
  /\ IF exec[e].state \in SlotStates
       THEN /\ exec' = [exec EXCEPT ![e].token = w]
            /\ run' = [run EXCEPT ![w][e] = "session"]
       ELSE /\ run' = [run EXCEPT ![w][e] = "closing"]
            /\ UNCHANGED exec
  /\ UNCHANGED <<task, lease, pr, cmd, hosts, blocking, batch, swept>>

\* onSession, the adapter's session event of a run that is not RUNNING yet
SessionStarted(w, e) ==
  /\ Up(w) /\ run[w][e] = "session" /\ exec[e].state = "ASSIGNED"
  /\ exec' = [exec EXCEPT ![e].state = "RUNNING"]
  /\ UNCHANGED <<task, lease, pr, cmd, hosts, memory>>

\* withLease: a renewal that finds the lease
Renew(w, e) ==
  /\ Up(w) /\ run[w][e] \in {"preparing", "session"}
  /\ Renewable(e) /\ lease[exec[e].task].expired
  /\ lease' = Renewed(lease, e)
  /\ UNCHANGED <<task, exec, pr, cmd, hosts, memory>>

\* withLease: a renewal that finds none stops the run as "gone", after the
\* grace period when the agent itself ended the execution.  onSession, finding
\* the execution not live, stops it the same way.
Gone(w, e) ==
  /\ Up(w) /\ run[w][e] \in {"preparing", "session"}
  /\ ~Renewable(e)
  /\ run' = [run EXCEPT ![w][e] = "closing"]
  /\ UNCHANGED <<rows, hosts, blocking, batch, swept>>

\* afterTurn, the turn over or stopped at the end of the blocking grace
EndTurn(w, e) ==
  /\ Up(w) /\ run[w][e] = "session"
  /\ IF e \in blocking[w] /\ exec[e].state = "RUNNING"
       THEN /\ exec' = [exec EXCEPT ![e].state = "WAITING_FOR_USER"]
            /\ UNCHANGED task
       ELSE EndFailed(e, "protocol_violation")
  /\ run' = [run EXCEPT ![w][e] = "closing"]
  /\ UNCHANGED <<lease, pr, cmd, hosts, blocking, batch, swept>>

\* afterTurn, the turn ended by the quiet timer, an error or the budget
FailTurn(w, e, reason) ==
  /\ Up(w) /\ run[w][e] = "session"
  /\ EndFailed(e, reason)
  /\ run' = [run EXCEPT ![w][e] = "closing"]
  /\ UNCHANGED <<lease, pr, cmd, hosts, blocking, batch, swept>>

\* finalize: every exit path of a run revokes the token, whatever the row is
Finalize(w, e) ==
  /\ Up(w) /\ run[w][e] = "closing"
  /\ exec' = [exec EXCEPT ![e].token = NoWorker]
  /\ run' = [run EXCEPT ![w][e] = "idle"]
  /\ blocking' = [blocking EXCEPT ![w] = @ \ {e}]
  /\ UNCHANGED <<task, lease, pr, cmd, hosts, batch, swept>>

-----------------------------------------------------------------------------
(* Agent tools.  The agent is a process of its own: a call is refused by   *)
(* its token only, so it may come while its run is closing or after the    *)
(* worker that started it was restarted.  Every call ends by renewing the  *)
(* lease of an execution that is still live.                               *)

Authorized(w, e, states) ==
  /\ Up(w) /\ exec[e].token = w /\ exec[e].state \in states

RenewedByCall(e) == IF exec'[e].state \in SlotStates THEN Renewed(lease, e) ELSE lease

Rounds == 1 .. MaxReviewRounds + 1

\* report_review_started
ReviewStarted(w, e, round) ==
  /\ Authorized(w, e, {"RUNNING"})
  /\ TaskEdge(task[exec[e].task], "review.started")
  /\ exec' = [exec EXCEPT ![e].round = round, ![e].verdict = "none"]
  /\ task' = [task EXCEPT ![exec[e].task] = "REVIEWING"]
  /\ lease' = RenewedByCall(e)
  /\ UNCHANGED <<pr, cmd, hosts, memory>>

\* report_review_result.  Past the round limit the task is escalated and the
\* execution left RUNNING; findings send the task back to IMPLEMENTING.
ReviewResult(w, e, round, verdict) ==
  LET t == exec[e].task IN
  /\ Authorized(w, e, {"RUNNING"})
  /\ \/ /\ round > MaxReviewRounds
        /\ TaskEdge(task[t], "task.escalated")
        /\ task' = [task EXCEPT ![t] = "NEEDS_HUMAN"]
     \/ /\ round <= MaxReviewRounds /\ verdict = "findings"
        /\ task[t] = "REVIEWING"
        /\ task' = [task EXCEPT ![t] = "IMPLEMENTING"]
     \/ /\ round <= MaxReviewRounds /\ verdict \in {"clean", "ask_user"}
        /\ UNCHANGED task
  /\ exec' = [exec EXCEPT ![e].verdict = IF exec[e].round = round THEN verdict ELSE @]
  /\ lease' = RenewedByCall(e)
  /\ UNCHANGED <<pr, cmd, hosts, memory>>

CleanlyReviewed_AnyVerdict(e) == exec[e].round # 0 /\ task[exec[e].task] = "REVIEWING"

\* requireCleanReview
CleanlyReviewed(e) == /\ exec[e].round # 0 /\ exec[e].verdict = "clean"
                      /\ task[exec[e].task] = "REVIEWING"

\* report_pr_created
PrCreated(w, e) ==
  /\ Authorized(w, e, {"RUNNING"})
  /\ CleanlyReviewed(e)
  /\ pr' = [pr EXCEPT ![exec[e].task] = e]
  /\ task' = [task EXCEPT ![exec[e].task] = "CI_RUNNING"]
  /\ exec' = [exec EXCEPT ![e].state = "COMPLETED", ![e].token = NoWorker]
  /\ lease' = RenewedByCall(e)
  /\ UNCHANGED <<cmd, hosts, memory>>

\* report_failed
ReportFailed(w, e) ==
  /\ Authorized(w, e, {"RUNNING"})
  /\ exec' = [exec EXCEPT ![e].state = "FAILED", ![e].reason = "agent_gave_up",
                          ![e].token = NoWorker]
  /\ task' = Escalated(exec[e].task)
  /\ lease' = RenewedByCall(e)
  /\ UNCHANGED <<pr, cmd, hosts, memory>>

\* raise_issue, blocking.  The flag is set after the commit, in the registry
\* entry of the run, and only if there is one.
RaiseIssue(w, e) ==
  /\ Authorized(w, e, SlotStates)
  /\ exec[e].issues < MaxIssues
  /\ exec' = [exec EXCEPT ![e].issues = @ + 1]
  /\ blocking' = IF run[w][e] \in {"session", "closing"}
                   THEN [blocking EXCEPT ![w] = @ \cup {e}]
                   ELSE blocking
  /\ lease' = RenewedByCall(e)
  /\ UNCHANGED <<task, pr, cmd, hosts, run, batch, swept>>

-----------------------------------------------------------------------------
(* The GitHub poller's decisions, one transaction each                     *)

\* applyCiFailure: the PR's execution is sent back to work by a command,
\* unless its CI rounds are used up. A poll that listed an earlier execution of
\* the row is in PullRequests.
CiFailed(t) ==
  LET e == pr[t] IN
  /\ task[t] = "CI_RUNNING" /\ e # NoExec
  /\ exec' = [exec EXCEPT ![e].ci = @ + 1]
  /\ IF exec'[e].ci > MaxCiRounds
       THEN /\ task' = [task EXCEPT ![t] = "NEEDS_HUMAN"]
            /\ UNCHANGED cmd
       ELSE /\ task' = [task EXCEPT ![t] = "IMPLEMENTING"]
            /\ Enqueue("ci", e)
  /\ UNCHANGED <<lease, pr, hosts, memory>>

CiPassed(t) ==
  /\ task[t] = "CI_RUNNING" /\ pr[t] # NoExec
  /\ task' = [task EXCEPT ![t] = "READY_FOR_MERGE"]
  /\ UNCHANGED <<exec, lease, pr, cmd, hosts, memory>>

\* markPullRequestMerged passes through READY_FOR_MERGE from CI_RUNNING
Merged(t) ==
  /\ task[t] \in {"CI_RUNNING", "READY_FOR_MERGE"} /\ pr[t] # NoExec
  /\ task' = [task EXCEPT ![t] = "DONE"]
  /\ UNCHANGED <<exec, lease, pr, cmd, hosts, memory>>

ClosedUnmerged(t) ==
  /\ task[t] \in {"CI_RUNNING", "READY_FOR_MERGE"} /\ pr[t] # NoExec
  /\ task' = [task EXCEPT ![t] = "NEEDS_HUMAN"]
  /\ UNCHANGED <<exec, lease, pr, cmd, hosts, memory>>

-----------------------------------------------------------------------------
(* The consume_commands phase and its two resume handlers                  *)

ClaimCommands(w) ==
  /\ Up(w) /\ batch[w] = {} /\ Eligible(w) # {}
  /\ cmd' = [i \in CmdIds |->
               IF i \in Eligible(w) THEN [cmd[i] EXCEPT !.status = "claimed"] ELSE cmd[i]]
  /\ batch' = [batch EXCEPT ![w] = Eligible(w)]
  /\ UNCHANGED <<task, exec, lease, pr, hosts, run, blocking, swept>>

\* How a handler ends: handled and skipped complete the command, unclaimed
\* returns it to the queue, a throw leaves it claimed for ever.
Leave(w, i, status) ==
  /\ cmd' = [cmd EXCEPT ![i].status = status]
  /\ batch' = [batch EXCEPT ![w] = @ \ {i}]

\* The state both handlers and resume() require of the execution.
ResumableState(kind) == IF kind = "ci" THEN "COMPLETED" ELSE "WAITING_FOR_USER"

Resumable_NotRechecked(i) == cmd[i].kind = "decision" \/ exec[cmd[i].exec].state = "COMPLETED"

Resumable(i) == exec[cmd[i].exec].state = ResumableState(cmd[i].kind)

\* Where a handler's unlocked reads refuse the command, its next status:
\* a CI failure for an execution whose run is still open here is thrown, one
\* for an execution released from a dead host is dropped.
RefusalOfCi(w, e) ==
  IF exec[e].state # "COMPLETED" \/ exec[e].host = NoWorker THEN "done"
  ELSE IF run[w][e] # "idle" THEN "claimed"
  ELSE IF exec[e].host # w THEN "queued" ELSE "none"

RefusalOfDecision_Dropped(w, e) ==
  IF run[w][e] # "idle" THEN "done"
  ELSE IF exec[e].state # "WAITING_FOR_USER" THEN "done"
  ELSE IF exec[e].host \notin {w, NoWorker} THEN "queued" ELSE "none"

RefusalOfDecision(w, e) ==
  IF run[w][e] # "idle" THEN "queued"
  ELSE IF exec[e].state # "WAITING_FOR_USER" THEN "done"
  ELSE IF exec[e].host \notin {w, NoWorker} THEN "queued" ELSE "none"

Refusal(w, i) == IF cmd[i].kind = "ci" THEN RefusalOfCi(w, cmd[i].exec)
                                       ELSE RefusalOfDecision(w, cmd[i].exec)

\* The handler up to resume()'s unlocked load.  A decision for a released
\* execution pins it here first, under the execution's lock.
BeginResume(w, i) ==
  LET e == cmd[i].exec IN
  /\ Up(w) /\ NextInBatch(w, i) /\ run[w][e] # "loading"
  /\ IF Refusal(w, i) # "none"
       THEN Leave(w, i, Refusal(w, i)) /\ UNCHANGED <<exec, run>>
       ELSE /\ run' = [run EXCEPT ![w][e] = "loading"]
            /\ exec' = [exec EXCEPT ![e].host = w]
            /\ UNCHANGED <<cmd, batch>>
  /\ UNCHANGED <<task, lease, pr, hosts, blocking, swept>>

PinnedHere_Assumed(w, e) == run[w][e] = "loading"

PinnedHere(w, e) == exec[e].host = w

\* resume()'s transaction: the state and the host pin are read again under
\* the locks.  Neither the task's state nor its other executions are, and
\* the result of the renewal is not looked at.
CommitResume(w, i) ==
  LET e == cmd[i].exec IN
  /\ Up(w) /\ NextInBatch(w, i) /\ run[w][e] = "loading"
  /\ IF Resumable(i) /\ PinnedHere(w, e)
       THEN /\ exec' = [exec EXCEPT ![e].state = "RUNNING"]
            /\ lease' = Renewed(lease, e)
            /\ run' = [run EXCEPT ![w][e] = "preparing"]
            /\ Leave(w, i, "done")
       ELSE /\ Leave(w, i, IF Resumable(i) /\ (cmd[i].kind = "decision" \/ exec[e].host # NoWorker)
                             THEN "queued" ELSE "done")
            /\ run' = [run EXCEPT ![w][e] = "idle"]
            /\ UNCHANGED <<exec, lease>>
  /\ UNCHANGED <<task, pr, hosts, blocking, swept>>

-----------------------------------------------------------------------------
(* Users                                                                   *)

ResolveIssue_Twice(e) ==
  /\ exec[e].state = "WAITING_FOR_USER" /\ exec[e].issues > 0
  /\ exec' = [exec EXCEPT ![e].issues = @ - 2]    \* two users at once
  /\ Enqueue("decision", e)
  /\ UNCHANGED <<task, lease, pr, hosts, memory>>

\* POST /issues/:id/resolve, a blocking issue answered by a clarification
ResolveIssue(e) ==
  /\ exec[e].state = "WAITING_FOR_USER" /\ exec[e].issues > 0
  /\ exec' = [exec EXCEPT ![e].issues = @ - 1]
  /\ Enqueue("decision", e)
  /\ UNCHANGED <<task, lease, pr, hosts, memory>>

\* POST /tasks/:id/cancel.  Tokens stay stored, and no worker is told.
Cancel(t) ==
  /\ TaskEdge(task[t], "task.cancelled")
  /\ task' = [task EXCEPT ![t] = "CANCELLED"]
  /\ exec' = [e \in Execs |-> IF e \in LiveOf(t)
                                THEN [exec[e] EXCEPT !.state = "CANCELLED"] ELSE exec[e]]
  /\ UNCHANGED <<lease, pr, cmd, hosts, memory>>

\* POST /tasks/:id/reopen, of a task with an approved revision and no draft
Reopen(t) ==
  /\ task[t] = "CANCELLED"
  /\ task' = [task EXCEPT ![t] = "SPEC_APPROVED"]
  /\ UNCHANGED <<exec, lease, pr, cmd, hosts, memory>>

\* POST /tasks/:id/retry
HumanRetry(t) ==
  /\ task[t] = "NEEDS_HUMAN"
  /\ task' = [task EXCEPT ![t] = "READY"]
  /\ UNCHANGED <<exec, lease, pr, cmd, hosts, memory>>

-----------------------------------------------------------------------------
(* Time and faults                                                         *)

\* expires_at passes: five minutes without a renewal
LeaseExpires(t) ==
  /\ lease[t].exec # NoExec /\ ~lease[t].expired
  /\ lease' = [lease EXCEPT ![t].expired = TRUE]
  /\ UNCHANGED <<task, exec, pr, cmd, hosts, memory>>

\* A run that ends on an exception of its own or by the runner's shutdown:
\* the row is left as it is, for the lease sweeper.
RunAborts(w, e) ==
  /\ Up(w) /\ run[w][e] \in {"preparing", "session"}
  /\ run' = [run EXCEPT ![w][e] = "closing"]
  /\ UNCHANGED <<rows, hosts, blocking, batch, swept>>

\* resume() refuses before its transaction: no session, no worktree, no
\* adapter.  A handler throws then, except that a decision is completed when
\* the refusal is NO_SESSION or CANNOT_RESUME.
ResumeRefused(w, i) ==
  /\ Up(w) /\ NextInBatch(w, i) /\ run[w][cmd[i].exec] = "loading"
  /\ \/ Leave(w, i, "claimed")
     \/ cmd[i].kind = "decision" /\ Leave(w, i, "done")
  /\ run' = [run EXCEPT ![w][cmd[i].exec] = "idle"]
  /\ UNCHANGED <<task, exec, lease, pr, hosts, blocking, swept>>

Crash(w) ==
  /\ worker[w] # "down"
  /\ worker' = [worker EXCEPT ![w] = "down"]
  /\ run' = [run EXCEPT ![w] = [e \in Execs |-> "idle"]]
  /\ blocking' = [blocking EXCEPT ![w] = {}]
  /\ batch' = [batch EXCEPT ![w] = {}]
  /\ swept' = [swept EXCEPT ![w] = NoExec]
  /\ UNCHANGED <<rows, stale>>

\* Registration writes the heartbeat before the worker does anything else.
Restart(w) ==
  /\ worker[w] = "down"
  /\ worker' = [worker EXCEPT ![w] = "up"]
  /\ stale' = [stale EXCEPT ![w] = FALSE]
  /\ UNCHANGED <<rows, memory>>

\* The whole process stops for a while: a suspended machine, a long pause.
Freeze(w) ==
  /\ Up(w)
  /\ worker' = [worker EXCEPT ![w] = "frozen"]
  /\ UNCHANGED <<rows, stale, memory>>

Thaw(w) ==
  /\ worker[w] = "frozen"
  /\ worker' = [worker EXCEPT ![w] = "up"]
  /\ UNCHANGED <<rows, stale, memory>>

Heartbeat(w) ==
  /\ Up(w) /\ stale[w]
  /\ stale' = [stale EXCEPT ![w] = FALSE]
  /\ UNCHANGED <<rows, worker, memory>>

HeartbeatStale(w) ==
  /\ ~Up(w) /\ ~stale[w]
  /\ stale' = [stale EXCEPT ![w] = TRUE]
  /\ UNCHANGED <<rows, worker, memory>>

-----------------------------------------------------------------------------
(* The specification                                                       *)

Init ==
  /\ task = [t \in Tasks |-> "SPEC_APPROVED"]
  /\ exec = [e \in Execs |-> NoRow]
  /\ lease = [t \in Tasks |-> NoLease]
  /\ pr = [t \in Tasks |-> NoExec]
  /\ cmd = [i \in CmdIds |-> NoCommand]
  /\ worker = [w \in Workers |-> "up"]
  /\ stale = [w \in Workers |-> FALSE]
  /\ run = [w \in Workers |-> [e \in Execs |-> "idle"]]
  /\ blocking = [w \in Workers |-> {}]
  /\ batch = [w \in Workers |-> {}]
  /\ swept = [w \in Workers |-> NoExec]

Scheduler(w) ==
  \/ \E t \in Tasks : Promote(w, t) \/ Claim(w, t) \/ ListExpired(w, t)
  \/ \E e \in Execs : StartRetry(w, e) \/ ReleaseHost(w, e)
  \/ SweepLease(w)
  \/ Heartbeat(w)

Runner(w) ==
  \E e \in Execs :
    \/ ResumeRetry(w, e) \/ IssueToken(w, e) \/ SessionStarted(w, e)
    \/ Renew(w, e) \/ Gone(w, e) \/ EndTurn(w, e) \/ Finalize(w, e)

Agent(w) ==
  \E e \in Execs :
    \/ PrCreated(w, e) \/ ReportFailed(w, e) \/ RaiseIssue(w, e)
    \/ \E round \in Rounds :
         \/ ReviewStarted(w, e, round)
         \/ \E v \in Verdicts \ {"none"} : ReviewResult(w, e, round, v)

Commands(w) ==
  \/ ClaimCommands(w)
  \/ \E i \in CmdIds : BeginResume(w, i) \/ CommitResume(w, i)

Poller(t) == CiFailed(t) \/ CiPassed(t) \/ Merged(t) \/ ClosedUnmerged(t)

Failures(w) ==
  \E e \in Execs : \/ SetupFails(w, e)
                  \/ \E reason \in TurnFailures : FailTurn(w, e, reason)

\* What no handler asks for, kept apart so that a model can bound it.
ResumeFault(w)  == \E i \in CmdIds : ResumeRefused(w, i)
AbortFault(w)   == \E e \in Execs : RunAborts(w, e)
Resolve         == \E e \in Execs : ResolveIssue(e)

Next ==
  \/ \E w \in Workers :
       \/ Scheduler(w) \/ Runner(w) \/ Agent(w) \/ Commands(w) \/ Failures(w)
       \/ ResumeFault(w) \/ AbortFault(w)
       \/ Crash(w) \/ Restart(w) \/ Freeze(w) \/ Thaw(w) \/ HeartbeatStale(w)
  \/ \E t \in Tasks :
       Poller(t) \/ Cancel(t) \/ Reopen(t) \/ HumanRetry(t) \/ LeaseExpires(t)
  \/ Resolve

Spec == Init /\ [][Next]_vars

\* Each tick phase and the retry loop of a worker that is up runs again and
\* again, and so does the renewal timer of a run.  Nothing is assumed of
\* agents, users, GitHub, the clock or of a worker that is down.
Fairness ==
  \A w \in Workers :
    /\ WF_vars(SweepLease(w))
    /\ \A t \in Tasks : WF_vars(ListExpired(w, t)) /\ WF_vars(Claim(w, t))
    /\ \A e \in Execs : /\ WF_vars(StartRetry(w, e))
                         /\ WF_vars(Gone(w, e)) /\ WF_vars(Finalize(w, e))

-----------------------------------------------------------------------------
(* Properties                                                              *)

Row == [state : ExecutionStates \cup {"NONE"}, task : Tasks \cup {NoTask},
        host : Workers \cup {NoWorker}, of : Execs \cup {NoExec}, used : Nat,
        reason : Reasons, token : Workers \cup {NoWorker}, round : Nat,
        verdict : Verdicts, ci : Nat, issues : Nat]

Lease   == [exec : Execs \cup {NoExec}, expired : BOOLEAN]
Command == [kind : {"none", "ci", "decision"}, exec : Execs \cup {NoExec},
            status : {"free", "queued", "claimed", "done"}]

TaskOK == task \in [Tasks -> TaskStates]

ExecOK == /\ exec \in [Execs -> Row]
          /\ \A e \in Execs : exec[e].state = "NONE" <=> exec[e].task = NoTask

CmdOK == /\ cmd \in [CmdIds -> Command]
         /\ \A i \in CmdIds :
              cmd[i].status # "free" \/ (\E w \in Workers : i \in batch[w])
                => cmd[i].exec \in Execs

LeaseOK == /\ lease \in [Tasks -> Lease]
           /\ pr \in [Tasks -> Execs \cup {NoExec}]

HostOK == /\ worker \in [Workers -> {"up", "frozen", "down"}]
          /\ stale \in [Workers -> BOOLEAN]

MemoryOK == /\ run \in [Workers -> [Execs -> Phases]]
            /\ blocking \in [Workers -> SUBSET Execs]
            /\ batch \in [Workers -> SUBSET CmdIds]
            /\ swept \in [Workers -> Execs \cup {NoExec}]

\* Every variable has its type, an id that is not used has no row, a row that
\* is used belongs to a task, and only a command in the free state, which no
\* worker handles, names no execution.
TypeOK == TaskOK /\ ExecOK /\ CmdOK /\ LeaseOK /\ HostOK /\ MemoryOK

\* States in which an execution owns its task: an agent works on it, is being
\* started, or is paused on a question.
OwningStates == {"ASSIGNED", "RUNNING", "WAITING_FOR_USER"}

\* The task's lease row belongs to every execution that owns the task and was
\* not resumed for a CI failure, through claims, retries, pauses, sweeps and
\* the crash of any worker.  claimNextTask and claimNextRetry replace the row;
\* nothing else moves it to another execution.
LeaseCoversOwner ==
  \A e \in Execs :
    exec[e].state \in OwningStates /\ exec[e].ci = 0 => lease[exec[e].task].exec = e

\* Hence two executions never own one task, as long as no CI failure brought
\* one of them back.
OneOwner ==
  \A e, f \in Execs :
    /\ exec[e].state \in OwningStates /\ exec[e].ci = 0
    /\ exec[f].state \in OwningStates /\ exec[f].ci = 0
    /\ exec[e].task = exec[f].task
    => e = f

\* A failed execution is retried at most once, whoever fails it: the runner
\* that comes back late, a tool or the sweepers of several workers.
RetriedOnce ==
  \A e, f \in Execs : exec[e].of = exec[f].of /\ exec[e].of # NoExec => e = f

\* The failure policy bounds the rows a task can grow to: each row claimed
\* from READY is followed by at most max_infra_retries infrastructure retries,
\* and the task as a whole by max_protocol_retries protocol retries.
RetryBudget ==
  \A t \in Tasks :
    LET retries == {e \in Of(t) : exec[e].of # NoExec}
    IN  Cardinality(retries) <=
          Cardinality(Of(t) \ retries) * MaxInfraRetries + MaxProtocolRetries

\* No token is ever stored on a COMPLETED row (issueRunToken), although an
\* agent may complete its execution while a resume of it is being prepared.
CompletedHasNoToken ==
  \A e \in Execs : exec[e].state = "COMPLETED" => exec[e].token = NoWorker

\* A pull request reaches CI, a merge or DONE only as the work of an ended
\* execution whose latest review round was clean, also after CI failures,
\* retries and restarts of its worker.
ReviewGate ==
  \A t \in Tasks :
    task[t] \in {"CI_RUNNING", "READY_FOR_MERGE", "DONE"} =>
      /\ pr[t] \in Of(t)
      /\ exec[pr[t]].state = "COMPLETED"
      /\ exec[pr[t]].verdict = "clean"

\* A live execution is run only by the worker its row is pinned to, whatever
\* the dead-host release and the resumes of other workers did while this one
\* was frozen.  In particular no two workers run it.
RunsWherePinned ==
  \A w \in Workers, e \in Execs :
    run[w][e] \in {"preparing", "session"} /\ exec[e].state \in SlotStates
      => exec[e].host = w

\* Only the worker an execution is pinned to acts for it, whoever ran it before:
\* it alone has the run, and none is left with a token when the work is done.
HolderActsAlone == RunsWherePinned /\ CompletedHasNoToken

\* A command the program will still look at.
Pending(i) == cmd[i].status = "queued" \/ \E w \in Workers : i \in batch[w]

\* A paused execution can always go on: a human still has a blocking issue to
\* answer, or an answer is on its way.
PausedHasWayOut ==
  \A e \in Execs :
    exec[e].state = "WAITING_FOR_USER" =>
      exec[e].issues > 0 \/ \E i \in CmdIds : cmd[i].exec = e /\ Pending(i)

\* A task in work has an execution that works on it, or a CI failure handed to
\* a worker and not completed.
InWork(t) == task[t] \in RetryableTaskStates

SomeoneWorks ==
  \A t \in Tasks :
    InWork(t) => \/ LiveOf(t) # {}
                 \/ \E i \in CmdIds : /\ cmd[i].kind = "ci" /\ cmd[i].exec \in Of(t)
                                       /\ cmd[i].status \in {"queued", "claimed"}

\* FAILED and CANCELLED are final: no tool call, turn end, resume or sweep
\* that read the row before it ended moves it again.
EndedIsFinal ==
  [][\A e \in Execs : exec[e].state \in {"FAILED", "CANCELLED"}
                        => exec'[e].state = exec[e].state]_vars

\* The checks the handlers make are enough for the state machines: whatever a
\* user, another worker or the agent did since a handler decided, it never asks
\* transition() for a move the tables do not have.  A merge seen while CI is
\* still running is the one handler that takes two rows.
FollowsTables ==
  [][/\ \A t \in Tasks :
          \/ TaskMove(task[t], task'[t])
          \/ \E s \in TaskStates : /\ task'[t] = "DONE"
                                   /\ TaskMove(task[t], s) /\ TaskMove(s, "DONE")
     /\ \A e \in Execs :
          \/ ExecutionMove(exec[e].state, exec'[e].state)
          \/ exec[e].state = "NONE" /\ exec'[e].state \in {"QUEUED", "ASSIGNED"}]_vars

\* What a state of an execution means to its task (TaskOwnership)
Stage(state) == CASE state = "NONE" -> "unused"
                  [] state = "QUEUED" -> "waiting"
                  [] state \in OwningStates -> "owning"
                  [] state = "COMPLETED" -> "resting"
                  [] OTHER -> "over"

Ownership == INSTANCE TaskOwnership
  WITH stage    <- [e \in Execs |-> Stage(exec[e].state)],
       taskOf   <- [e \in Execs |-> exec[e].task],
       retryOf  <- [e \in Execs |-> exec[e].of],
       sentBack <- {e \in Execs : exec[e].ci # 0}

\* The executions hand a task over as TaskOwnership says, whatever workers,
\* sweepers, users, agents and CI do at the same time and whoever crashes: work
\* begins or is retried only when nothing else is engaged with the task, a
\* failure and its retry are one step, nothing that is over comes back, and
\* nothing completed does that CI has not sent back.
HandsOver == Ownership!OwnershipSpec

\* The sweeper fails an execution only while its lease is expired, even when
\* the holder renewed it after the sweeper read the row.
SweptOnlyExpired ==
  [][\A e \in Execs :
       exec'[e].reason = "lease_expired" /\ exec[e].reason # "lease_expired"
         => lease[exec[e].task] = [exec |-> e, expired |-> TRUE]]_vars

\* An execution whose worker is gone: live, its lease expired, run by nobody.
Abandoned(e) ==
  /\ exec[e].state \in SlotStates /\ StillExpired(e)
  /\ \A w \in Workers : run[w][e] = "idle"

\* Some worker that is still up takes it over: the sweeper ends it, unless a
\* call of its own agent renews the lease.
AbandonedIsSwept == \A e \in Execs : Abandoned(e) ~> ~Abandoned(e)

\* A queued retry does not wait for ever: with no other execution of its task
\* live, a worker that is up starts it.
RetryIsStarted == \A e \in Execs : exec[e].state = "QUEUED" ~> exec[e].state # "QUEUED"

\* Failures are made good, and not for ever: what a worker abandoned is swept,
\* the retry of what failed is started, and retries stay within their budgets.
FailureRecovers == []RetryBudget /\ AbandonedIsSwept /\ RetryIsStarted

-----------------------------------------------------------------------------
(* What makes the invariants above inductive                               *)

\* The row of a pull request names an execution that exists.
PrUsed == \A t \in Tasks : pr[t] # NoExec => exec[pr[t]].state # "NONE"

\* A CI command is about an execution whose CI failures have been counted, so
\* the resume it asks for is not the resume of an execution without one.
CiCommands ==
  \A i \in CmdIds :
    cmd[i].kind = "ci" => /\ cmd[i].exec \in Execs
                          /\ exec[cmd[i].exec].state # "NONE"
                          /\ exec[cmd[i].exec].ci > 0

OwnerInv == TypeOK /\ PrUsed /\ CiCommands /\ LeaseCoversOwner

\* A row that is not used yet is no retry, and CI has not sent it back.
Blank == \A e \in Execs : exec[e].state = "NONE" => exec[e].of = NoExec /\ exec[e].ci = 0

\* The attempt that a retry names has failed.
OfFailed ==
  \A e \in Execs : exec[e].of # NoExec => /\ exec[e].of \in Execs
                                          /\ exec[exec[e].of].state = "FAILED"

RetryInv == TypeOK /\ OfFailed /\ RetriedOnce

\* What a row retries, by the failure that caused it.
InfraRetry(e)    == exec[e].of # NoExec /\ exec[exec[e].of].reason \in InfraFailures
ProtocolRetry(e) == exec[e].of # NoExec /\ exec[exec[e].of].reason = "protocol_violation"

\* No retry of e has been inserted.
LastOfLine(e) == e \in Execs \ Fresh /\ \A f \in Execs \ Fresh : exec[f].of # e

\* root[e] is the row, claimed from READY, that the line of attempts of e began
\* with.
LineOf(root, e) ==
  /\ exec[root[e]].of = NoExec /\ exec[root[e]].task = exec[e].task
  /\ exec[e].of # NoExec => /\ InfraRetry(e) \/ ProtocolRetry(e)
                            /\ exec[exec[e].of].task = exec[e].task
  /\ InfraRetry(e) => exec[e].used \in 1 .. MaxInfraRetries

\* A line has one last row, which has counted the infrastructure retries in it.
SameLine(e, f) ==
  /\ LastOfLine(e) => exec[f].used <= exec[e].used /\ (LastOfLine(f) => e = f)
  /\ InfraRetry(e) /\ InfraRetry(f) /\ exec[e].used = exec[f].used => e = f

Lines(root) ==
  \A e \in Execs \ Fresh :
    /\ LineOf(root, e)
    /\ \A f \in Execs \ Fresh : root[e] = root[f] => SameLine(e, f)

ProtocolRetries(t) == {e \in Of(t) : ProtocolRetry(e)}

BudgetFits ==
  /\ \E root \in [Execs -> Execs] : Lines(root)
  /\ \A t \in Tasks : /\ IsFiniteSet(Of(t))
                       /\ Cardinality(ProtocolRetries(t)) <= MaxProtocolRetries

BudgetInv == RetryInv /\ BudgetFits

\* A worker handles only commands it has claimed, each by one worker.
BatchHeld ==
  \A w \in Workers : \A i \in batch[w] :
    /\ cmd[i].status = "claimed"
    /\ \A v \in Workers : i \in batch[v] => v = w

\* The worker has a run of the execution that may act for it.
Holds(w, e) == run[w][e] \in {"preparing", "session"}

\* Only a run of the worker the row is pinned to may act for a live execution.
\* It outlives the completion, when the row may be released from a dead host, and
\* no run is left when the row waits for one to start.
HoldersPinned ==
  \A w \in Workers, e \in Execs :
    Holds(w, e) =>
      /\ exec[e].state \notin {"NONE", "QUEUED", "WAITING_FOR_USER"}
      /\ exec[e].state \in SlotStates => exec[e].host = w
      /\ exec[e].state = "COMPLETED" => exec[e].host \in {w, NoWorker}

HolderInv == TypeOK /\ HoldersPinned /\ CompletedHasNoToken

\* Not refused, dropped or completed: the command may still resume its execution.
OpenCi(i) == cmd[i].kind = "ci" /\ cmd[i].status \in {"queued", "claimed"}

\* The task's pull request has left the executions' hands.
Delivered == {"CI_RUNNING", "READY_FOR_MERGE", "DONE"}

\* One CI failure at a time is open for an execution, which rests COMPLETED until
\* then, and it took the task out of the states the gate guards.
CiOncePerWork ==
  \A i \in CmdIds :
    OpenCi(i) =>
      /\ exec[cmd[i].exec].state = "COMPLETED"
      /\ \A t \in Tasks : pr[t] = cmd[i].exec => task[t] \notin Delivered
      /\ \A j \in CmdIds : OpenCi(j) /\ cmd[j].exec = cmd[i].exec => j = i

GateInv == TypeOK /\ BatchHeld /\ CiOncePerWork /\ ReviewGate

\* No host is taken for dead.
NoneStale == \A w \in Workers : ~stale[w]

\* Then what is on a worker stays pinned to it.
PinnedStates == SlotStates \cup Releasable

StaysPinned == \A e \in Execs : exec[e].state \in PinnedStates => exec[e].host \in Workers

WorkInv == GateInv /\ StaysPinned /\ SomeoneWorks

\* A run is one of the worker the row is pinned to, until it is finalized.
RunsPinned ==
  \A w \in Workers, e \in Execs :
    run[w][e] # "idle" => exec[e].host = w /\ exec[e].state \notin {"NONE", "QUEUED"}

\* The flag that makes a turn end as a pause is up only while a blocking issue is
\* open: answering is possible only after the pause, and the resume waits until
\* the run that has the flag is finalized.
FlagFits ==
  \A w \in Workers : \A e \in blocking[w] :
    /\ run[w][e] \in {"session", "closing"}
    /\ exec[e].state \in SlotStates => exec[e].issues > 0

Answered(e) == \E i \in CmdIds : cmd[i].kind = "decision" /\ cmd[i].exec = e /\ Pending(i)

PausedIsAnswered ==
  \A e \in Execs : exec[e].state = "WAITING_FOR_USER" => exec[e].issues > 0 \/ Answered(e)

WayOutInv == TypeOK /\ StaysPinned /\ RunsPinned /\ FlagFits /\ PausedIsAnswered

-----------------------------------------------------------------------------
(* What the documents say of the program, each violated by a run           *)

\* Orchestration-layer-spec.v1.md:313, "Only one active implementation
\* execution may own a task".
OneActiveExecution ==
  \A e, f \in Execs :
    /\ {exec[e].state, exec[f].state} \subseteq OwningStates
    /\ exec[e].task = exec[f].task
    => e = f

\* docs/design.md 11.2, a failed check run sends the task back to IMPLEMENTING
\* and its execution back to work: some execution works on the task or the
\* command is still to be handled.
CiFailureIsWorkedOn ==
  \A t \in Tasks :
    InWork(t) => \/ LiveOf(t) # {}
                 \/ \E i \in CmdIds :
                      cmd[i].kind = "ci" /\ cmd[i].exec \in Of(t) /\ Pending(i)

\* Orchestration-layer-spec.v1.md 17, the user responds, the response is sent to
\* the agent and the agent resumes: the answer to a paused execution is not
\* given up while the execution still waits for it.
AnswerReachesAgent ==
  \A i \in CmdIds :
    /\ cmd[i].kind = "decision" /\ cmd[i].status = "claimed"
    /\ exec[cmd[i].exec].state = "WAITING_FOR_USER"
    => Pending(i)

\* docs/runbook.md:322, an execution left ASSIGNED or RUNNING by its worker is
\* ended by the sweeper once its lease expires: no execution that nobody runs
\* is without the lease that would let the sweeper see it.
LostExecutionHasLease ==
  \A e \in Execs :
    exec[e].state \in SlotStates /\ (\A w \in Workers : run[w][e] = "idle")
      => lease[exec[e].task].exec = e

\* docs/design.md 8, the token is issued at start or resume and revoked when
\* the execution leaves RUNNING: an open session of a live execution has it.
SessionKeepsToken ==
  \A w \in Workers, e \in Execs :
    run[w][e] = "session" /\ exec[e].state \in SlotStates => exec[e].token = w

=============================================================================

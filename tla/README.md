# Verification of the ticket orchestrator

The orchestrator takes Jira tickets with an approved specification, has coding
agents implement them on the machines of a team, reviews and retries their
work, and follows the pull request until it is merged. This directory holds
TLA+ modules of its core, the TLC configurations that check them, and proofs
checked by TLAPS. Paths below are relative to the repository.

## 1. Inventory

All durable state is in Postgres. Any number of worker processes
(`apps/worker`, one per host) and one API process (`apps/api`) work on the same
rows; agents are child processes that call tools of their worker over HTTP.
Every move of a task or an execution goes through `transition()`
(`packages/db/src/transition.ts`), which locks the row, looks the edge up in
the tables of `packages/core/src/transitions.ts`, writes the row and an audit
event, and throws (rolling the caller back) when the edge does not exist.

| component | state | operations | what makes it correct |
| --- | --- | --- | --- |
| state machines (`core/transitions.ts`, `db/transition.ts`) | `tasks.state`, `executions.state` | `transition` | handlers never ask for a missing edge; ended executions stay ended |
| scheduler (`worker/scheduler`) | task, execution and lease rows | promote, claim | one owner per task; slots per host; a task runs after what it depends on |
| leases, lease sweeper, dead-host release (`agent-tools/lease.ts`, `sweeper/index.ts`) | `task_leases`, `agent_workers.last_heartbeat_at`, `executions.host` | renew, list + lock + sweep, release | only an expired lease is swept; an abandoned execution is swept in the end |
| retry policy and starter (`runner/retry.ts`, `retry-starter.ts`) | retry rows `QUEUED` with `retry_of`, counters | queue retry or escalate; start a due retry | one retry per failure, within the budgets; a queued retry starts |
| runner (`runner/runner.ts`) | in memory: the live map, the stop reason, `blockingPending` | start, resume, session, end of turn, finalize | a live execution is run by the worker it is pinned to, and only there |
| agent tools (`agent-tools/`) | token hash, review rounds, issues, pull request | `report_*`, `raise_issue` | only a live execution's token is accepted; only reviewed work reaches CI |
| command queue (`runner/commands.ts`, `db/queries/runner.ts`) | `execution_commands` | insert, claim, complete, unclaim | no command is lost; each is handled by the host of its execution |
| issues and decisions (`api/routes/issues.ts`, `runner/issues.ts`) | issues, decisions, `WAITING_FOR_USER` | raise, discuss, resolve, resume | a paused execution can always go on |
| GitHub poller, CI feedback (`github/poller.ts`, `runner/ci.ts`) | `pull_requests`, CI rounds | CI passed / failed, merged, closed | verdicts are about the commit of the row; every CI failure is worked on or escalated |
| user operations (`api/routes/tasks.ts`) | task rows | cancel, reopen, retry | legal moves, whatever runs at the time |
| specification lifecycle (`api/routes/spec.ts`, `runner/spec.ts`) | revisions, spec executions, their commands | draft, review, send back, restart, approve, revise | one draft, one live spec session and only while drafting, approvals of what was seen |
| dependencies (`db/queries/dependencies.ts`) | edges between tasks | edit, block, unblock | no cycle; a task runs after what it depends on |
| Jira poller and writeback (`worker/jira`) | tasks, scope notes, a cursor over events | import, cancel, signal, comment | a ticket that left the scope does not run; each event is written back once |
| worktrees and their sweeper (`worker/worktrees`, `sweeper/worktrees.ts`) | directories, `worktree_*` columns | create, transfer, evict, restore, remove | a worktree in use is never removed |
| containers (`worker/containers`) | Docker containers, ensure marks, the watch of spec containers | ensure, remove, orphan sweep, watch | a turn has its container; one of an ended execution goes |
| realtime hub (`api/realtime`) | open streams, cursors, buffers | notify, replay, resync | every event once and in order |
| users and sessions (`api/routes/auth.ts`) | users, sessions | login, logout, disable | a disabled user has no session |
| worker process (`worker/index.ts`, `tick.ts`, `heartbeat.ts`) | timers | tick, heartbeat, shutdown | phases do not overlap; shutdown leaves nothing behind |
| adapters (`packages/adapters`) and the run loop's end of them | the session and its token counts, the tools in flight, the usage rows | start, resume, events, abort | events in order; every token billed once; every turn ends |
| web task page (`apps/web`) | the timeline, the stream's last id | load, catch up, merge live events | no hole in the timeline |
| review wrapper, prompts, pricing, administration, other views, schema | | | no protocol of their own beyond what the components above see of them |

What is hard: values read without a lock and used after an `await`; processes
that die, freeze and come back between two transactions; commands that outlive
the situation they were written for; one agent that calls its tools at any time,
also while its run is ending; failures noticed by several processes at once.
`PROJECT.json` lists these hazards with the line at which each one bites and the
properties about it, and says for every component how much of it is modelled.

## 2. Modules

The core is the life of an execution. Every other module takes one protocol
that meets it in a few rows and models that protocol in full, with the rest of
the system as an environment that may do whatever the core does to those rows.

| module | models | meets the core in |
| --- | --- | --- |
| `Transitions` | the two transition tables, as sets of rows, and the look-up of an edge | |
| `TaskOwnership`, `ExecutionLifecycle`, `MCExecutionLifecycle` | implementation executions from the approved task to the merged pull request | |
| `SpecLifecycle` | the specification: routes, spec agent, spec executions and their commands | the task row |
| `Issues` | the issues of one execution: talk, decisions, revisions | the pause of an execution |
| `Scheduling` | dependencies, promotion, slots | the claim |
| `AgentSession` | a turn: runtime, adapter, run loop, usage | the end of a turn |
| `PullRequests` | pull request and checks on GitHub, the row, the pollers | the CI verdict |
| `Worktrees` | directories and branches of a task, the sweeper | prepare and retry |
| `Containers` | agent containers of a host and what removes them | prepare and finalize |
| `EventFeed`, `TaskStream`, `TaskView` | a task's events from their insert to the page | the audit events |
| `JiraWriteback`, `JiraPoller` | the two Jira loops | audit events, the task row |

The theorems about a module `M` are in `M_proofs`, those about `TaskStream` in
`TaskView_proofs`, those about both Jira loops in `Jira_proofs`, those about
`Worktrees` and `PullRequests`, which share no state, in `Branches_proofs`, and
those about `AgentSession` and `Containers`, which share none either, in
`Runs_proofs`. The last part of a module, headed "Why ..." or "What makes ...",
has the inductive invariants its proofs use.

One action is one database transaction, or one step of a process between two
awaits; what is read without a lock is read by an earlier action and may be old
when it is used. Every module reduces the data to what its properties tell
apart. `PROJECT.json` maps each definition to the lines it stands for.

### The execution lifecycle

The durable variables are `task`, `exec`, `lease`, `pr` and `cmd` (the rows of
five tables, reduced to the columns that decide something); the memory of a
worker is `run` (the phase of each execution in the runner's live map),
`blocking` (the `blockingPending` flags), `batch` (commands claimed and not
handled) and `swept` (a candidate the sweeper has read and not locked). `Crash`
clears the memory and nothing else. Examples of the correspondence:

* `claimNextTask` is one transaction (count, candidate, insert, lease, two
  transitions), hence one action `Claim`; its hand-off to the runner only writes
  the live map and is part of it.
* `sweepExpiredLeases` lists without locks (`ListExpired`) and locks one
  candidate at a time (`SweepLease`); between them the lease may be renewed.
* `resume()` loads the execution without a lock and pins a released one
  (`BeginResume`), then reads state and pin again in its transaction
  (`CommitResume`). The refusals of the two handlers are `RefusalOfCi` and
  `RefusalOfDecision`; how a handler ends decides the command's fate (`Leave`).
* A run is `preparing` until its token is issued, `session` while the adapter
  stream is open, and `closing` until `finalize` has revoked the token.
* A tool call is accepted by its token only (`Authorized`), so an agent may call
  while its run is closing or after its worker was restarted.
* The failure policy runs in the transaction that fails the execution, so
  `Fail` moves the execution and inserts the retry or escalates in one step.

`TaskOwnership` is the abstract specification of what all this promises a task:
new work and a retry come to own it only when nothing else is engaged with it,
an owner fails for good or leaves its retry, what is over never comes back, and
what was completed comes back only when CI sent it back, which is the one return
that does not ask who else is engaged. `ExecutionLifecycle` instantiates it
(`HandsOver`) under a mapping that reads a stage off the state of each row
(`Stage`) and "sent back" off its count of CI failures; workers, leases, commands
and tokens are hidden, and their steps are stutters.

The reasons of failures are reduced to one representative per row of the failure
table, a token to the worker whose session holds it, a pull request to the
execution that reported it, an open blocking issue to a count, a review round to
its number and latest verdict. The conversations, the poller's stale reads, the
dependencies, worktrees and containers are the subject of the other modules.

### The specification

`SpecLifecycle` has the task, the status of each revision, the spec executions
and the commands that are not completed, oldest first, each with the worker that
claimed it (`Lost` when that worker crashed). Users call the routes of `spec.ts`
(`StartSession`, `SendMessage`, `RequestReview`, `SendBack`, `Approve` and so
on), the agent calls `propose_spec` and `raise_issue`, a worker starts and
resumes sessions on the commands. As in the core, `resume()` and the token check
act on a row they read before. `Peer` says that a worker outside the instance is
up and sweeps: it fails orphaned spec executions and releases dead hosts. An
implementation execution appears as far as a revision asked for by an issue
needs it. A chat message waits alone for its turn (a bound). Frozen workers are
left to `ExecutionLifecycle`.

### Issues

`Issues` follows the issues of one execution on one worker that stays up: raise,
talk, resolve as a clarification or as a revision, and the three commands these
leave. A conversation counts messages sent, heard by a turn, and replies; a
decision counts how often the agent was resumed with it. `raise_issue` does not
move the execution, whose pause comes with the end of the turn (`AfterTurn`).
`Hasty` says that users may ask for a revision while the answer to another
issue is still on its way. The worker claims a batch of all commands at a time;
a command found while a turn is in flight is given back (`Unclaim`), one whose
execution waits for nobody is skipped, and a resume refused for good
(`SessionLost`) counts as a fault. A resume that throws leaves its command claimed
for ever; that loss is in `ExecutionLifecycle`.

### Scheduling

`Scheduling` cuts the transactions that read, decide and write into a begin and a
commit, with the locks held in between: the advisory lock of the graph
(`GraphFree`: edits, approvals, promotion) and the row lock of the host
(`HostFree`: claims and retries). Two workers may share a host; a restarted one
revokes the tokens of spec turns the host left. Which startable task is taken
first is left open.

### A turn of an agent

`AgentSession` has the process of a runtime (`cli`), its adapter and the run
loop (`turn`), the stored events (`log`) and the usage rows (`usage`). The loop
pulls one event, races it against a stop, and hands writes to a queue; text is
held back until a timer or the next event flushes it. Claude reports the total
of the session per model and one cost, Codex adds up its turns; a resume passes
what was recorded as the baseline, and the adapter reports the rest. A process
may be killed before it reports. The first attempt may be retried in the same
session or in a new one. A token costs one.

### Pull requests

`PullRequests` has GitHub's side (`gh`, `checks`), the row, and per poller what
it read and what it is about to apply: `Lists`, `Asks`, `AsksChecks`, `Applies`.
Pollers outside `Steady` may stop for good at any of these. Checks of a commit
may change, a commit may have none (the grace of `pending_since`), a pull request
may be closed and the task cancelled and retried with another execution.
`attempts` has each implementation execution of the task with its rounds and its
queued `resume_with_ci_failure` commands, because `applyCiFailure` charges and
resumes the execution the poll listed, while the re-check under the lock compares
the row's id, head and state only (github.ts:68-87, ci.ts:90-108): the poll keeps
`exec`, and `MarkFailed` takes it from there. `reports` is a history: how often
`report_pr_created` was called, and the commits the row had after the reports of
each execution. `Early` says that people push to, merge or close a pull request
before its report.

### Worktrees and containers

In `Worktrees` the repository lock makes every call of the worktree manager one
step, and so does the sweeper's transaction; a crash may come between disk and
row (`CrashInRemoval`). Commits are a set, a tip is the set of commits in its
history. The runner prepares, resumes and takes over for a retry; the sweeper
applies its four rules, pushing first where the rule does (`Evict`) and checking
under the lock that row and tip are as they were (`StillIdle`). `Patient` says
that a task is reopened only once its runs have stopped: the precondition that
the manager states.

`Containers` numbers the directories made at a worktree's path, because a mount
is of the directory. The three passes that remove containers (the sweep of a
worktree, the orphan pass, the watch of spec containers) decide, take the lock of
the container, look again (`Removable`) and remove; the ensure mark tells a pass
that a run has started since. The end of a run removes the container of its own
execution (`RemoveEnded`), and so does a cancel command that finds no run
(`ReleaseCancelled`). A completed execution whose task a person has may lose its
worktree to an eviction and be resumed in a new one.

### The task stream and the task page

`EventFeed` is the abstract specification of a task's event stream: a log that
grows at its end, and subscribers that join anywhere and then receive every
event once and in order. `TaskStream` is the program that keeps that promise.
It instantiates `EventFeed` under the mapping `log <- committed`.

`TaskStream` follows an event from its insert to the tab. Writers hold the
task's event-order lock to the end of their transaction, so `AppendEvent`
waits for the previous event's `Commit` or `Rollback`; a commit sends its
notification to `channel`. The hub's `deliverInOrder` chain is `delivery`: the
loads of rows end in any order (`EventLoaded`, `EventLoadFails`), and
`DeliverNext` takes the oldest. `sync()` is cut at its awaits: `AnchorRead` and
`AnchorReturns`, `PageRead`, one `SendRow` per row with the wait for a drain,
`PageDone`. The wire is a set because a stream never writes an id below one it
has written; sizes are counted in frames, of which the ids in `Large` exceed
the cap alone. Keepalives, the dashboard stream and the ending of a disabled
user's streams are left out.

`TaskView` runs `loadAll()` and `catchUp()` beside the stream, cut where they
await, and keeps the code's rule that a newer generation silences the one in
flight. `catchUp()` therefore abandons a `loadAll()` that has not shown its pages:
older events are then never shown, which is why `NoHole` speaks of a load that
ended.

### The Jira loops

`JiraWriteback` has one cursor per worker, in memory. Reading a ticket with its
comments (`ReadTicket`) and posting (`PostComment`) are separate requests, and a
post may succeed with its answer lost. Ids are given in order, but the
event-order lock is per task, so transactions of different tasks commit in any
order. A read of the cursor or of the events that fails leaves everything as it
was and is no step.

`JiraPoller` follows one ticket and its task (a pass handles the tickets one by
one): `Search`, `Upsert`, `ListTask`, `LookUp`, and one of `ApplyScope` and
`FailNotFound`, with the ticket, the task and other pollers changing between any
two. `ActionFor` is the decision table, used once on the listed row and again
under the lock. The rest of the system moves the task along rows of the
transition table (`TaskMoves`), starts and ends executions (`ExecutionChanges`),
cancels and reopens. `approved` says that there is an approved revision and no
draft, which decides where a reopened task goes.

## 3. Runs

Each run asks one question. A property that is a conjunction has its parts
stated and commented one by one in the module; the mutants of `PROJECT.json`
break them part by part.

| run | question | states |
| --- | --- | --- |
| `lifecycle` | Do review rounds, pauses, answers, a CI failure, a human's retry, cancel and reopen, and a host taken for dead that comes back hand the task over as `TaskOwnership` says, and leave the owner its lease, unreviewed work out of CI and the task in someone's hands? | 0.72 M |
| `recovery` | Are failures noticed by late runners and two sweepers handled once and within the budgets, abandoned executions swept and retries started? | 0.12 M |
| `spec` | Is there one spec session, only while drafting and with the token of its own turn, is the reviewed text frozen, and is a send-back served? | 0.57 M |
| `issues` | Does a pause last as long as somebody has to act, does every decision reach the agent once and before the work goes to CI, and is talk answered without harm? | 0.13 M |
| `scheduling` | Do edits, approvals and promotion keep the graph acyclic and the order of the work, do claims fit the slots, and is nothing left behind? | 0.24 M |
| `agentsession` | Are tokens billed once and in full, is what a turn leaves true to it, and does every turn end? | 0.42 M |
| `pullrequests` | Are verdicts about the commit of the row and charged to an execution that had it there, is a report charged once, and does every wait end? | 0.49 M |
| `worktrees` | Does every run have its worktree alone, does the sweeper keep the commits, and do leftovers go? | 0.25 M |
| `containers` | Does a turn have its container, does a restart forget none, and does the container of an ended execution go? | 0.23 M |
| `view` | Does the program implement `EventFeed` within its memory caps, does a client catch up, and does a loaded timeline have no hole? | 0.27 M |
| `writeback` | Is every listed event handled once, and every event passed however often Jira fails? | 0.33 M |
| `jira` | Does no execution outlive an ended task, does a task that left the scope stay cancelled, and is a ticket that stays out told to its task once? | 0.27 M |

**Bounds.** `lifecycle` and `recovery` use one task, two workers and two or three
execution rows: every race modelled is between two executions of one task, or
between two workers over one execution, and a third row is needed only for a
retry of a retry. Each kind of fault has a budget, and `Together` bounds all of
them in one behaviour: `lifecycle` has any two of a frozen worker, a stale
heartbeat, a refused resume and a cancel, or one human's retry or review with
findings, which start long further work and count for two; `recovery` any three
of a crash, two expired leases, an aborted run and an error. `InOrder` leaves
out only renamings of rows. `WorkGoesOn` is stated of calm workers (`Calm`: none
has died, hung or been taken for dead, and no resume was refused for good),
because what the code then leaves to a human is not more precise than "a human",
and a crash between the claim of a command and its completion loses the command
(`answer_lost`, section 5); `lifecycle` has no crash among its faults, and section
4 says what is proved through crashes.

`spec` has two sessions and two revisions, since a restart is beside one older
session and a revision is beside the approved one, two open commands, because
what races is one command against another or against a route, and one fault.
`issues` has three issues (one talked about, one answered, one superseded).
`scheduling` has two tasks, so a cycle and a dependency, two requests and two
workers over one slot. `agentsession` has two turns and two attempts: a
resume, and a retry in the session of the first. `Habits` has an agent that
talks, one that delegates and one that spends tokens and has more turns: what is
said, the subagent and the bill are separate in the state. `pullrequests` has two
pollers, two pull requests, two commits and, by one retry, two executions: one
old and one new of each. It has `Early = FALSE`, which leaves the order of report
and push to the poll that finds the new commit.
`worktrees` has two rows and two commits: one pushed and one not. `containers`
has one execution (locks, marks and candidates are per execution), three
directories at its path and three ensures. `view` has three events and pages of
one row, a cap of one frame with one event above it, and one fault. `writeback`
needs two tasks (commit order is only per task), a batch below the number of
events and two attempts. `jira` has one poller, because `NoRepeat` holds of one
only, and a ticket that changes three times: out, back and out again; that any
number of pollers keep the other properties is proved (section 4).

These instances were also checked and hold; the fair specifications without
fairness, for the safety properties:

* `lifecycle` with a human's retry as the only fault and `MaxCommands = 3`; `recovery` with
  `MaxProtocolRetries = 1` and `Together = 2`;
* `issues` with `MaxMessages = 2` (1.29 M states); `scheduling` with
  `MaxUserMoves = 2`; `agentsession` with `MaxTurns = 3` (7.2 M);
* `pullrequests` with `Early = TRUE` (0.68 M), without its liveness;
* `worktrees` with `MaxRows = 3` and `MaxCommits = 1` (2.1 M); `containers` with
  two executions, `MaxTrees = 1`, `MaxEnsures = 2` and no crash (4.4 M);
* `TaskStream` alone with `MaxFaults = 3`, with its liveness;
* `lifecycle` with `FollowsTables`, that no handler asks `transition()` for a move
  the tables do not have;
* every run with the inductive invariants of section 4 as invariants.

`CHECK_DEADLOCK FALSE` is set because a model whose task is merged or cancelled,
or whose events, commits and changes are spent, rightly stops. Symmetry of the
workers is used in `lifecycle` (no expression orders them, and it checks no
liveness) and nowhere else.

**Fairness** is assumed of what a timer or an awaited promise makes happen, and
never of users, agents, GitHub's content, or a worker that is down.

* `recovery`: a tick phase, the retry loop and the clean-up of a run that has
  lost its lease happen again and again in a worker that is up: `ListExpired`,
  `SweepLease`, `Claim`, `StartRetry`, `Gone` and `Finalize` are weakly fair per
  worker and row. Weak fairness of `StartRetry` is justified because the retry
  starter takes the oldest startable retry and there is one retry row at a time
  per task.
* `spec`: the consume phase runs again and again, a run goes on by itself up to
  the turn of the agent, and the poll of a turn looks at the row.
* `issues`: the tick comes again, and a run whose turn is over goes on.
* `scheduling`: an open transaction ends, a worker that stopped is started again,
  and ticks reach every candidate though its row may be locked again and again
  (strong fairness of `PromoteBegins`).
* `agentsession`: the loop and its queue go on, the timers and polls of a turn
  fire. The process owes nothing: it may be silent for ever or talk for ever.
* `pullrequests`: the pollers in `Steady` run every minute, and GitHub does not
  fail every time it is asked (strong fairness of the two requests).
* `worktrees`, `containers`: a pass visits every candidate; git and docker do not
  fail for ever (strong fairness of the removals, and of the recreation of an
  evicted worktree).
* `view`: queries return, the LISTEN connection is re-established (its retry
  loop never gives up), and an open tab reads its socket and reconnects (the
  hook's timer). No writer has to append and failures are bounded.
* `writeback`: a timer starts the loop and every request answers or fails; it may
  fail every time. A restart starts the cursor anew, and `NeverStalled` begins
  again with the new cursor.
* `jira`: the timer starts passes and a pass goes on; failures are bounded.

## 4. Proofs

Every theorem holds for all values of the constants that the module's `ASSUME`
allows: bounds and limits are naturals (a page, a batch, a cap, a pool of slots
at least one), a null value is no member of the set it is missing from, and the
sets that are counted are finite. Sets of tasks, workers, executions, pollers
and clients may have any size. A theorem with a condition of its own names it.

| module | theorem | property | inductive invariant |
| --- | --- | --- | --- |
| `ExecutionLifecycle_proofs` | `TypeCorrect` | `[]TypeOK` | `TypeOK` |
| | `OwnershipIsImplemented` | `HandsOver` | `OwnerInv`, `GateInv`, `Blank` |
| | `EndIsFinal`, `SweepIsFenced` | `EndedIsFinal`, `SweptOnlyExpired` | `TypeOK` |
| | `LeaseCovers`, `OnlyOneOwner` | `[]LeaseCoversOwner`, `[]OneOwner` | `OwnerInv` |
| | `RetryIsUnique` | `[]RetriedOnce` | `RetryInv` |
| | `OnlyHolderActs` | `[]HolderActsAlone` | `HolderInv` |
| | `GateHolds` | `[]ReviewGate` | `GateInv` |
| | `TablesAreFollowed` | `FollowsTables` | `TypeOK` |
| | `RetriesAreBounded` | `[]RetryBudget` | `BudgetInv` |
| | `WorkIsPassedOn` (`NoneStale`) | `[]SomeoneWorks` | `WorkInv` |
| | `PausesHaveWayOut` (`NoneStale`, `HandlersFinish`) | `[]PausedHasWayOut` | `WayOutInv` |
| | `WorkAlwaysGoesOn` | `[]WorkGoesOn` | `CalmInv` |
| `SpecLifecycle_proofs` | `SessionsFit`, `OneReviewedText` | `[]SessionFits`, `[]RevisionsFit` | `DraftInv` |
| `Issues_proofs` | `PausesAreKept`, `DecisionsAreCarried` (`~Hasty`) | `[]PauseIsKept`, `[]DecisionsCarry` | `PauseInv` |
| | `TalkIsFree` | `RepliesFollow`, `TalkNeverFails` | `TalkInv` |
| `Scheduling_proofs` | `ClaimsFitTheSlots` | `[]SlotsHold` | `SlotInv` |
| | `PromotedWhenDone` | `ReadyWhenDone` | `Locked` |
| | `DependenciesAreKept` | `DependenciesHold` | `GraphInv` |
| `Branches_proofs` | `RowsFit` | `[]RowFits` | `VerdictsFit` |
| | `VerdictsAreOfTheHead` (`~SameHead`) | `VerdictOfHead` | `VerdictsFit` |
| | `PathsAlwaysFit`, `SessionsKeepTheirTrees` | `[]PathsFit`, `[]HasItsTree` | `PathsFit`, both |
| | `TreesAlwaysFit` (`Patient`) | `[]TreesFit` | `TreesInv` |
| | `WorkIsAlwaysKept` (`Patient`) | `[]SweepKeepsWork` | `TreesInv` |
| `Runs_proofs` | `TurnsAreTyped` | `[]RunInv` | `RunInv` |
| | `TurnsAreKept` | `[]TurnIsKept` | `KeptInv` |
| | `BilledOnceAndInFull` | `[]Billing` | `BillInv` |
| | `ContainersFit` | `[]BoxesFit` | `BoxInv` |
| `TaskView_proofs` | `MemoryIsBounded`, `NothingIsOwed` | `[]MemoryFits`, `[]IdleIsCaughtUp` | `StreamInv` |
| | `StreamsImplementTheFeed` | `ImplementsFeed` | `StreamInv` |
| | `NothingIsMissing` | `[]NothingMissing` | `StreamInv`, `ViewInv` |
| `Jira_proofs` | `TypeCorrect`, `NothingRunsAfterTheEnd` | `[]TypeOK`, `[]EndedRunsNothing` | both |
| | `OutStaysCancelled`, `SignalIsNews` | `StaysCancelled`, `OneSignal` | `TypeOK` |
| | `OnePollerDoesNotRepeat` (one poller) | `[]NoRepeat` | `SignalsFit` |
| | `EveryEventIsHandled` | `[]ListedIsHandled` | `LoopsFit` |
| | `OneWorkerPostsOnce` (one worker) | `[]HandledOnce` | `LoopsFit`, `PostsTheFirst` |

Few of these properties are inductive; the strengthenings are definitions of
the modules, and TLC checked each as an invariant before it was proved.

**Executions.** The first layer of the proof says once what any step may do to
the execution rows (`ExecStep`): it inserts a row, updates one without changing
what it is a retry of, fails one from a lease state, starts one with the lease
of its task, or brings a paused or completed one back. A lemma per group of
actions shows that each action is such a step, and the invariants follow from
that law.
`LeaseCoversOwner` excludes by `ci = 0` an execution that CI brought back, so
the invariant must know that a queued CI command is about an execution with
`ci > 0` (`CiCommands`), hence that the row of a pull request names an execution
that exists (`PrUsed`). `RetriedOnce` needs that what a retry names has failed
(`OfFailed`): then a step that fails an execution fails one no retry names yet.
`HolderActsAlone` needs `HoldersPinned`, which follows a run past the completion
of its execution, when the row may be released from a dead host. `ReviewGate`
has to exclude that a second CI failure of one piece of work enters CI again:
at most one CI command is open for an execution, which rests `COMPLETED` and has
left the states the gate guards (`CiOncePerWork`), and a worker handles only
what it has claimed (`BatchHeld`).
`OwnershipIsImplemented` takes the actions one by one: those that claim, start,
fail, complete, send back, resume or cancel are each one step of `TaskOwnership`,
the others are none (`RolesKept`). Two of them need an invariant of the rows they
do not lock together: CI sends back what was completed (`ReviewGate`), and what
a CI command resumes has been sent back (`CiCommands`). `Stage` takes `FAILED`
and `CANCELLED` for one, which `EndIsFinal` tells apart.
`FollowsTables` needs no more than the type: every handler asks for the state
it moves from in the transaction that writes it. `RetryBudget` counts rows over
a whole behaviour. The rows of a task fall into lines, each begun by a claim
from `READY` (`Lines`): only the last row of a line can be retried, and it has
counted the infrastructure retries of its line, so the row a line began with and
that count tell every such retry from the others. A protocol retry names a
violation of its own among those the policy counts (`ProtocolRetriesFit`).

The two parts of `WorkGoesOn` are theorems under conditions that say more
exactly than the run's `Calm` what each part needs. `SomeoneWorks` needs only
that no worker is taken for dead (`NoneStale`): crashes, refused resumes,
aborted runs and cancels are all allowed (section 5 has an exception, which
that module leaves to `PullRequests`). Then what has run on a worker stays
pinned to it (`StaysPinned`), so a handler that refuses a CI failure leaves it
in the queue or claimed until the execution runs again (`OpenLaw`), and every
end of an execution takes the task to a human or leaves a retry (`PassedOn`).
`PausedHasWayOut` needs besides that no worker dies, and no resume is refused
for good, between the claim of a command and the end of its handler
(`HandlersFinish`); `answer_lost.cfg` shows an answer lost otherwise. The flag that
makes a turn end as a pause is up only while a blocking issue is open
(`FlagFits`), which holds because a run belongs to the worker its row is pinned
to until it is finalized (`RunsPinned`).
`WorkAlwaysGoesOn` joins the two for the specification the runs check, which
counts faults: a step that takes a worker down, has one taken for dead or refuses
a resume for good has spent its budget (`StepsSpend`), so no step of calm workers
is one (`CalmStep`), the conditions of both parts hold, and `CountingIsSpec` says
that counting adds no behaviour to the specification that is counted.

**Specification.** `DraftInv` adds to the two properties what each run of a
worker knows of its session (`RunFits`): it is pinned to that worker, and one
about to resume read a state its handler accepts. Queued commands need no
invariant of their own, because every handler asks for the task's state again in
its transaction.

**Issues.** `TalkInv` holds without a condition: messages are heard as often as
their commands are carried out (`HeardOnce`), a decision on its way has not been
told and is the only one about its issue (`ToldNext`), and a turn owes one
answer to what it heard (`TalkFits`). `PauseInv` adds `RevisionFirst`: from the
resolution as a revision until the approval nothing on its way could resume the
execution, and then one command does. That needs `~Hasty`: with `Hasty` users ask for
a revision while another answer is queued, and `issues_hasty.cfg` shows both
properties to fail then.

**Scheduling.** `Locked` says which transaction holds which lock, that it holds
it alone, and that what it read under the lock is still so (`StillSo`). Slots
are counted by cardinality: a claim adds one where it found one free
(`SlotIsFree`). For the graph, the search of the code is a function defined by
recursion on the length of a path; the proof shows that what it reaches in as
many rounds as there are tasks is closed, and the least such set
(`ReachedIsClosed`, `ReachedIsLeast`), so edges whose search did not come back
to the task close no cycle (`StaysAcyclic`). The search stands until its edges
are written, because the graph lock is held (`SearchStands`).

**Pull requests.** The rounds charged are a finite set (`Charges`), counted by
cardinality. A charge adds one, of whichever execution, and needs a task that
waits for CI; to wait again takes a report, which adds one on the other side. So
the rounds stay below the reports while a verdict is waited for (`RoundsCounted`),
whoever is charged. `PollFits` keeps that the execution a poll listed had the
listed commit in the row, which the guard carries over to the row of the moment.
A verdict is applied from what a poller read some time ago, and the guard compares
commits. That is enough if a commit names one pull
request: `PullsInOrder` says that the later one has later commits, and
`PollFits` what each kind of stale poll still implies. With `SameHead` a commit
may belong to two pull requests, and the theorem's condition is what the code
relies on.

**Worktrees.** The argument has two halves. Where the directories are named
needs no condition: `PathsFit` says that a row names another execution's
directory only if that one has failed and has no run (`TakenOver`,
`FailedRests`). A takeover clears the older row in its transaction, so no two
rows name one directory (`OneOwner`), and `HasItsTree` follows, because a sweep
looks at the state of the row it holds. As for the executions of
the core, one law (`Moved`) says what a step may do to a row.
Who has the branch needs `Patient`: only the latest execution of the task can
still get it (`EngagedFits`), who works was asked nothing (`AskedRest`), and an
execution that is being started neither waits nor is completed
(`StartingFits`), so no second run prepares. Hence the branch is where the
latest execution looks for it (`BranchIsLatest`), and whenever a preparation
starts from the remote nothing is lost by it: all that was kept is there, or the
directory is still on disk (`NothingToLose`). The tip the sweeper saw pushed
stays pushed (`TipPushed`), which is what makes the second half of an eviction
safe. Without `Patient` `WorksOnItsBranch` fails (section 5).

**Turns.** `RunInv` has the types and the phases of a turn: the process runs only
while the loop reads, and its usage and its end are the last things read. On it
rest two invariants. `KeptInv` is about what is said. The log, the writes in the
queue, the text in the buffer and the events still in the pipe follow one another
(`OrderFits`), and together they have everything the agent said unless a write
failed or the turn was stopped (`NothingLost`). The last event about the subagent
that is still to be read tells whether it is in the background, and when there is
none the adapter knows (`TracksFit`). Only the execution of the turn is `RUNNING`,
and not when its runner was told that it is gone or cancelled (`OnlyTurnRuns`).
`BillInv` is about what it costs. At most one usage write waits, and the loop
waits for it (`OneUsageWaits`), so a baseline is never read beside one. What is
still to be read are totals of the session, each model once and the cost once
(`UsageFits`). Whose rows make up the baseline is `SessionFits`. Then per model, and
for the cost, `Fits` holds of what was reported, what waits and the total of the
session: the first two never exceed it; while more is to come the adapter still
has to subtract exactly what was reported; and when all was read they make up the
total. That is why a turn killed before it reports does no harm: the next one
subtracts less. A token costs one and a cost is the cardinality of the set of tokens
of all models (`Total`), so the proof adds up sets and needs no sum over models.

**Containers.** While a removal holds the lock of a container no run of its
execution has come past the ensure (`RemovalIsAlone`); every spec container is
watched or its removal is due, under way or failed (`WatchedOrDue`).

**Stream and page.** `StreamInv` says of every stream that what it has not sent
it has read, buffered or will be told of (`StreamFits`), and that its unsent
output is the piece of the log right after what the client has (`SegmentFits`).
`ImplementsFeed` is proved action by action: a commit maps to `Extend`, an
event that reaches the client to `Deliver`, everything else to a stutter.
`NothingIsMissing` joins it with what the page has read (`LoadFits`) and shown
(`SeenFits`).
`StreamsImplementTheFeedBelow` and `MemoryIsBoundedBelow` state the same of the
specification with the page, which is the one the run checks.

**Jira.** The poller's `TypeOK` carries the strengthening: a pass that ends
forgets what it read, a pass about to apply has a scope, and one that has listed
the task's row knows that there is a task. `NoRepeat` counts over a whole behaviour:
what was signalled, what the present pass may still signal and what the next one
then may come to no more than the changes of the ticket (`SignalsFit`). A ticket
that the search missed and the status request then finds in the JQL is judged wrongly,
but it has changed in between, and that change pays for the signal. For the writeback, what is left of a
batch is the part of the listed events right above the cursor (`LoopFits`). One
comment per kind needs that a ticket read without the comment has none until it
is posted (`PostsTheFirst`), which is so for one worker only
(`writeback_pair.cfg`).

**Only model-checked.** The liveness properties, since liveness under fairness
is outside the prover's reach: `FailureRecovers` (but for its part
`RetryBudget`), `SentBackIsServed`, `AnswerIsHeard` (the third part of
`TalkIsServed`), `NothingIsLeft`, `EveryTurnEnds`, `WaitEnds`, `LeftoversGo`,
`EndedGoes`, `CatchesUp`, `NeverStalled`, `OutIsTold` (the other part of
`OutIsToldOnce`). Every invariant and every action property the runs check is a
theorem.

## 5. What the documents say and the code does not do

These configurations check a sentence of the repository's documents or comments
and end in a counterexample. They are kept beside the runs, to be run by hand
(`tlc -config late_finalize.cfg MCExecutionLifecycle`); the comment on the
property each one checks quotes the sentence.

`MCExecutionLifecycle`:

* `two_active`: a `resume_with_ci_failure` command survives the cancel and the
  reopen of its task, and resumes the old execution beside the new one.
* `ci_while_live`: CI fails before the run that opened the pull request is
  finalized; `ALREADY_LIVE` is thrown and the command stays claimed for ever.
* `late_finalize`: `finalize` revokes the token whatever run issued it.
* `answer_lost`: a crash between claim and completion of a command loses it.
* `no_lease`: an execution resumed by CI whose lease row was taken over is not
  seen by the lease sweeper.

`SpecLifecycle`:

* `spec_released`: after the dead-host release of a live session, restart is
  refused because the session is still live (routes/spec.ts:189).
* `spec_starting`: a session whose start is never handled keeps review refused
  as "still starting" (routes/spec.ts:446-450).

`Issues`:

* `issues_hasty`: a revision asked for while the answer to another issue is
  queued: the answer resumes the execution in the middle of the revision, and
  it goes on without being told of what was approved (design.md 10.4).
* `issues_talk`: a message on a non-blocking issue resumes an execution that does
  not return to `WAITING_FOR_USER` and may fail (design.md 10.2).
* `issues_left`: an execution that ended leaves its blocking issue open, and
  nobody can answer it.

`Scheduling`:

* `scheduling_blocked`: no code fires `BLOCKED -> READY` when the dependency is
  resolved (design.md:513).
* `scheduling_capacity`: resumed executions exceed `max_concurrent`, not only spec
  turns (comment of `holdsCapacity`).

`AgentSession`:

* `agentsession_twice`: a further resume of an execution that took over its
  session counts only its own rows as the baseline, and bills the tokens of the
  attempt before it again (queries/runner.ts, `sumSessionUsageByModel`).

`PullRequests`:

* `pullrequests` with `SameHead = TRUE`: with a second pull request for the commit
  of the first, a decision about the one is applied to the other.
* `pullrequests_claims`, with one of its three properties left in:
  * `ReadyIsGreen`: a task stays ready for merge, or becomes so, on a commit
    whose checks are red or are still to come (design.md 11.2).
  * `PaidByItsOwn`: a poll lists the row of one execution; the task is cancelled
    and retried, and the new execution reports the same commit; the poll then
    charges and resumes the execution it listed, since nobody compares
    `execution_id` (poller.ts:253-263, ci.ts:117-121 and 166-173; "CI
    feedback resumes the same execution", design.md 5.2).
  * `FailureIsWorkedOn`: if that execution was cancelled meanwhile, the handler
    skips its command, and the task stays `IMPLEMENTING` with nobody on it.

`Worktrees` and `Containers`:

* `worktrees_lost`: a retry that starts afresh gives up commits nobody tried to
  push (comment at runner.ts:1663).
* `worktrees_leak`: a setup that failed, or a crash before the row is written,
  leaves a directory that no row names and no rule removes (design.md 6.6).
* `worktrees` with `Patient = FALSE`: a task cancelled, reopened and claimed
  while the cancelled run still prepares takes the branch from it; the
  precondition of the manager (manager.ts:402) is not established by its caller.
* `containers_mount`: a container outlives the eviction of its worktree, and the
  next turn works in a directory that is gone (design.md 9.9).

`TaskStream` (`stream_cold`) and `TaskView` (`view_open`):

* `stream_cold`: a stream lost before its first event leaves no cursor, and the
  next one starts after the events committed meanwhile.
* `view_open`: an event committed between the last page of the load and the
  anchor of the stream is in neither.
  A reopening without a cursor has the same window (`CatchUpRecovers`, checked in
  the place of `OpenLosesNothing`).

`JiraWriteback` and `JiraPoller`:

* `writeback_pair`: two workers read the ticket before either has posted, and
  both comment.
* `writeback_order`: an event of a slow transaction becomes visible below the
  cursor and is never commented on.
* `jira` with `Pollers = {p1, p2}`, `MaxChanges = 1`, `MaxFailures = 0` and the
  invariant `NoRepeat`: a stale search result of a second poller undoes a signal,
  and the next pass repeats it.
* `jira_again`: a return to scope is not recorded in a spec state, so a later
  closing is taken for the one already signalled.

`writeback_pair` and `NoRepeat` need two workers. design.md puts several
worker hosts outside the first release, but the comments in question
(writeback.ts, jira.ts) speak of concurrent workers and polls.

`FailureIsWorkedOn` is an exception to `SomeoneWorks` of `ExecutionLifecycle`, whose
`CiFailed` reads the row of the pull request when it applies the failure: what
that module shows of CI holds while no poll is older than the execution of the row.

Met while modelling and not checked by a configuration: a CI failure of an
execution released from a dead host is skipped instead of resumed in a fresh
session; a ticket reopened between the search and the status request is judged to
have left the JQL, which it never did; a fresh session that
replaces another is billed for less than it used; the usage of a failed Codex
turn is recorded with the next completed one only; the budget is not looked at
again before the next turn of a resumed execution; rule 2 of the worktree
sweeper removes a failed attempt's worktree without a push; a spec execution
left ASSIGNED by a worker that is back before its heartbeat is stale is never
failed; a second process of a host revokes the token of a spec turn the first
is in.

The passing properties are stated so that they hold with these behaviours in the
model: `LeaseCoversOwner` and `OneOwner` speak of executions that no CI failure
brought back, `SomeoneWorks` counts a command that is claimed, `Owed` a command
that is not lost, `ClaimsFit` what was claimed and not resumed, `BilledOnce` the
turns it names, `SweepKeepsWork` what no fresh attempt gave up, `EventFeed`
begins with the first event a subscriber receives, `NoHole` with a load that
reached the stream's start, and `OneComment` and `NoRepeat` are checked with one
worker.

## 6. Not modelled

* The match of a candidate task to a worker (capability, runtime, container
  mode, worktree limit) and the order of candidates; the backoff of retries (a
  queued retry may start at any time after it was queued, which includes every
  delay).
* The stop of all runs at a shutdown and the overlap rule of the tick loop; the
  clones of deleted repositories and tasks without a repository; the network of
  containers and the commands run in them; the exit grace of Codex and unpriced
  models.
* The dashboard stream, which has no replay and promises none; keepalives.
* Users and login sessions, administration, cost reports, notifications and
  board queries: single transactions or reads, with no protocol of their own.
* Prompts, the parsing of review findings, the schema, the rest of the web user
  interface: text, declarations and presentation.

`PROJECT.json` says so part by part.

## 7. Plan

The plan of the project is carried out. What could be added is a model of what
section 6 leaves out, first the stop of all runs at a shutdown.

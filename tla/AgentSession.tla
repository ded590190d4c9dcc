----------------------------- MODULE AgentSession -----------------------------
(***************************************************************************)
(* The turns of an agent: the process of a runtime, the adapter that turns *)
(* its output into events, the run loop of the worker that records them,   *)
(* and what the execution is when the turn is over.                        *)
(*                                                                         *)
(* The loop takes one event at a time and races it against a stop, which   *)
(* timers, polls, a cancel, a refused write and the budget ask for.  What  *)
(* it writes goes through a queue, one write after another; text is held   *)
(* in a buffer until a timer or the next event writes it.  The runtime     *)
(* counts tokens per session, over all its turns, and may be killed before *)
(* it reports them; the worker passes what it has recorded so far to the   *)
(* adapter, which reports the rest.  The first execution may fail and be   *)
(* retried once, in the same session or in a new one.  A token costs one.  *)
(***************************************************************************)
EXTENDS Naturals, Sequences, FiniteSets, Functions

CONSTANTS Roles, Runtimes, \* what the execution may be
          Habits,          \* what its agent may do: each a set of "talks",
                           \* "delegates" and "spends" (tokens, in more than one turn)
          NModels,         \* the models a Claude session uses; Codex uses the first
          MaxBudget,       \* projects.max_budget_usd
          MaxTurns, MaxSaid, MaxWork, \* bounds: turns; items or tokens of a turn
          MaxAhead,        \* bound on the output not yet read
          MaxFaults        \* bound on the writes of a run that fail

ASSUME AgentSessionAssumption ==
  /\ Roles \subseteq {"spec", "implementation"} /\ Runtimes \subseteq {"claude", "codex"}
  /\ Habits \subseteq SUBSET {"talks", "delegates", "spends"}
  /\ {NModels, MaxTurns} \subseteq Nat \ {0}
  /\ {MaxBudget, MaxSaid, MaxWork, MaxAhead, MaxFaults} \subseteq Nat

VARIABLES role, runtime, \* executions.role, executions.runtime
          exec,    \* per attempt: state, session_id; history: whose the session is
          usage,   \* execution_usage of the attempt: main and resume rows per model and
                   \* their cost, and the tokens of its review rows
          counted, \* the runtime: tokens of a session, per model
          turn,    \* the run: what runSession and the adapter of its turn hold
          cli,     \* the process: running, output not yet read, items and tokens so
                   \* far, its subagent
          log,     \* execution_events of the turn
          bounds   \* bounds: turns and failed writes so far, and the habits of the agent

kinds == <<role, runtime>>
vars  == <<kinds, exec, usage, counted, turn, cli, log, bounds>>

Attempts == 1 .. 2
Models   == 1 .. NModels
Sessions == 1 .. MaxTurns
Zero     == [m \in Models |-> 0]
Live     == {"ASSIGNED", "RUNNING"}
Ended    == {"COMPLETED", "FAILED", "CANCELLED"}
Message  == MaxSaid + 1

\* A token costs one: the tokens of a session, and what they cost
Tokens(f) == UNION {{m} \X (1 .. f[m]) : m \in Models}
Total(f) == Cardinality(Tokens(f))
Least(a, b) == IF a < b THEN a ELSE b
Current == IF exec[2].st = "NONE" THEN 1 ELSE 2
InTurn  == turn.pc # "none"
Open    == turn.pc \in {"pull", "await"}
Killed_Ignored(c) == c
Killed(c) == [c EXCEPT !.on = FALSE]

NoTurn == [pc |-> "none", e |-> 1, s |-> 1, fresh |-> FALSE, left |-> Zero, pool |-> 0,
           stop |-> "none", end |-> "none", buffer |-> <<>>, queue |-> <<>>,
           spoke |-> FALSE, blocking |-> FALSE, tracked |-> FALSE, lost |-> FALSE]
NoProcess == [on |-> FALSE, pipe |-> <<>>, said |-> 0, worked |-> 0, sub |-> "none"]

-----------------------------------------------------------------------------
(* A turn begins                                                           *)

\* The new turn of e, in session s, which has reported `base` and `paid` before.
Begin(e, s, fresh, base, paid) ==
  /\ ~InTurn /\ bounds.turns < (IF "spends" \in bounds.habits THEN MaxTurns ELSE 1)
  /\ turn' = [NoTurn EXCEPT !.pc = "opening", !.e = e, !.s = s, !.fresh = fresh,
                            !.left = base, !.pool = paid]
  /\ bounds' = [bounds EXCEPT !.turns = @ + 1]
  /\ cli' = NoProcess /\ log' = <<>>

\* The session a turn opens that resumes none
NewSession == bounds.turns + 1

\* startBody, startSpecBody: an ASSIGNED execution, once, its worktree prepared
Starts(e) ==
  /\ exec[e].st = "ASSIGNED" /\ exec[e].whose = "none"
  /\ exec' = [exec EXCEPT ![e].whose = "own"]
  /\ Begin(e, NewSession, FALSE, Zero, 0)
  /\ UNCHANGED <<kinds, usage, counted>>

\* What the session of e has already reported: its main and resume rows
Baseline_WithReviews(e) == [usage[e].main EXCEPT ![1] = @ + usage[e].review]
Baseline(e) == usage[e].main

\* resumeRetry: the retry runs on in the session of the failed attempt.
TakesOver ==
  /\ exec[2].st = "ASSIGNED" /\ exec[2].whose = "none" /\ exec[1].session # 0
  /\ exec' = [exec EXCEPT ![2] = [st |-> "RUNNING", session |-> exec[1].session, whose |-> "taken"]]
  /\ Begin(2, exec[1].session, FALSE, Baseline(1), usage[1].cost)
  /\ UNCHANGED <<kinds, usage, counted>>

\* resume: WAITING_FOR_USER, COMPLETED, and for a spec execution RUNNING
Resumable(e) ==
  \/ exec[e].st \in {"WAITING", "COMPLETED"}
  \/ role = "spec" /\ exec[e].st = "RUNNING"

\* canResume: a session without its transcript is not found, but the transcript may be
\* gone at any time.
CanResume(e) == exec[e].session # 0

Resumes(e) ==
  /\ Resumable(e) /\ CanResume(e)
  /\ exec' = [exec EXCEPT ![e].st = "RUNNING",
                          ![e].whose = IF @ = "taken" THEN "shared" ELSE @]
  /\ Begin(e, exec[e].session, FALSE, Baseline(e), usage[e].cost)
  /\ UNCHANGED <<kinds, usage, counted>>

\* resume: canResume finds no session, and an implementation starts another.
StartsAfresh(e) ==
  /\ Resumable(e) /\ role = "implementation"
  /\ exec' = [exec EXCEPT ![e].st = "RUNNING", ![e].whose = "replaced"]
  /\ Begin(e, NewSession, TRUE, Zero, 0)
  /\ UNCHANGED <<kinds, usage, counted>>

\* #run, runQuery: the process of the turn first says in which session it is.
Spawned == [NoProcess EXCEPT !.on = TRUE, !.pipe = <<[t |-> "session"]>>]

\* issueRunToken: no token, and no process, for an execution that is not live
Opens ==
  /\ turn.pc = "opening"
  /\ IF exec[turn.e].st \in Live
     THEN /\ turn' = [turn EXCEPT !.pc = "pull"]
          /\ cli' = Spawned
     ELSE turn' = NoTurn /\ cli' = NoProcess
  /\ UNCHANGED <<kinds, exec, usage, counted, log, bounds>>

-----------------------------------------------------------------------------
(* The process.  Its output is read in order; it runs ahead of the worker  *)
(* by a bounded amount.                                                    *)

Emits(t) ==
  /\ cli.on /\ Len(cli.pipe) < MaxAhead /\ cli.said < MaxSaid /\ "talks" \in bounds.habits
  /\ cli' = [cli EXCEPT !.said = @ + 1, !.pipe = Append(@, [t |-> t, n |-> cli.said + 1])]
  /\ UNCHANGED <<kinds, exec, usage, counted, turn, log, bounds>>

\* mapMessage, mapItem: text, and calls of tools that agent-tools does not record
ClaudeSays == runtime = "claude" /\ \E t \in {"text", "call"} : Emits(t)
CodexSays  == runtime = "codex" /\ \E t \in {"text", "call"} : Emits(t)

\* The result of a tool, which only Claude reports.  Nothing bounds how many a turn has.
Chats ==
  /\ runtime = "claude" /\ cli.on /\ cli.pipe = <<>>
  /\ cli' = [cli EXCEPT !.pipe = <<[t |-> "result"]>>]
  /\ UNCHANGED <<kinds, exec, usage, counted, turn, log, bounds>>

\* The runtime calls a model.
Works(m) ==
  /\ cli.on /\ cli.worked < MaxWork /\ "spends" \in bounds.habits /\ (runtime = "codex" => m = 1)
  /\ cli' = [cli EXCEPT !.worked = @ + 1]
  /\ counted' = [counted EXCEPT ![turn.s][m] = @ + 1]
  /\ UNCHANGED <<kinds, exec, usage, turn, log, bounds>>

\* Claude starts a subagent, in the background or not, which may be denied, ...
Spawns(bg) ==
  /\ runtime = "claude" /\ cli.on /\ Len(cli.pipe) < MaxAhead /\ cli.said < MaxSaid /\ "delegates" \in bounds.habits /\ cli.sub = "none"
  /\ cli' = [cli EXCEPT !.said = @ + 1, !.sub = IF bg THEN "askedbg" ELSE "asked",
                        !.pipe = Append(@, [t |-> "spawn", n |-> cli.said + 1, bg |-> bg])]
  /\ UNCHANGED <<kinds, exec, usage, counted, turn, log, bounds>>

\* ... started, moved to the background, and settled.
SubagentMoves(t, from, to, bg) ==
  /\ cli.on /\ Len(cli.pipe) < MaxAhead /\ cli.sub \in from
  /\ cli' = [cli EXCEPT !.sub = to, !.pipe = Append(@, [t |-> t, bg |-> bg])]
  /\ UNCHANGED <<kinds, exec, usage, counted, turn, log, bounds>>

Subagent ==
  \/ SubagentMoves("denied", {"asked", "askedbg"}, "over", FALSE)
  \/ SubagentMoves("started", {"asked"}, "fg", FALSE)
  \/ SubagentMoves("started", {"asked", "askedbg"}, "bg", TRUE)
  \/ SubagentMoves("updated", {"fg"}, "bg", TRUE)
  \/ SubagentMoves("settled", {"fg", "bg"}, "over", FALSE)

\* usageEvents: the totals of the session, per model in the order the result has them;
\* the cost of the whole query is on the first
Used == {m \in Models : counted[turn.s][m] > 0}
ClaudeUsage(order) ==
  [i \in 1 .. Len(order) |->
     [t |-> "usage", m |-> order[i], n |-> counted[turn.s][order[i]],
      c |-> IF i = 1 THEN Total(counted[turn.s]) ELSE 0]]

\* mapResult: the result of a turn carries its usage also when it is an error.
ClaudeFinishes(ok) ==
  /\ runtime = "claude" /\ cli.on
  /\ \E order \in Bijection(1 .. Cardinality(Used), Used) :
       cli' = [cli EXCEPT !.on = FALSE,
         !.pipe = @ \o ClaudeUsage(order) \o <<[t |-> IF ok THEN "done" ELSE "error"]>>]
  /\ UNCHANGED <<kinds, exec, usage, counted, turn, log, bounds>>

\* usageEvent: one model, and no cost
CodexUsage == <<[t |-> "usage", m |-> 1, n |-> counted[turn.s][1], c |-> 0]>>

\* turn.completed, and turn.failed, which carries no usage
CodexFinishes(ok) ==
  /\ runtime = "codex" /\ cli.on
  /\ cli' = [cli EXCEPT !.on = FALSE,
       !.pipe = @ \o (IF ok THEN CodexUsage \o <<[t |-> "done"]>> ELSE <<[t |-> "error"]>>)]
  /\ UNCHANGED <<kinds, exec, usage, counted, turn, log, bounds>>

\* runQuery: the SDK throws, or its stream ends with no result.
ClaudeCrashes ==
  /\ runtime = "claude" /\ cli.on
  /\ \E t \in {"error", "eof"} : cli' = [cli EXCEPT !.on = FALSE, !.pipe = Append(@, [t |-> t])]
  /\ UNCHANGED <<kinds, exec, usage, counted, turn, log, bounds>>

\* runCodex: output that ends without a turn end is a crash, whatever the exit code.
CodexCrashes ==
  /\ runtime = "codex" /\ cli.on
  /\ cli' = [cli EXCEPT !.on = FALSE, !.pipe = Append(@, [t |-> "error"])]
  /\ UNCHANGED <<kinds, exec, usage, counted, turn, log, bounds>>

-----------------------------------------------------------------------------
(* The tools of the agent, and people                                      *)

\* raise_issue, blocking: the execution waits only when the turn is over.
RaisesIssue ==
  /\ role = "implementation" /\ cli.on /\ exec[turn.e].st = "RUNNING" /\ ~turn.blocking
  /\ turn' = [turn EXCEPT !.blocking = TRUE]
  /\ UNCHANGED <<kinds, exec, usage, counted, cli, log, bounds>>

\* report_pr_created, report_failed
Reports(st) ==
  /\ role = "implementation" /\ cli.on /\ exec[turn.e].st = "RUNNING"
  /\ exec' = [exec EXCEPT ![turn.e].st = st]
  /\ UNCHANGED <<kinds, usage, counted, turn, cli, log, bounds>>

\* report_usage: the tokens of a review are the execution's, and not of its session.
WithReview(e) == [usage EXCEPT ![e].review = 1]

\* orchestra-review: a session of its own
Reviews ==
  /\ role = "implementation" /\ runtime = "claude"
  /\ "spends" \in bounds.habits /\ cli.on /\ exec[turn.e].st = "RUNNING" /\ usage[turn.e].review = 0
  /\ usage' = WithReview(turn.e)
  /\ UNCHANGED <<kinds, exec, counted, turn, cli, log, bounds>>

\* A cancel, and the request for a review of the specification: of the row alone
Cancelled ==
  /\ exec[Current].st \in Live \cup {"WAITING"}
  /\ exec' = [exec EXCEPT ![Current].st = "CANCELLED"]
  /\ UNCHANGED <<kinds, usage, counted, turn, cli, log, bounds>>

ReviewRequested ==
  /\ role = "spec" /\ exec[Current].st = "RUNNING"
  /\ exec' = [exec EXCEPT ![Current].st = "COMPLETED"]
  /\ UNCHANGED <<kinds, usage, counted, turn, cli, log, bounds>>

\* The failure policy: the failed attempt is retried.
Retried ==
  /\ role = "implementation" /\ exec[1].st = "FAILED" /\ exec[2].st = "NONE" /\ ~InTurn
  /\ exec' = [exec EXCEPT ![2].st = "ASSIGNED"]
  /\ UNCHANGED <<kinds, usage, counted, turn, cli, log, bounds>>

-----------------------------------------------------------------------------
(* The run loop                                                            *)

\* RunState.stop: the first reason counts, and the process is killed.
Stop(t, reason) == IF t.stop = "none" THEN [t EXCEPT !.stop = reason] ELSE t

Stops(reason) ==
  /\ Open /\ turn.stop = "none"
  /\ turn' = Stop(turn, reason) /\ cli' = Killed(cli)
  /\ UNCHANGED <<kinds, exec, usage, counted, log, bounds>>

\* The quiet timer starts again with every event.
Hung_OnceRunning == exec[turn.e].st = "RUNNING" /\ cli.pipe = <<>> /\ Stops("hung")
Hung == cli.pipe = <<>> /\ Stops("hung")

\* checkBlocking: the turn has a grace period to end by itself.
BlockingTimeout_WhenQuiet == turn.blocking /\ cli.pipe = <<>> /\ Stops("blocking_timeout")
BlockingTimeout == turn.blocking /\ Stops("blocking_timeout")

\* checkSpecState
SpecGone == role = "spec" /\ exec[turn.e].st \notin Live /\ Stops("gone")

\* The cancel command, or the lease renewal that finds the execution cancelled
CancelAborts == role = "implementation" /\ exec[turn.e].st = "CANCELLED" /\ Stops("cancelled")

Abort == SpecGone \/ CancelAborts

\* flush: what is in the buffer, as one write
Flushed(t) == IF t.buffer = <<>> THEN <<>> ELSE <<[t |-> "text", ns |-> t.buffer]>>

\* The flush timer
Flushes ==
  /\ turn.pc = "pull" /\ turn.buffer # <<>>
  /\ turn' = [turn EXCEPT !.queue = @ \o Flushed(turn), !.buffer = <<>>]
  /\ UNCHANGED <<kinds, exec, usage, counted, cli, log, bounds>>

\* chargeAgainstBaseline: what was reported of the model before, and is left to subtract
Consumed(t, ev) == Least(t.left[ev.m], ev.n)

\* A total, less what was reported of the model; the cost less what was paid for the
\* session, once for all models
Charged_CostPerModel(t, ev) ==
  LET n == Consumed(t, ev)
  IN [t |-> [t EXCEPT !.left[ev.m] = @ - n],
      ev |-> [ev EXCEPT !.n = @ - n, !.c = @ - Least(n, ev.c)]]
Charged(t, ev) ==
  LET n == Consumed(t, ev)
      c == Least(t.pool, ev.c)
  IN [t |-> [t EXCEPT !.left[ev.m] = @ - n, !.pool = @ - c],
      ev |-> [ev EXCEPT !.n = @ - n, !.c = @ - c]]

\* The loop waits for the writes of an event that is not text before it goes on.
Awaits(t, writes, end) ==
  LET q == t.queue \o writes
  IN [t EXCEPT !.queue = q, !.buffer = <<>>, !.end = end,
               !.pc = IF q # <<>> THEN "await" ELSE IF end = "none" THEN "pull" ELSE "closing"]

WithText_Late(t, write) == IF write.t = "call" THEN <<write>> \o Flushed(t) ELSE Flushed(t) \o <<write>>
WithText(t, write) == Flushed(t) \o <<write>>

\* trackSubagentTask, mapMessage: whether a subagent runs in the background
Tracked_DenialIgnored(ev) == IF ev.t = "denied" THEN turn.tracked ELSE ev.bg
Tracked(ev) == ev.bg

Takes(ev) ==
  CASE ev.t = "text"    -> [turn EXCEPT !.buffer = Append(@, ev.n), !.spoke = TRUE]
    [] ev.t = "call"    -> Awaits(turn, WithText(turn, ev), "none")
    [] ev.t = "spawn"   -> Awaits([turn EXCEPT !.tracked = Tracked(ev)],
                                  WithText(turn, [t |-> "call", n |-> ev.n]), "none")
    [] ev.t = "denied"  -> Awaits([turn EXCEPT !.tracked = Tracked(ev)], Flushed(turn), "none")
    [] ev.t \in {"started", "updated", "settled"} -> [turn EXCEPT !.tracked = Tracked(ev)]
    [] ev.t = "session" -> Awaits(turn, WithText(turn, ev), "none")
    [] ev.t = "result"  -> Awaits(turn, Flushed(turn), "none")
    [] ev.t = "usage"   -> LET charged == Charged(turn, ev)
                           IN Awaits(charged.t, WithText(turn, charged.ev), "none")
    [] ev.t \in {"done", "error"} -> Awaits(turn, Flushed(turn), ev.t)
    [] ev.t = "eof"     -> [turn EXCEPT !.end = "exhausted", !.pc = "closing"]

Pull ==
  /\ turn.pc = "pull" /\ turn.stop = "none" /\ cli.pipe # <<>>
  /\ turn' = Takes(Head(cli.pipe))
  /\ cli' = [cli EXCEPT !.pipe = Tail(@)]
  /\ UNCHANGED <<kinds, exec, usage, counted, log, bounds>>

\* A stop wins the race against the next event.
Stopped ==
  /\ turn.pc = "pull" /\ turn.stop # "none"
  /\ turn' = [turn EXCEPT !.end = "stopped", !.pc = "closing"]
  /\ UNCHANGED <<kinds, exec, usage, counted, cli, log, bounds>>

\* What is left of the turn's text, and all of it as its message
Closes ==
  /\ turn.pc = "closing"
  /\ turn' =
       LET gone == turn.end = "stopped" /\ turn.stop = "gone"
           message == IF turn.spoke \/ turn.end = "done"
                      THEN <<[t |-> "call", n |-> Message]>> ELSE <<>>
           q == turn.queue \o (IF gone THEN <<>> ELSE Flushed(turn) \o message)
       IN [turn EXCEPT !.queue = q, !.buffer = <<>>, !.pc = IF q = <<>> THEN "after" ELSE "drain"]
  /\ UNCHANGED <<kinds, exec, usage, counted, cli, log, bounds>>

-----------------------------------------------------------------------------
(* The writes                                                              *)

\* The loop, or the end of the turn, that waits for the last write goes on.
Written(t) ==
  LET q == Tail(t.queue)
  IN [t EXCEPT !.queue = q,
        !.pc = IF q # <<>> \/ @ = "pull" THEN @
               ELSE IF @ = "drain" THEN "after"
               ELSE IF t.end = "none" THEN "pull" ELSE "closing"]

\* appendRunEvent: nothing for a spec execution that is no longer live
AppendsEvent(w) ==
  /\ w.t \in {"text", "call"}
  /\ IF role = "spec" /\ exec[turn.e].st \notin Live
     THEN turn' = Stop(Written(turn), "gone") /\ cli' = Killed(cli) /\ UNCHANGED log
     ELSE /\ turn' = Written(turn) /\ UNCHANGED cli
          /\ log' = log \o (IF w.t = "text" THEN w.ns ELSE <<w.n>>)
  /\ UNCHANGED <<kinds, exec, usage, counted, bounds>>

\* onSession
StoresSession(w) ==
  /\ w.t = "session"
  /\ IF exec[turn.e].st \in Live
     THEN /\ turn' = Written(turn) /\ UNCHANGED cli
          /\ exec' = [exec EXCEPT ![turn.e].st = "RUNNING",
               ![turn.e].session = IF exec[turn.e].st = "ASSIGNED" \/ turn.fresh THEN turn.s ELSE @]
     ELSE turn' = Stop(Written(turn), "gone") /\ cli' = Killed(cli) /\ UNCHANGED exec
  /\ UNCHANGED <<kinds, usage, counted, log, bounds>>

\* insertExecutionUsage, addExecutionUsageTotals
WithUsage(e, m, n, cost) == [usage EXCEPT ![e].main[m] = @ + n, ![e].cost = @ + cost]

\* getExecutionCostUsd, the running total of the execution
Spent(u, e) == u[e].cost + u[e].review

\* recordUsage: Codex is priced here, and stopped when it has spent its budget.
RecordsUsage(w) ==
  /\ w.t = "usage"
  /\ LET priced == IF runtime = "codex" THEN w.n ELSE w.c
         after  == WithUsage(turn.e, w.m, w.n, priced)
         over   == runtime = "codex" /\ Spent(after, turn.e) > MaxBudget
     IN /\ usage' = after
        /\ turn' = IF over THEN Stop(Written(turn), "budget_exceeded") ELSE Written(turn)
        /\ cli' = IF over THEN Killed(cli) ELSE cli
  /\ UNCHANGED <<kinds, exec, counted, log, bounds>>

Writes ==
  /\ turn.queue # <<>>
  /\ LET w == Head(turn.queue) IN AppendsEvent(w) \/ StoresSession(w) \/ RecordsUsage(w)

\* The queue goes on after a write that fails.
WriteFails ==
  /\ turn.queue # <<>> /\ bounds.faults < MaxFaults
  /\ turn' = [Written(turn) EXCEPT !.lost = TRUE]
  /\ bounds' = [bounds EXCEPT !.faults = @ + 1]
  /\ UNCHANGED <<kinds, exec, usage, counted, cli, log>>

-----------------------------------------------------------------------------
(* The turn is over                                                        *)

\* endFailed: of a live execution only
EndFailed(st) == IF st \in Live THEN "FAILED" ELSE st

\* A blocking issue holds the execution; an implementation must not just stop.
Outcome(st) ==
  IF turn.blocking /\ st = "RUNNING" THEN "WAITING"
  ELSE IF role = "spec" THEN st ELSE EndFailed(st)

AfterTurn_StoppedIsLeft(st) ==
  IF turn.end = "stopped" THEN st ELSE IF turn.end = "error" THEN EndFailed(st) ELSE Outcome(st)
AfterTurn(st) ==
  CASE turn.end = "stopped" /\ turn.stop \in {"hung", "budget_exceeded"} -> EndFailed(st)
    [] turn.end = "stopped" /\ turn.stop \in {"gone", "cancelled"} -> st
    [] turn.end = "error" -> EndFailed(st)
    [] OTHER -> Outcome(st)

TurnEnds ==
  /\ turn.pc = "after"
  /\ exec' = [exec EXCEPT ![turn.e].st = AfterTurn(@)]
  /\ turn' = NoTurn /\ cli' = NoProcess /\ log' = <<>>
  /\ UNCHANGED <<kinds, usage, counted, bounds>>

-----------------------------------------------------------------------------
Init ==
  /\ role \in Roles /\ runtime \in Runtimes
  /\ exec = [e \in Attempts |-> [st |-> IF e = 1 THEN "ASSIGNED" ELSE "NONE", session |-> 0,
                                 whose |-> "none"]]
  /\ usage = [e \in Attempts |-> [main |-> Zero, review |-> 0, cost |-> 0]]
  /\ counted = [s \in Sessions |-> Zero]
  /\ turn = NoTurn /\ cli = NoProcess /\ log = <<>>
  /\ \E h \in Habits : bounds = [turns |-> 0, faults |-> 0, habits |-> h]

Turns   == (\E e \in Attempts : Starts(e)) \/ TakesOver \/ Resumes(Current) \/ StartsAfresh(Current)
Process ==
  \/ ClaudeSays \/ CodexSays \/ Chats \/ \E m \in Models : Works(m)
  \/ \E bg \in BOOLEAN : Spawns(bg)
  \/ Subagent
  \/ \E ok \in BOOLEAN : ClaudeFinishes(ok) \/ CodexFinishes(ok)
  \/ ClaudeCrashes \/ CodexCrashes
Others == RaisesIssue \/ (\E st \in {"COMPLETED", "FAILED"} : Reports(st)) \/ Reviews
          \/ Cancelled \/ ReviewRequested \/ Retried
Loop == Opens \/ Pull \/ Stopped \/ Closes \/ Writes \/ TurnEnds
Next == Turns \/ Process \/ Others \/ Loop \/ Hung \/ BlockingTimeout \/ Abort \/ Flushes \/ WriteFails

Spec == Init /\ [][Next]_vars

\* The loop and the database go on, and the timers and polls of the turn fire.  The
\* process owes nothing: it may be silent for ever, or talk for ever.
Fairness ==
  /\ WF_vars(Loop) /\ WF_vars(Flushes)
  /\ WF_vars(Hung) /\ WF_vars(BlockingTimeout) /\ WF_vars(Abort)
FairSpec == Spec /\ Fairness

-----------------------------------------------------------------------------
(* Properties                                                              *)

\* TypeOK: the types; a run that was stopped has no process (claude.ts and codex.ts, the
\* abort contract), and one that waits for its writes has some.
TypeOK ==
  /\ role \in Roles /\ runtime \in Runtimes
  /\ exec \in [Attempts -> [st : {"NONE", "WAITING"} \cup Live \cup Ended,
                            session : 0 .. MaxTurns, whose : {"none", "own", "taken", "shared", "replaced"}]]
  /\ usage \in [Attempts -> [main : [Models -> Nat], review : 0 .. 1, cost : Nat]]
  /\ counted \in [Sessions -> [Models -> Nat]]
  /\ turn.pc \in {"none", "opening", "pull", "await", "closing", "drain", "after"}
  /\ turn.stop \in {"none", "hung", "blocking_timeout", "gone", "cancelled", "budget_exceeded"}
  /\ turn.end \in {"none", "done", "error", "exhausted", "stopped"}
  /\ turn.stop # "none" => ~cli.on
  /\ turn.pc \in {"await", "drain"} => turn.queue # <<>>
  /\ bounds.turns \in 0 .. MaxTurns /\ bounds.faults \in 0 .. MaxFaults

\* BilledOnce (adapters/src/types.ts, usageBaseline: without it "the same tokens are
\* billed again"): however its turns end and whatever is lost of them, an execution never
\* records more tokens of a model, or more cost, than the runtime counted for its session;
\* nor do two attempts together, while the second is in its first turn of a session it
\* took over.  Later turns of such an execution, and those of an execution whose session
\* was replaced, are not covered: see BilledOnceEver.
Accountable(e) ==
  /\ exec[e].session # 0
  /\ \/ exec[e].whose = "own"
     \/ e = 2 /\ exec[2].whose = "taken" /\ exec[1].whose = "own"
Reported(e) == [m \in Models |-> usage[e].main[m] + IF exec[e].whose = "taken" THEN usage[1].main[m] ELSE 0]
Paid(e) == usage[e].cost + IF exec[e].whose = "taken" THEN usage[1].cost ELSE 0
Within(e) ==
  LET s == exec[e].session
  IN /\ \A m \in Models : Reported(e)[m] <= counted[s][m]
     /\ Paid(e) <= Total(counted[s])
BilledOnce == \A e \in Attempts : Accountable(e) => Within(e)

\* BilledInFull (queries/runner.ts, sumSessionUsageByModel): a turn that ends by itself
\* leaves nothing of its session unrecorded, also what an earlier turn counted and never
\* reported because it was stopped, crashed, or its write failed.
BilledInFull ==
  turn.pc = "after" /\ turn.end = "done" /\ ~turn.lost /\ Accountable(turn.e) =>
    Reported(turn.e) = counted[turn.s] /\ Paid(turn.e) = Total(counted[turn.s])

\* KeepsOrder (runner.ts: "so execution_events keep the adapter's order"): the events of a
\* turn are stored in the order the agent produced them, the message last, though the
\* text among them waits for a timer; and a turn that ends by itself stores all of them.
KeepsOrder ==
  /\ \A i, j \in DOMAIN log : i < j => log[i] < log[j]
  /\ turn.pc = "after" /\ turn.end = "done" /\ turn.stop = "none" /\ ~turn.lost =>
       Len(log) = cli.said + 1

\* BackgroundIsCounted (claude.ts, GOT.101): the turn is said to have left a subagent
\* running exactly when one it started in the background was not denied and not settled.
BackgroundIsCounted == turn.end = "done" => (turn.tracked <=> cli.sub \in {"askedbg", "bg"})

\* NotStranded (runner.ts, afterTurn): no way a turn can end leaves an implementation
\* RUNNING with no turn; nothing would ever move it on but the expiry of its lease.
NotStranded == ~InTurn /\ role = "implementation" => \A e \in Attempts : exec[e].st # "RUNNING"

\* HeldEnds (runner.ts, checkBlocking and checkSpecState): the turn of an execution that
\* must wait for an answer, or that is no longer this runner's, ends, also when the agent
\* talks on for ever, which keeps the quiet timer from firing.
HeldEnds ==
  /\ turn.blocking ~> ~InTurn
  /\ InTurn /\ exec[turn.e].st = "CANCELLED" ~> ~InTurn
  /\ InTurn /\ role = "spec" /\ exec[turn.e].st \notin Live ~> ~InTurn

\* TurnsEnd (runner.ts, the quiet timer): the turn of an agent that falls silent for good
\* ends.
TurnsEnd == []<>(turn.pc = "none" \/ cli.pipe # <<>>)

\* Billing: what a session used is recorded once and in the end in full.
Billing == TypeOK /\ BilledOnce /\ BilledInFull

\* TurnIsKept: what a turn leaves behind is true to it: its events, the subagents it left
\* running and the state of its execution.
TurnIsKept == KeepsOrder /\ BackgroundIsCounted /\ NotStranded

\* EveryTurnEnds: no turn holds its slot for ever, be its agent silent or talking on.
EveryTurnEnds == HeldEnds /\ TurnsEnd

\* BilledOnceEver: the bound of BilledOnce for every turn of an execution that runs in a
\* session it took over.  It does not hold: a resume takes only the rows of its own
\* execution for what "its agent session has already reported".
BilledOnceEver ==
  exec[2].session # 0 /\ exec[2].whose \in {"taken", "shared"} /\ exec[1].whose = "own" =>
    \A m \in Models : usage[1].main[m] + usage[2].main[m] <= counted[exec[2].session][m]

-----------------------------------------------------------------------------
(* What makes the promises inductive                                       *)

Item   == 1 .. MaxSaid
Settles == {"denied", "started", "updated", "settled"}
Counts == [t : {"usage"}, m : Models, n : Nat, c : Nat]
Event  == [t : {"text", "call"}, n : Item] \cup [t : {"spawn"}, n : Item, bg : BOOLEAN]
          \cup [t : Settles, bg : BOOLEAN] \cup Counts
          \cup [t : {"session", "result", "done", "error", "eof"}]
Write  == [t : {"text"}, ns : Seq(Item)] \cup [t : {"call"}, n : 1 .. Message]
          \cup Counts \cup [t : {"session"}]

TurnRecord ==
  [pc : {"none", "opening", "pull", "await", "closing", "drain", "after"},
   e : Attempts, s : Nat, fresh : BOOLEAN, left : [Models -> Nat], pool : Nat,
   stop : {"none", "hung", "blocking_timeout", "gone", "cancelled", "budget_exceeded"},
   end : {"none", "done", "error", "exhausted", "stopped"},
   buffer : Seq(Item), queue : Seq(Write),
   spoke : BOOLEAN, blocking : BOOLEAN, tracked : BOOLEAN, lost : BOOLEAN]

ProcessRecord ==
  [on : BOOLEAN, pipe : Seq(Event), said : 0 .. MaxSaid, worked : 0 .. MaxWork,
   sub : {"none", "asked", "askedbg", "fg", "bg", "over"}]

Bounds == [turns : 0 .. MaxTurns, faults : 0 .. MaxFaults, habits : Habits]

\* The rest of the types
RunOK == /\ turn \in TurnRecord /\ cli \in ProcessRecord
         /\ log \in Seq(1 .. Message) /\ bounds \in Bounds

\* What ends the output of a process
Finals == {"done", "error", "eof"}
AllRead == cli.pipe = <<>>

\* The phases of a turn: the process runs while the loop reads, what it counted and how
\* it ended come after all the rest, and the turn is over when all is written.
PhaseFits ==
  /\ ~InTurn => turn = NoTurn /\ cli = NoProcess /\ log = <<>>
  /\ InTurn => turn.s \in 1 .. bounds.turns
  /\ \A e \in Attempts : exec[e].session <= bounds.turns
  /\ turn.pc = "opening" =>
       /\ cli = NoProcess /\ log = <<>> /\ turn.queue = <<>> /\ turn.buffer = <<>>
       /\ ~turn.tracked /\ ~turn.lost
  /\ turn.pc \in {"opening", "pull"} => turn.end = "none"
  /\ turn.pc \in {"closing", "drain", "after"} => turn.end # "none"
  /\ turn.pc = "opening" \/ cli.on => turn.stop = "none" /\ turn.end = "none"
  /\ cli.on => Open
  /\ \A i \in DOMAIN cli.pipe :
       /\ cli.pipe[i].t \in Finals => ~cli.on /\ i = Len(cli.pipe)
       /\ cli.pipe[i].t = "usage" => ~cli.on
  /\ turn.end \in {"done", "error", "exhausted"} => AllRead
  /\ turn.pc \in {"await", "drain"} => turn.queue # <<>>
  /\ turn.pc = "after" => turn.queue = <<>>
  /\ turn.pc \in {"drain", "after"} => turn.buffer = <<>>

RunInv == TypeOK /\ RunOK /\ PhaseFits

\* The last event about the subagent that is still to be read says whether it runs in
\* the background; when there is none the adapter knows.
Background == cli.sub \in {"askedbg", "bg"}
AboutSubagent == {i \in DOMAIN cli.pipe : cli.pipe[i].t \in Settles \cup {"spawn"}}
TracksFit ==
  /\ AboutSubagent = {} => (turn.tracked <=> Background)
  /\ \A i \in AboutSubagent :
       (\A j \in AboutSubagent : j <= i) => (cli.pipe[i].bg <=> Background)

\* Only the execution of the turn is RUNNING, and no longer when its runner was told so.
OnlyTurnRuns ==
  role = "implementation" =>
    /\ \A e \in Attempts : exec[e].st = "RUNNING" => InTurn /\ e = turn.e
    /\ turn.stop \in {"gone", "cancelled"} => exec[turn.e].st \notin Live

\* The items of a write and of an event
ItemsOf(w) == IF w.t = "text" THEN Range(w.ns) ELSE IF w.t = "call" THEN {w.n} ELSE {}
SaidBy(ev) == IF ev.t \in {"text", "call", "spawn"} THEN {ev.n} ELSE {}

Ordered(s) == \A i, j \in DOMAIN s : i < j => s[i] < s[j]
Before(S, T) == \A x \in S, y \in T : x < y

\* What is stored, what waits to be written and what is in the buffer follow one another.
Arranged(lg, q, b) ==
  /\ Ordered(lg) /\ Ordered(b) /\ Before(Range(lg), Range(b))
  /\ \A i \in DOMAIN q :
       /\ q[i].t = "text" => Ordered(q[i].ns)
       /\ Before(Range(lg), ItemsOf(q[i])) /\ Before(ItemsOf(q[i]), Range(b))
       /\ \A j \in DOMAIN q : i < j => Before(ItemsOf(q[i]), ItemsOf(q[j]))

InQueue(q) == UNION {ItemsOf(q[i]) : i \in DOMAIN q}
Within3(lg, q, b) == Range(lg) \cup InQueue(q) \cup Range(b)
Taken  == Within3(log, turn.queue, turn.buffer)
SaidIn(pipe) == UNION {SaidBy(pipe[i]) : i \in DOMAIN pipe}
Unread == SaidIn(cli.pipe)
Follows(pipe) == \A i, j \in DOMAIN pipe : i < j => Before(SaidBy(pipe[i]), SaidBy(pipe[j]))

OrderFits ==
  /\ Arranged(log, turn.queue, turn.buffer)
  /\ Taken \subseteq (1 .. cli.said) \cup
                      (IF turn.pc \in {"drain", "after"} THEN {Message} ELSE {})
  /\ Unread \subseteq 1 .. cli.said
  /\ Open => Before(Taken, Unread) /\ Follows(cli.pipe)

\* Nothing is lost on the way, but with a write that fails or a turn that is stopped.
Lossless == turn.stop = "none" /\ ~turn.lost
NothingLost ==
  Lossless => /\ 1 .. cli.said \subseteq Taken \cup Unread
              /\ turn.pc \in {"drain", "after"} /\ turn.end = "done" => Message \in Taken

KeptInv == RunInv /\ TracksFit /\ OnlyTurnRuns /\ OrderFits /\ NothingLost

\* The usage that waits to be written: one at a time, and the loop waits for it.
LastOf(q) == q[Len(q)]
UsageWaits(q) == q # <<>> /\ LastOf(q).t = "usage"
Unwritten(q, m) == IF UsageWaits(q) /\ LastOf(q).m = m THEN LastOf(q).n ELSE 0
UnwrittenCost(q) == IF UsageWaits(q) THEN LastOf(q).c ELSE 0
OneUsageWaits ==
  \A i \in DOMAIN turn.queue :
    turn.queue[i].t = "usage" => /\ i = Len(turn.queue) /\ turn.pc = "await"
                                 /\ runtime = "codex" => turn.queue[i].m = 1

\* The usage that is still to be read: the totals f of the session, each model once, and
\* the cost once.
UsageIn(pipe) == {i \in DOMAIN pipe : pipe[i].t = "usage"}
ToRead(pipe, m)  == \E i \in UsageIn(pipe) : pipe[i].m = m
CostToRead(pipe) == \E i \in UsageIn(pipe) : pipe[i].c # 0
UsageReports(pipe, f) ==
  \A i \in UsageIn(pipe) :
    /\ pipe[i].n = f[pipe[i].m]
    /\ runtime = "codex" => pipe[i].m = 1 /\ pipe[i].c = 0
    /\ pipe[i].c \in {0, Total(f)}
    /\ \A j \in UsageIn(pipe) :
         i # j => pipe[i].m # pipe[j].m /\ (pipe[i].c = 0 \/ pipe[j].c = 0)
UsageFits == UsageReports(cli.pipe, counted[turn.s])

\* An execution that has its own session, or took over that of the failed attempt, is in
\* it in all its turns.
Billable(e) == exec[e].whose = "own" \/ (e = 2 /\ exec[2].whose = "taken" /\ exec[1].whose = "own")
SessionFits ==
  /\ \A e \in Attempts :
       exec[e].whose = "none" =>
         exec[e].session = 0 /\ usage[e].main = Zero /\ usage[e].cost = 0
  /\ exec[2].st # "NONE" => exec[1].st = "FAILED" /\ (InTurn => turn.e = 2)
  /\ exec[2].st = "NONE" => exec[2].whose = "none"
  /\ exec[1].whose # "taken"
  /\ exec[2].whose = "taken" => exec[2].session = exec[1].session /\ exec[2].st # "ASSIGNED"
  /\ InTurn => exec[turn.e].whose # "none" /\ (turn.fresh => exec[turn.e].whose = "replaced")
  /\ InTurn /\ Billable(turn.e) => exec[turn.e].session \in {0, turn.s}
  /\ runtime = "codex" => /\ \A s \in Sessions, m \in Models \ {1} : counted[s][m] = 0
                          /\ \A e \in Attempts : usage[e].cost = usage[e].main[1]

\* What was reported of a total and what waits to be written of it come to no more than
\* the total; while more is to come, what is left to subtract is what was reported; and
\* when all was read, nothing of the total is missing.
Fits(reported, waits, total, left, more, all) ==
  /\ reported + waits <= total
  /\ more => left = reported /\ waits = 0
  /\ all => reported + waits = total

\* What the turn of an execution has reported and still has to report
MoreComes == turn.pc = "opening" \/ cli.on
Finished  == ~turn.lost /\ (turn.end = "done" \/ \E i \in DOMAIN cli.pipe : cli.pipe[i].t = "done")
TokensFit(m) ==
  Fits(Reported(turn.e)[m], Unwritten(turn.queue, m), counted[turn.s][m], turn.left[m],
       MoreComes \/ ToRead(cli.pipe, m), Finished /\ ~ToRead(cli.pipe, m))
CostFits ==
  Fits(Paid(turn.e), UnwrittenCost(turn.queue), Total(counted[turn.s]), turn.pool,
       MoreComes \/ CostToRead(cli.pipe), Finished /\ ~CostToRead(cli.pipe))

BillFits ==
  /\ InTurn /\ Billable(turn.e) => /\ \A m \in Models : TokensFit(m)
                                   /\ runtime = "claude" => CostFits
  /\ \A e \in Attempts : Accountable(e) /\ ~(InTurn /\ e = turn.e) => Within(e)

BillInv == RunInv /\ OneUsageWaits /\ UsageFits /\ SessionFits /\ BillFits

=============================================================================

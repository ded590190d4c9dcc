---------------------------- MODULE SpecLifecycle ----------------------------
(***************************************************************************)
(* How the specification of one task is drafted with a spec agent, sent to *)
(* review, sent back, approved and revised.                                *)
(*                                                                         *)
(* Users call the routes of the api, an agent calls propose_spec and       *)
(* raise_issue, and a worker process starts and resumes the session on     *)
(* commands the routes leave behind.  One action is one transaction, or    *)
(* one step of a process between two awaits: what resume() and the token   *)
(* check read before their transaction may be old when they commit.        *)
(***************************************************************************)
EXTENDS Naturals, Sequences, FiniteSets, Transitions

CONSTANTS Workers,      \* worker processes; one process per host
          Peer,         \* whether a worker outside the instance is up and sweeps
          MaxSessions,  \* bound on the spec executions of the task
          MaxVersions,  \* bound on its specification revisions
          MaxCommands,  \* bound on its commands that are not completed
          MaxFaults,    \* bound on the crashes of workers and on the handlers that fail
          None, Lost

ASSUME SpecAssumption ==
  /\ {MaxSessions, MaxVersions, MaxCommands, MaxFaults} \subseteq Nat
  /\ Peer \in BOOLEAN
  /\ None \notin Workers /\ Lost \notin Workers \cup {None}

Sessions == 1 .. MaxSessions    \* in the order of created_at
Versions == 1 .. MaxVersions

LiveStates == {"QUEUED", "ASSIGNED", "RUNNING", "WAITING_FOR_USER"}
BusyStates == {"QUEUED", "ASSIGNED", "WAITING_FOR_USER"}
TurnStates == {"ASSIGNED", "RUNNING"}

NoSession  == [state |-> "NONE", host |-> None, token |-> FALSE, issue |-> FALSE]
Idle       == [phase |-> "idle", from |-> "NONE"]

VARIABLES task,      \* tasks.state
          revision,  \* the status of each version in specification_revisions
          written,   \* history: a text was written while it was reviewed
          session,   \* the spec executions
          work,      \* the implementation execution, as far as it matters here
          cmd,       \* the execution_commands not completed, oldest first
          worker,    \* "up" or "down"
          stale,     \* last_heartbeat_at is more than 15 minutes old
          run,       \* the runner's live map, with the state resume() loaded
          blocking,  \* sessions whose registry entry has blockingPending
          faults

rows   == <<task, revision, written, session, work, cmd>>
hosts  == <<worker, stale, faults>>
memory == <<run, blocking>>
vars   == <<task, revision, written, session, work, cmd, worker, stale, faults,
            run, blocking>>

-----------------------------------------------------------------------------
(* Queries                                                                 *)

WithStatus(status) == {v \in Versions : revision[v] = status}
HasDraft    == WithStatus("draft") # {}
HasApproved == WithStatus("approved") # {}
InState(S)  == {s \in Sessions : session[s].state \in S}
LiveSpec    == InState(LiveStates)
Up(w)       == worker[w] = "up"
RunsAt(w, s, phases) == Up(w) /\ run[w][s].phase \in phases

\* A claimed command has the worker that claimed it in its batch in "by", or
\* Lost when that worker is gone: claimed_at is never cleared then.
Pending == DOMAIN cmd

\* hasPendingSpecSessionStart: claimed or not
PendingStart == \E i \in Pending : cmd[i].kind = "start"

\* hasPendingSpecResume: a send_message still to come on a COMPLETED session
PendingResume ==
  \E i \in Pending : /\ cmd[i].kind \in {"message", "sent_back"}
                     /\ session[cmd[i].of].state = "COMPLETED"

\* insertExecutionCommand
Enqueue(kind, s) ==
  /\ Len(cmd) < MaxCommands
  /\ cmd' = Append(cmd, [kind |-> kind, of |-> s, by |-> None])

Noted == written' = (written \/ task = "SPEC_REVIEW")

\* insertDraftRevision, max(version) + 1
InsertDraft ==
  /\ \E v \in WithStatus("none") :
       /\ \A u \in WithStatus("none") : v <= u
       /\ revision' = [revision EXCEPT ![v] = "draft"]
  /\ Noted

\* updateDraftRevisionContent: the status stays
Rewritten == Noted /\ UNCHANGED revision

\* The draft there is gets the text, or a new one does.
UpsertDraft ==
  \/ HasDraft /\ Rewritten
  \/ ~HasDraft /\ InsertDraft

SetSession(s, state) == session' = [session EXCEPT ![s].state = state]

\* No handler reads the other columns of a FAILED or CANCELLED row again, so
\* the model clears them; a route that cancels leaves the token on its row.
EndSessions(S, state) ==
  session' = [s \in Sessions |->
                IF s \in S THEN [NoSession EXCEPT !.state = state] ELSE session[s]]

-----------------------------------------------------------------------------
(* The routes of the user                                                  *)

\* MaxSessions leaves a row for every start command that is not completed.
RoomForSession ==
  Cardinality({i \in Pending : cmd[i].kind = "start"}) < Cardinality(InState({"NONE"}))

\* POST /tasks/:id/spec/session: the first start, or a restart while no
\* session is live or about to be resumed.
CanRestart == LiveSpec = {} /\ ~PendingResume

StartSession ==
  /\ \/ TaskEdge(task, "spec.session_started")
     \/ task = "SPEC_IN_PROGRESS" /\ CanRestart
  /\ task' = "SPEC_IN_PROGRESS"
  /\ Enqueue("start", 0) /\ RoomForSession
  /\ UNCHANGED <<revision, written, session, work, hosts, memory>>

\* POST /tasks/:id/spec/messages
SendMessage ==
  /\ task = "SPEC_IN_PROGRESS"
  /\ cmd = << >>    \* a bound: no chat message waits beside another command
  /\ \E s \in InState({"RUNNING"}) :
       /\ \A x \in LiveSpec : s <= x
       /\ Enqueue("message", s)
  /\ UNCHANGED <<task, revision, written, session, work, hosts, memory>>

\* PUT /tasks/:id/spec/draft
SaveDraft ==
  /\ task = "SPEC_IN_PROGRESS"
  /\ UpsertDraft
  /\ UNCHANGED <<task, session, work, cmd, hosts, memory>>

\* POST /tasks/:id/spec/request-review: the session between turns, or in one,
\* is completed; a session that cannot be completed refuses the request.
RequestReview ==
  /\ TaskEdge(task, "spec.review_requested") /\ HasDraft
  /\ ~PendingStart /\ InState(BusyStates) = {}
  /\ task' = "SPEC_REVIEW"
  /\ session' = [s \in Sessions |->
                   IF session[s].state = "RUNNING"
                     THEN [session[s] EXCEPT !.state = "COMPLETED", !.token = FALSE]
                     ELSE session[s]]
  /\ UNCHANGED <<revision, written, work, cmd, hosts, memory>>

\* POST /tasks/:id/spec/send-back: the most recent COMPLETED session, if there
\* is one, is asked to go on.
SendBack ==
  /\ TaskEdge(task, "spec.sent_back")
  /\ task' = "SPEC_IN_PROGRESS"
  /\ LET ended == InState({"COMPLETED"})
     IN  IF ended = {}
           THEN UNCHANGED cmd
           ELSE \E s \in ended : (\A x \in ended : x <= s) /\ Enqueue("sent_back", s)
  /\ UNCHANGED <<revision, written, session, work, hosts, memory>>

\* approveRevision
Approved_KeepOld ==
  [v \in Versions |-> IF revision[v] = "draft" THEN "approved" ELSE revision[v]]

Approved ==
  [v \in Versions |-> CASE revision[v] = "approved" -> "superseded"
                        [] revision[v] = "draft"    -> "approved"
                        [] OTHER                    -> revision[v]]

\* POST /tasks/:id/spec/approve: a paused implementation goes on with the new
\* revision, else the dependencies decide where the task goes.
Approve ==
  /\ task = "SPEC_REVIEW" /\ HasDraft
  /\ revision' = Approved
  /\ IF work = "waiting"
       THEN task' = "IMPLEMENTING" /\ Enqueue("revision", 0)
       ELSE task' \in {"SPEC_APPROVED", "READY", "BLOCKED"} /\ UNCHANGED cmd
  /\ UNCHANGED <<written, session, work, hosts, memory>>

\* POST /tasks/:id/spec/revise
Revise ==
  /\ TaskEdge(task, "spec.revise") /\ ~HasDraft
  /\ HasApproved /\ InsertDraft
  /\ task' = "SPEC_IN_PROGRESS"
  /\ UNCHANGED <<session, work, cmd, hosts, memory>>

\* POST /issues/:id/resolve with spec_revision, on the issue that pauses the
\* implementation
ResolveAsRevision ==
  /\ TaskEdge(task, "issue.resolved.spec_revision") /\ work = "waiting" /\ ~HasDraft
  /\ HasApproved /\ InsertDraft
  /\ task' = "SPEC_IN_PROGRESS"
  /\ UNCHANGED <<session, work, cmd, hosts, memory>>

\* POST /issues/:id/resolve with clarification, on the issue of a paused session
ClarifyIssue(s) ==
  /\ session[s].state = "WAITING_FOR_USER" /\ session[s].issue
  /\ session' = [session EXCEPT ![s].issue = FALSE]
  /\ Enqueue("decision", s)
  /\ UNCHANGED <<task, revision, written, work, hosts, memory>>

\* POST /tasks/:id/cancel: the executions are cancelled, the agent is not told
\* and its token stays on the row.
Cancel ==
  /\ task \in Cancellable /\ task' = "CANCELLED"
  /\ EndSessions(LiveSpec, "CANCELLED")
  /\ work' = "none"
  /\ UNCHANGED <<revision, written, cmd, hosts, memory>>

\* POST /tasks/:id/reopen
Reopen ==
  /\ task = "CANCELLED"
  /\ task' = IF HasApproved /\ ~HasDraft THEN "SPEC_APPROVED" ELSE "NEEDS_SPEC"
  /\ UNCHANGED <<revision, written, session, work, cmd, hosts, memory>>

User ==
  \/ StartSession \/ SendMessage \/ RequestReview \/ SendBack \/ Approve
  \/ Revise \/ ResolveAsRevision \/ Cancel \/ Reopen
  \/ SaveDraft
  \/ \E s \in Sessions : ClarifyIssue(s)

-----------------------------------------------------------------------------
(* The implementation of an approved specification, in outline: what       *)
(* ExecutionLifecycle says of it that moves the task.                      *)

Implementation ==
  /\ \/ /\ task \in {"SPEC_APPROVED", "BLOCKED"} /\ task' = "READY"    \* promotion
        /\ work # "waiting" /\ UNCHANGED work
     \/ /\ task = "READY" /\ LiveSpec = {} /\ work = "none"            \* claim
        /\ task' = "IMPLEMENTING" /\ work' = "running"
     \/ /\ work = "running" /\ work' = "waiting" /\ UNCHANGED task     \* its turn ends
  /\ UNCHANGED <<revision, written, session, cmd, hosts, memory>>

-----------------------------------------------------------------------------
(* The commands                                                            *)

Claimed(w) == {i \in Pending : cmd[i].by = w}

\* claimExecutionCommands: those of sessions pinned to this host or to none
Eligible(w) == {i \in Pending :
                  /\ cmd[i].by = None
                  /\ cmd[i].of \in Sessions => session[cmd[i].of].host \in {w, None}}

ClaimCommands(w) ==
  /\ Up(w) /\ Claimed(w) = {} /\ Eligible(w) # {}
  /\ cmd' = [i \in Pending |-> IF i \in Eligible(w) THEN [cmd[i] EXCEPT !.by = w]
                                                   ELSE cmd[i]]
  /\ UNCHANGED <<task, revision, written, session, work, hosts, memory>>

NextInBatch(w, i) == Up(w) /\ i \in Claimed(w) /\ \A j \in Claimed(w) : i <= j

\* The command leaves the batch: it is completed, or unclaimed for a later tick.
Complete(i) == cmd' = [j \in 1 .. Len(cmd) - 1 |-> IF j < i THEN cmd[j] ELSE cmd[j + 1]]
Unclaim(i)  == cmd' = [cmd EXCEPT ![i].by = None]

\* createSpecExecution, and the hand-off to runner.startSpec after its commit
MayStart_SecondOne == task = "SPEC_IN_PROGRESS" /\ ~PendingResume
MayStart == task = "SPEC_IN_PROGRESS" /\ LiveSpec = {} /\ ~PendingResume

HandleStart(w, i) ==
  /\ NextInBatch(w, i) /\ cmd[i].kind = "start"
  /\ Complete(i)
  /\ IF MayStart
       THEN \E s \in InState({"NONE"}) :
              /\ \A x \in InState({"NONE"}) : s <= x
              /\ session' = [session EXCEPT ![s] =
                               [NoSession EXCEPT !.state = "ASSIGNED", !.host = w]]
              /\ run' = [run EXCEPT ![w][s].phase = "preparing"]
       ELSE UNCHANGED <<session, run>>
  /\ UNCHANGED <<task, revision, written, work, hosts, blocking>>

\* resume_with_revision of the implementation, which may take it anywhere
HandleRevision(w, i) ==
  /\ NextInBatch(w, i) /\ cmd[i].kind = "revision"
  /\ Complete(i)
  /\ work' = IF work = "waiting" THEN "running" ELSE work
  /\ UNCHANGED <<task, revision, written, session, hosts, run, blocking>>

\* The states in which the handlers of send_message and resume_with_decision
\* hand the session to resume().
ResumableFrom(kind) ==
  CASE kind = "message"   -> {"RUNNING"}
    [] kind = "sent_back" -> {"RUNNING", "COMPLETED"}
    [] kind = "decision"  -> {"WAITING_FOR_USER"}
    [] OTHER              -> {}

\* The handler's reads, and resume() up to its transaction.  A session without
\* a host is given up: the transcript was on the dead host.
BeginResume(w, i) ==
  LET s     == cmd[i].of
      loaded == session[s]
  IN  /\ NextInBatch(w, i) /\ s \in Sessions
      /\ \A x \in Sessions : run[w][x].phase # "resuming"
      /\ IF loaded.state \notin ResumableFrom(cmd[i].kind) \/ loaded.host = None
           THEN Complete(i) /\ UNCHANGED run
           ELSE IF run[w][s].phase # "idle" \/ loaded.host # w
                  THEN Unclaim(i) /\ UNCHANGED run
                  ELSE /\ run' = [run EXCEPT ![w][s] = [phase |-> "resuming",
                                                        from |-> loaded.state]]
                       /\ UNCHANGED cmd
      /\ UNCHANGED <<task, revision, written, session, work, hosts, blocking>>

\* The checks of resume() under the locks.
NotWhileDrafting_Unchecked(from) == FALSE
NotWhileDrafting(from) == from # "WAITING_FOR_USER" /\ task # "SPEC_IN_PROGRESS"
SecondSession(from) == from = "COMPLETED" /\ LiveSpec # {}

CommitResume(w, i) ==
  LET s    == cmd[i].of
      from == run[w][s].from
  IN  /\ NextInBatch(w, i) /\ s \in Sessions /\ run[w][s].phase = "resuming"
      /\ IF session[s].state # from \/ NotWhileDrafting(from) \/ SecondSession(from)
           THEN /\ Complete(i)
                /\ run' = [run EXCEPT ![w][s] = Idle]
                /\ UNCHANGED session
           ELSE IF session[s].host # w
                  THEN /\ IF session[s].host = None THEN Complete(i) ELSE Unclaim(i)
                       /\ run' = [run EXCEPT ![w][s] = Idle]
                       /\ UNCHANGED session
                  ELSE /\ Complete(i)
                       /\ run' = [run EXCEPT ![w][s] = [Idle EXCEPT !.phase = "preparing"]]
                       /\ session' = [session EXCEPT ![s].state = "RUNNING"]
      /\ UNCHANGED <<task, revision, written, work, hosts, blocking>>

\* CANNOT_RESUME and NO_SESSION complete the command; any other error of the
\* handler leaves it claimed.
ResumeRefused(w, i) ==
  LET s == cmd[i].of
  IN  /\ NextInBatch(w, i) /\ s \in Sessions /\ run[w][s].phase = "resuming"
      /\ run' = [run EXCEPT ![w][s] = Idle]
      /\ \/ Complete(i) /\ UNCHANGED faults
         \/ /\ faults < MaxFaults /\ faults' = faults + 1
            /\ cmd' = [cmd EXCEPT ![i].by = Lost]
      /\ UNCHANGED <<task, revision, written, session, work, worker, stale, blocking>>

Commands(w) ==
  \/ ClaimCommands(w)
  \/ \E i \in Pending : \/ HandleStart(w, i) \/ HandleRevision(w, i)
                       \/ BeginResume(w, i) \/ CommitResume(w, i)

-----------------------------------------------------------------------------
(* The run of a turn                                                       *)

Phase(w, s, phase) == run' = [run EXCEPT ![w][s].phase = phase]

\* issueRunToken at the head of runSession
OpenTurn_OnlyFirst(w, s) ==
  /\ RunsAt(w, s, {"preparing"})
  /\ IF session[s].state \in TurnStates
       THEN /\ session' = [session EXCEPT ![s].token = session[s].state = "ASSIGNED"]
            /\ Phase(w, s, "session")
       ELSE Phase(w, s, "closing") /\ UNCHANGED session
  /\ UNCHANGED <<task, revision, written, work, cmd, hosts, blocking>>

OpenTurn(w, s) ==
  /\ RunsAt(w, s, {"preparing"})
  /\ IF session[s].state \in TurnStates
       THEN /\ session' = [session EXCEPT ![s].token = TRUE]
            /\ Phase(w, s, "session")
       ELSE Phase(w, s, "closing") /\ UNCHANGED session
  /\ UNCHANGED <<task, revision, written, work, cmd, hosts, blocking>>

\* onSession
SessionStarted(w, s) ==
  /\ RunsAt(w, s, {"session"}) /\ session[s].state = "ASSIGNED"
  /\ SetSession(s, "RUNNING")
  /\ UNCHANGED <<task, revision, written, work, cmd, hosts, memory>>

\* The token check of a tool: its hash and the state of the row.
Authorized_StaleRow(w, s, states) == RunsAt(w, s, {"session"})
Authorized(w, s, states) ==
  RunsAt(w, s, {"session"}) /\ session[s].token /\ session[s].state \in states

\* propose_spec
ProposeSpec(w, s) ==
  /\ Authorized(w, s, {"RUNNING"})
  /\ UpsertDraft
  /\ UNCHANGED <<task, session, work, cmd, hosts, memory>>

\* raise_issue of the spec role, which always blocks
RaiseIssue(w, s) ==
  /\ Authorized(w, s, TurnStates) /\ ~session[s].issue
  /\ session' = [session EXCEPT ![s].issue = TRUE]
  /\ blocking' = [blocking EXCEPT ![w] = @ \cup {s}]
  /\ UNCHANGED <<task, revision, written, work, cmd, hosts, run>>

\* afterTurn
EndTurn(w, s) ==
  /\ RunsAt(w, s, {"session"}) /\ session[s].state # "ASSIGNED"
  /\ IF s \in blocking[w] /\ session[s].state = "RUNNING"
       THEN SetSession(s, "WAITING_FOR_USER")
       ELSE UNCHANGED session
  /\ Phase(w, s, "closing")
  /\ UNCHANGED <<task, revision, written, work, cmd, hosts, blocking>>

\* The poll of runSession sees a row that a route ended.
Gone_Cancelled(w, s) ==
  /\ RunsAt(w, s, {"session"}) /\ session[s].state \in {"FAILED", "CANCELLED"}
  /\ Phase(w, s, "closing")
  /\ UNCHANGED <<rows, hosts, blocking>>

Gone(w, s) ==
  /\ RunsAt(w, s, {"session"}) /\ session[s].state \notin TurnStates
  /\ Phase(w, s, "closing")
  /\ UNCHANGED <<rows, hosts, blocking>>

\* endFailed: a spec session is neither retried nor escalated.
RunFails(w, s) ==
  /\ RunsAt(w, s, {"preparing", "session"})
  /\ EndSessions({s} \cap InState(TurnStates), "FAILED")
  /\ Phase(w, s, "closing")
  /\ UNCHANGED <<task, revision, written, work, cmd, hosts, blocking>>

\* finalize: the token first, the live map last
Revoke(w, s) ==
  /\ RunsAt(w, s, {"closing"})
  /\ session' = [session EXCEPT ![s].token = FALSE]
  /\ Phase(w, s, "revoked")
  /\ UNCHANGED <<task, revision, written, work, cmd, hosts, blocking>>

Forget_KeepsEntry(w, s) ==
  /\ RunsAt(w, s, {"revoked"})
  /\ run' = [run EXCEPT ![w][s] = Idle]
  /\ UNCHANGED <<rows, hosts, blocking>>

Forget(w, s) ==
  /\ RunsAt(w, s, {"revoked"})
  /\ run' = [run EXCEPT ![w][s] = Idle]
  /\ blocking' = [blocking EXCEPT ![w] = @ \ {s}]
  /\ UNCHANGED <<rows, hosts>>

Runner(w) ==
  \E s \in Sessions : \/ OpenTurn(w, s) \/ SessionStarted(w, s) \/ EndTurn(w, s)
                      \/ Gone(w, s) \/ Revoke(w, s) \/ Forget(w, s)

Agent(w) ==
  \E s \in Sessions : RaiseIssue(w, s) \/ ProposeSpec(w, s)

-----------------------------------------------------------------------------
(* Workers that stop                                                       *)

Crash(w) ==
  /\ Up(w) /\ faults < MaxFaults /\ faults' = faults + 1
  /\ worker' = [worker EXCEPT ![w] = "down"]
  /\ run' = [run EXCEPT ![w] = [s \in Sessions |-> Idle]]
  /\ blocking' = [blocking EXCEPT ![w] = {}]
  /\ cmd' = [i \in Pending |-> IF i \in Claimed(w) THEN [cmd[i] EXCEPT !.by = Lost]
                                                  ELSE cmd[i]]
  /\ UNCHANGED <<task, revision, written, session, work, stale>>

HeartbeatStale(w) ==
  /\ worker[w] = "down" /\ ~stale[w]
  /\ stale' = [stale EXCEPT ![w] = TRUE]
  /\ UNCHANGED <<rows, worker, faults, memory>>

\* The start of a process: its heartbeat, and revokeRunningSpecTokensOnHost
Restart(w) ==
  /\ worker[w] = "down"
  /\ worker' = [worker EXCEPT ![w] = "up"]
  /\ stale' = [stale EXCEPT ![w] = FALSE]
  /\ session' = [s \in Sessions |->
                   IF session[s].host = w /\ session[s].state = "RUNNING"
                     THEN [session[s] EXCEPT !.token = FALSE] ELSE session[s]]
  /\ UNCHANGED <<task, revision, written, work, cmd, faults, memory>>

\* Another worker sweeps while the heartbeat of the session's host is old.
OnDeadHost(s) ==
  \E h \in Workers : /\ session[s].host = h /\ stale[h]
                     /\ Peer \/ \E w \in Workers \ {h} : Up(w)

\* listOrphanedSpecExecutions, lockOrphanedSpecExecution: looked at again under the locks
Orphan(s) == session[s].state = "ASSIGNED" /\ OnDeadHost(s)

\* failOrphanedSpecExecutions
FailOrphan(s) ==
  /\ Orphan(s)
  /\ EndSessions({s}, "FAILED")
  /\ UNCHANGED <<task, revision, written, work, cmd, hosts, memory>>

\* releaseDeadHosts, for the spec executions it matches
ReleaseHost(s) ==
  /\ session[s].state \in {"WAITING_FOR_USER", "COMPLETED"} /\ OnDeadHost(s)
  /\ session' = [session EXCEPT ![s].host = None]
  /\ UNCHANGED <<task, revision, written, work, cmd, hosts, memory>>

Sweeper == \E s \in Sessions : FailOrphan(s) \/ ReleaseHost(s)

Faults(w) ==
  \/ Crash(w) \/ HeartbeatStale(w)
  \/ \E i \in Pending : ResumeRefused(w, i)
  \/ \E s \in Sessions : RunFails(w, s)

-----------------------------------------------------------------------------

Init ==
  /\ task = "NEEDS_SPEC"
  /\ revision = [v \in Versions |-> "none"] /\ written = FALSE
  /\ session = [s \in Sessions |-> NoSession]
  /\ work = "none"
  /\ cmd = << >>
  /\ worker = [w \in Workers |-> "up"]
  /\ stale = [w \in Workers |-> FALSE]
  /\ run = [w \in Workers |-> [s \in Sessions |-> Idle]]
  /\ blocking = [w \in Workers |-> {}]
  /\ faults = 0

Next ==
  \/ User \/ Implementation \/ Sweeper
  \/ \E w \in Workers :
       Commands(w) \/ Runner(w) \/ Agent(w) \/ Restart(w) \/ Faults(w)

Spec == Init /\ [][Next]_vars

\* The consume phase of a worker runs again and again, a run goes on by itself
\* up to the turn of the agent, and the poll of a turn looks at the row.
\* Nothing is assumed of users, of agents or of a worker that is down.
Fairness ==
  \A w \in Workers :
    /\ WF_vars(Commands(w))
    /\ WF_vars(\E s \in Sessions :
                 OpenTurn(w, s) \/ Gone(w, s) \/ Revoke(w, s) \/ Forget(w, s))

FairSpec == Spec /\ Fairness

-----------------------------------------------------------------------------
(* Properties                                                              *)

RowsOK ==
  /\ task \in TaskStates
  /\ revision \in [Versions -> {"none", "draft", "approved", "superseded"}]
  /\ written \in BOOLEAN
  /\ work \in {"none", "running", "waiting"}
  /\ worker \in [Workers -> {"up", "down"}] /\ stale \in [Workers -> BOOLEAN]
  /\ faults \in 0 .. MaxFaults

SessionOK == session \in [Sessions -> [state : ExecutionStates \cup {"NONE"},
                                       host : Workers \cup {None},
                                       token : BOOLEAN, issue : BOOLEAN]]

Command == [kind : {"start", "message", "sent_back", "decision", "revision"},
            of : Sessions \cup {0}, by : Workers \cup {None, Lost}]
CmdOK == /\ cmd \in Seq(Command)
         /\ \A i \in Pending : cmd[i].of = 0 <=> cmd[i].kind \in {"start", "revision"}

RunOK == run \in [Workers -> [Sessions -> [phase : {"idle", "resuming", "preparing",
                                                   "session", "closing", "revoked"},
                                          from : ExecutionStates \cup {"NONE"}]]]

\* The registry has an entry for a run the worker has only, so no turn begins
\* with the issue of the turn before.
BlockingOK == /\ blocking \in [Workers -> SUBSET Sessions]
              /\ \A w \in Workers : \A s \in blocking[w] : run[w][s].phase # "idle"

TypeOK == RowsOK /\ SessionOK /\ CmdOK /\ RunOK /\ BlockingOK

\* Two spec agents never work on one draft: a restart, an older start command
\* and a send-back on its way to the COMPLETED session exclude each other,
\* however long the commands wait.
OneLiveSession == Cardinality(LiveSpec) <= 1

\* A live spec session means the user is drafting: no session starts or goes
\* on while the specification is reviewed, approved, implemented or cancelled,
\* although the commands that start and resume it were queued before.
LiveOnlyWhileDrafting == LiveSpec # {} => task = "SPEC_IN_PROGRESS"

\* What a reviewer reads is what gets approved: from the request to the
\* decision no tool call of a late agent, route or new session writes a text.
ReviewedIsFrozen == task = "SPEC_REVIEW" => ~written

\* There is one approved revision and one draft at most, and no draft is left
\* beside a task that may be implemented: reopening and approval see to it.
OneOfEach ==
  /\ Cardinality(WithStatus("approved")) <= 1 /\ Cardinality(WithStatus("draft")) <= 1
  /\ task \in {"SPEC_APPROVED", "READY", "BLOCKED", "IMPLEMENTING"}
       => HasApproved /\ ~HasDraft

\* finalize revokes the token before the run is forgotten, so it never takes
\* the token of the turn a later command started for the same session.
TurnHasToken ==
  \A w \in Workers, s \in Sessions :
    run[w][s].phase = "session" /\ session[s].state \in TurnStates => session[s].token

\* The session and its task fit each other, whatever was queued before: one
\* session, only while drafting, with the token of its own turn.
SessionFits == TypeOK /\ OneLiveSession /\ LiveOnlyWhileDrafting /\ TurnHasToken

\* What is reviewed, approved and implemented is one text, which nobody changes
\* in between.
RevisionsFit == OneOfEach /\ ReviewedIsFrozen

\* What makes SessionFits and RevisionsFit inductive.  A run is one of a worker
\* that is up, for a session that exists and is pinned to that worker, or to
\* none when it is in no turn; one that is about to resume read a state its
\* handler accepts, and an issue in the registry was raised in the turn of the
\* run.
RunFits ==
  /\ \A w \in Workers, s \in Sessions : run[w][s].phase # "idle" =>
       /\ Up(w) /\ session[s].state # "NONE"
       /\ session[s].host = w \/ (session[s].host = None /\ session[s].state \notin TurnStates)
       /\ run[w][s].phase = "resuming" =>
            run[w][s].from \in {"RUNNING", "WAITING_FOR_USER", "COMPLETED"}
  /\ \A w \in Workers : \A s \in blocking[w] :
       run[w][s].phase \in {"session", "closing", "revoked"}

AtMostOne(S) == \A x, y \in S : x = y

\* OneOfEach and ReviewedIsFrozen, as a step can rely on them.
OneText ==
  /\ AtMostOne(WithStatus("approved")) /\ AtMostOne(WithStatus("draft"))
  /\ task \in {"SPEC_APPROVED", "READY", "BLOCKED", "IMPLEMENTING"}
       => HasApproved /\ ~HasDraft
  /\ ~written

DraftInv == /\ TypeOK /\ RunFits /\ AtMostOne(LiveSpec)
            /\ LiveOnlyWhileDrafting /\ TurnHasToken /\ OneText

\* A send-back that reaches a COMPLETED session is not left behind while the
\* worker that holds the session is up: the run of the old turn is stopped and
\* forgotten, however often the command is unclaimed meanwhile, and the command
\* is then handled, unless the user takes the task elsewhere.
Owed ==
  /\ task = "SPEC_IN_PROGRESS" /\ LiveSpec = {}
  /\ \E s \in InState({"COMPLETED"}), i \in Pending :
       /\ session[s].host \in Workers /\ Up(session[s].host)
       /\ cmd[i].kind = "sent_back" /\ cmd[i].of = s /\ cmd[i].by # Lost

SentBackIsServed == Owed ~> ~Owed

-----------------------------------------------------------------------------
(* What the comments say of the program, each violated by a run            *)

\* apps/api/src/routes/spec.ts:189, "restart a spec session that failed or was
\* orphaned (for example after a dead-host release)": once the dead-host
\* release has taken the host of a session, nothing can bring it back, and the
\* user may start a new one.
ReleasedCanRestart ==
  \A s \in InState(LiveStates) : session[s].host = None => CanRestart

\* apps/api/src/routes/spec.ts:448, "Review can be requested once it is running
\* or has ended": the refusal of a session that is still starting is lifted.
StartingEnds == PendingStart ~> ~PendingStart
=============================================================================

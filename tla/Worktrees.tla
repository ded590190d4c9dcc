----------------------------- MODULE Worktrees -----------------------------
(***************************************************************************)
(* Where the executions of one task work: the git worktrees under work/    *)
(* and the branch they share in the bare clone, while the runner prepares, *)
(* resumes and retries and the worktree sweeper takes them away again.     *)
(*                                                                         *)
(* One worker process of one host.  Its repository lock makes each call of *)
(* the worktree manager one step, and so does the sweeper's transaction,   *)
(* which holds the row locks while it deletes on disk: only a crash comes  *)
(* between the two (CrashInRemoval).  A worktree is named by the execution *)
(* whose id is in its path.  A tip is the set of commits its history has   *)
(* beyond the default branch; a branch that does not exist has none.  The  *)
(* agent containers are in module Containers.                              *)
(***************************************************************************)
EXTENDS Naturals, FiniteSets, Transitions

CONSTANTS MaxRows,      \* bound on the executions of the task
          MaxCommits,   \* bound on the commits made for it
          SetupFails,   \* whether a setup_command may exit non-zero
          Patient       \* whether a task is reopened only once its runs have stopped
                        \* and its commands are handled

ASSUME WorkspaceAssumption ==
  /\ {MaxRows, MaxCommits} \subseteq Nat
  /\ {SetupFails, Patient} \subseteq BOOLEAN

Rows    == 1 .. MaxRows       \* in the order of created_at
Roles   == {"spec", "implementation"}
Commits == 1 .. MaxCommits

LiveStates  == {"QUEUED", "ASSIGNED", "RUNNING", "WAITING_FOR_USER"}
EndedStates == {"COMPLETED", "FAILED", "CANCELLED"}
UsingStates == {"QUEUED", "ASSIGNED", "RUNNING"}  \* WORKTREE_LIVE_STATES
Drafting    == {"NEEDS_SPEC", "SPEC_IN_PROGRESS", "SPEC_REVIEW"}
Over        == {"DONE", "CANCELLED"}

NoExecution == [role |-> "implementation", state |-> "NONE", path |-> 0,
                branch |-> FALSE, evicted |-> FALSE, prev |-> 0]
NoRun       == [phase |-> "none", from |-> "NONE"]
NoCandidate == [of |-> 0, tip |-> {}]

VARIABLES task,      \* tasks.state
          exec,      \* the executions: state, worktree_path, branch, worktree_evicted_at
          asked,     \* executions with a resume command not completed
          work,      \* the directories under work/, and what their HEAD is
          local,     \* the task's branch in the clone
          remote,    \* the task's branch on the remote
          run,       \* the runner's live map: how far each run is
          sw,        \* the candidate the sweeper pushed, and the tip its push saw
          kept,      \* history: the commits made, without those given up with an
                     \* ended execution or by a fresh attempt
          forsaken   \* history: a fresh attempt gave up commits nobody tried to push

db        == <<task, exec, asked>>
disk      == <<work, local, remote>>
memory    == <<run, sw>>
history   == <<kept, forsaken>>
treesVars == <<db, disk, memory, history>>

-----------------------------------------------------------------------------
(* Queries                                                                 *)

InState(S)   == {e \in Rows : exec[e].state \in S}
IsSpec(e)    == exec[e].role = "spec"
Alive(e)     == run[e].phase # "none"
Fresh        == {e \in Rows : exec[e].state = "NONE"}
NextRow      == CHOOSE e \in Fresh : \A f \in Fresh : e <= f
Present(d)   == d # 0 /\ work[d] # "none"
Unpushed     == local \ remote
Unused       == Commits \ (local \cup remote \cup kept)
NewCommit    == CHOOSE c \in Unused : \A d \in Unused : c <= d

\* previous of prepareAndRun: the failed attempt, else
\* loadLatestEarlierImplementation
Previous(e) ==
  IF exec[e].prev # 0 THEN exec[e].prev
  ELSE LET earlier == {f \in Rows : f < e /\ ~IsSpec(f)}
       IN  IF earlier = {} THEN 0 ELSE CHOOSE f \in earlier : \A g \in earlier : g <= f

HasBranch(p) == p # 0 /\ exec[p].branch

Phase(e, p) == run' = [run EXCEPT ![e].phase = p]
Leave(e)    == run' = [run EXCEPT ![e] = NoRun]

-----------------------------------------------------------------------------
(* What the other components do to the task and its executions             *)

Promote ==
  /\ task = "SPEC_APPROVED" /\ task' = "READY" /\ UNCHANGED <<exec, asked>>

Approve ==
  /\ task = "SPEC_REVIEW" /\ task' = "SPEC_APPROVED"
  /\ UNCHANGED <<exec, asked>>

\* request-review by the user, between the turns of a session too
RequestReview ==
  /\ task = "SPEC_IN_PROGRESS" /\ \E e \in Rows : IsSpec(e) /\ exec[e].state = "RUNNING"
  /\ task' = "SPEC_REVIEW"
  /\ exec' = [e \in Rows |-> IF IsSpec(e) /\ exec[e].state = "RUNNING"
                               THEN [exec[e] EXCEPT !.state = "COMPLETED"] ELSE exec[e]]
  /\ UNCHANGED <<asked>>

\* A resume command is left for e: an answer, a message, a send-back, a CI
\* failure.
Ask(e) == e \notin asked /\ asked' = asked \cup {e}

SendBack ==
  /\ task = "SPEC_REVIEW" /\ task' = "SPEC_IN_PROGRESS"
  /\ \E e \in InState({"COMPLETED"}) : IsSpec(e) /\ Ask(e)
  /\ UNCHANGED exec

\* POST /tasks/:id/spec/revise asks nothing of the session that wrote it.
Revise ==
  /\ task \in {"SPEC_APPROVED", "READY"} /\ task' = "SPEC_IN_PROGRESS"
  /\ UNCHANGED <<exec, asked>>

UserAnswers(e) ==
  /\ \/ exec[e].state = "WAITING_FOR_USER"
     \/ IsSpec(e) /\ exec[e].state = "RUNNING" /\ task = "SPEC_IN_PROGRESS"
  /\ Ask(e) /\ UNCHANGED <<task, exec>>

CiFails(e) ==
  /\ task = "CI_RUNNING" /\ exec[e].state = "COMPLETED" /\ ~IsSpec(e)
  /\ \A f \in Rows : f > e => exec[f].state = "NONE"
  /\ task' = "IMPLEMENTING" /\ Ask(e) /\ UNCHANGED exec

\* The pull request is merged, or closed; or CI failed too often.
PullRequestEnds ==
  /\ task = "CI_RUNNING" /\ task' \in {"DONE", "NEEDS_HUMAN"}
  /\ UNCHANGED <<exec, asked>>

HumanRetry ==
  /\ task = "NEEDS_HUMAN" /\ task' = "READY"
  /\ UNCHANGED <<exec, asked>>

Cancel ==
  /\ task \notin Over /\ task' = "CANCELLED"
  /\ exec' = [e \in Rows |-> IF exec[e].state \in LiveStates
                               THEN [exec[e] EXCEPT !.state = "CANCELLED"] ELSE exec[e]]
  /\ UNCHANGED <<asked>>

Reopen ==
  /\ task = "CANCELLED" /\ task' = "SPEC_APPROVED"
  /\ Patient => asked = {} /\ \A e \in Rows : ~Alive(e)
  /\ UNCHANGED <<exec, asked>>

Others ==
  /\ \/ Promote \/ Approve \/ RequestReview \/ SendBack \/ Revise
     \/ PullRequestEnds \/ HumanRetry \/ Cancel \/ Reopen
     \/ \E e \in Rows : UserAnswers(e) \/ CiFails(e)
  /\ UNCHANGED <<disk, memory, history>>

\* Someone pushes to the task's branch on the remote.
ColleaguePushes ==
  /\ Unused # {} /\ remote' = remote \cup {NewCommit} /\ kept' = kept \cup {NewCommit}
  /\ UNCHANGED <<db, work, local, memory, forsaken>>

-----------------------------------------------------------------------------
(* Failures of an attempt: endFailed, runFailurePolicy                     *)

\* rows' after e moved to FAILED, with the retry the policy inserted or not
WithRetry(e, rows) ==
  [rows EXCEPT ![NextRow] = [NoExecution EXCEPT !.state = "QUEUED", !.prev = e,
                                                !.branch = exec[e].branch]]

Fail(e) ==
  LET failed == [exec EXCEPT ![e].state = "FAILED"]
  IN  IF exec[e].state \notin {"ASSIGNED", "RUNNING"}
        THEN UNCHANGED <<task, exec>>
      ELSE IF IsSpec(e) \/ task # "IMPLEMENTING"
        THEN exec' = failed /\ UNCHANGED task
      ELSE \/ Fresh # {} /\ exec' = WithRetry(e, failed) /\ UNCHANGED task
           \/ exec' = failed /\ task' = "NEEDS_HUMAN"

\* Lease sweeper: the worker that ran e crashed.
LeaseExpires(e) ==
  /\ ~Alive(e) /\ ~IsSpec(e) /\ exec[e].state \in {"ASSIGNED", "RUNNING"}
  /\ Fail(e)
  /\ UNCHANGED <<asked, disk, memory, history>>

-----------------------------------------------------------------------------
(* Starting an attempt                                                     *)

\* claimReadyTask, and the runner's start in the same turn of the event loop
Claim ==
  /\ task = "READY" /\ Fresh # {} /\ InState(LiveStates) = {}
  /\ task' = "IMPLEMENTING"
  /\ exec' = [exec EXCEPT ![NextRow] = [NoExecution EXCEPT !.state = "ASSIGNED"]]
  /\ run' = [run EXCEPT ![NextRow].phase = "claimed"]
  /\ UNCHANGED <<asked, disk, sw, history>>

\* transferRetryWorktree
Transfer_KeepOld(e, p, rows) == [rows EXCEPT ![e].path = rows[p].path]

Transfer(e, p, rows) == [rows EXCEPT ![e].path = rows[p].path, ![p].path = 0]

\* claimNextRetry
ClaimRetry(e) ==
  /\ exec[e].state = "QUEUED" /\ task = "IMPLEMENTING"
  /\ InState(LiveStates) = {e}
  /\ LET p      == exec[e].prev
         pinned == [exec EXCEPT ![e].state = "ASSIGNED"]
     IN  exec' = IF exec[p].state = "FAILED" /\ ~exec[p].evicted /\ Present(exec[p].path)
                  THEN Transfer(e, p, pinned) ELSE pinned
  /\ Phase(e, "claimed")
  /\ UNCHANGED <<task, asked, disk, sw, history>>

\* startBody of a retry whose worktree was taken over: resumeRetry when the
\* adapter can resume the failed session, else a new session in it.
Reuse(e) ==
  /\ run[e].phase = "claimed" /\ Present(exec[e].path)
  /\ \/ /\ exec[e].state = "ASSIGNED"
        /\ exec' = [exec EXCEPT ![e].state = "RUNNING"] /\ Phase(e, "ensure")
     \/ /\ UNCHANGED exec /\ Phase(e, "ensure")
  /\ UNCHANGED <<task, asked, disk, sw, history>>

\* pushIfAhead: what a push makes of the remote branch
Diverged  == remote \ local # {} /\ Unpushed # {}
PushedTip == IF Unpushed # {} THEN local ELSE remote

\* pushPreviousBranch.  The push may fail, and is not tried for an attempt
\* that recorded no branch.
PushPrevious(e) ==
  /\ run[e].phase = "claimed" /\ ~IsSpec(e) /\ ~Present(exec[e].path)
  /\ LET p == Previous(e)
     IN  \/ HasBranch(p) /\ Phase(e, "pushed") /\ ~Diverged /\ remote' = PushedTip
         \/ HasBranch(p) /\ Phase(e, "pushed") /\ Unpushed # {} /\ UNCHANGED remote
         \/ ~HasBranch(p) /\ Phase(e, "untried") /\ UNCHANGED remote
  /\ UNCHANGED <<db, work, local, sw, history>>

Ready(e) == run[e].phase \in IF IsSpec(e) THEN {"claimed"} ELSE {"pushed", "untried"}

\* What the new start of the branch gives up.
GiveUp(e) ==
  /\ kept' = kept \ Unpushed
  /\ forsaken' = (forsaken \/ (run[e].phase = "untried" /\ Unpushed # {}))

\* prepareImplementation at d: the branch starts again from the remote, or
\* from the default branch, and is taken away from any other worktree.
CheckOut(d) ==
  /\ local' = remote
  /\ work' = [x \in Rows |-> IF x = d THEN "branch"
                             ELSE IF work[x] = "branch" THEN "detached" ELSE work[x]]

\* prepareSpec at d
CheckOutSpec(d) ==
  /\ work' = [work EXCEPT ![d] = "detached"]
  /\ UNCHANGED local

Prepare(e) ==
  /\ Ready(e)
  /\ IF IsSpec(e) THEN CheckOutSpec(e) /\ UNCHANGED history
                  ELSE CheckOut(e) /\ GiveUp(e)
  /\ Phase(e, "prepared")
  /\ UNCHANGED <<db, remote, sw>>

\* The fetch or the worktree add failed, or the setup_command did, which
\* leaves the worktree on disk.
PrepareFails(e) ==
  /\ Ready(e)
  /\ \/ UNCHANGED <<local, work, history>>
     \/ SetupFails /\ ~IsSpec(e) /\ CheckOut(e) /\ GiveUp(e)
  /\ Fail(e) /\ Leave(e)
  /\ UNCHANGED <<asked, remote, sw>>

\* setExecutionWorktree, with no look at the execution's state
Recorded(e) == [exec EXCEPT ![e].path = e, ![e].branch = ~IsSpec(e)]

Record(e) ==
  /\ run[e].phase = "prepared"
  /\ exec' = Recorded(e)
  /\ Phase(e, "ensure")
  /\ UNCHANGED <<task, asked, disk, sw, history>>

-----------------------------------------------------------------------------
(* Resuming an execution                                                   *)

Resumable(e) == \/ exec[e].state \in {"WAITING_FOR_USER", "COMPLETED"}
                \/ IsSpec(e) /\ exec[e].state = "RUNNING"

Refuse(e) == asked' = asked \ {e} /\ Leave(e)

\* resume() up to its first write
Load(e) ==
  /\ e \in asked /\ ~Alive(e)
  /\ IF Resumable(e) /\ exec[e].path # 0
       THEN /\ run' = [run EXCEPT ![e] =
                 [phase |-> IF exec[e].evicted THEN "restore" ELSE "loaded",
                  from  |-> exec[e].state]]
            /\ UNCHANGED asked
       ELSE Refuse(e)
  /\ UNCHANGED <<task, exec, disk, sw, history>>

\* The adapter cannot resume the session and its worktree is not there.
StartOver(e) ==
  /\ run[e].phase = "loaded" /\ ~IsSpec(e) /\ ~Present(exec[e].path)
  /\ Phase(e, "restore")
  /\ UNCHANGED <<db, disk, sw, history>>

Restore(e) ==
  /\ run[e].phase = "restore"
  /\ IF IsSpec(e) THEN CheckOutSpec(exec[e].path) ELSE CheckOut(exec[e].path)
  /\ Phase(e, "restored")
  /\ UNCHANGED <<db, remote, sw, history>>

\* removeLocked: the directory, and the branch unless it is checked out
\* elsewhere
RemoveWorktree(d, branch) ==
  /\ work' = [work EXCEPT ![d] = "none"]
  /\ local' = IF branch /\ \A x \in Rows \ {d} : work[x] # "branch" THEN {} ELSE local

\* The recreation failed: what it left is removed and nothing is written.
RestoreFails(e) ==
  /\ run[e].phase = "restore"
  /\ RemoveWorktree(exec[e].path, ~IsSpec(e))
  /\ Refuse(e)
  /\ UNCHANGED <<task, exec, remote, sw, history>>

\* restoreEvictedWorktreeRow
RecordRestored(e) ==
  /\ run[e].phase = "restored"
  /\ exec' = [exec EXCEPT ![e].evicted = FALSE]
  /\ Phase(e, "loaded")
  /\ UNCHANGED <<task, asked, disk, sw, history>>

\* The checks of the resume transaction.
MayResume(e) ==
  /\ exec[e].state = run[e].from /\ ~exec[e].evicted
  /\ IsSpec(e) /\ exec[e].state # "WAITING_FOR_USER" => task = "SPEC_IN_PROGRESS"

Resume(e) ==
  /\ run[e].phase = "loaded"
  /\ IF MayResume(e)
       THEN /\ exec' = [exec EXCEPT ![e].state = "RUNNING"]
            /\ asked' = asked \ {e}
            /\ run' = [run EXCEPT ![e] = [NoRun EXCEPT !.phase = "ensure"]]
       ELSE Refuse(e) /\ UNCHANGED exec
  /\ UNCHANGED <<task, disk, sw, history>>

-----------------------------------------------------------------------------
(* The run: its session, its end                                           *)

\* runSession, after prepareContainer: the token is issued to an ASSIGNED or
\* RUNNING row only, and the agent process needs its working directory.
Start(e) ==
  /\ run[e].phase = "ensure"
  /\ IF exec[e].state \notin {"ASSIGNED", "RUNNING"}
       THEN Leave(e) /\ UNCHANGED <<task, exec>>
     ELSE IF Present(exec[e].path)
       THEN /\ exec' = [exec EXCEPT ![e].state = "RUNNING"]
            /\ Phase(e, "session") /\ UNCHANGED task
     ELSE Fail(e) /\ Leave(e)
  /\ UNCHANGED <<asked, disk, sw, history>>

\* The container or the token failed.
StartFails(e) ==
  /\ run[e].phase = "ensure" /\ Fail(e) /\ Leave(e)
  /\ UNCHANGED <<asked, disk, sw, history>>

InSession(e) == run[e].phase = "session"

\* An agent that reported its pull request commits no more.
AgentCommits(e) ==
  /\ InSession(e) /\ ~IsSpec(e) /\ exec[e].state = "RUNNING"
  /\ Present(exec[e].path) /\ Unused # {}
  /\ kept' = kept \cup {NewCommit}
  /\ local' = IF work[exec[e].path] = "branch" THEN local \cup {NewCommit} ELSE local
  /\ UNCHANGED <<db, work, remote, memory, forsaken>>

AgentPushes(e) ==
  /\ InSession(e) /\ ~IsSpec(e) /\ Present(exec[e].path)
  /\ ~Diverged /\ remote' = PushedTip
  /\ UNCHANGED <<db, work, local, memory, history>>

\* report_pr_created, the reviews done
AgentCompletes(e) ==
  /\ InSession(e) /\ ~IsSpec(e) /\ exec[e].state = "RUNNING"
  /\ task = "IMPLEMENTING" /\ task' = "CI_RUNNING"
  /\ exec' = [exec EXCEPT ![e].state = "COMPLETED"]
  /\ UNCHANGED <<asked, disk, memory, history>>

\* A turn that raised a blocking issue is over, and the execution waits.
Pause(e) ==
  /\ exec[e].state = "RUNNING"
  /\ exec' = [exec EXCEPT ![e].state = "WAITING_FOR_USER"]
  /\ UNCHANGED task

\* The turn is over, or broke off.  An implementation that neither pauses nor
\* completed has failed; a spec session may stay RUNNING for the next turn.
TurnEnds(e) ==
  /\ InSession(e) /\ Leave(e)
  /\ Pause(e) \/ Fail(e) \/ (IsSpec(e) /\ UNCHANGED <<task, exec>>)
  /\ UNCHANGED <<asked, disk, sw, history>>

\* stopReason: the run of an execution that ended gives up at its next check.
Stop(e) ==
  /\ run[e].phase \in {"claimed", "pushed", "untried", "prepared", "ensure", "session"}
  /\ exec[e].state \in EndedStates
  /\ Leave(e)
  /\ UNCHANGED <<db, disk, sw, history>>

Runner ==
  \/ Claim
  \/ \E e \in Rows :
       \/ ClaimRetry(e) \/ Reuse(e) \/ PushPrevious(e) \/ Prepare(e) \/ PrepareFails(e)
       \/ Record(e) \/ Load(e) \/ StartOver(e) \/ Restore(e) \/ RestoreFails(e)
       \/ RecordRestored(e) \/ Resume(e) \/ Start(e) \/ StartFails(e)
       \/ TurnEnds(e) \/ Stop(e)

Agent == \E e \in Rows :
           AgentCommits(e) \/ AgentPushes(e) \/ AgentCompletes(e)

-----------------------------------------------------------------------------
(* The worktree sweeper.  Ages are left out: time passes between any two   *)
(* steps, and rule four asks for none.                                     *)

\* approvedSpecQuery
ApprovedSpec(e) == IsSpec(e) /\ exec[e].state = "COMPLETED" /\ task \notin Drafting

\* kindCondition, and the rule of approved specifications
RuleHolds_DoneOnly(e, kind) ==
  CASE kind = "approved_spec" -> ApprovedSpec(e)
    [] kind = "finished" -> task = "DONE" /\ exec[e].state \in EndedStates
    [] kind = "failed"   -> /\ exec[e].state = "FAILED" /\ task \notin {"READY", "NEEDS_HUMAN"}
                            /\ InState(LiveStates) = {}
    [] kind = "idle"     -> exec[e].state = "WAITING_FOR_USER" \/ task = "NEEDS_HUMAN"

RuleHolds(e, kind) ==
  CASE kind = "approved_spec" -> ApprovedSpec(e)
    [] kind = "finished" -> task \in Over /\ exec[e].state \in EndedStates
    [] kind = "failed"   -> /\ exec[e].state = "FAILED" /\ task \notin {"READY", "NEEDS_HUMAN"}
                            /\ InState(LiveStates) = {}
    [] kind = "idle"     -> exec[e].state = "WAITING_FOR_USER" \/ task = "NEEDS_HUMAN"

\* candidateQuery
Candidate(e, kind) ==
  /\ exec[e].path # 0 /\ ~exec[e].evicted
  /\ exec[e].state \notin UsingStates \cup {"NONE"}
  /\ RuleHolds(e, kind)

\* Under the repository lock and the row locks the rule is asked again, so a
\* candidate of a rule that removes is modelled from there on.
Remove(e, kind) ==
  /\ sw = NoCandidate /\ kind # "idle" /\ Candidate(e, kind)
  /\ RemoveWorktree(exec[e].path, exec[e].branch)
  /\ exec' = [exec EXCEPT ![e].path = 0]                \* clearExecutionWorktree
  /\ kept' = kept \ Unpushed
  /\ UNCHANGED <<task, asked, remote, memory, forsaken>>

\* An eviction pushes first and holds nothing while it does.
MayEvict == ~Diverged

PushIdle(e) ==
  /\ sw = NoCandidate /\ Candidate(e, "idle")
  /\ IF exec[e].branch THEN MayEvict /\ remote' = (IF Diverged THEN remote ELSE PushedTip)
                      ELSE UNCHANGED remote
  /\ sw' = [of |-> e, tip |-> IF exec[e].branch THEN local ELSE {}]
  /\ UNCHANGED <<db, work, local, run, history>>

\* Then, under the locks: the execution is still idle, and the branch is where
\* the push left it.
StillIdle_TipUnchecked == Candidate(sw.of, "idle")

StillIdle_RowUnchecked == exec[sw.of].branch => local = sw.tip

StillIdle ==
  /\ Candidate(sw.of, "idle")
  /\ exec[sw.of].branch => local = sw.tip

\* markWorktreeEvicted: the path stays, for the recreation
MarkEvicted_Cleared(e) == exec' = [exec EXCEPT ![e].evicted = TRUE, ![e].path = 0]

MarkEvicted(e) == exec' = [exec EXCEPT ![e].evicted = TRUE]

Evict ==
  /\ sw # NoCandidate /\ sw' = NoCandidate
  /\ IF StillIdle
       THEN /\ RemoveWorktree(exec[sw.of].path, exec[sw.of].branch)
            /\ MarkEvicted(sw.of)
       ELSE UNCHANGED <<work, local, exec>>
  /\ UNCHANGED <<task, asked, remote, run, history>>

\* SKIP LOCKED found a row locked, or git failed: the next pass tries again.
Skip ==
  /\ sw # NoCandidate /\ sw' = NoCandidate
  /\ UNCHANGED <<db, disk, run, history>>

Kinds == {"approved_spec", "finished", "failed", "idle"}

Sweeper ==
  \/ Evict \/ Skip
  \/ \E e \in Rows : \/ \E kind \in Kinds : Remove(e, kind)
                     \/ PushIdle(e)

-----------------------------------------------------------------------------
(* The worker process crashes: its memory, its agents and its transaction  *)
(* are gone, what it did on disk stays.                                    *)

Restarted ==
  /\ run' = [e \in Rows |-> NoRun] /\ sw' = NoCandidate

Crash == Restarted /\ UNCHANGED <<db, disk, history>>

CrashInRemoval ==
  /\ \E e \in Rows, kind \in Kinds :
       /\ IF kind = "idle" THEN sw.of = e /\ StillIdle
                           ELSE sw = NoCandidate /\ Candidate(e, kind)
       /\ RemoveWorktree(exec[e].path, exec[e].branch)
       /\ kept' = IF kind = "idle" THEN kept ELSE kept \ Unpushed
  /\ Restarted
  /\ UNCHANGED <<db, remote, forsaken>>

-----------------------------------------------------------------------------
\* A specification is being drafted, or the task is ready.
TreesInit ==
  /\ \/ /\ task = "SPEC_IN_PROGRESS"
        /\ exec = [e \in Rows |-> IF e = 1 THEN [NoExecution EXCEPT !.role = "spec",
                                                                      !.state = "ASSIGNED"]
                                  ELSE NoExecution]
        /\ run = [e \in Rows |-> IF e = 1 THEN [NoRun EXCEPT !.phase = "claimed"]
                                 ELSE NoRun]
     \/ /\ task = "READY" /\ exec = [e \in Rows |-> NoExecution] /\ run = [e \in Rows |-> NoRun]
  /\ asked = {}
  /\ work = [d \in Rows |-> "none"] /\ local = {} /\ remote = {}
  /\ sw = NoCandidate
  /\ kept = {} /\ forsaken = FALSE

TreesNext == \/ Others \/ ColleaguePushes \/ Runner \/ Agent \/ Sweeper
             \/ Crash \/ CrashInRemoval
             \/ \E e \in Rows : LeaseExpires(e)

TreesSpec == TreesInit /\ [][TreesNext]_treesVars

\* A pass of the sweeper visits every candidate, and git does not fail for ever.
TreesFairness == WF_treesVars(Evict \/ Skip) /\ \A e \in Rows : SF_treesVars(Remove(e, "finished"))

TreesFairSpec == TreesSpec /\ TreesFairness

-----------------------------------------------------------------------------
(* Properties                                                              *)

TreesTypeOK ==
  /\ task \in TaskStates
  /\ exec \in [Rows -> [role : Roles, state : ExecutionStates \cup {"NONE"},
                        path : 0 .. MaxRows, branch : BOOLEAN, evicted : BOOLEAN,
                        prev : 0 .. MaxRows]]
  /\ \A e \in Rows : exec[e].evicted => exec[e].path # 0
  /\ asked \subseteq Rows
  /\ work \in [Rows -> {"none", "branch", "detached"}]
  /\ {local, remote, kept} \subseteq SUBSET Commits
  /\ sw = NoCandidate \/ sw \in [of : Rows, tip : SUBSET Commits]

\* C31: no two executions record the same worktree, so the removal of one is
\* never the removal of another's.
OneOwner == \A e, f \in Rows : exec[e].path = exec[f].path /\ exec[e].path # 0 => e = f

\* The agent of a RUNNING execution has its worktree on disk, and an
\* implementation's has the task's branch: no eviction, removal or preparation
\* took it while the row said it was in use.
WorksOnItsBranch ==
  \A e \in Rows : InSession(e) /\ exec[e].state = "RUNNING" =>
                    IF IsSpec(e) THEN Present(exec[e].path) ELSE work[exec[e].path] = "branch"

\* Every run has the worktree it needs, and has it alone.
TreesFit == TreesTypeOK /\ OneOwner /\ WorksOnItsBranch

\* Every commit is on the remote or on the local branch, through evictions,
\* recreations, retries and crashes, but for those a fresh attempt gave up and
\* those the rules remove with an ended execution.
SweepKeepsWork ==
  kept \subseteq local \cup remote

\* "A retry never prepares a new worktree while that one exists, so no unpushed
\* commit is lost": a fresh attempt drops only what could not be pushed.
RetryKeepsWork == ~forsaken

\* The worktree an ended execution recorded is gone some time after its task is
\* over, unless the task is reopened.
Leftover(e) == /\ task \in Over /\ exec[e].state \in EndedStates
               /\ Present(exec[e].path) /\ ~exec[e].evicted

LeftoversGo == \A e \in Rows : Leftover(e) ~> ~Leftover(e)

\* design.md 6.6, "task DONE or CANCELLED, execution ended > 24h ago: remove
\* worktree and local branch": an execution that ended, and that no run works
\* for, has recorded what is on disk for it, so the rule can find it.
NothingForgotten ==
  \A d \in Rows : (Present(d) /\ exec[d].state \in EndedStates /\ ~Alive(d)) =>
                    \E e \in Rows : exec[e].path = d

-----------------------------------------------------------------------------
(* Why they fit                                                            *)

Preparing == {"claimed", "pushed", "untried", "prepared"}
Loading   == {"restore", "restored", "loaded"}

RunsFit ==
  run \in [Rows -> [phase : {"none", "ensure", "session"} \cup Preparing \cup Loading,
                    from : ExecutionStates \cup {"NONE"}]]

\* Rows are used in the order of their creation, and an unused one has nothing.
UnusedFit ==
  /\ \A e \in Rows : exec[e].state = "NONE" =>
       /\ exec[e] = NoExecution /\ run[e].phase = "none" /\ e \notin asked
  /\ \A e, f \in Rows : e < f /\ exec[e].state = "NONE" => exec[f].state = "NONE"

\* A failed execution has no run, and only then another one took its directory.
FailedRests == \A e \in Rows : exec[e].state = "FAILED" => run[e].phase = "none"
TakenOver   == \A e \in Rows : exec[e].path \notin {0, e} => exec[exec[e].path].state = "FAILED"

\* A retry that waits is of an implementation that failed.
RetryFits ==
  \A e \in Rows : exec[e].state = "QUEUED" =>
    /\ exec[e].prev # 0 /\ exec[exec[e].prev].state = "FAILED" /\ ~IsSpec(exec[e].prev)
    /\ exec[e].path = 0 /\ run[e].phase = "none" /\ ~IsSpec(e)
    /\ exec[e].branch = exec[exec[e].prev].branch

BranchFits == \A e \in Rows : IF IsSpec(e) THEN ~exec[e].branch ELSE exec[e].path # 0 => exec[e].branch

UsedFits == \A e \in Rows : exec[e].evicted => exec[e].state \notin UsingStates

\* Where the directories are named: no two rows name one.
PathsFit == /\ TreesTypeOK /\ RunsFit /\ UnusedFit /\ FailedRests /\ TakenOver /\ OneOwner
            /\ RetryFits /\ BranchFits /\ UsedFits

HasItsTree == \A e \in Rows : InSession(e) /\ exec[e].state = "RUNNING" => Present(exec[e].path)

\* An implementation that has, or may still get, the branch
Engaged(e) ==
  /\ ~IsSpec(e)
  /\ \/ exec[e].state \in LiveStates
     \/ run[e].phase \in Preparing \cup Loading
     \/ e \in asked /\ exec[e].state = "COMPLETED"

Latest(e) == exec[e].state # "NONE" /\ \A f \in Rows : e < f => exec[f].state = "NONE"

EngagedFits ==
  \A e \in Rows : Engaged(e) =>
    /\ Latest(e)
    /\ exec[e].state \notin LiveStates => task \in {"IMPLEMENTING", "CANCELLED"}

\* Who works was asked nothing.
AskedRest == \A e \in Rows : ~IsSpec(e) /\ exec[e].state \in UsingStates => e \notin asked

\* An implementation that is being started neither waits nor is completed.
StartingFits ==
  \A e \in Rows : ~IsSpec(e) /\ run[e].phase \in Preparing \cup {"ensure"} =>
                    exec[e].state \notin {"WAITING_FOR_USER", "COMPLETED"}

OnBranch(d) == Present(d) => work[d] = "branch"

BranchIsLatest ==
  \A e \in Rows : ~IsSpec(e) /\ Latest(e) =>
    /\ OnBranch(exec[e].path)
    /\ run[e].phase \in {"pushed", "untried"} => ~Present(exec[e].path)
    /\ run[e].phase = "prepared" => OnBranch(e)
    /\ exec[e].state = "QUEUED" => OnBranch(exec[exec[e].prev].path)

\* Where a recreation starts from the remote, nothing is lost.
NothingToLose ==
  \A e \in Rows : ~IsSpec(e) /\ Latest(e) =>
    \/ kept \subseteq remote
    \/ /\ ~exec[e].evicted /\ run[e].phase # "restore"
       /\ exec[e].state \in {"WAITING_FOR_USER", "COMPLETED"} \/ run[e].phase \in Loading
            => Present(exec[e].path)

\* What the sweeper pushed stays pushed.
TipPushed == sw.tip \subseteq remote

\* The inductive invariant, when the runs of a task stop before it is reopened.
TreesInv == /\ PathsFit /\ HasItsTree /\ EngagedFits /\ AskedRest /\ StartingFits
            /\ BranchIsLatest /\ NothingToLose /\ TipPushed /\ SweepKeepsWork
=============================================================================

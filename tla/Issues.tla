------------------------------- MODULE Issues -------------------------------
(***************************************************************************)
(* The issues of one implementation execution: the agent raises them, users *)
(* write on them and resolve them (routes/issues.ts), and the worker the    *)
(* execution is pinned to resumes it with their messages, their decisions   *)
(* and with the revision a decision led to (runner/issues.ts).  An issue    *)
(* belongs to its execution for ever: a retry raises its own.               *)
(***************************************************************************)
EXTENDS Integers, Sequences, SequencesExt, FiniteSetsExt

CONSTANTS MaxIssues,    \* bound on the issues the agent raises
          MaxMessages,  \* bound on the messages of users
          MaxFaults,    \* bound on resumes refused for good
          Hasty         \* may users ask for a revision while the answer to
                        \* another issue is still on its way to the agent?

ASSUME IssuesAssumption == /\ {MaxIssues, MaxMessages, MaxFaults} \subseteq Nat
                           /\ Hasty \in BOOLEAN

Ids == 1 .. MaxIssues

VARIABLES task,      \* tasks.state
          approved,  \* version of the approved revision
          draft,     \* is there a draft revision?
          exec,      \* the execution row: its state, its spec_revision_id
          issue,     \* issues, their messages and decisions, by id
          cmd,       \* execution_commands not completed, oldest first
          run,       \* the live run of the execution and the handler at work
          faults

rows == <<task, approved, draft, exec, issue, cmd>>
vars == <<rows, run, faults>>

\* sent: messages of users; heard: those an agent was resumed with; replies:
\* messages of the agent; told: how often it was resumed with the decision
NoIssue == [status |-> "none", blocking |-> FALSE, kind |-> "none",
            sent |-> 0, heard |-> 0, replies |-> 0, told |-> 0]

Raised(blocking) == [NoIssue EXCEPT !.status = "OPEN", !.blocking = blocking]

Idle == [phase |-> "idle", talk |-> 0, pending |-> FALSE, cmd |-> 0]

Open(i)      == issue[i].status = "OPEN"
OpenBlocking == {i \in Ids : Open(i) /\ issue[i].blocking}   \* hasOpenBlockingIssue
Waiting      == exec.state = "WAITING_FOR_USER"
Ended        == exec.state \in {"COMPLETED", "FAILED", "CANCELLED"}

Enqueue(kind, i) == Append(cmd, [kind |-> kind, issue |-> i, claimed |-> FALSE])

-----------------------------------------------------------------------------
(* Users: every route holds the task, execution and issue rows             *)

Messages == MapThenSumSet(LAMBDA i : issue[i].sent, Ids)

WithMessage(i) == [issue EXCEPT ![i].sent = @ + 1]

PostMessage(i) ==
  /\ Open(i) /\ Waiting /\ Messages < MaxMessages
  /\ issue' = WithMessage(i)
  /\ cmd' = Enqueue("message", i)
  /\ UNCHANGED <<task, approved, draft, exec, run, faults>>

\* resolveIssue, insertTaskDecision
Resolution(i, kind) == [issue[i] EXCEPT !.status = "RESOLVED", !.kind = kind]

\* writeResolution
WithResolution(i, kind) == [issue EXCEPT ![i] = Resolution(i, kind)]

ResolveNonBlocking(i) ==
  /\ Open(i) /\ ~issue[i].blocking
  /\ issue' = WithResolution(i, "note")
  /\ UNCHANGED <<task, approved, draft, exec, cmd, run, faults>>

AnswerAllowed_Always == TRUE
AnswerAllowed == Waiting

ResolveAsClarification(i) ==
  /\ Open(i) /\ issue[i].blocking /\ AnswerAllowed
  /\ issue' = WithResolution(i, "clarification")
  /\ cmd' = Enqueue("decision", i)
  /\ UNCHANGED <<task, approved, draft, exec, run, faults>>

\* supersedeOtherOpenIssues
Superseded_BlockingOnly(i) ==
  [j \in Ids |-> IF j # i /\ Open(j) /\ issue[j].blocking
                   THEN [issue[j] EXCEPT !.status = "SUPERSEDED"] ELSE issue[j]]
Superseded_None(i) == issue
Superseded(i) ==
  [j \in Ids |-> IF j # i /\ Open(j) THEN [issue[j] EXCEPT !.status = "SUPERSEDED"]
                 ELSE issue[j]]

AnswerOnItsWay == \E k \in DOMAIN cmd : cmd[k].kind = "decision"

ResolveAsRevision(i) ==
  /\ Hasty \/ ~AnswerOnItsWay
  /\ Open(i) /\ issue[i].blocking /\ Waiting
  /\ task = "IMPLEMENTING" /\ ~draft
  /\ issue' = [Superseded(i) EXCEPT ![i] = Resolution(i, "spec_revision")]
  /\ draft' = TRUE /\ task' = "SPEC_IN_PROGRESS"
  /\ UNCHANGED <<approved, exec, cmd, run, faults>>

RequestReview ==
  /\ task = "SPEC_IN_PROGRESS" /\ draft
  /\ task' = "SPEC_REVIEW"
  /\ UNCHANGED <<approved, draft, exec, issue, cmd, run, faults>>

\* The approval of a revision resumes a paused execution; without one the task
\* goes to its dependencies and to a new execution.
Approve_NoResume ==
  /\ task = "SPEC_REVIEW"
  /\ approved' = approved + 1 /\ draft' = FALSE
  /\ task' = IF Waiting THEN "IMPLEMENTING" ELSE "READY"
  /\ UNCHANGED <<exec, issue, cmd, run, faults>>
Approve_KeepsDraft ==
  /\ task = "SPEC_REVIEW"
  /\ approved' = approved + 1
  /\ \/ Waiting /\ task' = "IMPLEMENTING" /\ cmd' = Enqueue("revision", 0)
     \/ ~Waiting /\ task' = "READY" /\ UNCHANGED cmd
  /\ UNCHANGED <<draft, exec, issue, run, faults>>
Approve ==
  /\ task = "SPEC_REVIEW"
  /\ approved' = approved + 1 /\ draft' = FALSE
  /\ \/ Waiting /\ task' = "IMPLEMENTING" /\ cmd' = Enqueue("revision", 0)
     \/ ~Waiting /\ task' = "READY" /\ UNCHANGED cmd
  /\ UNCHANGED <<exec, issue, run, faults>>

Cancel ==
  /\ task # "CI_RUNNING" /\ ~Ended
  /\ task' = "CANCELLED"
  /\ exec' = [exec EXCEPT !.state = "CANCELLED"]
  /\ UNCHANGED <<approved, draft, issue, cmd, run, faults>>

User ==
  \/ \E i \in Ids : \/ PostMessage(i) \/ ResolveNonBlocking(i)
                    \/ ResolveAsClarification(i) \/ ResolveAsRevision(i)
  \/ RequestReview \/ Approve \/ Cancel

-----------------------------------------------------------------------------
(* The agent in its turn                                                   *)

InTurn == run.phase = "turn" /\ exec.state = "RUNNING"

\* A blocking issue moves nothing yet: the runner does when the turn ends.
RaiseIssue(i, blocking) ==
  /\ InTurn /\ issue[i].status = "none"
  /\ \A j \in 1 .. i - 1 : issue[j].status # "none"
  /\ issue' = [issue EXCEPT ![i] = Raised(blocking)]
  /\ run' = [run EXCEPT !.pending = @ \/ blocking]
  /\ UNCHANGED <<task, approved, draft, exec, cmd, faults>>

\* report_pr_created, after a clean review, completes the execution.
ReportPrCreated ==
  /\ InTurn /\ task = "IMPLEMENTING"
  /\ task' = "CI_RUNNING"
  /\ exec' = [exec EXCEPT !.state = "COMPLETED"]
  /\ UNCHANGED <<approved, draft, issue, cmd, run, faults>>

TurnEnds ==
  /\ run.phase = "turn"
  /\ run' = [run EXCEPT !.phase = "ended"]
  /\ UNCHANGED <<rows, faults>>

Agent ==
  \/ \E i \in Ids, b \in BOOLEAN : RaiseIssue(i, b)
  \/ ReportPrCreated \/ TurnEnds

-----------------------------------------------------------------------------
(* The run after its turn                                                  *)

\* captureReply: the answer goes to the issue of the conversation while it is
\* OPEN; an answer without text is not stored.
WithReply(i)      == [issue EXCEPT ![i].replies = @ + 1]
Replied_Anyway(i) == WithReply(i)
Replied(i)        == IF Open(i) THEN WithReply(i) ELSE issue

CaptureReply ==
  \/ UNCHANGED issue
  \/ run.talk # 0 /\ exec.state = "RUNNING" /\ issue' = Replied(run.talk)

\* After a turn about an issue the open blocking issues hold the execution.
Holding == run.talk # 0 /\ OpenBlocking # {}

AfterTurnState ==
  IF exec.state # "RUNNING" THEN exec.state
  ELSE IF run.pending \/ Holding THEN "WAITING_FOR_USER" ELSE "FAILED"   \* protocol_violation

AfterTurn ==
  /\ run.phase = "ended"
  /\ CaptureReply
  /\ exec' = [exec EXCEPT !.state = AfterTurnState]
  /\ run' = [run EXCEPT !.phase = "closing"]
  /\ UNCHANGED <<task, approved, draft, cmd, faults>>

Forget ==
  /\ run.phase = "closing"
  /\ run' = [run EXCEPT !.phase = "idle", !.talk = 0, !.pending = FALSE]
  /\ UNCHANGED <<rows, faults>>

-----------------------------------------------------------------------------
(* The consume phase of the worker                                         *)

Claimed(k) == k \in DOMAIN cmd /\ cmd[k].claimed
First(k)   == Claimed(k) /\ \A j \in 1 .. k - 1 : ~cmd[j].claimed

\* claimExecutionCommands, when the batch of the last tick is done
Tick ==
  /\ run.cmd = 0 /\ cmd # << >> /\ \A k \in DOMAIN cmd : ~cmd[k].claimed
  /\ cmd' = [k \in DOMAIN cmd |-> [cmd[k] EXCEPT !.claimed = TRUE]]
  /\ UNCHANGED <<task, approved, draft, exec, issue, run, faults>>

CompleteCommand_Forgotten(k) == cmd' = [cmd EXCEPT ![k].claimed = FALSE]
CompleteCommand(k) == cmd' = RemoveAt(cmd, k)
Unclaim_Dropped(k) == cmd' = RemoveAt(cmd, k)
Unclaim(k) == cmd' = [cmd EXCEPT ![k].claimed = FALSE]

\* checkExecution: a live run leaves the command for a later tick.
TurnInFlight(k) ==
  /\ First(k) /\ run.cmd = 0 /\ run.phase # "idle"
  /\ Unclaim(k)
  /\ UNCHANGED <<task, approved, draft, exec, issue, run, faults>>

StillOpen(k) == cmd[k].kind = "message" => Open(cmd[k].issue)

Resumable(k) == run.phase = "idle" /\ Waiting /\ StillOpen(k)

\* Nothing to do: the execution waits for nobody, or the issue was closed.
Skip(k) ==
  /\ First(k) /\ run.cmd = 0 /\ run.phase = "idle" /\ ~Resumable(k)
  /\ CompleteCommand(k)
  /\ UNCHANGED <<task, approved, draft, exec, issue, run, faults>>

\* resume() is called: the execution is in the live map, its transaction is
\* to come.
BeginResume(k) ==
  /\ First(k) /\ run.cmd = 0 /\ Resumable(k)
  /\ run' = [run EXCEPT !.phase = "loading", !.cmd = k]
  /\ UNCHANGED <<rows, faults>>

Resuming(k) == k \in DOMAIN cmd /\ run.phase = "loading" /\ run.cmd = k

\* The transaction reads the state and the issue again: NOT_RESUMABLE_STATE
\* and ISSUE_NOT_OPEN skip the command.
Refused(k) ==
  /\ Resuming(k) /\ ~(Waiting /\ StillOpen(k))
  /\ CompleteCommand(k)
  /\ run' = Idle
  /\ UNCHANGED <<task, approved, draft, exec, issue, faults>>

\* issueMessagePrompt, decisionResumePrompt, revisionResumePrompt
Heard(i)   == [issue EXCEPT ![i].heard = @ + 1]
Decided(i) == [issue EXCEPT ![i].told = @ + 1]

\* What the resume prompt says: the message, the decision or the revision.
Told(c) ==
  CASE c.kind = "message"  -> Heard(c.issue)
    [] c.kind = "decision" -> Decided(c.issue)
    [] c.kind = "revision" -> issue

\* resume_with_revision moves the execution to the revision it names.
RunsOn(c) == IF c.kind = "revision" THEN approved ELSE exec.rev

Resumed(k) ==
  /\ Resuming(k) /\ Waiting /\ StillOpen(k)
  /\ exec' = [state |-> "RUNNING", rev |-> RunsOn(cmd[k])]
  /\ issue' = Told(cmd[k])
  /\ run' = [phase |-> "turn", pending |-> FALSE, cmd |-> 0,
             talk |-> IF cmd[k].kind = "message" THEN cmd[k].issue ELSE 0]
  /\ CompleteCommand(k)
  /\ UNCHANGED <<task, approved, draft, faults>>

\* NO_SESSION, CANNOT_RESUME: the session is gone for good.
SessionLost(k) ==
  /\ Resuming(k) /\ faults < MaxFaults /\ faults' = faults + 1
  /\ CompleteCommand(k)
  /\ run' = Idle
  /\ UNCHANGED <<task, approved, draft, exec, issue>>

Handle(k) == \/ TurnInFlight(k) \/ Skip(k) \/ BeginResume(k)
             \/ Refused(k) \/ Resumed(k)

Commands == Tick \/ \E k \in DOMAIN cmd : Handle(k)

-----------------------------------------------------------------------------

Init ==
  /\ task = "IMPLEMENTING" /\ approved = 1 /\ draft = FALSE
  /\ exec = [state |-> "RUNNING", rev |-> 1]
  /\ issue = [i \in Ids |-> NoIssue]
  /\ cmd = << >>
  /\ run = [Idle EXCEPT !.phase = "turn"]
  /\ faults = 0

Next ==
  \/ User \/ Agent \/ AfterTurn \/ Forget \/ Commands
  \/ \E k \in DOMAIN cmd : SessionLost(k)

Spec == Init /\ [][Next]_vars

\* The tick comes again and a run whose turn is over goes on by itself.
\* Nothing is assumed of users and of the agent.
Fairness == WF_vars(Commands) /\ WF_vars(AfterTurn \/ Forget)

FairSpec == Spec /\ Fairness

-----------------------------------------------------------------------------
(* Properties                                                              *)

TypeOK ==
  /\ task \in {"IMPLEMENTING", "SPEC_IN_PROGRESS", "SPEC_REVIEW", "READY",
               "CI_RUNNING", "CANCELLED"}
  /\ approved \in Nat /\ exec.rev \in 1 .. approved
  /\ task # "CANCELLED" => (draft <=> task \in {"SPEC_IN_PROGRESS", "SPEC_REVIEW"})
  /\ exec.state \in {"RUNNING", "WAITING_FOR_USER", "COMPLETED", "FAILED", "CANCELLED"}
  /\ \A i \in Ids :
       /\ issue[i].status \in {"none", "OPEN", "RESOLVED", "SUPERSEDED"}
       /\ issue[i].kind # "none" <=> issue[i].status = "RESOLVED"
       /\ issue[i].heard <= issue[i].sent
  /\ cmd \in Seq([kind : {"message", "decision", "revision"}, issue : Ids \cup {0},
                  claimed : BOOLEAN])
  /\ run.phase \in {"idle", "loading", "turn", "ended", "closing"}
  /\ run.cmd # 0 <=> run.phase = "loading"
  /\ exec.state = "RUNNING" => run.phase \in {"turn", "ended"}
  /\ faults \in 0 .. MaxFaults

\* A paused execution is waiting for somebody: for a user with an issue to
\* answer or a revision to approve, or for a command on its way to it; also
\* after conversations, superseded issues and commands that found it running.
WaitsForSomeone ==
  Waiting /\ faults = 0 => \/ OpenBlocking # {} \/ cmd # << >>
                           \/ task \in {"SPEC_IN_PROGRESS", "SPEC_REVIEW"}

\* The agent answers only what it was asked: every message of its on an issue
\* follows one of a user that a turn was opened with, and none is added to an
\* issue after it was resolved or superseded.
RepliesFollow ==
  /\ [](\A i \in Ids : issue[i].replies <= issue[i].heard)
  /\ [][\A i \in Ids : issue[i].status \in {"RESOLVED", "SUPERSEDED"}
                         => issue'[i].replies = issue[i].replies]_vars

\* A decision is told to the agent once, and only of the issue it is on.
ToldOnce == \A i \in Ids : issue[i].told <= (IF issue[i].kind = "clarification" THEN 1 ELSE 0)

\* design.md 10.4: "Execution stays WAITING_FOR_USER" from the resolution as a
\* revision to its approval: messages and issues of before do not resume it.
StaysPaused == task \in {"SPEC_IN_PROGRESS", "SPEC_REVIEW"} => exec.state # "RUNNING"

\* What is handed to CI was built on the approved revision: whatever was on its
\* way when it was approved, the execution is told of it before it goes on.
BuiltAsApproved == task = "CI_RUNNING" => exec.rev = approved

\* Asking the agent about a blocking issue is free: the turn of the answer
\* never ends the execution as a broken protocol.
TalkNeverFails ==
  [][run.talk # 0 /\ issue[run.talk].blocking /\ exec.state = "RUNNING"
       => exec'.state # "FAILED"]_vars

\* A decision on a blocking issue is not left behind a busy worker: the agent
\* is told, unless its execution is running or over.
AnswerIsHeard ==
  \A i \in Ids :
    issue[i].kind = "clarification" /\ issue[i].told = 0 /\ Waiting
      ~> issue[i].told > 0 \/ ~Waiting \/ faults > 0

\* A pause lasts while somebody has to act on it, and no longer.
PauseIsKept == TypeOK /\ WaitsForSomeone /\ StaysPaused

\* What people decide reaches the agent, once, before its work is handed on.
DecisionsCarry == ToldOnce /\ BuiltAsApproved

\* Talking about an issue is answered, costs nothing and leaves no answer behind.
TalkIsServed == RepliesFollow /\ TalkNeverFails /\ AnswerIsHeard

\* design.md 10.2: "Worker resumes the session, captures the reply, execution
\* returns to WAITING_FOR_USER".
TalkReturns == [][run.talk # 0 /\ exec.state = "RUNNING" => exec'.state # "FAILED"]_vars

\* An open blocking issue can still be answered.
OpenIsAnswerable == OpenBlocking # {} => ~Ended \/ task = "CANCELLED"

-----------------------------------------------------------------------------
(* Why a pause is kept                                                     *)

IssueRow == [status : {"none", "OPEN", "RESOLVED", "SUPERSEDED"}, blocking : BOOLEAN,
             kind : {"none", "note", "clarification", "spec_revision"},
             sent : Nat, heard : Nat, replies : Nat, told : Nat]

\* An id is not used before its issue is raised.  Messages and decisions are
\* about an issue, a revision is not.
RowsFit ==
  /\ issue \in [Ids -> IssueRow] /\ \A i \in Ids : issue[i].status = "none" => issue[i] = NoIssue
  /\ exec \in [state : {"RUNNING", "WAITING_FOR_USER", "COMPLETED", "FAILED", "CANCELLED"}, rev : Nat]
  /\ run \in [phase : {"idle", "loading", "turn", "ended", "closing"}, talk : Ids \cup {0},
              pending : BOOLEAN, cmd : Nat]
  /\ \A k \in DOMAIN cmd : cmd[k].issue = 0 <=> cmd[k].kind = "revision"

\* A message is heard as often as its command is carried out.
OnItsWay(i) == {k \in DOMAIN cmd : cmd[k].kind = "message" /\ cmd[k].issue = i}
HeardOnce == \A i \in Ids : issue[i].heard + Cardinality(OnItsWay(i)) <= issue[i].sent

\* A turn that raised a blocking issue ends with it open: who answers has to wait.
RaisedStaysOpen == run.pending /\ exec.state = "RUNNING" => OpenBlocking # {}

\* A pause does not end with a message: what it waits for is an open blocking
\* issue, a decision or a revision on its way, or a revision being written.
HasReason ==
  Waiting /\ faults = 0 => \/ OpenBlocking # {} \/ task \in {"SPEC_IN_PROGRESS", "SPEC_REVIEW"}
                           \/ \E k \in DOMAIN cmd : cmd[k].kind # "message"

\* A decision on its way is not told yet, and no other is on the same issue.
ToldNext ==
  \A k \in DOMAIN cmd : cmd[k].kind = "decision" =>
    /\ issue[cmd[k].issue].kind = "clarification" /\ issue[cmd[k].issue].told = 0
    /\ \A l \in DOMAIN cmd : cmd[l].kind = "decision" /\ cmd[l].issue = cmd[k].issue => l = k

\* The issue a turn talks about stays open while it is blocking, and the turn
\* owes it one answer to what it heard.
TalkFits ==
  /\ run.talk # 0 /\ exec.state = "RUNNING" /\ issue[run.talk].blocking => Open(run.talk)
  /\ run.phase \in {"idle", "loading"} => run.talk = 0
  /\ \A i \in Ids : IF run.talk = i /\ run.phase \in {"turn", "ended"}
                    THEN issue[i].replies < issue[i].heard ELSE issue[i].replies <= issue[i].heard

\* What holds of the talk, Hasty or not
TalkInv ==
  /\ TypeOK /\ RowsFit /\ HeardOnce /\ RaisedStaysOpen /\ HasReason /\ ToldNext /\ ToldOnce
  /\ TalkFits

\* Nothing could resume the execution, or be decided on, but a revision.
Hushed == (\A i \in Ids : ~Open(i)) /\ ~AnswerOnItsWay
Resumes(k) == k \in DOMAIN cmd /\ cmd[k].kind = "revision"

\* From the resolution as a revision to its approval nothing resumes the
\* execution, then the one command of the approval does, and an execution on an
\* earlier revision does not go on.
RevisionFirst ==
  /\ task \in {"SPEC_IN_PROGRESS", "SPEC_REVIEW"} => Hushed /\ \A k \in DOMAIN cmd : ~Resumes(k)
  /\ \A k \in DOMAIN cmd : Resumes(k) => /\ Hushed /\ exec.state # "RUNNING"
                                        /\ \A l \in DOMAIN cmd : Resumes(l) => l = k
  /\ task = "IMPLEMENTING" /\ exec.rev # approved => Hushed /\ exec.state # "RUNNING"

\* The inductive invariant, when nobody is hasty.
PauseInv == TalkInv /\ StaysPaused /\ RevisionFirst /\ BuiltAsApproved
=============================================================================

----------------------- MODULE ExecutionLifecycle_proofs -----------------------
(***************************************************************************)
(* Theorems about ExecutionLifecycle for every set of tasks, workers and   *)
(* executions and every limit.                                             *)
(***************************************************************************)
EXTENDS MCExecutionLifecycle, FiniteSetTheorems, TLAPS

LEMMA States ==
  /\ {"QUEUED", "ASSIGNED", "RUNNING", "WAITING_FOR_USER",
      "COMPLETED", "FAILED", "CANCELLED"} \subseteq ExecutionStates
  /\ "NONE" \notin ExecutionStates
  /\ {"SPEC_APPROVED", "READY", "IMPLEMENTING", "REVIEWING", "CI_RUNNING",
      "READY_FOR_MERGE", "DONE", "NEEDS_HUMAN", "CANCELLED"} \subseteq TaskStates
BY DEF ExecutionStates, TaskStates

LEMMA NoRowTyped ==
  /\ NoRow \in Row
  /\ \A t \in Tasks : NewRow(t) \in Row
BY States, LifecycleAssumption DEF NoRow, NewRow, Row, Reasons, Verdicts

LEMMA TypeInit == Init => TypeOK
<1> SUFFICES ASSUME Init PROVE TypeOK
  OBVIOUS
<1>1. TaskOK
  BY States DEF Init, TaskOK
<1>2. ExecOK
  BY States, NoRowTyped DEF Init, ExecOK, NoRow
<1>3. CmdOK
  BY DEF Init, CmdOK, NoCommand, Command
<1>4. LeaseOK
  BY DEF Init, LeaseOK, NoLease, Lease
<1>5. HostOK
  BY DEF Init, HostOK
<1>6. MemoryOK
  BY DEF Init, MemoryOK, Phases
<1> QED
  BY <1>1, <1>2, <1>3, <1>4, <1>5, <1>6 DEF TypeOK

-----------------------------------------------------------------------------
(* What one step may do to the rows                                        *)

\* The execution takes the task and its lease row from executions that do not
\* own it.
Takes(e) ==
  /\ lease'[exec'[e].task].exec = e
  /\ \A f \in Execs \ {e} : exec[f].task = exec'[e].task => exec[f].state \notin OwningStates

\* The failure of p is retried by the row e, which the policy allows.
RetryOf(p, e) ==
  /\ exec[p].state \in SlotStates /\ exec'[p].state = "FAILED"
  /\ exec'[e].task = exec[p].task
  /\ WithinBudget(p, exec'[p].reason)
  /\ exec'[e].used = IF exec'[p].reason \in InfraFailures THEN exec[p].used + 1 ELSE exec[p].used

\* A new row: claimed, or the retry of an execution that fails in this step.
Inserted(e) ==
  /\ exec[e].state = "NONE"
  /\ exec'[e].task \in Tasks /\ exec'[e].ci = 0 /\ exec'[e].reason = "none"
  /\ exec'[e].state = "QUEUED" \/ (exec'[e].state = "ASSIGNED" /\ Takes(e))
  /\ \A f \in Execs \ {e} : exec[f].state = "NONE" => exec'[f].state = "NONE"
  /\ IF exec'[e].of = NoExec THEN exec'[e].used = 0
     ELSE exec'[e].of \in Execs /\ RetryOf(exec'[e].of, e)

\* A row keeps its task, the attempt it retries and the retries counted before
\* it, and an end that is final with its reason.
Kept(r, s) ==
  /\ r.state = "NONE" <=> s.state = "NONE"
  /\ s.task = r.task /\ s.of = r.of /\ s.used = r.used /\ s.ci >= r.ci
  /\ r.state = "FAILED" => s.reason = r.reason
  /\ r.state \in {"FAILED", "CANCELLED"} => s.state = r.state

KeepsReason(r, s) == s.reason = r.reason \/ s.reason # "lease_expired"

\* An update that does not make the execution an owner of its task.
Updated(r, s) == /\ Kept(r, s) /\ KeepsReason(r, s)
                 /\ s.state \in OwningStates => r.state \in OwningStates

Swept(e) == /\ StillExpired(e) /\ Kept(exec[e], exec'[e])
            /\ exec'[e].state = "FAILED"

Started(e) == /\ Kept(exec[e], exec'[e]) /\ KeepsReason(exec[e], exec'[e])
              /\ Takes(e)

Regained(e) == /\ Kept(exec[e], exec'[e]) /\ KeepsReason(exec[e], exec'[e])
               /\ \E i \in CmdIds : cmd[i].kind = "ci" /\ cmd[i].exec = e

ExecStep ==
  /\ exec' \in [Execs -> Row]
  /\ \A e \in Execs : \/ exec'[e] = exec[e]
                      \/ Inserted(e)
                      \/ Updated(exec[e], exec'[e])
                      \/ Swept(e) \/ Started(e) \/ Regained(e)

LEMMA ExecSame ==
  ASSUME ExecOK, exec' = exec
  PROVE ExecStep
BY DEF ExecOK, ExecStep

LEMMA OneRowUpdated ==
  ASSUME ExecOK, NEW e \in Execs, NEW r \in Row, Updated(exec[e], r),
         exec' = [exec EXCEPT ![e] = r]
  PROVE ExecStep
BY DEF ExecOK, ExecStep

LEMMA Names ==
  ASSUME ExecOK, NEW e \in Execs, exec[e].state # "NONE"
  PROVE exec[e] \in Row /\ exec[e].task \in Tasks
BY DEF ExecOK, Row

LEMMA RetryRowTyped ==
  ASSUME ExecOK, NEW e \in Execs, exec[e].state # "NONE", NEW reason
  PROVE LET n == RetryRow(e, reason)
        IN  /\ n \in Row
            /\ n.state = "QUEUED" /\ n.task = exec[e].task /\ n.of = e
            /\ n.ci = 0 /\ n.reason = "none"
            /\ n.used = IF reason \in InfraFailures THEN exec[e].used + 1 ELSE exec[e].used
<1>1. exec[e] \in Row /\ exec[e].task \in Tasks
  BY Names
<1>2. NewRow(exec[e].task) \in Row
  BY <1>1, NoRowTyped
<1> DEFINE b == NewRow(exec[e].task)
           u == IF reason \in InfraFailures THEN exec[e].used + 1 ELSE exec[e].used
<1>3. RetryRow(e, reason) = [b EXCEPT !.of = e, !.used = u]
  BY DEF RetryRow
<1>4. u \in Nat
  BY <1>1 DEF Row
<1>5. b.state = "QUEUED" /\ b.task = exec[e].task /\ b.ci = 0 /\ b.reason = "none"
  BY DEF NewRow, NoRow
<1> HIDE DEF b, u
<1>6. LET r == [b EXCEPT !.of = e, !.used = u]
      IN  b \in Row => /\ r \in Row /\ r.of = e /\ r.state = b.state /\ r.task = b.task
                       /\ r.used = u /\ r.ci = b.ci /\ r.reason = b.reason
  BY <1>4 DEF Row
<1> QED
  BY <1>2, <1>3, <1>5, <1>6 DEF b, u

\* Fail: the row ends FAILED, and a retry within the budget inserts one row.
LEMMA FailStep ==
  ASSUME ExecOK, TaskOK, NEW e \in Execs, exec[e].state \in SlotStates,
         NEW reason \in Reasons, NEW token \in Workers \cup {NoWorker},
         reason # "lease_expired" \/ StillExpired(e),
         Fail(e, reason, token)
  PROVE ExecStep /\ TaskOK' /\ exec'[e].state = "FAILED"
<1> DEFINE r == [exec[e] EXCEPT !.state = "FAILED", !.reason = reason, !.token = token]
           ended == [exec EXCEPT ![e] = r]
<1>1. exec[e] \in Row /\ exec[e].task \in Tasks /\ exec[e].state \notin {"NONE", "FAILED", "CANCELLED"}
  BY Names DEF SlotStates
<1>2. r \in Row
  BY <1>1, States DEF Row
<1>3. Kept(exec[e], r) /\ r.state = "FAILED" /\ r.reason = reason
  BY <1>1 DEF Kept, Row
<1>4. ended = [exec EXCEPT ![e].state = "FAILED", ![e].reason = reason, ![e].token = token]
  BY DEF ExecOK, Row
<1>5. CASE Retried(e, reason)
  <2> DEFINE n == RetryRow(e, reason)
  <2>0. \E f \in Fresh : exec' = [ended EXCEPT ![f] = n]
    <3>1. \E f \in Fresh :
            exec' = [[exec EXCEPT ![e].state = "FAILED", ![e].reason = reason,
                                  ![e].token = token] EXCEPT ![f] = n]
      BY <1>5, Zenon DEF Fail
    <3> HIDE DEF ended, n
    <3> QED BY <1>4, <3>1
  <2>1. PICK f \in Fresh : exec' = [ended EXCEPT ![f] = n]
    BY <2>0
  <2>2. f \in Execs /\ f # e /\ exec[f].state = "NONE"
    BY <1>1 DEF Fresh
  <2>3. /\ n \in Row /\ n.state = "QUEUED" /\ n.task = exec[e].task
        /\ n.of = e /\ n.ci = 0 /\ n.reason = "none"
        /\ n.used = IF reason \in InfraFailures THEN exec[e].used + 1 ELSE exec[e].used
    BY <1>1, RetryRowTyped
  <2> HIDE DEF r, n
  <2>4. exec' \in [Execs -> Row]
    BY <1>2, <2>1, <2>3 DEF ExecOK
  <2>5. exec'[e] = r /\ exec'[f] = n /\ \A x \in Execs \ {e, f} : exec'[x] = exec[x]
    BY <2>1, <2>2 DEF ExecOK
  <2>6. Inserted(f)
    <3>1. WithinBudget(e, reason)
      BY <1>5 DEF Retried
    <3>2. RetryOf(e, f)
      BY <1>3, <2>2, <2>3, <2>5, <3>1 DEF RetryOf
    <3> QED
      BY <1>1, <1>3, <2>2, <2>3, <2>5, <3>2, LifecycleAssumption DEF Inserted
  <2>7. Updated(exec[e], exec'[e]) \/ Swept(e)
    BY <1>3, <2>5 DEF Updated, Swept, KeepsReason, OwningStates
  <2>8. task' = task
    BY <1>5 DEF Fail
  <2> QED
    BY <1>3, <2>4, <2>5, <2>6, <2>7, <2>8 DEF ExecStep, TaskOK
<1>6. CASE ~Retried(e, reason)
  <2>1. exec' = ended /\ task' = Escalated(exec[e].task)
    BY <1>4, <1>6 DEF Fail
  <2> HIDE DEF r
  <2>2. exec'[e] = r /\ \A x \in Execs \ {e} : exec'[x] = exec[x]
    BY <2>1 DEF ExecOK
  <2>3. Updated(exec[e], exec'[e]) \/ Swept(e)
    BY <1>3, <2>2 DEF Updated, Swept, KeepsReason, OwningStates
  <2>4. exec' \in [Execs -> Row]
    BY <1>2, <2>1 DEF ExecOK
  <2>5. TaskOK'
    BY <1>1, <2>1, States DEF Escalated, TaskOK
  <2> QED
    BY <1>3, <2>2, <2>3, <2>4, <2>5 DEF ExecStep
<1> QED
  BY <1>5, <1>6

\* Claim inserts the row of its execution.
LEMMA ClaimStep ==
  ASSUME TypeOK, NEW w \in Workers, NEW t \in Tasks, Claim(w, t)
  PROVE ExecStep
<1> DEFINE n == [NewRow(t) EXCEPT !.state = "ASSIGNED", !.host = w]
<1>1. /\ n \in Row /\ n.state = "ASSIGNED" /\ n.task = t
      /\ n.of = NoExec /\ n.ci = 0 /\ n.reason = "none" /\ n.used = 0
  <2>1. /\ NewRow(t) \in Row /\ NewRow(t).task = t
        /\ NewRow(t).of = NoExec /\ NewRow(t).ci = 0 /\ NewRow(t).reason = "none"
        /\ NewRow(t).used = 0
    BY NoRowTyped DEF NewRow, NoRow
  <2> QED
    BY <2>1, States DEF Row
<1>2. PICK e \in Fresh : /\ exec' = [exec EXCEPT ![e] = n]
                         /\ lease' = [lease EXCEPT ![t] = [exec |-> e, expired |-> FALSE]]
  BY Zenon DEF Claim
<1> HIDE DEF n
<1>3. e \in Execs /\ exec[e].state = "NONE"
  BY DEF Fresh
<1>4. exec' \in [Execs -> Row] /\ exec'[e] = n /\ \A x \in Execs \ {e} : exec'[x] = exec[x]
  BY <1>1, <1>2, <1>3 DEF TypeOK, ExecOK
<1>5. Takes(e)
  <2>1. LiveOf(t) = {}
    BY DEF Claim
  <2>2. \A f \in Execs : exec[f].task = t => exec[f].state \notin OwningStates
    BY <2>1 DEF LiveOf, Of, LiveStates, OwningStates
  <2>3. lease'[t].exec = e
    BY <1>2 DEF TypeOK, LeaseOK
  <2> QED
    BY <1>1, <1>4, <2>2, <2>3 DEF Takes
<1>6. Inserted(e)
  BY <1>1, <1>3, <1>4, <1>5 DEF Inserted
<1> QED
  BY <1>4, <1>6 DEF ExecStep

\* Steps that update one row, each by the row r they write.
LEMMA RowSteps ==
  ASSUME TypeOK, NEW w \in Workers, NEW e \in Execs
  PROVE /\ StartRetry(w, e) => ExecStep
        /\ ReleaseHost(w, e) => ExecStep
        /\ ResumeRetry(w, e) => ExecStep
        /\ IssueToken(w, e) => ExecStep
        /\ SessionStarted(w, e) => ExecStep
        /\ Finalize(w, e) => ExecStep
<1>0. ExecOK /\ exec[e] \in Row
  BY DEF TypeOK, ExecOK
<1>1. ASSUME StartRetry(w, e) PROVE ExecStep
  <2> DEFINE r == [exec[e] EXCEPT !.state = "ASSIGNED", !.host = w]
  <2>0. exec[e].state = "QUEUED"
    BY <1>1 DEF StartRetry
  <2>1. r \in Row
    BY <1>0, States DEF Row
  <2>2. Kept(exec[e], r) /\ KeepsReason(exec[e], r)
    BY <1>0, <2>0 DEF Row, Kept, KeepsReason
  <2>3. exec' = [exec EXCEPT ![e] = r]
    BY <1>0, <1>1 DEF StartRetry, ExecOK, Row
  <2> HIDE DEF r
  <2>4. exec' \in [Execs -> Row] /\ exec'[e] = r /\ \A x \in Execs \ {e} : exec'[x] = exec[x]
    BY <1>0, <2>1, <2>3 DEF ExecOK
  <2>5. exec[e].task \in Tasks /\ r.task = exec[e].task
    BY <1>0, <2>0, <2>2, Names DEF Kept
  <2>6. lease'[exec[e].task].exec = e
    BY <1>1, <2>5 DEF StartRetry, TypeOK, LeaseOK
  <2>7. \A f \in Execs \ {e} : exec[f].task = exec[e].task => exec[f].state \notin OwningStates
    BY <1>1 DEF StartRetry, NoOtherLive, LiveOf, Of, LiveStates, OwningStates
  <2>8. Started(e)
    BY <2>2, <2>4, <2>5, <2>6, <2>7 DEF Started, Takes
  <2> QED
    BY <2>4, <2>8 DEF ExecStep
<1>2. ASSUME ReleaseHost(w, e) PROVE ExecStep
  <2> DEFINE r == [exec[e] EXCEPT !.host = NoWorker]
  <2>1. r \in Row /\ Updated(exec[e], r)
    BY <1>0 DEF Row, Updated, Kept, KeepsReason, OwningStates
  <2>2. exec' = [exec EXCEPT ![e] = r]
    BY <1>0, <1>2 DEF ReleaseHost, ExecOK, Row
  <2> QED
    BY <1>0, <2>1, <2>2, OneRowUpdated
<1>3. ASSUME ResumeRetry(w, e) PROVE ExecStep
  <2> DEFINE r == [exec[e] EXCEPT !.state = "RUNNING"]
  <2>1. r \in Row /\ Updated(exec[e], r)
    BY <1>0, <1>3, States DEF ResumeRetry, Row, Updated, Kept, KeepsReason, OwningStates
  <2>2. exec' = [exec EXCEPT ![e] = r]
    BY <1>0, <1>3 DEF ResumeRetry, ExecOK, Row
  <2> QED
    BY <1>0, <2>1, <2>2, OneRowUpdated
<1>4. ASSUME IssueToken(w, e) PROVE ExecStep
  <2> DEFINE r == [exec[e] EXCEPT !.token = w]
  <2>1. r \in Row /\ Updated(exec[e], r)
    BY <1>0 DEF Row, Updated, Kept, KeepsReason, OwningStates
  <2>2. exec' = exec \/ exec' = [exec EXCEPT ![e] = r]
    BY <1>0, <1>4 DEF IssueToken, ExecOK, Row
  <2> QED
    BY <1>0, <2>1, <2>2, OneRowUpdated, ExecSame
<1>5. ASSUME SessionStarted(w, e) PROVE ExecStep
  <2> DEFINE r == [exec[e] EXCEPT !.state = "RUNNING"]
  <2>1. r \in Row /\ Updated(exec[e], r)
    BY <1>0, <1>5, States DEF SessionStarted, Row, Updated, Kept, KeepsReason, OwningStates
  <2>2. exec' = [exec EXCEPT ![e] = r]
    BY <1>0, <1>5 DEF SessionStarted, ExecOK, Row
  <2> QED
    BY <1>0, <2>1, <2>2, OneRowUpdated
<1>6. ASSUME Finalize(w, e) PROVE ExecStep
  <2> DEFINE r == [exec[e] EXCEPT !.token = NoWorker]
  <2>1. r \in Row /\ Updated(exec[e], r)
    BY <1>0 DEF Row, Updated, Kept, KeepsReason, OwningStates
  <2>2. exec' = [exec EXCEPT ![e] = r]
    BY <1>0, <1>6 DEF Finalize, ExecOK, Row
  <2> QED
    BY <1>0, <2>1, <2>2, OneRowUpdated
<1> QED
  BY <1>1, <1>2, <1>3, <1>4, <1>5, <1>6

\* The agent's tools.
LEMMA CallSteps ==
  ASSUME TypeOK, NEW w \in Workers, NEW e \in Execs
  PROVE /\ \A round \in Rounds : ReviewStarted(w, e, round) => ExecStep
        /\ \A round \in Rounds, v \in Verdicts : ReviewResult(w, e, round, v) => ExecStep
        /\ PrCreated(w, e) => ExecStep
        /\ ReportFailed(w, e) => ExecStep
        /\ RaiseIssue(w, e) => ExecStep
<1>0. ExecOK /\ exec[e] \in Row
  BY DEF TypeOK, ExecOK
<1>1. ASSUME NEW round \in Rounds, ReviewStarted(w, e, round) PROVE ExecStep
  <2> DEFINE r == [exec[e] EXCEPT !.round = round, !.verdict = "none"]
  <2>0. round \in Nat
    BY LifecycleAssumption DEF Rounds
  <2>1. r \in Row
    BY <1>0, <2>0 DEF Row, Verdicts
  <2>2. Updated(exec[e], r)
    BY <1>0 DEF Row, Updated, Kept, KeepsReason, OwningStates
  <2>3. exec' = [exec EXCEPT ![e] = r]
    BY <1>0, <1>1 DEF ReviewStarted, ExecOK, Row
  <2> QED
    BY <1>0, <2>1, <2>2, <2>3, OneRowUpdated
<1>2. ASSUME NEW round \in Rounds, NEW v \in Verdicts, ReviewResult(w, e, round, v)
      PROVE ExecStep
  <2> DEFINE q == IF exec[e].round = round THEN v ELSE exec[e].verdict
             r == [exec[e] EXCEPT !.verdict = q]
  <2>1. q \in Verdicts
    BY <1>0 DEF Row
  <2>2. exec' = [exec EXCEPT ![e] = r]
    BY <1>0, <1>2 DEF ReviewResult, ExecOK, Row
  <2> HIDE DEF q
  <2>3. r \in Row /\ Updated(exec[e], r)
    BY <1>0, <2>1 DEF Row, Updated, Kept, KeepsReason, OwningStates
  <2> QED
    BY <1>0, <2>2, <2>3, OneRowUpdated
<1>3. ASSUME PrCreated(w, e) PROVE ExecStep
  <2> DEFINE r == [exec[e] EXCEPT !.state = "COMPLETED", !.token = NoWorker]
  <2>0. exec[e].state = "RUNNING"
    BY <1>3 DEF PrCreated, Authorized
  <2>1. r \in Row
    BY <1>0, States DEF Row
  <2>2. Updated(exec[e], r)
    BY <1>0, <2>0 DEF Row, Updated, Kept, KeepsReason, OwningStates
  <2>3. exec' = [exec EXCEPT ![e] = r]
    BY <1>0, <1>3 DEF PrCreated, ExecOK, Row
  <2> QED
    BY <1>0, <2>1, <2>2, <2>3, OneRowUpdated
<1>4. ASSUME ReportFailed(w, e) PROVE ExecStep
  <2> DEFINE r == [exec[e] EXCEPT !.state = "FAILED", !.reason = "agent_gave_up",
                                  !.token = NoWorker]
  <2>0. exec[e].state = "RUNNING"
    BY <1>4 DEF ReportFailed, Authorized
  <2>1. r \in Row
    BY <1>0, States DEF Row, Reasons
  <2>2. Updated(exec[e], r)
    BY <1>0, <2>0 DEF Row, Updated, Kept, KeepsReason, OwningStates
  <2>3. exec' = [exec EXCEPT ![e] = r]
    BY <1>0, <1>4 DEF ReportFailed, ExecOK, Row
  <2> QED
    BY <1>0, <2>1, <2>2, <2>3, OneRowUpdated
<1>5. ASSUME RaiseIssue(w, e) PROVE ExecStep
  <2> DEFINE r == [exec[e] EXCEPT !.issues = exec[e].issues + 1]
  <2>1. r \in Row /\ Updated(exec[e], r)
    BY <1>0 DEF Row, Updated, Kept, KeepsReason, OwningStates
  <2>2. exec' = [exec EXCEPT ![e] = r]
    BY <1>0, <1>5 DEF RaiseIssue, ExecOK, Row
  <2> QED
    BY <1>0, <2>1, <2>2, OneRowUpdated
<1> QED
  BY <1>1, <1>2, <1>3, <1>4, <1>5

\* The answer to an issue.
LEMMA ResolveStep ==
  ASSUME TypeOK, NEW e \in Execs
  PROVE ResolveIssue(e) => ExecStep
<1>0. ExecOK /\ exec[e] \in Row
  BY DEF TypeOK, ExecOK
<1>1. ASSUME ResolveIssue(e) PROVE ExecStep
  <2> DEFINE r == [exec[e] EXCEPT !.issues = exec[e].issues - 1]
  <2>0. exec[e].issues > 0
    BY <1>1 DEF ResolveIssue
  <2>1. r \in Row /\ Updated(exec[e], r)
    BY <1>0, <2>0 DEF Row, Updated, Kept, KeepsReason, OwningStates
  <2>2. exec' = [exec EXCEPT ![e] = r]
    BY <1>0, <1>1 DEF ResolveIssue, ExecOK, Row
  <2> QED
    BY <1>0, <2>1, <2>2, OneRowUpdated
<1> QED
  BY <1>1

\* The poller finds a check run that failed.
LEMMA CiFailedStep ==
  ASSUME TypeOK, NEW t \in Tasks
  PROVE CiFailed(t) => ExecStep
<1>0. ExecOK
  BY DEF TypeOK
<1>1. ASSUME CiFailed(t) PROVE ExecStep
  <2> DEFINE e == pr[t]
             r == [exec[e] EXCEPT !.ci = exec[e].ci + 1]
  <2>0. e \in Execs /\ exec[e] \in Row
    BY <1>0, <1>1 DEF CiFailed, TypeOK, LeaseOK, ExecOK
  <2>1. exec' = [exec EXCEPT ![e] = r]
    BY <1>0, <1>1, <2>0 DEF CiFailed, ExecOK, Row
  <2>2. r \in Row /\ Updated(exec[e], r)
    BY <2>0 DEF Row, Updated, Kept, KeepsReason, OwningStates
  <2> QED
    BY <1>0, <2>0, <2>1, <2>2, OneRowUpdated
<1> QED
  BY <1>1

\* A cancellation ends every live execution of the task.
LEMMA CancelStep ==
  ASSUME TypeOK, NEW t \in Tasks
  PROVE Cancel(t) => ExecStep
<1>0. ExecOK
  BY DEF TypeOK
<1>1. ASSUME Cancel(t) PROVE ExecStep
  <2>1. \A e \in Execs : exec[e] \in Row /\ [exec[e] EXCEPT !.state = "CANCELLED"] \in Row
    BY <1>0, States DEF ExecOK, Row
  <2>2. exec' \in [Execs -> Row]
    BY <1>1, <2>1 DEF Cancel
  <2>3. ASSUME NEW e \in Execs PROVE exec'[e] = exec[e] \/ Updated(exec[e], exec'[e])
    <3>1. exec'[e] = IF e \in LiveOf(t) THEN [exec[e] EXCEPT !.state = "CANCELLED"] ELSE exec[e]
      BY <1>1 DEF Cancel
    <3>2. e \in LiveOf(t) => exec[e].state \in {"QUEUED", "ASSIGNED", "RUNNING", "WAITING_FOR_USER"}
      BY DEF LiveOf, LiveStates
    <3>3. exec[e] \in Row
      BY <2>1
    <3> QED
      BY <3>1, <3>2, <3>3 DEF Updated, Kept, KeepsReason, OwningStates, Row
  <2> QED
    BY <2>2, <2>3 DEF ExecStep
<1> QED
  BY <1>1

\* The command handlers.
LEMMA CommandSteps ==
  ASSUME TypeOK, NEW w \in Workers, NEW i \in CmdIds
  PROVE /\ BeginResume(w, i) => ExecStep
        /\ CommitResume(w, i) => ExecStep
<1>0. ExecOK
  BY DEF TypeOK
<1>1. ASSUME BeginResume(w, i) PROVE ExecStep
  <2> DEFINE e == cmd[i].exec
             r == [exec[e] EXCEPT !.host = w]
  <2>1. exec' = exec \/ (e \in Execs /\ exec' = [exec EXCEPT ![e] = r])
    BY <1>0, <1>1 DEF BeginResume, ExecOK, Row
  <2>2. e \in Execs => r \in Row /\ Updated(exec[e], r)
    BY <1>0 DEF ExecOK, Row, Updated, Kept, KeepsReason, OwningStates
  <2> QED
    BY <1>0, <2>1, <2>2, OneRowUpdated, ExecSame
<1>2. ASSUME CommitResume(w, i) PROVE ExecStep
  <2> DEFINE e == cmd[i].exec
             r == [exec[e] EXCEPT !.state = "RUNNING"]
  <2>0. e \in Execs
    BY <1>2 DEF CommitResume, NextInBatch, TypeOK, CmdOK
  <2>1. \/ exec' = exec
        \/ /\ exec' = [exec EXCEPT ![e] = r]
           /\ \/ exec[e].state = "WAITING_FOR_USER"
              \/ exec[e].state = "COMPLETED" /\ cmd[i].kind = "ci"
    BY <1>0, <1>2 DEF CommitResume, Resumable, ResumableState, ExecOK, Row
  <2>2. exec[e] \in Row /\ r \in Row
    BY <1>0, <2>0, States DEF ExecOK, Row
  <2>3. CASE exec[e].state = "WAITING_FOR_USER" /\ exec' = [exec EXCEPT ![e] = r]
    <3>1. Updated(exec[e], r)
      BY <2>2, <2>3 DEF Row, Updated, Kept, KeepsReason, OwningStates
    <3> QED
      BY <1>0, <2>0, <2>2, <2>3, <3>1, OneRowUpdated
  <2>4. CASE /\ exec[e].state = "COMPLETED" /\ cmd[i].kind = "ci"
             /\ exec' = [exec EXCEPT ![e] = r]
    <3>1. Kept(exec[e], r) /\ KeepsReason(exec[e], r)
      BY <2>2, <2>4 DEF Row, Kept, KeepsReason
    <3> HIDE DEF r
    <3>2. exec' \in [Execs -> Row] /\ exec'[e] = r /\ \A x \in Execs \ {e} : exec'[x] = exec[x]
      BY <1>0, <2>0, <2>2, <2>4 DEF ExecOK
    <3>3. Regained(e)
      BY <2>4, <3>1, <3>2 DEF Regained
    <3> QED
      BY <2>0, <3>2, <3>3 DEF ExecStep
  <2>5. CASE exec' = exec
    BY <1>0, <2>5, ExecSame
  <2> QED
    BY <2>1, <2>3, <2>4, <2>5
<1> QED
  BY <1>1, <1>2

\* The steps that may fail an execution.
LEMMA EndFailedStep ==
  ASSUME ExecOK, TaskOK, NEW e \in Execs, NEW reason \in Reasons, reason # "lease_expired",
         EndFailed(e, reason)
  PROVE ExecStep /\ TaskOK'
<1>1. CASE exec[e].state \in SlotStates
  <2>1. Fail(e, reason, exec[e].token) /\ exec[e].token \in Workers \cup {NoWorker}
    BY <1>1 DEF EndFailed, ExecOK, Row
  <2> QED
    BY <1>1, <2>1, FailStep
<1>2. CASE exec[e].state \notin SlotStates
  BY <1>2, ExecSame DEF EndFailed, TaskOK
<1> QED
  BY <1>1, <1>2

LEMMA SweepStep ==
  ASSUME TypeOK, NEW w \in Workers
  PROVE SweepLease(w) => ExecStep /\ TaskOK'
<1>0. ExecOK /\ TaskOK
  BY DEF TypeOK
<1>1. ASSUME SweepLease(w) PROVE ExecStep /\ TaskOK'
  <2> DEFINE s == swept[w]
  <2>1. s \in Execs
    BY <1>1 DEF SweepLease, TypeOK, MemoryOK
  <2>2. CASE StillExpired(s)
    <3>1. Fail(s, "lease_expired", NoWorker) /\ exec[s].state \in SlotStates
      BY <1>1, <2>2 DEF SweepLease, StillExpired, Renewable
    <3> HIDE DEF s
    <3> QED
      BY <1>0, <2>1, <2>2, <3>1, FailStep DEF Reasons, InfraFailures
  <2>3. CASE ~StillExpired(s)
    BY <1>0, <1>1, <2>3, ExecSame DEF SweepLease, TaskOK
  <2> QED
    BY <2>2, <2>3
<1> QED
  BY <1>1

LEMMA FailureSteps ==
  ASSUME TypeOK, NEW w \in Workers, NEW e \in Execs
  PROVE /\ SetupFails(w, e) => ExecStep /\ TaskOK'
        /\ EndTurn(w, e) => ExecStep /\ TaskOK'
        /\ \A reason \in TurnFailures : FailTurn(w, e, reason) => ExecStep /\ TaskOK'
<1>0. ExecOK /\ TaskOK /\ exec[e] \in Row
  BY DEF TypeOK, ExecOK
<1>1. ASSUME SetupFails(w, e) PROVE ExecStep /\ TaskOK'
  BY <1>0, <1>1, EndFailedStep DEF SetupFails, Reasons, InfraFailures
<1>2. ASSUME EndTurn(w, e) PROVE ExecStep /\ TaskOK'
  <2>1. CASE e \in blocking[w] /\ exec[e].state = "RUNNING"
    <3> DEFINE r == [exec[e] EXCEPT !.state = "WAITING_FOR_USER"]
    <3>1. r \in Row
      BY <1>0, States DEF Row
    <3>2. Updated(exec[e], r)
      BY <1>0, <2>1 DEF Row, Updated, Kept, KeepsReason, OwningStates
    <3>3. exec' = [exec EXCEPT ![e] = r] /\ task' = task
      BY <1>0, <1>2, <2>1 DEF EndTurn, ExecOK, Row
    <3> QED
      BY <1>0, <3>1, <3>2, <3>3, OneRowUpdated DEF TaskOK
  <2>2. CASE ~(e \in blocking[w] /\ exec[e].state = "RUNNING")
    BY <1>0, <1>2, <2>2, EndFailedStep DEF EndTurn, Reasons
  <2> QED
    BY <2>1, <2>2
<1>3. ASSUME NEW reason \in TurnFailures, FailTurn(w, e, reason) PROVE ExecStep /\ TaskOK'
  <2>1. reason \in Reasons /\ reason # "lease_expired"
    BY DEF TurnFailures, Reasons
  <2> QED
    BY <1>0, <1>3, <2>1, EndFailedStep DEF FailTurn
<1> QED
  BY <1>1, <1>2, <1>3

-----------------------------------------------------------------------------
(* Types of the other variables                                            *)

USE DEF rows, memory, hosts

RestOK == TaskOK /\ CmdOK /\ LeaseOK /\ HostOK /\ MemoryOK

LEMMA PhaseTyped ==
  ASSUME MemoryOK, NEW w \in Workers, NEW e \in Execs, NEW p \in Phases,
         run' = [run EXCEPT ![w][e] = p]
  PROVE run' \in [Workers -> [Execs -> Phases]]
BY DEF MemoryOK

LEMMA RenewedTyped ==
  ASSUME LeaseOK, NEW e
  PROVE Renewed(lease, e) \in [Tasks -> Lease]
BY DEF LeaseOK, Renewed, Lease

LEMMA RenewedByCallTyped ==
  ASSUME LeaseOK, NEW e
  PROVE RenewedByCall(e) \in [Tasks -> Lease]
BY RenewedTyped DEF RenewedByCall, LeaseOK

LEMMA EnqueueTyped ==
  ASSUME CmdOK, NEW e \in Execs, NEW kind \in {"ci", "decision"}, Enqueue(kind, e),
         batch' = batch
  PROVE CmdOK'
BY DEF CmdOK, Enqueue, Command

LEMMA LeaveTyped ==
  ASSUME CmdOK, MemoryOK, NEW w \in Workers, NEW i \in CmdIds, cmd[i].exec \in Execs,
         NEW status \in {"queued", "claimed", "done"}, Leave(w, i, status)
  PROVE CmdOK' /\ batch' \in [Workers -> SUBSET CmdIds]
<1>1. cmd' = [cmd EXCEPT ![i].status = status] /\ batch' = [batch EXCEPT ![w] = @ \ {i}]
  BY DEF Leave
<1>2. cmd' \in [CmdIds -> Command] /\ \A j \in CmdIds : cmd'[j].exec = cmd[j].exec
  BY <1>1 DEF CmdOK, Command
<1>3. \A j \in CmdIds \ {i} : cmd'[j] = cmd[j]
  BY <1>1 DEF CmdOK
<1>4. batch' \in [Workers -> SUBSET CmdIds] /\ \A v \in Workers : batch'[v] \subseteq batch[v]
  BY <1>1 DEF MemoryOK
<1> QED
  BY <1>2, <1>3, <1>4 DEF CmdOK

\* The scheduler and the sweeper.
LEMMA SchedulerTypes ==
  ASSUME TypeOK, NEW w \in Workers, NEW t \in Tasks
  PROVE /\ Promote(w, t) => RestOK'
        /\ Claim(w, t) => RestOK'
        /\ ListExpired(w, t) => RestOK'
<1> USE DEF TypeOK, RestOK, TaskOK, CmdOK, LeaseOK, HostOK, MemoryOK
<1>1. Promote(w, t) => RestOK'
  BY States DEF Promote
<1>2. Claim(w, t) => RestOK'
  BY States DEF Fresh, Lease, Phases, Claim
<1>3. ListExpired(w, t) => RestOK'
  BY DEF Lease, SlotStates, ListExpired
<1> QED
  BY <1>1, <1>2, <1>3

LEMMA RowSchedulerTypes ==
  ASSUME TypeOK, NEW w \in Workers, NEW e \in Execs
  PROVE /\ StartRetry(w, e) => RestOK'
        /\ ReleaseHost(w, e) => RestOK'
<1> USE DEF TypeOK, RestOK, TaskOK, CmdOK, LeaseOK, HostOK, MemoryOK
<1>1. StartRetry(w, e) => RestOK'
  BY Names DEF Lease, Phases, StartRetry
<1>2. ReleaseHost(w, e) => RestOK'
  BY DEF ReleaseHost
<1> QED
  BY <1>1, <1>2

LEMMA SweepTypes ==
  ASSUME TypeOK, NEW w \in Workers
  PROVE SweepLease(w) => RestOK'
<1> USE DEF TypeOK, RestOK, TaskOK, CmdOK, LeaseOK, HostOK, MemoryOK
<1>1. ASSUME SweepLease(w) PROVE RestOK'
  <2>1. TaskOK'
    BY <1>1, SweepStep
  <2>2. lease' \in [Tasks -> Lease]
    <3>1. NoLease \in Lease
      BY DEF NoLease, Lease
    <3>2. lease' = lease \/ lease' = [lease EXCEPT ![exec[swept[w]].task] = NoLease]
      BY <1>1 DEF SweepLease
    <3> QED
      BY <3>1, <3>2
  <2>3. swept' \in [Workers -> Execs \cup {NoExec}] /\ UNCHANGED <<pr, cmd, hosts, run, blocking, batch>>
    BY <1>1 DEF SweepLease
  <2> QED
    BY <2>1, <2>2, <2>3
<1> QED
  BY <1>1

\* The runner.
LEMMA RunnerTypes ==
  ASSUME TypeOK, NEW w \in Workers, NEW e \in Execs
  PROVE /\ SetupFails(w, e) => RestOK'
        /\ ResumeRetry(w, e) => RestOK'
        /\ IssueToken(w, e) => RestOK'
        /\ SessionStarted(w, e) => RestOK'
        /\ Renew(w, e) => RestOK'
        /\ Gone(w, e) => RestOK'
        /\ EndTurn(w, e) => RestOK'
        /\ \A reason \in TurnFailures : FailTurn(w, e, reason) => RestOK'
        /\ Finalize(w, e) => RestOK'
        /\ RunAborts(w, e) => RestOK'
<1> USE DEF TypeOK, RestOK, TaskOK, CmdOK, LeaseOK, HostOK, MemoryOK
<1>1. ASSUME SetupFails(w, e) PROVE RestOK'
  <2>1. TaskOK'
    BY <1>1, FailureSteps
  <2>2. run' \in [Workers -> [Execs -> Phases]] /\ UNCHANGED <<lease, pr, cmd, hosts, blocking, batch, swept>>
    BY <1>1 DEF SetupFails, Phases
  <2> QED
    BY <2>1, <2>2
<1>2. ResumeRetry(w, e) => RestOK'
  BY DEF ResumeRetry
<1>3. ASSUME IssueToken(w, e) PROVE RestOK'
  <2>1. run' \in [Workers -> [Execs -> Phases]]
    <3>1. \E p \in Phases : run' = [run EXCEPT ![w][e] = p]
      BY <1>3 DEF IssueToken, Phases
    <3> QED
      BY <3>1, PhaseTyped
  <2>2. UNCHANGED <<task, lease, pr, cmd, hosts, blocking, batch, swept>>
    BY <1>3 DEF IssueToken
  <2> QED
    BY <2>1, <2>2
<1>4. SessionStarted(w, e) => RestOK'
  BY DEF SessionStarted
<1>5. Renew(w, e) => RestOK'
  BY RenewedTyped DEF Renew
<1>6. Gone(w, e) => RestOK'
  BY DEF Phases, Gone
<1>7. ASSUME EndTurn(w, e) PROVE RestOK'
  <2>1. TaskOK'
    BY <1>7, FailureSteps
  <2>2. run' \in [Workers -> [Execs -> Phases]] /\ UNCHANGED <<lease, pr, cmd, hosts, blocking, batch, swept>>
    BY <1>7 DEF EndTurn, Phases
  <2> QED
    BY <2>1, <2>2
<1>8. ASSUME NEW reason \in TurnFailures, FailTurn(w, e, reason) PROVE RestOK'
  <2>1. TaskOK'
    BY <1>8, FailureSteps
  <2>2. run' \in [Workers -> [Execs -> Phases]] /\ UNCHANGED <<lease, pr, cmd, hosts, blocking, batch, swept>>
    BY <1>8 DEF FailTurn, Phases
  <2> QED
    BY <2>1, <2>2
<1>9. Finalize(w, e) => RestOK'
  BY DEF Phases, Finalize
<1>10. RunAborts(w, e) => RestOK'
  BY DEF Phases, RunAborts
<1> QED
  BY <1>1, <1>2, <1>3, <1>4, <1>5, <1>6, <1>7, <1>8, <1>9, <1>10

\* The tools.
LEMMA AgentTypes ==
  ASSUME TypeOK, NEW w \in Workers, NEW e \in Execs
  PROVE /\ \A round \in Rounds : ReviewStarted(w, e, round) => RestOK'
        /\ \A round \in Rounds, v \in Verdicts : ReviewResult(w, e, round, v) => RestOK'
        /\ PrCreated(w, e) => RestOK'
        /\ ReportFailed(w, e) => RestOK'
        /\ RaiseIssue(w, e) => RestOK'
<1> USE DEF TypeOK, RestOK, TaskOK, CmdOK, LeaseOK, HostOK, MemoryOK
<1>1. ASSUME NEW round \in Rounds, ReviewStarted(w, e, round) PROVE RestOK'
  <2>1. task' \in [Tasks -> TaskStates]
    BY <1>1, States DEF ReviewStarted
  <2>2. lease' \in [Tasks -> Lease] /\ UNCHANGED <<pr, cmd, hosts, memory>>
    BY <1>1, RenewedByCallTyped DEF ReviewStarted
  <2> QED
    BY <2>1, <2>2
<1>2. ASSUME NEW round \in Rounds, NEW v \in Verdicts, ReviewResult(w, e, round, v)
      PROVE RestOK'
  <2>1. task' \in [Tasks -> TaskStates]
    BY <1>2, States DEF ReviewResult
  <2>2. lease' \in [Tasks -> Lease] /\ UNCHANGED <<pr, cmd, hosts, memory>>
    BY <1>2, RenewedByCallTyped DEF ReviewResult
  <2> QED
    BY <2>1, <2>2
<1>3. ASSUME PrCreated(w, e) PROVE RestOK'
  <2>1. task' \in [Tasks -> TaskStates] /\ pr' \in [Tasks -> Execs \cup {NoExec}]
    BY <1>3, States DEF PrCreated
  <2>2. lease' \in [Tasks -> Lease] /\ UNCHANGED <<cmd, hosts, memory>>
    BY <1>3, RenewedByCallTyped DEF PrCreated
  <2> QED
    BY <2>1, <2>2
<1>4. ASSUME ReportFailed(w, e) PROVE RestOK'
  <2>1. task' \in [Tasks -> TaskStates]
    BY <1>4, States DEF ReportFailed, Escalated
  <2>2. lease' \in [Tasks -> Lease] /\ UNCHANGED <<pr, cmd, hosts, memory>>
    BY <1>4, RenewedByCallTyped DEF ReportFailed
  <2> QED
    BY <2>1, <2>2
<1>5. ASSUME RaiseIssue(w, e) PROVE RestOK'
  <2>1. blocking' \in [Workers -> SUBSET Execs]
    BY <1>5 DEF RaiseIssue
  <2>2. lease' \in [Tasks -> Lease] /\ UNCHANGED <<task, pr, cmd, hosts, run, batch, swept>>
    BY <1>5, RenewedByCallTyped DEF RaiseIssue
  <2> QED
    BY <2>1, <2>2
<1> QED
  BY <1>1, <1>2, <1>3, <1>4, <1>5

\* The poller, users and time.
LEMMA PollerTypes ==
  ASSUME TypeOK, NEW t \in Tasks
  PROVE /\ CiFailed(t) => RestOK'
        /\ CiPassed(t) => RestOK'
        /\ Merged(t) => RestOK'
        /\ ClosedUnmerged(t) => RestOK'
        /\ Cancel(t) => RestOK'
        /\ Reopen(t) => RestOK'
        /\ HumanRetry(t) => RestOK'
        /\ LeaseExpires(t) => RestOK'
<1> USE DEF TypeOK, RestOK, TaskOK, CmdOK, LeaseOK, HostOK, MemoryOK
<1>1. CiFailed(t) => RestOK'
  BY EnqueueTyped, States DEF CiFailed
<1>2. CiPassed(t) => RestOK'
  BY States DEF CiPassed
<1>3. Merged(t) => RestOK'
  BY States DEF Merged
<1>4. ClosedUnmerged(t) => RestOK'
  BY States DEF ClosedUnmerged
<1>5. Cancel(t) => RestOK'
  BY States DEF Cancel
<1>6. Reopen(t) => RestOK'
  BY States DEF Reopen
<1>7. HumanRetry(t) => RestOK'
  BY States DEF HumanRetry
<1>8. LeaseExpires(t) => RestOK'
  <2>1. ASSUME LeaseExpires(t) PROVE lease' \in [Tasks -> Lease]
    BY <2>1 DEF Lease, LeaseExpires
  <2> QED
    BY <2>1 DEF LeaseExpires
<1> HIDE DEF TypeOK, RestOK, TaskOK, CmdOK, LeaseOK, HostOK, MemoryOK
<1> QED
  BY <1>1, <1>2, <1>3, <1>4, <1>5, <1>6, <1>7, <1>8

LEMMA ResolveTypes ==
  ASSUME TypeOK, NEW e \in Execs
  PROVE ResolveIssue(e) => RestOK'
<1> USE DEF TypeOK, RestOK, TaskOK, CmdOK, LeaseOK, HostOK, MemoryOK
<1>1. ResolveIssue(e) => RestOK'
  BY EnqueueTyped DEF ResolveIssue
<1> QED
  BY <1>1

LEMMA ClaimCommandsTypes ==
  ASSUME TypeOK, NEW w \in Workers
  PROVE ClaimCommands(w) => RestOK'
<1> USE DEF TypeOK, RestOK, TaskOK, CmdOK, LeaseOK, HostOK, MemoryOK
<1>1. ASSUME ClaimCommands(w) PROVE RestOK'
  <2>1. Eligible(w) \subseteq CmdIds /\ \A i \in Eligible(w) : cmd[i].exec \in Execs
    BY DEF Eligible
  <2>2. cmd' \in [CmdIds -> Command] /\ \A j \in CmdIds : cmd'[j].exec = cmd[j].exec
    BY <1>1 DEF ClaimCommands, Command
  <2>3. \A j \in CmdIds : cmd'[j].status # "free" => cmd[j].exec \in Execs
    BY <1>1, <2>1 DEF ClaimCommands, Command
  <2>4. batch' = [batch EXCEPT ![w] = Eligible(w)]
    BY <1>1 DEF ClaimCommands
  <2>5. CmdOK' /\ batch' \in [Workers -> SUBSET CmdIds]
    BY <2>1, <2>2, <2>3, <2>4
  <2>6. UNCHANGED <<task, lease, pr, hosts, run, blocking, swept>>
    BY <1>1 DEF ClaimCommands
  <2> QED
    BY <2>5, <2>6
<1> QED
  BY <1>1

\* The command handlers.
LEMMA CommandTypes ==
  ASSUME TypeOK, NEW w \in Workers, NEW i \in CmdIds
  PROVE /\ BeginResume(w, i) => RestOK'
        /\ CommitResume(w, i) => RestOK'
        /\ ResumeRefused(w, i) => RestOK'
<1> USE DEF TypeOK, RestOK, TaskOK, CmdOK, LeaseOK, HostOK, MemoryOK
<1>1. ASSUME BeginResume(w, i) PROVE RestOK'
  <2>1. cmd[i].exec \in Execs
    BY <1>1 DEF BeginResume, NextInBatch
  <2>2. CASE Refusal(w, i) # "none"
    <3>1. Refusal(w, i) \in {"queued", "claimed", "done"}
      BY <2>2 DEF Refusal, RefusalOfCi, RefusalOfDecision
    <3>2. Leave(w, i, Refusal(w, i)) /\ run' = run
      BY <1>1, <2>2 DEF BeginResume
    <3>3. CmdOK' /\ batch' \in [Workers -> SUBSET CmdIds]
      BY <2>1, <3>1, <3>2, LeaveTyped
    <3>4. UNCHANGED <<task, lease, pr, hosts, blocking, swept>>
      BY <1>1 DEF BeginResume
    <3> QED
      BY <3>2, <3>3, <3>4
  <2>3. CASE Refusal(w, i) = "none"
    <3>1. run' \in [Workers -> [Execs -> Phases]]
      <4>1. run' = [run EXCEPT ![w][cmd[i].exec] = "loading"]
        BY <1>1, <2>3 DEF BeginResume
      <4> QED
        BY <2>1, <4>1, PhaseTyped DEF Phases
    <3>2. UNCHANGED <<cmd, batch, task, lease, pr, hosts, blocking, swept>>
      BY <1>1, <2>3 DEF BeginResume
    <3> QED
      BY <3>1, <3>2
  <2> QED
    BY <2>2, <2>3
<1>2. ASSUME CommitResume(w, i) PROVE RestOK'
  <2>1. cmd[i].exec \in Execs
    BY <1>2 DEF CommitResume, NextInBatch
  <2>2. \E status \in {"queued", "claimed", "done"} : Leave(w, i, status)
    BY <1>2 DEF CommitResume
  <2>3. CmdOK' /\ batch' \in [Workers -> SUBSET CmdIds]
    BY <2>1, <2>2, LeaveTyped
  <2>4. run' \in [Workers -> [Execs -> Phases]]
    <3>1. \E p \in Phases : run' = [run EXCEPT ![w][cmd[i].exec] = p]
      BY <1>2 DEF CommitResume, Phases
    <3> QED
      BY <2>1, <3>1, PhaseTyped
  <2>5. lease' \in [Tasks -> Lease]
    BY <1>2, RenewedTyped DEF CommitResume
  <2>6. UNCHANGED <<task, pr, hosts, blocking, swept>>
    BY <1>2 DEF CommitResume
  <2> QED
    BY <2>3, <2>4, <2>5, <2>6
<1>3. ASSUME ResumeRefused(w, i) PROVE RestOK'
  <2>1. cmd[i].exec \in Execs
    BY <1>3 DEF ResumeRefused, NextInBatch
  <2>2. \E status \in {"queued", "claimed", "done"} : Leave(w, i, status)
    BY <1>3 DEF ResumeRefused
  <2>3. CmdOK' /\ batch' \in [Workers -> SUBSET CmdIds]
    BY <2>1, <2>2, LeaveTyped
  <2>4. run' \in [Workers -> [Execs -> Phases]]
    BY <1>3, <2>1 DEF ResumeRefused, Phases
  <2>5. UNCHANGED <<task, lease, pr, hosts, blocking, swept>>
    BY <1>3 DEF ResumeRefused
  <2> QED
    BY <2>3, <2>4, <2>5
<1> QED
  BY <1>1, <1>2, <1>3

\* Faults.
LEMMA HostTypes ==
  ASSUME TypeOK, NEW w \in Workers
  PROVE /\ Crash(w) => RestOK'
        /\ Restart(w) => RestOK'
        /\ Freeze(w) => RestOK'
        /\ Thaw(w) => RestOK'
        /\ Heartbeat(w) => RestOK'
        /\ HeartbeatStale(w) => RestOK'
<1> USE DEF TypeOK, RestOK, TaskOK, CmdOK, LeaseOK, HostOK, MemoryOK
<1>1. Crash(w) => RestOK'
  BY DEF Phases, Crash
<1>2. Restart(w) => RestOK'
  BY DEF Restart
<1>3. Freeze(w) => RestOK'
  BY DEF Freeze
<1>4. Thaw(w) => RestOK'
  BY DEF Thaw
<1>5. Heartbeat(w) => RestOK'
  BY DEF Heartbeat
<1>6. HeartbeatStale(w) => RestOK'
  BY DEF HeartbeatStale
<1> QED
  BY <1>1, <1>2, <1>3, <1>4, <1>5, <1>6


-----------------------------------------------------------------------------
(* Every step                                                              *)

LEMMA NextStep ==
  ASSUME TypeOK, Next
  PROVE ExecStep /\ RestOK'
<1>0. ASSUME exec' = exec PROVE ExecStep
  BY <1>0, ExecSame DEF TypeOK
<1>1. ASSUME NEW w \in Workers, Scheduler(w) PROVE ExecStep /\ RestOK'
  <2>1. ASSUME NEW t \in Tasks, Promote(w, t) PROVE ExecStep /\ RestOK'
    <3>1. exec' = exec
      BY <2>1 DEF Promote
    <3> QED
      BY <1>0, <2>1, <3>1, SchedulerTypes
  <2>2. ASSUME NEW t \in Tasks, Claim(w, t) PROVE ExecStep /\ RestOK'
    BY <2>2, ClaimStep, SchedulerTypes
  <2>3. ASSUME NEW t \in Tasks, ListExpired(w, t) PROVE ExecStep /\ RestOK'
    <3>1. exec' = exec
      BY <2>3 DEF ListExpired
    <3> QED
      BY <1>0, <2>3, <3>1, SchedulerTypes
  <2>4. ASSUME NEW e \in Execs, StartRetry(w, e) PROVE ExecStep /\ RestOK'
    BY <2>4, RowSteps, RowSchedulerTypes
  <2>5. ASSUME NEW e \in Execs, ReleaseHost(w, e) PROVE ExecStep /\ RestOK'
    BY <2>5, RowSteps, RowSchedulerTypes
  <2>6. ASSUME SweepLease(w) PROVE ExecStep /\ RestOK'
    BY <2>6, SweepStep, SweepTypes
  <2>7. ASSUME Heartbeat(w) PROVE ExecStep /\ RestOK'
    <3>1. exec' = exec
      BY <2>7 DEF Heartbeat
    <3> QED
      BY <1>0, <2>7, <3>1, HostTypes
  <2> QED
    BY <1>1, <2>1, <2>2, <2>3, <2>4, <2>5, <2>6, <2>7 DEF Scheduler
<1>2. ASSUME NEW w \in Workers, Runner(w) PROVE ExecStep /\ RestOK'
  <2>1. ASSUME NEW e \in Execs, ResumeRetry(w, e) PROVE ExecStep /\ RestOK'
    BY <2>1, RowSteps, RunnerTypes
  <2>2. ASSUME NEW e \in Execs, IssueToken(w, e) PROVE ExecStep /\ RestOK'
    BY <2>2, RowSteps, RunnerTypes
  <2>3. ASSUME NEW e \in Execs, SessionStarted(w, e) PROVE ExecStep /\ RestOK'
    BY <2>3, RowSteps, RunnerTypes
  <2>4. ASSUME NEW e \in Execs, Renew(w, e) PROVE ExecStep /\ RestOK'
    <3>1. exec' = exec
      BY <2>4 DEF Renew
    <3> QED
      BY <1>0, <2>4, <3>1, RunnerTypes
  <2>5. ASSUME NEW e \in Execs, Gone(w, e) PROVE ExecStep /\ RestOK'
    <3>1. exec' = exec
      BY <2>5 DEF Gone
    <3> QED
      BY <1>0, <2>5, <3>1, RunnerTypes
  <2>6. ASSUME NEW e \in Execs, EndTurn(w, e) PROVE ExecStep /\ RestOK'
    BY <2>6, FailureSteps, RunnerTypes
  <2>7. ASSUME NEW e \in Execs, Finalize(w, e) PROVE ExecStep /\ RestOK'
    BY <2>7, RowSteps, RunnerTypes
  <2> QED
    BY <1>2, <2>1, <2>2, <2>3, <2>4, <2>5, <2>6, <2>7 DEF Runner
<1>3. ASSUME NEW w \in Workers, Agent(w) PROVE ExecStep /\ RestOK'
  <2>1. ASSUME NEW e \in Execs, PrCreated(w, e) PROVE ExecStep /\ RestOK'
    BY <2>1, CallSteps, AgentTypes
  <2>2. ASSUME NEW e \in Execs, ReportFailed(w, e) PROVE ExecStep /\ RestOK'
    BY <2>2, CallSteps, AgentTypes
  <2>3. ASSUME NEW e \in Execs, RaiseIssue(w, e) PROVE ExecStep /\ RestOK'
    BY <2>3, CallSteps, AgentTypes
  <2>4. ASSUME NEW e \in Execs, NEW round \in Rounds, ReviewStarted(w, e, round) PROVE ExecStep /\ RestOK'
    BY <2>4, CallSteps, AgentTypes
  <2>5. ASSUME NEW e \in Execs, NEW round \in Rounds, NEW v \in Verdicts,
              ReviewResult(w, e, round, v) PROVE ExecStep /\ RestOK'
    BY <2>5, CallSteps, AgentTypes
  <2> QED
    BY <1>3, <2>1, <2>2, <2>3, <2>4, <2>5 DEF Agent
<1>4. ASSUME NEW w \in Workers, Commands(w) \/ ResumeFault(w) PROVE ExecStep /\ RestOK'
  <2>1. ASSUME ClaimCommands(w) PROVE ExecStep /\ RestOK'
    <3>1. exec' = exec
      BY <2>1 DEF ClaimCommands
    <3> QED
      BY <1>0, <2>1, <3>1, ClaimCommandsTypes
  <2>2. ASSUME NEW i \in CmdIds, BeginResume(w, i) PROVE ExecStep /\ RestOK'
    BY <2>2, CommandSteps, CommandTypes
  <2>3. ASSUME NEW i \in CmdIds, CommitResume(w, i) PROVE ExecStep /\ RestOK'
    BY <2>3, CommandSteps, CommandTypes
  <2>4. ASSUME NEW i \in CmdIds, ResumeRefused(w, i) PROVE ExecStep /\ RestOK'
    <3>1. exec' = exec
      BY <2>4 DEF ResumeRefused
    <3> QED
      BY <1>0, <2>4, <3>1, CommandTypes
  <2> QED
    BY <1>4, <2>1, <2>2, <2>3, <2>4 DEF Commands, ResumeFault
<1>5. ASSUME NEW w \in Workers, Failures(w) \/ AbortFault(w) PROVE ExecStep /\ RestOK'
  <2>1. ASSUME NEW e \in Execs, SetupFails(w, e) PROVE ExecStep /\ RestOK'
    BY <2>1, FailureSteps, RunnerTypes
  <2>2. ASSUME NEW e \in Execs, NEW reason \in TurnFailures, FailTurn(w, e, reason) PROVE ExecStep /\ RestOK'
    BY <2>2, FailureSteps, RunnerTypes
  <2>3. ASSUME NEW e \in Execs, RunAborts(w, e) PROVE ExecStep /\ RestOK'
    <3>1. exec' = exec
      BY <2>3 DEF RunAborts
    <3> QED
      BY <1>0, <2>3, <3>1, RunnerTypes
  <2> QED
    BY <1>5, <2>1, <2>2, <2>3 DEF Failures, AbortFault
<1>6. ASSUME NEW w \in Workers, Crash(w) \/ Restart(w) \/ Freeze(w) \/ Thaw(w) \/ HeartbeatStale(w) PROVE ExecStep /\ RestOK'
  <2>1. ASSUME Crash(w) PROVE ExecStep /\ RestOK'
    <3>1. exec' = exec
      BY <2>1 DEF Crash
    <3> QED
      BY <1>0, <2>1, <3>1, HostTypes
  <2>2. ASSUME Restart(w) PROVE ExecStep /\ RestOK'
    <3>1. exec' = exec
      BY <2>2 DEF Restart
    <3> QED
      BY <1>0, <2>2, <3>1, HostTypes
  <2>3. ASSUME Freeze(w) PROVE ExecStep /\ RestOK'
    <3>1. exec' = exec
      BY <2>3 DEF Freeze
    <3> QED
      BY <1>0, <2>3, <3>1, HostTypes
  <2>4. ASSUME Thaw(w) PROVE ExecStep /\ RestOK'
    <3>1. exec' = exec
      BY <2>4 DEF Thaw
    <3> QED
      BY <1>0, <2>4, <3>1, HostTypes
  <2>5. ASSUME HeartbeatStale(w) PROVE ExecStep /\ RestOK'
    <3>1. exec' = exec
      BY <2>5 DEF HeartbeatStale
    <3> QED
      BY <1>0, <2>5, <3>1, HostTypes
  <2> QED
    BY <1>6, <2>1, <2>2, <2>3, <2>4, <2>5
<1>7. ASSUME NEW t \in Tasks, Poller(t) \/ Cancel(t) \/ Reopen(t) \/ HumanRetry(t) \/ LeaseExpires(t) PROVE ExecStep /\ RestOK'
  <2>1. ASSUME CiFailed(t) PROVE ExecStep /\ RestOK'
    BY <2>1, CiFailedStep, PollerTypes
  <2>2. ASSUME CiPassed(t) PROVE ExecStep /\ RestOK'
    <3>1. exec' = exec
      BY <2>2 DEF CiPassed
    <3> QED
      BY <1>0, <2>2, <3>1, PollerTypes
  <2>3. ASSUME Merged(t) PROVE ExecStep /\ RestOK'
    <3>1. exec' = exec
      BY <2>3 DEF Merged
    <3> QED
      BY <1>0, <2>3, <3>1, PollerTypes
  <2>4. ASSUME ClosedUnmerged(t) PROVE ExecStep /\ RestOK'
    <3>1. exec' = exec
      BY <2>4 DEF ClosedUnmerged
    <3> QED
      BY <1>0, <2>4, <3>1, PollerTypes
  <2>5. ASSUME Cancel(t) PROVE ExecStep /\ RestOK'
    BY <2>5, CancelStep, PollerTypes
  <2>6. ASSUME Reopen(t) PROVE ExecStep /\ RestOK'
    <3>1. exec' = exec
      BY <2>6 DEF Reopen
    <3> QED
      BY <1>0, <2>6, <3>1, PollerTypes
  <2>7. ASSUME HumanRetry(t) PROVE ExecStep /\ RestOK'
    <3>1. exec' = exec
      BY <2>7 DEF HumanRetry
    <3> QED
      BY <1>0, <2>7, <3>1, PollerTypes
  <2>8. ASSUME LeaseExpires(t) PROVE ExecStep /\ RestOK'
    <3>1. exec' = exec
      BY <2>8 DEF LeaseExpires
    <3> QED
      BY <1>0, <2>8, <3>1, PollerTypes
  <2> QED
    BY <1>7, <2>1, <2>2, <2>3, <2>4, <2>5, <2>6, <2>7, <2>8 DEF Poller
<1>8. ASSUME Resolve PROVE ExecStep /\ RestOK'
  <2>1. ASSUME NEW e \in Execs, ResolveIssue(e) PROVE ExecStep /\ RestOK'
    BY <2>1, ResolveStep, ResolveTypes
  <2> QED
    BY <1>8, <2>1 DEF Resolve
<1> QED
  BY <1>1, <1>2, <1>3, <1>4, <1>5, <1>6, <1>7, <1>8 DEF Next

\* A step of the system, and the stuttering step, keep every type and change
\* the rows by the law above.
LEMMA BoxStep ==
  ASSUME TypeOK, [Next]_vars
  PROVE ExecStep /\ TypeOK'
<1>1. CASE Next
  <2>1. ExecStep /\ RestOK'
    BY <1>1, NextStep
  <2>2. ASSUME NEW e \in Execs PROVE exec'[e].state = "NONE" <=> exec'[e].task = NoTask
    <3>1. exec[e].state = "NONE" <=> exec[e].task = NoTask
      BY DEF TypeOK, ExecOK
    <3>2. \/ exec'[e] = exec[e] \/ Inserted(e) \/ Kept(exec[e], exec'[e])
      BY <2>1 DEF ExecStep, Updated, Swept, Started, Regained
    <3>3. Inserted(e) => exec'[e].state # "NONE" /\ exec'[e].task # NoTask
      BY LifecycleAssumption DEF Inserted
    <3> QED
      BY <3>1, <3>2, <3>3 DEF Kept
  <2>3. ExecOK'
    BY <2>1, <2>2 DEF ExecStep, ExecOK
  <2> QED
    BY <2>1, <2>3 DEF TypeOK, RestOK
<1>2. CASE UNCHANGED vars
  <2>1. exec' = exec
    BY <1>2 DEF vars
  <2>2. ExecStep
    BY <2>1, ExecSame DEF TypeOK
  <2>3. TypeOK'
    BY <1>2 DEF vars, TypeOK, TaskOK, ExecOK, CmdOK, LeaseOK, HostOK, MemoryOK
  <2> QED
    BY <2>2, <2>3
<1> QED
  BY <1>1, <1>2

-----------------------------------------------------------------------------
(* What one step may do to the lease rows, the pull requests and the       *)
(* commands                                                                *)

\* A lease row goes to an execution that takes the task, or away from one that
\* the sweeper ends.
LeaseLaw ==
  \A t \in Tasks :
    \/ lease'[t].exec = lease[t].exec
    \/ \E e \in Execs : exec'[e].task = t /\ Takes(e)
    \/ lease[t].exec \in Execs /\ exec'[lease[t].exec].state = "FAILED"

PrLaw == \A t \in Tasks :
           pr'[t] = pr[t] \/ (pr'[t] \in Execs /\ exec[pr'[t]].state # "NONE")

CmdLaw ==
  \A i \in CmdIds :
    \/ cmd'[i].kind = cmd[i].kind /\ cmd'[i].exec = cmd[i].exec
    \/ cmd'[i].kind # "ci"
    \/ \E t \in Tasks : /\ cmd'[i].exec = pr[t] /\ pr[t] # NoExec
                        /\ exec'[pr[t]].ci > 0

LinkLaw == LeaseLaw /\ PrLaw /\ CmdLaw

LEMMA LinksSame ==
  ASSUME lease' = lease, pr' = pr, cmd' = cmd
  PROVE LinkLaw
BY DEF LinkLaw, LeaseLaw, PrLaw, CmdLaw

LEMMA RenewedKeepsExec ==
  ASSUME LeaseOK, NEW e, lease' = Renewed(lease, e)
  PROVE \A t \in Tasks : lease'[t].exec = lease[t].exec
BY DEF LeaseOK, Renewed, Lease

LEMMA LeaseRenewed ==
  ASSUME LeaseOK, NEW e, lease' \in {lease, Renewed(lease, e)}, pr' = pr, cmd' = cmd
  PROVE LinkLaw
BY RenewedKeepsExec DEF LinkLaw, LeaseLaw, PrLaw, CmdLaw

LEMMA SchedulerLinks ==
  ASSUME TypeOK, NEW w \in Workers, Scheduler(w)
  PROVE LinkLaw
<1>1. CASE \E t \in Tasks : Promote(w, t) \/ ListExpired(w, t)
  BY <1>1, LinksSame DEF Promote, ListExpired
<1>2. ASSUME NEW t \in Tasks, Claim(w, t) PROVE LinkLaw
  <2>1. PICK e \in Fresh :
          /\ exec' = [exec EXCEPT ![e] = [NewRow(t) EXCEPT !.state = "ASSIGNED", !.host = w]]
          /\ lease' = [lease EXCEPT ![t] = [exec |-> e, expired |-> FALSE]]
    BY <1>2, Zenon DEF Claim
  <2>2. e \in Execs /\ exec'[e].task = t
    <3>1. NewRow(t) \in Row /\ NewRow(t).task = t
      BY NoRowTyped DEF NewRow, NoRow
    <3> QED
      BY <2>1, <3>1 DEF Fresh, TypeOK, ExecOK, Row
  <2>3. lease'[t].exec = e /\ \A u \in Tasks \ {t} : lease'[u] = lease[u]
    BY <2>1 DEF TypeOK, LeaseOK
  <2>4. LiveOf(t) = {}
    BY <1>2 DEF Claim
  <2>5. Takes(e)
    BY <2>2, <2>3, <2>4 DEF Takes, LiveOf, Of, LiveStates, OwningStates
  <2>6. pr' = pr /\ cmd' = cmd
    BY <1>2 DEF Claim
  <2> QED
    BY <2>2, <2>3, <2>5, <2>6 DEF LinkLaw, LeaseLaw, PrLaw, CmdLaw
<1>3. ASSUME NEW e \in Execs, StartRetry(w, e) PROVE LinkLaw
  <2>1. exec[e] \in Row /\ exec[e].task \in Tasks
    BY <1>3, Names DEF StartRetry, TypeOK
  <2>2. exec'[e].task = exec[e].task
    BY <1>3, <2>1 DEF StartRetry, TypeOK, ExecOK, Row
  <2>3. /\ lease'[exec[e].task].exec = e
        /\ \A u \in Tasks \ {exec[e].task} : lease'[u] = lease[u]
    BY <1>3, <2>1 DEF StartRetry, TypeOK, LeaseOK
  <2>4. LiveOf(exec[e].task) \subseteq {e}
    BY <1>3 DEF StartRetry, NoOtherLive
  <2>5. Takes(e)
    BY <2>2, <2>3, <2>4 DEF Takes, LiveOf, Of, LiveStates, OwningStates
  <2>6. pr' = pr /\ cmd' = cmd
    BY <1>3 DEF StartRetry
  <2> QED
    BY <2>2, <2>3, <2>5, <2>6 DEF LinkLaw, LeaseLaw, PrLaw, CmdLaw
<1>4. CASE \E e \in Execs : ReleaseHost(w, e)
  BY <1>4, LinksSame DEF ReleaseHost
<1>5. CASE SweepLease(w)
  <2> DEFINE s == swept[w]
  <2>1. s \in Execs /\ pr' = pr /\ cmd' = cmd
    BY <1>5 DEF SweepLease, TypeOK, MemoryOK
  <2>2. CASE ~StillExpired(s)
    BY <1>5, <2>1, <2>2, LinksSame DEF SweepLease
  <2>3. CASE StillExpired(s)
    <3>1. /\ lease[exec[s].task].exec = s
          /\ exec[s].state \in SlotStates
          /\ lease' = [lease EXCEPT ![exec[s].task] = NoLease]
          /\ Fail(s, "lease_expired", NoWorker)
      BY <1>5, <2>3 DEF SweepLease, StillExpired, Renewable
    <3>2. exec'[s].state = "FAILED"
      BY <2>1, <2>3, <3>1, FailStep DEF TypeOK, Reasons, InfraFailures
    <3> QED
      BY <2>1, <3>1, <3>2 DEF LinkLaw, LeaseLaw, PrLaw, CmdLaw, TypeOK, LeaseOK
  <2> QED
    BY <2>2, <2>3
<1>6. CASE Heartbeat(w)
  BY <1>6, LinksSame DEF Heartbeat
<1> QED
  BY <1>1, <1>2, <1>3, <1>4, <1>5, <1>6 DEF Scheduler

LEMMA RunnerLinks ==
  ASSUME TypeOK, NEW w \in Workers, Runner(w) \/ Failures(w) \/ AbortFault(w)
  PROVE LinkLaw
<1>1. ASSUME NEW e \in Execs, Renew(w, e) PROVE LinkLaw
  BY <1>1, LeaseRenewed DEF Renew, TypeOK
<1>2. ASSUME NEW e \in Execs,
             \/ ResumeRetry(w, e) \/ IssueToken(w, e) \/ SessionStarted(w, e)
             \/ Gone(w, e) \/ EndTurn(w, e) \/ Finalize(w, e)
             \/ SetupFails(w, e) \/ RunAborts(w, e)
      PROVE LinkLaw
  BY <1>2, LinksSame
     DEF ResumeRetry, IssueToken, SessionStarted, Gone, EndTurn, Finalize, SetupFails, RunAborts
<1>3. ASSUME NEW e \in Execs, NEW reason \in TurnFailures, FailTurn(w, e, reason) PROVE LinkLaw
  BY <1>3, LinksSame DEF FailTurn
<1> QED
  BY <1>1, <1>2, <1>3 DEF Runner, Failures, AbortFault

LEMMA AgentLinks ==
  ASSUME TypeOK, NEW w \in Workers, Agent(w)
  PROVE LinkLaw
<1>1. ASSUME NEW e \in Execs, ReportFailed(w, e) \/ RaiseIssue(w, e) PROVE LinkLaw
  BY <1>1, LeaseRenewed DEF ReportFailed, RaiseIssue, RenewedByCall, TypeOK
<1>2. ASSUME NEW e \in Execs, NEW round \in Rounds, ReviewStarted(w, e, round) PROVE LinkLaw
  BY <1>2, LeaseRenewed DEF ReviewStarted, RenewedByCall, TypeOK
<1>3. ASSUME NEW e \in Execs, NEW round \in Rounds, NEW v \in Verdicts,
             ReviewResult(w, e, round, v)
      PROVE LinkLaw
  BY <1>3, LeaseRenewed DEF ReviewResult, RenewedByCall, TypeOK
<1>4. ASSUME NEW e \in Execs, PrCreated(w, e) PROVE LinkLaw
  <2>1. \A t \in Tasks : lease'[t].exec = lease[t].exec
    BY <1>4, RenewedKeepsExec DEF PrCreated, RenewedByCall, TypeOK
  <2>2. exec[e].state # "NONE" /\ cmd' = cmd /\ pr' = [pr EXCEPT ![exec[e].task] = e]
    BY <1>4 DEF PrCreated, Authorized
  <2> QED
    BY <2>1, <2>2 DEF LinkLaw, LeaseLaw, PrLaw, CmdLaw, TypeOK, LeaseOK
<1> QED
  BY <1>1, <1>2, <1>3, <1>4 DEF Agent

LEMMA EnqueueLaw ==
  ASSUME CmdOK, NEW kind, NEW e, Enqueue(kind, e)
  PROVE \A i \in CmdIds : \/ cmd'[i] = cmd[i]
                          \/ cmd'[i].kind = kind /\ cmd'[i].exec = e
BY DEF CmdOK, Enqueue

LEMMA LeaveLaw ==
  ASSUME CmdOK, NEW w, NEW i, NEW status, Leave(w, i, status)
  PROVE \A j \in CmdIds : cmd'[j].kind = cmd[j].kind /\ cmd'[j].exec = cmd[j].exec
BY DEF CmdOK, Command, Leave

LEMMA CommandLinks ==
  ASSUME TypeOK, NEW w \in Workers, Commands(w) \/ ResumeFault(w)
  PROVE LinkLaw
<1>1. CASE ClaimCommands(w)
  <2>1. \A j \in CmdIds : cmd'[j].kind = cmd[j].kind /\ cmd'[j].exec = cmd[j].exec
    BY <1>1 DEF ClaimCommands, TypeOK, CmdOK, Command
  <2> QED
    BY <1>1, <2>1 DEF ClaimCommands, LinkLaw, LeaseLaw, PrLaw, CmdLaw
<1>2. ASSUME NEW i \in CmdIds, BeginResume(w, i) PROVE LinkLaw
  <2>1. \A j \in CmdIds : cmd'[j].kind = cmd[j].kind /\ cmd'[j].exec = cmd[j].exec
    BY <1>2, LeaveLaw DEF BeginResume, TypeOK
  <2> QED
    BY <1>2, <2>1 DEF BeginResume, LinkLaw, LeaseLaw, PrLaw, CmdLaw
<1>3. ASSUME NEW i \in CmdIds, CommitResume(w, i) PROVE LinkLaw
  <2>1. \A j \in CmdIds : cmd'[j].kind = cmd[j].kind /\ cmd'[j].exec = cmd[j].exec
    BY <1>3, LeaveLaw DEF CommitResume, TypeOK
  <2>2. \A t \in Tasks : lease'[t].exec = lease[t].exec
    BY <1>3, RenewedKeepsExec DEF CommitResume, TypeOK
  <2> QED
    BY <1>3, <2>1, <2>2 DEF CommitResume, LinkLaw, LeaseLaw, PrLaw, CmdLaw
<1>4. ASSUME NEW i \in CmdIds, ResumeRefused(w, i) PROVE LinkLaw
  <2>1. \A j \in CmdIds : cmd'[j].kind = cmd[j].kind /\ cmd'[j].exec = cmd[j].exec
    BY <1>4, LeaveLaw DEF ResumeRefused, TypeOK
  <2> QED
    BY <1>4, <2>1 DEF ResumeRefused, LinkLaw, LeaseLaw, PrLaw, CmdLaw
<1> QED
  BY <1>1, <1>2, <1>3, <1>4 DEF Commands, ResumeFault

LEMMA OutsideLinks ==
  ASSUME TypeOK, NEW t \in Tasks,
         Poller(t) \/ Cancel(t) \/ Reopen(t) \/ HumanRetry(t) \/ LeaseExpires(t)
  PROVE LinkLaw
<1>1. CASE CiFailed(t)
  <2> DEFINE e == pr[t]
  <2>1. e \in Execs /\ lease' = lease /\ pr' = pr
    BY <1>1 DEF CiFailed, TypeOK, LeaseOK
  <2>2. exec'[e].ci > 0
    BY <1>1, <2>1 DEF CiFailed, TypeOK, ExecOK, Row
  <2>3. \A i \in CmdIds : cmd'[i] = cmd[i] \/ cmd'[i].exec = e
    BY <1>1, EnqueueLaw DEF CiFailed, TypeOK
  <2> QED
    BY <2>1, <2>2, <2>3, LifecycleAssumption DEF LinkLaw, LeaseLaw, PrLaw, CmdLaw
<1>2. CASE LeaseExpires(t)
  <2>1. \A u \in Tasks : lease'[u].exec = lease[u].exec
    BY <1>2 DEF LeaseExpires, TypeOK, LeaseOK, Lease
  <2> QED
    BY <1>2, <2>1 DEF LeaseExpires, LinkLaw, LeaseLaw, PrLaw, CmdLaw
<1>3. CASE CiPassed(t) \/ Merged(t) \/ ClosedUnmerged(t) \/ Cancel(t) \/ Reopen(t) \/ HumanRetry(t)
  BY <1>3, LinksSame DEF CiPassed, Merged, ClosedUnmerged, Cancel, Reopen, HumanRetry
<1> QED
  BY <1>1, <1>2, <1>3 DEF Poller

LEMMA LinkStep ==
  ASSUME TypeOK, [Next]_vars
  PROVE LinkLaw
<1>1. ASSUME NEW w \in Workers,
             Crash(w) \/ Restart(w) \/ Freeze(w) \/ Thaw(w) \/ HeartbeatStale(w)
      PROVE LinkLaw
  BY <1>1, LinksSame DEF Crash, Restart, Freeze, Thaw, HeartbeatStale
<1>2. ASSUME NEW e \in Execs, ResolveIssue(e) PROVE LinkLaw
  <2>1. \A i \in CmdIds : cmd'[i] = cmd[i] \/ cmd'[i].kind = "decision"
    BY <1>2, EnqueueLaw DEF ResolveIssue, TypeOK
  <2> QED
    BY <1>2, <2>1 DEF ResolveIssue, LinkLaw, LeaseLaw, PrLaw, CmdLaw
<1>3. CASE UNCHANGED vars
  BY <1>3, LinksSame DEF vars
<1> QED
  BY <1>1, <1>2, <1>3, SchedulerLinks, RunnerLinks, AgentLinks, CommandLinks, OutsideLinks
     DEF Next, Resolve

-----------------------------------------------------------------------------
(* Theorems                                                                *)

\* Every variable keeps its type, a row that is used belongs to a task and no
\* handler writes to an execution that does not exist.
THEOREM TypeCorrect == Spec => []TypeOK
<1>1. Init => TypeOK
  BY TypeInit
<1>2. TypeOK /\ [Next]_vars => TypeOK'
  BY BoxStep
<1> QED
  BY <1>1, <1>2, PTL DEF Spec

\* No handler, whatever it read before, moves an execution out of FAILED or
\* CANCELLED: every write of the state rechecks it under the row lock.
THEOREM EndIsFinal == Spec => EndedIsFinal
<1>1. TypeOK /\ [Next]_vars
        => [\A e \in Execs : exec[e].state \in {"FAILED", "CANCELLED"}
              => exec'[e].state = exec[e].state]_vars
  <2> SUFFICES ASSUME TypeOK, [Next]_vars, NEW e \in Execs,
                      exec[e].state \in {"FAILED", "CANCELLED"}
               PROVE exec'[e].state = exec[e].state
    OBVIOUS
  <2>1. exec'[e] = exec[e] \/ Kept(exec[e], exec'[e])
    BY BoxStep DEF ExecStep, Inserted, Swept, Updated, Started, Regained
  <2> QED
    BY <2>1 DEF Kept
<1> QED
  BY <1>1, TypeCorrect, PTL DEF Spec, EndedIsFinal

\* An execution ends with lease_expired only by the sweeper that found its
\* lease expired again under the locks.
THEOREM SweepIsFenced == Spec => SweptOnlyExpired
<1>1. TypeOK /\ [Next]_vars
        => [\A e \in Execs :
              exec'[e].reason = "lease_expired" /\ exec[e].reason # "lease_expired"
                => lease[exec[e].task] = [exec |-> e, expired |-> TRUE]]_vars
  <2> SUFFICES ASSUME TypeOK, [Next]_vars, NEW e \in Execs,
                      exec'[e].reason = "lease_expired", exec[e].reason # "lease_expired"
               PROVE lease[exec[e].task] = [exec |-> e, expired |-> TRUE]
    OBVIOUS
  <2>1. StillExpired(e)
    BY BoxStep DEF ExecStep, Inserted, Swept, Updated, Started, Regained, KeepsReason
  <2>2. exec[e].state # "NONE"
    BY <2>1 DEF StillExpired, Renewable, SlotStates
  <2>3. lease[exec[e].task] \in Lease
    BY <2>2, Names DEF TypeOK, LeaseOK
  <2> QED
    BY <2>1, <2>3 DEF StillExpired, Renewable, Lease
<1> QED
  BY <1>1, TypeCorrect, PTL DEF Spec, SweptOnlyExpired

LEMMA OwnerInvHolds == Spec => []OwnerInv
<1>1. Init => OwnerInv
  <2>1. Init => PrUsed /\ CiCommands /\ LeaseCoversOwner
    BY DEF Init, PrUsed, CiCommands, LeaseCoversOwner, NoCommand, NoRow, OwningStates
  <2> QED
    BY <2>1, TypeInit DEF OwnerInv
<1>2. OwnerInv /\ [Next]_vars => OwnerInv'
  <2> SUFFICES ASSUME OwnerInv, [Next]_vars PROVE OwnerInv'
    OBVIOUS
  <2>1. TypeOK /\ ExecStep /\ TypeOK' /\ LinkLaw
    BY BoxStep, LinkStep DEF OwnerInv
  <2>2. ASSUME NEW e \in Execs, exec[e].state # "NONE"
        PROVE exec'[e].state # "NONE" /\ exec'[e].ci >= exec[e].ci /\ exec[e].ci \in Nat
    <3>1. exec[e] \in Row
      BY <2>1 DEF TypeOK, ExecOK
    <3>2. exec'[e] = exec[e] \/ Kept(exec[e], exec'[e])
      BY <2>1, <2>2 DEF ExecStep, Inserted, Updated, Swept, Started, Regained
    <3> QED
      BY <2>2, <3>1, <3>2 DEF Kept, Row
  <2>3. PrUsed'
    <3> SUFFICES ASSUME NEW t \in Tasks, pr'[t] # NoExec PROVE exec'[pr'[t]].state # "NONE"
      BY DEF PrUsed
    <3>1. pr'[t] \in Execs /\ exec[pr'[t]].state # "NONE"
      BY <2>1 DEF LinkLaw, PrLaw, OwnerInv, PrUsed, TypeOK, LeaseOK
    <3> QED
      BY <2>2, <3>1
  <2>4. CiCommands'
    <3> SUFFICES ASSUME NEW i \in CmdIds, cmd'[i].kind = "ci"
                 PROVE /\ cmd'[i].exec \in Execs
                       /\ exec'[cmd'[i].exec].state # "NONE"
                       /\ exec'[cmd'[i].exec].ci > 0
      BY DEF CiCommands
    <3>1. CASE cmd'[i].kind = cmd[i].kind /\ cmd'[i].exec = cmd[i].exec
      <4>1. /\ cmd[i].exec \in Execs
            /\ exec[cmd[i].exec].state # "NONE" /\ exec[cmd[i].exec].ci > 0
        BY <3>1 DEF OwnerInv, CiCommands
      <4>2. exec'[cmd[i].exec] \in Row
        BY <2>1, <4>1 DEF ExecStep
      <4> QED
        BY <2>2, <3>1, <4>1, <4>2 DEF Row
    <3>2. ASSUME NEW t \in Tasks, cmd'[i].exec = pr[t], pr[t] # NoExec, exec'[pr[t]].ci > 0
          PROVE cmd'[i].exec \in Execs /\ exec'[cmd'[i].exec].state # "NONE"
      <4>1. pr[t] \in Execs /\ exec[pr[t]].state # "NONE"
        BY <3>2 DEF OwnerInv, PrUsed, TypeOK, LeaseOK
      <4> QED
        BY <2>2, <3>2, <4>1
    <3> QED
      BY <2>1, <3>1, <3>2 DEF LinkLaw, CmdLaw
  <2>5. LeaseCoversOwner'
    <3> SUFFICES ASSUME NEW e \in Execs, exec'[e].state \in OwningStates, exec'[e].ci = 0
                 PROVE lease'[exec'[e].task].exec = e
      BY DEF LeaseCoversOwner, OwningStates
    <3>1. CASE Takes(e)
      BY <3>1 DEF Takes
    <3>2. CASE /\ exec[e].state \in OwningStates /\ exec[e].ci = 0
               /\ exec'[e].task = exec[e].task
      <4>1. exec[e].task \in Tasks /\ lease[exec[e].task].exec = e
        BY <3>2, Names DEF OwnerInv, LeaseCoversOwner, TypeOK, OwningStates
      <4>2. exec'[e].state # "FAILED"
        BY DEF OwningStates
      <4>3. ASSUME NEW f \in Execs, exec'[f].task = exec[e].task, Takes(f), f # e PROVE FALSE
        BY <3>2, <4>3 DEF Takes
      <4> QED
        BY <2>1, <3>1, <3>2, <4>1, <4>2, <4>3 DEF LinkLaw, LeaseLaw
    <3>3. CASE exec'[e] = exec[e]
      BY <3>2, <3>3
    <3>4. CASE Inserted(e)
      BY <3>1, <3>4 DEF Inserted, OwningStates
    <3>5. CASE Updated(exec[e], exec'[e])
      <4>1. exec[e].state \in OwningStates /\ exec'[e].task = exec[e].task
        BY <3>5 DEF Updated, Kept
      <4>2. exec[e].ci = 0
        BY <2>2, <4>1 DEF OwningStates
      <4> QED
        BY <3>2, <4>1, <4>2
    <3>6. CASE Swept(e)
      BY <3>6 DEF Swept, OwningStates
    <3>7. CASE Started(e)
      BY <3>1, <3>7 DEF Started
    <3>8. CASE Regained(e)
      <4>1. exec[e].ci > 0 /\ exec[e].state # "NONE"
        BY <3>8 DEF Regained, OwnerInv, CiCommands
      <4> QED
        BY <2>2, <4>1
    <3> QED
      BY <2>1, <3>3, <3>4, <3>5, <3>6, <3>7, <3>8 DEF ExecStep
  <2> QED
    BY <2>1, <2>3, <2>4, <2>5 DEF OwnerInv
<1> QED
  BY <1>1, <1>2, PTL DEF Spec

\* The lease row covers every owner that no CI failure brought back.  A row
\* becomes an owner by taking the task (Takes) or by a CI resume (Regained),
\* and a CI resume leaves ci > 0; a lease row moves only to an execution that
\* takes the task or away from one that the sweeper ends.
THEOREM LeaseCovers == Spec => []LeaseCoversOwner
<1>1. OwnerInv => LeaseCoversOwner
  BY DEF OwnerInv
<1> QED
  BY <1>1, OwnerInvHolds, PTL

\* Hence at most one execution owns a task, as long as no CI failure brought
\* one back: both would be named by the one lease row of the task.
THEOREM OnlyOneOwner == Spec => []OneOwner
<1>1. LeaseCoversOwner => OneOwner
  BY DEF LeaseCoversOwner, OneOwner
<1> QED
  BY <1>1, LeaseCovers, PTL

LEMMA RetryInvHolds == Spec => []RetryInv
<1>1. Init => RetryInv
  <2>1. Init => OfFailed /\ RetriedOnce
    BY DEF Init, OfFailed, RetriedOnce, NoRow
  <2> QED
    BY <2>1, TypeInit DEF RetryInv
<1>2. RetryInv /\ [Next]_vars => RetryInv'
  <2> SUFFICES ASSUME RetryInv, [Next]_vars PROVE RetryInv'
    OBVIOUS
  <2>1. ExecStep /\ TypeOK'
    BY BoxStep DEF RetryInv
  <2>2. ASSUME NEW e \in Execs
        PROVE Inserted(e) \/ exec'[e].of = exec[e].of
    BY <2>1 DEF ExecStep, Updated, Swept, Started, Regained, Kept
  <2>3. ASSUME NEW e \in Execs, exec[e].state = "FAILED"
        PROVE exec'[e].state = "FAILED"
    BY <2>1, <2>3 DEF ExecStep, Inserted, Updated, Swept, Started, Regained, Kept
  <2>4. OfFailed'
    <3> SUFFICES ASSUME NEW e \in Execs, exec'[e].of # NoExec
                 PROVE exec'[e].of \in Execs /\ exec'[exec'[e].of].state = "FAILED"
      BY DEF OfFailed
    <3>1. CASE Inserted(e)
      BY <3>1 DEF Inserted, RetryOf
    <3>2. CASE exec'[e].of = exec[e].of
      BY <2>3, <3>2 DEF RetryInv, OfFailed
    <3> QED
      BY <2>2, <3>1, <3>2
  <2>5. RetriedOnce'
    <3> SUFFICES ASSUME NEW e \in Execs, NEW f \in Execs, exec'[e].of = exec'[f].of,
                        exec'[e].of # NoExec, e # f
                 PROVE FALSE
      BY DEF RetriedOnce
    <3>1. ASSUME NEW x \in Execs, NEW y \in Execs, x # y, Inserted(x),
                 exec'[x].of # NoExec, exec'[x].of = exec'[y].of
          PROVE FALSE
      <4>1. exec[exec'[x].of].state \in SlotStates
        BY <3>1 DEF Inserted, RetryOf
      <4>2. ~Inserted(y)
        BY <3>1 DEF Inserted
      <4>3. exec[y].of = exec'[x].of
        BY <2>2, <3>1, <4>2
      <4>4. exec[exec'[x].of].state = "FAILED"
        BY <3>1, <4>3 DEF RetryInv, OfFailed
      <4> QED
        BY <4>1, <4>4 DEF SlotStates
    <3>2. ~Inserted(e) /\ ~Inserted(f)
      BY <3>1
    <3>3. exec[e].of = exec[f].of /\ exec[e].of # NoExec
      BY <2>2, <3>2
    <3> QED
      BY <3>3 DEF RetryInv, RetriedOnce
  <2> QED
    BY <2>1, <2>4, <2>5 DEF RetryInv
<1> QED
  BY <1>1, <1>2, PTL DEF Spec

\* A failed execution is retried once: the step that inserts its retry is the
\* step that ends it, and an end is final.
THEOREM RetryIsUnique == Spec => []RetriedOnce
<1>1. RetryInv => RetriedOnce
  BY DEF RetryInv
<1> QED
  BY <1>1, RetryInvHolds, PTL

-----------------------------------------------------------------------------
(* What one step may do to an execution and to the runs of it              *)

\* No worker begins to act for the execution.
NoNewRun(e) == \A w \in Workers : Holds(w, e)' => Holds(w, e)

\* The state stays.  A row that is not live may be released from a host taken for
\* dead, one that waits unpinned may be pinned, and only a live one takes a token
\* or a verdict.  Issues are raised by a live execution and answered while it is
\* paused, each answer with a command.
Rests(e) ==
  /\ exec'[e].state = exec[e].state /\ exec'[e].task = exec[e].task
  /\ \/ exec'[e].host = exec[e].host
     \/ /\ exec[e].state = "WAITING_FOR_USER" /\ exec[e].host = NoWorker
        /\ exec'[e].host \in Workers
     \/ exec[e].state \in Releasable /\ exec'[e].host = NoWorker /\ ~NoneStale
  /\ exec'[e].token \in {exec[e].token, NoWorker} \/ exec[e].state \in SlotStates
  /\ exec'[e].verdict = exec[e].verdict \/ exec[e].state \in SlotStates
  /\ \/ exec'[e].issues = exec[e].issues
     \/ exec[e].state \in SlotStates /\ exec'[e].issues = exec[e].issues + 1
     \/ exec[e].state = "WAITING_FOR_USER" /\ Answered(e)'
  /\ NoNewRun(e)

Opens(e) == /\ exec[e].state = "ASSIGNED" /\ exec'[e].state = "RUNNING"
            /\ exec'[e].host = exec[e].host /\ exec'[e].issues = exec[e].issues
            /\ NoNewRun(e)

\* The task leaves the work states, or the retry is there.
PassedOn(t) == \/ task'[t] \notin RetryableTaskStates
               \/ \E f \in Execs : /\ exec[f].state = "NONE"
                                   /\ exec'[f].state = "QUEUED" /\ exec'[f].task = t

Ends(e) == /\ exec[e].state \in LiveStates /\ exec'[e].state \in {"FAILED", "CANCELLED"}
           /\ exec'[e].state = "FAILED" => exec[e].state \in SlotStates
           /\ exec'[e].host = exec[e].host
           /\ PassedOn(exec[e].task) /\ NoNewRun(e)

Queues(e) == exec[e].state = "NONE" /\ exec'[e].state = "QUEUED" /\ NoNewRun(e)

Pauses(e) == /\ exec[e].state = "RUNNING" /\ exec'[e].state = "WAITING_FOR_USER"
             /\ exec'[e].host = exec[e].host /\ exec'[e].issues = exec[e].issues
             /\ NoNewRun(e)
             /\ \E w \in Workers : e \in blocking[w] /\ Holds(w, e) /\ ~Holds(w, e)'

Completes(e) ==
  /\ exec[e].state = "RUNNING" /\ exec'[e].state = "COMPLETED"
  /\ exec'[e].host = exec[e].host /\ exec'[e].task = exec[e].task
  /\ exec'[e].token = NoWorker /\ exec'[e].verdict = "clean"
  /\ exec[e].task \in Tasks
  /\ pr' = [pr EXCEPT ![exec[e].task] = e]
  /\ PassedOn(exec[e].task) /\ NoNewRun(e)

\* The one worker that may begin to act is the one the row is pinned to.
PinnedRun(w, e) == /\ exec'[e].host = w
                   /\ \A v \in Workers \ {w} : Holds(v, e)' => Holds(v, e)

Starts(e) == /\ exec[e].state \in {"NONE", "QUEUED"} /\ exec'[e].state = "ASSIGNED"
             /\ \E w \in Workers : PinnedRun(w, e)

Resumes(e) ==
  \E w \in Workers : \E i \in batch[w] :
    /\ cmd[i].exec = e /\ exec[e].state = ResumableState(cmd[i].kind)
    /\ exec'[e].state = "RUNNING" /\ exec[e].host = w
    /\ exec'[e].verdict = exec[e].verdict
    /\ cmd'[i].status = "done"
    /\ run[w][e] = "loading" /\ PinnedRun(w, e)

WorkStep(e) == \/ Rests(e) \/ Opens(e) \/ Ends(e) \/ Queues(e) \/ Pauses(e)
               \/ Completes(e) \/ Starts(e) \/ Resumes(e)

WorkLaw == \A e \in Execs : WorkStep(e)

LEMMA RunBegins ==
  ASSUME MemoryOK, NEW w \in Workers, NEW e \in Execs,
         run' = [run EXCEPT ![w][e] = "preparing"]
  PROVE \A v \in Workers, x \in Execs : Holds(v, x)' => Holds(v, x) \/ (v = w /\ x = e)
BY DEF MemoryOK, Holds

LEMMA RunGoesOn ==
  ASSUME MemoryOK, NEW w \in Workers, NEW e \in Execs, Holds(w, e),
         run' = [run EXCEPT ![w][e] = "session"]
  PROVE \A x \in Execs : NoNewRun(x)
BY DEF MemoryOK, Holds, NoNewRun

LEMMA RunOver ==
  ASSUME MemoryOK, NEW w \in Workers, NEW e \in Execs, NEW p \in {"closing", "idle", "loading"},
         run' = [run EXCEPT ![w][e] = p]
  PROVE ~Holds(w, e)' /\ \A x \in Execs : NoNewRun(x)
BY DEF MemoryOK, Holds, NoNewRun

LEMMA RunKept ==
  ASSUME run' = run
  PROVE \A x \in Execs : NoNewRun(x)
BY DEF NoNewRun, Holds

LEMMA WorkSame ==
  ASSUME exec' = exec, \A x \in Execs : NoNewRun(x)
  PROVE WorkLaw
BY DEF WorkLaw, WorkStep, Rests

LEMMA OneRowWorks ==
  ASSUME ExecOK, NEW e \in Execs, NEW r, exec' = [exec EXCEPT ![e] = r],
         \A x \in Execs \ {e} : NoNewRun(x),
         exec'[e] = r => WorkStep(e)
  PROVE WorkLaw
BY DEF ExecOK, WorkLaw, WorkStep, Rests

LEMMA EscalationPasses ==
  ASSUME TaskOK, NEW t \in Tasks, task' = Escalated(t)
  PROVE task'[t] \notin RetryableTaskStates
<1>1. ASSUME NEW s \in RetryableTaskStates PROVE TaskEdge(s, "task.escalated")
  <2>1. <<s, "task.escalated", "NEEDS_HUMAN">> \in TaskTable
    BY <1>1 DEF RetryableTaskStates, TaskTable, WorkRows
  <2> QED
    BY <2>1 DEF TaskEdge
<1> QED
  BY <1>1 DEF Escalated, TaskOK, RetryableTaskStates

\* Fail ends one row and queues at most one.
LEMMA FailWorks ==
  ASSUME TypeOK, NEW e \in Execs, exec[e].state \in SlotStates,
         NEW reason, NEW token, Fail(e, reason, token),
         \A x \in Execs : NoNewRun(x)
  PROVE WorkLaw
<1> DEFINE r == [exec[e] EXCEPT !.state = "FAILED", !.reason = reason, !.token = token]
           ended == [exec EXCEPT ![e] = r]
<1>0. TaskOK /\ ExecOK /\ exec[e].task \in Tasks
  BY Names DEF TypeOK, SlotStates
<1>1. exec[e] \in Row /\ r.state = "FAILED" /\ r.host = exec[e].host
  BY <1>0 DEF ExecOK, Row
<1>2. ended = [exec EXCEPT ![e].state = "FAILED", ![e].reason = reason, ![e].token = token]
  BY <1>0 DEF ExecOK, Row
<1>3. exec[e].state \in LiveStates
  BY DEF SlotStates, LiveStates
<1>4. CASE Retried(e, reason)
  <2> DEFINE n == RetryRow(e, reason)
  <2>1. \E f \in Fresh : exec' = [ended EXCEPT ![f] = n]
    <3>1. \E f \in Fresh :
            exec' = [[exec EXCEPT ![e].state = "FAILED", ![e].reason = reason,
                                  ![e].token = token] EXCEPT ![f] = n]
      BY <1>4, Zenon DEF Fail
    <3> HIDE DEF ended, n
    <3> QED
      BY <1>2, <3>1
  <2>2. PICK f \in Fresh : exec' = [ended EXCEPT ![f] = n]
    BY <2>1
  <2>3. /\ f \in Execs /\ f # e /\ exec[f].state = "NONE"
        /\ n.state = "QUEUED" /\ n.task = exec[e].task
    <3>1. exec[e].state # "NONE"
      BY DEF SlotStates
    <3> QED
      BY <1>0, <3>1, RetryRowTyped DEF Fresh
  <2> HIDE DEF r, n
  <2>4. exec'[e] = r /\ exec'[f] = n /\ \A x \in Execs \ {e, f} : exec'[x] = exec[x]
    BY <1>0, <2>2, <2>3 DEF ExecOK
  <2>5. Queues(f) /\ Ends(e)
    BY <1>1, <1>3, <2>3, <2>4 DEF Queues, Ends, PassedOn
  <2> QED
    BY <2>4, <2>5 DEF WorkLaw, WorkStep, Rests
<1>5. CASE ~Retried(e, reason)
  <2>1. exec' = ended /\ PassedOn(exec[e].task)
    BY <1>0, <1>2, <1>5, EscalationPasses DEF Fail, PassedOn
  <2> HIDE DEF r
  <2> QED
    BY <1>0, <1>1, <1>3, <2>1, OneRowWorks DEF WorkStep, Ends
<1> QED
  BY <1>4, <1>5

LEMMA EndFailedWorks ==
  ASSUME TypeOK, NEW e \in Execs, NEW reason, EndFailed(e, reason),
         \A x \in Execs : NoNewRun(x)
  PROVE WorkLaw
<1>1. CASE exec[e].state \in SlotStates
  BY <1>1, FailWorks DEF EndFailed
<1>2. CASE exec[e].state \notin SlotStates
  BY <1>2, WorkSame DEF EndFailed
<1> QED
  BY <1>1, <1>2

\* The steps of the scheduler and of a run that write one row.
LEMMA SchedulerWorks ==
  ASSUME TypeOK, NEW w \in Workers, Scheduler(w)
  PROVE WorkLaw
<1>0. ExecOK /\ MemoryOK /\ \A e \in Execs : exec[e] \in Row
  BY DEF TypeOK, ExecOK
<1>1. ASSUME NEW t \in Tasks, Promote(w, t) \/ ListExpired(w, t) PROVE WorkLaw
  BY <1>1, RunKept, WorkSame DEF Promote, ListExpired
<1>2. ASSUME NEW t \in Tasks, Claim(w, t) PROVE WorkLaw
  <2> DEFINE r == [NewRow(t) EXCEPT !.state = "ASSIGNED", !.host = w]
  <2>1. PICK e \in Fresh : /\ exec' = [exec EXCEPT ![e] = r]
                           /\ run' = [run EXCEPT ![w][e] = "preparing"]
    BY <1>2, Zenon DEF Claim
  <2>2. e \in Execs /\ exec[e].state = "NONE"
    BY DEF Fresh
  <2>3. r.state = "ASSIGNED" /\ r.host = w
    BY NoRowTyped, States DEF Row
  <2> HIDE DEF r
  <2>4. \A v \in Workers, x \in Execs : Holds(v, x)' => Holds(v, x) \/ (v = w /\ x = e)
    BY <1>0, <2>1, <2>2, RunBegins
  <2>5. exec'[e] = r => WorkStep(e)
    BY <2>2, <2>3, <2>4 DEF WorkStep, Starts, PinnedRun
  <2> QED
    BY <1>0, <2>1, <2>2, <2>4, <2>5, OneRowWorks DEF NoNewRun
<1>3. ASSUME NEW e \in Execs, StartRetry(w, e) PROVE WorkLaw
  <2> DEFINE r == [exec[e] EXCEPT !.state = "ASSIGNED", !.host = w]
  <2>1. exec' = [exec EXCEPT ![e] = r] /\ run' = [run EXCEPT ![w][e] = "preparing"]
    BY <1>0, <1>3 DEF StartRetry, ExecOK, Row
  <2>2. exec[e].state = "QUEUED" /\ r.state = "ASSIGNED" /\ r.host = w
    BY <1>0, <1>3 DEF StartRetry, Row
  <2> HIDE DEF r
  <2>3. \A v \in Workers, x \in Execs : Holds(v, x)' => Holds(v, x) \/ (v = w /\ x = e)
    BY <1>0, <2>1, RunBegins
  <2>4. exec'[e] = r => WorkStep(e)
    BY <2>2, <2>3 DEF WorkStep, Starts, PinnedRun
  <2> QED
    BY <1>0, <2>1, <2>3, <2>4, OneRowWorks DEF NoNewRun
<1>4. ASSUME NEW e \in Execs, ReleaseHost(w, e) PROVE WorkLaw
  <2> DEFINE r == [exec[e] EXCEPT !.host = NoWorker]
  <2>1. /\ exec' = [exec EXCEPT ![e] = r] /\ run' = run
        /\ exec[e].state \in Releasable /\ ~NoneStale
    BY <1>0, <1>4 DEF ReleaseHost, NoneStale, ExecOK, Row
  <2>2. exec'[e] = r => WorkStep(e)
    BY <1>0, <2>1, RunKept DEF Row, WorkStep, Rests
  <2> QED
    BY <1>0, <2>1, <2>2, RunKept, OneRowWorks
<1>5. CASE SweepLease(w)
  <2> DEFINE s == swept[w]
  <2>1. s \in Execs /\ run' = run
    BY <1>5 DEF SweepLease, TypeOK, MemoryOK
  <2>2. CASE StillExpired(s)
    <3>1. Fail(s, "lease_expired", NoWorker) /\ exec[s].state \in SlotStates
      BY <1>5, <2>2 DEF SweepLease, StillExpired, Renewable
    <3> HIDE DEF s
    <3> QED
      BY <1>0, <2>1, <3>1, RunKept, FailWorks
  <2>3. CASE ~StillExpired(s)
    BY <1>5, <2>1, <2>3, RunKept, WorkSame DEF SweepLease
  <2> QED
    BY <2>2, <2>3
<1>6. CASE Heartbeat(w)
  BY <1>6, RunKept, WorkSame DEF Heartbeat
<1> QED
  BY <1>1, <1>2, <1>3, <1>4, <1>5, <1>6 DEF Scheduler

LEMMA RunnerWorks ==
  ASSUME TypeOK, NEW w \in Workers, NEW e \in Execs
  PROVE /\ ResumeRetry(w, e) => WorkLaw
        /\ IssueToken(w, e) => WorkLaw
        /\ SessionStarted(w, e) => WorkLaw
        /\ Renew(w, e) => WorkLaw
        /\ Gone(w, e) => WorkLaw
        /\ EndTurn(w, e) => WorkLaw
        /\ Finalize(w, e) => WorkLaw
<1>0. ExecOK /\ MemoryOK /\ exec[e] \in Row
  BY DEF TypeOK, ExecOK
<1>1. ASSUME ResumeRetry(w, e) \/ SessionStarted(w, e) PROVE WorkLaw
  <2> DEFINE r == [exec[e] EXCEPT !.state = "RUNNING"]
  <2>1. exec' = [exec EXCEPT ![e] = r] /\ run' = run /\ exec[e].state = "ASSIGNED"
    BY <1>0, <1>1 DEF ResumeRetry, SessionStarted, ExecOK, Row
  <2>2. exec'[e] = r => WorkStep(e)
    BY <1>0, <2>1, RunKept DEF Row, WorkStep, Opens
  <2> QED
    BY <1>0, <2>1, <2>2, RunKept, OneRowWorks
<1>2. ASSUME IssueToken(w, e) PROVE WorkLaw
  <2>1. CASE exec[e].state \in SlotStates
    <3> DEFINE r == [exec[e] EXCEPT !.token = w]
    <3>1. /\ exec' = [exec EXCEPT ![e] = r]
          /\ run' = [run EXCEPT ![w][e] = "session"] /\ Holds(w, e)
      BY <1>0, <1>2, <2>1 DEF IssueToken, ExecOK, Row, Holds
    <3>2. \A x \in Execs : NoNewRun(x)
      BY <1>0, <3>1, RunGoesOn
    <3>3. exec'[e] = r => WorkStep(e)
      BY <1>0, <2>1, <3>2 DEF Row, WorkStep, Rests
    <3> QED
      BY <1>0, <3>1, <3>2, <3>3, OneRowWorks
  <2>2. CASE exec[e].state \notin SlotStates
    BY <1>0, <1>2, <2>2, RunOver, WorkSame DEF IssueToken
  <2> QED
    BY <2>1, <2>2
<1>3. ASSUME Renew(w, e) PROVE WorkLaw
  BY <1>3, RunKept, WorkSame DEF Renew
<1>4. ASSUME Gone(w, e) PROVE WorkLaw
  BY <1>0, <1>4, RunOver, WorkSame DEF Gone
<1>5. ASSUME EndTurn(w, e) PROVE WorkLaw
  <2>1. run[w][e] = "session" /\ run' = [run EXCEPT ![w][e] = "closing"]
    BY <1>5 DEF EndTurn
  <2>2. Holds(w, e) /\ ~Holds(w, e)' /\ \A x \in Execs : NoNewRun(x)
    BY <1>0, <2>1, RunOver DEF Holds
  <2>3. CASE e \in blocking[w] /\ exec[e].state = "RUNNING"
    <3> DEFINE r == [exec[e] EXCEPT !.state = "WAITING_FOR_USER"]
    <3>1. exec' = [exec EXCEPT ![e] = r]
      BY <1>0, <1>5, <2>3 DEF EndTurn, ExecOK, Row
    <3>2. exec'[e] = r => WorkStep(e)
      BY <1>0, <2>2, <2>3 DEF Row, WorkStep, Pauses
    <3> QED
      BY <1>0, <2>2, <3>1, <3>2, OneRowWorks
  <2>4. CASE ~(e \in blocking[w] /\ exec[e].state = "RUNNING")
    BY <1>0, <1>5, <2>2, <2>4, EndFailedWorks DEF EndTurn
  <2> QED
    BY <2>3, <2>4
<1>6. ASSUME Finalize(w, e) PROVE WorkLaw
  <2> DEFINE r == [exec[e] EXCEPT !.token = NoWorker]
  <2>1. exec' = [exec EXCEPT ![e] = r] /\ run' = [run EXCEPT ![w][e] = "idle"]
    BY <1>0, <1>6 DEF Finalize, ExecOK, Row
  <2>2. \A x \in Execs : NoNewRun(x)
    BY <1>0, <2>1, RunOver
  <2>3. exec'[e] = r => WorkStep(e)
    BY <1>0, <2>1, <2>2 DEF Row, WorkStep, Rests
  <2> QED
    BY <1>0, <2>1, <2>2, <2>3, OneRowWorks
<1> QED
  BY <1>1, <1>2, <1>3, <1>4, <1>5, <1>6

LEMMA FailureWorks ==
  ASSUME TypeOK, NEW w \in Workers, Failures(w) \/ AbortFault(w)
  PROVE WorkLaw
<1>0. ExecOK /\ MemoryOK
  BY DEF TypeOK
<1>1. ASSUME NEW e \in Execs, SetupFails(w, e) PROVE WorkLaw
  BY <1>0, <1>1, RunOver, EndFailedWorks DEF SetupFails
<1>2. ASSUME NEW e \in Execs, NEW reason \in TurnFailures, FailTurn(w, e, reason)
      PROVE WorkLaw
  BY <1>0, <1>2, RunOver, EndFailedWorks DEF FailTurn
<1>3. ASSUME NEW e \in Execs, RunAborts(w, e) PROVE WorkLaw
  BY <1>0, <1>3, RunOver, WorkSame DEF RunAborts
<1> QED
  BY <1>1, <1>2, <1>3 DEF Failures, AbortFault

\* The agent's tools: only report_pr_created completes an execution.
LEMMA CallWorks ==
  ASSUME TypeOK, NEW w \in Workers, Agent(w)
  PROVE WorkLaw
<1>0. ExecOK /\ \A e \in Execs : exec[e] \in Row
  BY DEF TypeOK, ExecOK
<1>1. ASSUME NEW e \in Execs, NEW round \in Rounds, ReviewStarted(w, e, round)
      PROVE WorkLaw
  <2> DEFINE r == [exec[e] EXCEPT !.round = round, !.verdict = "none"]
  <2>1. exec' = [exec EXCEPT ![e] = r] /\ run' = run /\ exec[e].state \in SlotStates
    BY <1>0, <1>1 DEF ReviewStarted, Authorized, SlotStates, ExecOK, Row
  <2>2. exec'[e] = r => WorkStep(e)
    BY <1>0, <2>1, RunKept DEF Row, WorkStep, Rests
  <2> QED
    BY <1>0, <2>1, <2>2, RunKept, OneRowWorks
<1>2. ASSUME NEW e \in Execs, NEW round \in Rounds, NEW v \in Verdicts,
             ReviewResult(w, e, round, v)
      PROVE WorkLaw
  <2> DEFINE q == IF exec[e].round = round THEN v ELSE exec[e].verdict
             r == [exec[e] EXCEPT !.verdict = q]
  <2>1. run' = run /\ exec[e].state \in SlotStates
    BY <1>2 DEF ReviewResult, Authorized, SlotStates
  <2>2. exec' = [exec EXCEPT ![e] = r]
    BY <1>0, <1>2 DEF ReviewResult, ExecOK, Row
  <2> HIDE DEF q
  <2>3. exec'[e] = r => WorkStep(e)
    BY <1>0, <2>1, RunKept DEF Row, WorkStep, Rests
  <2> QED
    BY <1>0, <2>1, <2>2, <2>3, RunKept, OneRowWorks
<1>3. ASSUME NEW e \in Execs, PrCreated(w, e) PROVE WorkLaw
  <2> DEFINE r == [exec[e] EXCEPT !.state = "COMPLETED", !.token = NoWorker]
  <2>1. /\ exec' = [exec EXCEPT ![e] = r] /\ run' = run /\ exec[e].state = "RUNNING"
        /\ exec[e].verdict = "clean" /\ pr' = [pr EXCEPT ![exec[e].task] = e]
    BY <1>0, <1>3 DEF PrCreated, Authorized, CleanlyReviewed, ExecOK, Row
  <2>2. exec[e].task \in Tasks /\ PassedOn(exec[e].task)
    BY <1>0, <1>3, <2>1, Names DEF PrCreated, PassedOn, TypeOK, TaskOK, RetryableTaskStates
  <2>3. /\ r.state = "COMPLETED" /\ r.host = exec[e].host /\ r.task = exec[e].task
        /\ r.token = NoWorker /\ r.verdict = exec[e].verdict
    BY <1>0 DEF Row
  <2> HIDE DEF r
  <2>4. exec'[e] = r => WorkStep(e)
    BY <2>1, <2>2, <2>3, RunKept DEF WorkStep, Completes
  <2> QED
    BY <1>0, <2>1, <2>4, RunKept, OneRowWorks
<1>4. ASSUME NEW e \in Execs, ReportFailed(w, e) PROVE WorkLaw
  <2> DEFINE r == [exec[e] EXCEPT !.state = "FAILED", !.reason = "agent_gave_up",
                                  !.token = NoWorker]
  <2>1. /\ exec' = [exec EXCEPT ![e] = r] /\ run' = run
        /\ exec[e].state \in LiveStates \cap SlotStates
    BY <1>0, <1>4 DEF ReportFailed, Authorized, LiveStates, SlotStates, ExecOK, Row
  <2>2. PassedOn(exec[e].task)
    BY <1>0, <1>4, <2>1, Names, EscalationPasses
       DEF ReportFailed, PassedOn, TypeOK, SlotStates
  <2>3. r.state = "FAILED" /\ r.host = exec[e].host
    BY <1>0 DEF Row
  <2> HIDE DEF r
  <2>4. exec'[e] = r => WorkStep(e)
    BY <2>1, <2>2, <2>3, RunKept DEF WorkStep, Ends
  <2> QED
    BY <1>0, <2>1, <2>4, RunKept, OneRowWorks
<1>5. ASSUME NEW e \in Execs, RaiseIssue(w, e) PROVE WorkLaw
  <2> DEFINE r == [exec[e] EXCEPT !.issues = exec[e].issues + 1]
  <2>1. exec' = [exec EXCEPT ![e] = r] /\ run' = run /\ exec[e].state \in SlotStates
    BY <1>0, <1>5 DEF RaiseIssue, Authorized, ExecOK, Row
  <2>2. exec'[e] = r => WorkStep(e)
    BY <1>0, <2>1, RunKept DEF Row, WorkStep, Rests
  <2> QED
    BY <1>0, <2>1, <2>2, RunKept, OneRowWorks
<1> QED
  BY <1>1, <1>2, <1>3, <1>4, <1>5 DEF Agent

\* The consume phase: only a resume of a row pinned here begins a run.
LEMMA CommandWorks ==
  ASSUME TypeOK, NEW w \in Workers, Commands(w) \/ ResumeFault(w)
  PROVE WorkLaw
<1>0. ExecOK /\ MemoryOK /\ CmdOK /\ \A e \in Execs : exec[e] \in Row
  BY DEF TypeOK, ExecOK
<1>1. CASE ClaimCommands(w)
  BY <1>1, RunKept, WorkSame DEF ClaimCommands
<1>2. ASSUME NEW i \in CmdIds, BeginResume(w, i) PROVE WorkLaw
  <2> DEFINE e == cmd[i].exec
             r == [exec[e] EXCEPT !.host = w]
  <2>1. e \in Execs
    BY <1>0, <1>2 DEF BeginResume, NextInBatch, CmdOK
  <2>2. CASE Refusal(w, i) # "none"
    BY <1>2, <2>2, RunKept, WorkSame DEF BeginResume
  <2>3. CASE Refusal(w, i) = "none"
    <3>1. exec' = [exec EXCEPT ![e] = r] /\ run' = [run EXCEPT ![w][e] = "loading"]
      BY <1>0, <1>2, <2>1, <2>3 DEF BeginResume, ExecOK, Row
    <3>2. exec[e].host = w \/ (exec[e].state = "WAITING_FOR_USER" /\ exec[e].host = NoWorker)
      BY <2>3 DEF Refusal, RefusalOfCi, RefusalOfDecision
    <3>3. \A x \in Execs : NoNewRun(x)
      BY <1>0, <2>1, <3>1, RunOver
    <3>4. exec'[e] = r => WorkStep(e)
      BY <1>0, <2>1, <3>2, <3>3 DEF Row, WorkStep, Rests
    <3> QED
      BY <1>0, <2>1, <3>1, <3>3, <3>4, OneRowWorks
  <2> QED
    BY <2>2, <2>3
<1>3. ASSUME NEW i \in CmdIds, CommitResume(w, i) PROVE WorkLaw
  <2>1. cmd[i].exec \in Execs /\ i \in batch[w]
    BY <1>0, <1>3 DEF CommitResume, NextInBatch, CmdOK
  <2>2. PICK e \in Execs : e = cmd[i].exec
    BY <2>1
  <2> DEFINE r == [exec[e] EXCEPT !.state = "RUNNING"]
  <2>3. CASE ~(Resumable(i) /\ PinnedHere(w, e))
    <3>1. exec' = exec /\ run' = [run EXCEPT ![w][e] = "idle"]
      BY <1>3, <2>2, <2>3 DEF CommitResume
    <3> QED
      BY <1>0, <3>1, RunOver, WorkSame
  <2>4. CASE Resumable(i) /\ PinnedHere(w, e)
    <3>1. /\ exec' = [exec EXCEPT ![e] = r] /\ run' = [run EXCEPT ![w][e] = "preparing"]
          /\ exec[e].state = ResumableState(cmd[i].kind) /\ exec[e].host = w
          /\ run[w][e] = "loading"
      BY <1>0, <1>3, <2>2, <2>4 DEF CommitResume, Resumable, PinnedHere, ExecOK, Row
    <3>2. cmd'[i].status = "done"
      BY <1>0, <1>3, <2>2, <2>4 DEF CommitResume, Leave, CmdOK, Command
    <3>3. \A v \in Workers, x \in Execs : Holds(v, x)' => Holds(v, x) \/ (v = w /\ x = e)
      BY <1>0, <3>1, RunBegins
    <3>4. r.state = "RUNNING" /\ r.host = exec[e].host /\ r.verdict = exec[e].verdict
      BY <1>0 DEF Row
    <3> HIDE DEF r
    <3>5. exec'[e] = r => WorkStep(e)
      BY <2>1, <2>2, <3>1, <3>2, <3>3, <3>4 DEF WorkStep, Resumes, PinnedRun
    <3> QED
      BY <1>0, <3>1, <3>3, <3>5, OneRowWorks DEF NoNewRun
  <2> QED
    BY <2>3, <2>4
<1>4. ASSUME NEW i \in CmdIds, ResumeRefused(w, i) PROVE WorkLaw
  <2>1. cmd[i].exec \in Execs
    BY <1>0, <1>4 DEF ResumeRefused, NextInBatch, CmdOK
  <2> QED
    BY <1>0, <1>4, <2>1, RunOver, WorkSame DEF ResumeRefused
<1> QED
  BY <1>1, <1>2, <1>3, <1>4 DEF Commands, ResumeFault

\* GitHub, users, the clock and the hosts.
LEMMA OutsideWorks ==
  ASSUME TypeOK, NEW t \in Tasks,
         Poller(t) \/ Cancel(t) \/ Reopen(t) \/ HumanRetry(t) \/ LeaseExpires(t)
  PROVE WorkLaw
<1>0. ExecOK /\ \A e \in Execs : exec[e] \in Row
  BY DEF TypeOK, ExecOK
<1>1. CASE CiFailed(t)
  <2> DEFINE e == pr[t]
             r == [exec[e] EXCEPT !.ci = exec[e].ci + 1]
  <2>1. e \in Execs /\ run' = run /\ exec' = [exec EXCEPT ![e] = r]
    BY <1>0, <1>1 DEF CiFailed, TypeOK, LeaseOK, ExecOK, Row
  <2>2. exec'[e] = r => WorkStep(e)
    BY <1>0, <2>1, RunKept DEF Row, WorkStep, Rests
  <2> QED
    BY <1>0, <2>1, <2>2, RunKept, OneRowWorks
<1>2. CASE Cancel(t)
  <2>1. run' = run /\ \A e \in Execs :
          exec'[e] = IF e \in LiveOf(t) THEN [exec[e] EXCEPT !.state = "CANCELLED"] ELSE exec[e]
    BY <1>2 DEF Cancel
  <2>2. ASSUME NEW e \in Execs PROVE WorkStep(e)
    <3>1. CASE e \in LiveOf(t)
      <4>1. /\ exec[e].state \in LiveStates /\ exec'[e].state = "CANCELLED"
            /\ exec'[e].host = exec[e].host
        BY <1>0, <2>1, <3>1 DEF LiveOf, Row
      <4>2. PassedOn(exec[e].task)
        BY <1>2, <3>1 DEF Cancel, LiveOf, Of, PassedOn, TypeOK, TaskOK, RetryableTaskStates
      <4> QED
        BY <2>1, <4>1, <4>2, RunKept DEF WorkStep, Ends
    <3>2. CASE e \notin LiveOf(t)
      BY <2>1, <3>2, RunKept DEF WorkStep, Rests
    <3> QED
      BY <3>1, <3>2
  <2> QED
    BY <2>2 DEF WorkLaw
<1>3. CASE \/ CiPassed(t) \/ Merged(t) \/ ClosedUnmerged(t)
           \/ Reopen(t) \/ HumanRetry(t) \/ LeaseExpires(t)
  BY <1>3, RunKept, WorkSame
     DEF CiPassed, Merged, ClosedUnmerged, Reopen, HumanRetry, LeaseExpires
<1> QED
  BY <1>1, <1>2, <1>3 DEF Poller

LEMMA ResolveWorks ==
  ASSUME TypeOK, NEW e \in Execs, ResolveIssue(e)
  PROVE WorkLaw
<1> DEFINE r == [exec[e] EXCEPT !.issues = exec[e].issues - 1]
<1>1. ExecOK /\ exec[e] \in Row
  BY DEF TypeOK, ExecOK
<1>2. /\ run' = run /\ exec' = [exec EXCEPT ![e] = r]
      /\ exec[e].state = "WAITING_FOR_USER" /\ Answered(e)'
  <2>1. PICK i \in CmdIds :
          cmd' = [cmd EXCEPT ![i] = [kind |-> "decision", exec |-> e, status |-> "queued"]]
    BY DEF ResolveIssue, Enqueue
  <2>2. cmd'[i].kind = "decision" /\ cmd'[i].exec = e /\ cmd'[i].status = "queued"
    BY <2>1 DEF TypeOK, CmdOK
  <2> QED
    BY <1>1, <2>2 DEF ResolveIssue, ExecOK, Row, Answered, Pending
<1>3. exec'[e] = r => WorkStep(e)
  BY <1>1, <1>2, RunKept DEF Row, WorkStep, Rests
<1> QED
  BY <1>1, <1>2, <1>3, RunKept, OneRowWorks

LEMMA HostWorks ==
  ASSUME TypeOK, NEW w \in Workers,
         Crash(w) \/ Restart(w) \/ Freeze(w) \/ Thaw(w) \/ HeartbeatStale(w)
  PROVE WorkLaw
<1>1. CASE Crash(w)
  <2>1. \A x \in Execs : NoNewRun(x)
    BY <1>1 DEF Crash, TypeOK, MemoryOK, NoNewRun, Holds
  <2> QED
    BY <1>1, <2>1, WorkSame DEF Crash
<1>2. CASE Restart(w) \/ Freeze(w) \/ Thaw(w) \/ HeartbeatStale(w)
  BY <1>2, RunKept, WorkSame DEF Restart, Freeze, Thaw, HeartbeatStale
<1> QED
  BY <1>1, <1>2

LEMMA WorkSteps ==
  ASSUME TypeOK, [Next]_vars
  PROVE WorkLaw
<1>1. ASSUME NEW w \in Workers, Runner(w) PROVE WorkLaw
  BY <1>1, RunnerWorks DEF Runner
<1>2. CASE UNCHANGED vars
  BY <1>2, RunKept, WorkSame DEF vars
<1> QED
  BY <1>1, <1>2, SchedulerWorks, FailureWorks, CallWorks, CommandWorks, OutsideWorks,
     ResolveWorks, HostWorks DEF Next, Resolve

-----------------------------------------------------------------------------
(* Only the holder acts                                                    *)

LEMMA HoldersStayPinned ==
  ASSUME HolderInv, WorkLaw, NEW w \in Workers, NEW e \in Execs, Holds(w, e)'
  PROVE /\ exec'[e].state \notin {"NONE", "QUEUED", "WAITING_FOR_USER"}
        /\ exec'[e].state \in SlotStates => exec'[e].host = w
        /\ exec'[e].state = "COMPLETED" => exec'[e].host \in {w, NoWorker}
<1>1. ASSUME NEW v \in Workers, Holds(v, e)
      PROVE /\ exec[e].state \notin {"NONE", "QUEUED", "WAITING_FOR_USER"}
            /\ exec[e].state \in SlotStates => exec[e].host = v
            /\ exec[e].state = "COMPLETED" => exec[e].host \in {v, NoWorker}
  BY <1>1 DEF HolderInv, HoldersPinned
<1>2. NoNewRun(e) => Holds(w, e)
  BY DEF NoNewRun
<1>3. CASE Rests(e)
  BY <1>1, <1>2, <1>3, LifecycleAssumption DEF Rests, Releasable, SlotStates
<1>4. CASE Opens(e)
  BY <1>1, <1>2, <1>4 DEF Opens, SlotStates
<1>5. CASE Ends(e)
  BY <1>5 DEF Ends, SlotStates
<1>6. CASE Queues(e)
  BY <1>1, <1>2, <1>6 DEF Queues
<1>7. CASE Pauses(e)
  <2>1. PICK v \in Workers : Holds(v, e) /\ ~Holds(v, e)'
    BY <1>7 DEF Pauses
  <2>2. exec[e].host = v /\ exec[e].host = w
    BY <1>1, <1>2, <1>7, <2>1 DEF Pauses, SlotStates
  <2> QED
    BY <2>1, <2>2
<1>8. CASE Completes(e)
  BY <1>1, <1>2, <1>8 DEF Completes, SlotStates
<1>9. CASE Starts(e)
  <2>1. PICK v \in Workers : PinnedRun(v, e)
    BY <1>9 DEF Starts
  <2>2. w # v => Holds(w, e)
    BY <2>1 DEF PinnedRun
  <2> QED
    BY <1>1, <1>9, <2>1, <2>2 DEF Starts, PinnedRun
<1>10. CASE Resumes(e)
  <2>1. PICK v \in Workers :
          /\ PinnedRun(v, e) /\ exec[e].host = v /\ exec'[e].state = "RUNNING"
          /\ exec[e].state \in {"COMPLETED", "WAITING_FOR_USER"}
    BY <1>10 DEF Resumes, ResumableState
  <2>2. w # v => Holds(w, e)
    BY <2>1 DEF PinnedRun
  <2> QED
    BY <1>1, <2>1, <2>2, LifecycleAssumption DEF PinnedRun
<1> QED
  BY <1>3, <1>4, <1>5, <1>6, <1>7, <1>8, <1>9, <1>10 DEF WorkLaw, WorkStep

\* A live execution is run by the worker its row is pinned to and by no other,
\* and none that has ended keeps a token: a run begins in the step that pins the
\* row (Starts) or rechecks the pin (Resumes), an execution pauses in the step
\* that ends the run, and report_pr_created revokes the token of what it ends.
THEOREM OnlyHolderActs == Spec => []HolderActsAlone
<1>1. Init => HolderInv
  <2>1. Init => HoldersPinned /\ CompletedHasNoToken
    BY DEF Init, HoldersPinned, CompletedHasNoToken, Holds, NoRow
  <2> QED
    BY <2>1, TypeInit DEF HolderInv
<1>2. HolderInv /\ [Next]_vars => HolderInv'
  <2> SUFFICES ASSUME HolderInv, [Next]_vars PROVE HolderInv'
    OBVIOUS
  <2>1. TypeOK' /\ WorkLaw
    BY BoxStep, WorkSteps DEF HolderInv
  <2>2. HoldersPinned'
    <3>1. ASSUME NEW w \in Workers, NEW e \in Execs, Holds(w, e)'
          PROVE /\ exec'[e].state \notin {"NONE", "QUEUED", "WAITING_FOR_USER"}
                /\ exec'[e].state \in SlotStates => exec'[e].host = w
                /\ exec'[e].state = "COMPLETED" => exec'[e].host \in {w, NoWorker}
      BY <2>1, <3>1, HoldersStayPinned
    <3> QED
      BY <3>1 DEF HoldersPinned
  <2>3. CompletedHasNoToken'
    <3> SUFFICES ASSUME NEW e \in Execs, exec'[e].state = "COMPLETED"
                 PROVE exec'[e].token = NoWorker
      BY DEF CompletedHasNoToken
    <3>1. CASE Rests(e)
      BY <3>1 DEF Rests, SlotStates, HolderInv, CompletedHasNoToken
    <3>2. CASE Completes(e)
      BY <3>2 DEF Completes
    <3> QED
      BY <2>1, <3>1, <3>2
         DEF WorkLaw, WorkStep, Opens, Ends, Queues, Pauses, Starts, Resumes
  <2> QED
    BY <2>1, <2>2, <2>3 DEF HolderInv
<1>3. HolderInv => HolderActsAlone
  BY DEF HolderInv, HoldersPinned, HolderActsAlone, RunsWherePinned, Holds
<1> QED
  BY <1>1, <1>2, <1>3, PTL DEF Spec

-----------------------------------------------------------------------------
(* What one step may do to the tasks that were delivered and to the        *)
(* commands                                                                *)

\* A task is delivered by the completion of an execution of its own.
PassLaw ==
  \A t \in Tasks :
    \/ pr'[t] = pr[t] /\ (task'[t] \in Delivered => task[t] \in Delivered)
    \/ \E e \in Execs : Completes(e) /\ exec[e].task = t

\* A CI failure is handed to the execution of a pull request in the step that
\* takes its task back to work.
Sent(i) ==
  \E t \in Tasks :
    /\ task[t] \in Delivered /\ task'[t] \notin Delivered
    /\ pr[t] \in Execs /\ cmd'[i].exec = pr[t]
    /\ \A j \in CmdIds \ {i} : cmd'[j] = cmd[j]

CiLaw == \A i \in CmdIds :
           OpenCi(i)' => \/ OpenCi(i) /\ cmd'[i].exec = cmd[i].exec
                         \/ Sent(i)

LEMMA TaskStays ==
  ASSUME pr' = pr, task' = task
  PROVE PassLaw
BY DEF PassLaw

LEMMA TaskMoves ==
  ASSUME TaskOK, pr' = pr, NEW t \in Tasks, NEW s, task' = [task EXCEPT ![t] = s],
         s \in Delivered => task[t] \in Delivered
  PROVE PassLaw
BY DEF TaskOK, PassLaw

LEMMA FailPasses ==
  ASSUME TypeOK, NEW e \in Execs, exec[e].state \in SlotStates,
         NEW reason, NEW token, Fail(e, reason, token), pr' = pr
  PROVE PassLaw
<1>1. exec[e].task \in Tasks /\ TaskOK
  BY Names DEF TypeOK, SlotStates
<1>2. task' = task \/ task' = [task EXCEPT ![exec[e].task] = "NEEDS_HUMAN"]
  BY DEF Fail, Escalated
<1> QED
  BY <1>1, <1>2, TaskStays, TaskMoves DEF Delivered

LEMMA EndFailedPasses ==
  ASSUME TypeOK, NEW e \in Execs, NEW reason, EndFailed(e, reason), pr' = pr
  PROVE PassLaw
<1>1. CASE exec[e].state \in SlotStates
  BY <1>1, FailPasses DEF EndFailed
<1>2. CASE exec[e].state \notin SlotStates
  BY <1>2, TaskStays DEF EndFailed
<1> QED
  BY <1>1, <1>2

LEMMA SchedulerPasses ==
  ASSUME TypeOK, NEW w \in Workers, Scheduler(w)
  PROVE PassLaw
<1>0. TaskOK
  BY DEF TypeOK
<1>1. ASSUME NEW t \in Tasks, Promote(w, t) PROVE PassLaw
  BY <1>0, <1>1, TaskMoves DEF Promote, Delivered
<1>2. ASSUME NEW t \in Tasks, Claim(w, t) PROVE PassLaw
  BY <1>0, <1>2, TaskMoves DEF Claim, Delivered
<1>3. ASSUME NEW t \in Tasks, ListExpired(w, t) PROVE PassLaw
  BY <1>3, TaskStays DEF ListExpired
<1>4. ASSUME NEW e \in Execs, StartRetry(w, e) \/ ReleaseHost(w, e) PROVE PassLaw
  BY <1>4, TaskStays DEF StartRetry, ReleaseHost
<1>5. CASE SweepLease(w)
  <2> DEFINE s == swept[w]
  <2>1. s \in Execs /\ pr' = pr
    BY <1>5 DEF SweepLease, TypeOK, MemoryOK
  <2>2. CASE StillExpired(s)
    <3>1. Fail(s, "lease_expired", NoWorker) /\ exec[s].state \in SlotStates
      BY <1>5, <2>2 DEF SweepLease, StillExpired, Renewable
    <3> HIDE DEF s
    <3> QED
      BY <2>1, <3>1, FailPasses
  <2>3. CASE ~StillExpired(s)
    BY <1>5, <2>1, <2>3, TaskStays DEF SweepLease
  <2> QED
    BY <2>2, <2>3
<1>6. CASE Heartbeat(w)
  BY <1>6, TaskStays DEF Heartbeat
<1> QED
  BY <1>1, <1>2, <1>3, <1>4, <1>5, <1>6 DEF Scheduler

LEMMA RunnerPasses ==
  ASSUME TypeOK, NEW w \in Workers, Runner(w) \/ Failures(w) \/ AbortFault(w)
  PROVE PassLaw
<1>1. ASSUME NEW e \in Execs,
             \/ ResumeRetry(w, e) \/ IssueToken(w, e) \/ SessionStarted(w, e)
             \/ Renew(w, e) \/ Gone(w, e) \/ Finalize(w, e) \/ RunAborts(w, e)
      PROVE PassLaw
  BY <1>1, TaskStays
     DEF ResumeRetry, IssueToken, SessionStarted, Renew, Gone, Finalize, RunAborts
<1>2. ASSUME NEW e \in Execs, EndTurn(w, e) PROVE PassLaw
  <2>1. pr' = pr /\ (task' = task \/ EndFailed(e, "protocol_violation"))
    BY <1>2 DEF EndTurn
  <2> QED
    BY <2>1, TaskStays, EndFailedPasses
<1>3. ASSUME NEW e \in Execs, SetupFails(w, e) PROVE PassLaw
  BY <1>3, EndFailedPasses DEF SetupFails
<1>4. ASSUME NEW e \in Execs, NEW reason \in TurnFailures, FailTurn(w, e, reason)
      PROVE PassLaw
  BY <1>4, EndFailedPasses DEF FailTurn
<1> QED
  BY <1>1, <1>2, <1>3, <1>4 DEF Runner, Failures, AbortFault

LEMMA CallPasses ==
  ASSUME TypeOK, NEW w \in Workers, Agent(w)
  PROVE PassLaw
<1>0. TaskOK /\ \A e \in Execs : exec[e].state = "RUNNING" => exec[e].task \in Tasks
  BY Names DEF TypeOK
<1>1. ASSUME NEW e \in Execs, NEW round \in Rounds, ReviewStarted(w, e, round)
      PROVE PassLaw
  BY <1>0, <1>1, TaskMoves DEF ReviewStarted, Authorized, Delivered
<1>2. ASSUME NEW e \in Execs, NEW round \in Rounds, NEW v \in Verdicts,
             ReviewResult(w, e, round, v)
      PROVE PassLaw
  <2>1. exec[e].task \in Tasks /\ pr' = pr
    BY <1>0, <1>2 DEF ReviewResult, Authorized
  <2>2. \/ task' = task
        \/ task' = [task EXCEPT ![exec[e].task] = "NEEDS_HUMAN"]
        \/ task' = [task EXCEPT ![exec[e].task] = "IMPLEMENTING"]
    BY <1>2 DEF ReviewResult
  <2> QED
    BY <1>0, <2>1, <2>2, TaskStays, TaskMoves DEF Delivered
<1>3. ASSUME NEW e \in Execs, PrCreated(w, e) PROVE PassLaw
  <2>1. exec[e].state = "RUNNING" /\ exec'[e].state = "COMPLETED"
    BY <1>3 DEF PrCreated, Authorized, TypeOK, ExecOK, Row
  <2>2. WorkStep(e)
    BY CallWorks DEF WorkLaw
  <2>3. Completes(e)
    BY <2>1, <2>2 DEF WorkStep, Rests, Opens, Ends, Queues, Pauses, Starts, Resumes
  <2>4. /\ task' = [task EXCEPT ![exec[e].task] = "CI_RUNNING"]
        /\ pr' = [pr EXCEPT ![exec[e].task] = e]
    BY <1>3 DEF PrCreated
  <2>5. \A t \in Tasks \ {exec[e].task} : task'[t] = task[t] /\ pr'[t] = pr[t]
    BY <2>4 DEF TypeOK, TaskOK, LeaseOK
  <2> QED
    BY <2>3, <2>5 DEF PassLaw
<1>4. ASSUME NEW e \in Execs, ReportFailed(w, e) PROVE PassLaw
  <2>1. exec[e].task \in Tasks /\ pr' = pr
    BY <1>0, <1>4 DEF ReportFailed, Authorized
  <2>2. task' = task \/ task' = [task EXCEPT ![exec[e].task] = "NEEDS_HUMAN"]
    BY <1>4 DEF ReportFailed, Escalated
  <2> QED
    BY <1>0, <2>1, <2>2, TaskStays, TaskMoves DEF Delivered
<1>5. ASSUME NEW e \in Execs, RaiseIssue(w, e) PROVE PassLaw
  BY <1>5, TaskStays DEF RaiseIssue
<1> QED
  BY <1>1, <1>2, <1>3, <1>4, <1>5 DEF Agent

LEMMA PassSteps ==
  ASSUME TypeOK, [Next]_vars
  PROVE PassLaw
<1>0. TaskOK
  BY DEF TypeOK
<1>1. ASSUME NEW t \in Tasks, Poller(t) \/ Cancel(t) \/ Reopen(t) \/ HumanRetry(t)
      PROVE PassLaw
  <2>1. pr' = pr /\ \E s : /\ task' = [task EXCEPT ![t] = s]
                           /\ s \in Delivered => task[t] \in Delivered
    BY <1>1 DEF Poller, CiFailed, CiPassed, Merged, ClosedUnmerged, Cancel, Reopen,
                HumanRetry, Delivered
  <2> QED
    BY <1>0, <2>1, TaskMoves
<1>2. ASSUME NEW t \in Tasks, LeaseExpires(t) PROVE PassLaw
  BY <1>2, TaskStays DEF LeaseExpires
<1>3. ASSUME NEW w \in Workers, Commands(w) \/ ResumeFault(w) PROVE PassLaw
  BY <1>3, TaskStays DEF Commands, ClaimCommands, BeginResume, CommitResume, ResumeFault,
                         ResumeRefused
<1>4. ASSUME NEW w \in Workers,
             Crash(w) \/ Restart(w) \/ Freeze(w) \/ Thaw(w) \/ HeartbeatStale(w)
      PROVE PassLaw
  BY <1>4, TaskStays DEF Crash, Restart, Freeze, Thaw, HeartbeatStale
<1>5. CASE Resolve
  BY <1>5, TaskStays DEF Resolve, ResolveIssue
<1>6. CASE UNCHANGED vars
  BY <1>6, TaskStays DEF vars
<1> QED
  BY <1>1, <1>2, <1>3, <1>4, <1>5, <1>6, SchedulerPasses, RunnerPasses, CallPasses DEF Next

\* A handler leaves its command to the queue, to nobody or done.
LEMMA LeaveHolds ==
  ASSUME TypeOK, BatchHeld, NEW w \in Workers, NEW i \in batch[w], NEW status,
         status # "free", Leave(w, i, status)
  PROVE CiLaw /\ BatchHeld'
<1>1. /\ i \in CmdIds /\ cmd[i].status = "claimed"
      /\ \A v \in Workers : i \in batch[v] => v = w
  BY DEF TypeOK, MemoryOK, BatchHeld
<1>2. /\ \A j \in CmdIds \ {i} : cmd'[j] = cmd[j]
      /\ cmd'[i].kind = cmd[i].kind /\ cmd'[i].exec = cmd[i].exec
      /\ batch'[w] = batch[w] \ {i}
      /\ \A v \in Workers \ {w} : batch'[v] = batch[v]
  BY <1>1 DEF Leave, TypeOK, CmdOK, MemoryOK, Command
<1>3. CiLaw
  BY <1>1, <1>2 DEF CiLaw, OpenCi
<1>4. BatchHeld'
  <2> SUFFICES ASSUME NEW u \in Workers, NEW j \in batch'[u]
               PROVE cmd'[j].status = "claimed" /\ \A v \in Workers : j \in batch'[v] => v = u
    BY DEF BatchHeld
  <2>1. j \in batch[u] /\ j # i
    BY <1>1, <1>2
  <2>2. j \in CmdIds
    BY <2>1 DEF TypeOK, MemoryOK
  <2>3. cmd[j].status = "claimed" /\ \A v \in Workers : j \in batch[v] => v = u
    BY <2>1 DEF BatchHeld
  <2> QED
    BY <1>2, <2>1, <2>2, <2>3
<1> QED
  BY <1>3, <1>4

LEMMA CommandsKept ==
  ASSUME BatchHeld, cmd' = cmd, \A w \in Workers : batch'[w] \subseteq batch[w]
  PROVE CiLaw /\ BatchHeld'
<1>1. CiLaw
  BY DEF CiLaw, OpenCi
<1>2. BatchHeld'
  BY DEF BatchHeld
<1> QED
  BY <1>1, <1>2

\* A command that is inserted was free, so that no worker handled it.
LEMMA EnqueueHolds ==
  ASSUME TypeOK, BatchHeld, NEW kind, NEW e, Enqueue(kind, e), batch' = batch
  PROVE /\ BatchHeld'
        /\ \A i \in CmdIds :
             cmd'[i] # cmd[i] => /\ cmd'[i].kind = kind /\ cmd'[i].exec = e
                                 /\ \A j \in CmdIds \ {i} : cmd'[j] = cmd[j]
<1>1. PICK i \in CmdIds :
        /\ cmd[i].status = "free"
        /\ cmd' = [cmd EXCEPT ![i] = [kind |-> kind, exec |-> e, status |-> "queued"]]
  BY DEF Enqueue
<1>2. /\ cmd'[i].kind = kind /\ cmd'[i].exec = e
      /\ \A j \in CmdIds \ {i} : cmd'[j] = cmd[j]
  BY <1>1 DEF TypeOK, CmdOK
<1>3. BatchHeld'
  <2> SUFFICES ASSUME NEW u \in Workers, NEW j \in batch[u]
               PROVE cmd'[j].status = "claimed" /\ \A v \in Workers : j \in batch[v] => v = u
    BY DEF BatchHeld
  <2>1. j \in CmdIds /\ cmd[j].status = "claimed" /\ \A v \in Workers : j \in batch[v] => v = u
    BY DEF TypeOK, MemoryOK, BatchHeld
  <2> QED
    BY <1>1, <1>2, <2>1
<1> QED
  BY <1>2, <1>3

LEMMA CommandHolds ==
  ASSUME TypeOK, BatchHeld, NEW w \in Workers, Commands(w) \/ ResumeFault(w)
  PROVE CiLaw /\ BatchHeld'
<1>0. /\ cmd \in [CmdIds -> Command] /\ batch \in [Workers -> SUBSET CmdIds]
  BY DEF TypeOK, CmdOK, MemoryOK
<1>1. CASE ClaimCommands(w)
  <2>1. PICK S \in SUBSET CmdIds : S = Eligible(w)
    BY DEF Eligible
  <2>2. \A i \in S : cmd[i].status = "queued"
    BY <2>1 DEF Eligible
  <2>3. /\ cmd' = [i \in CmdIds |->
                    IF i \in S THEN [cmd[i] EXCEPT !.status = "claimed"] ELSE cmd[i]]
        /\ batch' = [batch EXCEPT ![w] = S]
    BY <1>1, <2>1 DEF ClaimCommands
  <2>4. ASSUME NEW i \in S
        PROVE /\ cmd'[i].kind = cmd[i].kind /\ cmd'[i].exec = cmd[i].exec
              /\ cmd'[i].status = "claimed"
    BY <1>0, <2>3 DEF Command
  <2>5. \A i \in CmdIds \ S : cmd'[i] = cmd[i]
    BY <2>3
  <2>6. CiLaw
    <3> SUFFICES ASSUME NEW i \in CmdIds, OpenCi(i)'
                 PROVE OpenCi(i) /\ cmd'[i].exec = cmd[i].exec
      BY DEF CiLaw
    <3> QED
      BY <2>2, <2>4, <2>5 DEF OpenCi
  <2>7. BatchHeld'
    <3> SUFFICES ASSUME NEW u \in Workers, NEW j \in batch'[u]
                 PROVE /\ cmd'[j].status = "claimed"
                       /\ \A v \in Workers : j \in batch'[v] => v = u
      BY DEF BatchHeld
    <3>1. batch'[w] = S /\ \A v \in Workers \ {w} : batch'[v] = batch[v]
      BY <1>0, <2>3
    <3>2. ASSUME NEW v \in Workers, NEW x \in batch[v]
          PROVE /\ x \in CmdIds \ S /\ cmd[x].status = "claimed"
                /\ \A z \in Workers : x \in batch[z] => z = v
      BY <1>0, <2>2 DEF BatchHeld
    <3>3. CASE u = w
      BY <2>4, <3>1, <3>2, <3>3
    <3>4. CASE u # w
      BY <2>5, <3>1, <3>2, <3>4
    <3> QED
      BY <3>3, <3>4
  <2> QED
    BY <2>6, <2>7
<1>2. ASSUME NEW i \in CmdIds, BeginResume(w, i) PROVE CiLaw /\ BatchHeld'
  <2>1. CASE Refusal(w, i) # "none"
    <3>1. Refusal(w, i) # "free"
      BY DEF Refusal, RefusalOfCi, RefusalOfDecision
    <3> QED
      BY <1>2, <2>1, <3>1, LeaveHolds DEF BeginResume, NextInBatch
  <2>2. CASE Refusal(w, i) = "none"
    BY <1>2, <2>2, CommandsKept DEF BeginResume
  <2> QED
    BY <2>1, <2>2
<1>3. ASSUME NEW i \in CmdIds, CommitResume(w, i) PROVE CiLaw /\ BatchHeld'
  <2>1. i \in batch[w] /\ (Leave(w, i, "done") \/ Leave(w, i, "queued"))
    BY <1>3 DEF CommitResume, NextInBatch
  <2> QED
    BY <2>1, LeaveHolds
<1>4. ASSUME NEW i \in CmdIds, ResumeRefused(w, i) PROVE CiLaw /\ BatchHeld'
  <2>1. i \in batch[w] /\ (Leave(w, i, "done") \/ Leave(w, i, "claimed"))
    BY <1>4 DEF ResumeRefused, NextInBatch
  <2> QED
    BY <2>1, LeaveHolds
<1> QED
  BY <1>1, <1>2, <1>3, <1>4 DEF Commands, ResumeFault

LEMMA CommandLaw ==
  ASSUME TypeOK, BatchHeld, [Next]_vars
  PROVE CiLaw /\ BatchHeld'
<1>1. ASSUME NEW w \in Workers, Scheduler(w) PROVE CiLaw /\ BatchHeld'
  BY <1>1, CommandsKept DEF Scheduler, Promote, Claim, ListExpired, StartRetry, ReleaseHost,
                            SweepLease, Heartbeat
<1>2. ASSUME NEW w \in Workers, Runner(w) PROVE CiLaw /\ BatchHeld'
  BY <1>2, CommandsKept DEF Runner, ResumeRetry, IssueToken, SessionStarted, Renew, Gone,
                            EndTurn, Finalize
<1>3. ASSUME NEW w \in Workers, Agent(w) PROVE CiLaw /\ BatchHeld'
  BY <1>3, CommandsKept DEF Agent, PrCreated, ReportFailed, RaiseIssue, ReviewStarted,
                            ReviewResult
<1>4. ASSUME NEW w \in Workers, Failures(w) \/ AbortFault(w) PROVE CiLaw /\ BatchHeld'
  BY <1>4, CommandsKept DEF Failures, SetupFails, FailTurn, AbortFault, RunAborts
<1>5. ASSUME NEW w \in Workers, Crash(w) PROVE CiLaw /\ BatchHeld'
  <2>1. \A v \in Workers : batch'[v] \subseteq batch[v]
    BY <1>5 DEF Crash, TypeOK, MemoryOK
  <2> QED
    BY <1>5, <2>1, CommandsKept DEF Crash
<1>6. ASSUME NEW w \in Workers, Restart(w) \/ Freeze(w) \/ Thaw(w) \/ HeartbeatStale(w)
      PROVE CiLaw /\ BatchHeld'
  BY <1>6, CommandsKept DEF Restart, Freeze, Thaw, HeartbeatStale
<1>7. ASSUME NEW t \in Tasks, CiFailed(t) PROVE CiLaw /\ BatchHeld'
  <2>1. CASE cmd' = cmd
    BY <1>7, <2>1, CommandsKept DEF CiFailed
  <2>2. CASE Enqueue("ci", pr[t])
    <3>1. /\ task[t] = "CI_RUNNING" /\ pr[t] \in Execs /\ batch' = batch
          /\ task'[t] \notin Delivered
      BY <1>7 DEF CiFailed, TypeOK, TaskOK, LeaseOK, Delivered
    <3>2. /\ BatchHeld'
          /\ \A i \in CmdIds :
               cmd'[i] # cmd[i] => /\ cmd'[i].exec = pr[t]
                                   /\ \A j \in CmdIds \ {i} : cmd'[j] = cmd[j]
      BY <2>2, <3>1, EnqueueHolds
    <3>3. \A i \in CmdIds : cmd'[i] # cmd[i] => Sent(i)
      BY <3>1, <3>2 DEF Sent, Delivered
    <3>4. CiLaw
      BY <3>3 DEF CiLaw, OpenCi
    <3> QED
      BY <3>2, <3>4
  <2> QED
    BY <1>7, <2>1, <2>2 DEF CiFailed
<1>8. ASSUME NEW t \in Tasks,
             \/ CiPassed(t) \/ Merged(t) \/ ClosedUnmerged(t)
             \/ Cancel(t) \/ Reopen(t) \/ HumanRetry(t) \/ LeaseExpires(t)
      PROVE CiLaw /\ BatchHeld'
  BY <1>8, CommandsKept DEF CiPassed, Merged, ClosedUnmerged, Cancel, Reopen, HumanRetry,
                            LeaseExpires
<1>9. ASSUME NEW e \in Execs, ResolveIssue(e) PROVE CiLaw /\ BatchHeld'
  <2>1. /\ BatchHeld'
        /\ \A i \in CmdIds : cmd'[i] # cmd[i] => cmd'[i].kind = "decision"
    BY <1>9, EnqueueHolds DEF ResolveIssue
  <2> QED
    BY <2>1 DEF CiLaw, OpenCi
<1>10. CASE UNCHANGED vars
  BY <1>10, CommandsKept DEF vars
<1> QED
  BY <1>1, <1>2, <1>3, <1>4, <1>5, <1>6, <1>7, <1>8, <1>9, <1>10, CommandHolds
     DEF Next, Poller, Resolve

-----------------------------------------------------------------------------
(* The review gate                                                         *)

\* An execution rests COMPLETED, with its verdict, until the one CI command
\* that is open for it is done.
LEMMA CompletedRests ==
  ASSUME TypeOK, BatchHeld, WorkLaw, NEW e \in Execs, exec[e].state = "COMPLETED"
  PROVE \/ /\ exec'[e].state = "COMPLETED"
           /\ exec'[e].verdict = exec[e].verdict /\ exec'[e].task = exec[e].task
        \/ \E i \in CmdIds : OpenCi(i) /\ cmd[i].exec = e /\ ~OpenCi(i)'
<1>1. CASE Rests(e)
  BY <1>1 DEF Rests, SlotStates
<1>2. CASE Resumes(e)
  <2>1. PICK w \in Workers : \E i \in batch[w] :
          /\ cmd[i].exec = e /\ exec[e].state = ResumableState(cmd[i].kind)
          /\ cmd'[i].status = "done"
    BY <1>2 DEF Resumes
  <2>2. PICK i \in batch[w] : /\ cmd[i].exec = e
                              /\ exec[e].state = ResumableState(cmd[i].kind)
                              /\ cmd'[i].status = "done"
    BY <2>1
  <2>3. i \in CmdIds /\ cmd[i].status = "claimed"
    BY DEF TypeOK, MemoryOK, BatchHeld
  <2>4. cmd[i].kind = "ci"
    BY <2>2 DEF ResumableState
  <2> QED
    BY <2>2, <2>3, <2>4 DEF OpenCi
<1> QED
  BY <1>1, <1>2 DEF WorkLaw, WorkStep, Opens, Ends, Queues, Pauses, Completes, Starts,
                    LiveStates

LEMMA GateInvHolds == Spec => []GateInv
<1>1. Init => GateInv
  <2>1. Init => BatchHeld /\ CiOncePerWork /\ ReviewGate
    BY DEF Init, BatchHeld, CiOncePerWork, ReviewGate, OpenCi, NoCommand
  <2> QED
    BY <2>1, TypeInit DEF GateInv
<1>2. GateInv /\ [Next]_vars => GateInv'
  <2> SUFFICES ASSUME GateInv, [Next]_vars PROVE GateInv'
    OBVIOUS
  <2>1. TypeOK /\ BatchHeld /\ TypeOK' /\ WorkLaw /\ PassLaw /\ CiLaw /\ BatchHeld'
    BY BoxStep, WorkSteps, PassSteps, CommandLaw DEF GateInv
  <2>2. ASSUME NEW t \in Tasks, task[t] \in Delivered
        PROVE /\ pr[t] \in Execs /\ exec[pr[t]].task = t
              /\ exec[pr[t]].state = "COMPLETED" /\ exec[pr[t]].verdict = "clean"
              /\ \A i \in CmdIds : OpenCi(i) => cmd[i].exec # pr[t]
    BY <2>2 DEF GateInv, ReviewGate, CiOncePerWork, Delivered, Of
  <2>3. ASSUME NEW t \in Tasks, task[t] \in Delivered
        PROVE /\ exec'[pr[t]].state = "COMPLETED" /\ exec'[pr[t]].verdict = "clean"
              /\ exec'[pr[t]].task = t
    BY <2>1, <2>2, <2>3, CompletedRests
  <2>4. ReviewGate'
    <3> SUFFICES ASSUME NEW t \in Tasks, task'[t] \in Delivered
                 PROVE /\ pr'[t] \in Execs /\ exec'[pr'[t]].task = t
                       /\ exec'[pr'[t]].state = "COMPLETED" /\ exec'[pr'[t]].verdict = "clean"
      BY DEF ReviewGate, Of, Delivered
    <3>1. CASE task[t] \in Delivered /\ pr'[t] = pr[t]
      BY <2>2, <2>3, <3>1
    <3>2. ASSUME NEW e \in Execs, Completes(e), exec[e].task = t
          PROVE pr'[t] = e /\ exec'[e].task = t
      BY <2>1, <3>2 DEF Completes, TypeOK, LeaseOK
    <3> QED
      BY <2>1, <3>1, <3>2 DEF PassLaw, Completes
  <2>5. CiOncePerWork'
    <3> SUFFICES ASSUME NEW i \in CmdIds, OpenCi(i)'
                 PROVE /\ exec'[cmd'[i].exec].state = "COMPLETED"
                       /\ \A t \in Tasks : pr'[t] = cmd'[i].exec => task'[t] \notin Delivered
                       /\ \A j \in CmdIds : OpenCi(j)' /\ cmd'[j].exec = cmd'[i].exec => j = i
      BY DEF CiOncePerWork
    <3>1. ASSUME OpenCi(i), cmd'[i].exec = cmd[i].exec
          PROVE /\ exec'[cmd'[i].exec].state = "COMPLETED"
                /\ \A t \in Tasks : pr'[t] = cmd'[i].exec => task'[t] \notin Delivered
                /\ \A j \in CmdIds : OpenCi(j)' /\ cmd'[j].exec = cmd'[i].exec => j = i
      <4>1. PICK e \in Execs : e = cmd[i].exec
        BY <2>1, <3>1 DEF TypeOK, CmdOK, OpenCi
      <4>2. /\ exec[e].state = "COMPLETED"
            /\ \A t \in Tasks : pr[t] = e => task[t] \notin Delivered
            /\ \A j \in CmdIds : OpenCi(j) /\ cmd[j].exec = e => j = i
        BY <3>1, <4>1 DEF GateInv, CiOncePerWork
      <4>3. exec'[e].state = "COMPLETED"
        BY <2>1, <4>2, CompletedRests
      <4>4. ~Completes(e)
        BY <4>2 DEF Completes
      <4>5. ASSUME NEW t \in Tasks, pr'[t] = e PROVE task'[t] \notin Delivered
        <5>1. ASSUME NEW f \in Execs, Completes(f), exec[f].task = t PROVE pr'[t] = f
          BY <2>1, <5>1 DEF Completes, TypeOK, LeaseOK
        <5> QED
          BY <2>1, <4>2, <4>4, <4>5, <5>1 DEF PassLaw
      <4>6. ASSUME NEW j \in CmdIds, OpenCi(j)', cmd'[j].exec = e PROVE j = i
        <5>1. CASE OpenCi(j) /\ cmd'[j].exec = cmd[j].exec
          BY <4>2, <4>6, <5>1
        <5>2. CASE Sent(j)
          BY <4>2, <4>6, <5>2 DEF Sent
        <5> QED
          BY <2>1, <4>6, <5>1, <5>2 DEF CiLaw
      <4> QED
        BY <3>1, <4>1, <4>3, <4>5, <4>6
    <3>2. ASSUME Sent(i)
          PROVE /\ exec'[cmd'[i].exec].state = "COMPLETED"
                /\ \A t \in Tasks : pr'[t] = cmd'[i].exec => task'[t] \notin Delivered
                /\ \A j \in CmdIds : OpenCi(j)' /\ cmd'[j].exec = cmd'[i].exec => j = i
      <4>1. PICK t \in Tasks : /\ task[t] \in Delivered /\ task'[t] \notin Delivered
                               /\ pr[t] \in Execs /\ cmd'[i].exec = pr[t]
                               /\ \A j \in CmdIds \ {i} : cmd'[j] = cmd[j]
        BY <3>2 DEF Sent
      <4>2. PICK e \in Execs : e = pr[t]
        BY <4>1
      <4>3. exec'[e].state = "COMPLETED" /\ exec[e].state = "COMPLETED"
        BY <2>2, <2>3, <4>1, <4>2
      <4>4. ~Completes(e)
        BY <4>3 DEF Completes
      <4>5. ASSUME NEW u \in Tasks, pr'[u] = e, task'[u] \in Delivered PROVE FALSE
        <5>1. ASSUME NEW f \in Execs, Completes(f), exec[f].task = u PROVE pr'[u] = f
          BY <2>1, <5>1 DEF Completes, TypeOK, LeaseOK
        <5>2. pr'[u] = pr[u] /\ task[u] \in Delivered
          BY <2>1, <4>4, <4>5, <5>1 DEF PassLaw
        <5>3. exec[pr[u]].task = u /\ exec[pr[t]].task = t
          BY <2>2, <4>1, <5>2
        <5>4. pr[u] = pr[t]
          BY <4>2, <4>5, <5>2
        <5> QED
          BY <4>1, <4>5, <5>3, <5>4
      <4>6. ASSUME NEW j \in CmdIds, OpenCi(j)', cmd'[j].exec = e, j # i PROVE FALSE
        <5>1. OpenCi(j) /\ cmd[j].exec = e
          BY <4>1, <4>6 DEF OpenCi
        <5> QED
          BY <2>2, <4>1, <4>2, <5>1
      <4> QED
        BY <4>1, <4>2, <4>3, <4>5, <4>6
    <3> QED
      BY <2>1, <3>1, <3>2 DEF CiLaw
  <2> QED
    BY <2>1, <2>4, <2>5 DEF GateInv
<1> QED
  BY <1>1, <1>2, PTL DEF Spec

\* A pull request is delivered by the execution that report_pr_created ends, with
\* a clean verdict (Completes).  Only a CI command brings that execution back, and
\* inserting it takes the task out of the delivered states; no second one is
\* inserted before the first is handled, so the task is not delivered on the
\* strength of a review that a resumed agent has begun again.
THEOREM GateHolds == Spec => []ReviewGate
<1>1. GateInv => ReviewGate
  BY DEF GateInv
<1> QED
  BY <1>1, GateInvHolds, PTL

-----------------------------------------------------------------------------
(* Every move of a state is a row of the tables                            *)

\* A merge takes two rows from CI_RUNNING.
LegalMove(a, b) == \/ TaskMove(a, b)
                   \/ \E s \in TaskStates : b = "DONE" /\ TaskMove(a, s) /\ TaskMove(s, "DONE")

TaskLaw == \A t \in Tasks : LegalMove(task[t], task'[t])

LegalStart(a, b) == ExecutionMove(a, b) \/ (a = "NONE" /\ b \in {"QUEUED", "ASSIGNED"})

LEMMA TaskRow ==
  ASSUME NEW s, NEW trigger, NEW u, <<s, trigger, u>> \in TaskTable
  PROVE TaskMove(s, u)
BY DEF TaskMove

\* The rows the handlers rely on without a trigger of their own
LEMMA TaskRows ==
  /\ TaskMove("SPEC_APPROVED", "READY") /\ TaskMove("READY", "IMPLEMENTING")
  /\ TaskMove("REVIEWING", "IMPLEMENTING") /\ TaskMove("REVIEWING", "CI_RUNNING")
  /\ TaskMove("CI_RUNNING", "IMPLEMENTING") /\ TaskMove("CI_RUNNING", "READY_FOR_MERGE")
  /\ TaskMove("READY_FOR_MERGE", "DONE") /\ TaskMove("READY_FOR_MERGE", "NEEDS_HUMAN")
  /\ TaskMove("CI_RUNNING", "NEEDS_HUMAN") /\ TaskMove("NEEDS_HUMAN", "READY")
  /\ TaskMove("CANCELLED", "SPEC_APPROVED")
<1>1. /\ <<"SPEC_APPROVED", "dependency.satisfied", "READY">> \in TaskTable
      /\ <<"READY", "task.claimed", "IMPLEMENTING">> \in TaskTable
      /\ <<"REVIEWING", "review.findings", "IMPLEMENTING">> \in TaskTable
      /\ <<"REVIEWING", "pull_request.created", "CI_RUNNING">> \in TaskTable
      /\ <<"CI_RUNNING", "ci.failed", "IMPLEMENTING">> \in TaskTable
      /\ <<"CI_RUNNING", "ci.passed", "READY_FOR_MERGE">> \in TaskTable
      /\ <<"READY_FOR_MERGE", "pull_request.merged", "DONE">> \in TaskTable
      /\ <<"READY_FOR_MERGE", "pull_request.closed", "NEEDS_HUMAN">> \in TaskTable
      /\ <<"CI_RUNNING", "task.escalated", "NEEDS_HUMAN">> \in TaskTable
      /\ <<"NEEDS_HUMAN", "human.retry", "READY">> \in TaskTable
      /\ <<"CANCELLED", "task.reopened.spec_approved", "SPEC_APPROVED">> \in TaskTable
  BY DEF TaskTable, WorkRows, EndRows
<1> QED
  BY <1>1, TaskRow

\* Where a handler looks an edge up, the edge leads where the handler goes.
LEMMA EdgesLead ==
  ASSUME NEW s
  PROVE /\ TaskEdge(s, "task.escalated") => TaskMove(s, "NEEDS_HUMAN")
        /\ TaskEdge(s, "review.started") => TaskMove(s, "REVIEWING")
        /\ TaskEdge(s, "task.cancelled") => TaskMove(s, "CANCELLED")
<1>1. ASSUME NEW r \in TaskTable
      PROVE /\ r[2] = "task.escalated" => r[3] = "NEEDS_HUMAN"
            /\ r[2] = "review.started" => r[3] = "REVIEWING"
            /\ r[2] = "task.cancelled" => r[3] = "CANCELLED"
  <2>1. CASE r \in SpecRows
    BY <2>1 DEF SpecRows
  <2>2. CASE r \in WorkRows
    BY <2>2 DEF WorkRows
  <2>3. CASE r \in EndRows
    BY <2>3 DEF EndRows
  <2> QED
    BY <2>1, <2>2, <2>3 DEF TaskTable
<1> QED
  BY <1>1 DEF TaskEdge, TaskMove

LEMMA ExecutionRows ==
  /\ ExecutionMove("QUEUED", "ASSIGNED") /\ ExecutionMove("ASSIGNED", "RUNNING")
  /\ ExecutionMove("RUNNING", "WAITING_FOR_USER") /\ ExecutionMove("WAITING_FOR_USER", "RUNNING")
  /\ ExecutionMove("RUNNING", "COMPLETED") /\ ExecutionMove("COMPLETED", "RUNNING")
  /\ \A s \in SlotStates : ExecutionMove(s, "FAILED")
  /\ \A s \in LiveStates : ExecutionMove(s, "CANCELLED")
<1>1. ASSUME NEW s, NEW trigger, NEW u, <<s, trigger, u>> \in ExecutionTable
      PROVE ExecutionMove(s, u)
  BY <1>1 DEF ExecutionMove
<1>2. /\ <<"QUEUED", "execution.assigned", "ASSIGNED">> \in ExecutionTable
      /\ <<"ASSIGNED", "execution.started", "RUNNING">> \in ExecutionTable
      /\ <<"RUNNING", "execution.waiting", "WAITING_FOR_USER">> \in ExecutionTable
      /\ <<"WAITING_FOR_USER", "execution.resumed", "RUNNING">> \in ExecutionTable
      /\ <<"RUNNING", "execution.completed", "COMPLETED">> \in ExecutionTable
      /\ <<"COMPLETED", "execution.resumed", "RUNNING">> \in ExecutionTable
      /\ <<"RUNNING", "execution.failed", "FAILED">> \in ExecutionTable
      /\ <<"ASSIGNED", "execution.failed", "FAILED">> \in ExecutionTable
      /\ \A s \in LiveStates : <<s, "execution.cancelled", "CANCELLED">> \in ExecutionTable
  BY DEF ExecutionTable, LiveStates
<1> QED
  BY <1>1, <1>2 DEF SlotStates

LEMMA NoTaskMoves ==
  ASSUME task' = task
  PROVE TaskLaw
BY DEF TaskLaw, LegalMove, TaskMove

LEMMA OneTaskMoves ==
  ASSUME TaskOK, NEW t \in Tasks, NEW s, task' = [task EXCEPT ![t] = s], LegalMove(task[t], s)
  PROVE TaskLaw
BY DEF TaskOK, TaskLaw, LegalMove, TaskMove

LEMMA EscalationMoves ==
  ASSUME TaskOK, NEW t \in Tasks, task' = Escalated(t)
  PROVE TaskLaw
<1>1. CASE TaskEdge(task[t], "task.escalated")
  BY <1>1, EdgesLead, OneTaskMoves DEF Escalated, LegalMove
<1>2. CASE ~TaskEdge(task[t], "task.escalated")
  BY <1>2, NoTaskMoves DEF Escalated
<1> QED
  BY <1>1, <1>2

LEMMA FailMoves ==
  ASSUME TypeOK, NEW e \in Execs, exec[e].state \in SlotStates,
         NEW reason, NEW token, Fail(e, reason, token)
  PROVE TaskLaw
<1>1. exec[e].task \in Tasks /\ TaskOK
  BY Names DEF TypeOK, SlotStates
<1>2. task' = task \/ task' = Escalated(exec[e].task)
  BY DEF Fail
<1> QED
  BY <1>1, <1>2, NoTaskMoves, EscalationMoves

LEMMA EndFailedMoves ==
  ASSUME TypeOK, NEW e \in Execs, NEW reason, EndFailed(e, reason)
  PROVE TaskLaw
<1>1. CASE exec[e].state \in SlotStates
  BY <1>1, FailMoves DEF EndFailed
<1>2. CASE exec[e].state \notin SlotStates
  BY <1>2, NoTaskMoves DEF EndFailed
<1> QED
  BY <1>1, <1>2

LEMMA SchedulerMoves ==
  ASSUME TypeOK, NEW w \in Workers, Scheduler(w)
  PROVE TaskLaw
<1>0. TaskOK
  BY DEF TypeOK
<1>1. ASSUME NEW t \in Tasks, Promote(w, t) \/ Claim(w, t) PROVE TaskLaw
  <2>1. \/ task[t] = "SPEC_APPROVED" /\ task' = [task EXCEPT ![t] = "READY"]
        \/ task[t] = "READY" /\ task' = [task EXCEPT ![t] = "IMPLEMENTING"]
    BY <1>1 DEF Promote, Claim
  <2> QED
    BY <1>0, <2>1, TaskRows, OneTaskMoves DEF LegalMove
<1>2. ASSUME NEW t \in Tasks, ListExpired(w, t) PROVE TaskLaw
  BY <1>2, NoTaskMoves DEF ListExpired
<1>3. ASSUME NEW e \in Execs, StartRetry(w, e) \/ ReleaseHost(w, e) PROVE TaskLaw
  BY <1>3, NoTaskMoves DEF StartRetry, ReleaseHost
<1>4. CASE SweepLease(w)
  <2>1. PICK s \in Execs : s = swept[w]
    BY <1>4 DEF SweepLease, TypeOK, MemoryOK
  <2>2. CASE StillExpired(s)
    <3>1. Fail(s, "lease_expired", NoWorker) /\ exec[s].state \in SlotStates
      BY <1>4, <2>1, <2>2 DEF SweepLease, StillExpired, Renewable
    <3> QED
      BY <3>1, FailMoves
  <2>3. CASE ~StillExpired(s)
    BY <1>4, <2>1, <2>3, NoTaskMoves DEF SweepLease
  <2> QED
    BY <2>2, <2>3
<1>5. CASE Heartbeat(w)
  BY <1>5, NoTaskMoves DEF Heartbeat
<1> QED
  BY <1>1, <1>2, <1>3, <1>4, <1>5 DEF Scheduler

LEMMA RunnerMoves ==
  ASSUME TypeOK, NEW w \in Workers, Runner(w) \/ Failures(w) \/ AbortFault(w)
  PROVE TaskLaw
<1>1. ASSUME NEW e \in Execs,
             \/ ResumeRetry(w, e) \/ IssueToken(w, e) \/ SessionStarted(w, e)
             \/ Renew(w, e) \/ Gone(w, e) \/ Finalize(w, e) \/ RunAborts(w, e)
      PROVE TaskLaw
  BY <1>1, NoTaskMoves
     DEF ResumeRetry, IssueToken, SessionStarted, Renew, Gone, Finalize, RunAborts
<1>2. ASSUME NEW e \in Execs, EndTurn(w, e) PROVE TaskLaw
  <2>1. task' = task \/ EndFailed(e, "protocol_violation")
    BY <1>2 DEF EndTurn
  <2> QED
    BY <2>1, NoTaskMoves, EndFailedMoves
<1>3. ASSUME NEW e \in Execs, SetupFails(w, e) PROVE TaskLaw
  BY <1>3, EndFailedMoves DEF SetupFails
<1>4. ASSUME NEW e \in Execs, NEW reason \in TurnFailures, FailTurn(w, e, reason)
      PROVE TaskLaw
  BY <1>4, EndFailedMoves DEF FailTurn
<1> QED
  BY <1>1, <1>2, <1>3, <1>4 DEF Runner, Failures, AbortFault

LEMMA CallMoves ==
  ASSUME TypeOK, NEW w \in Workers, Agent(w)
  PROVE TaskLaw
<1>0. TaskOK /\ \A e \in Execs : exec[e].state = "RUNNING" => exec[e].task \in Tasks
  BY Names DEF TypeOK
<1>1. ASSUME NEW e \in Execs, NEW round \in Rounds, ReviewStarted(w, e, round)
      PROVE TaskLaw
  <2>1. /\ exec[e].task \in Tasks /\ TaskEdge(task[exec[e].task], "review.started")
        /\ task' = [task EXCEPT ![exec[e].task] = "REVIEWING"]
    BY <1>0, <1>1 DEF ReviewStarted, Authorized
  <2> QED
    BY <1>0, <2>1, EdgesLead, OneTaskMoves DEF LegalMove
<1>2. ASSUME NEW e \in Execs, NEW round \in Rounds, NEW v \in Verdicts,
             ReviewResult(w, e, round, v)
      PROVE TaskLaw
  <2>1. PICK t \in Tasks : t = exec[e].task
    BY <1>0, <1>2 DEF ReviewResult, Authorized
  <2>2. \/ task' = task
        \/ /\ TaskEdge(task[t], "task.escalated")
           /\ task' = [task EXCEPT ![t] = "NEEDS_HUMAN"]
        \/ task[t] = "REVIEWING" /\ task' = [task EXCEPT ![t] = "IMPLEMENTING"]
    BY <1>2, <2>1 DEF ReviewResult
  <2> QED
    BY <1>0, <2>2, EdgesLead, TaskRows, NoTaskMoves, OneTaskMoves DEF LegalMove
<1>3. ASSUME NEW e \in Execs, PrCreated(w, e) PROVE TaskLaw
  <2>1. /\ exec[e].task \in Tasks /\ task[exec[e].task] = "REVIEWING"
        /\ task' = [task EXCEPT ![exec[e].task] = "CI_RUNNING"]
    BY <1>0, <1>3 DEF PrCreated, Authorized, CleanlyReviewed
  <2> QED
    BY <1>0, <2>1, TaskRows, OneTaskMoves DEF LegalMove
<1>4. ASSUME NEW e \in Execs, ReportFailed(w, e) PROVE TaskLaw
  BY <1>0, <1>4, EscalationMoves DEF ReportFailed, Authorized
<1>5. ASSUME NEW e \in Execs, RaiseIssue(w, e) PROVE TaskLaw
  BY <1>5, NoTaskMoves DEF RaiseIssue
<1> QED
  BY <1>1, <1>2, <1>3, <1>4, <1>5 DEF Agent

LEMMA OutsideMoves ==
  ASSUME TypeOK, NEW t \in Tasks, Poller(t) \/ Cancel(t) \/ Reopen(t) \/ HumanRetry(t)
  PROVE TaskLaw
<1>0. TaskOK /\ "READY_FOR_MERGE" \in TaskStates
  BY States DEF TypeOK
<1>1. CASE CiFailed(t)
  <2>1. /\ task[t] = "CI_RUNNING"
        /\ \E s \in {"NEEDS_HUMAN", "IMPLEMENTING"} : task' = [task EXCEPT ![t] = s]
    BY <1>1 DEF CiFailed
  <2> QED
    BY <1>0, <2>1, TaskRows, OneTaskMoves DEF LegalMove
<1>2. CASE CiPassed(t)
  BY <1>0, <1>2, TaskRows, OneTaskMoves DEF CiPassed, LegalMove
<1>3. CASE Merged(t)
  <2>1. LegalMove(task[t], "DONE")
    BY <1>0, <1>3, TaskRows DEF Merged, LegalMove
  <2> QED
    BY <1>0, <1>3, <2>1, OneTaskMoves DEF Merged
<1>4. CASE ClosedUnmerged(t)
  BY <1>0, <1>4, TaskRows, OneTaskMoves DEF ClosedUnmerged, LegalMove
<1>5. CASE Cancel(t)
  BY <1>0, <1>5, EdgesLead, OneTaskMoves DEF Cancel, LegalMove
<1>6. CASE Reopen(t) \/ HumanRetry(t)
  BY <1>0, <1>6, TaskRows, OneTaskMoves DEF Reopen, HumanRetry, LegalMove
<1> QED
  BY <1>1, <1>2, <1>3, <1>4, <1>5, <1>6 DEF Poller

LEMMA MoveSteps ==
  ASSUME TypeOK, [Next]_vars
  PROVE TaskLaw
<1>1. ASSUME NEW t \in Tasks, LeaseExpires(t) PROVE TaskLaw
  BY <1>1, NoTaskMoves DEF LeaseExpires
<1>2. ASSUME NEW w \in Workers, Commands(w) \/ ResumeFault(w) PROVE TaskLaw
  BY <1>2, NoTaskMoves DEF Commands, ClaimCommands, BeginResume, CommitResume, ResumeFault,
                           ResumeRefused
<1>3. ASSUME NEW w \in Workers,
             Crash(w) \/ Restart(w) \/ Freeze(w) \/ Thaw(w) \/ HeartbeatStale(w)
      PROVE TaskLaw
  BY <1>3, NoTaskMoves DEF Crash, Restart, Freeze, Thaw, HeartbeatStale, rows
<1>4. CASE Resolve
  BY <1>4, NoTaskMoves DEF Resolve, ResolveIssue
<1>5. CASE UNCHANGED vars
  BY <1>5, NoTaskMoves DEF vars
<1> QED
  BY <1>1, <1>2, <1>3, <1>4, <1>5, SchedulerMoves, RunnerMoves, CallMoves, OutsideMoves DEF Next

\* No step of any process moves a task or an execution but along a row of its
\* table, or inserts an execution in another state than QUEUED or ASSIGNED: the
\* checks that the handlers make themselves let nothing through that transition()
\* would refuse, whatever another process did since they read.
THEOREM TablesAreFollowed == Spec => FollowsTables
<1>1. TypeOK /\ [Next]_vars
        => [/\ \A t \in Tasks :
                 \/ TaskMove(task[t], task'[t])
                 \/ \E s \in TaskStates : /\ task'[t] = "DONE"
                                          /\ TaskMove(task[t], s) /\ TaskMove(s, "DONE")
            /\ \A e \in Execs :
                 \/ ExecutionMove(exec[e].state, exec'[e].state)
                 \/ exec[e].state = "NONE" /\ exec'[e].state \in {"QUEUED", "ASSIGNED"}]_vars
  <2> SUFFICES ASSUME TypeOK, [Next]_vars
               PROVE /\ \A t \in Tasks : LegalMove(task[t], task'[t])
                     /\ \A e \in Execs : LegalStart(exec[e].state, exec'[e].state)
    BY DEF LegalMove, LegalStart
  <2>1. ASSUME NEW e \in Execs PROVE LegalStart(exec[e].state, exec'[e].state)
    <3>1. WorkStep(e)
      BY WorkSteps DEF WorkLaw
    <3>2. CASE Rests(e)
      BY <3>2 DEF Rests, LegalStart, ExecutionMove
    <3>3. CASE Ends(e)
      BY <3>3, ExecutionRows DEF Ends, LegalStart
    <3>4. CASE Queues(e) \/ Starts(e)
      BY <3>4, ExecutionRows DEF Queues, Starts, LegalStart
    <3>5. CASE Opens(e) \/ Pauses(e) \/ Completes(e)
      BY <3>5, ExecutionRows DEF Opens, Pauses, Completes, LegalStart
    <3>6. CASE Resumes(e)
      BY <3>6, ExecutionRows DEF Resumes, ResumableState, LegalStart
    <3> QED
      BY <3>1, <3>2, <3>3, <3>4, <3>5, <3>6 DEF WorkStep
  <2> QED
    BY <2>1, MoveSteps DEF TaskLaw
<1> QED
  BY <1>1, TypeCorrect, PTL DEF Spec, FollowsTables

-----------------------------------------------------------------------------
(* The budgets of retries                                                  *)

\* A row that is not inserted in this step
KeptRow(e) ==
  /\ exec'[e].state = "NONE" <=> exec[e].state = "NONE"
  /\ exec'[e].task = exec[e].task /\ exec'[e].of = exec[e].of /\ exec'[e].used = exec[e].used
  /\ exec[e].state = "FAILED" => exec'[e].state = "FAILED" /\ exec'[e].reason = exec[e].reason

LEMMA KeptRows ==
  ASSUME ExecStep, NEW e \in Execs, ~Inserted(e)
  PROVE KeptRow(e)
BY DEF ExecStep, Updated, Swept, Started, Regained, Kept, KeptRow

\* The cause of a retry is the reason of a row that has failed, which stays.
LEMMA CausesKept ==
  ASSUME RetryInv, ExecStep, NEW e \in Execs, ~Inserted(e)
  PROVE /\ InfraRetry(e)' <=> InfraRetry(e)
        /\ ProtocolRetry(e)' <=> ProtocolRetry(e)
<1>1. exec'[e].of = exec[e].of
  BY KeptRows DEF KeptRow
<1>2. CASE exec[e].of = NoExec
  BY <1>1, <1>2 DEF InfraRetry, ProtocolRetry
<1>3. CASE exec[e].of # NoExec
  <2>1. PICK p \in Execs : p = exec[e].of /\ exec[p].state = "FAILED"
    BY <1>3 DEF RetryInv, OfFailed
  <2>2. exec'[p].reason = exec[p].reason
    BY <2>1, KeptRows DEF KeptRow, Inserted
  <2> QED
    BY <1>1, <2>1, <2>2 DEF InfraRetry, ProtocolRetry
<1> QED
  BY <1>2, <1>3

LEMMA UsedRow ==
  ASSUME ExecOK, NEW e \in Execs
  PROVE exec[e].task \in Tasks <=> e \notin Fresh
BY LifecycleAssumption DEF ExecOK, Row, Fresh

\* Rows change without a new one.
LEMMA LinesStay ==
  ASSUME RetryInv, ExecStep, NEW root \in [Execs -> Execs], Lines(root),
         \A e \in Execs : ~Inserted(e)
  PROVE Lines(root)'
<1>1. \A e \in Execs : KeptRow(e) /\ (InfraRetry(e)' <=> InfraRetry(e))
                      /\ (ProtocolRetry(e)' <=> ProtocolRetry(e))
  BY KeptRows, CausesKept
<1>2. Fresh' = Fresh /\ \A e \in Execs : LastOfLine(e)' <=> LastOfLine(e)
  BY <1>1 DEF KeptRow, Fresh, LastOfLine
<1>3. ASSUME NEW e \in Execs \ Fresh PROVE LineOf(root, e)'
  <2>1. LineOf(root, e) /\ root[e] \in Execs
    BY <1>3 DEF Lines
  <2>2. exec[e].of # NoExec => exec[e].of \in Execs
    BY DEF RetryInv, OfFailed
  <2> QED
    BY <1>1, <2>1, <2>2 DEF LineOf, KeptRow
<1>4. ASSUME NEW e \in Execs \ Fresh, NEW f \in Execs \ Fresh, root[e] = root[f]
      PROVE SameLine(e, f)'
  <2>1. SameLine(e, f)
    BY <1>4 DEF Lines
  <2> QED
    BY <1>1, <1>2, <2>1 DEF SameLine, KeptRow
<1> QED
  BY <1>2, <1>3, <1>4 DEF Lines

\* What an insert leaves of the lines that are there
LEMMA OthersStay ==
  ASSUME RetryInv, ExecStep, NEW n \in Execs, Inserted(n)
  PROVE /\ n \in Fresh /\ Fresh' = Fresh \ {n}
        /\ \A e \in Execs \ {n} :
             /\ KeptRow(e)
             /\ InfraRetry(e)' <=> InfraRetry(e)
             /\ ProtocolRetry(e)' <=> ProtocolRetry(e)
             /\ LastOfLine(e)' => LastOfLine(e) /\ e # exec'[n].of
             /\ exec[e].of # NoExec => exec[e].of \in Execs \ {n}
<1>1. exec[n].state = "NONE" /\ exec'[n].state # "NONE"
  BY DEF Inserted
<1>2. ASSUME NEW e \in Execs \ {n} PROVE ~Inserted(e)
  BY <1>1 DEF Inserted
<1>3. \A e \in Execs \ {n} : /\ KeptRow(e) /\ (InfraRetry(e)' <=> InfraRetry(e))
                             /\ (ProtocolRetry(e)' <=> ProtocolRetry(e))
  BY <1>2, KeptRows, CausesKept
<1>4. n \in Fresh /\ Fresh' = Fresh \ {n}
  BY <1>1, <1>3 DEF KeptRow, Fresh
<1>5. ASSUME NEW e \in Execs \ {n}, LastOfLine(e)'
      PROVE  LastOfLine(e) /\ e # exec'[n].of
  <2>1. e \in Execs \ Fresh /\ \A x \in Execs \ Fresh' : exec'[x].of # e
    BY <1>4, <1>5 DEF LastOfLine
  <2>2. \A x \in Execs \ Fresh : exec[x].of # e
    BY <1>3, <1>4, <2>1 DEF KeptRow
  <2> QED
    BY <1>4, <2>1, <2>2 DEF LastOfLine
<1>6. ASSUME NEW e \in Execs \ {n}, exec[e].of # NoExec PROVE exec[e].of \in Execs \ {n}
  BY <1>1, <1>6 DEF RetryInv, OfFailed
<1> QED
  BY <1>3, <1>4, <1>5, <1>6

\* A claim begins a line.
LEMMA LineBegins ==
  ASSUME RetryInv, ExecStep, NEW n \in Execs, Inserted(n), exec'[n].of = NoExec,
         NEW root \in [Execs -> Execs], Lines(root)
  PROVE \E now \in [Execs -> Execs] : Lines(now)'
<1> DEFINE now == [root EXCEPT ![n] = n]
<1>1. now \in [Execs -> Execs] /\ now[n] = n /\ \A e \in Execs \ {n} : now[e] = root[e]
  OBVIOUS
<1> HIDE DEF now
<1>2. /\ n \in Fresh /\ Fresh' = Fresh \ {n}
      /\ \A e \in Execs \ {n} : /\ KeptRow(e) /\ (InfraRetry(e)' <=> InfraRetry(e))
                                /\ (ProtocolRetry(e)' <=> ProtocolRetry(e))
                                /\ (LastOfLine(e)' => LastOfLine(e))
                                /\ (exec[e].of # NoExec => exec[e].of \in Execs \ {n})
  BY OthersStay
<1>3. \A e \in Execs \ Fresh : LineOf(root, e) /\ root[e] \in Execs \ {n} /\ e # n
  <2> SUFFICES ASSUME NEW e \in Execs \ Fresh PROVE LineOf(root, e) /\ root[e] \in Execs \ {n} /\ e # n
    OBVIOUS
  <2>1. LineOf(root, e) /\ exec[e].task \in Tasks
    BY UsedRow DEF Lines, RetryInv, TypeOK
  <2>2. root[e] \notin Fresh
    BY <2>1, UsedRow DEF LineOf, RetryInv, TypeOK
  <2> QED
    BY <1>2, <2>1, <2>2
<1>4. ~InfraRetry(n)' /\ ~ProtocolRetry(n)'
  BY DEF InfraRetry, ProtocolRetry
<1>5. ASSUME NEW e \in Execs \ Fresh' PROVE LineOf(now, e)'
  <2>1. CASE e = n
    BY <1>1, <1>4, <2>1 DEF LineOf
  <2>2. CASE e # n
    BY <1>1, <1>2, <1>3, <2>2 DEF LineOf, KeptRow
  <2> QED
    BY <2>1, <2>2
<1>6. ASSUME NEW e \in Execs \ Fresh', NEW f \in Execs \ Fresh', now[e] = now[f]
      PROVE SameLine(e, f)'
  <2>1. CASE e = n \/ f = n
    <3>1. e = n /\ f = n
      BY <1>1, <1>2, <1>3, <1>6, <2>1
    <3>2. exec'[n].used = 0
      BY DEF Inserted
    <3> QED
      BY <3>1, <3>2 DEF SameLine
  <2>2. CASE e # n /\ f # n
    <3>1. SameLine(e, f)
      BY <1>1, <1>2, <1>6, <2>2 DEF Lines
    <3> QED
      BY <1>2, <2>2, <3>1 DEF SameLine, KeptRow
  <2> QED
    BY <2>1, <2>2
<1>7. Lines(now)'
  BY <1>5, <1>6 DEF Lines
<1> QED
  BY <1>1, <1>7

\* A retry becomes the last row of the line of what it retries.
LEMMA LineGoesOn ==
  ASSUME RetryInv, ExecStep, NEW n \in Execs, Inserted(n),
         NEW p \in Execs, p = exec'[n].of,
         NEW root \in [Execs -> Execs], Lines(root)
  PROVE \E now \in [Execs -> Execs] : Lines(now)'
<1>1. p = exec'[n].of /\ p # NoExec
  BY LifecycleAssumption
<1> DEFINE now == [root EXCEPT ![n] = root[p]]
<1>2. now \in [Execs -> Execs] /\ now[n] = root[p] /\ \A e \in Execs \ {n} : now[e] = root[e]
  OBVIOUS
<1> HIDE DEF now
<1>3. /\ n \in Fresh /\ Fresh' = Fresh \ {n}
      /\ \A e \in Execs \ {n} : /\ KeptRow(e) /\ (InfraRetry(e)' <=> InfraRetry(e))
                                /\ (ProtocolRetry(e)' <=> ProtocolRetry(e))
                                /\ (LastOfLine(e)' => LastOfLine(e) /\ e # p)
                                /\ (exec[e].of # NoExec => exec[e].of \in Execs \ {n})
  BY <1>1, OthersStay
<1>4. \A e \in Execs \ Fresh : LineOf(root, e) /\ root[e] \in Execs \ {n} /\ e # n
  <2> SUFFICES ASSUME NEW e \in Execs \ Fresh PROVE LineOf(root, e) /\ root[e] \in Execs \ {n} /\ e # n
    OBVIOUS
  <2>1. LineOf(root, e) /\ exec[e].task \in Tasks
    BY UsedRow DEF Lines, RetryInv, TypeOK
  <2>2. root[e] \notin Fresh
    BY <2>1, UsedRow DEF LineOf, RetryInv, TypeOK
  <2> QED
    BY <1>3, <2>1, <2>2
<1>5. /\ exec[p].state \in SlotStates /\ exec'[n].task = exec[p].task
      /\ WithinBudget(p, exec'[p].reason) /\ exec[p].used \in Nat
      /\ exec'[n].used = IF exec'[p].reason \in InfraFailures THEN exec[p].used + 1
                                                              ELSE exec[p].used
  BY <1>1 DEF Inserted, RetryOf, RetryInv, TypeOK, ExecOK, Row
<1>6. p \in Execs \ Fresh /\ LastOfLine(p)
  <2>1. exec[p].state \notin {"NONE", "FAILED"}
    BY <1>5 DEF SlotStates
  <2>2. \A x \in Execs : exec[x].of # p
    BY <1>1, <2>1 DEF RetryInv, OfFailed
  <2> QED
    BY <2>1, <2>2 DEF Fresh, LastOfLine
<1>7. /\ InfraRetry(n)' <=> exec'[p].reason \in InfraFailures
      /\ ProtocolRetry(n)' <=> exec'[p].reason = "protocol_violation"
  BY <1>1 DEF InfraRetry, ProtocolRetry
<1>8. /\ InfraRetry(n)' \/ ProtocolRetry(n)'
      /\ InfraRetry(n)' => exec'[n].used = exec[p].used + 1 /\ exec[p].used < MaxInfraRetries
      /\ exec'[n].used \in Nat /\ exec'[n].used >= exec[p].used
  BY <1>5, <1>7 DEF WithinBudget, InfraFailures
<1>9. MaxInfraRetries \in Nat /\ \A e \in Execs : exec[e].used \in Nat
  BY LifecycleAssumption DEF RetryInv, TypeOK, ExecOK, Row
<1>10. ASSUME NEW e \in Execs \ Fresh' PROVE LineOf(now, e)'
  <2>1. CASE e = n
    <3>1. LineOf(root, p) /\ root[p] \in Execs \ {n} /\ p # n
      BY <1>4, <1>6
    <3>2. KeptRow(p) /\ KeptRow(root[p])
      BY <1>3, <3>1
    <3>3. exec'[root[p]].of = NoExec /\ exec'[root[p]].task = exec'[n].task
          /\ exec'[p].task = exec'[n].task
      BY <1>5, <3>1, <3>2 DEF LineOf, KeptRow
    <3>4. InfraRetry(n)' => exec'[n].used \in 1 .. MaxInfraRetries
      BY <1>8, <1>9, <1>5
    <3> QED
      BY <1>1, <1>2, <1>8, <2>1, <3>3, <3>4 DEF LineOf
  <2>2. CASE e # n
    BY <1>2, <1>3, <1>4, <2>2 DEF LineOf, KeptRow
  <2> QED
    BY <2>1, <2>2
<1>11. ASSUME NEW e \in Execs \ Fresh', NEW f \in Execs \ Fresh', now[e] = now[f]
       PROVE SameLine(e, f)'
  <2>0. \A x \in Execs \ Fresh' : x # n => x \in Execs \ Fresh /\ exec'[x].used = exec[x].used
    BY <1>3 DEF KeptRow
  <2>1. ASSUME NEW x \in Execs \ Fresh', x # n, now[x] = now[n]
        PROVE ~LastOfLine(x)' /\ exec'[x].used = exec[x].used /\ exec[x].used <= exec[p].used
    <3>1. SameLine(p, x)
      BY <1>2, <1>6, <2>0, <2>1 DEF Lines
    <3> QED
      BY <1>3, <1>6, <2>0, <2>1, <3>1 DEF SameLine
  <2>2. CASE e = n /\ f = n
    BY <1>8, <2>2 DEF SameLine
  <2>3. CASE e = n /\ f # n
    <3>1. ~LastOfLine(f)' /\ exec'[f].used = exec[f].used /\ exec[f].used <= exec[p].used
      BY <1>11, <2>1, <2>3
    <3> QED
      BY <1>8, <1>9, <2>3, <3>1 DEF SameLine
  <2>4. CASE e # n /\ f = n
    <3>1. ~LastOfLine(e)' /\ exec'[e].used = exec[e].used /\ exec[e].used <= exec[p].used
      BY <1>11, <2>1, <2>4
    <3> QED
      BY <1>8, <1>9, <2>4, <3>1 DEF SameLine
  <2>5. CASE e # n /\ f # n
    <3>1. SameLine(e, f)
      BY <1>2, <1>3, <1>11, <2>5 DEF Lines
    <3> QED
      BY <1>3, <2>5, <3>1 DEF SameLine, KeptRow
  <2> QED
    BY <2>2, <2>3, <2>4, <2>5
<1>12. Lines(now)'
  BY <1>10, <1>11 DEF Lines
<1> QED
  BY <1>2, <1>12

LEMMA Injected ==
  ASSUME NEW S, NEW T, IsFiniteSet(T), NEW f \in [S -> T],
         \A x, y \in S : f[x] = f[y] => x = y
  PROVE IsFiniteSet(S) /\ Cardinality(S) \in Nat /\ Cardinality(S) <= Cardinality(T)
<1>1. f \in Injection(S, T)
  BY DEF Injection, IsInjective
<1> QED
  BY <1>1, FS_Injection, FS_CardinalityType

\* A retry belongs to the task of what it retries.
SameTask ==
  \A e \in Execs \ Fresh : exec[e].of # NoExec => exec[exec[e].of].task = exec[e].task

\* Every protocol retry of a task names another violation of it.
LEMMA ProtocolRetriesFit ==
  ASSUME RetryInv, RetryInv', ExecStep, NEW t \in Tasks, IsFiniteSet(Of(t)),
         SameTask, Cardinality(ProtocolRetries(t)) <= MaxProtocolRetries
  PROVE IsFiniteSet(Of(t))' /\ Cardinality(ProtocolRetries(t)') <= MaxProtocolRetries
<1>0. MaxProtocolRetries \in Nat /\ ProtocolRetries(t) \subseteq Of(t)
  BY LifecycleAssumption DEF ProtocolRetries
<1>1. IsFiniteSet(ProtocolRetries(t)) /\ Cardinality(ProtocolRetries(t)) \in Nat
  BY <1>0, FS_Subset, FS_CardinalityType
<1>2. CASE \A e \in Execs : ~Inserted(e)
  <2>1. Of(t)' = Of(t)
    BY <1>2, KeptRows DEF KeptRow, Of
  <2>2. ProtocolRetries(t)' = ProtocolRetries(t)
    BY <1>2, <2>1, CausesKept DEF ProtocolRetries, Of
  <2> QED
    BY <2>1, <2>2
<1>3. ASSUME NEW n \in Execs, Inserted(n)
      PROVE IsFiniteSet(Of(t))' /\ Cardinality(ProtocolRetries(t)') <= MaxProtocolRetries
  <2>1. \A e \in Execs \ {n} : KeptRow(e) /\ (ProtocolRetry(e)' <=> ProtocolRetry(e))
    BY <1>3, OthersStay
  <2>2. Of(t)' \subseteq Of(t) \cup {n}
    BY <2>1 DEF KeptRow, Of
  <2>3. IsFiniteSet(Of(t)')
    BY <2>2, FS_AddElement, FS_Subset
  <2>4. CASE n \notin ProtocolRetries(t)'
    <3>1. ProtocolRetries(t)' \subseteq ProtocolRetries(t)
      BY <2>1, <2>4 DEF ProtocolRetries, Of, KeptRow
    <3>2. Cardinality(ProtocolRetries(t)') <= Cardinality(ProtocolRetries(t))
          /\ IsFiniteSet(ProtocolRetries(t)')
      BY <1>1, <3>1, FS_Subset
    <3> QED
      BY <1>0, <1>1, <2>3, <3>2, FS_CardinalityType
  <2>5. CASE n \in ProtocolRetries(t)'
    <3>1. /\ exec'[n].task = t /\ exec'[n].of # NoExec
          /\ exec'[exec'[n].of].reason = "protocol_violation"
      BY <2>5 DEF ProtocolRetries, ProtocolRetry, Of
    <3>2. PICK p \in Execs : /\ p = exec'[n].of /\ exec[p].task = t
                             /\ WithinBudget(p, "protocol_violation")
      BY <1>3, <3>1 DEF Inserted, RetryOf
    <3> DEFINE blamed == {x \in Of(t) : x = p \/ exec[x].reason = "protocol_violation"}
               old == ProtocolRetries(t)'
               of == [e \in old |-> exec'[e].of]
    <3>3. Cardinality(blamed) <= MaxProtocolRetries
      BY <3>2 DEF WithinBudget, Violations, InfraFailures
    <3>4. IsFiniteSet(blamed) /\ Cardinality(blamed) \in Nat
      BY FS_Subset, FS_CardinalityType
    <3>5. ASSUME NEW e \in old PROVE exec'[e].of \in blamed
      <4>1. CASE e = n
        BY <3>2, <4>1 DEF Of
      <4>2. CASE e # n
        <5>1. e \in Execs /\ exec[e].task = t /\ ProtocolRetry(e) /\ exec'[e].of = exec[e].of
          BY <2>1, <4>2 DEF ProtocolRetries, Of, KeptRow
        <5>2. exec[e].of \in Execs
          BY <5>1 DEF ProtocolRetry, RetryInv, OfFailed
        <5>3. exec[exec[e].of].task = t
          BY <5>1, UsedRow DEF SameTask, ProtocolRetry, RetryInv, TypeOK
        <5> QED
          BY <5>1, <5>2, <5>3 DEF ProtocolRetry, Of
      <4> QED
        BY <4>1, <4>2
    <3>6. of \in [old -> blamed]
      BY <3>5
    <3>7. ASSUME NEW e \in old, NEW f \in old, of[e] = of[f] PROVE e = f
      <4>1. /\ e \in Execs /\ f \in Execs /\ exec'[e].of = exec'[f].of
            /\ exec'[e].of # NoExec
        BY <3>7 DEF ProtocolRetries, ProtocolRetry, Of
      <4> QED
        BY <4>1 DEF RetryInv, RetriedOnce
    <3> HIDE DEF blamed, old, of
    <3>8. Cardinality(old) <= Cardinality(blamed) /\ Cardinality(old) \in Nat
      BY <3>4, <3>6, <3>7, Injected
    <3>9. Cardinality(old) <= MaxProtocolRetries
      BY <1>0, <3>3, <3>4, <3>8
    <3> QED
      BY <2>3, <3>9 DEF old
  <2> QED
    BY <2>3, <2>4, <2>5
<1> QED
  BY <1>2, <1>3

LEMMA BudgetInit ==
  ASSUME Init
  PROVE BudgetFits
<1>1. Fresh = Execs /\ \A t \in Tasks : Of(t) = {}
  BY LifecycleAssumption DEF Init, Fresh, Of, NoRow
<1>2. [e \in Execs |-> e] \in [Execs -> Execs] /\ \A root : Lines(root)
  BY <1>1 DEF Lines
<1>3. MaxProtocolRetries \in Nat /\ IsFiniteSet({}) /\ Cardinality({}) = 0
  BY LifecycleAssumption, FS_EmptySet
<1>4. ASSUME NEW t \in Tasks
      PROVE IsFiniteSet(Of(t)) /\ Cardinality(ProtocolRetries(t)) <= MaxProtocolRetries
  <2>1. Of(t) = {} /\ ProtocolRetries(t) = {}
    BY <1>1 DEF ProtocolRetries
  <2> QED
    BY <1>3, <2>1
<1> QED
  BY <1>2, <1>4 DEF BudgetFits

LEMMA BudgetStep ==
  ASSUME RetryInv, RetryInv', BudgetFits, [Next]_vars
  PROVE BudgetFits'
<1>1. ExecStep
  BY BoxStep DEF RetryInv
<1>2. PICK root \in [Execs -> Execs] : Lines(root)
  BY DEF BudgetFits
<1>3. \E now \in [Execs -> Execs] : Lines(now)'
  <2>1. CASE \A e \in Execs : ~Inserted(e)
    BY <1>1, <1>2, <2>1, LinesStay
  <2>2. ASSUME NEW n \in Execs, Inserted(n)
        PROVE \E now \in [Execs -> Execs] : Lines(now)'
    <3>1. CASE exec'[n].of = NoExec
      BY <1>1, <1>2, <2>2, <3>1, LineBegins
    <3>2. CASE exec'[n].of # NoExec
      <4>1. PICK p \in Execs : p = exec'[n].of
        BY <2>2, <3>2 DEF Inserted
      <4> QED
        BY <1>1, <1>2, <2>2, <4>1, LineGoesOn
    <3> QED
      BY <3>1, <3>2
  <2> QED
    BY <2>1, <2>2
<1>4. SameTask
  BY <1>2 DEF SameTask, Lines, LineOf
<1>5. ASSUME NEW t \in Tasks
      PROVE IsFiniteSet(Of(t))' /\ Cardinality(ProtocolRetries(t)') <= MaxProtocolRetries
  <2>1. IsFiniteSet(Of(t)) /\ Cardinality(ProtocolRetries(t)) <= MaxProtocolRetries
    BY DEF BudgetFits
  <2> QED
    BY <1>1, <1>4, <2>1, ProtocolRetriesFit
<1> QED
  BY <1>3, <1>5 DEF BudgetFits

\* The infrastructure retries of a task fit the rows that were claimed: each is
\* told from the others by the row its line began with and its own count.
LEMMA BudgetBounds ==
  ASSUME BudgetInv
  PROVE RetryBudget
<1> SUFFICES ASSUME NEW t \in Tasks
             PROVE Cardinality({e \in Of(t) : exec[e].of # NoExec}) <=
                     Cardinality(Of(t) \ {e \in Of(t) : exec[e].of # NoExec}) * MaxInfraRetries
                     + MaxProtocolRetries
  BY DEF RetryBudget
<1> DEFINE retries == {e \in Of(t) : exec[e].of # NoExec}
           claimed == Of(t) \ retries
           infra == {e \in retries : InfraRetry(e)}
           counts == 1 .. MaxInfraRetries
           protocol == ProtocolRetries(t)
<1>1. PICK root \in [Execs -> Execs] : Lines(root)
  BY DEF BudgetInv, BudgetFits
<1>2. IsFiniteSet(Of(t)) /\ Cardinality(protocol) <= MaxProtocolRetries
  BY DEF BudgetInv, BudgetFits
<1>3. MaxInfraRetries \in Nat /\ MaxProtocolRetries \in Nat
  BY LifecycleAssumption
<1>4. ASSUME NEW e \in retries
      PROVE e \in Execs \ Fresh /\ LineOf(root, e) /\ root[e] \in claimed
  <2>1. e \in Execs \ Fresh /\ exec[e].task = t
    BY UsedRow DEF BudgetInv, RetryInv, TypeOK, Of
  <2> QED
    BY <1>1, <2>1 DEF Lines, LineOf, Of
<1>5. retries \subseteq infra \cup protocol
  BY <1>4 DEF LineOf, ProtocolRetries
<1>6. /\ IsFiniteSet(claimed) /\ Cardinality(claimed) \in Nat
      /\ IsFiniteSet(protocol) /\ Cardinality(protocol) \in Nat
  BY <1>2, FS_Subset, FS_CardinalityType DEF ProtocolRetries
<1>7. IsFiniteSet(counts) /\ Cardinality(counts) = MaxInfraRetries
  BY <1>3, FS_Interval
<1>8. IsFiniteSet(claimed \X counts)
      /\ Cardinality(claimed \X counts) = Cardinality(claimed) * MaxInfraRetries
  BY <1>6, <1>7, FS_Product
<1>9. [e \in infra |-> <<root[e], exec[e].used>>] \in [infra -> claimed \X counts]
  BY <1>4 DEF LineOf
<1>10. ASSUME NEW e \in infra, NEW f \in infra, root[e] = root[f], exec[e].used = exec[f].used
       PROVE e = f
  BY <1>1, <1>4, <1>10 DEF Lines, SameLine
<1> HIDE DEF retries, claimed, infra, counts, protocol
<1>11. PICK mark \in [infra -> claimed \X counts] : \A x, y \in infra : mark[x] = mark[y] => x = y
  <2>1. \A x \in infra : [e \in infra |-> <<root[e], exec[e].used>>][x] = <<root[x], exec[x].used>>
    OBVIOUS
  <2> QED
    BY <1>9, <1>10, <2>1
<1>12. /\ IsFiniteSet(infra) /\ Cardinality(infra) \in Nat
       /\ Cardinality(infra) <= Cardinality(claimed) * MaxInfraRetries
  BY <1>8, <1>11, Injected
<1>13. /\ IsFiniteSet(infra \cup protocol) /\ IsFiniteSet(infra \cap protocol)
       /\ Cardinality(infra \cup protocol)
            = Cardinality(infra) + Cardinality(protocol) - Cardinality(infra \cap protocol)
  BY <1>6, <1>12, FS_Union, FS_Subset
<1>14. Cardinality(infra \cap protocol) \in Nat
  BY <1>13, FS_CardinalityType
<1>15. Cardinality(retries) <= Cardinality(infra \cup protocol) /\ Cardinality(retries) \in Nat
  BY <1>5, <1>13, FS_Subset, FS_CardinalityType
<1>16. Cardinality(retries) <= Cardinality(claimed) * MaxInfraRetries + MaxProtocolRetries
  <2>1. Cardinality(claimed) * MaxInfraRetries \in Nat
    BY <1>3, <1>6
  <2> QED
    BY <1>2, <1>3, <1>6, <1>12, <1>13, <1>14, <1>15, <2>1
<1> QED
  BY <1>16 DEF retries, claimed

LEMMA BudgetInvHolds == Spec => []BudgetInv
<1>1. Init => BudgetFits
  BY BudgetInit
<1>2. RetryInv /\ RetryInv' /\ BudgetFits /\ [Next]_vars => BudgetFits'
  BY BudgetStep
<1>3. RetryInv /\ BudgetFits <=> BudgetInv
  BY DEF BudgetInv
<1> QED
  BY <1>1, <1>2, <1>3, RetryInvHolds, PTL DEF Spec

\* However often its executions fail, a task grows to no more rows than its
\* claims from READY and the two retry budgets of the failure policy allow.
THEOREM RetriesAreBounded == Spec => []RetryBudget
<1>1. BudgetInv => RetryBudget
  BY BudgetBounds
<1> QED
  BY <1>1, BudgetInvHolds, PTL

-----------------------------------------------------------------------------
(* Work is passed on                                                       *)

\* A task comes into work with an execution, or with a CI failure of the
\* execution of its pull request.
Entered(t) ==
  \/ \E e \in Execs : exec'[e].task = t /\ exec'[e].state \in LiveStates
  \/ /\ task[t] = "CI_RUNNING" /\ pr[t] \in Execs
     /\ \E i \in CmdIds : OpenCi(i)' /\ cmd'[i].exec = pr[t]

EnterLaw == \A t \in Tasks : InWork(t)' => InWork(t) \/ Entered(t)

LEMMA NobodyEnters ==
  ASSUME task' = task
  PROVE EnterLaw
BY DEF EnterLaw, InWork

LEMMA OneEnters ==
  ASSUME TaskOK, NEW t \in Tasks, NEW s, task' = [task EXCEPT ![t] = s],
         s \in RetryableTaskStates => task[t] \in RetryableTaskStates \/ Entered(t)
  PROVE EnterLaw
BY DEF TaskOK, EnterLaw, InWork

LEMMA FailEnters ==
  ASSUME TypeOK, NEW e \in Execs, exec[e].state \in SlotStates,
         NEW reason, NEW token, Fail(e, reason, token)
  PROVE EnterLaw
<1>1. exec[e].task \in Tasks /\ TaskOK
  BY Names DEF TypeOK, SlotStates
<1>2. task' = task \/ task' = [task EXCEPT ![exec[e].task] = "NEEDS_HUMAN"]
  BY DEF Fail, Escalated
<1> QED
  BY <1>1, <1>2, NobodyEnters, OneEnters DEF RetryableTaskStates

LEMMA EndFailedEnters ==
  ASSUME TypeOK, NEW e \in Execs, NEW reason, EndFailed(e, reason)
  PROVE EnterLaw
<1>1. CASE exec[e].state \in SlotStates
  BY <1>1, FailEnters DEF EndFailed
<1>2. CASE exec[e].state \notin SlotStates
  BY <1>2, NobodyEnters DEF EndFailed
<1> QED
  BY <1>1, <1>2

LEMMA SchedulerEnters ==
  ASSUME TypeOK, NEW w \in Workers, Scheduler(w)
  PROVE EnterLaw
<1>0. TaskOK /\ ExecOK
  BY DEF TypeOK
<1>1. ASSUME NEW t \in Tasks, Promote(w, t) PROVE EnterLaw
  BY <1>0, <1>1, OneEnters DEF Promote, RetryableTaskStates
<1>2. ASSUME NEW t \in Tasks, Claim(w, t) PROVE EnterLaw
  <2> DEFINE r == [NewRow(t) EXCEPT !.state = "ASSIGNED", !.host = w]
  <2>1. PICK e \in Fresh : exec' = [exec EXCEPT ![e] = r]
    BY <1>2, Zenon DEF Claim
  <2>2. r.task = t /\ r.state = "ASSIGNED"
    BY DEF NewRow, NoRow
  <2> HIDE DEF r
  <2>3. e \in Execs /\ exec'[e] = r
    BY <1>0, <2>1 DEF Fresh, ExecOK
  <2>4. Entered(t)
    BY <2>2, <2>3 DEF Entered, LiveStates
  <2> QED
    BY <1>0, <1>2, <2>4, OneEnters DEF Claim
<1>3. ASSUME NEW t \in Tasks, ListExpired(w, t) PROVE EnterLaw
  BY <1>3, NobodyEnters DEF ListExpired
<1>4. ASSUME NEW e \in Execs, StartRetry(w, e) \/ ReleaseHost(w, e) PROVE EnterLaw
  BY <1>4, NobodyEnters DEF StartRetry, ReleaseHost
<1>5. CASE SweepLease(w)
  <2>1. PICK s \in Execs : s = swept[w]
    BY <1>5 DEF SweepLease, TypeOK, MemoryOK
  <2>2. CASE StillExpired(s)
    <3>1. Fail(s, "lease_expired", NoWorker) /\ exec[s].state \in SlotStates
      BY <1>5, <2>1, <2>2 DEF SweepLease, StillExpired, Renewable
    <3> QED
      BY <3>1, FailEnters
  <2>3. CASE ~StillExpired(s)
    BY <1>5, <2>1, <2>3, NobodyEnters DEF SweepLease
  <2> QED
    BY <2>2, <2>3
<1>6. CASE Heartbeat(w)
  BY <1>6, NobodyEnters DEF Heartbeat
<1> QED
  BY <1>1, <1>2, <1>3, <1>4, <1>5, <1>6 DEF Scheduler

LEMMA RunnerEnters ==
  ASSUME TypeOK, NEW w \in Workers, Runner(w) \/ Failures(w) \/ AbortFault(w)
  PROVE EnterLaw
<1>1. ASSUME NEW e \in Execs,
             \/ ResumeRetry(w, e) \/ IssueToken(w, e) \/ SessionStarted(w, e)
             \/ Renew(w, e) \/ Gone(w, e) \/ Finalize(w, e) \/ RunAborts(w, e)
      PROVE EnterLaw
  BY <1>1, NobodyEnters
     DEF ResumeRetry, IssueToken, SessionStarted, Renew, Gone, Finalize, RunAborts
<1>2. ASSUME NEW e \in Execs, EndTurn(w, e) PROVE EnterLaw
  <2>1. task' = task \/ EndFailed(e, "protocol_violation")
    BY <1>2 DEF EndTurn
  <2> QED
    BY <2>1, NobodyEnters, EndFailedEnters
<1>3. ASSUME NEW e \in Execs, SetupFails(w, e) PROVE EnterLaw
  BY <1>3, EndFailedEnters DEF SetupFails
<1>4. ASSUME NEW e \in Execs, NEW reason \in TurnFailures, FailTurn(w, e, reason)
      PROVE EnterLaw
  BY <1>4, EndFailedEnters DEF FailTurn
<1> QED
  BY <1>1, <1>2, <1>3, <1>4 DEF Runner, Failures, AbortFault

\* A review begins and ends within the work on a task.
LEMMA ReviewsWithinWork ==
  ASSUME NEW s, TaskEdge(s, "review.started")
  PROVE s \in RetryableTaskStates
<1>1. PICK q \in TaskTable : q[1] = s /\ q[2] = "review.started"
  BY DEF TaskEdge
<1>2. q \notin SpecRows
  BY <1>1 DEF SpecRows
<1>3. q \notin EndRows
  BY <1>1 DEF EndRows
<1>4. q \in WorkRows
  BY <1>2, <1>3 DEF TaskTable
<1> QED
  BY <1>1, <1>4 DEF WorkRows, RetryableTaskStates

LEMMA CallEnters ==
  ASSUME TypeOK, NEW w \in Workers, Agent(w)
  PROVE EnterLaw
<1>0. TaskOK /\ \A e \in Execs : exec[e].state = "RUNNING" => exec[e].task \in Tasks
  BY Names DEF TypeOK
<1>1. ASSUME NEW e \in Execs, NEW round \in Rounds, ReviewStarted(w, e, round)
      PROVE EnterLaw
  <2>1. /\ exec[e].task \in Tasks /\ task[exec[e].task] \in RetryableTaskStates
        /\ task' = [task EXCEPT ![exec[e].task] = "REVIEWING"]
    BY <1>0, <1>1, ReviewsWithinWork DEF ReviewStarted, Authorized
  <2> QED
    BY <1>0, <2>1, OneEnters
<1>2. ASSUME NEW e \in Execs, NEW round \in Rounds, NEW v \in Verdicts,
             ReviewResult(w, e, round, v)
      PROVE EnterLaw
  <2>1. PICK t \in Tasks : t = exec[e].task
    BY <1>0, <1>2 DEF ReviewResult, Authorized
  <2>2. \/ task' = task
        \/ task' = [task EXCEPT ![t] = "NEEDS_HUMAN"]
        \/ task[t] = "REVIEWING" /\ task' = [task EXCEPT ![t] = "IMPLEMENTING"]
    BY <1>2, <2>1 DEF ReviewResult
  <2> QED
    BY <1>0, <2>2, NobodyEnters, OneEnters DEF RetryableTaskStates
<1>3. ASSUME NEW e \in Execs, PrCreated(w, e) PROVE EnterLaw
  BY <1>0, <1>3, OneEnters DEF PrCreated, Authorized, RetryableTaskStates
<1>4. ASSUME NEW e \in Execs, ReportFailed(w, e) PROVE EnterLaw
  <2>1. exec[e].task \in Tasks
        /\ (task' = task \/ task' = [task EXCEPT ![exec[e].task] = "NEEDS_HUMAN"])
    BY <1>0, <1>4 DEF ReportFailed, Authorized, Escalated
  <2> QED
    BY <1>0, <2>1, NobodyEnters, OneEnters DEF RetryableTaskStates
<1>5. ASSUME NEW e \in Execs, RaiseIssue(w, e) PROVE EnterLaw
  BY <1>5, NobodyEnters DEF RaiseIssue
<1> QED
  BY <1>1, <1>2, <1>3, <1>4, <1>5 DEF Agent

LEMMA EnterSteps ==
  ASSUME TypeOK, [Next]_vars
  PROVE EnterLaw
<1>0. TaskOK
  BY DEF TypeOK
<1>1. ASSUME NEW t \in Tasks, CiFailed(t) PROVE EnterLaw
  <2>1. CASE task' = [task EXCEPT ![t] = "NEEDS_HUMAN"]
    BY <1>0, <2>1, OneEnters DEF RetryableTaskStates
  <2>2. CASE task' = [task EXCEPT ![t] = "IMPLEMENTING"] /\ Enqueue("ci", pr[t])
    <3>1. PICK i \in CmdIds :
            cmd' = [cmd EXCEPT ![i] = [kind |-> "ci", exec |-> pr[t], status |-> "queued"]]
      BY <2>2 DEF Enqueue
    <3>2. OpenCi(i)' /\ cmd'[i].exec = pr[t]
      BY <3>1 DEF OpenCi, TypeOK, CmdOK
    <3>3. Entered(t)
      BY <1>1, <3>2 DEF Entered, CiFailed, TypeOK, LeaseOK
    <3> QED
      BY <1>0, <2>2, <3>3, OneEnters
  <2> QED
    BY <1>1, <2>1, <2>2 DEF CiFailed
<1>2. ASSUME NEW t \in Tasks,
             \/ CiPassed(t) \/ Merged(t) \/ ClosedUnmerged(t)
             \/ Cancel(t) \/ Reopen(t) \/ HumanRetry(t)
      PROVE EnterLaw
  BY <1>0, <1>2, OneEnters
     DEF CiPassed, Merged, ClosedUnmerged, Cancel, Reopen, HumanRetry, RetryableTaskStates
<1>3. ASSUME NEW t \in Tasks, LeaseExpires(t) PROVE EnterLaw
  BY <1>3, NobodyEnters DEF LeaseExpires
<1>4. ASSUME NEW w \in Workers, Commands(w) \/ ResumeFault(w) PROVE EnterLaw
  BY <1>4, NobodyEnters DEF Commands, ClaimCommands, BeginResume, CommitResume, ResumeFault,
                            ResumeRefused
<1>5. ASSUME NEW w \in Workers,
             Crash(w) \/ Restart(w) \/ Freeze(w) \/ Thaw(w) \/ HeartbeatStale(w)
      PROVE EnterLaw
  BY <1>5, NobodyEnters DEF Crash, Restart, Freeze, Thaw, HeartbeatStale, rows
<1>6. CASE Resolve
  BY <1>6, NobodyEnters DEF Resolve, ResolveIssue
<1>7. CASE UNCHANGED vars
  BY <1>7, NobodyEnters DEF vars
<1> QED
  BY <1>1, <1>2, <1>3, <1>4, <1>5, <1>6, <1>7, SchedulerEnters, RunnerEnters, CallEnters
     DEF Next, Poller

\* A CI failure stays open until the execution it is about runs again.
StaysOpen(i) == \/ OpenCi(i)' /\ cmd'[i].exec = cmd[i].exec
                \/ exec'[cmd[i].exec].state = "RUNNING"

OpenLaw == \A i \in CmdIds : OpenCi(i) => StaysOpen(i)

LEMMA OpenKept ==
  ASSUME cmd' = cmd
  PROVE OpenLaw
BY DEF OpenLaw, StaysOpen, OpenCi

LEMMA LeaveOpens ==
  ASSUME TypeOK, NEW w \in Workers, NEW i \in CmdIds, NEW status, Leave(w, i, status),
         OpenCi(i) => status \in {"queued", "claimed"} \/ exec'[cmd[i].exec].state = "RUNNING"
  PROVE OpenLaw
<1>1. /\ \A j \in CmdIds \ {i} : cmd'[j] = cmd[j]
      /\ cmd'[i].kind = cmd[i].kind /\ cmd'[i].exec = cmd[i].exec /\ cmd'[i].status = status
  BY DEF Leave, TypeOK, CmdOK, Command
<1> QED
  BY <1>1 DEF OpenLaw, StaysOpen, OpenCi

LEMMA EnqueueOpens ==
  ASSUME TypeOK, NEW kind, NEW e, Enqueue(kind, e)
  PROVE OpenLaw
<1>1. PICK i \in CmdIds :
        /\ cmd[i].status = "free"
        /\ cmd' = [cmd EXCEPT ![i] = [kind |-> kind, exec |-> e, status |-> "queued"]]
  BY DEF Enqueue
<1>2. \A j \in CmdIds \ {i} : cmd'[j] = cmd[j]
  BY <1>1 DEF TypeOK, CmdOK
<1> QED
  BY <1>1, <1>2 DEF OpenLaw, StaysOpen, OpenCi

\* The handlers refuse a CI failure for good only when its execution is not
\* COMPLETED, or released, and neither is so.
LEMMA CommandsOpen ==
  ASSUME WorkInv, NEW w \in Workers, Commands(w) \/ ResumeFault(w)
  PROVE OpenLaw
<1>0. TypeOK /\ CmdOK /\ MemoryOK
  BY DEF WorkInv, GateInv, TypeOK
<1>1. ASSUME NEW i \in CmdIds, OpenCi(i)
      PROVE /\ cmd[i].kind = "ci" /\ cmd[i].exec \in Execs
            /\ exec[cmd[i].exec].state = "COMPLETED" /\ exec[cmd[i].exec].host # NoWorker
  <2>1. cmd[i].kind = "ci" /\ cmd[i].exec \in Execs /\ exec[cmd[i].exec].state = "COMPLETED"
    BY <1>0, <1>1 DEF WorkInv, GateInv, CiOncePerWork, OpenCi, CmdOK
  <2> QED
    BY <2>1, LifecycleAssumption DEF WorkInv, StaysPinned, PinnedStates, Releasable
<1>2. CASE ClaimCommands(w)
  <2>1. PICK S \in SUBSET CmdIds :
          cmd' = [i \in CmdIds |->
                    IF i \in S THEN [cmd[i] EXCEPT !.status = "claimed"] ELSE cmd[i]]
    BY <1>2 DEF ClaimCommands, Eligible
  <2>2. \A i \in CmdIds : /\ cmd'[i].kind = cmd[i].kind /\ cmd'[i].exec = cmd[i].exec
                          /\ cmd'[i].status \in {cmd[i].status, "claimed"}
    BY <1>0, <2>1 DEF CmdOK, Command
  <2> QED
    BY <2>2 DEF OpenLaw, StaysOpen, OpenCi
<1>3. ASSUME NEW i \in CmdIds, BeginResume(w, i) PROVE OpenLaw
  <2>1. CASE Refusal(w, i) # "none"
    <3>1. OpenCi(i) => Refusal(w, i) \in {"queued", "claimed"}
      BY <1>1, <2>1 DEF Refusal, RefusalOfCi
    <3> QED
      BY <1>0, <1>3, <2>1, <3>1, LeaveOpens DEF BeginResume
  <2>2. CASE Refusal(w, i) = "none"
    BY <1>3, <2>2, OpenKept DEF BeginResume
  <2> QED
    BY <2>1, <2>2
<1>4. ASSUME NEW i \in CmdIds, CommitResume(w, i) PROVE OpenLaw
  <2>1. CASE Resumable(i) /\ PinnedHere(w, cmd[i].exec)
    <3>1. Leave(w, i, "done") /\ exec' = [exec EXCEPT ![cmd[i].exec].state = "RUNNING"]
      BY <1>4, <2>1 DEF CommitResume
    <3>2. OpenCi(i) => exec'[cmd[i].exec].state = "RUNNING"
      BY <1>0, <1>1, <3>1 DEF TypeOK, ExecOK, Row
    <3> QED
      BY <1>0, <3>1, <3>2, LeaveOpens
  <2>2. CASE ~(Resumable(i) /\ PinnedHere(w, cmd[i].exec))
    <3> DEFINE status == IF /\ Resumable(i)
                            /\ cmd[i].kind = "decision" \/ exec[cmd[i].exec].host # NoWorker
                           THEN "queued" ELSE "done"
    <3>1. Leave(w, i, status)
      BY <1>4, <2>2 DEF CommitResume
    <3>2. OpenCi(i) => status = "queued"
      BY <1>1 DEF Resumable, ResumableState
    <3> HIDE DEF status
    <3> QED
      BY <1>0, <3>1, <3>2, LeaveOpens
  <2> QED
    BY <2>1, <2>2
<1>5. ASSUME NEW i \in CmdIds, ResumeRefused(w, i) PROVE OpenLaw
  <2>1. CASE Leave(w, i, "claimed")
    BY <1>0, <2>1, LeaveOpens
  <2>2. CASE cmd[i].kind = "decision" /\ Leave(w, i, "done")
    BY <1>0, <2>2, LeaveOpens DEF OpenCi
  <2> QED
    BY <1>5, <2>1, <2>2 DEF ResumeRefused
<1> QED
  BY <1>2, <1>3, <1>4, <1>5 DEF Commands, ResumeFault

LEMMA OpenSteps ==
  ASSUME WorkInv, [Next]_vars
  PROVE OpenLaw
<1>0. TypeOK
  BY DEF WorkInv, GateInv
<1>1. ASSUME NEW w \in Workers, Scheduler(w) \/ Runner(w) \/ Agent(w) PROVE OpenLaw
  BY <1>1, OpenKept
     DEF Scheduler, Promote, Claim, ListExpired, StartRetry, ReleaseHost, SweepLease, Heartbeat,
         Runner, ResumeRetry, IssueToken, SessionStarted, Renew, Gone, EndTurn, Finalize,
         Agent, PrCreated, ReportFailed, RaiseIssue, ReviewStarted, ReviewResult, rows
<1>2. ASSUME NEW w \in Workers, Failures(w) \/ AbortFault(w) PROVE OpenLaw
  BY <1>2, OpenKept DEF Failures, SetupFails, FailTurn, AbortFault, RunAborts, rows
<1>3. ASSUME NEW w \in Workers,
             Crash(w) \/ Restart(w) \/ Freeze(w) \/ Thaw(w) \/ HeartbeatStale(w)
      PROVE OpenLaw
  BY <1>3, OpenKept DEF Crash, Restart, Freeze, Thaw, HeartbeatStale, rows
<1>4. ASSUME NEW t \in Tasks, CiFailed(t) PROVE OpenLaw
  BY <1>0, <1>4, OpenKept, EnqueueOpens DEF CiFailed
<1>5. ASSUME NEW t \in Tasks,
             \/ CiPassed(t) \/ Merged(t) \/ ClosedUnmerged(t)
             \/ Cancel(t) \/ Reopen(t) \/ HumanRetry(t) \/ LeaseExpires(t)
      PROVE OpenLaw
  BY <1>5, OpenKept DEF CiPassed, Merged, ClosedUnmerged, Cancel, Reopen, HumanRetry,
                        LeaseExpires
<1>6. ASSUME NEW e \in Execs, ResolveIssue(e) PROVE OpenLaw
  BY <1>0, <1>6, EnqueueOpens DEF ResolveIssue
<1>7. CASE UNCHANGED vars
  BY <1>7, OpenKept DEF vars
<1> QED
  BY <1>1, <1>2, <1>3, <1>4, <1>5, <1>6, <1>7, CommandsOpen DEF Next, Poller, Resolve

LEMMA PinsStay ==
  ASSUME NoneStale, StaysPinned, WorkLaw
  PROVE StaysPinned'
<1> SUFFICES ASSUME NEW e \in Execs, exec'[e].state \in PinnedStates
             PROVE exec'[e].host \in Workers
  BY DEF StaysPinned, PinnedStates, SlotStates, Releasable
<1>1. exec[e].state \in PinnedStates => exec[e].host \in Workers
  BY DEF StaysPinned
<1>2. CASE Rests(e)
  BY <1>1, <1>2 DEF Rests
<1>3. CASE Opens(e) \/ Pauses(e) \/ Completes(e)
  BY <1>1, <1>3 DEF Opens, Pauses, Completes, PinnedStates, SlotStates
<1>4. CASE Ends(e) \/ Queues(e)
  BY <1>4 DEF Ends, Queues, PinnedStates, SlotStates, Releasable
<1>5. CASE Starts(e) \/ Resumes(e)
  BY <1>5 DEF Starts, Resumes, PinnedRun
<1> QED
  BY <1>2, <1>3, <1>4, <1>5 DEF WorkLaw, WorkStep

LEMMA TaskOfRow ==
  ASSUME TypeOK, ExecStep, NEW t \in Tasks, NEW e \in Execs, exec[e].task = t
  PROVE exec'[e].task = t
<1>1. ~Inserted(e)
  BY LifecycleAssumption DEF Inserted, TypeOK, ExecOK
<1> QED
  BY <1>1, KeptRows DEF KeptRow

\* A live execution lives on, or passes the task on.
LEMMA LiveWorks ==
  ASSUME TypeOK, ExecStep, WorkLaw, NEW t \in Tasks, InWork(t)',
         NEW e \in Execs, exec[e].task = t, exec[e].state \in LiveStates
  PROVE LiveOf(t)' # {}
<1>1. \A f \in Execs : exec'[f].task = t /\ exec'[f].state \in LiveStates => f \in LiveOf(t)'
  BY DEF LiveOf, Of
<1>2. exec'[e].task = t
  BY TaskOfRow
<1>3. CASE Rests(e) \/ Opens(e) \/ Pauses(e) \/ Starts(e) \/ Resumes(e)
  BY <1>1, <1>2, <1>3 DEF Rests, Opens, Pauses, Starts, Resumes, LiveStates
<1>4. CASE Ends(e) \/ Completes(e)
  <2>1. PassedOn(t)
    BY <1>4 DEF Ends, Completes
  <2>2. PICK f \in Execs : exec'[f].state = "QUEUED" /\ exec'[f].task = t
    BY <2>1 DEF PassedOn, InWork
  <2> QED
    BY <1>1, <2>2 DEF LiveStates
<1>5. ~Queues(e)
  BY DEF Queues, LiveStates
<1> QED
  BY <1>3, <1>4, <1>5 DEF WorkLaw, WorkStep

LEMMA WorkStays ==
  ASSUME WorkInv, [Next]_vars
  PROVE SomeoneWorks'
<1>1. TypeOK /\ ExecStep /\ WorkLaw /\ EnterLaw /\ OpenLaw
  BY BoxStep, WorkSteps, EnterSteps, OpenSteps DEF WorkInv, GateInv
<1> SUFFICES ASSUME NEW t \in Tasks, InWork(t)'
             PROVE \/ LiveOf(t)' # {}
                   \/ \E i \in CmdIds : OpenCi(i)' /\ cmd'[i].exec \in Of(t)'
  BY DEF SomeoneWorks, OpenCi
<1>2. \A e \in Of(t) : e \in Of(t)'
  BY <1>1, TaskOfRow DEF Of
<1>3. \A e \in Execs : exec'[e].task = t /\ exec'[e].state \in LiveStates => e \in LiveOf(t)'
  BY DEF LiveOf, Of
<1>4. CASE LiveOf(t) # {}
  <2>1. PICK e \in Execs : exec[e].task = t /\ exec[e].state \in LiveStates
    BY <1>4 DEF LiveOf, Of
  <2> QED
    BY <1>1, <2>1, LiveWorks
<1>5. ASSUME NEW i \in CmdIds, OpenCi(i), cmd[i].exec \in Of(t)
      PROVE \/ LiveOf(t)' # {}
            \/ \E j \in CmdIds : OpenCi(j)' /\ cmd'[j].exec \in Of(t)'
  <2>1. StaysOpen(i) /\ cmd[i].exec \in Execs /\ cmd[i].exec \in Of(t)'
    BY <1>1, <1>2, <1>5 DEF OpenLaw, Of
  <2>2. CASE exec'[cmd[i].exec].state = "RUNNING"
    BY <1>3, <2>1, <2>2 DEF Of, LiveStates
  <2> QED
    BY <2>1, <2>2 DEF StaysOpen
<1>6. CASE ~InWork(t)
  <2>1. Entered(t)
    BY <1>1, <1>6 DEF EnterLaw
  <2>2. ASSUME task[t] = "CI_RUNNING", NEW i \in CmdIds, OpenCi(i)', cmd'[i].exec = pr[t]
        PROVE cmd'[i].exec \in Of(t)'
    BY <1>2, <2>2 DEF WorkInv, GateInv, ReviewGate
  <2> QED
    BY <1>3, <2>1, <2>2 DEF Entered
<1>7. InWork(t) => \/ LiveOf(t) # {}
                   \/ \E i \in CmdIds : OpenCi(i) /\ cmd[i].exec \in Of(t)
  BY DEF WorkInv, SomeoneWorks, OpenCi
<1> QED
  BY <1>4, <1>5, <1>6, <1>7

\* While no worker is taken for dead, a task in work is never stuck: every end of
\* an execution retries it or takes the task to a human, and a CI failure is
\* handed to an execution and stays open until that runs again, whatever else
\* fails, crashes or is refused.
THEOREM WorkIsPassedOn == Spec /\ []NoneStale => []SomeoneWorks
<1>1. Init => StaysPinned /\ SomeoneWorks
  BY DEF Init, StaysPinned, PinnedStates, SlotStates, Releasable, NoRow, SomeoneWorks, InWork,
         RetryableTaskStates
<1>2. WorkInv /\ NoneStale /\ [Next]_vars => StaysPinned' /\ SomeoneWorks'
  <2> SUFFICES ASSUME WorkInv, NoneStale, [Next]_vars PROVE StaysPinned' /\ SomeoneWorks'
    OBVIOUS
  <2>1. TypeOK
    BY DEF WorkInv, GateInv
  <2>2. StaysPinned'
    BY <2>1, WorkSteps, PinsStay DEF WorkInv
  <2> QED
    BY <2>2, WorkStays
<1>3. GateInv /\ StaysPinned /\ SomeoneWorks <=> WorkInv
  BY DEF WorkInv
<1> QED
  BY <1>1, <1>2, <1>3, GateInvHolds, PTL DEF Spec

-----------------------------------------------------------------------------
(* A pause has a way out                                                   *)

\* A run begins pinned; the flag goes up with an issue, and its run is closed or
\* finalized with it.
RunStep(w, e) ==
  /\ run'[w][e] # "idle" => \/ run[w][e] # "idle"
                            \/ exec'[e].host = w /\ exec'[e].state \notin {"NONE", "QUEUED"}
  /\ e \in blocking'[w] =>
       \/ e \in blocking[w] /\ run'[w][e] \in {run[w][e], "closing"}
       \/ run'[w][e] \in {"session", "closing"} /\ exec'[e].issues > 0

RunLaw == \A w \in Workers, e \in Execs : RunStep(w, e)

LEMMA RunsKept ==
  ASSUME run' = run, blocking' = blocking
  PROVE RunLaw
BY DEF RunLaw, RunStep

\* One entry of the live map changes.
LEMMA OneRunMoves ==
  ASSUME MemoryOK, NEW w \in Workers, NEW e \in Execs, NEW p,
         run' = [run EXCEPT ![w][e] = p], blocking' = blocking,
         RunStep(w, e)
  PROVE RunLaw
BY DEF MemoryOK, RunLaw, RunStep

LEMMA RunCloses ==
  ASSUME MemoryOK, NEW w \in Workers, NEW e \in Execs, run[w][e] # "idle",
         run' = [run EXCEPT ![w][e] = "closing"], blocking' = blocking
  PROVE RunLaw
<1>1. RunStep(w, e)
  BY DEF MemoryOK, RunStep
<1> QED
  BY <1>1, OneRunMoves

\* An entry that has no flag up changes.
LEMMA RunStarts ==
  ASSUME TypeOK, FlagFits, NEW w \in Workers, NEW e \in Execs,
         run[w][e] \notin {"session", "closing"}, NEW p,
         run' = [run EXCEPT ![w][e] = p], blocking' = blocking,
         \/ p = "idle" \/ run[w][e] # "idle"
         \/ exec'[e].host = w /\ exec'[e].state \notin {"NONE", "QUEUED"}
  PROVE RunLaw
<1>1. MemoryOK /\ run'[w][e] = p /\ e \notin blocking[w]
  BY DEF TypeOK, MemoryOK, FlagFits
<1>2. RunStep(w, e)
  BY <1>1 DEF RunStep
<1> QED
  BY <1>1, <1>2, OneRunMoves

LEMMA SchedulerRuns ==
  ASSUME TypeOK, FlagFits, RunsPinned, NEW w \in Workers, Scheduler(w)
  PROVE RunLaw
<1>0. ExecOK /\ \A e \in Execs : exec[e] \in Row
  BY DEF TypeOK, ExecOK
<1>1. ASSUME NEW t \in Tasks, Claim(w, t) PROVE RunLaw
  <2> DEFINE r == [NewRow(t) EXCEPT !.state = "ASSIGNED", !.host = w]
  <2>1. PICK e \in Fresh : /\ exec' = [exec EXCEPT ![e] = r]
                           /\ run' = [run EXCEPT ![w][e] = "preparing"]
    BY <1>1, Zenon DEF Claim
  <2>2. r.host = w /\ r.state = "ASSIGNED"
    BY DEF NewRow, NoRow
  <2> HIDE DEF r
  <2>3. /\ e \in Execs /\ exec'[e].host = w /\ exec'[e].state = "ASSIGNED"
        /\ run[w][e] = "idle"
    BY <1>0, <2>1, <2>2 DEF Fresh, ExecOK, RunsPinned
  <2> QED
    BY <1>1, <2>1, <2>3, RunStarts DEF Claim
<1>2. ASSUME NEW e \in Execs, StartRetry(w, e) PROVE RunLaw
  <2>1. /\ run' = [run EXCEPT ![w][e] = "preparing"]
        /\ exec'[e].host = w /\ exec'[e].state = "ASSIGNED"
    BY <1>0, <1>2 DEF StartRetry, ExecOK, Row
  <2>2. run[w][e] = "idle"
    BY <1>2 DEF StartRetry, RunsPinned
  <2> QED
    BY <1>2, <2>1, <2>2, RunStarts DEF StartRetry
<1>3. ASSUME NEW t \in Tasks, Promote(w, t) \/ ListExpired(w, t) PROVE RunLaw
  BY <1>3, RunsKept DEF Promote, ListExpired, memory
<1>4. ASSUME NEW e \in Execs, ReleaseHost(w, e) PROVE RunLaw
  BY <1>4, RunsKept DEF ReleaseHost, memory
<1>5. CASE SweepLease(w) \/ Heartbeat(w)
  BY <1>5, RunsKept DEF SweepLease, Heartbeat, memory
<1> QED
  BY <1>1, <1>2, <1>3, <1>4, <1>5 DEF Scheduler

LEMMA RunnerRuns ==
  ASSUME TypeOK, FlagFits, RunsPinned, NEW w \in Workers,
         Runner(w) \/ Failures(w) \/ AbortFault(w)
  PROVE RunLaw
<1>0. MemoryOK
  BY DEF TypeOK
<1>1. ASSUME NEW e \in Execs, ResumeRetry(w, e) \/ SessionStarted(w, e) \/ Renew(w, e)
      PROVE RunLaw
  BY <1>1, RunsKept DEF ResumeRetry, SessionStarted, Renew, memory
<1>2. ASSUME NEW e \in Execs, IssueToken(w, e) PROVE RunLaw
  <2>1. \E p \in {"session", "closing"} : run' = [run EXCEPT ![w][e] = p]
    BY <1>2 DEF IssueToken
  <2> QED
    BY <1>2, <2>1, RunStarts DEF IssueToken
<1>3. ASSUME NEW e \in Execs,
             \/ Gone(w, e) \/ EndTurn(w, e) \/ SetupFails(w, e) \/ RunAborts(w, e)
             \/ \E reason \in TurnFailures : FailTurn(w, e, reason)
      PROVE RunLaw
  BY <1>0, <1>3, RunCloses DEF Gone, EndTurn, SetupFails, RunAborts, FailTurn
<1>4. ASSUME NEW e \in Execs, Finalize(w, e) PROVE RunLaw
  <2>1. /\ run'[w][e] = "idle" /\ e \notin blocking'[w]
        /\ \A v \in Workers, x \in Execs :
             v # w \/ x # e => /\ run'[v][x] = run[v][x]
                               /\ x \in blocking'[v] <=> x \in blocking[v]
    BY <1>0, <1>4 DEF Finalize, MemoryOK
  <2> QED
    BY <2>1 DEF RunLaw, RunStep
<1> QED
  BY <1>1, <1>2, <1>3, <1>4 DEF Runner, Failures, AbortFault

LEMMA CallRuns ==
  ASSUME TypeOK, NEW w \in Workers, Agent(w)
  PROVE RunLaw
<1>1. ASSUME NEW e \in Execs, RaiseIssue(w, e) PROVE RunLaw
  <2>1. run' = run /\ exec[e].issues \in Nat /\ exec'[e].issues = exec[e].issues + 1
    BY <1>1 DEF RaiseIssue, TypeOK, ExecOK, Row
  <2>2. exec'[e].issues > 0
    BY <2>1
  <2>3. \A v \in Workers, x \in Execs :
          x \in blocking'[v] => \/ x \in blocking[v]
                                \/ v = w /\ x = e /\ run[v][x] \in {"session", "closing"}
    BY <1>1 DEF RaiseIssue, TypeOK, MemoryOK
  <2> QED
    BY <2>1, <2>2, <2>3 DEF RunLaw, RunStep
<1>2. ASSUME NEW e \in Execs, PrCreated(w, e) \/ ReportFailed(w, e) PROVE RunLaw
  BY <1>2, RunsKept DEF PrCreated, ReportFailed, memory
<1>3. ASSUME NEW e \in Execs, NEW round \in Rounds, ReviewStarted(w, e, round) PROVE RunLaw
  BY <1>3, RunsKept DEF ReviewStarted, memory
<1>4. ASSUME NEW e \in Execs, NEW round \in Rounds, NEW v \in Verdicts,
             ReviewResult(w, e, round, v)
      PROVE RunLaw
  BY <1>4, RunsKept DEF ReviewResult, memory
<1> QED
  BY <1>1, <1>2, <1>3, <1>4 DEF Agent

LEMMA CommandRuns ==
  ASSUME TypeOK, FlagFits, NEW w \in Workers, Commands(w) \/ ResumeFault(w)
  PROVE RunLaw
<1>0. ExecOK /\ MemoryOK /\ CmdOK /\ \A e \in Execs : exec[e] \in Row
  BY DEF TypeOK, ExecOK
<1>1. CASE ClaimCommands(w)
  BY <1>1, RunsKept DEF ClaimCommands
<1>2. ASSUME NEW i \in CmdIds, BeginResume(w, i) PROVE RunLaw
  <2>1. PICK e \in Execs : e = cmd[i].exec
    BY <1>0, <1>2 DEF BeginResume, NextInBatch, CmdOK
  <2>2. CASE Refusal(w, i) # "none"
    BY <1>2, <2>2, RunsKept DEF BeginResume
  <2>3. CASE Refusal(w, i) = "none"
    <3>1. /\ exec'[e].host = w /\ exec'[e].state = exec[e].state
          /\ run' = [run EXCEPT ![w][e] = "loading"]
      BY <1>0, <1>2, <2>1, <2>3 DEF BeginResume, ExecOK, Row
    <3>2. run[w][e] = "idle" /\ exec[e].state \in {"WAITING_FOR_USER", "COMPLETED"}
      BY <2>1, <2>3 DEF Refusal, RefusalOfCi, RefusalOfDecision
    <3> QED
      BY <1>2, <3>1, <3>2, RunStarts DEF BeginResume
  <2> QED
    BY <2>2, <2>3
<1>3. ASSUME NEW i \in CmdIds, CommitResume(w, i) \/ ResumeRefused(w, i) PROVE RunLaw
  <2>1. PICK e \in Execs : e = cmd[i].exec
    BY <1>0, <1>3 DEF CommitResume, ResumeRefused, NextInBatch, CmdOK
  <2>2. /\ run[w][e] = "loading" /\ blocking' = blocking
        /\ \E p \in {"preparing", "idle"} : run' = [run EXCEPT ![w][e] = p]
    BY <1>3, <2>1 DEF CommitResume, ResumeRefused
  <2>3. PICK p \in {"preparing", "idle"} : run' = [run EXCEPT ![w][e] = p]
    BY <2>2
  <2>4. run[w][e] \notin {"session", "closing"} /\ run[w][e] # "idle"
    BY <2>2
  <2> QED
    BY <2>2, <2>3, <2>4, RunStarts
<1> QED
  BY <1>1, <1>2, <1>3 DEF Commands, ResumeFault

LEMMA RunSteps ==
  ASSUME TypeOK, FlagFits, RunsPinned, [Next]_vars
  PROVE RunLaw
<1>1. ASSUME NEW w \in Workers, Crash(w) PROVE RunLaw
  <2>1. \A v \in Workers, x \in Execs :
          \/ run'[v][x] = "idle" /\ x \notin blocking'[v]
          \/ run'[v][x] = run[v][x] /\ (x \in blocking'[v] <=> x \in blocking[v])
    BY <1>1 DEF Crash, TypeOK, MemoryOK
  <2> QED
    BY <2>1 DEF RunLaw, RunStep
<1>2. ASSUME NEW w \in Workers, Restart(w) \/ Freeze(w) \/ Thaw(w) \/ HeartbeatStale(w)
      PROVE RunLaw
  BY <1>2, RunsKept DEF Restart, Freeze, Thaw, HeartbeatStale, memory
<1>3. ASSUME NEW t \in Tasks,
             Poller(t) \/ Cancel(t) \/ Reopen(t) \/ HumanRetry(t) \/ LeaseExpires(t)
      PROVE RunLaw
  BY <1>3, RunsKept DEF Poller, CiFailed, CiPassed, Merged, ClosedUnmerged, Cancel, Reopen,
                        HumanRetry, LeaseExpires, memory
<1>4. CASE Resolve
  BY <1>4, RunsKept DEF Resolve, ResolveIssue, memory
<1>5. CASE UNCHANGED vars
  BY <1>5, RunsKept DEF vars
<1> QED
  BY <1>1, <1>2, <1>3, <1>4, <1>5, SchedulerRuns, RunnerRuns, CallRuns, CommandRuns DEF Next

\* An answer to a paused execution stays until that runs again.
AnswerKept(i) == \/ cmd'[i].kind = "decision" /\ cmd'[i].exec = cmd[i].exec /\ Pending(i)'
                 \/ exec'[cmd[i].exec].state # "WAITING_FOR_USER"

Answer(i) == /\ cmd[i].kind = "decision" /\ Pending(i)
             /\ exec[cmd[i].exec].state = "WAITING_FOR_USER"

AnswerLaw == \A i \in CmdIds : Answer(i) => AnswerKept(i)

LEMMA AnswersKept ==
  ASSUME cmd' = cmd, batch' = batch
  PROVE AnswerLaw
BY DEF AnswerLaw, Answer, AnswerKept, Pending

LEMMA LeaveAnswers ==
  ASSUME TypeOK, NEW w \in Workers, NEW i \in CmdIds, NEW status, Leave(w, i, status),
         Answer(i) => status = "queued" \/ exec'[cmd[i].exec].state = "RUNNING"
  PROVE AnswerLaw
<1>1. /\ \A j \in CmdIds \ {i} : cmd'[j] = cmd[j]
      /\ cmd'[i].kind = cmd[i].kind /\ cmd'[i].exec = cmd[i].exec /\ cmd'[i].status = status
      /\ \A v \in Workers, j \in CmdIds \ {i} : j \in batch[v] => j \in batch'[v]
  BY DEF Leave, TypeOK, CmdOK, Command, MemoryOK
<1>2. ASSUME NEW j \in CmdIds \ {i}, Answer(j) PROVE AnswerKept(j)
  BY <1>1, <1>2 DEF Answer, AnswerKept, Pending
<1>3. Answer(i) => AnswerKept(i)
  BY <1>1 DEF Answer, AnswerKept, Pending
<1> QED
  BY <1>2, <1>3 DEF AnswerLaw

LEMMA EnqueueAnswers ==
  ASSUME TypeOK, BatchHeld, NEW kind, NEW e, Enqueue(kind, e), batch' = batch
  PROVE AnswerLaw
<1>1. PICK i \in CmdIds :
        /\ cmd[i].status = "free"
        /\ cmd' = [cmd EXCEPT ![i] = [kind |-> kind, exec |-> e, status |-> "queued"]]
  BY DEF Enqueue
<1>2. /\ \A j \in CmdIds \ {i} : cmd'[j] = cmd[j]
      /\ ~Pending(i)
  BY <1>1 DEF TypeOK, CmdOK, Pending, BatchHeld
<1> QED
  BY <1>2 DEF AnswerLaw, Answer, AnswerKept, Pending

\* A decision that cannot be handled yet is put back, as long as its execution is
\* paused and resume() finds what it needs.
LEMMA CommandsAnswer ==
  ASSUME TypeOK, NEW w \in Workers, Commands(w)
  PROVE AnswerLaw
<1>0. CmdOK /\ MemoryOK
  BY DEF TypeOK
<1>1. CASE ClaimCommands(w)
  <2>1. PICK S \in SUBSET CmdIds : S = Eligible(w)
    BY DEF Eligible
  <2>2. /\ cmd' = [i \in CmdIds |->
                    IF i \in S THEN [cmd[i] EXCEPT !.status = "claimed"] ELSE cmd[i]]
        /\ batch[w] = {} /\ batch' = [batch EXCEPT ![w] = S]
    BY <1>1, <2>1 DEF ClaimCommands
  <2>3. \A i \in S : cmd'[i].kind = cmd[i].kind /\ cmd'[i].exec = cmd[i].exec
    BY <1>0, <2>2 DEF CmdOK, Command
  <2>4. \A i \in CmdIds \ S : cmd'[i] = cmd[i]
    BY <2>2
  <2>5. batch'[w] = S /\ \A v \in Workers : batch[v] \subseteq batch'[v]
    BY <1>0, <2>2 DEF MemoryOK
  <2>6. ASSUME NEW i \in S PROVE Pending(i)'
    BY <2>5 DEF Pending
  <2>7. ASSUME NEW i \in CmdIds \ S, Pending(i) PROVE Pending(i)'
    BY <2>4, <2>5, <2>7 DEF Pending
  <2> QED
    BY <2>3, <2>4, <2>6, <2>7 DEF AnswerLaw, Answer, AnswerKept
<1>2. ASSUME NEW i \in CmdIds, BeginResume(w, i) PROVE AnswerLaw
  <2>1. CASE Refusal(w, i) # "none"
    <3>1. Answer(i) => Refusal(w, i) = "queued"
      BY <2>1 DEF Answer, Refusal, RefusalOfDecision
    <3> QED
      BY <1>2, <2>1, <3>1, LeaveAnswers DEF BeginResume
  <2>2. CASE Refusal(w, i) = "none"
    BY <1>2, <2>2, AnswersKept DEF BeginResume
  <2> QED
    BY <2>1, <2>2
<1>3. ASSUME NEW i \in CmdIds, CommitResume(w, i) PROVE AnswerLaw
  <2>1. Answer(i) => Resumable(i) /\ cmd[i].exec \in Execs
    BY <1>0, <1>3 DEF Answer, Resumable, ResumableState, CmdOK, CommitResume, NextInBatch
  <2>2. CASE Resumable(i) /\ PinnedHere(w, cmd[i].exec)
    <3>1. Leave(w, i, "done") /\ exec' = [exec EXCEPT ![cmd[i].exec].state = "RUNNING"]
      BY <1>3, <2>2 DEF CommitResume
    <3>2. Answer(i) => exec'[cmd[i].exec].state = "RUNNING"
      BY <2>1, <3>1 DEF TypeOK, ExecOK, Row
    <3> QED
      BY <3>1, <3>2, LeaveAnswers
  <2>3. CASE ~(Resumable(i) /\ PinnedHere(w, cmd[i].exec))
    <3> DEFINE status == IF /\ Resumable(i)
                            /\ cmd[i].kind = "decision" \/ exec[cmd[i].exec].host # NoWorker
                           THEN "queued" ELSE "done"
    <3>1. Leave(w, i, status)
      BY <1>3, <2>3 DEF CommitResume
    <3>2. Answer(i) => status = "queued"
      BY <2>1 DEF Answer
    <3> HIDE DEF status
    <3> QED
      BY <3>1, <3>2, LeaveAnswers
  <2> QED
    BY <2>2, <2>3
<1> QED
  BY <1>1, <1>2, <1>3 DEF Commands

\* Every other step but a crash and a refused resume.
Handled ==
  \/ \E w \in Workers :
       \/ Scheduler(w) \/ Runner(w) \/ Agent(w) \/ Commands(w) \/ Failures(w)
       \/ AbortFault(w) \/ Restart(w) \/ Freeze(w) \/ Thaw(w) \/ HeartbeatStale(w)
  \/ \E t \in Tasks :
       Poller(t) \/ Cancel(t) \/ Reopen(t) \/ HumanRetry(t) \/ LeaseExpires(t)
  \/ Resolve

LEMMA HandledAnswers ==
  ASSUME TypeOK, BatchHeld, [Handled]_vars
  PROVE AnswerLaw
<1>1. ASSUME NEW w \in Workers, Scheduler(w) \/ Runner(w) \/ Agent(w) PROVE AnswerLaw
  BY <1>1, AnswersKept
     DEF Scheduler, Promote, Claim, ListExpired, StartRetry, ReleaseHost, SweepLease, Heartbeat,
         Runner, ResumeRetry, IssueToken, SessionStarted, Renew, Gone, EndTurn, Finalize,
         Agent, PrCreated, ReportFailed, RaiseIssue, ReviewStarted, ReviewResult, rows, memory
<1>2. ASSUME NEW w \in Workers, Failures(w) \/ AbortFault(w) PROVE AnswerLaw
  BY <1>2, AnswersKept DEF Failures, SetupFails, FailTurn, AbortFault, RunAborts, rows
<1>3. ASSUME NEW w \in Workers, Restart(w) \/ Freeze(w) \/ Thaw(w) \/ HeartbeatStale(w)
      PROVE AnswerLaw
  BY <1>3, AnswersKept DEF Restart, Freeze, Thaw, HeartbeatStale, rows, memory
<1>4. ASSUME NEW t \in Tasks, CiFailed(t) PROVE AnswerLaw
  BY <1>4, AnswersKept, EnqueueAnswers DEF CiFailed, memory
<1>5. ASSUME NEW t \in Tasks,
             \/ CiPassed(t) \/ Merged(t) \/ ClosedUnmerged(t)
             \/ Cancel(t) \/ Reopen(t) \/ HumanRetry(t) \/ LeaseExpires(t)
      PROVE AnswerLaw
  BY <1>5, AnswersKept DEF CiPassed, Merged, ClosedUnmerged, Cancel, Reopen, HumanRetry,
                           LeaseExpires, memory
<1>6. ASSUME NEW e \in Execs, ResolveIssue(e) PROVE AnswerLaw
  BY <1>6, EnqueueAnswers DEF ResolveIssue, memory
<1>7. CASE UNCHANGED vars
  BY <1>7, AnswersKept DEF vars
<1> QED
  BY <1>1, <1>2, <1>3, <1>4, <1>5, <1>6, <1>7, CommandsAnswer DEF Handled, Poller, Resolve

\* No worker dies between the claim of a command and its handler, and resume()
\* finds the session, the worktree and the adapter.
HandlersFinish == \A w \in Workers : ~ResumeFault(w) /\ (Crash(w) => batch[w] = {})

LEMMA AnswerSteps ==
  ASSUME TypeOK, BatchHeld, [Next]_vars, [HandlersFinish]_vars
  PROVE AnswerLaw
<1> SUFFICES ASSUME HandlersFinish PROVE AnswerLaw
  BY AnswersKept DEF vars
<1>1. ASSUME NEW w \in Workers, Crash(w) PROVE AnswerLaw
  <2>1. cmd' = cmd /\ batch' = batch
    BY <1>1 DEF HandlersFinish, Crash, rows, TypeOK, MemoryOK
  <2> QED
    BY <2>1, AnswersKept
<1>2. [Handled]_vars \/ \E w \in Workers : Crash(w)
  BY DEF HandlersFinish, Next, Handled
<1> QED
  BY <1>1, <1>2, HandledAnswers

\* While no host is taken for dead, what has a run stays pinned where it runs.
LEMMA RunsStayPinned ==
  ASSUME NoneStale, RunsPinned, WorkLaw, RunLaw
  PROVE RunsPinned'
<1> SUFFICES ASSUME NEW w \in Workers, NEW e \in Execs, run'[w][e] # "idle"
             PROVE exec'[e].host = w /\ exec'[e].state \notin {"NONE", "QUEUED"}
  BY DEF RunsPinned
<1>1. \/ exec'[e].host = w /\ exec'[e].state \notin {"NONE", "QUEUED"}
      \/ exec[e].host = w /\ exec[e].state \notin {"NONE", "QUEUED"}
  BY DEF RunLaw, RunStep, RunsPinned
<1>2. CASE exec[e].host = w /\ exec[e].state \notin {"NONE", "QUEUED"}
  <2>1. CASE Rests(e)
    BY <1>2, <2>1, LifecycleAssumption DEF Rests
  <2>2. CASE Opens(e) \/ Ends(e) \/ Pauses(e) \/ Completes(e)
    BY <1>2, <2>2 DEF Opens, Ends, Pauses, Completes
  <2>3. CASE Resumes(e)
    BY <1>2, <2>3 DEF Resumes, PinnedRun
  <2>4. ~Queues(e) /\ ~Starts(e)
    BY <1>2 DEF Queues, Starts
  <2> QED
    BY <2>1, <2>2, <2>3, <2>4 DEF WorkLaw, WorkStep
<1> QED
  BY <1>1, <1>2

LEMMA FlagsStayFit ==
  ASSUME TypeOK, TypeOK', FlagFits, RunsPinned, WorkLaw, RunLaw
  PROVE FlagFits'
<1> SUFFICES ASSUME NEW w \in Workers, NEW e \in Execs, e \in blocking'[w]
             PROVE /\ run'[w][e] \in {"session", "closing"}
                   /\ exec'[e].state \in SlotStates => exec'[e].issues > 0
  BY DEF FlagFits, TypeOK, MemoryOK, SlotStates
<1>1. \/ e \in blocking[w] /\ run'[w][e] \in {run[w][e], "closing"}
      \/ run'[w][e] \in {"session", "closing"} /\ exec'[e].issues > 0
  BY DEF RunLaw, RunStep
<1>2. CASE e \in blocking[w] /\ run'[w][e] \in {run[w][e], "closing"}
  <2>1. /\ run[w][e] \in {"session", "closing"} /\ exec[e].issues \in Nat
        /\ exec[e].state \in SlotStates => exec[e].issues > 0
        /\ exec[e].host = w /\ exec[e].state \notin {"NONE", "QUEUED"}
    BY <1>2 DEF FlagFits, RunsPinned, TypeOK, ExecOK, Row
  <2>2. CASE Rests(e)
    BY <1>2, <2>1, <2>2 DEF Rests, SlotStates
  <2>3. CASE Opens(e)
    BY <1>2, <2>1, <2>3 DEF Opens, SlotStates
  <2>4. CASE Ends(e) \/ Pauses(e) \/ Completes(e)
    BY <1>2, <2>1, <2>4 DEF Ends, Pauses, Completes, SlotStates
  <2>5. ~Queues(e) /\ ~Starts(e) /\ ~Resumes(e)
    BY <2>1 DEF Queues, Starts, Resumes
  <2> QED
    BY <1>2, <2>1, <2>2, <2>3, <2>4, <2>5 DEF WorkLaw, WorkStep
<1> QED
  BY <1>1, <1>2

LEMMA PausesStayAnswered ==
  ASSUME TypeOK, FlagFits, PausedIsAnswered, WorkLaw, AnswerLaw
  PROVE PausedIsAnswered'
<1> SUFFICES ASSUME NEW e \in Execs, exec'[e].state = "WAITING_FOR_USER"
             PROVE exec'[e].issues > 0 \/ Answered(e)'
  BY DEF PausedIsAnswered
<1>1. CASE Rests(e)
  <2>1. exec[e].state = "WAITING_FOR_USER"
    BY <1>1 DEF Rests
  <2>2. exec[e].issues > 0 \/ Answered(e)
    BY <2>1 DEF PausedIsAnswered
  <2>3. Answered(e) => Answered(e)'
    BY <2>1 DEF AnswerLaw, Answer, AnswerKept, Answered
  <2> QED
    BY <1>1, <2>1, <2>2, <2>3 DEF Rests, SlotStates
<1>2. CASE Pauses(e)
  BY <1>2 DEF Pauses, FlagFits, SlotStates
<1>3. ~Opens(e) /\ ~Ends(e) /\ ~Queues(e) /\ ~Completes(e) /\ ~Starts(e) /\ ~Resumes(e)
  BY DEF Opens, Ends, Queues, Completes, Starts, Resumes
<1> QED
  BY <1>1, <1>2, <1>3 DEF WorkLaw, WorkStep

LEMMA WayOutStays ==
  ASSUME GateInv, WayOutInv, NoneStale, TypeOK', [Next]_vars, AnswerLaw
  PROVE WayOutInv'
<1>1. TypeOK /\ BatchHeld /\ StaysPinned /\ RunsPinned /\ FlagFits /\ PausedIsAnswered
  BY DEF GateInv, WayOutInv
<1>2. WorkLaw /\ RunLaw
  BY <1>1, WorkSteps, RunSteps
<1> QED
  BY <1>1, <1>2, PinsStay, RunsStayPinned, FlagsStayFit, PausesStayAnswered DEF WayOutInv

LEMMA WayOutInit == Init => WayOutInv
BY TypeInit DEF Init, WayOutInv, StaysPinned, PinnedStates, SlotStates, Releasable, NoRow,
                RunsPinned, FlagFits, PausedIsAnswered

LEMMA WayOut == WayOutInv => PausedHasWayOut
BY DEF WayOutInv, PausedIsAnswered, PausedHasWayOut, Answered

\* While no worker is taken for dead, and none dies or is refused while it has an
\* answer in hand, a pause is never without a way out: its turn ended with an issue
\* open, and each answer is handed from the queue to a worker and back until the
\* execution runs again, through any other crash.
THEOREM PausesHaveWayOut ==
  Spec /\ []NoneStale /\ [][HandlersFinish]_vars => []PausedHasWayOut
<1>1. GateInv /\ WayOutInv /\ NoneStale /\ TypeOK' /\ [Next]_vars /\ [HandlersFinish]_vars
      => WayOutInv'
  <2> SUFFICES ASSUME GateInv, WayOutInv, NoneStale, TypeOK',
                      [Next]_vars, [HandlersFinish]_vars
               PROVE WayOutInv'
    OBVIOUS
  <2>1. AnswerLaw
    BY AnswerSteps DEF GateInv
  <2> QED
    BY <2>1, WayOutStays
<1> QED
  BY <1>1, WayOutInit, WayOut, TypeCorrect, GateInvHolds, PTL DEF Spec

-----------------------------------------------------------------------------
(* Work goes on: both promises without an assumption about the behaviour,  *)
(* of the specification that counts what the environment has done to it    *)

\* What has been spent of the budgets was not more than there was.
Kinds == {"crash", "freeze", "expiry", "abort", "refusal", "error", "stale", "cancel",
          "retry", "findings", "any"}

BudgetOK == /\ budget \in [Kinds -> Nat]
            /\ budget["crash"] <= Crashes /\ budget["freeze"] <= Freezes
            /\ budget["stale"] <= Stales /\ budget["refusal"] <= Refusals

LEMMA BudgetAtFirst == MCInit => BudgetOK
BY BudgetAssumption DEF MCInit, BudgetOK, Kinds

LEMMA Spending ==
  ASSUME BudgetOK, NEW what \in Kinds \ {"any"}, NEW cost \in Nat, SpendOf(what, cost)
  PROVE /\ BudgetOK' /\ budget'[what] < budget[what]
        /\ \A other \in Kinds \ {what, "any"} : budget'[other] = budget[other]
BY BudgetAssumption DEF SpendOf, BudgetOK, Kinds

LEMMA ReviewsAreNext ==
  ASSUME NEW w \in Workers, NEW verdict \in Verdicts \ {"none"}, Reviewed(w, verdict)
  PROVE Agent(w)
BY DEF Reviewed, Agent

LEMMA AgentsAreNext ==
  ASSUME NEW w \in Workers, MCAgent(w)
  PROVE Agent(w)
BY LifecycleAssumption DEF MCAgent, Agent, Rounds

\* A step that costs no calm.
CalmStep ==
  /\ BudgetOK'
  /\ Calm' => /\ Calm
              /\ Handled \/ UNCHANGED vars
              /\ stale' = stale \/ \E w \in Workers : stale' = [stale EXCEPT ![w] = FALSE]

LEMMA StepsSpend ==
  ASSUME BudgetOK, TypeOK, [MCNext]_mcvars
  PROVE [Next]_vars /\ CalmStep
<1>1. ASSUME NEW w \in Workers, UNCHANGED budget,
             \/ Scheduler(w) \/ Runner(w) \/ MCAgent(w) \/ Commands(w)
             \/ Reviewed(w, "clean") \/ Restart(w) \/ Thaw(w)
      PROVE [Next]_vars /\ CalmStep
  <2>1. /\ \/ Scheduler(w) \/ Runner(w) \/ Agent(w) \/ Commands(w) \/ Restart(w) \/ Thaw(w)
        /\ \/ stale' = stale
           \/ stale' = [stale EXCEPT ![w] = FALSE]
    <3>1. Reviewed(w, "clean") \/ MCAgent(w) => Agent(w)
      BY ReviewsAreNext, AgentsAreNext DEF Verdicts
    <3>2. Scheduler(w) => stale' = stale \/ stale' = [stale EXCEPT ![w] = FALSE]
      BY DEF Scheduler, Promote, Claim, ListExpired, StartRetry, ReleaseHost, SweepLease,
             Heartbeat, hosts
    <3>3. Runner(w) => stale' = stale
      BY DEF Runner, ResumeRetry, IssueToken, SessionStarted, Renew, Gone, EndTurn, Finalize,
             hosts
    <3>4. Agent(w) => stale' = stale
      BY DEF Agent, PrCreated, ReportFailed, RaiseIssue, ReviewStarted, ReviewResult, hosts
    <3>5. Commands(w) => stale' = stale
      BY DEF Commands, ClaimCommands, BeginResume, CommitResume, hosts
    <3>6. Restart(w) => stale' = [stale EXCEPT ![w] = FALSE]
      BY DEF Restart
    <3>7. Thaw(w) => stale' = stale
      BY DEF Thaw
    <3> QED
      BY <1>1, <3>1, <3>2, <3>3, <3>4, <3>5, <3>6, <3>7
  <2>2. Next /\ Handled
    BY <2>1 DEF Next, Handled
  <2> QED
    BY <1>1, <2>1, <2>2 DEF CalmStep, BudgetOK, Calm
<1>2. ASSUME NEW w \in Workers,
             \/ Spend("error") /\ Failures(w)
             \/ SpendTwo("findings") /\ Reviewed(w, "findings")
             \/ Spend("abort") /\ AbortFault(w)
      PROVE [Next]_vars /\ CalmStep
  <2>1. Failures(w) \/ Agent(w) \/ AbortFault(w)
    BY <1>2, ReviewsAreNext DEF Verdicts
  <2>2. stale' = stale
    BY <2>1 DEF Failures, SetupFails, FailTurn, Agent, PrCreated, ReportFailed, RaiseIssue,
                ReviewStarted, ReviewResult, AbortFault, RunAborts, hosts
  <2>3. BudgetOK' /\ \A other \in {"crash", "stale", "freeze", "refusal"} :
                       budget'[other] = budget[other]
    BY <1>2, Spending DEF Spend, SpendTwo, Kinds
  <2>4. Next /\ Handled
    BY <2>1 DEF Next, Handled
  <2> QED
    BY <2>2, <2>3, <2>4 DEF CalmStep, Calm
<1>3. ASSUME NEW t \in Tasks,
             \/ UNCHANGED budget /\ (Poller(t) \/ Reopen(t))
             \/ Spend("expiry") /\ LeaseExpires(t)
             \/ Spend("cancel") /\ Cancel(t)
             \/ SpendTwo("retry") /\ HumanRetry(t)
      PROVE [Next]_vars /\ CalmStep
  <2>1. Next /\ Handled
    BY <1>3 DEF Next, Handled
  <2>2. stale' = stale
    BY <1>3 DEF Poller, CiFailed, CiPassed, Merged, ClosedUnmerged, Reopen, LeaseExpires, Cancel,
                HumanRetry, hosts
  <2>3. BudgetOK' /\ \A other \in {"crash", "stale", "freeze", "refusal"} :
                       budget'[other] = budget[other]
    BY <1>3, Spending DEF Spend, SpendTwo, Kinds, BudgetOK
  <2> QED
    BY <2>1, <2>2, <2>3 DEF CalmStep, Calm
<1>4. ASSUME UNCHANGED budget, Resolve PROVE [Next]_vars /\ CalmStep
  BY <1>4 DEF Next, Handled, Resolve, ResolveIssue, CalmStep, BudgetOK, Calm, hosts
<1>5. ASSUME NEW w \in Workers,
             \/ Spend("crash") /\ Crash(w)
             \/ Spend("freeze") /\ Freeze(w)
             \/ Spend("refusal") /\ ResumeFault(w)
             \/ Spend("stale") /\ HeartbeatStale(w)
      PROVE [Next]_vars /\ CalmStep
  <2>1. Next
    BY <1>5 DEF Next
  <2>2. PICK what \in {"crash", "stale", "freeze", "refusal"} : Spend(what)
    BY <1>5
  <2>3. BudgetOK' /\ budget'[what] < budget[what]
    BY <2>2, Spending DEF Spend, Kinds
  <2>4. ~Calm'
    BY <2>3, BudgetAssumption DEF Calm, BudgetOK, Kinds
  <2> QED
    BY <2>1, <2>3, <2>4 DEF CalmStep
<1>6. CASE UNCHANGED mcvars
  BY <1>6 DEF mcvars, vars, CalmStep, BudgetOK, Calm
<1> QED
  BY <1>1, <1>2, <1>3, <1>4, <1>5, <1>6 DEF MCNext, MCSteps

\* The specification that counts is the specification.
LEMMA CountingIsSpec == MCSpec => Spec /\ []BudgetOK
<1>1. MCInit => Init /\ BudgetOK
  BY BudgetAtFirst DEF MCInit
<1>2. TypeOK /\ BudgetOK /\ [MCNext]_mcvars => [Next]_vars /\ BudgetOK'
  BY StepsSpend DEF CalmStep
<1>3. TypeOK /\ [Next]_vars => TypeOK'
  BY BoxStep
<1>4. Init => TypeOK
  BY TypeInit
<1> QED
  BY <1>1, <1>2, <1>3, <1>4, PTL DEF MCSpec, Spec

CalmInv == Calm => NoneStale /\ StaysPinned /\ SomeoneWorks /\ WayOutInv

\* The task of calm workers is never stuck: as long as none has died, hung or been
\* taken for dead and no resume was refused for good, a task in work has an
\* execution or an open CI failure, and a paused one an issue or an answer,
\* whatever turns fail, leases expire, users cancel, reopen and retry, and reviews
\* find meanwhile.
THEOREM WorkAlwaysGoesOn == MCSpec => []WorkGoesOn
<1>1. MCInit => CalmInv
  BY WayOutInit DEF MCInit, CalmInv, Init, NoneStale, StaysPinned, PinnedStates, SlotStates,
                    Releasable, NoRow, SomeoneWorks, InWork, RetryableTaskStates
<1>2. CalmInv /\ BudgetOK /\ GateInv /\ TypeOK' /\ [MCNext]_mcvars => CalmInv'
  <2> SUFFICES ASSUME CalmInv, BudgetOK, GateInv, TypeOK', [MCNext]_mcvars, Calm'
               PROVE NoneStale' /\ StaysPinned' /\ SomeoneWorks' /\ WayOutInv'
    BY DEF CalmInv
  <2>1. TypeOK /\ BatchHeld
    BY DEF GateInv
  <2>2. [Next]_vars /\ CalmStep
    BY <2>1, StepsSpend
  <2>3. NoneStale /\ WorkInv /\ WayOutInv
    BY <2>2 DEF CalmStep, CalmInv, WorkInv
  <2>4. NoneStale'
    BY <2>1, <2>2, <2>3 DEF CalmStep, NoneStale, TypeOK, HostOK
  <2>5. [Handled]_vars
    BY <2>2 DEF CalmStep
  <2>6. AnswerLaw
    BY <2>1, <2>5, HandledAnswers
  <2>7. StaysPinned' /\ WayOutInv'
    BY <2>2, <2>3, <2>6, WayOutStays DEF WayOutInv
  <2>8. SomeoneWorks'
    BY <2>2, <2>3, WorkStays
  <2> QED
    BY <2>4, <2>7, <2>8
<1>3. CalmInv => WorkGoesOn
  BY WayOut DEF CalmInv, WorkGoesOn
<1> QED
  BY <1>1, <1>2, <1>3, CountingIsSpec, TypeCorrect, GateInvHolds, PTL DEF MCSpec

-----------------------------------------------------------------------------
(* The executions implement the promise of TaskOwnership                   *)

\* A step of the promise, or none.
HandsOn == [Ownership!HandOver]_Ownership!ownershipVars

\* What TaskOwnership sees of a row.
SameLinks(e) == /\ exec'[e].task = exec[e].task /\ exec'[e].of = exec[e].of
                /\ exec'[e].ci # 0 <=> exec[e].ci # 0

SameRole(e) == Stage(exec'[e].state) = Stage(exec[e].state) /\ SameLinks(e)

LEMMA StageValues ==
  /\ Stage("NONE") = "unused" /\ Stage("QUEUED") = "waiting"
  /\ \A s \in OwningStates : Stage(s) = "owning"
  /\ Stage("COMPLETED") = "resting"
  /\ Stage("FAILED") = "over" /\ Stage("CANCELLED") = "over"
BY DEF Stage, OwningStates

\* The executions engaged with a task are the live ones.
LEMMA EngagedAreLive ==
  ASSUME TypeOK, NEW t \in Tasks
  PROVE Ownership!Engaged(t) = LiveOf(t)
<1>1. ASSUME NEW s \in ExecutionStates \cup {"NONE"}
      PROVE Stage(s) \in {"waiting", "owning"} <=> s \in LiveStates
  BY DEF Stage, OwningStates, LiveStates, ExecutionStates
<1>2. \A e \in Execs : exec[e].state \in ExecutionStates \cup {"NONE"}
  BY DEF TypeOK, ExecOK, Row
<1> QED
  BY <1>1, <1>2 DEF Ownership!Engaged, LiveOf, Of

LEMMA RolesKept ==
  ASSUME \A x \in Execs : SameRole(x)
  PROVE HandsOn
BY DEF HandsOn, SameRole, SameLinks, Ownership!ownershipVars

LEMMA ExecKept ==
  ASSUME exec' = exec
  PROVE HandsOn
BY RolesKept DEF SameRole, SameLinks

\* One row takes the stage s, and nothing else is seen to change.
OnlyStage(e, s) ==
  /\ [x \in Execs |-> Stage(exec'[x].state)]
       = [[x \in Execs |-> Stage(exec[x].state)] EXCEPT ![e] = s]
  /\ [x \in Execs |-> exec'[x].task] = [x \in Execs |-> exec[x].task]
  /\ [x \in Execs |-> exec'[x].of] = [x \in Execs |-> exec[x].of]
  /\ {x \in Execs : exec'[x].ci # 0} = {x \in Execs : exec[x].ci # 0}

LEMMA OneStage ==
  ASSUME ExecOK, NEW e \in Execs, NEW r \in Row, exec' = [exec EXCEPT ![e] = r],
         r.task = exec[e].task, r.of = exec[e].of, r.ci = exec[e].ci
  PROVE OnlyStage(e, Stage(r.state))
<1>1. exec'[e] = r /\ \A x \in Execs \ {e} : exec'[x] = exec[x]
  BY DEF ExecOK
<1>2. [x \in Execs |-> Stage(exec'[x].state)]
        = [[x \in Execs |-> Stage(exec[x].state)] EXCEPT ![e] = Stage(r.state)]
  <2>1. \A x \in Execs :
          Stage(exec'[x].state) = IF x = e THEN Stage(r.state) ELSE Stage(exec[x].state)
    BY <1>1
  <2>2. PICK stage : stage = [x \in Execs |-> Stage(exec[x].state)]
    OBVIOUS
  <2>3. PICK next : next = [x \in Execs |-> Stage(exec'[x].state)]
    OBVIOUS
  <2>4. next = [stage EXCEPT ![e] = Stage(r.state)]
    BY <2>1, <2>2, <2>3
  <2> QED
    BY <2>2, <2>3, <2>4
<1>3. [x \in Execs |-> exec'[x].task] = [x \in Execs |-> exec[x].task]
  BY <1>1
<1>4. [x \in Execs |-> exec'[x].of] = [x \in Execs |-> exec[x].of]
  BY <1>1
<1>5. {x \in Execs : exec'[x].ci # 0} = {x \in Execs : exec[x].ci # 0}
  BY <1>1
<1> QED
  BY <1>2, <1>3, <1>4, <1>5 DEF OnlyStage

LEMMA OneRole ==
  ASSUME ExecOK, NEW e \in Execs, NEW r \in Row, exec' = [exec EXCEPT ![e] = r],
         r.task = exec[e].task, r.of = exec[e].of, r.ci = exec[e].ci,
         Stage(r.state) = Stage(exec[e].state)
  PROVE HandsOn
<1>1. exec'[e] = r /\ \A x \in Execs \ {e} : exec'[x] = exec[x]
  BY DEF ExecOK
<1> QED
  BY <1>1, RolesKept DEF SameRole, SameLinks

\* The steps of the promise that move one execution.
LEMMA StageSteps ==
  ASSUME NEW e \in Execs
  PROVE /\ Stage(exec[e].state) = "waiting" /\ Ownership!Engaged(exec[e].task) = {e}
             /\ OnlyStage(e, "owning") => HandsOn
        /\ Stage(exec[e].state) = "owning" /\ OnlyStage(e, "over") => HandsOn
        /\ Stage(exec[e].state) = "owning" /\ OnlyStage(e, "resting") => HandsOn
        /\ Stage(exec[e].state) = "resting" /\ exec[e].ci # 0 /\ OnlyStage(e, "owning")
             => HandsOn
<1>1. ASSUME Stage(exec[e].state) = "waiting", Ownership!Engaged(exec[e].task) = {e},
             OnlyStage(e, "owning")
      PROVE Ownership!Starts(e)
  BY <1>1 DEF OnlyStage, Ownership!Starts
<1>2. ASSUME Stage(exec[e].state) = "owning", OnlyStage(e, "over") PROVE Ownership!Fails(e)
  BY <1>2 DEF OnlyStage, Ownership!Fails
<1>3. ASSUME Stage(exec[e].state) = "owning", OnlyStage(e, "resting")
      PROVE Ownership!Completes(e)
  BY <1>3 DEF OnlyStage, Ownership!Completes
<1>4. ASSUME Stage(exec[e].state) = "resting", exec[e].ci # 0, OnlyStage(e, "owning")
      PROVE Ownership!Returns(e)
  BY <1>4 DEF OnlyStage, Ownership!Returns
<1> QED
  BY <1>1, <1>2, <1>3, <1>4 DEF HandsOn, Ownership!HandOver

\* Fail ends the owner, and leaves its retry if the policy allows one.
LEMMA FailHands ==
  ASSUME TypeOK, Blank, NEW e \in Execs, exec[e].state \in SlotStates,
         NEW reason \in Reasons, NEW token \in Workers \cup {NoWorker},
         Fail(e, reason, token)
  PROVE HandsOn
<1> DEFINE r == [exec[e] EXCEPT !.state = "FAILED", !.reason = reason, !.token = token]
           ended == [exec EXCEPT ![e] = r]
<1>0. ExecOK /\ exec[e] \in Row /\ exec[e].state # "NONE"
  BY DEF TypeOK, ExecOK, SlotStates
<1>1. /\ r \in Row /\ r.state = "FAILED" /\ r.task = exec[e].task
      /\ r.of = exec[e].of /\ r.ci = exec[e].ci
  BY <1>0, States DEF Row
<1>2. ended = [exec EXCEPT ![e].state = "FAILED", ![e].reason = reason, ![e].token = token]
  BY <1>0 DEF ExecOK, Row
<1>3. Stage(exec[e].state) = "owning" /\ Stage(r.state) = "over"
  BY <1>1, StageValues DEF SlotStates, OwningStates
<1>4. CASE Retried(e, reason)
  <2> DEFINE n == RetryRow(e, reason)
  <2>1. \E f \in Fresh : exec' = [ended EXCEPT ![f] = n]
    <3>1. \E f \in Fresh :
            exec' = [[exec EXCEPT ![e].state = "FAILED", ![e].reason = reason,
                                  ![e].token = token] EXCEPT ![f] = n]
      BY <1>4, Zenon DEF Fail
    <3> HIDE DEF ended, n
    <3> QED
      BY <1>2, <3>1
  <2>2. PICK f \in Fresh : exec' = [ended EXCEPT ![f] = n]
    BY <2>1
  <2>3. /\ f \in Execs /\ f # e /\ exec[f].state = "NONE" /\ exec[f].ci = 0
        /\ n.state = "QUEUED" /\ n.task = exec[e].task /\ n.of = e /\ n.ci = 0
    BY <1>0, RetryRowTyped DEF Fresh, Blank
  <2> HIDE DEF r, n
  <2>4. exec'[e] = r /\ exec'[f] = n /\ \A x \in Execs \ {e, f} : exec'[x] = exec[x]
    BY <1>0, <2>2, <2>3 DEF ExecOK
  <2>5. Stage(exec[f].state) = "unused" /\ Stage(n.state) = "waiting"
    BY <2>3, StageValues
  <2>6. Ownership!IsRetried(e, f)
    <3>1. [x \in Execs |-> Stage(exec'[x].state)]
            = [[x \in Execs |-> Stage(exec[x].state)]
                 EXCEPT ![e] = "over", ![f] = "waiting"]
      BY <1>3, <2>3, <2>4, <2>5
    <3>2. [x \in Execs |-> exec'[x].task]
            = [[x \in Execs |-> exec[x].task] EXCEPT ![f] = exec[e].task]
      BY <1>1, <2>3, <2>4
    <3>3. [x \in Execs |-> exec'[x].of] = [[x \in Execs |-> exec[x].of] EXCEPT ![f] = e]
      BY <1>1, <2>3, <2>4
    <3>4. {x \in Execs : exec'[x].ci # 0} = {x \in Execs : exec[x].ci # 0}
      BY <1>1, <2>3, <2>4
    <3> QED
      BY <1>3, <2>3, <2>5, <3>1, <3>2, <3>3, <3>4 DEF Ownership!IsRetried
  <2> QED
    BY <2>3, <2>6 DEF HandsOn, Ownership!HandOver
<1>5. CASE ~Retried(e, reason)
  <2>1. exec' = ended
    BY <1>2, <1>5 DEF Fail
  <2> HIDE DEF r
  <2>2. OnlyStage(e, Stage(r.state))
    BY <1>0, <1>1, <2>1, OneStage
  <2> QED
    BY <1>3, <2>2, StageSteps
<1> QED
  BY <1>4, <1>5

LEMMA EndFailedHands ==
  ASSUME TypeOK, Blank, NEW e \in Execs, NEW reason \in Reasons, EndFailed(e, reason)
  PROVE HandsOn
<1>1. CASE exec[e].state \in SlotStates
  <2>1. Fail(e, reason, exec[e].token) /\ exec[e].token \in Workers \cup {NoWorker}
    BY <1>1 DEF EndFailed, TypeOK, ExecOK, Row
  <2> QED
    BY <1>1, <2>1, FailHands
<1>2. CASE exec[e].state \notin SlotStates
  BY <1>2, ExecKept DEF EndFailed
<1> QED
  BY <1>1, <1>2

LEMMA ClaimHands ==
  ASSUME TypeOK, Blank, NEW w \in Workers, NEW t \in Tasks, Claim(w, t)
  PROVE HandsOn
<1> DEFINE n == [NewRow(t) EXCEPT !.state = "ASSIGNED", !.host = w]
<1>1. /\ n.state = "ASSIGNED" /\ n.task = t /\ n.of = NoExec /\ n.ci = 0
  <2>1. /\ NewRow(t) \in Row /\ NewRow(t).task = t
        /\ NewRow(t).of = NoExec /\ NewRow(t).ci = 0
    BY NoRowTyped DEF NewRow, NoRow
  <2> QED
    BY <2>1 DEF Row
<1>2. PICK e \in Fresh : exec' = [exec EXCEPT ![e] = n]
  BY Zenon DEF Claim
<1>3. LiveOf(t) = {}
  BY DEF Claim
<1> HIDE DEF n
<1>4. e \in Execs /\ exec[e].state = "NONE" /\ exec[e].of = NoExec /\ exec[e].ci = 0
  BY DEF Fresh, Blank
<1>5. exec'[e] = n /\ \A x \in Execs \ {e} : exec'[x] = exec[x]
  BY <1>2, <1>4 DEF TypeOK, ExecOK
<1>6. Stage(exec[e].state) = "unused" /\ Stage(n.state) = "owning"
  BY <1>1, <1>4, StageValues DEF OwningStates
<1>7. Ownership!Takes(e, t)
  <2>1. [x \in Execs |-> Stage(exec'[x].state)]
          = [[x \in Execs |-> Stage(exec[x].state)] EXCEPT ![e] = "owning"]
    BY <1>4, <1>5, <1>6
  <2>2. [x \in Execs |-> exec'[x].task] = [[x \in Execs |-> exec[x].task] EXCEPT ![e] = t]
    BY <1>1, <1>4, <1>5
  <2>3. [x \in Execs |-> exec'[x].of] = [x \in Execs |-> exec[x].of]
    BY <1>1, <1>4, <1>5
  <2>4. {x \in Execs : exec'[x].ci # 0} = {x \in Execs : exec[x].ci # 0}
    BY <1>1, <1>4, <1>5
  <2> QED
    BY <1>3, <1>4, <1>6, <2>1, <2>2, <2>3, <2>4, EngagedAreLive DEF Ownership!Takes
<1> QED
  BY <1>4, <1>7 DEF HandsOn, Ownership!HandOver

LEMMA SchedulerHands ==
  ASSUME TypeOK, Blank, NEW w \in Workers, Scheduler(w)
  PROVE HandsOn
<1>0. ExecOK /\ \A e \in Execs : exec[e] \in Row
  BY DEF TypeOK, ExecOK
<1>1. ASSUME NEW t \in Tasks, Promote(w, t) \/ ListExpired(w, t) PROVE HandsOn
  BY <1>1, ExecKept DEF Promote, ListExpired
<1>2. ASSUME NEW t \in Tasks, Claim(w, t) PROVE HandsOn
  BY <1>2, ClaimHands
<1>3. ASSUME NEW e \in Execs, StartRetry(w, e) PROVE HandsOn
  <2> DEFINE r == [exec[e] EXCEPT !.state = "ASSIGNED", !.host = w]
  <2>1. exec' = [exec EXCEPT ![e] = r] /\ exec[e].state = "QUEUED" /\ NoOtherLive(e)
    BY <1>0, <1>3 DEF StartRetry, ExecOK, Row
  <2>2. /\ r \in Row /\ r.state = "ASSIGNED" /\ r.task = exec[e].task
        /\ r.of = exec[e].of /\ r.ci = exec[e].ci
    BY <1>0, States DEF Row
  <2> HIDE DEF r
  <2>3. OnlyStage(e, Stage(r.state))
    BY <1>0, <2>1, <2>2, OneStage
  <2>4. Stage(exec[e].state) = "waiting" /\ Stage(r.state) = "owning"
    BY <2>1, <2>2, StageValues DEF OwningStates
  <2>5. exec[e].task \in Tasks
    BY <1>0, <2>1, Names
  <2>6. LiveOf(exec[e].task) = {e}
    BY <2>1 DEF NoOtherLive, LiveOf, Of, LiveStates
  <2> QED
    BY <2>3, <2>4, <2>5, <2>6, EngagedAreLive, StageSteps
<1>4. ASSUME NEW e \in Execs, ReleaseHost(w, e) PROVE HandsOn
  <2> DEFINE r == [exec[e] EXCEPT !.host = NoWorker]
  <2>1. exec' = [exec EXCEPT ![e] = r]
    BY <1>0, <1>4 DEF ReleaseHost, ExecOK, Row
  <2>2. /\ r \in Row /\ r.state = exec[e].state /\ r.task = exec[e].task
        /\ r.of = exec[e].of /\ r.ci = exec[e].ci
    BY <1>0 DEF Row
  <2> QED
    BY <1>0, <2>1, <2>2, OneRole
<1>5. CASE SweepLease(w)
  <2> DEFINE s == swept[w]
  <2>1. s \in Execs
    BY <1>5 DEF SweepLease, TypeOK, MemoryOK
  <2>2. CASE StillExpired(s)
    <3>1. Fail(s, "lease_expired", NoWorker) /\ exec[s].state \in SlotStates
      BY <1>5, <2>2 DEF SweepLease, StillExpired, Renewable
    <3> HIDE DEF s
    <3> QED
      BY <2>1, <3>1, FailHands DEF Reasons, InfraFailures
  <2>3. CASE ~StillExpired(s)
    BY <1>5, <2>3, ExecKept DEF SweepLease
  <2> QED
    BY <2>2, <2>3
<1>6. CASE Heartbeat(w)
  BY <1>6, ExecKept DEF Heartbeat
<1> QED
  BY <1>1, <1>2, <1>3, <1>4, <1>5, <1>6 DEF Scheduler

LEMMA RunnerHands ==
  ASSUME TypeOK, Blank, NEW w \in Workers, Runner(w) \/ Failures(w) \/ AbortFault(w)
  PROVE HandsOn
<1>0. ExecOK /\ \A e \in Execs : exec[e] \in Row
  BY DEF TypeOK, ExecOK
<1>1. ASSUME NEW e \in Execs, ResumeRetry(w, e) \/ SessionStarted(w, e) PROVE HandsOn
  <2> DEFINE r == [exec[e] EXCEPT !.state = "RUNNING"]
  <2>1. exec' = [exec EXCEPT ![e] = r] /\ exec[e].state = "ASSIGNED"
    BY <1>0, <1>1 DEF ResumeRetry, SessionStarted, ExecOK, Row
  <2>2. /\ r \in Row /\ r.state = "RUNNING" /\ r.task = exec[e].task
        /\ r.of = exec[e].of /\ r.ci = exec[e].ci
    BY <1>0, States DEF Row
  <2>3. Stage(r.state) = Stage(exec[e].state)
    BY <2>1, <2>2, StageValues DEF OwningStates
  <2> QED
    BY <1>0, <2>1, <2>2, <2>3, OneRole
<1>2. ASSUME NEW e \in Execs, IssueToken(w, e) PROVE HandsOn
  <2> DEFINE r == [exec[e] EXCEPT !.token = w]
  <2>1. exec' = exec \/ exec' = [exec EXCEPT ![e] = r]
    BY <1>0, <1>2 DEF IssueToken, ExecOK, Row
  <2>2. /\ r \in Row /\ r.state = exec[e].state /\ r.task = exec[e].task
        /\ r.of = exec[e].of /\ r.ci = exec[e].ci
    BY <1>0 DEF Row
  <2> QED
    BY <1>0, <2>1, <2>2, OneRole, ExecKept
<1>3. ASSUME NEW e \in Execs, Renew(w, e) \/ Gone(w, e) \/ RunAborts(w, e) PROVE HandsOn
  BY <1>3, ExecKept DEF Renew, Gone, RunAborts
<1>4. ASSUME NEW e \in Execs, EndTurn(w, e) PROVE HandsOn
  <2>1. CASE e \in blocking[w] /\ exec[e].state = "RUNNING"
    <3> DEFINE r == [exec[e] EXCEPT !.state = "WAITING_FOR_USER"]
    <3>1. exec' = [exec EXCEPT ![e] = r]
      BY <1>0, <1>4, <2>1 DEF EndTurn, ExecOK, Row
    <3>2. /\ r \in Row /\ r.state = "WAITING_FOR_USER" /\ r.task = exec[e].task
          /\ r.of = exec[e].of /\ r.ci = exec[e].ci
      BY <1>0, States DEF Row
    <3>3. Stage(r.state) = Stage(exec[e].state)
      BY <2>1, <3>2, StageValues DEF OwningStates
    <3> QED
      BY <1>0, <3>1, <3>2, <3>3, OneRole
  <2>2. CASE ~(e \in blocking[w] /\ exec[e].state = "RUNNING")
    BY <1>4, <2>2, EndFailedHands DEF EndTurn, Reasons
  <2> QED
    BY <2>1, <2>2
<1>5. ASSUME NEW e \in Execs, Finalize(w, e) PROVE HandsOn
  <2> DEFINE r == [exec[e] EXCEPT !.token = NoWorker]
  <2>1. exec' = [exec EXCEPT ![e] = r]
    BY <1>0, <1>5 DEF Finalize, ExecOK, Row
  <2>2. /\ r \in Row /\ r.state = exec[e].state /\ r.task = exec[e].task
        /\ r.of = exec[e].of /\ r.ci = exec[e].ci
    BY <1>0 DEF Row
  <2> QED
    BY <1>0, <2>1, <2>2, OneRole
<1>6. ASSUME NEW e \in Execs, SetupFails(w, e) PROVE HandsOn
  BY <1>6, EndFailedHands DEF SetupFails, Reasons, InfraFailures
<1>7. ASSUME NEW e \in Execs, NEW reason \in TurnFailures, FailTurn(w, e, reason)
      PROVE HandsOn
  BY <1>7, EndFailedHands DEF FailTurn, Reasons
<1> QED
  BY <1>1, <1>2, <1>3, <1>4, <1>5, <1>6, <1>7 DEF Runner, Failures, AbortFault

LEMMA CallHands ==
  ASSUME TypeOK, NEW w \in Workers, Agent(w)
  PROVE HandsOn
<1>0. ExecOK /\ \A e \in Execs : exec[e] \in Row
  BY DEF TypeOK, ExecOK
<1>1. ASSUME NEW e \in Execs, NEW round \in Rounds, ReviewStarted(w, e, round)
      PROVE HandsOn
  <2> DEFINE r == [exec[e] EXCEPT !.round = round, !.verdict = "none"]
  <2>0. round \in Nat
    BY LifecycleAssumption DEF Rounds
  <2>1. exec' = [exec EXCEPT ![e] = r]
    BY <1>0, <1>1 DEF ReviewStarted, ExecOK, Row
  <2>2. /\ r \in Row /\ r.state = exec[e].state /\ r.task = exec[e].task
        /\ r.of = exec[e].of /\ r.ci = exec[e].ci
    BY <1>0, <2>0 DEF Row, Verdicts
  <2> QED
    BY <1>0, <2>1, <2>2, OneRole
<1>2. ASSUME NEW e \in Execs, NEW round \in Rounds, NEW v \in Verdicts,
             ReviewResult(w, e, round, v)
      PROVE HandsOn
  <2> DEFINE q == IF exec[e].round = round THEN v ELSE exec[e].verdict
             r == [exec[e] EXCEPT !.verdict = q]
  <2>1. q \in Verdicts
    BY <1>0 DEF Row
  <2>2. exec' = [exec EXCEPT ![e] = r]
    BY <1>0, <1>2 DEF ReviewResult, ExecOK, Row
  <2> HIDE DEF q
  <2>3. /\ r \in Row /\ r.state = exec[e].state /\ r.task = exec[e].task
        /\ r.of = exec[e].of /\ r.ci = exec[e].ci
    BY <1>0, <2>1 DEF Row
  <2> QED
    BY <1>0, <2>2, <2>3, OneRole
<1>3. ASSUME NEW e \in Execs, PrCreated(w, e) PROVE HandsOn
  <2> DEFINE r == [exec[e] EXCEPT !.state = "COMPLETED", !.token = NoWorker]
  <2>1. exec' = [exec EXCEPT ![e] = r] /\ exec[e].state = "RUNNING"
    BY <1>0, <1>3 DEF PrCreated, Authorized, ExecOK, Row
  <2>2. /\ r \in Row /\ r.state = "COMPLETED" /\ r.task = exec[e].task
        /\ r.of = exec[e].of /\ r.ci = exec[e].ci
    BY <1>0, States DEF Row
  <2> HIDE DEF r
  <2>3. OnlyStage(e, Stage(r.state))
    BY <1>0, <2>1, <2>2, OneStage
  <2>4. Stage(exec[e].state) = "owning" /\ Stage(r.state) = "resting"
    BY <2>1, <2>2, StageValues DEF OwningStates
  <2> QED
    BY <2>3, <2>4, StageSteps
<1>4. ASSUME NEW e \in Execs, ReportFailed(w, e) PROVE HandsOn
  <2> DEFINE r == [exec[e] EXCEPT !.state = "FAILED", !.reason = "agent_gave_up",
                                  !.token = NoWorker]
  <2>1. exec' = [exec EXCEPT ![e] = r] /\ exec[e].state = "RUNNING"
    BY <1>0, <1>4 DEF ReportFailed, Authorized, ExecOK, Row
  <2>2. /\ r \in Row /\ r.state = "FAILED" /\ r.task = exec[e].task
        /\ r.of = exec[e].of /\ r.ci = exec[e].ci
    BY <1>0, States DEF Row, Reasons
  <2> HIDE DEF r
  <2>3. OnlyStage(e, Stage(r.state))
    BY <1>0, <2>1, <2>2, OneStage
  <2>4. Stage(exec[e].state) = "owning" /\ Stage(r.state) = "over"
    BY <2>1, <2>2, StageValues DEF OwningStates
  <2> QED
    BY <2>3, <2>4, StageSteps
<1>5. ASSUME NEW e \in Execs, RaiseIssue(w, e) PROVE HandsOn
  <2> DEFINE r == [exec[e] EXCEPT !.issues = exec[e].issues + 1]
  <2>1. exec' = [exec EXCEPT ![e] = r]
    BY <1>0, <1>5 DEF RaiseIssue, ExecOK, Row
  <2>2. /\ r \in Row /\ r.state = exec[e].state /\ r.task = exec[e].task
        /\ r.of = exec[e].of /\ r.ci = exec[e].ci
    BY <1>0 DEF Row
  <2> QED
    BY <1>0, <2>1, <2>2, OneRole
<1> QED
  BY <1>1, <1>2, <1>3, <1>4, <1>5 DEF Agent

\* Only a CI command resumes a completed execution, and CI has sent it back.
LEMMA CommandHands ==
  ASSUME TypeOK, CiCommands, NEW w \in Workers, Commands(w) \/ ResumeFault(w)
  PROVE HandsOn
<1>0. ExecOK /\ CmdOK /\ \A e \in Execs : exec[e] \in Row
  BY DEF TypeOK, ExecOK
<1>1. CASE ClaimCommands(w)
  BY <1>1, ExecKept DEF ClaimCommands
<1>2. ASSUME NEW i \in CmdIds, BeginResume(w, i) PROVE HandsOn
  <2> DEFINE e == cmd[i].exec
             r == [exec[e] EXCEPT !.host = w]
  <2>1. e \in Execs
    BY <1>0, <1>2 DEF BeginResume, NextInBatch, CmdOK
  <2>2. exec' = exec \/ exec' = [exec EXCEPT ![e] = r]
    BY <1>0, <1>2, <2>1 DEF BeginResume, ExecOK, Row
  <2>3. /\ r \in Row /\ r.state = exec[e].state /\ r.task = exec[e].task
        /\ r.of = exec[e].of /\ r.ci = exec[e].ci
    BY <1>0, <2>1 DEF Row
  <2> HIDE DEF e
  <2> QED
    BY <1>0, <2>1, <2>2, <2>3, OneRole, ExecKept
<1>3. ASSUME NEW i \in CmdIds, CommitResume(w, i) PROVE HandsOn
  <2>1. cmd[i].exec \in Execs
    BY <1>0, <1>3 DEF CommitResume, NextInBatch, CmdOK
  <2>2. PICK e \in Execs : e = cmd[i].exec
    BY <2>1
  <2> DEFINE r == [exec[e] EXCEPT !.state = "RUNNING"]
  <2>3. CASE ~(Resumable(i) /\ PinnedHere(w, e))
    BY <1>3, <2>2, <2>3, ExecKept DEF CommitResume
  <2>4. CASE Resumable(i) /\ PinnedHere(w, e)
    <3>1. exec' = [exec EXCEPT ![e] = r] /\ exec[e].state = ResumableState(cmd[i].kind)
      BY <1>0, <1>3, <2>2, <2>4 DEF CommitResume, Resumable, ExecOK, Row
    <3>2. /\ r \in Row /\ r.state = "RUNNING" /\ r.task = exec[e].task
          /\ r.of = exec[e].of /\ r.ci = exec[e].ci
      BY <1>0, States DEF Row
    <3> HIDE DEF r
    <3>3. CASE cmd[i].kind = "ci"
      <4>1. Stage(exec[e].state) = "resting" /\ Stage(r.state) = "owning"
        BY <3>1, <3>2, <3>3, StageValues DEF ResumableState, OwningStates
      <4>2. exec[e].ci # 0
        BY <1>0, <2>2, <3>3 DEF CiCommands, Row
      <4>3. OnlyStage(e, Stage(r.state))
        BY <1>0, <3>1, <3>2, OneStage
      <4> QED
        BY <4>1, <4>2, <4>3, StageSteps
    <3>4. CASE cmd[i].kind # "ci"
      <4>1. Stage(r.state) = Stage(exec[e].state)
        BY <3>1, <3>2, <3>4, StageValues DEF ResumableState, OwningStates
      <4> QED
        BY <1>0, <3>1, <3>2, <4>1, OneRole
    <3> QED
      BY <3>3, <3>4
  <2> QED
    BY <2>3, <2>4
<1>4. ASSUME NEW i \in CmdIds, ResumeRefused(w, i) PROVE HandsOn
  BY <1>4, ExecKept DEF ResumeRefused
<1> QED
  BY <1>1, <1>2, <1>3, <1>4 DEF Commands, ResumeFault

LEMMA OutsideHands ==
  ASSUME TypeOK, ReviewGate, NEW t \in Tasks,
         Poller(t) \/ Cancel(t) \/ Reopen(t) \/ HumanRetry(t) \/ LeaseExpires(t)
  PROVE HandsOn
<1>0. ExecOK /\ \A e \in Execs : exec[e] \in Row
  BY DEF TypeOK, ExecOK
<1>1. CASE CiFailed(t)
  <2>1. task[t] = "CI_RUNNING" /\ pr[t] \in Execs
    BY <1>1 DEF CiFailed, TypeOK, LeaseOK
  <2>2. PICK e \in Execs : e = pr[t]
    BY <2>1
  <2> DEFINE r == [exec[e] EXCEPT !.ci = exec[e].ci + 1]
  <2>3. exec' = [exec EXCEPT ![e] = r]
    BY <1>0, <1>1, <2>2 DEF CiFailed, ExecOK, Row
  <2>4. /\ r.state = exec[e].state /\ r.task = exec[e].task /\ r.of = exec[e].of
        /\ r.ci # 0
    BY <1>0 DEF Row
  <2>5. Stage(exec[e].state) = "resting"
    BY <2>1, <2>2, StageValues DEF ReviewGate
  <2> HIDE DEF r
  <2>6. exec'[e] = r /\ \A x \in Execs \ {e} : exec'[x] = exec[x]
    BY <1>0, <2>3 DEF ExecOK
  <2>7. Ownership!IsSentBack(e)
    <3>1. [x \in Execs |-> Stage(exec'[x].state)] = [x \in Execs |-> Stage(exec[x].state)]
      BY <2>4, <2>6
    <3>2. [x \in Execs |-> exec'[x].task] = [x \in Execs |-> exec[x].task]
      BY <2>4, <2>6
    <3>3. [x \in Execs |-> exec'[x].of] = [x \in Execs |-> exec[x].of]
      BY <2>4, <2>6
    <3>4. {x \in Execs : exec'[x].ci # 0} = {x \in Execs : exec[x].ci # 0} \cup {e}
      BY <2>4, <2>6
    <3> QED
      BY <2>5, <3>1, <3>2, <3>3, <3>4 DEF Ownership!IsSentBack
  <2> QED
    BY <2>7 DEF HandsOn, Ownership!HandOver
<1>2. CASE Cancel(t)
  <2>1. \A e \in Execs :
          exec'[e] = IF e \in LiveOf(t) THEN [exec[e] EXCEPT !.state = "CANCELLED"] ELSE exec[e]
    BY <1>2 DEF Cancel
  <2>2. \A e \in Execs :
          /\ exec'[e].task = exec[e].task /\ exec'[e].of = exec[e].of
          /\ exec'[e].ci = exec[e].ci
          /\ exec'[e].state = IF e \in LiveOf(t) THEN "CANCELLED" ELSE exec[e].state
    BY <1>0, <2>1 DEF Row
  <2>3. Ownership!IsCancelled(t)
    <3>1. [x \in Execs |-> Stage(exec'[x].state)]
            = [x \in Execs |-> IF x \in LiveOf(t) THEN "over" ELSE Stage(exec[x].state)]
      BY <2>2, StageValues
    <3>2. [x \in Execs |-> exec'[x].task] = [x \in Execs |-> exec[x].task]
      BY <2>2
    <3>3. [x \in Execs |-> exec'[x].of] = [x \in Execs |-> exec[x].of]
      BY <2>2
    <3>4. {x \in Execs : exec'[x].ci # 0} = {x \in Execs : exec[x].ci # 0}
      BY <2>2
    <3>5. [x \in Execs |-> Stage(exec'[x].state)]
            = [x \in Execs |-> IF x \in Ownership!Engaged(t) THEN "over"
                               ELSE [y \in Execs |-> Stage(exec[y].state)][x]]
      BY <3>1, EngagedAreLive
    <3> QED
      BY <3>2, <3>3, <3>4, <3>5 DEF Ownership!IsCancelled
  <2> QED
    BY <2>3 DEF HandsOn, Ownership!HandOver
<1>3. CASE \/ CiPassed(t) \/ Merged(t) \/ ClosedUnmerged(t)
           \/ Reopen(t) \/ HumanRetry(t) \/ LeaseExpires(t)
  BY <1>3, ExecKept
     DEF CiPassed, Merged, ClosedUnmerged, Reopen, HumanRetry, LeaseExpires
<1> QED
  BY <1>1, <1>2, <1>3 DEF Poller

LEMMA ResolveHands ==
  ASSUME TypeOK, NEW e \in Execs, ResolveIssue(e)
  PROVE HandsOn
<1> DEFINE r == [exec[e] EXCEPT !.issues = exec[e].issues - 1]
<1>1. ExecOK /\ exec[e] \in Row /\ exec[e].issues > 0
  BY DEF TypeOK, ExecOK, ResolveIssue
<1>2. exec' = [exec EXCEPT ![e] = r]
  BY <1>1 DEF ResolveIssue, ExecOK, Row
<1>3. /\ r \in Row /\ r.state = exec[e].state /\ r.task = exec[e].task
      /\ r.of = exec[e].of /\ r.ci = exec[e].ci
  BY <1>1 DEF Row
<1> QED
  BY <1>1, <1>2, <1>3, OneRole

LEMMA HandsSteps ==
  ASSUME TypeOK, Blank, CiCommands, ReviewGate, [Next]_vars
  PROVE HandsOn
<1>1. ASSUME NEW w \in Workers,
             Crash(w) \/ Restart(w) \/ Freeze(w) \/ Thaw(w) \/ HeartbeatStale(w)
      PROVE HandsOn
  BY <1>1, ExecKept DEF Crash, Restart, Freeze, Thaw, HeartbeatStale
<1>2. CASE UNCHANGED vars
  BY <1>2, ExecKept DEF vars
<1> QED
  BY <1>1, <1>2, SchedulerHands, RunnerHands, CallHands, CommandHands, OutsideHands,
     ResolveHands DEF Next, Resolve

\* Only what rests is sent back.
LEMMA RestingIsSentBack ==
  ASSUME HandsOn, NEW x \in Execs, exec'[x].ci # 0
  PROVE exec[x].ci # 0 \/ Stage(exec[x].state) = "resting"
<1>1. ASSUME NEW e \in Execs, Ownership!IsSentBack(e)
      PROVE exec[x].ci # 0 \/ Stage(exec[x].state) = "resting"
  <2>1. /\ Stage(exec[e].state) = "resting"
        /\ {y \in Execs : exec'[y].ci # 0} = {y \in Execs : exec[y].ci # 0} \cup {e}
    BY <1>1 DEF Ownership!IsSentBack
  <2> QED
    BY <2>1
<1>2. CASE {y \in Execs : exec'[y].ci # 0} = {y \in Execs : exec[y].ci # 0}
  BY <1>2
<1> QED
  BY <1>1, <1>2
     DEF HandsOn, Ownership!HandOver, Ownership!ownershipVars, Ownership!Starts,
         Ownership!Fails, Ownership!Completes, Ownership!Returns, Ownership!Takes,
         Ownership!IsRetried, Ownership!IsCancelled

\* An unused row that stays unused stays blank.
LEMMA BlankStays ==
  ASSUME Blank, HandsOn, ExecStep
  PROVE Blank'
<1> SUFFICES ASSUME NEW e \in Execs, exec'[e].state = "NONE"
             PROVE exec'[e].of = NoExec /\ exec'[e].ci = 0
  BY DEF Blank
<1>1. exec[e].state = "NONE" /\ exec'[e].of = exec[e].of
  BY DEF ExecStep, Inserted, Updated, Swept, Started, Regained, Kept
<1>2. exec[e].of = NoExec /\ exec[e].ci = 0
  BY <1>1 DEF Blank
<1>3. Stage(exec[e].state) # "resting"
  BY <1>1, StageValues
<1> QED
  BY <1>1, <1>2, <1>3, RestingIsSentBack

\* The executions implement TaskOwnership: whatever workers, sweepers, users, agents
\* and CI do, work begins or is retried only when nothing else is engaged with the
\* task, a failure and its retry are one step, what is over stays over, and what was
\* completed comes back only when CI has sent it back.  A step that fails, claims,
\* starts or resumes an execution is one step of the promise and every other
\* step is none; the links between pull request, command and execution (OwnerInv,
\* ReviewGate) say that what CI sends back was completed, and what returns sent back.
THEOREM OwnershipIsImplemented == Spec => HandsOver
<1>1. Init => Ownership!Unowned /\ Blank
  BY StageValues DEF Init, Ownership!Unowned, Blank, NoRow
<1>2. Blank /\ OwnerInv /\ ReviewGate /\ [Next]_vars => HandsOn /\ Blank'
  BY HandsSteps, BoxStep, BlankStays DEF OwnerInv
<1>3. HandsOn <=> [Ownership!HandOver]_Ownership!ownershipVars
  BY DEF HandsOn
<1> QED
  BY <1>1, <1>2, <1>3, OwnerInvHolds, GateHolds, PTL DEF Spec, HandsOver, Ownership!OwnershipSpec

=============================================================================

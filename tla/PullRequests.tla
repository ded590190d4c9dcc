----------------------------- MODULE PullRequests -----------------------------
(***************************************************************************)
(* The pull request of a task, on GitHub and in its row, and the pollers   *)
(* of the workers, which carry what happens to the one over to the other.  *)
(*                                                                         *)
(* Every worker polls every open row.  It reads the row without a lock,    *)
(* asks GitHub for the pull request, and while the task waits for CI for   *)
(* the check runs of its head; then it decides, and applies the decision   *)
(* in a transaction that holds the task and the execution.  Between these  *)
(* steps the other worker polls the same row, people push, merge, close    *)
(* and cancel, and the agent reports again: the same execution, or, after  *)
(* a cancel, another one.  The transaction reads the row again, but counts *)
(* the round of, and resumes, the execution that the poll listed.  GitHub  *)
(* is modelled by what client.ts reads of it.  REVIEWING stands for READY  *)
(* to REVIEWING.                                                           *)
(***************************************************************************)
EXTENDS Naturals, FiniteSets

CONSTANTS Pollers,
          Steady,       \* the pollers that keep running: the others may stop for good
          MaxPulls,     \* bound on the pull requests opened for the task
          MaxHeads,     \* bound on the commits pushed
          MaxCiRounds,  \* projects.max_ci_rounds
          MaxRetries,   \* bound on the executions a person starts
          MaxChecks,    \* bound on the changes of check runs
          SameHead,     \* whether a second pull request may be opened for an old commit
          Early         \* bound: whether a pull request is pushed to, merged or closed before
                        \* it is reported

ASSUME PullRequestsAssumption ==
  /\ {MaxCiRounds, MaxRetries, MaxChecks} \subseteq Nat
  /\ {MaxPulls, MaxHeads} \subseteq Nat \ {0}
  /\ {SameHead, Early} \subseteq BOOLEAN /\ Steady \subseteq Pollers

VARIABLES st,       \* tasks.state
          attempts, \* the implementation executions: state, ci_rounds, and their
                    \* resume_with_ci_failure commands still to be handled
          row,      \* pull_requests: state, execution_id, number, head_sha, the head
                    \* pending_since is of, and whether NO_CHECKS_GRACE_MS passed since
          gh,       \* GitHub: the pull requests of the task, by number
          checks,   \* GitHub: the check runs, by head
          poll,     \* per poller: what it is doing with the row it listed
          seen,     \* history: heads whose checks were ever red, or ever green
          reports,  \* history: how often report_pr_created was called, and the heads
                    \* the row had after the calls of each execution
          bounds    \* bounds: commits, retries, check changes so far

github == <<gh, checks, seen>>
rows   == <<st, attempts, row, reports>>
vars   == <<rows, github, poll, bounds>>

Pulls    == 1 .. MaxPulls
Heads    == 1 .. MaxHeads
Attempts == 1 .. MaxRetries + 1
NoPull == [is |-> "none", head |-> 0]
NoRow  == [is |-> "none", exec |-> 0, num |-> 0, head |-> 0, since |-> 0, old |-> FALSE]
Rest   == [do |-> "rest", ci |-> FALSE, exec |-> 0, num |-> 0, head |-> 0, since |-> 0, new |-> 0]

\* lockPullRequestForPoll: the task is in a state its pull request moves
Actionable == st \in {"CI_RUNNING", "READY_FOR_MERGE"}

Live == {e \in Attempts : attempts[e].is = "live"}

Opened == {n \in Pulls : gh[n].is # "none"}

-----------------------------------------------------------------------------
(* The agent and people                                                    *)

\* A pull request that the agent and people go on with
OpenNow(n) == gh[n].is = "open" /\ (Early \/ row.num = n)

\* A commit: on the branch of an open pull request, by the agent or a person
Pushed(n) ==
  /\ OpenNow(n) /\ bounds.commits < MaxHeads
  /\ bounds' = [bounds EXCEPT !.commits = @ + 1]
  /\ gh' = [gh EXCEPT ![n].head = bounds.commits + 1]
  /\ UNCHANGED <<rows, checks, seen, poll>>

\* The agent opens a pull request when the task has no open one.
Opens(n) ==
  /\ st = "REVIEWING" /\ n = Cardinality(Opened) + 1 /\ \A m \in Opened : gh[m].is # "open"
  /\ \/ /\ bounds.commits < MaxHeads
        /\ bounds' = [bounds EXCEPT !.commits = @ + 1]
        /\ gh' = [gh EXCEPT ![n] = [is |-> "open", head |-> bounds.commits + 1]]
     \/ /\ SameHead /\ n > 1 /\ UNCHANGED bounds
        /\ gh' = [gh EXCEPT ![n] = [is |-> "open", head |-> gh[n - 1].head]]
  /\ UNCHANGED <<rows, checks, seen, poll>>

Settled(n) ==
  /\ OpenNow(n) /\ \E s \in {"merged", "closed"} : gh' = [gh EXCEPT ![n].is = s]
  /\ UNCHANGED <<rows, checks, seen, poll, bounds>>

\* Check runs start and end, and are run again.
ChecksMove(h) ==
  /\ h <= bounds.commits /\ bounds.moves < MaxChecks
  /\ bounds' = [bounds EXCEPT !.moves = @ + 1]
  /\ \E c \in {"running", "failed", "passed"} \ {checks[h]} :
       /\ checks' = [checks EXCEPT ![h] = c]
       /\ seen' = [seen EXCEPT !.red   = IF c = "failed" THEN @ \cup {h} ELSE @,
                               !.green = IF c = "passed" THEN @ \cup {h} ELSE @]
  /\ UNCHANGED <<rows, gh, poll>>

\* Mutant: pending_since is kept from the commit before.
Upserted_KeepsSince(e, n) ==
  row' = [is |-> "open", exec |-> e, num |-> n, head |-> gh[n].head, since |-> row.since, old |-> row.old]

\* Mutant: execution_id is set by the first report only.
Upserted_KeepsExecution(e, n) ==
  row' = [is |-> "open", exec |-> IF row.is = "none" THEN e ELSE row.exec, num |-> n,
          head |-> gh[n].head, since |-> 0, old |-> FALSE]

\* upsertPullRequest
Upserted(e, n) ==
  row' = [is |-> "open", exec |-> e, num |-> n, head |-> gh[n].head, since |-> 0, old |-> FALSE]

\* history: the execution e reported the commit h.
Reported(e, h) == reports' = [n |-> reports.n + 1, had |-> [reports.had EXCEPT ![e] = @ \cup {h}]]

\* Mutant: the row of a pull request that was closed stays closed.
Reports_StaysClosed(e, n) ==
  /\ st = "REVIEWING" /\ e \in Live /\ gh[n].is = "open"
  /\ row' = [is |-> IF row.is = "closed" THEN "closed" ELSE "open", exec |-> e, num |-> n,
             head |-> gh[n].head, since |-> 0, old |-> FALSE]
  /\ st' = "CI_RUNNING" /\ attempts' = [attempts EXCEPT ![e].is = "completed"] /\ Reported(e, gh[n].head)
  /\ UNCHANGED <<github, poll, bounds>>

\* report_pr_created: a live execution completes with what it reviewed.
Reports(e, n) ==
  /\ st = "REVIEWING" /\ e \in Live /\ gh[n].is = "open"
  /\ Upserted(e, n) /\ st' = "CI_RUNNING"
  /\ attempts' = [attempts EXCEPT ![e].is = "completed"] /\ Reported(e, gh[n].head)
  /\ UNCHANGED <<github, poll, bounds>>

\* The handler of resume_with_ci_failure, in whatever state the task is: an
\* execution that is not COMPLETED is skipped.
Resumed(e) ==
  /\ attempts[e].asked > 0
  /\ attempts' = [attempts EXCEPT ![e].asked = @ - 1,
                                  ![e].is = IF @ = "completed" THEN "live" ELSE @]
  /\ UNCHANGED <<st, row, reports, github, poll, bounds>>

\* report_review_started
ReviewStarted ==
  /\ st = "IMPLEMENTING" /\ Live # {} /\ st' = "REVIEWING"
  /\ UNCHANGED <<attempts, row, reports, github, poll, bounds>>

\* The task is cancelled, and its live executions with it; it is reopened or
\* retried, with a new execution.
Cancelled ==
  /\ st \notin {"DONE", "CANCELLED"} /\ bounds.retries < MaxRetries /\ st' = "CANCELLED"
  /\ attempts' = [e \in Attempts |-> [attempts[e] EXCEPT !.is = IF e \in Live THEN "ended" ELSE @]]
  /\ UNCHANGED <<row, reports, github, poll, bounds>>

Retried ==
  /\ st \in {"NEEDS_HUMAN", "CANCELLED"} /\ bounds.retries < MaxRetries
  /\ bounds' = [bounds EXCEPT !.retries = @ + 1]
  /\ st' = "REVIEWING" /\ attempts' = [attempts EXCEPT ![bounds.retries + 2].is = "live"]
  /\ UNCHANGED <<row, reports, github, poll>>

World ==
  \/ \E n \in Pulls : Pushed(n) \/ Opens(n) \/ Settled(n) \/ \E e \in Attempts : Reports(e, n)
  \/ \E h \in Heads : ChecksMove(h)
  \/ \E e \in Attempts : Resumed(e)
  \/ ReviewStarted \/ Cancelled \/ Retried

-----------------------------------------------------------------------------
(* A poll                                                                  *)

polled == <<rows, github, bounds>>

\* client.getPullRequest: what GitHub says of the number now
Answer(n) == gh[n]

\* client.listCheckRuns: every page, and no page is of another commit
CheckRuns(h) == checks[h]

\* evaluateCheckRuns: one failed run refuses the commit, all must have completed to
\* accept it.
Evaluation(runs) == runs

\* listOpenPullRequests; what only a verdict of the checks uses is kept when they
\* are to be asked for.
Lists(w) ==
  /\ poll[w].do = "rest" /\ row.is = "open"
  /\ poll' = [poll EXCEPT ![w] =
       IF st = "CI_RUNNING" THEN [do |-> "ask", ci |-> TRUE, exec |-> row.exec, num |-> row.num,
                                  head |-> row.head, since |-> row.since, new |-> 0]
                            ELSE [Rest EXCEPT !.do = "ask", !.num = row.num, !.head = row.head]]
  /\ UNCHANGED polled

\* What is kept of a poll that has decided; one that only writes last_polled_at
\* is over.
Decided(w, decision) ==
  poll' = [poll EXCEPT ![w] = [Rest EXCEPT !.do = decision, !.head = poll[w].head,
                                           !.since = IF decision = "passed" THEN poll[w].since ELSE 0,
                                           !.exec = IF decision = "failed" THEN poll[w].exec ELSE 0]]

\* pollOnePullRequest: getPullRequest
Asks(w) ==
  LET q == poll[w]
      g == Answer(q.num)
  IN  /\ q.do = "ask"
      /\ \/ g.is # "open" /\ Decided(w, g.is)
         \/ /\ g.is = "open" /\ g.head # q.head
            /\ poll' = [poll EXCEPT ![w] = [Rest EXCEPT !.do = "push", !.head = q.head, !.new = g.head]]
         \/ g.is = "open" /\ g.head = q.head /\ ~q.ci /\ poll' = [poll EXCEPT ![w] = Rest]
         \/ g.is = "open" /\ g.head = q.head /\ q.ci
            /\ poll' = [poll EXCEPT ![w] = [q EXCEPT !.do = "ask checks", !.ci = FALSE, !.num = 0]]
      /\ UNCHANGED polled

\* Mutant: the time of the first poll without checks is not written down.
AsksChecks_NotRecorded(w) ==
  /\ poll[w].do = "ask checks"
  /\ LET c == checks[poll[w].head] IN IF c \in {"running", "none"} THEN poll' = [poll EXCEPT ![w] = Rest] ELSE Decided(w, c)
  /\ UNCHANGED polled

\* listCheckRuns, evaluateCheckRuns, parsePendingSince: the grace runs from the time
\* that was listed, which may be before the one the row has now.
AsksChecks(w) ==
  LET q == poll[w]
      c == Evaluation(CheckRuns(q.head))
      over == row.since = q.since /\ row.old
  IN  /\ q.do = "ask checks"
      /\ \/ /\ c = "running" \/ (c = "none" /\ q.since # 0 /\ ~over)
            /\ poll' = [poll EXCEPT ![w] = Rest]
         \/ c \in {"passed", "failed"} /\ Decided(w, c)
         \/ c = "none" /\ q.since = 0 /\ Decided(w, "no checks")
         \/ c = "none" /\ q.since # 0 /\ Decided(w, "passed")
      /\ UNCHANGED polled

\* GitHub answers with an error, 404 or a rate limit: the next poll tries again.
AskFails(w) ==
  /\ poll[w].do \in {"ask", "ask checks"} /\ poll' = [poll EXCEPT ![w] = Rest]
  /\ UNCHANGED polled

\* Mutant: only the state of the row is compared.
Current_StateOnly(w) == row.is = "open"

\* The row is still open and at the commit the poll listed, whose execution is not
\* compared.
Current(w) == row.is = "open" /\ row.head = poll[w].head

\* updatePullRequestHead: only the row changes, in whatever state the task is.
MarkHead(h) ==
  /\ row' = [row EXCEPT !.head = h, !.since = h, !.old = FALSE]
  /\ reports' = [reports EXCEPT !.had[row.exec] = @ \cup {h}]
  /\ UNCHANGED <<st, attempts>>

\* recordNoChecksPending
RecordNoChecks ==
  row' = [row EXCEPT !.since = row.head, !.old = FALSE] /\ UNCHANGED <<st, attempts, reports>>

\* markPullRequestMerged, by way of READY_FOR_MERGE
MarkMerged ==
  /\ IF Actionable THEN st' = "DONE" /\ row' = [row EXCEPT !.is = "merged"] ELSE UNCHANGED <<st, row>>
  /\ UNCHANGED <<attempts, reports>>

\* Mutant: a close is acted on while the task waits for CI only.
MarkClosed_OnlyReady ==
  /\ IF st = "READY_FOR_MERGE" THEN st' = "NEEDS_HUMAN" /\ row' = [row EXCEPT !.is = "closed"]
                               ELSE UNCHANGED <<st, row>>
  /\ UNCHANGED <<attempts, reports>>

\* markPullRequestClosed
MarkClosed ==
  /\ IF Actionable THEN st' = "NEEDS_HUMAN" /\ row' = [row EXCEPT !.is = "closed"] ELSE UNCHANGED <<st, row>>
  /\ UNCHANGED <<attempts, reports>>

\* markPullRequestCi
MarkPassed ==
  /\ st' = IF st = "CI_RUNNING" THEN "READY_FOR_MERGE" ELSE st
  /\ UNCHANGED <<attempts, row, reports>>

\* The execution e is charged a round; while it has rounds left, it is to be resumed.
Charged(e) ==
  LET round == attempts[e].rounds + 1
  IN  /\ st' = IF round > MaxCiRounds THEN "NEEDS_HUMAN" ELSE "IMPLEMENTING"
      /\ attempts' = [attempts EXCEPT ![e].rounds = round,
                                      ![e].asked = IF round > MaxCiRounds THEN @ ELSE @ + 1]
      /\ UNCHANGED <<row, reports>>

\* Mutant: the task is not looked at under the lock.
MarkFailed_Again(e) == Charged(e)

\* applyCiFailure, for the execution of the row as it was listed
MarkFailed(e) == IF st = "CI_RUNNING" THEN Charged(e) ELSE UNCHANGED rows

\* The transaction of pollOnePullRequest
Decisions == {"merged", "closed", "push", "no checks", "passed", "failed"}
Applies(w) ==
  /\ poll[w].do \in Decisions
  /\ poll' = [poll EXCEPT ![w] = Rest]
  /\ \/ ~Current(w) /\ UNCHANGED rows
     \/ /\ Current(w)
        /\ \/ poll[w].do = "merged"    /\ MarkMerged
           \/ poll[w].do = "closed"    /\ MarkClosed
           \/ poll[w].do = "push"      /\ MarkHead(poll[w].new)
           \/ poll[w].do = "no checks" /\ RecordNoChecks
           \/ poll[w].do = "passed"    /\ MarkPassed
           \/ poll[w].do = "failed"    /\ MarkFailed(poll[w].exec)
  /\ UNCHANGED <<github, bounds>>

\* Time passes: it decides something while the commit has no checks.
GraceEnds ==
  /\ row.since # 0 /\ ~row.old /\ checks[row.head] = "none" /\ row' = [row EXCEPT !.old = TRUE]
  /\ UNCHANGED <<st, attempts, reports, github, poll, bounds>>

Polling ==
  \/ \E w \in Pollers : Lists(w) \/ Asks(w) \/ AsksChecks(w) \/ AskFails(w) \/ Applies(w)
  \/ GraceEnds

-----------------------------------------------------------------------------
\* The first execution of the task has begun.
Init ==
  /\ st = "REVIEWING"
  /\ attempts = [e \in Attempts |-> [is |-> IF e = 1 THEN "live" ELSE "none", rounds |-> 0, asked |-> 0]]
  /\ row = NoRow /\ reports = [n |-> 0, had |-> [e \in Attempts |-> {}]]
  /\ gh = [n \in Pulls |-> NoPull] /\ checks = [h \in Heads |-> "none"]
  /\ poll = [w \in Pollers |-> Rest] /\ seen = [red |-> {}, green |-> {}]
  /\ bounds = [commits |-> 0, retries |-> 0, moves |-> 0]

Next == World \/ Polling

Spec == Init /\ [][Next]_vars

\* A poller runs every minute, and GitHub does not fail every time it is asked.
Fairness ==
  /\ \A w \in Steady : /\ WF_vars(Lists(w) \/ Applies(w))
                       /\ SF_vars(Asks(w)) /\ SF_vars(AsksChecks(w))
  /\ WF_vars(GraceEnds)

FairSpec == Spec /\ Fairness

-----------------------------------------------------------------------------
(* Properties                                                              *)

States == {"REVIEWING", "CI_RUNNING", "READY_FOR_MERGE", "IMPLEMENTING", "NEEDS_HUMAN", "DONE", "CANCELLED"}

\* The types; C50: the grace of a commit without checks is its own, not that of
\* the commit before (upsertPullRequest and updatePullRequestHead start it anew).
TypeOK ==
  /\ st \in States
  /\ attempts \in [Attempts -> [is : {"none", "live", "completed", "ended"}, rounds : Nat, asked : Nat]]
  /\ row.is \in {"none", "open", "merged", "closed"} /\ row.num \in 0 .. MaxPulls
  /\ row.head \in 0 .. MaxHeads /\ row.since \in {0, row.head}
  /\ \A n \in Pulls : gh[n].is \in {"none", "open", "merged", "closed"} /\ gh[n].head \in 0 .. MaxHeads
  /\ checks \in [Heads -> {"none", "running", "failed", "passed"}]
  /\ \A w \in Pollers : poll[w].do \in {"rest", "ask", "ask checks"} \cup Decisions

\* 11.2: a task that waits for CI or for the merge has an open row, which is the
\* only thing a poller looks at; and a row is merged when its task is done, so no
\* merge is lost between the two.
WaitsOnOpenRow ==
  /\ Actionable => row.is = "open"
  /\ row.is = "merged" <=> st = "DONE"

\* The rounds charged to the executions of the task
Charges == UNION {{e} \X (1 .. attempts[e].rounds) : e \in Attempts}

\* 11.2, ci.ts: whatever number of workers poll the row, a report the checks refuse
\* costs one round of one execution, and none while its checks are waited for.
RoundsCounted ==
  /\ IsFiniteSet(Charges) /\ Cardinality(Charges) <= reports.n
  /\ Actionable => Cardinality(Charges) < reports.n

\* GOT.39 F2: what the poller decides is about the commit and the pull request the
\* row is at when it is applied: a failure of checks that did fail, charged to an
\* execution whose report had this commit in the row; a pass of checks that did pass
\* or of a commit that had none for the grace; an end of the pull request itself.
VerdictOfHead ==
  [][/\ \A e \in Attempts : attempts'[e].rounds > attempts[e].rounds =>
                        row.head \in seen.red \cap reports.had[e]
     /\ st = "CI_RUNNING" /\ st' = "READY_FOR_MERGE" => \/ row.head \in seen.green
          \/ \E w \in Pollers : poll[w].do = "passed" /\ poll[w].since = row.head
     /\ row.is = "open" /\ row'.is \in {"merged", "closed"} => gh[row.num].is = row'.is]_vars

\* A task waits for something that has happened: for a merge or a close, or in
\* CI_RUNNING while no check is running.
WaitsForNothing ==
  \/ Actionable /\ gh[row.num].is # "open"
  \/ st = "CI_RUNNING" /\ checks[gh[row.num].head] # "running"

\* 11.2: such a wait ends: a merge or a close reaches the task, and CI ends, even if
\* the repository has no checks.
WaitEnds == WaitsForNothing ~> ~WaitsForNothing

\* The row, the task and the counts of rounds fit each other, whoever polls.
RowFits == TypeOK /\ WaitsOnOpenRow /\ RoundsCounted

\* 11.2, "all check runs completed and successful": ready for merge is a verdict
\* about the commit the row is at.
ReadyIsGreen == st = "READY_FOR_MERGE" => row.head \notin seen.red \/ row.head \in seen.green

\* 5.2: "CI feedback resumes the same execution rather than creating a new one": a
\* failure is counted for, and goes back to, the execution that made the report.
PaidByItsOwn == [][\A e \in Attempts : attempts'[e].rounds > attempts[e].rounds => e = row.exec]_vars

\* 5.3: after a CI failure somebody works on it, or is about to be resumed.
FailureIsWorkedOn ==
  st = "IMPLEMENTING" => Live # {} \/ \E e \in Attempts : attempts[e].is = "completed" /\ attempts[e].asked > 0

-----------------------------------------------------------------------------
(* Why verdicts are about the commit of the row                            *)

Shapes ==
  /\ row \in [is : {"none", "open", "merged", "closed"}, exec : {0} \cup Attempts, num : 0 .. MaxPulls,
              head : 0 .. MaxHeads, since : 0 .. MaxHeads, old : BOOLEAN]
  /\ gh \in [Pulls -> [is : {"none", "open", "merged", "closed"}, head : 0 .. MaxHeads]]
  /\ poll \in [Pollers -> [do : {"rest", "ask", "ask checks"} \cup Decisions, ci : BOOLEAN,
                           exec : {0} \cup Attempts, num : 0 .. MaxPulls, head : 0 .. MaxHeads,
                           since : 0 .. MaxHeads, new : 0 .. MaxHeads]]
  /\ seen \in [red : SUBSET Heads, green : SUBSET Heads]
  /\ reports \in [n : Nat, had : [Attempts -> SUBSET Heads]]
  /\ bounds \in [commits : 0 .. MaxHeads, retries : 0 .. MaxRetries, moves : Nat]

\* Unless pull requests are opened for old commits, the commit h was pushed to
\* the pull request n and to no earlier one.
HeadOf(n, h) ==
  /\ n \in Opened /\ h \in Heads
  /\ SameHead \/ (h <= gh[n].head /\ \A m \in Opened : m < n => gh[m].head < h)

\* Pull requests are opened one after another, each when the ones before it are
\* settled, and the last one has the last commit.
PullsInOrder ==
  \E k \in 0 .. MaxPulls :
    /\ Opened = 1 .. k /\ \A m \in 1 .. k : m < k => gh[m].is # "open"
    /\ \A m \in 1 .. k : HeadOf(m, gh[m].head) /\ gh[m].head <= bounds.commits
    /\ k > 0 => gh[k].head = bounds.commits

\* What a poller carries was true of the row it listed.
PollFits(q) ==
  /\ (q.do = "ask" /\ q.ci) \/ q.do \in {"ask checks", "failed"} =>
       q.exec \in Attempts /\ q.head \in reports.had[q.exec]
  /\ q.do = "ask" => HeadOf(q.num, q.head)
  /\ q.do \in {"ask", "ask checks"} => q.since \in {0, q.head}
  /\ q.do \in {"merged", "closed"} => \E n \in Opened : HeadOf(n, q.head) /\ gh[n].is = q.do
  /\ q.do = "push" => \E n \in Opened : HeadOf(n, q.head) /\ HeadOf(n, q.new)
  /\ q.do = "failed" => q.head \in seen.red
  /\ q.do = "passed" => q.head \in seen.green \/ q.since = q.head

\* Every check run that ended was seen.
ChecksSeen == \A h \in Heads : /\ checks[h] = "failed" => h \in seen.red
                               /\ checks[h] = "passed" => h \in seen.green

VerdictsFit ==
  /\ RowFits /\ Shapes /\ PullsInOrder /\ ChecksSeen
  /\ row.is = "open" => HeadOf(row.num, row.head)
  /\ row.is # "none" => row.exec \in Attempts /\ row.head \in reports.had[row.exec]
  /\ \A w \in Pollers : PollFits(poll[w])
=============================================================================

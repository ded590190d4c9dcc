------------------------------ MODULE Scheduling ------------------------------
(***************************************************************************)
(* Which task runs when: the dependency graph, promotion, and the slots of *)
(* a host.                                                                 *)
(*                                                                         *)
(* The requests the api serves and the worker processes of one host work   *)
(* on the same rows.  Each worker runs two loops beside each other: its    *)
(* tick (promotion, then claim) and the retry starter.  A transaction that *)
(* reads, decides and writes is two steps here, begin and commit, with the *)
(* locks it holds in between; one that decides on the row it has locked is *)
(* one step.  IMPLEMENTING stands for REVIEWING too, CI_RUNNING for        *)
(* READY_FOR_MERGE, SPEC_REVIEW for all states before it, and "held" for   *)
(* ASSIGNED and RUNNING.                                                   *)
(***************************************************************************)
EXTENDS Naturals, FiniteSets

CONSTANTS Tasks,
          Requests,       \* requests the api serves at a time
          Workers,        \* worker processes that share a WORKER_HOST
          None,
          MaxConcurrent,  \* agent_workers.max_concurrent
          MaxUserMoves,   \* bound on what users do to the tasks
          MaxCrashes      \* bound on the crashes of workers

ASSUME SchedulingAssumption ==
  /\ IsFiniteSet(Tasks) /\ None \notin Tasks \cup Workers
  /\ MaxConcurrent \in Nat \ {0} /\ MaxUserMoves \in Nat /\ MaxCrashes \in Nat

VARIABLES st,       \* tasks.state
          deps,     \* task_dependencies
          ex,       \* the task's execution: none, queued, held, paused, completed
          claimed,  \* history: tasks whose held execution took its slot in a claim
          turn,     \* the spec session of another task: its turn, and its token
          request,  \* per request: its open transaction
          tick,     \* per worker: the open transaction of its tick
          starter,  \* per worker: the open transaction of its retry starter
          up,       \* the worker processes that run
          moves,    \* bound: user moves so far
          crashes   \* bound: crashes so far

rows    == <<st, deps, ex, claimed>>
workers == <<tick, starter, up, crashes>>
vars    == <<rows, turn, request, workers, moves>>

Idle  == [do |-> "rest", t |-> None]
Quiet == [is |-> "none", by |-> None]

Goto(t, s) == st' = [st EXCEPT ![t] = s]

-----------------------------------------------------------------------------
(* Locks                                                                   *)

\* Mutant: the graph is read without its lock.
GraphFree_Unlocked == TRUE

\* lockDependencyGraph: the advisory lock of PATCH, approve and promotion
GraphFree ==
  /\ \A r \in Requests : request[r].do = "rest"
  /\ \A w \in Workers : tick[w].do # "promote"

\* Mutant: the worker row is read without a lock.
HostFree_Unlocked == TRUE

\* getClaimWorker: the worker row, one for all the processes of the host
HostFree == \A w \in Workers : tick[w].do # "claim" /\ starter[w].do # "claim"

\* The task row, held by a transaction that is open
RowFree(t) ==
  /\ \A w \in Workers : tick[w].t # t /\ starter[w].t # t
  /\ \A r \in Requests : ~(request[r].do = "approve" /\ request[r].t = t)

-----------------------------------------------------------------------------
(* The dependency graph                                                    *)

\* What is reached from D along the edges e, by as many steps as there are tasks
More(e, S) == S \cup UNION {e[u] : u \in S}
ReachedAlong(e, D) ==
  LET f[n \in 0 .. Cardinality(Tasks)] == IF n = 0 THEN D ELSE More(e, f[n - 1])
  IN  f[Cardinality(Tasks)]

\* wouldCreateCycle: t is reached from D along the edges there are
Reached(D) == ReachedAlong(deps, D)

\* Mutant: a task with no dependencies waits for one.
Decide_SomeDone(D) ==
  CASE \E d \in D : st[d] \in {"FAILED", "CANCELLED"} -> "BLOCKED"
    [] D # {} /\ \A d \in D : st[d] = "DONE"         -> "READY"
    [] OTHER                                          -> "SPEC_APPROVED"

\* decidePromotion, decideDependencies
Decide(D) ==
  CASE \E d \in D : st[d] \in {"FAILED", "CANCELLED"} -> "BLOCKED"
    [] \A d \in D : st[d] = "DONE"                    -> "READY"
    [] OTHER                                          -> "SPEC_APPROVED"

\* PATCH /tasks/:id with dependencies, in whatever state the task is
PatchBegins(r, t, D) ==
  /\ request[r].do = "rest" /\ GraphFree /\ moves < MaxUserMoves
  /\ moves' = moves + 1
  /\ request' = [request EXCEPT ![r] = [do |-> "patch", t |-> t, D |-> D, ok |-> t \notin Reached(D)]]
  /\ UNCHANGED <<rows, turn, workers>>

PatchEnds(r) ==
  /\ request[r].do = "patch"
  /\ deps' = IF request[r].ok THEN [deps EXCEPT ![request[r].t] = request[r].D] ELSE deps
  /\ request' = [request EXCEPT ![r] = Idle]
  /\ UNCHANGED <<st, ex, claimed, turn, workers, moves>>

\* A paused execution goes on at once; without one the dependencies decide.
AtApproval(t, D) == IF ex[t] = "paused" THEN "IMPLEMENTING" ELSE Decide(D)

\* POST /tasks/:id/spec/approve
ApproveBegins(r, t, D) ==
  /\ request[r].do = "rest" /\ GraphFree /\ RowFree(t) /\ st[t] = "SPEC_REVIEW"
  /\ request' = [request EXCEPT ![r] =
       [do |-> "approve", t |-> t, D |-> D, ok |-> t \notin Reached(D),
        to |-> AtApproval(t, D)]]
  /\ UNCHANGED <<rows, turn, workers, moves>>

ApproveEnds(r) ==
  /\ request[r].do = "approve"
  /\ LET q == request[r]
     IN  IF q.ok THEN Goto(q.t, q.to) /\ deps' = [deps EXCEPT ![q.t] = q.D]
                 ELSE UNCHANGED <<st, deps>>
  /\ request' = [request EXCEPT ![r] = Idle]
  /\ UNCHANGED <<ex, claimed, turn, workers, moves>>

\* promoteApprovedTasks, the transaction of one candidate
PromoteBegins(w, t) ==
  /\ w \in up /\ tick[w].do = "rest" /\ GraphFree /\ RowFree(t)
  /\ st[t] = "SPEC_APPROVED" /\ ex[t] # "paused" /\ Decide(deps[t]) # "SPEC_APPROVED"
  /\ tick' = [tick EXCEPT ![w] = [do |-> "promote", t |-> t, to |-> Decide(deps[t])]]
  /\ UNCHANGED <<rows, turn, request, starter, up, crashes, moves>>

PromoteEnds(w) ==
  /\ tick[w].do = "promote" /\ Goto(tick[w].t, tick[w].to)
  /\ tick' = [tick EXCEPT ![w] = Idle]
  /\ UNCHANGED <<deps, ex, claimed, turn, request, starter, up, crashes, moves>>

Graph ==
  \/ \E r \in Requests :
       \/ PatchEnds(r) \/ ApproveEnds(r)
       \/ \E t \in Tasks, D \in SUBSET Tasks : PatchBegins(r, t, D) \/ ApproveBegins(r, t, D)
  \/ \E w \in Workers : PromoteEnds(w) \/ \E t \in Tasks : PromoteBegins(w, t)

-----------------------------------------------------------------------------
(* Slots                                                                   *)

\* holdsCapacity: a spec session counts while its token is set
Busy == Cardinality({t \in Tasks : ex[t] = "held"}) + (IF turn.is \in {"live", "left"} THEN 1 ELSE 0)

\* selectClaimCandidate
Claimable(t) == st[t] = "READY" /\ ex[t] \notin {"queued", "held", "paused"} /\ RowFree(t)

\* claimNextTask
ClaimBegins(w, t) ==
  /\ w \in up /\ tick[w].do = "rest" /\ HostFree /\ Busy < MaxConcurrent /\ Claimable(t)
  /\ tick' = [tick EXCEPT ![w] = [do |-> "claim", t |-> t]]
  /\ UNCHANGED <<rows, turn, request, starter, up, crashes, moves>>

Take(t) == ex' = [ex EXCEPT ![t] = "held"] /\ claimed' = claimed \cup {t}

\* lockQueuedRetry, pinRetryExecution
TakeRetry(t) == ex[t] = "queued" /\ Take(t)

ClaimEnds(w) ==
  /\ tick[w].do = "claim" /\ Take(tick[w].t) /\ Goto(tick[w].t, "IMPLEMENTING")
  /\ tick' = [tick EXCEPT ![w] = Idle]
  /\ UNCHANGED <<deps, turn, request, starter, up, crashes, moves>>

\* selectRetryCandidate; that a worker has the runtime, the capability and the
\* container mode is left out.
Retryable(t) == ex[t] = "queued" /\ st[t] = "IMPLEMENTING" /\ RowFree(t)

\* claimNextRetry
RetryBegins(w, t) ==
  /\ w \in up /\ starter[w].do = "rest" /\ HostFree /\ Busy < MaxConcurrent /\ Retryable(t)
  /\ starter' = [starter EXCEPT ![w] = [do |-> "claim", t |-> t]]
  /\ UNCHANGED <<rows, turn, request, tick, up, crashes, moves>>

RetryEnds(w) ==
  /\ starter[w].do = "claim" /\ TakeRetry(starter[w].t)
  /\ starter' = [starter EXCEPT ![w] = Idle]
  /\ UNCHANGED <<st, deps, turn, request, tick, up, crashes, moves>>

\* resume: a user's answer or a CI failure starts an execution again, and asks
\* nobody for a slot.
Resume(t) ==
  /\ RowFree(t) /\ st[t] = "IMPLEMENTING" /\ ex[t] \in {"paused", "completed"}
  /\ ex' = [ex EXCEPT ![t] = "held"] /\ claimed' = claimed \ {t}
  /\ UNCHANGED <<st, deps, turn, request, workers, moves>>

\* A turn of a spec session starts with a new token and ends with none.
TurnStarts(w) ==
  /\ w \in up /\ turn = Quiet /\ turn' = [is |-> "live", by |-> w]
  /\ UNCHANGED <<rows, request, workers, moves>>

TurnEnds ==
  /\ turn.is \in {"live", "blind"} /\ turn' = Quiet
  /\ UNCHANGED <<rows, request, workers, moves>>

Crash(w) ==
  /\ w \in up /\ up' = up \ {w} /\ crashes < MaxCrashes /\ crashes' = crashes + 1
  /\ tick' = [tick EXCEPT ![w] = Idle] /\ starter' = [starter EXCEPT ![w] = Idle]
  /\ turn' = IF turn.by # w THEN turn ELSE IF turn.is = "live" THEN [turn EXCEPT !.is = "left", !.by = None] ELSE Quiet
  /\ UNCHANGED <<rows, request, moves>>

\* Mutant: the tokens the crash left are not looked for.
Starts_TokensKept(w) ==
  /\ w \notin up /\ up' = up \cup {w}
  /\ UNCHANGED <<rows, turn, request, tick, starter, crashes, moves>>

\* main: registered, then revokeRunningSpecTokensOnHost, which takes the token of
\* a turn that another process of the host is in.
Starts(w) ==
  /\ w \notin up /\ up' = up \cup {w}
  /\ turn' = CASE turn.is = "left" -> Quiet
               [] turn.is = "live" -> [turn EXCEPT !.is = "blind"]
               [] OTHER            -> turn
  /\ UNCHANGED <<rows, request, tick, starter, crashes, moves>>

Slots ==
  \/ TurnEnds
  \/ \E w \in Workers :
       \/ ClaimEnds(w) \/ RetryEnds(w) \/ TurnStarts(w) \/ Crash(w) \/ Starts(w)
       \/ \E t \in Tasks : ClaimBegins(w, t) \/ RetryBegins(w, t)
  \/ \E t \in Tasks : Resume(t)

-----------------------------------------------------------------------------
(* Executions and users                                                    *)

Runs(t) == RowFree(t) /\ ex[t] = "held"

\* The turn that raised a blocking issue ends.
Pauses(t) ==
  /\ Runs(t) /\ st[t] = "IMPLEMENTING" /\ ex' = [ex EXCEPT ![t] = "paused"]
  /\ UNCHANGED <<st, deps, claimed, turn, request, workers, moves>>

\* The issue is resolved as a revision of the specification, which is rewritten.
Respecified(t) ==
  /\ RowFree(t) /\ st[t] = "IMPLEMENTING" /\ ex[t] = "paused"
  /\ moves < MaxUserMoves /\ moves' = moves + 1 /\ Goto(t, "SPEC_REVIEW")
  /\ UNCHANGED <<deps, ex, claimed, turn, request, workers>>

\* report_pr_created completes the execution; the poller ends the task, or sends
\* it back to the agent (module PullRequests).
Reports(t) ==
  /\ Runs(t) /\ st[t] = "IMPLEMENTING" /\ Goto(t, "CI_RUNNING")
  /\ ex' = [ex EXCEPT ![t] = "completed"]
  /\ UNCHANGED <<deps, claimed, turn, request, workers, moves>>

PullRequestMoves(t) ==
  /\ RowFree(t) /\ st[t] = "CI_RUNNING"
  /\ \E s \in {"DONE", "NEEDS_HUMAN", "IMPLEMENTING"} : Goto(t, s)
  /\ UNCHANGED <<deps, ex, claimed, turn, request, workers, moves>>

\* The run fails or its lease expires: it is retried, or the budget is used up.
Fails(t) ==
  /\ Runs(t)
  /\ \/ ex' = [ex EXCEPT ![t] = "queued"] /\ UNCHANGED st
     \/ ex' = [ex EXCEPT ![t] = "none"] /\ Goto(t, "NEEDS_HUMAN")
  /\ UNCHANGED <<deps, claimed, turn, request, workers, moves>>

\* Mutant: only the task is cancelled.
Cancel_TaskOnly(t) ==
  /\ RowFree(t) /\ st[t] \notin {"DONE", "CANCELLED"} /\ Goto(t, "CANCELLED")
  /\ moves < MaxUserMoves /\ moves' = moves + 1
  /\ UNCHANGED <<deps, ex, claimed, turn, request, workers>>

\* POST /tasks/:id/cancel, reopen, retry
Cancel(t) ==
  /\ RowFree(t) /\ st[t] \notin {"DONE", "CANCELLED"} /\ Goto(t, "CANCELLED")
  /\ ex' = [ex EXCEPT ![t] = IF @ = "completed" THEN @ ELSE "none"]
  /\ moves < MaxUserMoves /\ moves' = moves + 1
  /\ UNCHANGED <<deps, claimed, turn, request, workers>>

Reopen(t) ==
  /\ RowFree(t) /\ st[t] = "CANCELLED" /\ Goto(t, "SPEC_APPROVED")
  /\ UNCHANGED <<deps, ex, claimed, turn, request, workers, moves>>

HumanRetry(t) ==
  /\ RowFree(t) /\ st[t] = "NEEDS_HUMAN" /\ Goto(t, "READY")
  /\ moves < MaxUserMoves /\ moves' = moves + 1
  /\ UNCHANGED <<deps, ex, claimed, turn, request, workers>>

Users ==
  \E t \in Tasks : \/ Pauses(t) \/ Respecified(t) \/ Reports(t) \/ PullRequestMoves(t) \/ Fails(t)
                   \/ Cancel(t) \/ Reopen(t) \/ HumanRetry(t)

-----------------------------------------------------------------------------
\* A task that was reopened is approved and waits for the next tick.
Init ==
  /\ st \in [Tasks -> {"SPEC_REVIEW", "SPEC_APPROVED"}] /\ deps = [t \in Tasks |-> {}]
  /\ ex = [t \in Tasks |-> "none"] /\ claimed = {} /\ turn = Quiet
  /\ request = [r \in Requests |-> Idle] /\ tick = [w \in Workers |-> Idle]
  /\ starter = [w \in Workers |-> Idle] /\ up = Workers /\ moves = 0 /\ crashes = 0

Next == Graph \/ Slots \/ Users

Spec == Init /\ [][Next]_vars

\* A transaction ends (the graph's lock and the host's let one of each kind be
\* open), a worker is started again, and ticks reach every candidate, though its
\* row may be locked again and again.
Fairness ==
  /\ WF_vars(\E r \in Requests : PatchEnds(r) \/ ApproveEnds(r))
  /\ WF_vars(\E w \in Workers : PromoteEnds(w))
  /\ WF_vars(\E w \in Workers : ClaimEnds(w) \/ RetryEnds(w))
  /\ \A w \in Workers : WF_vars(Starts(w))
  /\ \A t \in Tasks : SF_vars(\E w \in Workers : PromoteBegins(w, t))

FairSpec == Spec /\ Fairness

-----------------------------------------------------------------------------
(* Properties                                                              *)

States == {"SPEC_REVIEW", "SPEC_APPROVED", "READY", "BLOCKED", "IMPLEMENTING", "CI_RUNNING",
           "DONE", "NEEDS_HUMAN", "CANCELLED"}

\* The types, and the locks: one transaction at a time has the graph, one the
\* slots of the host, one a task; a held execution is of a task in work.
TypeOK ==
  /\ st \in [Tasks -> States] /\ deps \in [Tasks -> SUBSET Tasks]
  /\ ex \in [Tasks -> {"none", "queued", "held", "paused", "completed"}]
  /\ claimed \subseteq Tasks
  /\ turn.is \in {"none", "live", "left", "blind"} /\ up \subseteq Workers /\ moves \in 0 .. MaxUserMoves
  /\ crashes \in 0 .. MaxCrashes
  /\ \A t \in Tasks : ex[t] \in {"held", "queued"} => st[t] = "IMPLEMENTING"

\* 12.2, J5: whatever requests run at the same time, the dependencies have no
\* cycle, so no set of tasks waits for itself (lockDependencyGraph).
Acyclic == \A t \in Tasks : t \notin Reached(deps[t])

\* 6.2: a task is made ready only when everything it depends on when it is made
\* ready is done, though the list is replaced and its tasks move meanwhile.
ReadyWhenDone ==
  [][\A t \in Tasks : st[t] \in {"SPEC_APPROVED", "SPEC_REVIEW"} /\ st'[t] = "READY"
                        => \A d \in deps'[t] : st'[d] = "DONE"]_vars

\* 6.3: what was claimed fits the slots, counting over the processes that share
\* a host and the retries; only resumes and spec turns come on top.
Taken == {t \in claimed : ex[t] = "held"}
ClaimsFit == Cardinality(Taken) <= MaxConcurrent

\* 6.2: an approved task whose dependencies are done does not stay approved: it
\* is promoted, or the list is replaced.
Promotable(t) == st[t] = "SPEC_APPROVED" /\ ex[t] # "paused" /\ \A d \in deps[t] : st[d] = "DONE"
ApprovedGoesOn == \A t \in Tasks : Promotable(t) ~> ~Promotable(t)

\* GOT.82: the token a crash left does not hold its slot for ever.
LeftTokenGoes == turn.is = "left" ~> turn.is # "left"

\* Tasks run in the order of a graph without cycles, however many requests and
\* workers edit and read it at a time.
DependenciesHold == []Acyclic /\ ReadyWhenDone

\* The slots: what was claimed fits, under locks that are held by one each.
SlotsHold == TypeOK /\ ClaimsFit

\* Nothing is left behind: no task that could be promoted, no token of a crash.
NothingIsLeft == ApprovedGoesOn /\ LeftTokenGoes

\* 5.1, "BLOCKED --> READY: dependency resolved"
BlockedIsResolved ==
  \A t \in Tasks : (st[t] = "BLOCKED" /\ \A d \in deps[t] : st[d] = "DONE") ~> st[t] # "BLOCKED"

\* scheduler.ts, holdsCapacity: "Live agent processes can therefore exceed
\* max_concurrent [...] by at most the spec turns in flight"
OnlyTurnsExceed ==
  Cardinality({t \in Tasks : ex[t] = "held"}) <= MaxConcurrent

-----------------------------------------------------------------------------
(* Why the locks are enough                                                *)

\* The transactions that are open, and the spec turn
OpenFit ==
  /\ turn \in [is : {"none", "live", "left", "blind"}, by : Workers \cup {None}]
  /\ DOMAIN request = Requests /\ DOMAIN tick = Workers /\ DOMAIN starter = Workers
  /\ \A r \in Requests :
       /\ request[r].do \in {"rest", "patch", "approve"}
       /\ request[r].do # "rest" => request[r].t \in Tasks /\ request[r].D \subseteq Tasks
  /\ \A w \in Workers :
       /\ tick[w].do \in {"rest", "promote", "claim"} /\ starter[w].do \in {"rest", "claim"}
       /\ tick[w].t \in IF tick[w].do = "rest" THEN {None} ELSE Tasks
       /\ starter[w].t \in IF starter[w].do = "rest" THEN {None} ELSE Tasks

\* lockDependencyGraph: one transaction has the graph.
GraphAlone ==
  /\ \A r, s \in Requests : request[r].do # "rest" /\ request[s].do # "rest" => r = s
  /\ \A w, v \in Workers : tick[w].do = "promote" /\ tick[v].do = "promote" => w = v
  /\ \A r \in Requests, w \in Workers : request[r].do = "rest" \/ tick[w].do # "promote"

\* getClaimWorker: one transaction has the row of the host.
HostAlone ==
  \A w, v \in Workers :
    /\ tick[w].do = "claim" /\ tick[v].do = "claim" => w = v
    /\ starter[w].do = "claim" /\ starter[v].do = "claim" => w = v
    /\ tick[w].do # "claim" \/ starter[v].do # "claim"

\* FOR UPDATE: one transaction has the row of a task.
RowAlone ==
  \A w, v \in Workers :
    /\ tick[w].t = tick[v].t /\ tick[w].t # None => w = v
    /\ starter[w].t = starter[v].t /\ starter[w].t # None => w = v
    /\ tick[w].t = starter[v].t => tick[w].t = None
    /\ \A r \in Requests : request[r].do = "approve" => request[r].t \notin {tick[w].t, starter[v].t}

\* What a transaction read under its locks is so until it ends.
StillSo ==
  /\ \A r \in Requests : request[r].do = "approve" =>
       /\ st[request[r].t] = "SPEC_REVIEW"
       /\ request[r].to \in {"IMPLEMENTING", "BLOCKED", "READY", "SPEC_APPROVED"}
       /\ request[r].to = "READY" => \A d \in request[r].D : st[d] = "DONE"
  /\ \A w \in Workers : tick[w].do = "promote" =>
       /\ st[tick[w].t] = "SPEC_APPROVED" /\ tick[w].to \in {"READY", "BLOCKED"}
       /\ tick[w].to = "READY" => \A d \in deps[tick[w].t] : st[d] = "DONE"
  /\ \A w \in Workers : tick[w].do = "claim" => st[tick[w].t] = "READY"

\* What the transactions keep of the rows, and of each other's locks
Locked == TypeOK /\ OpenFit /\ GraphAlone /\ HostAlone /\ RowAlone /\ StillSo

\* The slot that a claim found free is free until it ends.
SlotIsFree ==
  \A w \in Workers : "claim" \in {tick[w].do, starter[w].do} => Cardinality(Taken) < MaxConcurrent

\* The inductive invariant.
SlotInv == Locked /\ ClaimsFit /\ SlotIsFree

\* The search that found no cycle is right until its edges are written.
SearchStands ==
  \A r \in Requests : request[r].do # "rest" /\ request[r].ok => request[r].t \notin Reached(request[r].D)

\* The inductive invariant of the graph.
GraphInv == Locked /\ Acyclic /\ SearchStands
=============================================================================

------------------------ MODULE MCExecutionLifecycle ------------------------
(***************************************************************************)
(* ExecutionLifecycle for TLC: the same actions, with a budget for each    *)
(* thing the environment may do without being asked to, and one for all of *)
(* them together.  A run of budget 0 leaves that action out; the other     *)
(* actions are bounded by the rows.                                        *)
(***************************************************************************)
EXTENDS ExecutionLifecycle, TLC

CONSTANTS Crashes, Freezes, Expiries, Aborts, Refusals, TurnErrors,
          Stales, Cancels, HumanRetries, Findings,
          Together          \* bound on all of these in one behaviour

ASSUME BudgetAssumption ==
  {Crashes, Freezes, Expiries, Aborts, Refusals, TurnErrors,
   Stales, Cancels, HumanRetries, Findings, Together} \subseteq Nat

VARIABLE budget

mcvars == <<vars, budget>>

MCInit ==
  /\ Init
  /\ budget = [crash |-> Crashes, freeze |-> Freezes, expiry |-> Expiries,
               abort |-> Aborts, refusal |-> Refusals, error |-> TurnErrors,
               stale |-> Stales, cancel |-> Cancels, retry |-> HumanRetries,
               findings |-> Findings, any |-> Together]

SpendOf(what, cost) == /\ budget[what] > 0 /\ budget["any"] >= cost
                       /\ budget' = [budget EXCEPT ![what] = @ - 1, !["any"] = @ - cost]
Spend(what) == SpendOf(what, 1)

\* A human's retry and a review with findings start long further work: each
\* counts for two of all the others.
SpendTwo(what) == SpendOf(what, 2)

\* The agents' reviews: each round is reported in turn.
Reviewed(w, verdict) ==
  \E e \in Execs : exec[e].round \in Rounds /\ ReviewResult(w, e, exec[e].round, verdict)

MCAgent(w) ==
  \E e \in Execs :
    \/ PrCreated(w, e) \/ ReportFailed(w, e) \/ RaiseIssue(w, e)
    \/ exec[e].round + 1 \in Rounds /\ ReviewStarted(w, e, exec[e].round + 1)
    \/ ReviewStarted(w, e, 1)

MCSteps ==
  \/ /\ \/ \E w \in Workers : Scheduler(w) \/ Runner(w) \/ MCAgent(w) \/ Commands(w)
             \/ Reviewed(w, "clean")
        \/ \E t \in Tasks : Poller(t)
        \/ Resolve
        \/ \E w \in Workers : Restart(w) \/ Thaw(w)
     /\ UNCHANGED budget
  \/ Spend("crash") /\ \E w \in Workers : Crash(w)
  \/ Spend("freeze") /\ \E w \in Workers : Freeze(w)
  \/ Spend("expiry") /\ \E t \in Tasks : LeaseExpires(t)
  \/ Spend("abort") /\ \E w \in Workers : AbortFault(w)
  \/ Spend("refusal") /\ \E w \in Workers : ResumeFault(w)
  \/ Spend("error") /\ \E w \in Workers : Failures(w)
  \/ SpendTwo("findings") /\ \E w \in Workers : Reviewed(w, "findings")
  \/ Spend("stale") /\ \E w \in Workers : HeartbeatStale(w)
  \/ Spend("cancel") /\ \E t \in Tasks : Cancel(t)
  \/ SpendTwo("retry") /\ \E t \in Tasks : HumanRetry(t)
  \/ \E t \in Tasks : Reopen(t) /\ UNCHANGED budget

\* Rows are numbered in the order they are inserted: an id says nothing else,
\* so this leaves out only renamings.
InOrder == \A e, f \in Execs :
             e < f /\ exec'[f].state # "NONE" => exec'[e].state # "NONE"

MCNext == MCSteps /\ InOrder

MCSpec == MCInit /\ [][MCNext]_mcvars

MCFairSpec == MCSpec /\ Fairness

Symmetry == Permutations(Workers)

\* No worker has died, hung or been taken for dead, and no resume was refused for
\* good (a lost session or branch): what the two promises below leave to a human.
Calm == /\ budget["crash"] = Crashes /\ budget["stale"] = Stales
        /\ budget["freeze"] = Freezes /\ budget["refusal"] = Refusals

\* The task of calm workers is never stuck: an execution works on it or a CI
\* failure is handed to one, and one that is paused has an issue for a human to
\* answer or an answer on its way.
WorkGoesOn == Calm => SomeoneWorks /\ PausedHasWayOut
=============================================================================

----------------------------- MODULE TaskOwnership -----------------------------
(***************************************************************************)
(* What the executions promise a task: it is worked on by one execution at *)
(* a time.  An execution comes to own the task when nothing else is        *)
(* engaged with it, either as new work or as the retry that its            *)
(* predecessor left in the step it failed; what has failed or was          *)
(* cancelled never comes back; and what was completed comes back only      *)
(* when CI sent it back.  An execution that CI sent back is the one        *)
(* exception: it returns whatever else is engaged.                         *)
(*                                                                         *)
(* Workers, leases, commands, tokens and crashes do not appear here:       *)
(* ExecutionLifecycle is the program that is shown to keep the promise     *)
(* with them.                                                              *)
(***************************************************************************)
CONSTANTS Tasks,     \* tasks
          Execs,     \* executions
          NoTask,    \* the task of an execution that does not exist yet
          NoExec     \* what a first attempt is a retry of

VARIABLES stage,     \* "unused", "waiting" to start, "owning" its task, "resting"
                     \* completed, or "over"
          taskOf,    \* the task of an execution
          retryOf,   \* the execution it is a retry of
          sentBack   \* the executions that CI has sent back

ownershipVars == <<stage, taskOf, retryOf, sentBack>>

Engaged(t) == {e \in Execs : taskOf[e] = t /\ stage[e] \in {"waiting", "owning"}}

Unowned ==
  /\ stage = [e \in Execs |-> "unused"]
  /\ taskOf = [e \in Execs |-> NoTask]
  /\ retryOf = [e \in Execs |-> NoExec]
  /\ sentBack = {}

\* New work: the task has nobody.
Takes(e, t) ==
  /\ stage[e] = "unused" /\ Engaged(t) = {}
  /\ stage' = [stage EXCEPT ![e] = "owning"]
  /\ taskOf' = [taskOf EXCEPT ![e] = t]
  /\ UNCHANGED <<retryOf, sentBack>>

\* A retry starts when nothing but it is engaged.
Starts(e) ==
  /\ stage[e] = "waiting" /\ Engaged(taskOf[e]) = {e}
  /\ stage' = [stage EXCEPT ![e] = "owning"]
  /\ UNCHANGED <<taskOf, retryOf, sentBack>>

\* An owner fails for good, or leaves its retry.
Fails(e) ==
  /\ stage[e] = "owning"
  /\ stage' = [stage EXCEPT ![e] = "over"]
  /\ UNCHANGED <<taskOf, retryOf, sentBack>>

IsRetried(e, f) ==
  /\ stage[e] = "owning" /\ stage[f] = "unused"
  /\ stage' = [stage EXCEPT ![e] = "over", ![f] = "waiting"]
  /\ taskOf' = [taskOf EXCEPT ![f] = taskOf[e]]
  /\ retryOf' = [retryOf EXCEPT ![f] = e]
  /\ UNCHANGED sentBack

Completes(e) ==
  /\ stage[e] = "owning"
  /\ stage' = [stage EXCEPT ![e] = "resting"]
  /\ UNCHANGED <<taskOf, retryOf, sentBack>>

\* CI fails the completed work, and some time later its execution resumes.
IsSentBack(e) ==
  /\ stage[e] = "resting"
  /\ sentBack' = sentBack \cup {e}
  /\ UNCHANGED <<stage, taskOf, retryOf>>

Returns(e) ==
  /\ stage[e] = "resting" /\ e \in sentBack
  /\ stage' = [stage EXCEPT ![e] = "owning"]
  /\ UNCHANGED <<taskOf, retryOf, sentBack>>

\* A cancel ends all that is engaged with the task.
IsCancelled(t) ==
  /\ stage' = [e \in Execs |-> IF e \in Engaged(t) THEN "over" ELSE stage[e]]
  /\ UNCHANGED <<taskOf, retryOf, sentBack>>

HandOver ==
  \/ \E e \in Execs :
       \/ Starts(e) \/ Fails(e) \/ Completes(e) \/ IsSentBack(e) \/ Returns(e)
       \/ \E t \in Tasks : Takes(e, t)
       \/ \E f \in Execs : IsRetried(e, f)
  \/ \E t \in Tasks : IsCancelled(t)

OwnershipSpec == Unowned /\ [][HandOver]_ownershipVars
=============================================================================

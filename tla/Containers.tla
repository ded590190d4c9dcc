------------------------------ MODULE Containers ------------------------------
(***************************************************************************)
(* The agent containers of one worker host: the runs that ensure them, the *)
(* finalizer, the orphan pass and the watch that remove them, and the      *)
(* worktrees they mount.                                                   *)
(*                                                                         *)
(* The phases of a tick run one after the other, so one pass at a time is  *)
(* in progress.  The docker calls of one critical section are one step     *)
(* when the section decides nothing between them; a pass that decides      *)
(* first and removes then holds the container lock in between.  Each       *)
(* directory made at a worktree's path has a number of its own: a bind     *)
(* mount is of the directory, not of the path.  Locks, marks and candidates *)
(* are per execution, so one execution of either role shows what they do.  *)
(***************************************************************************)
EXTENDS Naturals, FiniteSets

CONSTANTS Execs,      \* executions in container mode
          MaxTrees,   \* bound on the directories made at one worktree path
          MaxEnsures, \* bound on the ensures of one worker process
          MaxCrashes  \* bound on the crashes of the worker

ASSUME ContainerAssumption ==
  /\ IsFiniteSet(Execs)
  /\ MaxTrees \in Nat \ {0} /\ MaxEnsures \in Nat \ {0} /\ MaxCrashes \in Nat

EndedStates == {"COMPLETED", "FAILED"}              \* FAILED stands for CANCELLED too
UsingStates == {"ASSIGNED", "RUNNING"}              \* CONTAINER_LIVE_STATES

NoBox == [up |-> FALSE, is |-> FALSE, tree |-> 0]
Rest  == [pc |-> "rest", of |-> "none", kind |-> "none", mark |-> 0]

VARIABLES roles,     \* executions.role, which never changes
          state,     \* executions.state
          path,      \* what the row says of the worktree: none, kept, evicted
          tree,      \* the directory at the worktree's path, 0 when there is none
          trees,     \* directories made there so far
          box,       \* the container on the daemon: whether it is, is up, and its mount
          run,       \* the runner's live map: how far each run is
          mark,      \* ensureMark
          ensures,   \* sequence, the source of marks
          held,      \* executions whose container lock a pass holds
          watched,   \* specContainers
          adopted,   \* the first pass of the watch is done
          pass,      \* the candidate of the pass in progress
          broken,    \* history: a removal of it failed in this process
          crashes    \* bound: crashes so far

row    == <<roles, state, path>>
disk   == <<tree, trees>>
memory == <<run, mark, ensures, held, watched, adopted, pass, broken, crashes>>
boxesVars == <<row, disk, box, memory>>

IsSpec(e) == roles[e] = "spec"
Alive(e) == run[e] # "none"
HasEnded(e) == state[e] \in EndedStates

Phase(e, p) == run' = [run EXCEPT ![e] = p]
Move(e, s)  == state' = [state EXCEPT ![e] = s]

-----------------------------------------------------------------------------
(* The run                                                                 *)

MakeTree_Unrecorded(e) ==
  /\ trees[e] < MaxTrees /\ trees' = [trees EXCEPT ![e] = @ + 1]
  /\ tree' = [tree EXCEPT ![e] = trees'[e]]
  /\ path' = [path EXCEPT ![e] = IF @ = "none" THEN "kept" ELSE @]

\* prepareImplementation, prepareSpec, restoreEvictedWorktree
MakeTree(e) ==
  /\ trees[e] < MaxTrees /\ trees' = [trees EXCEPT ![e] = @ + 1]
  /\ tree' = [tree EXCEPT ![e] = trees'[e]]
  /\ path' = [path EXCEPT ![e] = "kept"]

Prepare(e) ==
  /\ run[e] = "claimed" /\ MakeTree(e) /\ Phase(e, "ensure")
  /\ UNCHANGED <<roles, state, box, mark, ensures, held, watched, adopted, pass, broken, crashes>>

\* resume: the state is read, the worktree recreated when it was evicted, and
\* the row moved to RUNNING if it still is in that state.
MayResume(e) == state[e] \in {"WAITING_FOR_USER", "COMPLETED"}
                  \/ (IsSpec(e) /\ state[e] = "RUNNING")

Load(e) ==
  /\ ~Alive(e) /\ MayResume(e) /\ path[e] # "none" /\ Phase(e, "loaded")
  /\ ensures < MaxEnsures /\ (path[e] = "evicted" => trees[e] < MaxTrees)   \* bounds
  /\ UNCHANGED <<row, disk, box, mark, ensures, held, watched, adopted, pass, broken, crashes>>

Restore(e) ==
  /\ run[e] = "loaded" /\ path[e] = "evicted" /\ MakeTree(e)
  /\ UNCHANGED <<roles, state, box, memory>>

Resume(e) ==
  /\ run[e] = "loaded"
  /\ IF MayResume(e) /\ path[e] = "kept"
       THEN Move(e, "RUNNING") /\ Phase(e, "ensure")
       ELSE Phase(e, "none") /\ UNCHANGED state
  /\ UNCHANGED <<roles, path, disk, box, mark, ensures, held, watched, adopted, pass, broken, crashes>>

\* prepareContainer: ensure() under the container lock.  A container that is up
\* is used as it is, any other is removed and created again.
NewBox(e) == [is |-> TRUE, up |-> TRUE, tree |-> tree[e]]

Ensured(e) ==
  /\ ensures < MaxEnsures /\ ensures' = ensures + 1
  /\ mark' = [mark EXCEPT ![e] = ensures']
  /\ broken' = broken \ {e}

Ensure_NoLock(e) ==
  /\ run[e] = "ensure" /\ Ensured(e)
  /\ box' = [box EXCEPT ![e] = IF @.up THEN @ ELSE NewBox(e)]
  /\ watched' = IF IsSpec(e) THEN watched \cup {e} ELSE watched
  /\ Phase(e, IF state[e] \in UsingStates THEN "session" ELSE "over")
  /\ state' = [state EXCEPT ![e] = IF @ = "ASSIGNED" THEN "RUNNING" ELSE @]
  /\ UNCHANGED <<roles, path, disk, held, adopted, pass, crashes>>

Ensure(e) ==
  /\ e \notin held
  /\ run[e] = "ensure" /\ Ensured(e)
  /\ box' = [box EXCEPT ![e] = IF @.up THEN @ ELSE NewBox(e)]
  /\ watched' = IF IsSpec(e) THEN watched \cup {e} ELSE watched
  /\ Phase(e, IF state[e] \in UsingStates THEN "session" ELSE "over")
  /\ state' = [state EXCEPT ![e] = IF @ = "ASSIGNED" THEN "RUNNING" ELSE @]
  /\ UNCHANGED <<roles, path, disk, held, adopted, pass, crashes>>

\* A docker call of it failed: nothing was created, what was is not up, or the
\* credential file could not be written into it.
EnsureFails(e) ==
  /\ e \notin held /\ run[e] = "ensure" /\ Ensured(e)
  /\ box' \in {[box EXCEPT ![e] = b] :
                 b \in IF box[e].up THEN {box[e]}
                       ELSE {box[e], NoBox, NewBox(e), [NewBox(e) EXCEPT !.up = FALSE]}}
  /\ Phase(e, "undo")
  /\ UNCHANGED <<row, disk, held, watched, adopted, pass, crashes>>

Fail(e) == state' = [state EXCEPT ![e] = IF @ \in UsingStates THEN "FAILED" ELSE @]

\* manager.remove: the mark goes, whether docker fails or not
Removed(e, gone) ==
  /\ mark' = [mark EXCEPT ![e] = 0]
  /\ box' = IF gone THEN [box EXCEPT ![e] = NoBox] ELSE box
  /\ broken' = IF gone THEN broken ELSE broken \cup {e}

Undo(e) ==
  /\ e \notin held /\ run[e] = "undo"
  /\ \E gone \in BOOLEAN : Removed(e, gone)
  /\ Fail(e) /\ Phase(e, "over")
  /\ UNCHANGED <<roles, path, disk, ensures, held, watched, adopted, pass, crashes>>

\* setup_command in the container failed, or the agent's turn broke off.
Breaks(e) ==
  /\ run[e] = "session" /\ Fail(e) /\ Phase(e, "over")
  /\ UNCHANGED <<roles, path, disk, box, mark, ensures, held, watched, adopted, pass, broken, crashes>>

\* report_pr_created: the implementation is complete while its turn goes on.
AgentCompletes(e) ==
  /\ run[e] = "session" /\ state[e] = "RUNNING" /\ ~IsSpec(e) /\ Move(e, "COMPLETED")
  /\ UNCHANGED <<roles, path, disk, box, memory>>

\* A turn that raised a blocking issue ends, and the execution waits.
TurnPauses(e) ==
  /\ run[e] = "session" /\ state[e] = "RUNNING" /\ Move(e, "WAITING_FOR_USER")
  /\ Phase(e, "over")
  /\ UNCHANGED <<roles, path, disk, box, mark, ensures, held, watched, adopted, pass, broken, crashes>>

\* Any other turn; a spec session stays RUNNING for the next one.
TurnIsOver(e) ==
  /\ run[e] = "session" /\ (state[e] # "RUNNING" \/ IsSpec(e)) /\ Phase(e, "over")
  /\ UNCHANGED <<row, disk, box, mark, ensures, held, watched, adopted, pass, broken, crashes>>

\* finalize with removeEndedContainer: the state is read, then the container
\* removed while the run is still in the live map.
Finalize(e) ==
  /\ run[e] = "over" /\ Phase(e, IF HasEnded(e) THEN "remove" ELSE "none")
  /\ UNCHANGED <<row, disk, box, mark, ensures, held, watched, adopted, pass, broken, crashes>>

RemoveEnded(e) ==
  /\ run[e] = "remove" /\ e \notin held
  /\ \E gone \in BOOLEAN :
       /\ Removed(e, gone)
       /\ watched' = IF gone THEN watched \ {e} ELSE watched
  /\ Phase(e, "none")
  /\ UNCHANGED <<row, disk, ensures, held, adopted, pass, crashes>>

\* releaseContainer: a cancel command finds no live run of its execution here
ReleaseCancelled(e) ==
  /\ pass = Rest /\ ~Alive(e) /\ state[e] = "FAILED"
  /\ \E gone \in BOOLEAN :
       /\ Removed(e, gone)
       /\ watched' = IF gone THEN watched \ {e} ELSE watched
  /\ UNCHANGED <<row, disk, run, ensures, held, adopted, pass, crashes>>

Runner ==
  \E e \in Execs :
    \/ Prepare(e) \/ Load(e) \/ Restore(e) \/ Resume(e) \/ Ensure(e) \/ EnsureFails(e)
    \/ Undo(e) \/ Breaks(e) \/ AgentCompletes(e) \/ TurnPauses(e) \/ TurnIsOver(e)
    \/ Finalize(e) \/ RemoveEnded(e) \/ ReleaseCancelled(e)

-----------------------------------------------------------------------------
(* What others do                                                          *)

\* The user cancels, or ends the spec session with request-review.
Ends(e) ==
  /\ ~HasEnded(e)
  /\ \/ Move(e, "FAILED")
     \/ IsSpec(e) /\ state[e] = "RUNNING" /\ Move(e, "COMPLETED")
  /\ UNCHANGED <<roles, path, disk, box, memory>>

LeaseExpires(e) ==
  /\ ~Alive(e) /\ ~IsSpec(e) /\ state[e] \in UsingStates /\ Move(e, "FAILED")
  /\ UNCHANGED <<roles, path, disk, box, memory>>

\* The daemon restarts, or the container is stopped by hand: a turn in it ends.
BoxStops(e) ==
  /\ box[e].up /\ box' = [box EXCEPT ![e].up = FALSE]
  /\ IF run[e] = "session" THEN Fail(e) /\ Phase(e, "over") ELSE UNCHANGED <<state, run>>
  /\ UNCHANGED <<roles, path, disk, mark, ensures, held, watched, adopted, pass, broken, crashes>>

\* The worker process crashes: its agents die and the containers idle on.
Crash ==
  /\ crashes < MaxCrashes /\ crashes' = crashes + 1
  /\ run' = [e \in Execs |-> "none"] /\ held' = {} /\ pass' = Rest
  /\ mark' = [e \in Execs |-> 0] /\ ensures' = 0
  /\ watched' = {} /\ adopted' = FALSE /\ broken' = {}
  /\ UNCHANGED <<row, disk, box>>

Outside == Crash \/ \E e \in Execs : Ends(e) \/ LeaseExpires(e) \/ BoxStops(e)

-----------------------------------------------------------------------------
(* The passes                                                              *)

Take(e, kind, pc) == pass' = [pc |-> pc, of |-> e, kind |-> kind, mark |-> mark[e]]

\* sweepWorktrees lists a worktree and reads the mark.
ListTree(e) ==
  /\ pass = Rest /\ path[e] = "kept" /\ state[e] \notin UsingStates
  /\ Take(e, "worktree", "remove")
  /\ UNCHANGED <<row, disk, box, run, mark, ensures, held, watched, adopted, broken, crashes>>

\* Under the row locks: a waiting execution's worktree is evicted, an ended one's
\* removed, or evicted while a person has its task (a COMPLETED one may yet be
\* resumed); or the rule no longer holds, or git failed.
SweepTree ==
  /\ pass.pc = "remove"
  /\ LET e == pass.of
     IN  \/ /\ path[e] = "kept" /\ state[e] \notin UsingStates
            /\ \E p \in IF HasEnded(e) THEN {"none", "evicted"} ELSE {"evicted"} :
                 path' = [path EXCEPT ![e] = p]
            /\ tree' = [tree EXCEPT ![e] = 0]
            /\ pass' = [pass EXCEPT !.pc = "guard"]
         \/ pass' = Rest /\ UNCHANGED <<path, tree>>
  /\ UNCHANGED <<roles, state, trees, box, run, mark, ensures, held, watched, adopted, broken, crashes>>

\* lockContainerExecution: the row of a container on the daemon
Orphaned(e) == box[e].is /\ HasEnded(e)

\* sweepOrphanContainers, one container, the row checked under its locks
ListOrphan(e) ==
  /\ pass = Rest /\ Orphaned(e) /\ Take(e, "orphan", "guard")
  /\ UNCHANGED <<row, disk, box, run, mark, ensures, held, watched, adopted, broken, crashes>>

\* The containers of this deployment, whoever created them
Listed == {e \in Execs : box[e].is}

\* releaseEndedSpecContainers, one container; its first pass adopts
Adopt_Live ==
  /\ pass = Rest /\ ~adopted /\ adopted' = TRUE
  /\ watched' = watched \cup {e \in Listed : IsSpec(e) /\ ~HasEnded(e)}
  /\ UNCHANGED <<row, disk, box, run, mark, ensures, held, pass, broken, crashes>>

Adopt ==
  /\ pass = Rest /\ ~adopted /\ adopted' = TRUE
  /\ watched' = watched \cup {e \in Listed : IsSpec(e)}
  /\ UNCHANGED <<row, disk, box, run, mark, ensures, held, pass, broken, crashes>>

ListWatched(e) ==
  /\ pass = Rest /\ adopted /\ e \in watched /\ ~Alive(e) /\ HasEnded(e)
  /\ Take(e, "watched", "guard")
  /\ UNCHANGED <<row, disk, box, run, mark, ensures, held, watched, adopted, broken, crashes>>

\* removeContainerGuarded, removeIf: asked under the container lock
Removable_NeverEnsured(e) ==
  /\ ~Alive(e) /\ mark[e] = 0
  /\ IF pass.kind = "worktree" THEN state[e] \notin UsingStates ELSE HasEnded(e)

Removable(e) ==
  /\ ~Alive(e) /\ mark[e] = pass.mark
  /\ IF pass.kind = "worktree" THEN state[e] \notin UsingStates ELSE HasEnded(e)

Guard ==
  /\ pass.pc = "guard"
  /\ IF Removable(pass.of)
       THEN /\ pass' = [pass EXCEPT !.pc = "docker"] /\ held' = held \cup {pass.of}
            /\ watched' = IF pass.kind = "watched" THEN watched \ {pass.of} ELSE watched
       ELSE pass' = Rest /\ UNCHANGED <<held, watched>>
  /\ UNCHANGED <<row, disk, box, run, mark, ensures, adopted, broken, crashes>>

Release == held' = held \ {pass.of} /\ pass' = Rest

RemoveBox ==
  /\ pass.pc = "docker" /\ Removed(pass.of, TRUE) /\ Release
  /\ UNCHANGED <<row, disk, run, ensures, watched, adopted, crashes>>

\* Docker failed: the sweeper keeps the mark, removeIf forgets it.
RemoveBoxFails ==
  /\ pass.pc = "docker" /\ Release /\ broken' = broken \cup {pass.of}
  /\ mark' = IF pass.kind = "watched" THEN [mark EXCEPT ![pass.of] = 0] ELSE mark
  /\ UNCHANGED <<row, disk, box, run, ensures, watched, adopted, crashes>>

Passes ==
  \/ SweepTree \/ Adopt \/ Guard \/ RemoveBox \/ RemoveBoxFails
  \/ \E e \in Execs : ListTree(e) \/ ListOrphan(e) \/ ListWatched(e)

-----------------------------------------------------------------------------
BoxesInit ==
  /\ roles \in [Execs -> {"spec", "implementation"}]
  /\ state = [e \in Execs |-> "ASSIGNED"] /\ path = [e \in Execs |-> "none"]
  /\ tree = [e \in Execs |-> 0] /\ trees = [e \in Execs |-> 0]
  /\ box = [e \in Execs |-> NoBox] /\ run = [e \in Execs |-> "claimed"]
  /\ mark = [e \in Execs |-> 0] /\ ensures = 0 /\ held = {}
  /\ watched = {} /\ adopted = FALSE /\ pass = Rest /\ broken = {} /\ crashes = 0

BoxesNext == Runner \/ Outside \/ Passes

BoxesSpec == BoxesInit /\ [][BoxesNext]_boxesVars

\* The passes run on every tick and go through what they list; neither docker nor
\* the recreation of a worktree fails for ever, nor does the process crash on
\* every pass.
BoxesFairness ==
  /\ SF_boxesVars(RemoveBox) /\ WF_boxesVars(Guard) /\ WF_boxesVars(SweepTree)
  /\ \A e \in Execs :
       /\ SF_boxesVars(ListOrphan(e)) /\ SF_boxesVars(Restore(e)) /\ WF_boxesVars(Resume(e)) /\ WF_boxesVars(Ensure(e) \/ EnsureFails(e))
       /\ WF_boxesVars(Undo(e) \/ Finalize(e) \/ RemoveEnded(e)) /\ WF_boxesVars(TurnIsOver(e))

FairBoxesSpec == BoxesSpec /\ BoxesFairness

-----------------------------------------------------------------------------
(* Properties                                                              *)

BoxesTypeOK ==
  /\ roles \in [Execs -> {"spec", "implementation"}] /\ \A e \in watched : IsSpec(e)
  /\ state \in [Execs -> UsingStates \cup EndedStates \cup {"WAITING_FOR_USER"}]
  /\ path \in [Execs -> {"none", "kept", "evicted"}]
  /\ tree \in [Execs -> 0 .. MaxTrees] /\ trees \in [Execs -> 0 .. MaxTrees]
  /\ box \in [Execs -> [is : BOOLEAN, up : BOOLEAN, tree : 0 .. MaxTrees]]
  /\ run \in [Execs -> {"none", "claimed", "loaded", "ensure", "undo", "session", "over", "remove"}]
  /\ mark \in [Execs -> 0 .. MaxEnsures] /\ ensures \in 0 .. MaxEnsures
  /\ {held, watched, broken} \subseteq SUBSET Execs
  /\ adopted \in BOOLEAN /\ pass.of \in Execs \cup {"none"}
  /\ \A e \in Execs : /\ box[e].up => box[e].is
                      /\ (path[e] = "kept") <=> (tree[e] # 0)
                      /\ e \in held <=> (pass.pc = "docker" /\ pass.of = e)

\* The turn of a RUNNING execution has its container up: a removal decided
\* before the resume leaves it, and one under way is over before ensure() looks
\* (guard.ts).
HasItsBox ==
  \A e \in Execs : run[e] = "session" /\ state[e] = "RUNNING" => box[e].up

\* GOT.99: once the watch has adopted, a spec execution that ended with its
\* container left, and with no run to remove it, is watched, also after a
\* restart, unless a removal of it failed (the orphan pass's then).
WatchKnows ==
  adopted => \A e \in Execs :
    (IsSpec(e) /\ box[e].is /\ HasEnded(e) /\ ~Alive(e) /\ e \notin broken /\ pass.of # e) => e \in watched

\* Containers and memory fit each other: a turn has its container, and what is
\* to be removed is known.
BoxesFit == BoxesTypeOK /\ HasItsBox /\ WatchKnows

\* 9.9, Removal: the container of an execution that ended is gone some time
\* later, or the execution was resumed.
EndedGoes ==
  \A e \in Execs : (box[e].is /\ HasEnded(e)) ~> (~box[e].is \/ ~HasEnded(e))

\* 9.9, Removal: "It is removed when the execution ends, or when its worktree is
\* evicted": a turn works in the worktree that is on disk, not in one that was
\* evicted before it was recreated.
MountIsCurrent ==
  \A e \in Execs : run[e] = "session" /\ state[e] = "RUNNING" => box[e].tree = tree[e]

-----------------------------------------------------------------------------
(* Why they fit                                                            *)

\* The pass in progress has a candidate from its first step on.
PassFits ==
  /\ pass \in [pc : {"rest", "remove", "guard", "docker"}, of : Execs \cup {"none"},
              kind : {"none", "worktree", "orphan", "watched"}, mark : 0 .. MaxEnsures]
  /\ pass.pc # "rest" => pass.of \in Execs

\* removeIf asks under the lock that no run is alive, and ensure() waits for the
\* lock: while a removal is under way the run has not come to its container.
RemovalIsAlone == \A e \in held : run[e] \in {"none", "loaded", "ensure"}

\* Every spec container is watched, whatever its execution does: but for one
\* whose removal is due in the run or under way in a pass, or failed.
WatchedOrDue ==
  adopted => \A e \in Execs :
    (IsSpec(e) /\ box[e].is /\ e \notin broken /\ e \notin held /\ run[e] # "undo") => e \in watched

\* The inductive invariant; BoxesFit follows from it.
BoxInv == BoxesTypeOK /\ HasItsBox /\ PassFits /\ RemovalIsAlone /\ WatchedOrDue
=============================================================================

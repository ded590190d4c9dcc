--------------------------- MODULE Scheduling_proofs ---------------------------
(***************************************************************************)
(* Theorems of Scheduling, for any tasks, requests, workers and slots.     *)
(***************************************************************************)
EXTENDS Scheduling, FiniteSetTheorems, WellFoundedInduction, TLAPS

USE SchedulingAssumption DEF rows, workers, States, TypeOK, OpenFit, GraphAlone, HostAlone, RowAlone, StillSo

(* The dependency graph                                                    *)

LEMMA PatchBeginsKeeps == ASSUME NEW r \in Requests, NEW t \in Tasks, NEW D \in SUBSET Tasks, Locked, PatchBegins(r, t, D) PROVE Locked'
BY DEF Locked, PatchBegins, GraphFree

LEMMA PatchEndsKeeps == ASSUME NEW r \in Requests, Locked, PatchEnds(r) PROVE Locked'
BY DEF Locked, PatchEnds, Idle

LEMMA ApproveBeginsKeeps == ASSUME NEW r \in Requests, NEW t \in Tasks, NEW D \in SUBSET Tasks, Locked, ApproveBegins(r, t, D) PROVE Locked'
BY DEF Locked, ApproveBegins, GraphFree, RowFree, AtApproval, Decide

LEMMA ApproveEndsKeeps == ASSUME NEW r \in Requests, Locked, ApproveEnds(r) PROVE Locked'
BY DEF Locked, ApproveEnds, Idle, Goto

LEMMA PromoteBeginsKeeps == ASSUME NEW w \in Workers, NEW t \in Tasks, Locked, PromoteBegins(w, t) PROVE Locked'
BY DEF Locked, PromoteBegins, GraphFree, RowFree, Decide

LEMMA PromoteEndsKeeps == ASSUME NEW w \in Workers, Locked, PromoteEnds(w) PROVE Locked'
BY DEF Locked, PromoteEnds, Idle, Goto

-----------------------------------------------------------------------------
(* Slots                                                                   *)

LEMMA ClaimBeginsKeeps == ASSUME NEW w \in Workers, NEW t \in Tasks, Locked, ClaimBegins(w, t) PROVE Locked'
BY DEF Locked, ClaimBegins, HostFree, Claimable, RowFree

LEMMA ClaimEndsKeeps == ASSUME NEW w \in Workers, Locked, ClaimEnds(w) PROVE Locked'
BY DEF Locked, ClaimEnds, Take, Idle, Goto

LEMMA RetryBeginsKeeps == ASSUME NEW w \in Workers, NEW t \in Tasks, Locked, RetryBegins(w, t) PROVE Locked'
BY DEF Locked, RetryBegins, HostFree, Retryable, RowFree

LEMMA RetryEndsKeeps == ASSUME NEW w \in Workers, Locked, RetryEnds(w) PROVE Locked'
BY DEF Locked, RetryEnds, TakeRetry, Take, Idle

LEMMA ResumeKeeps == ASSUME NEW t \in Tasks, Locked, Resume(t) PROVE Locked'
BY DEF Locked, Resume, RowFree

LEMMA TurnStartsKeeps == ASSUME NEW w \in Workers, Locked, TurnStarts(w) PROVE Locked'
BY DEF Locked, TurnStarts, Quiet

LEMMA TurnEndsKeeps == ASSUME Locked, TurnEnds PROVE Locked'
BY DEF Locked, TurnEnds, Quiet

LEMMA CrashKeeps == ASSUME NEW w \in Workers, Locked, Crash(w) PROVE Locked'
<1>1. TypeOK'
  BY DEF Locked, Crash, Idle, Quiet
<1>2. OpenFit'
  BY DEF Locked, Crash, Idle, Quiet
<1>3. GraphAlone'
  BY DEF Locked, Crash, Idle, Quiet
<1>4. HostAlone'
  BY DEF Locked, Crash, Idle, Quiet
<1>5. RowAlone'
  BY DEF Locked, Crash, Idle, Quiet
<1>6. StillSo'
  BY DEF Locked, Crash, Idle, Quiet
<1> QED
  BY <1>1, <1>2, <1>3, <1>4, <1>5, <1>6, Zenon DEF Locked

LEMMA StartsKeeps == ASSUME NEW w \in Workers, Locked, Starts(w) PROVE Locked'
BY DEF Locked, Starts, Quiet

-----------------------------------------------------------------------------
(* Executions and users                                                    *)

LEMMA PausesKeeps == ASSUME NEW t \in Tasks, Locked, Pauses(t) PROVE Locked'
BY DEF Locked, Pauses, Runs, RowFree

LEMMA RespecifiedKeeps == ASSUME NEW t \in Tasks, Locked, Respecified(t) PROVE Locked'
BY DEF Locked, Respecified, RowFree, Goto

LEMMA ReportsKeeps == ASSUME NEW t \in Tasks, Locked, Reports(t) PROVE Locked'
BY DEF Locked, Reports, Runs, RowFree, Goto

LEMMA PullRequestMovesKeeps == ASSUME NEW t \in Tasks, Locked, PullRequestMoves(t) PROVE Locked'
BY DEF Locked, PullRequestMoves, RowFree, Goto

LEMMA FailsKeeps == ASSUME NEW t \in Tasks, Locked, Fails(t) PROVE Locked'
BY DEF Locked, Fails, Runs, RowFree, Goto

LEMMA CancelKeeps == ASSUME NEW t \in Tasks, Locked, Cancel(t) PROVE Locked'
BY DEF Locked, Cancel, RowFree, Goto

LEMMA ReopenKeeps == ASSUME NEW t \in Tasks, Locked, Reopen(t) PROVE Locked'
BY DEF Locked, Reopen, RowFree, Goto

LEMMA HumanRetryKeeps == ASSUME NEW t \in Tasks, Locked, HumanRetry(t) PROVE Locked'
BY DEF Locked, HumanRetry, RowFree, Goto

LEMMA LockedInit == Init => Locked
<1> SUFFICES ASSUME Init PROVE Locked
  OBVIOUS
<1>1. 0 \in 0 .. MaxUserMoves /\ 0 \in 0 .. MaxCrashes
  OBVIOUS
<1> QED
  BY <1>1 DEF Locked, Init, Idle, Quiet

LEMMA LockedStutters == ASSUME Locked, UNCHANGED vars PROVE Locked'
BY DEF Locked, vars

LEMMA LockedNext == ASSUME Locked, [Next]_vars PROVE Locked'
<1>1. CASE Graph
  BY <1>1, PatchBeginsKeeps, PatchEndsKeeps, ApproveBeginsKeeps, ApproveEndsKeeps, PromoteBeginsKeeps,
     PromoteEndsKeeps, Zenon DEF Graph
<1>2. CASE Slots
  BY <1>2, ClaimBeginsKeeps, ClaimEndsKeeps, RetryBeginsKeeps, RetryEndsKeeps, ResumeKeeps, TurnStartsKeeps,
     TurnEndsKeeps, CrashKeeps, StartsKeeps, Zenon DEF Slots
<1>3. CASE Users
  BY <1>3, PausesKeeps, RespecifiedKeeps, ReportsKeeps, PullRequestMovesKeeps, FailsKeeps, CancelKeeps,
     ReopenKeeps, HumanRetryKeeps, Zenon DEF Users
<1> QED
  BY <1>1, <1>2, <1>3, LockedStutters, Zenon DEF Next

-----------------------------------------------------------------------------
(* Counting the slots                                                      *)

\* A claim of w is open.
Opens(w) == "claim" \in {tick[w].do, starter[w].do}

LEMMA TakenIsFinite == ASSUME Locked PROVE IsFiniteSet(Taken) /\ Cardinality(Taken) \in Nat
<1>1. Taken \in SUBSET Tasks
  BY DEF Taken, Locked
<1>2. IsFiniteSet(Taken)
  BY <1>1, FS_Subset
<1> QED
  BY <1>2, FS_CardinalityType

\* A claim found a slot: what took one is some of what is busy.
LEMMA ClaimFoundRoom == ASSUME Locked, Busy < MaxConcurrent PROVE Cardinality(Taken) < MaxConcurrent
<1> DEFINE H == {t \in Tasks : ex[t] = "held"}
<1>1. H \in SUBSET Tasks /\ Taken \in SUBSET H
  BY DEF Taken, Locked
<1>2. IsFiniteSet(H)
  BY <1>1, FS_Subset
<1>3. Cardinality(H) \in Nat /\ Cardinality(Taken) \in Nat /\ Cardinality(Taken) <= Cardinality(H)
  BY <1>1, <1>2, FS_Subset, FS_CardinalityType
<1>4. Cardinality(H) + (IF turn.is \in {"live", "left"} THEN 1 ELSE 0) < MaxConcurrent
  BY DEF Busy
<1> HIDE DEF H
<1> QED
  BY <1>3, <1>4

\* Only the end of a claim adds to what is taken.
LEMMA TakenShrinks ==
  ASSUME Locked, Taken' \subseteq Taken PROVE Cardinality(Taken)' <= Cardinality(Taken) /\ Cardinality(Taken)' \in Nat
<1>1. IsFiniteSet(Taken) /\ Cardinality(Taken) \in Nat
  BY TakenIsFinite
<1>2. Taken' \in SUBSET Taken
  OBVIOUS
<1> QED
  BY <1>1, <1>2, FS_Subset, FS_CardinalityType

LEMMA TakenGrows ==
  ASSUME Locked, NEW t, Taken' \subseteq Taken \cup {t}
  PROVE  Cardinality(Taken)' <= Cardinality(Taken) + 1 /\ Cardinality(Taken)' \in Nat
<1>1. IsFiniteSet(Taken) /\ Cardinality(Taken) \in Nat
  BY TakenIsFinite
<1>4. /\ IsFiniteSet(Taken \cup {t})
      /\ Cardinality(Taken \cup {t}) = IF t \in Taken THEN Cardinality(Taken) ELSE Cardinality(Taken) + 1
  BY <1>1, FS_AddElement
<1>2. /\ IsFiniteSet(Taken \cup {t})
      /\ Cardinality(Taken \cup {t}) \in Nat
      /\ Cardinality(Taken \cup {t}) <= Cardinality(Taken) + 1
  BY <1>1, <1>4
<1>3. Taken' \in SUBSET (Taken \cup {t})
  OBVIOUS
<1> QED
  BY <1>1, <1>2, <1>3, FS_Subset, FS_CardinalityType

Counted == ClaimsFit /\ SlotIsFree

LEMMA CountedIs == Counted <=> /\ Cardinality(Taken) <= MaxConcurrent
                               /\ \A w \in Workers : Opens(w) => Cardinality(Taken) < MaxConcurrent
BY DEF Counted, ClaimsFit, SlotIsFree, Opens

LEMMA CountedIsNext == Counted' <=> /\ Cardinality(Taken)' <= MaxConcurrent
                                    /\ \A w \in Workers : Opens(w)' => Cardinality(Taken)' < MaxConcurrent
BY DEF Counted, ClaimsFit, SlotIsFree, Opens

\* A step that takes no slot and opens no claim
LEMMA Quietly ==
  ASSUME Locked, Counted, Taken' \subseteq Taken, \A w \in Workers : Opens(w)' => Opens(w)
  PROVE  Counted'
<1>1. Cardinality(Taken) \in Nat /\ Cardinality(Taken)' \in Nat /\ Cardinality(Taken)' <= Cardinality(Taken)
  BY TakenIsFinite, TakenShrinks
<1> QED
  BY <1>1, CountedIs, CountedIsNext

LEMMA Begins == ASSUME Locked, Counted, Busy < MaxConcurrent, Taken' = Taken PROVE Counted'
<1>1. Cardinality(Taken) \in Nat /\ Cardinality(Taken) < MaxConcurrent
  BY TakenIsFinite, ClaimFoundRoom
<1> QED
  BY <1>1, CountedIs, CountedIsNext

LEMMA Ends ==
  ASSUME Locked, Counted, NEW w \in Workers, NEW t, Opens(w), Taken' \subseteq Taken \cup {t},
         \A v \in Workers : ~Opens(v)'
  PROVE  Counted'
<1>1. Cardinality(Taken) \in Nat /\ Cardinality(Taken)' \in Nat /\ Cardinality(Taken)' <= Cardinality(Taken) + 1
  BY TakenIsFinite, TakenGrows
<1> QED
  BY <1>1, CountedIs, CountedIsNext

LEMMA GraphCounts == ASSUME Locked, Counted, Graph PROVE Counted'
<1>1. Taken' = Taken /\ \A w \in Workers : Opens(w)' => Opens(w)
  BY DEF Locked, Taken, Opens, Graph, PatchBegins, PatchEnds, ApproveBegins, ApproveEnds, PromoteBegins, PromoteEnds, Idle
<1> QED
  BY <1>1, Quietly

LEMMA UsersCount == ASSUME Locked, Counted, Users PROVE Counted'
<1>1. Taken' \subseteq Taken
  BY DEF Locked, Taken, Users, Pauses, Respecified, Reports, PullRequestMoves, Fails, Cancel, Reopen, HumanRetry, Runs
<1>2. tick' = tick /\ starter' = starter
  BY DEF Users, Pauses, Respecified, Reports, PullRequestMoves, Fails, Cancel, Reopen, HumanRetry
<1> QED
  BY <1>1, <1>2, Quietly DEF Opens

LEMMA SlotsCount == ASSUME Locked, Counted, Slots PROVE Counted'
<1>1. ASSUME NEW w \in Workers, NEW t \in Tasks, ClaimBegins(w, t) \/ RetryBegins(w, t) PROVE Counted'
  <2>1. Busy < MaxConcurrent /\ Taken' = Taken
    BY <1>1 DEF ClaimBegins, RetryBegins, Taken
  <2> QED
    BY <2>1, Begins
<1>2. ASSUME NEW w \in Workers, ClaimEnds(w) PROVE Counted'
  <2>1. Opens(w) /\ Taken' \subseteq Taken \cup {tick[w].t}
    BY <1>2 DEF ClaimEnds, Opens, Taken, Take, Locked
  <2>2. \A v \in Workers : ~Opens(v)'
    BY <1>2 DEF ClaimEnds, Opens, Locked, Idle
  <2> QED
    BY <2>1, <2>2, Ends
<1>3. ASSUME NEW w \in Workers, RetryEnds(w) PROVE Counted'
  <2>1. Opens(w) /\ Taken' \subseteq Taken \cup {starter[w].t}
    BY <1>3 DEF RetryEnds, Opens, Taken, TakeRetry, Take, Locked
  <2>2. \A v \in Workers : ~Opens(v)'
    BY <1>3 DEF RetryEnds, Opens, Locked, Idle
  <2> QED
    BY <2>1, <2>2, Ends
<1>4. ASSUME NEW w \in Workers, TurnEnds \/ TurnStarts(w) \/ Crash(w) \/ Starts(w) PROVE Counted'
  <2>1. Taken' = Taken
    BY <1>4 DEF TurnEnds, TurnStarts, Crash, Starts, Taken
  <2>2. \A v \in Workers : Opens(v)' => Opens(v)
    BY <1>4 DEF TurnEnds, TurnStarts, Crash, Starts, Opens, Locked, Idle
  <2> QED
    BY <2>1, <2>2, Quietly
<1>5. ASSUME NEW t \in Tasks, Resume(t) PROVE Counted'
  <2>1. Taken' \subseteq Taken /\ tick' = tick /\ starter' = starter
    BY <1>5 DEF Resume, Taken, Locked
  <2> QED
    BY <2>1, Quietly DEF Opens
<1>6. CASE TurnEnds
  <2>1. Taken' = Taken /\ tick' = tick /\ starter' = starter
    BY <1>6 DEF TurnEnds, Taken
  <2> QED
    BY <2>1, Quietly DEF Opens
<1> QED
  BY <1>1, <1>2, <1>3, <1>4, <1>5, <1>6, Zenon DEF Slots

LEMMA CountedInit == Init => Counted
<1> SUFFICES ASSUME Init PROVE Counted
  OBVIOUS
<1>1. Taken = {} /\ \A w \in Workers : ~Opens(w)
  BY DEF Init, Taken, Opens, Idle
<1> QED
  BY <1>1, FS_EmptySet, CountedIs

LEMMA CountedNext == ASSUME Locked, Counted, [Next]_vars PROVE Counted'
<1>1. CASE UNCHANGED vars
  <2>1. Taken' = Taken /\ tick' = tick /\ starter' = starter
    BY <1>1 DEF vars, Taken
  <2> QED
    BY <2>1, Quietly DEF Opens
<1> QED
  BY <1>1, GraphCounts, SlotsCount, UsersCount, Zenon DEF Next

\* With several worker processes on a host, with retries and resumes beside
\* claims, what was claimed fits max_concurrent: a claim counts under the lock
\* of the host's row and holds it until its execution is written.
THEOREM ClaimsFitTheSlots == Spec => []SlotsHold
<1>1. Init => SlotInv
  BY LockedInit, CountedInit DEF SlotInv, Counted
<1>2. SlotInv /\ [Next]_vars => SlotInv'
  BY LockedNext, CountedNext DEF SlotInv, Counted
<1>3. SlotInv => SlotsHold
  BY DEF Locked, SlotInv, SlotsHold
<1> HIDE DEF rows, workers
<1> QED
  BY <1>1, <1>2, <1>3, PTL DEF Spec

-----------------------------------------------------------------------------
(* Promotion                                                               *)

LEMMA PromotionIsDue == ASSUME Locked, [Next]_vars,
    NEW t \in Tasks, st[t] \in {"SPEC_APPROVED", "SPEC_REVIEW"}, st'[t] = "READY",
    NEW d \in deps'[t]
  PROVE st'[d] = "DONE"
<1>1. ASSUME NEW r \in Requests, ApproveEnds(r) PROVE st'[d] = "DONE"
  BY <1>1 DEF ApproveEnds, Locked, Goto
<1>2. ASSUME NEW w \in Workers, PromoteEnds(w) PROVE st'[d] = "DONE"
  BY <1>2 DEF PromoteEnds, Locked, Goto
<1>3. CASE \E r \in Requests : ApproveEnds(r)
  BY <1>1, <1>3
<1>4. CASE \E w \in Workers : PromoteEnds(w)
  BY <1>2, <1>4
<1>5. ASSUME Graph, ~\E r \in Requests : ApproveEnds(r), ~\E w \in Workers : PromoteEnds(w) PROVE FALSE
  BY <1>5 DEF Graph, PatchBegins, PatchEnds, ApproveBegins, PromoteBegins
<1>6. ASSUME Slots PROVE FALSE
  BY <1>6 DEF Slots, TurnEnds, TurnStarts, Crash, Starts, ClaimBegins, ClaimEnds, RetryBegins, RetryEnds, Resume,
     Goto, Locked
<1>7. ASSUME Users PROVE FALSE
  BY <1>7 DEF Users, Pauses, Respecified, Reports, PullRequestMoves, Fails, Cancel, Reopen, HumanRetry, Goto, Locked
<1>8. ASSUME UNCHANGED vars PROVE FALSE
  BY <1>8 DEF vars
<1> QED
  BY <1>3, <1>4, <1>5, <1>6, <1>7, <1>8, Zenon DEF Next

\* 6.2: a task becomes READY only when all it depends on at that moment is done,
\* whatever requests and workers edit and read the graph meanwhile: approval and
\* promotion decide on the rows they hold and DONE is final.
THEOREM PromotedWhenDone == Spec => ReadyWhenDone
<1>1. Locked /\ [Next]_vars => [\A t \in Tasks : st[t] \in {"SPEC_APPROVED", "SPEC_REVIEW"} /\ st'[t] = "READY"
                                     => \A d \in deps'[t] : st'[d] = "DONE"]_vars
  BY PromotionIsDue
<1> HIDE DEF rows, workers
<1> QED
  BY <1>1, LockedInit, LockedNext, PTL DEF Spec, ReadyWhenDone

-----------------------------------------------------------------------------
(* What is reached in a graph                                              *)

LEMMA LessIsWellFounded == \A x, y \in Nat : x < y => <<x, y>> \in OpToRel(<, Nat)
BY DEF OpToRel

LEMMA LeastNumber ==
  ASSUME NEW S \in SUBSET Nat, S # {}
  PROVE  \E m \in S : \A x \in S : m <= x
<1>1. PICK R : IsWellFoundedOn(R, Nat) /\ \A x, y \in Nat : x < y => <<x, y>> \in R
  BY LessIsWellFounded, NatLessThanWellFounded, Zenon
<1>2. IsWellFoundedOn(R, Nat)
  BY <1>1
<1>3. PICK m \in S : \A y \in S : ~(<<y, m>> \in R)
  BY <1>2, WFMin
<1>4. ASSUME NEW y \in S PROVE m <= y
  <2>1. y \in Nat /\ m \in Nat /\ ~(y < m)
    BY <1>1, <1>3
  <2> QED
    BY <2>1
<1> QED
  BY <1>4

\* f is the search from D along e, up to its step m.
Search(e, D, m, f) == f = [n \in 0 .. m |-> IF n = 0 THEN D ELSE More(e, f[n - 1])]

LEMMA SearchSteps ==
  ASSUME NEW e, NEW D, NEW m \in Nat, NEW f, Search(e, D, m, f)
  PROVE  f[0] = D /\ \A n \in 1 .. m : f[n] = More(e, f[n - 1])
<1>1. 0 \in 0 .. m /\ \A n \in 1 .. m : n \in 0 .. m /\ n # 0
  OBVIOUS
<1>2. \A n \in 0 .. m : f[n] = IF n = 0 THEN D ELSE More(e, f[n - 1])
  BY Zenon DEF Search
<1> QED
  BY <1>1, <1>2

LEMMA SearchExists == ASSUME NEW e, NEW D, NEW k \in Nat PROVE \E f : Search(e, D, k, f)
<1> DEFINE Without == {m \in Nat : ~\E f : Search(e, D, m, f)}
<1>1. SUFFICES ASSUME Without # {} PROVE FALSE
  OBVIOUS
<1>2. PICK m \in Without : \A x \in Without : m <= x
  BY <1>1, LeastNumber
<1>3. CASE m = 0
  <2> DEFINE g == [n \in 0 .. 0 |-> D]
  <2>1. \A n \in 0 .. 0 : n = 0
    OBVIOUS
  <2>2. g = [n \in 0 .. 0 |-> IF n = 0 THEN D ELSE More(e, g[n - 1])]
    BY <2>1
  <2> QED
    BY <1>2, <1>3, <2>2 DEF Search
<1>4. CASE m # 0
  <2>1. m - 1 \in Nat /\ ~(m <= m - 1)
    BY <1>4
  <2>2. PICK f : Search(e, D, m - 1, f)
    BY <1>2, <2>1
  <2>3. /\ f[0] = D
        /\ \A n \in 1 .. m - 1 : f[n] = More(e, f[n - 1])
    BY <2>1, <2>2, SearchSteps
  <2> DEFINE g == [n \in 0 .. m |-> IF n = m THEN More(e, f[m - 1]) ELSE f[n]]
  <2>4. \A n \in 0 .. m : g[n] = IF n = m THEN More(e, f[m - 1]) ELSE f[n]
    OBVIOUS
  <2>5. ASSUME NEW n \in 0 .. m PROVE g[n] = IF n = 0 THEN D ELSE More(e, g[n - 1])
    <3>1. CASE n = 0
      BY <1>4, <2>3, <2>4, <3>1
    <3>2. CASE n # 0 /\ n # m
      <4>1. n \in 1 .. m - 1 /\ n - 1 \in 0 .. m /\ n - 1 # m
        BY <3>2
      <4> QED
        BY <2>3, <2>4, <3>2, <4>1
    <3>3. CASE n # 0 /\ n = m
      <4>1. n - 1 \in 0 .. m /\ n - 1 # m
        BY <3>3
      <4> QED
        BY <2>4, <3>3, <4>1
    <3> QED
      BY <3>1, <3>2, <3>3
  <2> HIDE DEF g
  <2>6. g = [n \in 0 .. m |-> g[n]]
    BY DEF g
  <2>7. Search(e, D, m, g)
    BY <2>5, <2>6 DEF Search
  <2> QED
    BY <1>2, <2>7
<1> QED
  BY <1>3, <1>4

Size == Cardinality(Tasks)

LEMMA SizeIsNat == Size \in Nat
BY FS_CardinalityType DEF Size

LEMMA ReachedIsASearch ==
  ASSUME NEW e, NEW D
  PROVE  \E f : /\ f[0] = D /\ \A n \in 1 .. Size : f[n] = More(e, f[n - 1])
              /\ ReachedAlong(e, D) = f[Size]
<1>1. \E f : Search(e, D, Size, f)
  BY SizeIsNat, SearchExists
<1>2. PICK f : Search(e, D, Size, f) /\ ReachedAlong(e, D) = f[Size]
  BY <1>1, Zenon DEF ReachedAlong, Search, Size
<1> QED
  BY <1>2, SizeIsNat, SearchSteps

Edges == [Tasks -> SUBSET Tasks]

Closed(e, S) == \A u \in S : e[u] \subseteq S

LEMMA UpTo ==
  ASSUME NEW m \in Nat, NEW G, 0 \in G, \A n \in 1 .. m : n - 1 \in G => n \in G
  PROVE  \A n \in 0 .. m : n \in G
<1> DEFINE Rest == {n \in 0 .. m : n \notin G}
<1>1. SUFFICES ASSUME Rest # {} PROVE FALSE
  OBVIOUS
<1>4. Rest \in SUBSET Nat
  OBVIOUS
<1>2. PICK n \in Rest : \A x \in Rest : n <= x
  <2> HIDE DEF Rest
  <2> QED
    BY <1>1, <1>4, LeastNumber
<1>3. n # 0 /\ n \in 1 .. m /\ n - 1 \in 0 .. m /\ ~(n <= n - 1)
  BY <1>2
<1> QED
  BY <1>2, <1>3

\* Nothing else is reached: only what every closed set with D contains.
LEMMA ReachedIsLeast ==
  ASSUME NEW e \in Edges, NEW D, NEW S \in SUBSET Tasks, D \subseteq S, Closed(e, S)
  PROVE  ReachedAlong(e, D) \subseteq S
<1>1. PICK f : /\ f[0] = D /\ \A n \in 1 .. Size : f[n] = More(e, f[n - 1])
               /\ ReachedAlong(e, D) = f[Size]
  BY ReachedIsASearch
<1> DEFINE G == {n \in 0 .. Size : f[n] \subseteq S}
<1>2. 0 \in G
  BY <1>1, SizeIsNat
<1>3. ASSUME NEW n \in 1 .. Size, n - 1 \in G PROVE n \in G
  <2>1. f[n] = More(e, f[n - 1]) /\ f[n - 1] \subseteq S /\ n \in 0 .. Size
    BY <1>1, <1>3, SizeIsNat
  <2> QED
    BY <2>1 DEF More, Closed
<1>4. \A n \in 0 .. Size : n \in G
  <2> HIDE DEF G
  <2> QED
    BY <1>2, <1>3, SizeIsNat, UpTo
<1>5. Size \in 0 .. Size
  BY SizeIsNat
<1> QED
  BY <1>1, <1>4, <1>5

\* A search that is not over has a task more after each step.
LEMMA SearchGrows ==
  ASSUME NEW e \in Edges, NEW S \in SUBSET Tasks, ~Closed(e, S)
  PROVE  More(e, S) \in SUBSET Tasks /\ Cardinality(More(e, S)) >= Cardinality(S) + 1
<1>0. PICK u \in S : ~(e[u] \subseteq S)
  BY DEF Closed
<1>1. PICK x \in e[u] : x \notin S
  BY <1>0
<1>2. More(e, S) \in SUBSET Tasks /\ S \cup {x} \in SUBSET More(e, S)
  BY <1>1 DEF More, Edges
<1>3. IsFiniteSet(S) /\ IsFiniteSet(More(e, S))
  BY <1>2, FS_Subset
<1>4. Cardinality(S \cup {x}) = Cardinality(S) + 1
  BY <1>1, <1>3, FS_AddElement
<1>5. /\ Cardinality(S \cup {x}) <= Cardinality(More(e, S))
      /\ Cardinality(S) \in Nat /\ Cardinality(More(e, S)) \in Nat
  BY <1>2, <1>3, FS_Subset, FS_CardinalityType
<1> QED
  BY <1>2, <1>4, <1>5

LEMMA SearchIsOver ==
  ASSUME NEW e \in Edges, NEW S \in SUBSET Tasks, Closed(e, S) PROVE More(e, S) = S
BY DEF More, Closed, Edges

\* All of it is reached: as many steps as there are tasks are enough.
LEMMA ReachedIsClosed ==
  ASSUME NEW e \in Edges, NEW D \in SUBSET Tasks
  PROVE  /\ ReachedAlong(e, D) \in SUBSET Tasks /\ D \subseteq ReachedAlong(e, D)
         /\ Closed(e, ReachedAlong(e, D))
<1>1. PICK f : /\ f[0] = D /\ \A n \in 1 .. Size : f[n] = More(e, f[n - 1])
               /\ ReachedAlong(e, D) = f[Size]
  BY ReachedIsASearch
<1> DEFINE Far(n) == /\ f[n] \in SUBSET Tasks /\ D \subseteq f[n]
                     /\ Closed(e, f[n]) \/ Cardinality(f[n]) >= n + 1
<1> DEFINE G == {n \in 0 .. Size : Far(n)}
<1>2. 0 \in G
  <2>1. CASE D = {}
    BY <1>1, <2>1, SizeIsNat DEF Closed
  <2>2. CASE D # {}
    <3>1. IsFiniteSet(D) /\ Cardinality(D) \in Nat
      BY FS_Subset, FS_CardinalityType
    <3>2. Cardinality(D) # 0
      BY <2>2, <3>1, FS_EmptySet
    <3>3. Cardinality(f[0]) >= 0 + 1 /\ 0 \in 0 .. Size
      BY <1>1, <3>1, <3>2, SizeIsNat
    <3> QED
      BY <1>1, <3>3
  <2> QED
    BY <2>1, <2>2
<1>3. ASSUME NEW n \in 1 .. Size, n - 1 \in G PROVE n \in G
  <2>0. n \in 0 .. Size /\ n \in Nat /\ f[n] = More(e, f[n - 1]) /\ Far(n - 1)
    <3> HIDE DEF Far
    <3> QED
      BY <1>1, <1>3, SizeIsNat
  <2>1. /\ f[n] = More(e, f[n - 1]) /\ f[n - 1] \in SUBSET Tasks /\ D \subseteq f[n - 1]
        /\ Closed(e, f[n - 1]) \/ Cardinality(f[n - 1]) >= (n - 1) + 1
        /\ n \in 0 .. Size /\ n \in Nat
    BY <2>0
  <2>2. CASE Closed(e, f[n - 1])
    <3>1. f[n] = f[n - 1]
      BY <2>1, <2>2, SearchIsOver
    <3> QED
      BY <2>1, <2>2, <3>1
  <2>3. CASE ~Closed(e, f[n - 1])
    <3>1. f[n] \in SUBSET Tasks /\ Cardinality(f[n]) >= Cardinality(f[n - 1]) + 1
      BY <2>1, <2>3, SearchGrows
    <3>2. D \subseteq f[n]
      BY <2>1 DEF More
    <3>3. IsFiniteSet(f[n]) /\ IsFiniteSet(f[n - 1])
      BY <2>1, <3>1, FS_Subset
    <3>4. Cardinality(f[n]) \in Nat /\ Cardinality(f[n - 1]) \in Nat
      BY <3>3, FS_CardinalityType
    <3>5. Cardinality(f[n]) >= n + 1
      BY <2>1, <2>3, <3>1, <3>4
    <3> QED
      BY <2>1, <3>1, <3>2, <3>5
  <2> QED
    BY <2>2, <2>3
<1>4. \A n \in 0 .. Size : n \in G
  <2> HIDE DEF G
  <2> QED
    BY <1>2, <1>3, SizeIsNat, UpTo
<1>5. Far(Size)
  <2> HIDE DEF Far
  <2>1. Size \in 0 .. Size
    BY SizeIsNat
  <2> QED
    BY <1>4, <2>1
<1>6. f[Size] \in SUBSET Tasks /\ D \subseteq f[Size]
  BY <1>5
<1>8. IsFiniteSet(f[Size]) /\ Cardinality(f[Size]) <= Cardinality(Tasks) /\ Cardinality(f[Size]) \in Nat
  BY <1>6, FS_Subset, FS_CardinalityType
<1>7. Closed(e, f[Size])
  <2>1. Cardinality(f[Size]) <= Size
    BY <1>8 DEF Size
  <2> QED
    BY <1>5, <1>8, <2>1, SizeIsNat
<1> QED
  BY <1>1, <1>6, <1>7

-----------------------------------------------------------------------------
(* No cycle is made                                                        *)

AcyclicAlong(e) == \A t \in Tasks : t \notin ReachedAlong(e, e[t])

\* Where t is not reached from D, its edges can be replaced by those to D.
LEMMA StaysAcyclic ==
  ASSUME NEW e \in Edges, AcyclicAlong(e), NEW t \in Tasks, NEW D \in SUBSET Tasks,
         t \notin ReachedAlong(e, D), NEW g, g = [e EXCEPT ![t] = D]
  PROVE  AcyclicAlong(g)
<1> DEFINE S == ReachedAlong(e, D)
<1>1. g \in Edges /\ g[t] = D /\ \A u \in Tasks : u # t => g[u] = e[u]
  BY DEF Edges
<1>2. S \in SUBSET Tasks /\ D \subseteq S /\ Closed(e, S) /\ t \notin S
  BY ReachedIsClosed
<1> HIDE DEF S
<1>3. Closed(g, S)
  BY <1>1, <1>2 DEF Closed
<1>4. SUFFICES ASSUME NEW u \in Tasks PROVE u \notin ReachedAlong(g, g[u])
  BY DEF AcyclicAlong
<1>5. CASE u = t
  <2>1. ReachedAlong(g, D) \subseteq S
    BY <1>1, <1>2, <1>3, ReachedIsLeast
  <2> QED
    BY <1>1, <1>2, <1>5, <2>1
<1>6. CASE u # t
  <2> DEFINE T == ReachedAlong(e, e[u])
  <2>0. e[u] \in SUBSET Tasks
    BY DEF Edges
  <2>1. T \in SUBSET Tasks /\ e[u] \subseteq T /\ Closed(e, T)
    BY <2>0, ReachedIsClosed
  <2>2. u \notin T
    BY DEF AcyclicAlong
  <2>3. u \in S => T \subseteq S
    <3>1. u \in S => e[u] \subseteq S
      BY <1>2 DEF Closed
    <3> QED
      BY <1>2, <3>1, ReachedIsLeast
  <2> HIDE DEF T
  <2>4. CASE t \notin T
    <3>1. Closed(g, T)
      BY <1>1, <2>1, <2>4 DEF Closed
    <3>2. ReachedAlong(g, g[u]) \subseteq T
      BY <1>1, <1>6, <2>1, <3>1, ReachedIsLeast
    <3> QED
      BY <2>2, <3>2
  <2>5. CASE t \in T
    <3>1. Closed(g, T \cup S) /\ T \cup S \in SUBSET Tasks
      BY <1>1, <1>2, <2>1 DEF Closed
    <3>2. ReachedAlong(g, g[u]) \subseteq T \cup S
      BY <1>1, <1>6, <2>1, <3>1, ReachedIsLeast
    <3>3. u \notin S
      BY <1>2, <2>3, <2>5
    <3> QED
      BY <2>2, <3>2, <3>3
  <2> QED
    BY <2>4, <2>5
<1> QED
  BY <1>5, <1>6

LEMMA AcyclicIs == Acyclic <=> AcyclicAlong(deps)
BY DEF Acyclic, AcyclicAlong, Reached

LEMMA AcyclicIsNext == Acyclic' <=> AcyclicAlong(deps')
BY DEF Acyclic, AcyclicAlong, Reached

LEMMA EdgesFit == ASSUME Locked PROVE deps \in Edges
BY DEF Locked, Edges

LEMMA GraphInit == Init => GraphInv
<1> SUFFICES ASSUME Init PROVE GraphInv
  OBVIOUS
<1>1. Locked
  BY LockedInit
<1>2. ASSUME NEW t \in Tasks PROVE t \notin ReachedAlong(deps, deps[t])
  <2>1. deps \in Edges /\ deps[t] = {} /\ {} \in SUBSET Tasks
    BY DEF Init, Edges
  <2>2. Closed(deps, {})
    BY DEF Closed
  <2>3. ReachedAlong(deps, deps[t]) \subseteq {}
    BY <2>1, <2>2, ReachedIsLeast
  <2> QED
    BY <2>3
<1>3. SearchStands
  BY DEF Init, SearchStands, Idle
<1> QED
  BY <1>1, <1>2, <1>3, AcyclicIs DEF GraphInv, AcyclicAlong

\* A step that writes no edges: what a search found stays so.
WritesNone ==
  /\ deps' = deps
  /\ \A r \in Requests : \/ request'[r] = request[r]
                         \/ request'[r].ok => request'[r].t \notin ReachedAlong(deps, request'[r].D)

LEMMA NoEdges == ASSUME GraphInv, WritesNone PROVE Acyclic' /\ SearchStands'
<1>1. Acyclic'
  BY AcyclicIs, AcyclicIsNext DEF GraphInv, WritesNone
<1>2. ASSUME NEW r \in Requests, request'[r].do # "rest", request'[r].ok
      PROVE  request'[r].t \notin ReachedAlong(deps, request'[r].D)
  BY <1>2 DEF GraphInv, SearchStands, Reached, WritesNone
<1> QED
  BY <1>1, <1>2 DEF SearchStands, Reached, WritesNone

\* The one open request writes the edges its search allowed.
LEMMA EdgesAreWritten ==
  ASSUME GraphInv, NEW r \in Requests, request[r].do # "rest",
         request' = [request EXCEPT ![r] = Idle],
         deps' = IF request[r].ok THEN [deps EXCEPT ![request[r].t] = request[r].D] ELSE deps
  PROVE  Acyclic' /\ SearchStands'
<1>1. \A s \in Requests : request'[s].do = "rest"
  BY DEF GraphInv, Locked, Idle
<1>2. request[r].t \in Tasks /\ request[r].D \in SUBSET Tasks
  BY DEF GraphInv, Locked
<1>3. deps \in Edges /\ AcyclicAlong(deps)
  BY EdgesFit, AcyclicIs DEF GraphInv
<1>4. CASE request[r].ok
  <2>1. request[r].t \notin ReachedAlong(deps, request[r].D)
    BY <1>4 DEF GraphInv, SearchStands, Reached
  <2>2. AcyclicAlong(deps')
    BY <1>2, <1>3, <1>4, <2>1, StaysAcyclic
  <2> QED
    BY <1>1, <2>2, AcyclicIsNext DEF SearchStands
<1>5. CASE ~request[r].ok
  BY <1>1, <1>3, <1>5, AcyclicIsNext DEF SearchStands
<1> QED
  BY <1>4, <1>5

LEMMA GraphNext == ASSUME GraphInv, [Next]_vars PROVE GraphInv'
<1>0. Locked /\ Locked'
  BY LockedNext DEF GraphInv
<1>1. ASSUME NEW r \in Requests, PatchEnds(r) \/ ApproveEnds(r) PROVE Acyclic' /\ SearchStands'
  BY <1>1, EdgesAreWritten DEF PatchEnds, ApproveEnds
<1>2. ASSUME NEW r \in Requests, NEW t \in Tasks, NEW D \in SUBSET Tasks, PatchBegins(r, t, D) \/ ApproveBegins(r, t, D)
      PROVE  Acyclic' /\ SearchStands'
  <2>1. deps' = deps /\ \A s \in Requests : request'[s] = request[s] \/ s = r
    BY <1>2 DEF PatchBegins, ApproveBegins, Locked, GraphInv
  <2>2. request'[r].t = t /\ request'[r].D = D /\ request'[r].ok = (t \notin Reached(D))
    BY <1>0, <1>2 DEF PatchBegins, ApproveBegins, Locked
  <2>3. WritesNone
    BY <2>1, <2>2 DEF Reached, WritesNone
  <2> QED
    BY <2>3, NoEdges
<1>3. ASSUME ~\E r \in Requests : PatchEnds(r) \/ ApproveEnds(r),
             ~\E r \in Requests, t \in Tasks, D \in SUBSET Tasks : PatchBegins(r, t, D) \/ ApproveBegins(r, t, D)
      PROVE  Acyclic' /\ SearchStands'
  <2>1. ASSUME Graph PROVE deps' = deps /\ request' = request
    BY <1>3, <2>1, Zenon DEF Graph, PromoteBegins, PromoteEnds
  <2>2. ASSUME Slots PROVE deps' = deps /\ request' = request
    BY <2>2 DEF Slots, TurnEnds, TurnStarts, Crash, Starts, ClaimBegins, ClaimEnds, RetryBegins, RetryEnds, Resume
  <2>3. ASSUME Users PROVE deps' = deps /\ request' = request
    BY <2>3 DEF Users, Pauses, Respecified, Reports, PullRequestMoves, Fails, Cancel, Reopen, HumanRetry
  <2>4. ASSUME UNCHANGED vars PROVE deps' = deps /\ request' = request
    BY <2>4 DEF vars
  <2>5. deps' = deps /\ request' = request
    BY <2>1, <2>2, <2>3, <2>4, Zenon DEF Next
  <2>6. WritesNone
    BY <2>5 DEF WritesNone
  <2> QED
    BY <2>6, NoEdges
<1>4. Acyclic' /\ SearchStands'
  BY <1>1, <1>2, <1>3, Zenon
<1> QED
  BY <1>0, <1>4 DEF GraphInv

\* 12.2, J5 and 6.2: however many requests and workers edit and read the graph at
\* a time, the dependencies have no cycle, and a task is made ready only when all
\* it depends on is done: a search under the lock of the graph is right until its
\* edges are written, and edges that lead not back to their task close no cycle.
THEOREM DependenciesAreKept == Spec => DependenciesHold
<1>1. Init => GraphInv
  BY GraphInit
<1>2. GraphInv /\ [Next]_vars => GraphInv'
  BY GraphNext
<1>3. GraphInv => Acyclic
  BY DEF GraphInv
<1> HIDE DEF rows, workers
<1> QED
  BY <1>1, <1>2, <1>3, PromotedWhenDone, PTL DEF Spec, DependenciesHold
=============================================================================

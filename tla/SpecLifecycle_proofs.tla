------------------------- MODULE SpecLifecycle_proofs -------------------------
(***************************************************************************)
(* Theorems about SpecLifecycle for every set of workers and every bound   *)
(* on sessions, versions, commands and faults.                             *)
(***************************************************************************)
EXTENDS SpecLifecycle, FiniteSetTheorems, SequenceTheorems, TLAPS

LEMMA States ==
  /\ ExecutionStates \cup {"NONE"} =
       {"NONE", "QUEUED", "ASSIGNED", "RUNNING", "WAITING_FOR_USER",
        "COMPLETED", "FAILED", "CANCELLED"}
  /\ {"NEEDS_SPEC", "SPEC_IN_PROGRESS", "SPEC_REVIEW", "SPEC_APPROVED", "READY",
      "BLOCKED", "IMPLEMENTING", "CANCELLED"} \subseteq TaskStates
BY DEF ExecutionStates, TaskStates

\* The edges of the task table that the routes rely on.
LEMMA Edges ==
  /\ TaskEdge(task, "spec.session_started") => task = "NEEDS_SPEC"
  /\ TaskEdge(task, "spec.review_requested") => task = "SPEC_IN_PROGRESS"
  /\ TaskEdge(task, "spec.sent_back") => task = "SPEC_REVIEW"
  /\ TaskEdge(task, "spec.revise") => task \in {"SPEC_APPROVED", "READY"}
  /\ TaskEdge(task, "issue.resolved.spec_revision") => task \in {"IMPLEMENTING", "REVIEWING"}
BY DEF TaskEdge, TaskTable, SpecRows, WorkRows, EndRows, Cancellable, Failable, TaskStates

-----------------------------------------------------------------------------
(* The commands                                                            *)

LEMMA EnqueueTyped ==
  ASSUME CmdOK, NEW kind \in {"start", "message", "sent_back", "decision", "revision"},
         NEW s \in Sessions \cup {0}, s = 0 <=> kind \in {"start", "revision"},
         Enqueue(kind, s)
  PROVE CmdOK'
<1> DEFINE c == [kind |-> kind, of |-> s, by |-> None]
<1>1. c \in Command
  BY DEF Command
<1>2. cmd \in Seq(Command) /\ cmd' = Append(cmd, c)
  BY DEF CmdOK, Enqueue
<1>3. c.of = s /\ c.kind = kind
  OBVIOUS
<1> HIDE DEF c
<1>4. /\ cmd' \in Seq(Command) /\ Len(cmd') = Len(cmd) + 1
      /\ \A i \in 1 .. Len(cmd) : cmd'[i] = cmd[i]
      /\ cmd'[Len(cmd) + 1] = c
  BY <1>1, <1>2
<1>5. ASSUME NEW i \in DOMAIN cmd' PROVE cmd'[i].of = 0 <=> cmd'[i].kind \in {"start", "revision"}
  <2>1. i \in 1 .. Len(cmd) \/ i = Len(cmd) + 1
    BY <1>2, <1>4
  <2>2. CASE i \in 1 .. Len(cmd)
    BY <2>2, <1>2, <1>4 DEF CmdOK, Pending
  <2>3. CASE i = Len(cmd) + 1
    BY <2>3, <1>3, <1>4
  <2> QED
    BY <2>1, <2>2, <2>3
<1> QED
  BY <1>4, <1>5 DEF CmdOK, Pending

LEMMA CompleteTyped ==
  ASSUME CmdOK, NEW i \in Pending, Complete(i)
  PROVE CmdOK'
<1>1. cmd \in Seq(Command) /\ i \in 1 .. Len(cmd) /\ Len(cmd) \in Nat
  BY DEF CmdOK, Pending
<1>2. \A j \in 1 .. Len(cmd) - 1 :
        /\ j < i => j \in 1 .. Len(cmd)
        /\ j + 1 \in 1 .. Len(cmd)
  BY <1>1
<1>3. cmd' = [j \in 1 .. Len(cmd) - 1 |-> IF j < i THEN cmd[j] ELSE cmd[j + 1]]
  BY DEF Complete
<1>4. \A k \in 1 .. Len(cmd) : cmd[k] \in Command
  BY <1>1
<1>5. Len(cmd) - 1 \in Nat /\ \A j \in 1 .. Len(cmd) - 1 : cmd'[j] \in Command
  BY <1>1, <1>2, <1>3, <1>4
<1>6. cmd' \in Seq(Command) /\ DOMAIN cmd' = 1 .. Len(cmd) - 1
  BY <1>3, <1>5
<1>7. ASSUME NEW j \in DOMAIN cmd' PROVE cmd'[j].of = 0 <=> cmd'[j].kind \in {"start", "revision"}
  BY <1>1, <1>2, <1>3, <1>6 DEF CmdOK, Pending
<1> QED
  BY <1>6, <1>7 DEF CmdOK, Pending

LEMMA MarkTyped ==
  ASSUME CmdOK, NEW S, NEW b \in Workers \cup {None, Lost},
         cmd' = [i \in Pending |-> IF i \in S THEN [cmd[i] EXCEPT !.by = b] ELSE cmd[i]]
  PROVE CmdOK'
<1>1. cmd \in Seq(Command) /\ Len(cmd) \in Nat /\ Pending = 1 .. Len(cmd)
  BY DEF CmdOK, Pending
<1>2. ASSUME NEW i \in Pending
      PROVE  /\ cmd'[i] \in Command /\ cmd'[i].of = cmd[i].of /\ cmd'[i].kind = cmd[i].kind
  <2>1. cmd[i] \in Command
    BY <1>1
  <2> QED
    BY <2>1 DEF Command
<1>3. cmd' \in Seq(Command) /\ DOMAIN cmd' = Pending
  BY <1>1, <1>2
<1> QED
  BY <1>2, <1>3 DEF CmdOK, Pending

LEMMA MarkOneTyped ==
  ASSUME CmdOK, NEW i \in Pending, NEW b \in Workers \cup {None, Lost},
         cmd' = [cmd EXCEPT ![i].by = b]
  PROVE CmdOK'
<1>1. cmd \in Seq(Command) /\ Pending = DOMAIN cmd
  BY DEF CmdOK, Pending
<1>2. cmd' = [j \in Pending |-> IF j \in {i} THEN [cmd[j] EXCEPT !.by = b] ELSE cmd[j]]
  BY <1>1
<1> QED
  BY <1>2, MarkTyped

LEMMA CmdSame == ASSUME CmdOK, cmd' = cmd PROVE CmdOK'
BY DEF CmdOK, Pending

LEMMA CmdStep == ASSUME TypeOK, [Next]_vars PROVE CmdOK'
<1> USE SpecAssumption DEF Pending
<1>0. CmdOK /\ SessionOK
  BY DEF TypeOK
<1>1. ASSUME UNCHANGED cmd PROVE CmdOK'
  BY <1>0, <1>1, CmdSame
<1>2. CASE UNCHANGED vars
  BY <1>1, <1>2 DEF vars
<1>3. CASE User
  <2>1. CASE StartSession
    BY <1>0, <2>1, EnqueueTyped DEF StartSession
  <2>2. CASE SendMessage
    BY <1>0, <2>2, EnqueueTyped DEF SendMessage, InState, Sessions
  <2>3. CASE SendBack
    <3>1. CASE UNCHANGED cmd
      BY <1>1, <3>1
    <3>2. CASE \E s \in InState({"COMPLETED"}) : Enqueue("sent_back", s)
      BY <1>0, <3>2, EnqueueTyped DEF InState, Sessions
    <3> QED
      BY <2>3, <3>1, <3>2 DEF SendBack
  <2>4. CASE Approve
    <3>1. CASE UNCHANGED cmd
      BY <1>1, <3>1
    <3>2. CASE Enqueue("revision", 0)
      BY <1>0, <3>2, EnqueueTyped
    <3> QED
      BY <2>4, <3>1, <3>2 DEF Approve
  <2>5. ASSUME NEW s \in Sessions, ClarifyIssue(s) PROVE CmdOK'
    BY <1>0, <2>5, EnqueueTyped DEF ClarifyIssue, Sessions
  <2>6. CASE SaveDraft \/ RequestReview \/ Revise \/ ResolveAsRevision \/ Cancel \/ Reopen
    BY <1>1, <2>6 DEF SaveDraft, RequestReview, Revise, ResolveAsRevision, Cancel, Reopen
  <2> QED
    BY <1>3, <2>1, <2>2, <2>3, <2>4, <2>5, <2>6 DEF User
<1>4. CASE Implementation \/ Sweeper
  BY <1>1, <1>4 DEF Implementation, Sweeper, FailOrphan, ReleaseHost
<1>5. ASSUME NEW w \in Workers, Commands(w) PROVE CmdOK'
  <2>1. CASE ClaimCommands(w)
    BY <1>0, <2>1, MarkTyped DEF ClaimCommands
  <2>2. ASSUME NEW i \in Pending, HandleStart(w, i) \/ HandleRevision(w, i)
        PROVE  CmdOK'
    BY <1>0, <2>2, CompleteTyped DEF HandleStart, HandleRevision
  <2>3. ASSUME NEW i \in Pending, Unclaim(i) PROVE CmdOK'
    BY <1>0, <2>3, MarkOneTyped DEF Unclaim
  <2>4. ASSUME NEW i \in Pending, BeginResume(w, i) \/ CommitResume(w, i)
        PROVE  Complete(i) \/ Unclaim(i) \/ UNCHANGED cmd
    BY <2>4 DEF BeginResume, CommitResume
  <2> QED
    BY <1>0, <1>1, <1>5, <2>1, <2>2, <2>3, <2>4, CompleteTyped DEF Commands
<1>6. ASSUME NEW w \in Workers, Runner(w) \/ Agent(w) \/ Restart(w) PROVE CmdOK'
  BY <1>1, <1>6
  DEF Runner, Agent, Restart, OpenTurn, SessionStarted, EndTurn, Gone, Revoke, Forget,
      RaiseIssue, ProposeSpec, rows
<1>7. ASSUME NEW w \in Workers, Faults(w) PROVE CmdOK'
  <2>1. CASE Crash(w)
    BY <1>0, <2>1, MarkTyped DEF Crash
  <2>2. CASE HeartbeatStale(w)
    BY <1>1, <2>2 DEF HeartbeatStale, rows
  <2>3. ASSUME NEW i \in Pending, ResumeRefused(w, i) PROVE CmdOK'
    <3>1. CASE Complete(i)
      BY <1>0, <3>1, CompleteTyped
    <3>2. CASE cmd' = [cmd EXCEPT ![i].by = Lost]
      BY <1>0, <3>2, MarkOneTyped
    <3> QED
      BY <2>3, <3>1, <3>2 DEF ResumeRefused
  <2>4. ASSUME NEW s \in Sessions, RunFails(w, s) PROVE CmdOK'
    BY <1>1, <2>4 DEF RunFails
  <2> QED
    BY <1>7, <2>1, <2>2, <2>3, <2>4 DEF Faults
<1> QED
  BY <1>2, <1>3, <1>4, <1>5, <1>6, <1>7 DEF Next

-----------------------------------------------------------------------------
(* The sessions, their runs and the task                                   *)

\* The part of the invariant that is about sessions.
Fits == /\ RowsOK /\ SessionOK /\ RunOK /\ BlockingOK
        /\ RunFits /\ AtMostOne(LiveSpec) /\ LiveOnlyWhileDrafting /\ TurnHasToken

\* A step that leaves sessions and runs alone moves the task to where a live
\* session may be, or moves one that has none.
LEMMA SessionsKept ==
  ASSUME Fits, RowsOK', UNCHANGED <<session, run, blocking, worker>>,
         task' = task \/ task' = "SPEC_IN_PROGRESS" \/ task # "SPEC_IN_PROGRESS"
  PROVE Fits'
BY DEF Fits, SessionOK, RunOK, BlockingOK, RunFits, AtMostOne, LiveOnlyWhileDrafting,
       TurnHasToken, LiveSpec, InState, Up

LEMMA DraftTyped == ASSUME RowsOK, UpsertDraft \/ InsertDraft
                    PROVE  /\ revision' \in [Versions -> {"none", "draft", "approved", "superseded"}]
                           /\ written' \in BOOLEAN
BY DEF RowsOK, UpsertDraft, InsertDraft, Rewritten, Noted, WithStatus

LEMMA RowsStep == ASSUME RowsOK, [Next]_vars PROVE RowsOK'
<1> USE SpecAssumption, States
<1>1. CASE UNCHANGED vars
  BY <1>1 DEF vars, RowsOK
<1>2. CASE User
  <2>1. CASE StartSession \/ SendMessage \/ RequestReview \/ SendBack \/ Cancel \/ Reopen
    BY <2>1 DEF StartSession, SendMessage, RequestReview, SendBack, Cancel, Reopen, RowsOK, hosts
  <2>2. CASE SaveDraft \/ Revise \/ ResolveAsRevision
    BY <2>2, DraftTyped DEF SaveDraft, Revise, ResolveAsRevision, RowsOK, hosts
  <2>3. CASE Approve
    <3>1. revision' \in [Versions -> {"none", "draft", "approved", "superseded"}]
      BY <2>3 DEF Approve, Approved, RowsOK
    <3>2. task' \in TaskStates
      BY <2>3 DEF Approve
    <3> QED
      BY <2>3, <3>1, <3>2 DEF Approve, RowsOK, hosts
  <2>4. ASSUME NEW s \in Sessions, ClarifyIssue(s) PROVE RowsOK'
    BY <2>4 DEF ClarifyIssue, RowsOK, hosts
  <2> QED
    BY <1>2, <2>1, <2>2, <2>3, <2>4 DEF User
<1>3. CASE Implementation \/ Sweeper
  BY <1>3 DEF Implementation, Sweeper, FailOrphan, ReleaseHost, RowsOK, hosts
<1>4. ASSUME NEW w \in Workers, Commands(w) PROVE RowsOK'
  BY <1>4 DEF Commands, ClaimCommands, HandleStart, HandleRevision, BeginResume, CommitResume,
              RowsOK, hosts
<1>5. ASSUME NEW w \in Workers, Runner(w) PROVE RowsOK'
  BY <1>5 DEF Runner, OpenTurn, SessionStarted, EndTurn, Gone, Revoke, Forget, RowsOK, hosts, rows
<1>6. ASSUME NEW w \in Workers, Agent(w) PROVE RowsOK'
  BY <1>6, DraftTyped DEF Agent, RaiseIssue, ProposeSpec, RowsOK, hosts
<1>7. ASSUME NEW w \in Workers, Restart(w) PROVE RowsOK'
  BY <1>7 DEF Restart, RowsOK
<1>8. ASSUME NEW w \in Workers, Faults(w) PROVE RowsOK'
  <2>0. /\ worker \in [Workers -> {"up", "down"}] /\ stale \in [Workers -> BOOLEAN]
        /\ faults \in Nat /\ MaxFaults \in Nat
    BY DEF RowsOK
  <2>1. CASE Crash(w)
    <3>1. faults' \in 0 .. MaxFaults /\ worker' \in [Workers -> {"up", "down"}]
      BY <2>0, <2>1 DEF Crash
    <3> QED
      BY <2>1, <3>1 DEF Crash, RowsOK
  <2>5. CASE HeartbeatStale(w)
    <3>1. stale' \in [Workers -> BOOLEAN]
      BY <2>0, <2>5 DEF HeartbeatStale
    <3> QED
      BY <2>5, <3>1 DEF HeartbeatStale, RowsOK, rows
  <2>2. ASSUME NEW i \in Pending, ResumeRefused(w, i) PROVE RowsOK'
    BY <2>2 DEF ResumeRefused, RowsOK
  <2>3. ASSUME NEW s \in Sessions, RunFails(w, s) PROVE RowsOK'
    BY <2>3 DEF RunFails, RowsOK, hosts
  <2> QED
    BY <1>8, <2>1, <2>2, <2>3, <2>5 DEF Faults
<1> QED
  BY <1>1, <1>2, <1>3, <1>4, <1>5, <1>6, <1>7, <1>8 DEF Next

\* An update of a row that no run notices but one that polls it: it starts no
\* session, and a turn keeps its token.
Settled(r, n) ==
  /\ n.state = "NONE" <=> r.state = "NONE"
  /\ n.host \in {r.host, None}
  /\ n.state \in LiveStates => r.state \in LiveStates
  /\ n.state \in TurnStates => /\ r.state \in TurnStates
                              /\ n.token = r.token /\ n.host = r.host

Row == [state : ExecutionStates \cup {"NONE"}, host : Workers \cup {None},
        token : BOOLEAN, issue : BOOLEAN]

LEMMA SessionsSettle ==
  ASSUME Fits, RowsOK', UNCHANGED <<run, blocking, worker>>, session' \in [Sessions -> Row],
         \A s \in Sessions : Settled(session[s], session'[s]),
         \/ task' = task
         \/ \A s \in Sessions : session'[s].state \notin LiveStates
  PROVE Fits'
<1>1. SessionOK' /\ RunOK' /\ BlockingOK'
  BY DEF Fits, SessionOK, RunOK, BlockingOK, Row
<1>2. RunFits'
  BY DEF Fits, RunFits, Settled, Up, BlockingOK
<1>3. AtMostOne(LiveSpec)' /\ LiveOnlyWhileDrafting'
  BY DEF Fits, AtMostOne, LiveOnlyWhileDrafting, LiveSpec, InState, Settled
<1>4. TurnHasToken'
  BY DEF Fits, TurnHasToken, Settled
<1> QED
  BY <1>1, <1>2, <1>3, <1>4 DEF Fits

LEMMA EndsTyped ==
  /\ [NoSession EXCEPT !.state = "FAILED"] \in Row
  /\ [NoSession EXCEPT !.state = "CANCELLED"] \in Row
  /\ [NoSession EXCEPT !.state = "FAILED"].host = None
  /\ [NoSession EXCEPT !.state = "CANCELLED"].host = None
  /\ [NoSession EXCEPT !.state = "FAILED"].state = "FAILED"
  /\ [NoSession EXCEPT !.state = "CANCELLED"].state = "CANCELLED"
BY States DEF NoSession, Row

\* Sessions that end settle.
LEMMA EndSettles ==
  ASSUME SessionOK, NEW S \in SUBSET Sessions, NEW state \in {"FAILED", "CANCELLED"},
         \A s \in S : session[s].state # "NONE",
         EndSessions(S, state)
  PROVE  /\ session' \in [Sessions -> Row]
         /\ \A s \in Sessions : Settled(session[s], session'[s])
         /\ \A s \in S : session'[s].state = state
         /\ \A s \in Sessions \ S : session'[s] = session[s]
<1> DEFINE n == [NoSession EXCEPT !.state = state]
<1>1. n \in Row /\ n.host = None /\ n.state = state
  BY EndsTyped
<1>2. session' = [s \in Sessions |-> IF s \in S THEN n ELSE session[s]]
  BY DEF EndSessions
<1>3. session \in [Sessions -> Row]
  BY DEF SessionOK, Row
<1> HIDE DEF n
<1> QED
  BY <1>1, <1>2, <1>3 DEF Settled, LiveStates, TurnStates

\* An update of one row.
LEMMA OneSettles ==
  ASSUME SessionOK, NEW s \in Sessions, NEW r \in Row, Settled(session[s], r),
         session' = [session EXCEPT ![s] = r]
  PROVE  /\ session' \in [Sessions -> Row]
         /\ \A x \in Sessions : Settled(session[x], session'[x])
BY DEF SessionOK, Row, Settled

LEMMA UserFits == ASSUME Fits, RowsOK', User PROVE Fits'
<1> USE SpecAssumption, States DEF memory, hosts
<1>0. SessionOK /\ session \in [Sessions -> Row]
  BY DEF Fits, SessionOK, Row
<1>1. CASE StartSession \/ SendMessage \/ SaveDraft \/ SendBack \/ Reopen
  BY <1>1, SessionsKept
  DEF StartSession, SendMessage, SaveDraft, SendBack, Reopen
<1>2. CASE Approve \/ Revise \/ ResolveAsRevision
  BY <1>2, SessionsKept DEF Approve, Revise, ResolveAsRevision
<1>3. CASE RequestReview
  <2>1. ASSUME NEW s \in Sessions
        PROVE  /\ session'[s] \in Row /\ Settled(session[s], session'[s])
               /\ session'[s].state \notin LiveStates
    <3>1. CASE session[s].state = "RUNNING"
      <4>1. session'[s] = [session[s] EXCEPT !.state = "COMPLETED", !.token = FALSE]
        BY <1>3, <3>1 DEF RequestReview
      <4>2. session[s] \in Row
        BY <1>0
      <4> QED
        BY <3>1, <4>1, <4>2 DEF Row, Settled, LiveStates, TurnStates
    <3>2. CASE session[s].state # "RUNNING"
      <4>1. session'[s] = session[s] /\ session[s].state \notin BusyStates
        BY <1>3, <3>2 DEF RequestReview, InState
      <4> QED
        BY <1>0, <3>2, <4>1 DEF Settled, LiveStates, TurnStates, BusyStates
    <3> QED
      BY <3>1, <3>2
  <2>2. session' \in [Sessions -> Row]
    BY <1>3, <2>1 DEF RequestReview
  <2> QED
    BY <1>3, <2>1, <2>2, SessionsSettle DEF RequestReview
<1>4. CASE Cancel
  <2>1. /\ EndSessions(LiveSpec, "CANCELLED") /\ UNCHANGED <<run, blocking, worker>>
        /\ LiveSpec \in SUBSET Sessions /\ \A s \in LiveSpec : session[s].state # "NONE"
    BY <1>4 DEF Cancel, LiveSpec, InState, LiveStates
  <2>2. /\ session' \in [Sessions -> Row]
        /\ \A s \in Sessions : Settled(session[s], session'[s])
        /\ \A s \in LiveSpec : session'[s].state = "CANCELLED"
        /\ \A s \in Sessions \ LiveSpec : session'[s] = session[s]
    BY <1>0, <2>1, EndSettles
  <2>3. \A s \in Sessions : session'[s].state \notin LiveStates
    BY <2>2 DEF LiveSpec, InState, LiveStates
  <2> QED
    BY <2>1, <2>2, <2>3, SessionsSettle
<1>5. ASSUME NEW s \in Sessions, ClarifyIssue(s) PROVE Fits'
  <2> DEFINE r == [session[s] EXCEPT !.issue = FALSE]
  <2>0. session[s] \in Row
    BY <1>0
  <2>1. r \in Row /\ Settled(session[s], r)
    <3>1. /\ r \in Row /\ r.state = session[s].state /\ r.host = session[s].host
          /\ r.token = session[s].token
      BY <2>0 DEF Row
    <3> QED
      BY <3>1 DEF Settled
  <2>2. session' = [session EXCEPT ![s] = r] /\ task' = task /\ UNCHANGED <<run, blocking, worker>>
    BY <1>0, <1>5 DEF ClarifyIssue
  <2> HIDE DEF r
  <2> QED
    BY <1>0, <2>1, <2>2, OneSettles, SessionsSettle
<1> QED
  BY <1>1, <1>2, <1>3, <1>4, <1>5 DEF User

LEMMA SweeperFits == ASSUME Fits, RowsOK', Sweeper PROVE Fits'
<1> USE SpecAssumption, States DEF memory, hosts
<1>0. SessionOK /\ session \in [Sessions -> Row]
  BY DEF Fits, SessionOK, Row
<1>1. ASSUME NEW s \in Sessions, FailOrphan(s) PROVE Fits'
  <2>1. /\ EndSessions({s}, "FAILED") /\ UNCHANGED <<task, run, blocking, worker>>
        /\ session[s].state # "NONE"
    BY <1>1 DEF FailOrphan, Orphan
  <2> QED
    BY <1>0, <2>1, EndSettles, SessionsSettle
<1>2. ASSUME NEW s \in Sessions, ReleaseHost(s) PROVE Fits'
  <2> DEFINE r == [session[s] EXCEPT !.host = None]
  <2>1. r \in Row /\ Settled(session[s], r)
    BY <1>0, <1>2 DEF ReleaseHost, Row, Settled, TurnStates, LiveStates
  <2>2. session' = [session EXCEPT ![s] = r] /\ task' = task /\ UNCHANGED <<run, blocking, worker>>
    BY <1>0, <1>2 DEF ReleaseHost
  <2> HIDE DEF r
  <2> QED
    BY <1>0, <2>1, <2>2, OneSettles, SessionsSettle
<1> QED
  BY <1>1, <1>2 DEF Sweeper

Phases == {"idle", "resuming", "preparing", "session", "closing", "revoked"}

LEMMA OneRun ==
  ASSUME RunOK, NEW w \in Workers, NEW s \in Sessions, NEW phase \in Phases,
         Phase(w, s, phase)
  PROVE  /\ RunOK' /\ run'[w][s].phase = phase
         /\ \A v \in Workers, x \in Sessions : v # w \/ x # s => run'[v][x] = run[v][x]
<1> DEFINE R == [phase : Phases, from : ExecutionStates \cup {"NONE"}]
           r == [run[w][s] EXCEPT !.phase = phase]
           m == [run[w] EXCEPT ![s] = r]
<1>1. run \in [Workers -> [Sessions -> R]]
  BY DEF RunOK, Phases
<1>2. run[w] \in [Sessions -> R] /\ run[w][s] \in R
  BY <1>1
<1>3. r \in R /\ r.phase = phase
  BY <1>2
<1>4. run' = [run EXCEPT ![w] = m]
  BY DEF Phase
<1> HIDE DEF r, R
<1>5. m \in [Sessions -> R] /\ m[s] = r /\ \A x \in Sessions : x # s => m[x] = run[w][x]
  BY <1>2, <1>3
<1> HIDE DEF m
<1>6. run' \in [Workers -> [Sessions -> R]] /\ run'[w] = m
      /\ \A v \in Workers : v # w => run'[v] = run[v]
  BY <1>1, <1>4, <1>5
<1>7. RunOK'
  BY <1>6 DEF R, RunOK, Phases
<1> QED
  BY <1>3, <1>5, <1>6, <1>7

\* One run goes on; no run of the session exists elsewhere, so nothing else
\* changes for the others.
LEMMA CommandFits ==
  ASSUME Fits, RowsOK', NEW w \in Workers, Commands(w)
  PROVE  Fits'
<1> USE SpecAssumption, States DEF memory, hosts
<1>0. SessionOK /\ session \in [Sessions -> Row]
  BY DEF Fits, SessionOK, Row
<1>1. CASE ClaimCommands(w)
  BY <1>1, SessionsKept DEF ClaimCommands
<1>2. ASSUME NEW i \in Pending, HandleStart(w, i) PROVE Fits'
  <2>1. CASE UNCHANGED <<session, run>>
    BY <1>2, <2>1, SessionsKept DEF HandleStart
  <2>2. ASSUME NEW s \in InState({"NONE"}), MayStart,
               session' = [session EXCEPT ![s] =
                             [NoSession EXCEPT !.state = "ASSIGNED", !.host = w]],
               run' = [run EXCEPT ![w][s].phase = "preparing"]
        PROVE  Fits'
    <3> DEFINE n == [NoSession EXCEPT !.state = "ASSIGNED", !.host = w]
    <3>1. s \in Sessions /\ session[s].state = "NONE" /\ Up(w)
      BY <1>2, <2>2 DEF InState, HandleStart, NextInBatch
    <3>2. n \in Row /\ n.state = "ASSIGNED" /\ n.host = w
      BY DEF NoSession, Row
    <3>3. session' = [session EXCEPT ![s] = n]
      BY <2>2
    <3> HIDE DEF n
    <3>4. /\ session' \in [Sessions -> Row] /\ session'[s] = n
          /\ \A x \in Sessions \ {s} : session'[x] = session[x]
      BY <1>0, <3>1, <3>2, <3>3
    <3>5. \A v \in Workers : run[v][s].phase = "idle" /\ s \notin blocking[v]
      BY <3>1 DEF Fits, RunFits, RunOK, BlockingOK
    <3>6. /\ RunOK' /\ run'[w][s].phase = "preparing"
          /\ \A v \in Workers, x \in Sessions : v # w \/ x # s => run'[v][x] = run[v][x]
      <4>1. Phase(w, s, "preparing")
        BY <2>2 DEF Phase
      <4> QED
        BY <3>1, <4>1, OneRun DEF Fits, Phases
    <3>7. task = "SPEC_IN_PROGRESS" /\ task' = task /\ UNCHANGED <<worker, blocking>>
      BY <1>2, <2>2 DEF MayStart, HandleStart
    <3>8. \A x \in Sessions : session[x].state \notin LiveStates
      BY <2>2 DEF MayStart, LiveSpec, InState
    <3>9. SessionOK' /\ BlockingOK'
      BY <3>4, <3>5, <3>6, <3>7 DEF SessionOK, Row, BlockingOK, Fits
    <3>10. RunFits'
      BY <3>1, <3>2, <3>4, <3>5, <3>6, <3>7 DEF RunFits, Fits, Up, BlockingOK
    <3>11. AtMostOne(LiveSpec)' /\ LiveOnlyWhileDrafting'
      BY <3>2, <3>4, <3>7, <3>8 DEF AtMostOne, LiveOnlyWhileDrafting, LiveSpec, InState
    <3>12. TurnHasToken'
      BY <3>4, <3>5, <3>6 DEF TurnHasToken, Fits
    <3> QED
      BY <3>6, <3>9, <3>10, <3>11, <3>12 DEF Fits
  <2> QED
    BY <1>2, <2>1, <2>2 DEF HandleStart
<1>3. ASSUME NEW i \in Pending, HandleRevision(w, i) PROVE Fits'
  BY <1>3, SessionsKept DEF HandleRevision
<1>4. ASSUME NEW i \in Pending, BeginResume(w, i) PROVE Fits'
  <2> DEFINE s == cmd[i].of
  <2>1. CASE UNCHANGED run
    BY <1>4, <2>1, SessionsKept DEF BeginResume
  <2>2. CASE ~UNCHANGED run
    <3>1. PICK x \in Sessions : x = s
      BY <1>4 DEF BeginResume
    <3>2. /\ session[x].state \in {"RUNNING", "COMPLETED", "WAITING_FOR_USER"}
          /\ run[w][x].phase = "idle" /\ session[x].host = w /\ Up(w)
          /\ run' = [run EXCEPT ![w][x] = [phase |-> "resuming", from |-> session[x].state]]
          /\ UNCHANGED <<task, session, blocking, worker>>
      <4>1. \A kind : ResumableFrom(kind) \subseteq {"RUNNING", "COMPLETED", "WAITING_FOR_USER"}
        BY DEF ResumableFrom
      <4>2. /\ session[x].state \in ResumableFrom(cmd[i].kind)
            /\ run[w][x].phase = "idle" /\ session[x].host = w
            /\ run' = [run EXCEPT ![w][x] = [phase |-> "resuming", from |-> session[x].state]]
        BY <1>4, <2>2, <3>1 DEF BeginResume
      <4> QED
        BY <1>4, <4>1, <4>2 DEF BeginResume, NextInBatch
    <3>3. /\ RunOK' /\ run'[w][x] = [phase |-> "resuming", from |-> session[x].state]
          /\ \A v \in Workers, y \in Sessions : v # w \/ y # x => run'[v][y] = run[v][y]
      BY <1>0, <3>2 DEF Fits, RunOK, Row
    <3>4. SessionOK' /\ BlockingOK' /\ RunFits'
      BY <3>2, <3>3 DEF SessionOK, BlockingOK, RunFits, Fits, Up
    <3>5. AtMostOne(LiveSpec)' /\ LiveOnlyWhileDrafting' /\ TurnHasToken'
      BY <3>2, <3>3 DEF AtMostOne, LiveOnlyWhileDrafting, LiveSpec, InState, TurnHasToken, Fits
    <3> QED
      BY <3>3, <3>4, <3>5 DEF Fits
  <2> QED
    BY <2>1, <2>2
<1>5. ASSUME NEW i \in Pending, CommitResume(w, i) PROVE Fits'
  <2>1. PICK x \in Sessions : x = cmd[i].of
    BY <1>5 DEF CommitResume
  <2>2. /\ Up(w) /\ run[w][x].phase = "resuming"
        /\ UNCHANGED <<task, blocking, worker>>
        /\ x \notin blocking[w] /\ run[w][x].from \in {"RUNNING", "WAITING_FOR_USER", "COMPLETED"}
    BY <1>5, <2>1 DEF CommitResume, NextInBatch, Fits, RunFits
  <2>3. CASE run' = [run EXCEPT ![w][x] = Idle] /\ UNCHANGED session
    <3>1. /\ RunOK' /\ run'[w][x].phase = "idle"
          /\ \A v \in Workers, y \in Sessions : v # w \/ y # x => run'[v][y] = run[v][y]
      BY <2>3 DEF Fits, RunOK, Idle
    <3>2. SessionOK' /\ BlockingOK' /\ RunFits'
      BY <2>2, <2>3, <3>1 DEF SessionOK, BlockingOK, RunFits, Fits, Up
    <3>3. AtMostOne(LiveSpec)' /\ LiveOnlyWhileDrafting' /\ TurnHasToken'
      BY <2>2, <2>3, <3>1 DEF AtMostOne, LiveOnlyWhileDrafting, LiveSpec, InState, TurnHasToken, Fits
    <3> QED
      BY <3>1, <3>2, <3>3 DEF Fits
  <2>4. CASE /\ session[x].state = run[w][x].from /\ session[x].host = w
             /\ ~NotWhileDrafting(run[w][x].from) /\ ~SecondSession(run[w][x].from)
             /\ run' = [run EXCEPT ![w][x] = [Idle EXCEPT !.phase = "preparing"]]
             /\ session' = [session EXCEPT ![x].state = "RUNNING"]
    <3> DEFINE n == [session[x] EXCEPT !.state = "RUNNING"]
    <3>1. session[x] \in Row
      BY <1>0
    <3>2. n \in Row /\ n.state = "RUNNING" /\ n.host = w
      BY <2>4, <3>1 DEF Row
    <3>3. session' = [session EXCEPT ![x] = n]
      BY <1>0, <2>4
    <3> HIDE DEF n
    <3>4. /\ session' \in [Sessions -> Row] /\ session'[x] = n
          /\ \A y \in Sessions \ {x} : session'[y] = session[y]
      BY <1>0, <3>2, <3>3
    <3>5. /\ RunOK' /\ run'[w][x].phase = "preparing"
          /\ \A v \in Workers, y \in Sessions : v # w \/ y # x => run'[v][y] = run[v][y]
      BY <2>4 DEF Fits, RunOK, Idle
    <3>6. \/ session[x].state \in LiveStates
          \/ task = "SPEC_IN_PROGRESS" /\ \A y \in Sessions : session[y].state \notin LiveStates
      BY <2>2, <2>4 DEF NotWhileDrafting, SecondSession, LiveSpec, InState, LiveStates
    <3>7. SessionOK' /\ BlockingOK'
      BY <2>2, <3>4, <3>5 DEF SessionOK, Row, BlockingOK, Fits
    <3>8. RunFits'
      BY <2>2, <2>4, <3>2, <3>4, <3>5 DEF RunFits, Fits, Up
    <3>9. AtMostOne(LiveSpec)' /\ LiveOnlyWhileDrafting'
      BY <2>2, <3>2, <3>4, <3>6 DEF AtMostOne, LiveOnlyWhileDrafting, LiveSpec, InState, Fits
    <3>10. TurnHasToken'
      BY <2>4, <3>4, <3>5 DEF TurnHasToken, Fits, RunFits
    <3> QED
      BY <3>5, <3>7, <3>8, <3>9, <3>10 DEF Fits
  <2> QED
    BY <1>5, <2>1, <2>3, <2>4 DEF CommitResume
<1> QED
  BY <1>1, <1>2, <1>3, <1>4, <1>5 DEF Commands

LEMMA RunnerFits ==
  ASSUME Fits, RowsOK', NEW w \in Workers, Runner(w) \/ Agent(w) \/ \E s \in Sessions : RunFails(w, s)
  PROVE  Fits'
<1> USE SpecAssumption, States DEF memory, hosts, rows
<1>0. SessionOK /\ session \in [Sessions -> Row]
  BY DEF Fits, SessionOK, Row
\* The run goes to a phase in which no turn is under way, or opens one.
<1>1. ASSUME NEW s \in Sessions, run[w][s].phase \in {"preparing", "session", "closing"},
             NEW phase \in {"session", "closing", "revoked"}, Phase(w, s, phase),
             NEW r \in Row, session' = [session EXCEPT ![s] = r],
             r.state = "NONE" <=> session[s].state = "NONE",
             r.host = session[s].host \/ (r.host = None /\ r.state \notin TurnStates),
             r.state \in LiveStates => session[s].state \in LiveStates,
             r.state \in TurnStates => session[s].state \in TurnStates,
             phase = "session" => (r.state \in TurnStates => r.token),
             UNCHANGED <<task, worker, blocking>>
      PROVE  Fits'
  <2>1. /\ session' \in [Sessions -> Row] /\ session'[s] = r
        /\ \A x \in Sessions \ {s} : session'[x] = session[x]
    BY <1>0, <1>1
  <2>2. /\ RunOK' /\ run'[w][s].phase = phase
        /\ \A v \in Workers, x \in Sessions : v # w \/ x # s => run'[v][x] = run[v][x]
    BY <1>1, OneRun DEF Fits, Phases
  <2>3. SessionOK' /\ BlockingOK'
    BY <1>1, <2>1, <2>2 DEF SessionOK, Row, BlockingOK, Fits
  <2>4. RunFits'
    <3>1. ASSUME NEW v \in Workers, NEW x \in Sessions, run'[v][x].phase # "idle"
          PROVE  /\ Up(v)' /\ session'[x].state # "NONE"
                 /\ \/ session'[x].host = v
                    \/ session'[x].host = None /\ session'[x].state \notin TurnStates
                 /\ run'[v][x].phase = "resuming" =>
                      run'[v][x].from \in {"RUNNING", "WAITING_FOR_USER", "COMPLETED"}
      <4>1. CASE v = w /\ x = s
        BY <1>1, <2>1, <2>2, <4>1 DEF RunFits, Fits, Up
      <4>2. CASE x # s
        BY <1>1, <2>1, <2>2, <3>1, <4>2 DEF RunFits, Fits, Up
      <4>3. CASE v # w /\ x = s
        <5>1. run'[v][x] = run[v][x]
          BY <2>2, <4>3
        <5> QED
          BY <1>1, <2>1, <3>1, <4>3, <5>1 DEF RunFits, Fits, Up
      <4> QED
        BY <4>1, <4>2, <4>3
    <3>2. ASSUME NEW v \in Workers, NEW x \in blocking'[v]
          PROVE  run'[v][x].phase \in {"session", "closing", "revoked"}
      <4>1. x \in Sessions /\ x \in blocking[v]
        BY <1>1 DEF BlockingOK, Fits
      <4> QED
        BY <1>1, <2>2, <4>1 DEF RunFits, Fits
    <3> QED
      BY <3>1, <3>2 DEF RunFits
  <2>5. AtMostOne(LiveSpec)' /\ LiveOnlyWhileDrafting'
    BY <1>1, <2>1 DEF AtMostOne, LiveOnlyWhileDrafting, LiveSpec, InState, Fits
  <2>6. TurnHasToken'
    <3> SUFFICES ASSUME NEW v \in Workers, NEW x \in Sessions,
                        run'[v][x].phase = "session", session'[x].state \in TurnStates
                 PROVE  session'[x].token
      BY DEF TurnHasToken
    <3>1. CASE x # s
      BY <2>1, <2>2, <3>1 DEF TurnHasToken, Fits
    <3>2. CASE x = s /\ v = w
      BY <1>1, <2>1, <2>2, <3>2
    <3>3. CASE x = s /\ v # w
      <4>1. run[v][x].phase = "session" /\ run[w][x].phase # "idle"
        BY <1>1, <2>2, <3>3
      <4>2. session[x].state \notin TurnStates
        BY <3>3, <4>1, SpecAssumption DEF RunFits, Fits
      <4> QED
        BY <1>1, <2>1, <3>3, <4>2
    <3> QED
      BY <3>1, <3>2, <3>3
  <2> QED
    BY <2>2, <2>3, <2>4, <2>5, <2>6 DEF Fits
<1>2. ASSUME NEW s \in Sessions, run[w][s].phase \in {"preparing", "session", "closing"},
             NEW phase \in {"closing", "revoked"}, Phase(w, s, phase), UNCHANGED session,
             UNCHANGED <<task, worker, blocking>>
      PROVE  Fits'
  <2>1. session[s] \in Row /\ session' = [session EXCEPT ![s] = session[s]]
    BY <1>0, <1>2
  <2>2. session[s].host = session[s].host
    OBVIOUS
  <2> QED
    BY <1>1, <1>2, <2>1
<1>3. ASSUME NEW s \in Sessions PROVE session[s] \in Row
  BY <1>0
<1>4. ASSUME NEW s \in Sessions, OpenTurn(w, s) PROVE Fits'
  <2>1. CASE session[s].state \in TurnStates
    <3> DEFINE r == [session[s] EXCEPT !.token = TRUE]
    <3>1. /\ r \in Row /\ r.state = session[s].state /\ r.host = session[s].host /\ r.token
      BY <1>3 DEF Row
    <3>2. session' = [session EXCEPT ![s] = r]
      BY <1>0, <1>4, <2>1 DEF OpenTurn
    <3> HIDE DEF r
    <3> QED
      BY <1>1, <1>4, <2>1, <3>1, <3>2 DEF OpenTurn, RunsAt
  <2>2. CASE session[s].state \notin TurnStates
    BY <1>2, <1>4, <2>2 DEF OpenTurn, RunsAt
  <2> QED
    BY <2>1, <2>2
<1>5. ASSUME NEW s \in Sessions, SessionStarted(w, s) PROVE Fits'
  <2> DEFINE r == [session[s] EXCEPT !.state = "RUNNING"]
  <2>1. /\ r \in Row /\ r.state = "RUNNING" /\ r.host = session[s].host
        /\ r.token = session[s].token /\ session[s].state = "ASSIGNED"
    BY <1>3, <1>5 DEF Row, SessionStarted
  <2>2. Settled(session[s], r)
    BY <2>1 DEF Settled, LiveStates, TurnStates
  <2>3. session' = [session EXCEPT ![s] = r]
    BY <1>0, <1>5 DEF SessionStarted, SetSession
  <2> HIDE DEF r
  <2> QED
    BY <1>0, <1>5, <2>1, <2>2, <2>3, OneSettles, SessionsSettle DEF SessionStarted
<1>6. ASSUME NEW s \in Sessions, EndTurn(w, s) PROVE Fits'
  <2>1. CASE UNCHANGED session
    BY <1>2, <1>6, <2>1 DEF EndTurn, RunsAt
  <2>2. CASE session[s].state = "RUNNING" /\ SetSession(s, "WAITING_FOR_USER")
    <3> DEFINE r == [session[s] EXCEPT !.state = "WAITING_FOR_USER"]
    <3>1. /\ r \in Row /\ r.state = "WAITING_FOR_USER" /\ r.host = session[s].host
      BY <1>3 DEF Row
    <3>2. session' = [session EXCEPT ![s] = r]
      BY <1>0, <2>2 DEF SetSession
    <3> HIDE DEF r
    <3> QED
      BY <1>1, <1>6, <2>2, <3>1, <3>2 DEF EndTurn, RunsAt, LiveStates, TurnStates
  <2> QED
    BY <1>6, <2>1, <2>2 DEF EndTurn
<1>7. ASSUME NEW s \in Sessions, Gone(w, s) PROVE Fits'
  BY <1>2, <1>7 DEF Gone, RunsAt
<1>8. ASSUME NEW s \in Sessions, Revoke(w, s) PROVE Fits'
  <2> DEFINE r == [session[s] EXCEPT !.token = FALSE]
  <2>1. /\ r \in Row /\ r.state = session[s].state /\ r.host = session[s].host
    BY <1>3 DEF Row
  <2>2. session' = [session EXCEPT ![s] = r]
    BY <1>0, <1>8 DEF Revoke
  <2> HIDE DEF r
  <2> QED
    BY <1>1, <1>8, <2>1, <2>2 DEF Revoke, RunsAt
<1>9. ASSUME NEW s \in Sessions, Forget(w, s) PROVE Fits'
  <2>1. /\ run[w][s].phase = "revoked" /\ UNCHANGED <<task, session, worker>>
        /\ run' = [run EXCEPT ![w][s] = Idle]
        /\ blocking' = [blocking EXCEPT ![w] = @ \ {s}]
    BY <1>9 DEF Forget, RunsAt
  <2>2. /\ RunOK' /\ run'[w][s] = Idle
        /\ \A v \in Workers, x \in Sessions : v # w \/ x # s => run'[v][x] = run[v][x]
    BY <2>1 DEF Fits, RunOK, Idle
  <2>3. /\ blocking' \in [Workers -> SUBSET Sessions]
        /\ \A v \in Workers : \A x \in blocking'[v] : x \in blocking[v] /\ (v # w \/ x # s)
    BY <2>1 DEF Fits, BlockingOK
  <2>4. SessionOK' /\ BlockingOK' /\ RunFits'
    BY <2>1, <2>2, <2>3 DEF SessionOK, BlockingOK, RunFits, Fits, Up, Idle
  <2>5. AtMostOne(LiveSpec)' /\ LiveOnlyWhileDrafting' /\ TurnHasToken'
    BY <2>1, <2>2 DEF AtMostOne, LiveOnlyWhileDrafting, LiveSpec, InState, TurnHasToken, Fits, Idle
  <2> QED
    BY <2>2, <2>4, <2>5 DEF Fits
<1>10. ASSUME NEW s \in Sessions, RaiseIssue(w, s) PROVE Fits'
  <2> DEFINE r == [session[s] EXCEPT !.issue = TRUE]
  <2>1. /\ r \in Row /\ r.state = session[s].state /\ r.host = session[s].host
        /\ r.token = session[s].token
    BY <1>3 DEF Row
  <2>2. session' = [session EXCEPT ![s] = r]
    BY <1>0, <1>10 DEF RaiseIssue
  <2> HIDE DEF r
  <2>3. /\ session' \in [Sessions -> Row] /\ session'[s] = r
        /\ \A x \in Sessions \ {s} : session'[x] = session[x]
    BY <1>0, <2>1, <2>2
  <2>4. /\ run[w][s].phase = "session" /\ UNCHANGED <<task, run, worker>>
        /\ blocking' = [blocking EXCEPT ![w] = @ \cup {s}]
    BY <1>10 DEF RaiseIssue, Authorized, RunsAt
  <2>5. /\ blocking' \in [Workers -> SUBSET Sessions]
        /\ \A v \in Workers : \A x \in blocking'[v] : x \in blocking[v] \/ (v = w /\ x = s)
    BY <2>4 DEF Fits, BlockingOK
  <2>6. SessionOK' /\ RunOK'
    BY <2>3, <2>4 DEF SessionOK, Row, RunOK, Fits
  <2>8. BlockingOK'
    BY <2>4, <2>5 DEF BlockingOK, Fits
  <2>9. RunFits'
    BY <2>1, <2>3, <2>4, <2>5 DEF BlockingOK, RunFits, Fits, Up
  <2>7. AtMostOne(LiveSpec)' /\ LiveOnlyWhileDrafting' /\ TurnHasToken'
    BY <2>1, <2>3, <2>4 DEF AtMostOne, LiveOnlyWhileDrafting, LiveSpec, InState, TurnHasToken, Fits
  <2> QED
    BY <2>6, <2>7, <2>8, <2>9 DEF Fits
<1>11. ASSUME NEW s \in Sessions, ProposeSpec(w, s) PROVE Fits'
  BY <1>11, SessionsKept DEF ProposeSpec
<1>12. ASSUME NEW s \in Sessions, RunFails(w, s) PROVE Fits'
  <2>1. CASE session[s].state \in TurnStates
    <3> DEFINE r == [NoSession EXCEPT !.state = "FAILED"]
    <3>1. r \in Row /\ r.state = "FAILED" /\ r.host = None
      BY EndsTyped
    <3>2. session' = [session EXCEPT ![s] = r]
      BY <1>0, <1>12, <2>1 DEF RunFails, EndSessions, InState
    <3> HIDE DEF r
    <3> QED
      BY <1>1, <1>12, <2>1, <3>1, <3>2 DEF RunFails, RunsAt, LiveStates, TurnStates
  <2>2. CASE session[s].state \notin TurnStates
    <3>1. session' = session
      BY <1>0, <1>12, <2>2 DEF RunFails, EndSessions, InState
    <3> QED
      BY <1>2, <1>12, <3>1 DEF RunFails, RunsAt
  <2> QED
    BY <2>1, <2>2
<1> QED
  BY <1>4, <1>5, <1>6, <1>7, <1>8, <1>9, <1>10, <1>11, <1>12 DEF Runner, Agent

LEMMA HostFits ==
  ASSUME Fits, RowsOK', NEW w \in Workers,
         \/ Crash(w) \/ HeartbeatStale(w) \/ Restart(w)
         \/ \E i \in Pending : ResumeRefused(w, i)
  PROVE  Fits'
<1> USE SpecAssumption, States DEF memory, hosts, rows
<1>0. SessionOK /\ session \in [Sessions -> Row]
  BY DEF Fits, SessionOK, Row
<1>1. CASE Crash(w)
  <2>1. /\ worker' = [worker EXCEPT ![w] = "down"] /\ UNCHANGED <<task, session>>
        /\ run' = [run EXCEPT ![w] = [s \in Sessions |-> Idle]]
        /\ blocking' = [blocking EXCEPT ![w] = {}]
    BY <1>1 DEF Crash
  <2>2. /\ RunOK' /\ \A s \in Sessions : run'[w][s].phase = "idle"
        /\ \A v \in Workers : v # w => run'[v] = run[v] /\ Up(v)' = Up(v)
    BY <2>1 DEF Fits, RunOK, Idle, RowsOK, Up
  <2>3. /\ blocking' \in [Workers -> SUBSET Sessions] /\ blocking'[w] = {}
        /\ \A v \in Workers : v # w => blocking'[v] = blocking[v]
    BY <2>1 DEF Fits, BlockingOK
  <2>4. SessionOK' /\ BlockingOK' /\ RunFits'
    BY <2>1, <2>2, <2>3 DEF SessionOK, BlockingOK, RunFits, Fits
  <2>5. AtMostOne(LiveSpec)' /\ LiveOnlyWhileDrafting' /\ TurnHasToken'
    BY <2>1, <2>2 DEF AtMostOne, LiveOnlyWhileDrafting, LiveSpec, InState, TurnHasToken, Fits
  <2> QED
    BY <2>2, <2>4, <2>5 DEF Fits
<1>2. CASE HeartbeatStale(w)
  BY <1>2, SessionsKept DEF HeartbeatStale
<1>3. CASE Restart(w)
  <2>1. /\ worker' = [worker EXCEPT ![w] = "up"] /\ UNCHANGED <<task, run, blocking>>
        /\ worker[w] = "down"
    BY <1>3 DEF Restart
  <2>2. ASSUME NEW s \in Sessions
        PROVE  /\ session'[s] \in Row /\ session'[s].state = session[s].state
               /\ session'[s].host = session[s].host
               /\ session'[s] = session[s] \/ session[s].host = w
    <3>1. session[s] \in Row
      BY <1>0
    <3>2. session'[s] = session[s] \/ (session[s].host = w /\ session'[s] = [session[s] EXCEPT !.token = FALSE])
      BY <1>3 DEF Restart
    <3> QED
      BY <3>1, <3>2 DEF Row
  <2>3. session' \in [Sessions -> Row]
    BY <1>3, <2>2 DEF Restart
  <2>4. /\ \A s \in Sessions : run[w][s].phase = "idle"
        /\ \A v \in Workers : Up(v) => Up(v)'
    BY <2>1 DEF Fits, RunFits, RowsOK, Up
  <2>5. SessionOK' /\ RunOK' /\ BlockingOK'
    BY <2>1, <2>3 DEF SessionOK, Row, RunOK, BlockingOK, Fits
  <2>6. RunFits'
    BY <2>1, <2>2, <2>4 DEF RunFits, Fits, BlockingOK
  <2>7. AtMostOne(LiveSpec)' /\ LiveOnlyWhileDrafting'
    BY <2>1, <2>2 DEF AtMostOne, LiveOnlyWhileDrafting, LiveSpec, InState, Fits
  <2>8. TurnHasToken'
    <3> SUFFICES ASSUME NEW v \in Workers, NEW s \in Sessions,
                        run[v][s].phase = "session", session'[s].state \in TurnStates
                 PROVE  session'[s].token
      BY <2>1 DEF TurnHasToken
    <3>1. session[s].state \in TurnStates /\ session[s].token /\ session[s].host = v /\ v # w
      BY <2>2, <2>4 DEF Fits, TurnHasToken, RunFits
    <3> QED
      BY <2>2, <3>1
  <2> QED
    BY <2>5, <2>6, <2>7, <2>8 DEF Fits
<1>4. ASSUME NEW i \in Pending, ResumeRefused(w, i) PROVE Fits'
  <2>1. PICK s \in Sessions : s = cmd[i].of
    BY <1>4 DEF ResumeRefused
  <2>2. /\ run[w][s].phase = "resuming" /\ UNCHANGED <<task, session, worker, blocking>>
        /\ run' = [run EXCEPT ![w][s] = Idle] /\ s \notin blocking[w]
    BY <1>4, <2>1 DEF ResumeRefused, RunFits, Fits
  <2>3. /\ RunOK' /\ run'[w][s] = Idle
        /\ \A v \in Workers, x \in Sessions : v # w \/ x # s => run'[v][x] = run[v][x]
    BY <2>2 DEF Fits, RunOK, Idle
  <2>4. SessionOK' /\ BlockingOK' /\ RunFits'
    BY <2>2, <2>3 DEF SessionOK, BlockingOK, RunFits, Fits, Up, Idle
  <2>5. AtMostOne(LiveSpec)' /\ LiveOnlyWhileDrafting' /\ TurnHasToken'
    BY <2>2, <2>3 DEF AtMostOne, LiveOnlyWhileDrafting, LiveSpec, InState, TurnHasToken, Fits, Idle
  <2> QED
    BY <2>3, <2>4, <2>5 DEF Fits
<1> QED
  BY <1>1, <1>2, <1>3, <1>4

LEMMA FitsStep == ASSUME Fits, RowsOK', [Next]_vars PROVE Fits'
<1>1. CASE UNCHANGED vars
  BY <1>1, SessionsKept DEF vars
<1>2. CASE Implementation
  BY <1>2, SessionsKept DEF Implementation, hosts, memory
<1> QED
  BY <1>1, <1>2, UserFits, SweeperFits, CommandFits, RunnerFits, HostFits DEF Next, Faults

-----------------------------------------------------------------------------
(* The revisions                                                           *)

\* A new draft stands beside no other.
LEMMA DraftInserted ==
  ASSUME RowsOK, OneText, InsertDraft, ~HasDraft, task # "SPEC_REVIEW",
         task' = "SPEC_IN_PROGRESS"
  PROVE  OneText'
<1>1. PICK v \in Versions : /\ revision[v] = "none"
                            /\ revision' = [revision EXCEPT ![v] = "draft"]
  BY DEF InsertDraft, WithStatus
<1>2. /\ revision'[v] = "draft"
      /\ \A u \in Versions \ {v} : revision'[u] = revision[u]
      /\ \A u \in Versions : revision[u] # "draft"
  BY <1>1 DEF RowsOK, HasDraft, WithStatus
<1>3. ~written'
  BY DEF InsertDraft, Noted, OneText
<1> QED
  BY <1>1, <1>2, <1>3 DEF OneText, AtMostOne, WithStatus

LEMMA TextsKept ==
  ASSUME OneText, UNCHANGED <<revision, written>>,
         \/ task' \notin {"SPEC_APPROVED", "READY", "BLOCKED", "IMPLEMENTING"}
         \/ task \in {"SPEC_APPROVED", "READY", "BLOCKED", "IMPLEMENTING"}
         \/ HasApproved /\ ~HasDraft
  PROVE  OneText'
BY DEF OneText, AtMostOne, WithStatus, HasApproved, HasDraft

LEMMA TextStep ==
  ASSUME RowsOK, OneText, AtMostOne(LiveSpec), LiveOnlyWhileDrafting, [Next]_vars
  PROVE  OneText'
<1> USE Edges, TextsKept DEF hosts, memory, rows
<1>1. CASE UNCHANGED vars
  BY <1>1 DEF vars
<1>2. ASSUME UpsertDraft, task = "SPEC_IN_PROGRESS", task' = task PROVE OneText'
  <2>1. CASE HasDraft /\ Rewritten
    BY <1>2, <2>1 DEF Rewritten, Noted, OneText, AtMostOne, WithStatus
  <2>2. CASE ~HasDraft /\ InsertDraft
    BY <1>2, <2>2, DraftInserted
  <2> QED
    BY <1>2, <2>1, <2>2 DEF UpsertDraft
<1>3. CASE User
  <2>1. CASE StartSession \/ SendMessage \/ RequestReview \/ SendBack \/ Cancel
    BY <2>1 DEF StartSession, SendMessage, RequestReview, SendBack, Cancel
  <2>2. CASE SaveDraft
    BY <1>2, <2>2 DEF SaveDraft
  <2>3. CASE Approve
    <3>1. PICK v \in Versions : revision[v] = "draft"
      BY <2>3 DEF Approve, HasDraft, WithStatus
    <3>2. /\ revision'[v] = "approved"
          /\ \A u \in Versions \ {v} : revision'[u] \notin {"draft", "approved"}
      BY <2>3, <3>1 DEF Approve, Approved, OneText, AtMostOne, WithStatus
    <3>3. ~written'
      BY <2>3 DEF Approve, OneText
    <3> QED
      BY <3>2, <3>3 DEF OneText, AtMostOne, WithStatus, HasApproved, HasDraft
  <2>4. CASE Revise \/ ResolveAsRevision
    BY <2>4, DraftInserted DEF Revise, ResolveAsRevision
  <2>5. CASE Reopen
    BY <2>5 DEF Reopen
  <2>6. ASSUME NEW s \in Sessions, ClarifyIssue(s) PROVE OneText'
    BY <2>6 DEF ClarifyIssue
  <2> QED
    BY <1>3, <2>1, <2>2, <2>3, <2>4, <2>5, <2>6 DEF User
<1>4. CASE Implementation
  BY <1>4 DEF Implementation
<1>5. CASE Sweeper
  BY <1>5 DEF Sweeper, FailOrphan, ReleaseHost
<1>6. ASSUME NEW w \in Workers, Commands(w) PROVE OneText'
  BY <1>6 DEF Commands, ClaimCommands, HandleStart, HandleRevision, BeginResume, CommitResume
<1>7. ASSUME NEW w \in Workers, Runner(w) PROVE OneText'
  BY <1>7 DEF Runner, OpenTurn, SessionStarted, EndTurn, Gone, Revoke, Forget
<1>8. ASSUME NEW w \in Workers, Agent(w) PROVE OneText'
  <2>1. ASSUME NEW s \in Sessions, ProposeSpec(w, s) PROVE OneText'
    <3>1. task = "SPEC_IN_PROGRESS"
      BY <2>1 DEF ProposeSpec, Authorized, LiveOnlyWhileDrafting, LiveSpec, InState, LiveStates
    <3> QED
      BY <1>2, <2>1, <3>1 DEF ProposeSpec
  <2> QED
    BY <1>8, <2>1 DEF Agent, RaiseIssue
<1>9. ASSUME NEW w \in Workers, Restart(w) \/ Faults(w) PROVE OneText'
  BY <1>9 DEF Restart, Faults, Crash, HeartbeatStale, ResumeRefused, RunFails
<1> QED
  BY <1>1, <1>3, <1>4, <1>5, <1>6, <1>7, <1>8, <1>9 DEF Next

-----------------------------------------------------------------------------

LEMMA DraftInvInit == Init => DraftInv
<1> SUFFICES ASSUME Init PROVE DraftInv
  OBVIOUS
<1> USE SpecAssumption, States DEF Init
<1>0. MaxFaults \in Nat
  OBVIOUS
<1>1. RowsOK
  <2>1. /\ task \in TaskStates /\ work \in {"none", "running", "waiting"} /\ written \in BOOLEAN
        /\ revision \in [Versions -> {"none", "draft", "approved", "superseded"}]
    OBVIOUS
  <2>2. worker \in [Workers -> {"up", "down"}] /\ stale \in [Workers -> BOOLEAN]
    OBVIOUS
  <2>3. faults \in 0 .. MaxFaults
    BY <1>0
  <2> QED
    BY <2>1, <2>2, <2>3 DEF RowsOK
<1>5. SessionOK
  BY DEF SessionOK, NoSession
<1>6. RunOK /\ BlockingOK
  BY DEF RunOK, BlockingOK, Idle
<1>2. CmdOK
  BY DEF CmdOK, Pending
<1>3. RunFits /\ AtMostOne(LiveSpec) /\ LiveOnlyWhileDrafting /\ TurnHasToken
  BY DEF RunFits, Idle, AtMostOne, LiveOnlyWhileDrafting, TurnHasToken, LiveSpec, InState,
         LiveStates, NoSession
<1>4. OneText
  BY DEF OneText, AtMostOne, WithStatus
<1> QED
  BY <1>1, <1>2, <1>3, <1>4, <1>5, <1>6 DEF DraftInv, TypeOK

LEMMA DraftInvStep == DraftInv /\ [Next]_vars => DraftInv'
<1> SUFFICES ASSUME DraftInv, [Next]_vars PROVE DraftInv'
  OBVIOUS
<1>1. Fits /\ OneText /\ TypeOK
  BY DEF DraftInv, TypeOK, Fits
<1>2. CmdOK'
  BY <1>1, CmdStep
<1>3. RowsOK'
  BY <1>1, RowsStep DEF Fits
<1>4. Fits'
  BY <1>1, <1>3, FitsStep
<1>5. OneText'
  BY <1>1, TextStep DEF Fits
<1> QED
  BY <1>2, <1>3, <1>4, <1>5 DEF DraftInv, TypeOK, Fits

LEMMA AtMostOneCounts ==
  ASSUME NEW S, AtMostOne(S)
  PROVE  Cardinality(S) <= 1
<1>1. CASE S = {}
  BY <1>1, FS_EmptySet
<1>2. CASE S # {}
  <2>1. PICK x \in S : TRUE
    BY <1>2
  <2>2. S = {x}
    BY <2>1 DEF AtMostOne
  <2>3. Cardinality({x}) = 1
    BY FS_Singleton
  <2> QED
    BY <2>2, <2>3
<1> QED
  BY <1>1, <1>2

LEMMA DraftInvHolds == Spec => []DraftInv
BY DraftInvInit, DraftInvStep, PTL DEF Spec

\* At most one session of the task is live, only while the user is drafting, and
\* the agent of a turn has a token that works: whatever starts, send-backs,
\* answers and crashes were queued or interleaved before.
THEOREM SessionsFit == Spec => []SessionFits
<1>1. DraftInv => SessionFits
  BY AtMostOneCounts DEF DraftInv, SessionFits, OneLiveSession
<1> QED
  BY <1>1, DraftInvHolds, PTL

\* The approved text is the one that was reviewed: there is one draft and one
\* approved revision at most, no draft beside a task that may be implemented,
\* and nothing was written during a review.
THEOREM OneReviewedText == Spec => []RevisionsFit
<1>1. DraftInv => RevisionsFit
  BY AtMostOneCounts DEF DraftInv, RevisionsFit, OneOfEach, ReviewedIsFrozen, OneText
<1> QED
  BY <1>1, DraftInvHolds, PTL
=============================================================================

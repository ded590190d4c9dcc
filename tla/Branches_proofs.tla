---------------------------- MODULE Branches_proofs ----------------------------
(***************************************************************************)
(* Theorems about the branch of a task: where it is checked out, which     *)
(* module Worktrees is about, and the pull request it is offered with,     *)
(* which module PullRequests is about.  The two share no state, and each   *)
(* theorem is about the specification of one of them: for any number of    *)
(* pollers, pull requests, CI rounds and retries, and for any number of    *)
(* executions and commits.                                                 *)
(***************************************************************************)
EXTENDS PullRequests, Worktrees, FiniteSetTheorems, WellFoundedInduction, TLAPS

-----------------------------------------------------------------------------
(***************************************************************************)
(* Pull requests                                                           *)
(***************************************************************************)

LEMMA Limits == /\ MaxPulls \in Nat \ {0} /\ MaxHeads \in Nat \ {0} /\ MaxCiRounds \in Nat
                /\ MaxRetries \in Nat /\ MaxChecks \in Nat /\ SameHead \in BOOLEAN
                /\ Pulls \subseteq Nat \ {0} /\ Heads \subseteq Nat \ {0}
                /\ Pulls = 1 .. MaxPulls /\ Heads = 1 .. MaxHeads
                /\ Attempts = 1 .. MaxRetries + 1 /\ 1 \in Attempts
BY PullRequestsAssumption DEF Pulls, Heads, Attempts

-----------------------------------------------------------------------------
(* The invariant as a predicate of values                                  *)

Ends  == {"none", "open", "merged", "closed"}
Row   == [is : Ends, exec : {0} \cup Attempts, num : 0 .. MaxPulls, head : 0 .. MaxHeads,
          since : 0 .. MaxHeads, old : BOOLEAN]
Pull  == [is : Ends, head : 0 .. MaxHeads]
Poll  == [do : {"rest", "ask", "ask checks"} \cup Decisions, ci : BOOLEAN, exec : {0} \cup Attempts,
          num : 0 .. MaxPulls, head : 0 .. MaxHeads, since : 0 .. MaxHeads, new : 0 .. MaxHeads]
Seen  == [red : SUBSET Heads, green : SUBSET Heads]
Made  == [n : Nat, had : [Attempts -> SUBSET Heads]]
Count == [commits : 0 .. MaxHeads, retries : 0 .. MaxRetries, moves : Nat]
Tries == [Attempts -> [is : {"none", "live", "completed", "ended"}, rounds : Nat, asked : Nat]]
Runs  == {"none", "running", "failed", "passed"}

OpenIn(g) == {n \in Pulls : g[n].is # "none"}

HeadIn(g, n, h) ==
  /\ n \in OpenIn(g) /\ h \in Heads
  /\ SameHead \/ (h <= g[n].head /\ \A m \in OpenIn(g) : m < n => g[m].head < h)

\* The pull requests 1 .. k are open, and the commits 1 .. c pushed.
OrderIn(g, k, c) ==
  /\ OpenIn(g) = 1 .. k /\ \A m \in 1 .. k : m < k => g[m].is # "open"
  /\ \A m \in 1 .. k : HeadIn(g, m, g[m].head) /\ g[m].head <= c
  /\ k > 0 => g[k].head = c

PollIn(g, s, q) ==
  /\ q.do = "ask" => HeadIn(g, q.num, q.head)
  /\ q.do \in {"ask", "ask checks"} => q.since \in {0, q.head}
  /\ q.do \in {"merged", "closed"} => \E n \in OpenIn(g) : HeadIn(g, n, q.head) /\ g[n].is = q.do
  /\ q.do = "push" => \E n \in OpenIn(g) : HeadIn(g, n, q.head) /\ HeadIn(g, n, q.new)
  /\ q.do = "failed" => q.head \in s.red
  /\ q.do = "passed" => q.head \in s.green \/ q.since = q.head

RowIn(g, r) == /\ r \in Row /\ r.since \in {0, r.head}
               /\ r.is = "open" => HeadIn(g, r.num, r.head)

\* A verdict of the checks is for an execution that had the commit in the row.
ListedIn(p, q) ==
  (q.do = "ask" /\ q.ci) \/ q.do \in {"ask checks", "failed"} =>
    q.exec \in Attempts /\ q.head \in p.had[q.exec]

\* The reports that were made, the row and what the pollers carry
MadeIn(p, r, ps) ==
  /\ p \in Made /\ (r.is # "none" => r.exec \in Attempts /\ r.head \in p.had[r.exec])
  /\ \A w \in Pollers : ListedIn(p, ps[w])

ChargesOf(a) == UNION {{e} \X (1 .. a[e].rounds) : e \in Attempts}

\* Fewer rounds than reports, while a verdict is waited for
CountIn(t, a, k) ==
  /\ IsFiniteSet(ChargesOf(a)) /\ Cardinality(ChargesOf(a)) <= k
  /\ t \in {"CI_RUNNING", "READY_FOR_MERGE"} => Cardinality(ChargesOf(a)) < k

\* A task in state t, its executions a after k reports, and the row.
TaskIn(t, a, k, r) ==
  /\ t \in States /\ a \in Tries /\ CountIn(t, a, k)
  /\ t \in {"CI_RUNNING", "READY_FOR_MERGE"} => r.is = "open"
  /\ r.is = "merged" <=> t = "DONE"

ChecksIn(c, s) ==
  /\ c \in [Heads -> Runs] /\ s \in Seen
  /\ \A h \in Heads : (c[h] = "failed" => h \in s.red) /\ (c[h] = "passed" => h \in s.green)

PullsIn(g, b) ==
  g \in [Pulls -> Pull] /\ b \in Count /\ \E k \in 0 .. MaxPulls : OrderIn(g, k, b.commits)

LEMMA Parts ==
  ASSUME VerdictsFit
  PROVE  /\ PullsIn(gh, bounds) /\ ChecksIn(checks, seen) /\ RowIn(gh, row)
         /\ TaskIn(st, attempts, reports.n, row) /\ MadeIn(reports, row, poll)
         /\ poll \in [Pollers -> Poll] /\ \A w \in Pollers : PollIn(gh, seen, poll[w])
<1>1. PullsIn(gh, bounds)
  BY DEF VerdictsFit, PullsIn, OrderIn, HeadIn, OpenIn, PullsInOrder, HeadOf, Opened, Shapes, Pull,
         Ends, Count
<1>2. ChecksIn(checks, seen)
  <2>1. checks \in [Heads -> Runs]
    BY DEF VerdictsFit, RowFits, TypeOK, Runs
  <2>2. seen \in Seen /\ ChecksSeen
    BY DEF VerdictsFit, Shapes, Seen
  <2>3. \A h \in Heads : (checks[h] = "failed" => h \in seen.red) /\ (checks[h] = "passed" => h \in seen.green)
    BY <2>2 DEF ChecksSeen
  <2> QED
    BY <2>1, <2>2, <2>3 DEF ChecksIn
<1>3. RowIn(gh, row)
  BY DEF VerdictsFit, RowFits, TypeOK, Shapes, RowIn, Row, Ends, HeadIn, OpenIn, HeadOf, Opened
<1>4. TaskIn(st, attempts, reports.n, row)
  <2>1. attempts \in Tries
    BY DEF VerdictsFit, RowFits, TypeOK, Tries
  <2>2. CountIn(st, attempts, reports.n)
    BY DEF VerdictsFit, RowFits, RoundsCounted, Charges, ChargesOf, Actionable, CountIn
  <2> QED
    BY <2>1, <2>2 DEF VerdictsFit, RowFits, TypeOK, WaitsOnOpenRow, Actionable, TaskIn
<1>5. MadeIn(reports, row, poll) /\ poll \in [Pollers -> Poll]
  <2>1. reports \in Made /\ poll \in [Pollers -> Poll]
    BY DEF VerdictsFit, Shapes, Made, Poll
  <2>2. \A w \in Pollers : ListedIn(reports, poll[w])
    BY DEF VerdictsFit, PollFits, ListedIn
  <2> QED
    BY <2>1, <2>2 DEF VerdictsFit, MadeIn
<1>6. \A w \in Pollers : PollIn(gh, seen, poll[w])
  BY DEF VerdictsFit, PollFits, PollIn, HeadIn, OpenIn, HeadOf, Opened
<1> QED
  BY <1>1, <1>2, <1>3, <1>4, <1>5, <1>6

Whole ==
  /\ PullsIn(gh, bounds) /\ ChecksIn(checks, seen) /\ RowIn(gh, row)
  /\ TaskIn(st, attempts, reports.n, row) /\ MadeIn(reports, row, poll)
  /\ poll \in [Pollers -> Poll] /\ \A w \in Pollers : PollIn(gh, seen, poll[w])

LEMMA WholeFits == Whole => VerdictsFit
<1> SUFFICES ASSUME Whole PROVE VerdictsFit
  OBVIOUS
<1> USE DEF Whole
<1>1. Shapes
  BY DEF Shapes, PullsIn, ChecksIn, RowIn, Row, Pull, Ends, Poll, Seen, MadeIn, Made, Count
<1>2. PullsInOrder
  BY DEF PullsIn, OrderIn, HeadIn, OpenIn, PullsInOrder, HeadOf, Opened
<1>3. ChecksSeen
  BY DEF ChecksIn, ChecksSeen
<1>4. row.is = "open" => HeadOf(row.num, row.head)
  BY DEF RowIn, HeadIn, OpenIn, HeadOf, Opened
<1>5. \A w \in Pollers : PollFits(poll[w])
  <2>1. \A w \in Pollers : ListedIn(reports, poll[w]) /\ PollIn(gh, seen, poll[w])
    BY DEF MadeIn
  <2> QED
    BY <2>1 DEF PollFits, ListedIn, PollIn, HeadIn, OpenIn, HeadOf, Opened
<1>6. WaitsOnOpenRow /\ RoundsCounted
  <2>1. CountIn(st, attempts, reports.n)
    BY DEF TaskIn
  <2>2. RoundsCounted
    BY <2>1 DEF CountIn, ChargesOf, Charges, Actionable, RoundsCounted
  <2> QED
    BY <2>2 DEF TaskIn, Actionable, WaitsOnOpenRow
<1>7. TypeOK
  <2>1. \A n \in Pulls : gh[n].is \in Ends /\ gh[n].head \in 0 .. MaxHeads
    BY DEF PullsIn, Pull
  <2>2. \A w \in Pollers : poll[w].do \in {"rest", "ask", "ask checks"} \cup Decisions
    BY DEF Poll
  <2> QED
    BY <2>1, <2>2 DEF TypeOK, TaskIn, Tries, RowIn, ChecksIn, Runs, Row, Ends
<1>8. row.is # "none" => row.exec \in Attempts /\ row.head \in reports.had[row.exec]
  BY DEF MadeIn
<1> QED
  BY <1>1, <1>2, <1>3, <1>4, <1>5, <1>6, <1>7, <1>8 DEF VerdictsFit, RowFits

LEMMA PartsNext ==
  ASSUME PullsIn(gh', bounds'), ChecksIn(checks', seen'), RowIn(gh', row'),
         TaskIn(st', attempts', reports'.n, row'), MadeIn(reports', row', poll'),
         poll' \in [Pollers -> Poll], \A w \in Pollers : PollIn(gh', seen', poll'[w])
  PROVE  VerdictsFit'
<1>1. Whole'
  BY DEF Whole
<1> QED
  BY <1>1, WholeFits, PTL

-----------------------------------------------------------------------------
(* Pull requests and their commits                                         *)

\* Commits are added to the last pull request only.
Grows(g, f) ==
  /\ \A n \in OpenIn(g) : /\ n \in OpenIn(f) /\ g[n].head <= f[n].head
                          /\ g[n].is # "open" => f[n].is = g[n].is
  /\ \A n \in OpenIn(g), m \in OpenIn(f) : m < n => m \in OpenIn(g) /\ f[m].head = g[m].head

LEMMA HeadStays ==
  ASSUME NEW g \in [Pulls -> Pull], NEW f \in [Pulls -> Pull], Grows(g, f),
         NEW n, NEW h, HeadIn(g, n, h)
  PROVE  HeadIn(f, n, h)
<1>1. n \in OpenIn(g) /\ h \in Heads
  BY DEF HeadIn
<1>2. n \in OpenIn(f) /\ n \in Pulls /\ g[n].head <= f[n].head
  BY <1>1 DEF Grows, OpenIn
<1>3. h \in Nat /\ g[n].head \in Nat /\ f[n].head \in Nat
  BY <1>1, <1>2, Limits DEF Pull
<1>4. CASE ~SameHead
  <2>1. h <= f[n].head
    BY <1>2, <1>3, <1>4 DEF HeadIn
  <2>2. \A m \in OpenIn(f) : m < n => f[m].head < h
    BY <1>1, <1>4 DEF HeadIn, Grows
  <2> QED
    BY <1>1, <1>2, <2>1, <2>2 DEF HeadIn
<1> QED
  BY <1>1, <1>2, <1>4 DEF HeadIn

\* A commit was pushed to one pull request.
LEMMA OneHome ==
  ASSUME NEW g \in [Pulls -> Pull], NEW n, NEW m, NEW h, ~SameHead, HeadIn(g, n, h), HeadIn(g, m, h)
  PROVE  n = m
<1>1. n \in Nat /\ m \in Nat /\ h \in Nat /\ g[n].head \in Nat /\ g[m].head \in Nat
  BY Limits DEF HeadIn, OpenIn, Pull
<1>2. n \in OpenIn(g) /\ m \in OpenIn(g) /\ h <= g[n].head /\ h <= g[m].head
  BY DEF HeadIn
<1>3. ~(n < m)
  BY <1>1, <1>2 DEF HeadIn
<1>4. ~(m < n)
  BY <1>1, <1>2 DEF HeadIn
<1> QED
  BY <1>1, <1>3, <1>4

\* What the row and the pollers know of the pull requests stays true.
LEMMA KnownStays ==
  ASSUME NEW g \in [Pulls -> Pull], NEW f \in [Pulls -> Pull], Grows(g, f), NEW s
  PROVE  /\ \A r : RowIn(g, r) => RowIn(f, r)
         /\ \A q : PollIn(g, s, q) => PollIn(f, s, q)
<1>1. \A n, h : HeadIn(g, n, h) => HeadIn(f, n, h)
  BY HeadStays
<1>2. \A n \in OpenIn(g) : n \in OpenIn(f) /\ (g[n].is \in {"merged", "closed"} => f[n].is = g[n].is)
  BY DEF Grows
<1> QED
  BY <1>1, <1>2 DEF RowIn, PollIn

LEMMA PushLaw ==
  ASSUME NEW g \in [Pulls -> Pull], NEW k \in 0 .. MaxPulls, NEW c \in 0 .. MaxHeads, c < MaxHeads,
         OrderIn(g, k, c), NEW n \in Pulls, g[n].is = "open",
         NEW f \in [Pulls -> Pull], f[n].head = c + 1, f[n].is = g[n].is,
         \A m \in Pulls : m # n => f[m] = g[m]
  PROVE  Grows(g, f) /\ OrderIn(f, k, c + 1)
<1>1. n = k /\ n \in OpenIn(g)
  BY Limits DEF OrderIn, OpenIn
<1>2. /\ f \in [Pulls -> Pull] /\ f[n].head = c + 1 /\ f[n].is = g[n].is
      /\ \A m \in Pulls : m # n => f[m] = g[m]
  OBVIOUS
<1>3. OpenIn(f) = OpenIn(g) /\ OpenIn(g) = 1 .. k /\ OpenIn(g) \subseteq Pulls /\ k \in Nat /\ c \in Nat
  BY <1>2, Limits DEF OpenIn, OrderIn
<1>4. \A m \in 1 .. k : m \in Pulls /\ g[m].head \in Nat /\ g[m].head <= c /\ HeadIn(g, m, g[m].head)
  <2>1. \A m \in 1 .. k : m \in Pulls /\ g[m].head \in Nat
    BY <1>3 DEF Pull
  <2> QED
    BY <2>1 DEF OrderIn
<1>5. Grows(g, f)
  <2>1. \A m \in OpenIn(g) : g[m].head <= f[m].head /\ (g[m].is # "open" => f[m].is = g[m].is)
    BY <1>1, <1>2, <1>3, <1>4
  <2>2. ASSUME NEW i \in OpenIn(g), NEW m \in OpenIn(f), m < i PROVE m \in OpenIn(g) /\ f[m].head = g[m].head
    BY <1>1, <1>2, <1>3, <2>2
  <2> QED
    BY <1>3, <2>1, <2>2 DEF Grows
<1>6. ASSUME NEW m \in 1 .. k PROVE HeadIn(f, m, f[m].head) /\ f[m].head <= c + 1
  <2>1. CASE m = k
    <3>1. f[m].head = c + 1 /\ c + 1 \in Heads
      BY <1>1, <1>2, <2>1, Limits
    <3>2. \A j \in OpenIn(f) : j < m => f[j].head < c + 1
      BY <1>1, <1>2, <1>3, <1>4, <2>1
    <3>3. m \in OpenIn(f) /\ f[m].head \in Heads /\ f[m].head <= f[m].head /\ f[m].head <= c + 1
      BY <1>3, <3>1
    <3> QED
      BY <3>1, <3>2, <3>3 DEF HeadIn
  <2>2. CASE m # k
    <3>1. f[m] = g[m] /\ g[m].head <= c
      BY <1>1, <1>2, <1>4, <2>2
    <3>2. HeadIn(f, m, g[m].head)
      BY <1>2, <1>4, <1>5, HeadStays
    <3>3. f[m].head = g[m].head /\ g[m].head <= c + 1
      BY <1>3, <1>4, <3>1
    <3> QED
      BY <3>2, <3>3
  <2> QED
    BY <2>1, <2>2
<1>7. (\A m \in 1 .. k : m < k => f[m].is # "open") /\ f[k].head = c + 1
  BY <1>1, <1>2, <1>3, <1>4 DEF OrderIn
<1> QED
  BY <1>2, <1>3, <1>5, <1>6, <1>7 DEF OrderIn

\* The next pull request has a new commit, or the last one of the one before.
LEMMA OpenLaw ==
  ASSUME NEW g \in [Pulls -> Pull], NEW k \in 0 .. MaxPulls, NEW c \in 0 .. MaxHeads,
         OrderIn(g, k, c), NEW n \in Pulls, n = k + 1, \A m \in OpenIn(g) : g[m].is # "open",
         NEW d \in 0 .. MaxHeads, d = c + 1 \/ (SameHead /\ k > 0 /\ d = c),
         NEW f \in [Pulls -> Pull], f[n].head = d, f[n].is = "open",
         \A m \in Pulls : m # n => f[m] = g[m]
  PROVE  Grows(g, f) /\ OrderIn(f, n, d)
<1>1. /\ f \in [Pulls -> Pull] /\ f[n].head = d /\ f[n].is = "open"
      /\ \A m \in Pulls : m # n => f[m] = g[m]
  OBVIOUS
<1>2. OpenIn(g) = 1 .. k /\ OpenIn(g) \subseteq Pulls /\ k \in Nat /\ c \in Nat /\ n \in Nat
  BY Limits DEF OrderIn, OpenIn
<1>3. OpenIn(f) = OpenIn(g) \cup {n}
  BY <1>1 DEF OpenIn
<1>4. OpenIn(f) = 1 .. n
  <2>1. 1 .. n = 1 .. k \cup {n}
    BY <1>2
  <2> QED
    BY <1>2, <1>3, <2>1
<1>5. \A m \in 1 .. k : /\ m \in Pulls /\ g[m].head \in Nat /\ g[m].head <= c
                        /\ HeadIn(g, m, g[m].head) /\ f[m] = g[m] /\ m < n
  <2>1. \A m \in 1 .. k : m \in Pulls /\ m < n
    BY <1>2
  <2>2. \A m \in 1 .. k : g[m].head <= c /\ HeadIn(g, m, g[m].head)
    BY DEF OrderIn
  <2> QED
    BY <1>1, <2>1, <2>2 DEF Pull
<1>6. Grows(g, f)
  <2>1. ASSUME NEW i \in OpenIn(g), NEW m \in OpenIn(f), m < i
        PROVE  m \in OpenIn(g) /\ f[m].head = g[m].head
    BY <1>2, <1>4, <1>5, <2>1
  <2>2. \A m \in OpenIn(g) : m \in OpenIn(f) /\ g[m].head <= f[m].head /\ f[m].is = g[m].is
    <3>1. ASSUME NEW m \in OpenIn(g)
          PROVE  m \in OpenIn(f) /\ g[m].head <= f[m].head /\ f[m].is = g[m].is
      <4>1. f[m] = g[m] /\ g[m].head \in Nat /\ m \in OpenIn(f)
        BY <1>2, <1>3, <1>5
      <4> QED
        BY <4>1
    <3> QED
      BY <3>1
  <2> QED
    BY <2>1, <2>2 DEF Grows
<1>7. c <= d /\ d \in Nat
  BY <1>2, Limits
<1>8. d \in Heads
  <2>1. CASE d = c + 1
    BY <1>2, <2>1, Limits
  <2>2. CASE k > 0 /\ d = c
    <3>1. k \in 1 .. k /\ g[k].head = c
      BY <1>2, <2>2 DEF OrderIn
    <3> QED
      BY <1>5, <2>2, <3>1 DEF HeadIn
  <2> QED
    BY <2>1, <2>2
<1>9. ASSUME NEW m \in 1 .. n PROVE HeadIn(f, m, f[m].head) /\ f[m].head <= d
  <2>1. CASE m = n
    <3>1. SameHead \/ \A j \in OpenIn(f) : j < m => f[j].head < d
      <4>1. CASE d = c + 1
        BY <1>2, <1>4, <1>5, <2>1, <4>1
      <4> QED
        BY <4>1
    <3>2. m \in OpenIn(f) /\ f[m].head = d /\ d <= d /\ d \in Heads
      BY <1>1, <1>3, <1>7, <1>8, <2>1
    <3> QED
      BY <3>1, <3>2 DEF HeadIn
  <2>2. CASE m # n
    <3>1. m \in 1 .. k
      BY <1>2, <2>2
    <3>2. HeadIn(g, m, g[m].head) /\ f[m].head = g[m].head
      BY <1>5, <3>1
    <3>3. HeadIn(f, m, g[m].head)
      BY <1>1, <1>6, <3>2, HeadStays
    <3>4. g[m].head <= d
      BY <1>2, <1>5, <1>7, <3>1
    <3> QED
      BY <3>2, <3>3, <3>4
  <2> QED
    BY <2>1, <2>2
<1>10. \A m \in 1 .. n : m < n => f[m].is # "open"
  <2>1. ASSUME NEW m \in 1 .. n, m < n PROVE f[m].is # "open"
    <3>1. m \in 1 .. k
      BY <1>2, <2>1
    <3> QED
      BY <1>2, <1>5, <3>1
  <2> QED
    BY <2>1
<1> QED
  BY <1>1, <1>4, <1>6, <1>9, <1>10 DEF OrderIn

LEMMA SettleLaw ==
  ASSUME NEW g \in [Pulls -> Pull], NEW k \in 0 .. MaxPulls, NEW c \in 0 .. MaxHeads,
         OrderIn(g, k, c), NEW n \in Pulls, g[n].is = "open", NEW s \in {"merged", "closed"},
         NEW f \in [Pulls -> Pull], f[n].head = g[n].head, f[n].is = s,
         \A m \in Pulls : m # n => f[m] = g[m]
  PROVE  Grows(g, f) /\ OrderIn(f, k, c)
<1>1. /\ f \in [Pulls -> Pull] /\ f[n].head = g[n].head /\ f[n].is = s
      /\ \A m \in Pulls : m # n => f[m] = g[m]
  OBVIOUS
<1>2. OpenIn(f) = OpenIn(g) /\ \A m \in Pulls : f[m].head = g[m].head /\ (f[m].is = "open" => g[m].is = "open")
  BY <1>1 DEF OpenIn
<1>3. \A m \in Pulls : g[m].head \in Nat
  BY DEF Pull
<1>4. OpenIn(g) \subseteq Pulls
  BY DEF OpenIn
<1>5. Grows(g, f)
  <2>1. ASSUME NEW m \in OpenIn(g)
        PROVE  m \in OpenIn(f) /\ g[m].head <= f[m].head /\ (g[m].is # "open" => f[m].is = g[m].is)
    <3>1. m \in Pulls /\ m \in OpenIn(f) /\ f[m].head = g[m].head /\ g[m].head \in Nat
      BY <1>2, <1>3, <1>4
    <3>2. g[m].is # "open" => f[m] = g[m]
      BY <1>1, <3>1
    <3>3. g[m].head <= f[m].head
      BY <3>1
    <3> QED
      BY <3>1, <3>2, <3>3
  <2>2. \A m \in OpenIn(f) : m \in OpenIn(g) /\ f[m].head = g[m].head
    BY <1>2, <1>4
  <2> QED
    BY <2>1, <2>2 DEF Grows
<1>6. \A m \in OpenIn(g) : \A h : HeadIn(f, m, h) <=> HeadIn(g, m, h)
  BY <1>2, <1>4 DEF HeadIn
<1>7. OpenIn(g) = 1 .. k /\ (k > 0 => k \in 1 .. k) /\ k \in Nat
  BY DEF OrderIn
<1>8. /\ \A m \in 1 .. k : m < k => f[m].is # "open"
      /\ \A m \in 1 .. k : HeadIn(f, m, f[m].head) /\ f[m].head <= c
      /\ k > 0 => f[k].head = c
  BY <1>2, <1>4, <1>6, <1>7 DEF OrderIn
<1> QED
  BY <1>1, <1>2, <1>5, <1>7, <1>8 DEF OrderIn

-----------------------------------------------------------------------------
(* The rounds charged                                                      *)

LEMMA ChargeIs ==
  ASSUME NEW a, NEW x
  PROVE  x \in ChargesOf(a) <=> \E e \in Attempts : x \in {e} \X (1 .. a[e].rounds)
BY DEF ChargesOf

LEMMA SameCharges ==
  ASSUME NEW a, NEW b, \A e \in Attempts : b[e].rounds = a[e].rounds
  PROVE  ChargesOf(b) = ChargesOf(a)
<1>1. \A x : x \in ChargesOf(b) <=> x \in ChargesOf(a)
  <2>1. ASSUME NEW x PROVE x \in ChargesOf(b) <=> x \in ChargesOf(a)
    <3>1. \A e \in Attempts : {e} \X (1 .. b[e].rounds) = {e} \X (1 .. a[e].rounds)
      OBVIOUS
    <3> QED
      BY <3>1, ChargeIs
  <2> QED
    BY <2>1
<1> QED
  BY <1>1

LEMMA CountStays ==
  ASSUME NEW t, NEW u, NEW a, NEW b, NEW k, CountIn(t, a, k),
         \A e \in Attempts : b[e].rounds = a[e].rounds,
         u \in {"CI_RUNNING", "READY_FOR_MERGE"} => t \in {"CI_RUNNING", "READY_FOR_MERGE"}
  PROVE  CountIn(u, b, k)
<1>1. ChargesOf(b) = ChargesOf(a)
  BY SameCharges
<1> QED
  BY <1>1 DEF CountIn

\* After one more report a round may be charged.
LEMMA CountGrows ==
  ASSUME NEW t, NEW u, NEW a, NEW b, NEW k \in Nat, CountIn(t, a, k),
         \A e \in Attempts : b[e].rounds = a[e].rounds
  PROVE  CountIn(u, b, k + 1)
<1>1. ChargesOf(b) = ChargesOf(a)
  BY SameCharges
<1>2. IsFiniteSet(ChargesOf(a)) /\ Cardinality(ChargesOf(a)) <= k
  BY DEF CountIn
<1>3. Cardinality(ChargesOf(a)) \in Nat
  BY <1>2, FS_CardinalityType
<1> QED
  BY <1>1, <1>2, <1>3 DEF CountIn

\* The execution e is charged a round while the task waits for CI.
LEMMA CountCharged ==
  ASSUME NEW a \in Tries, NEW b, NEW k \in Nat, CountIn("CI_RUNNING", a, k), NEW e \in Attempts,
         b[e].rounds = a[e].rounds + 1, \A f \in Attempts : f # e => b[f].rounds = a[f].rounds,
         NEW u, u \notin {"CI_RUNNING", "READY_FOR_MERGE"}
  PROVE  CountIn(u, b, k)
<1> DEFINE S == ChargesOf(a)
           c == <<e, a[e].rounds + 1>>
<1>1. ChargesOf(b) = S \cup {c}
  <2>1. a[e].rounds \in Nat
    BY DEF Tries
  <2>2. {e} \X (1 .. b[e].rounds) = ({e} \X (1 .. a[e].rounds)) \cup {c}
    <3>1. 1 .. b[e].rounds = (1 .. a[e].rounds) \cup {a[e].rounds + 1}
      BY <2>1
    <3> QED
      BY <3>1
  <2>3. \A f \in Attempts : f # e => {f} \X (1 .. b[f].rounds) = {f} \X (1 .. a[f].rounds)
    OBVIOUS
  <2>4. ASSUME NEW x PROVE x \in ChargesOf(b) <=> x \in S \cup {c}
    <3>1. x \in ChargesOf(b) <=> \E f \in Attempts : x \in {f} \X (1 .. b[f].rounds)
      BY ChargeIs
    <3>2. x \in S <=> \E f \in Attempts : x \in {f} \X (1 .. a[f].rounds)
      BY ChargeIs
    <3> HIDE DEF S, c
    <3> QED
      BY <2>2, <2>3, <3>1, <3>2
  <2> QED
    BY <2>4
<1>2. IsFiniteSet(S) /\ Cardinality(S) < k
  BY DEF CountIn
<1>3. Cardinality(S) \in Nat
  BY <1>2, FS_CardinalityType
<1> HIDE DEF S, c
<1>4. IsFiniteSet(S \cup {c}) /\ Cardinality(S \cup {c}) \in {Cardinality(S), Cardinality(S) + 1}
  BY <1>2, FS_AddElement
<1> QED
  BY <1>1, <1>2, <1>3, <1>4 DEF CountIn

-----------------------------------------------------------------------------
(* The steps of the agent, of people and of GitHub                         *)

\* Pull requests or checks change: what was seen is kept.
LEMMA WorldMoves ==
  ASSUME VerdictsFit, UNCHANGED <<st, attempts, row, poll, reports>>,
         PullsIn(gh', bounds'), Grows(gh, gh'), ChecksIn(checks', seen'),
         seen.red \subseteq seen'.red, seen.green \subseteq seen'.green
  PROVE  VerdictsFit'
<1>1. /\ PullsIn(gh, bounds) /\ ChecksIn(checks, seen) /\ RowIn(gh, row)
      /\ TaskIn(st, attempts, reports.n, row) /\ MadeIn(reports, row, poll)
      /\ poll \in [Pollers -> Poll] /\ \A w \in Pollers : PollIn(gh, seen, poll[w])
  BY Parts
<1>2. gh \in [Pulls -> Pull] /\ gh' \in [Pulls -> Pull]
  BY <1>1 DEF PullsIn
<1>3. RowIn(gh', row)
  BY <1>1, <1>2, KnownStays
<1>4. \A w \in Pollers : PollIn(gh', seen, poll[w])
  BY <1>1, <1>2, KnownStays
<1>5. \A w \in Pollers : PollIn(gh', seen', poll[w])
  BY <1>4 DEF PollIn
<1> QED
  BY <1>1, <1>3, <1>5, PartsNext

LEMMA GrowsSame == ASSUME NEW g \in [Pulls -> Pull] PROVE Grows(g, g)
<1>1. \A n \in OpenIn(g) : g[n].head \in Nat
  BY DEF OpenIn, Pull
<1> QED
  BY <1>1 DEF Grows

LEMMA PushedStep == ASSUME VerdictsFit, NEW n \in Pulls, Pushed(n) PROVE VerdictsFit'
<1> DEFINE c == bounds.commits
<1>1. PullsIn(gh, bounds) /\ ChecksIn(checks, seen)
  BY Parts
<1>2. /\ gh[n].is = "open" /\ c < MaxHeads /\ bounds' = [bounds EXCEPT !.commits = c + 1]
      /\ gh' = [gh EXCEPT ![n].head = c + 1] /\ UNCHANGED <<st, attempts, row, checks, poll, seen, reports>>
  BY DEF Pushed, OpenNow, rows
<1>3. PICK k \in 0 .. MaxPulls : OrderIn(gh, k, c)
  BY <1>1 DEF PullsIn
<1>4. gh \in [Pulls -> Pull] /\ c \in 0 .. MaxHeads /\ c + 1 \in 0 .. MaxHeads
  BY <1>1, <1>2, Limits DEF PullsIn, Count
<1> DEFINE f == [gh EXCEPT ![n].head = c + 1]
<1>5. /\ f \in [Pulls -> Pull] /\ f[n].head = c + 1 /\ f[n].is = gh[n].is
      /\ \A m \in Pulls : m # n => f[m] = gh[m]
  BY <1>4 DEF Pull
<1>6. bounds' \in Count /\ bounds'.commits = c + 1
  BY <1>1, <1>2, <1>4 DEF PullsIn, Count
<1>7. gh' = f
  BY <1>2
<1> HIDE DEF f, c
<1>8. Grows(gh, f) /\ OrderIn(f, k, c + 1)
  BY <1>2, <1>3, <1>4, <1>5, PushLaw
<1>9. PullsIn(gh', bounds')
  BY <1>5, <1>6, <1>7, <1>8 DEF PullsIn
<1> QED
  BY <1>1, <1>2, <1>7, <1>8, <1>9, WorldMoves

LEMMA OpensStep == ASSUME VerdictsFit, NEW n \in Pulls, Opens(n) PROVE VerdictsFit'
<1> DEFINE c == bounds.commits
<1>1. PullsIn(gh, bounds) /\ ChecksIn(checks, seen)
  BY Parts
<1>2. PICK k \in 0 .. MaxPulls : OrderIn(gh, k, c)
  BY <1>1 DEF PullsIn
<1>3. gh \in [Pulls -> Pull] /\ c \in 0 .. MaxHeads /\ bounds \in Count /\ c \in Nat /\ k \in Nat
  BY <1>1, Limits DEF PullsIn, Count
<1>4. OpenIn(gh) = Opened /\ OpenIn(gh) = 1 .. k /\ Cardinality(Opened) = k
  <2>1. OpenIn(gh) = 1 .. k /\ OpenIn(gh) = Opened
    BY <1>2 DEF OrderIn, OpenIn, Opened
  <2>2. Cardinality(1 .. k) = k
    BY <1>3, FS_Interval
  <2> QED
    BY <2>1, <2>2
<1>5. /\ n = k + 1 /\ \A m \in OpenIn(gh) : gh[m].is # "open"
      /\ UNCHANGED <<st, attempts, row, checks, poll, seen, reports>>
  BY <1>4 DEF Opens, rows
<1>6. n > 1 => gh[n - 1].head = c
  BY <1>2, <1>3, <1>5 DEF OrderIn
<1>7. PICK d \in 0 .. MaxHeads : /\ d = c + 1 \/ (SameHead /\ k > 0 /\ d = c)
                                 /\ gh' = [gh EXCEPT ![n] = [is |-> "open", head |-> d]]
                                 /\ bounds' \in Count /\ bounds'.commits = d
  <2>1. CASE /\ c < MaxHeads /\ bounds' = [bounds EXCEPT !.commits = c + 1]
             /\ gh' = [gh EXCEPT ![n] = [is |-> "open", head |-> c + 1]]
    <3>1. c + 1 \in 0 .. MaxHeads
      BY <1>3, <2>1, Limits
    <3>2. bounds' \in Count /\ bounds'.commits = c + 1
      BY <1>3, <2>1, <3>1 DEF Count
    <3> QED
      BY <2>1, <3>1, <3>2
  <2>2. CASE /\ SameHead /\ n > 1 /\ bounds' = bounds
             /\ gh' = [gh EXCEPT ![n] = [is |-> "open", head |-> c]]
    <3>1. k > 0
      BY <1>3, <1>5, <2>2
    <3> QED
      BY <1>3, <2>2, <3>1
  <2> QED
    BY <1>6, <2>1, <2>2 DEF Opens
<1> DEFINE f == [gh EXCEPT ![n] = [is |-> "open", head |-> d]]
<1>8. /\ f \in [Pulls -> Pull] /\ f[n].head = d /\ f[n].is = "open"
      /\ \A m \in Pulls : m # n => f[m] = gh[m]
  BY <1>3 DEF Pull, Ends
<1>9. gh' = f
  BY <1>7
<1> HIDE DEF f, c
<1>10. Grows(gh, f) /\ OrderIn(f, n, d)
  <2>1. d = c + 1 \/ (SameHead /\ k > 0 /\ d = c)
    BY <1>7
  <2>2. n = k + 1 /\ \A m \in OpenIn(gh) : gh[m].is # "open"
    BY <1>5
  <2>3. gh \in [Pulls -> Pull] /\ c \in 0 .. MaxHeads
    BY <1>3
  <2> QED
    BY <1>2, <1>8, <2>1, <2>2, <2>3, OpenLaw
<1>11. PullsIn(gh', bounds')
  <2>1. n \in 0 .. MaxPulls
    BY Limits
  <2> QED
    BY <1>7, <1>8, <1>9, <1>10, <2>1 DEF PullsIn
<1> QED
  BY <1>1, <1>5, <1>9, <1>10, <1>11, WorldMoves

LEMMA SettledStep == ASSUME VerdictsFit, NEW n \in Pulls, Settled(n) PROVE VerdictsFit'
<1> DEFINE c == bounds.commits
<1>1. PullsIn(gh, bounds) /\ ChecksIn(checks, seen)
  BY Parts
<1>2. PICK s \in {"merged", "closed"} : gh' = [gh EXCEPT ![n].is = s]
  BY DEF Settled
<1>3. gh[n].is = "open" /\ UNCHANGED <<st, attempts, row, checks, poll, seen, reports, bounds>>
  BY DEF Settled, OpenNow, rows
<1>4. PICK k \in 0 .. MaxPulls : OrderIn(gh, k, c)
  BY <1>1 DEF PullsIn
<1>5. gh \in [Pulls -> Pull] /\ c \in 0 .. MaxHeads
  BY <1>1 DEF PullsIn, Count
<1> DEFINE f == [gh EXCEPT ![n].is = s]
<1>6. /\ f \in [Pulls -> Pull] /\ f[n].head = gh[n].head /\ f[n].is = s
      /\ \A m \in Pulls : m # n => f[m] = gh[m]
  BY <1>5 DEF Pull, Ends
<1>7. gh' = f
  BY <1>2
<1> HIDE DEF f, c
<1>8. Grows(gh, f) /\ OrderIn(f, k, c)
  BY <1>3, <1>4, <1>5, <1>6, SettleLaw
<1>9. PullsIn(gh', bounds')
  BY <1>1, <1>3, <1>6, <1>7, <1>8 DEF PullsIn, c
<1> QED
  BY <1>1, <1>3, <1>7, <1>8, <1>9, WorldMoves

LEMMA ChecksStep == ASSUME VerdictsFit, NEW h \in Heads, ChecksMove(h) PROVE VerdictsFit'
<1>1. PullsIn(gh, bounds) /\ ChecksIn(checks, seen)
  BY Parts
<1>2. PICK c \in {"running", "failed", "passed"} :
        /\ checks' = [checks EXCEPT ![h] = c]
        /\ seen' = [seen EXCEPT !.red   = IF c = "failed" THEN seen.red \cup {h} ELSE seen.red,
                                !.green = IF c = "passed" THEN seen.green \cup {h} ELSE seen.green]
  BY DEF ChecksMove
<1>3. bounds' = [bounds EXCEPT !.moves = bounds.moves + 1] /\ UNCHANGED <<st, attempts, row, gh, poll, reports>>
  BY DEF ChecksMove, rows
<1>4. bounds' \in Count /\ bounds'.commits = bounds.commits
  BY <1>1, <1>3 DEF PullsIn, Count
<1>5. PullsIn(gh', bounds') /\ Grows(gh, gh')
  BY <1>1, <1>3, <1>4, GrowsSame DEF PullsIn
<1>6. /\ seen' \in Seen /\ seen.red \subseteq seen'.red /\ seen.green \subseteq seen'.green
      /\ c = "failed" => h \in seen'.red
      /\ c = "passed" => h \in seen'.green
  BY <1>1, <1>2 DEF ChecksIn, Seen
<1>7. /\ checks' \in [Heads -> Runs] /\ checks'[h] = c
      /\ \A i \in Heads : i # h => checks'[i] = checks[i]
  BY <1>1, <1>2 DEF ChecksIn, Runs
<1>8. ChecksIn(checks', seen')
  BY <1>1, <1>6, <1>7 DEF ChecksIn
<1> QED
  BY <1>3, <1>5, <1>6, <1>8, WorldMoves

\* The task, its row or its execution change.
LEMMA TaskMoves ==
  ASSUME VerdictsFit, UNCHANGED <<gh, checks, seen>>, bounds' \in Count,
         bounds'.commits = bounds.commits, MadeIn(reports', row', poll'),
         RowIn(gh, row'), TaskIn(st', attempts', reports'.n, row'),
         poll' \in [Pollers -> Poll], \A w \in Pollers : PollIn(gh, seen, poll'[w])
  PROVE  VerdictsFit'
<1>1. PullsIn(gh, bounds) /\ ChecksIn(checks, seen)
  BY Parts
<1>2. PullsIn(gh', bounds')
  BY <1>1 DEF PullsIn
<1>3. ChecksIn(checks', seen')
  BY <1>1
<1> QED
  BY <1>2, <1>3, PartsNext

LEMMA TaskStep ==
  ASSUME VerdictsFit, \/ \E n \in Pulls, e \in Attempts : Reports(e, n)
                      \/ \E e \in Attempts : Resumed(e)
                      \/ ReviewStarted
                      \/ Cancelled
                      \/ Retried
  PROVE  VerdictsFit'
<1>1. /\ PullsIn(gh, bounds) /\ RowIn(gh, row)
      /\ TaskIn(st, attempts, reports.n, row) /\ MadeIn(reports, row, poll)
      /\ poll \in [Pollers -> Poll] /\ \A w \in Pollers : PollIn(gh, seen, poll[w])
  BY Parts
<1>2. /\ reports \in Made /\ reports.n \in Nat /\ bounds \in Count /\ attempts \in Tries
      /\ CountIn(st, attempts, reports.n)
  BY <1>1 DEF MadeIn, Made, PullsIn, TaskIn
<1>3. ASSUME NEW n \in Pulls, NEW e \in Attempts, Reports(e, n) PROVE VerdictsFit'
  <2> DEFINE h == gh[n].head
             r == [is |-> "open", exec |-> e, num |-> n, head |-> h, since |-> 0, old |-> FALSE]
             had == [reports.had EXCEPT ![e] = reports.had[e] \cup {h}]
             p == [n |-> reports.n + 1, had |-> had]
             a == [attempts EXCEPT ![e].is = "completed"]
  <2>1. /\ gh[n].is = "open" /\ row' = r /\ st' = "CI_RUNNING" /\ reports' = p
        /\ attempts' = a /\ UNCHANGED <<gh, checks, seen, poll, bounds>> /\ st = "REVIEWING"
    BY <1>3 DEF Reports, Upserted, Reported, github
  <2>2. PICK k \in 0 .. MaxPulls : OrderIn(gh, k, bounds.commits)
    BY <1>1 DEF PullsIn
  <2>3. n \in OpenIn(gh) /\ HeadIn(gh, n, h) /\ h \in Heads
    BY <2>1, <2>2 DEF OpenIn, OrderIn, HeadIn
  <2>4. h \in 0 .. MaxHeads /\ n \in 0 .. MaxPulls /\ 0 \in 0 .. MaxHeads
    BY <1>1, Limits DEF PullsIn, Pull
  <2>5. r \in Row
    BY <2>4 DEF Row, Ends
  <2>6. RowIn(gh, row')
    BY <2>1, <2>3, <2>5 DEF RowIn
  <2>7. /\ p \in Made /\ p.n = reports.n + 1 /\ h \in p.had[e]
        /\ \A f \in Attempts : reports.had[f] \subseteq p.had[f]
    <3> HIDE DEF h
    <3>1. reports.had \in [Attempts -> SUBSET Heads]
      BY <1>2 DEF Made
    <3>2. /\ had \in [Attempts -> SUBSET Heads] /\ h \in had[e]
          /\ \A f \in Attempts : reports.had[f] \subseteq had[f]
      BY <2>3, <3>1
    <3> HIDE DEF had
    <3> QED
      BY <1>2, <3>2 DEF Made
  <2>8. a \in Tries /\ \A f \in Attempts : a[f].rounds = attempts[f].rounds
    BY <1>2 DEF Tries
  <2> HIDE DEF a, p, h
  <2>9. MadeIn(reports', row', poll')
    BY <1>1, <2>1, <2>7 DEF MadeIn, ListedIn
  <2>10. CountIn(st', attempts', reports'.n)
    BY <1>2, <2>1, <2>7, <2>8, CountGrows
  <2>11. TaskIn(st', attempts', reports'.n, row')
    BY <2>1, <2>8, <2>10 DEF TaskIn, States
  <2> QED
    BY <1>1, <1>2, <2>1, <2>6, <2>9, <2>11, TaskMoves
<1>4. ASSUME UNCHANGED <<row, gh, checks, seen, poll, reports>>, bounds' \in Count,
             bounds'.commits = bounds.commits, attempts' \in Tries, st' \in States,
             \A e \in Attempts : attempts'[e].rounds = attempts[e].rounds,
             st' \in {"CI_RUNNING", "READY_FOR_MERGE"} => st' = st, st' = "DONE" <=> st = "DONE"
      PROVE  VerdictsFit'
  <2>1. CountIn(st', attempts', reports'.n)
    BY <1>2, <1>4, CountStays
  <2>2. TaskIn(st', attempts', reports'.n, row')
    BY <1>1, <1>4, <2>1 DEF TaskIn
  <2> QED
    BY <1>1, <1>4, <2>2, TaskMoves
<1>5. ASSUME NEW e \in Attempts, Resumed(e) PROVE VerdictsFit'
  <2>1. /\ attempts' = [attempts EXCEPT ![e].asked = attempts[e].asked - 1,
                          ![e].is = IF attempts[e].is = "completed" THEN "live" ELSE attempts[e].is]
        /\ attempts[e].asked > 0 /\ UNCHANGED <<st, row, gh, checks, seen, poll, reports, bounds>>
    BY <1>5 DEF Resumed, github
  <2>2. attempts[e].asked - 1 \in Nat
    BY <1>2, <2>1 DEF Tries
  <2>3. attempts' \in Tries /\ \A f \in Attempts : attempts'[f].rounds = attempts[f].rounds
    BY <1>2, <2>1, <2>2 DEF Tries
  <2> QED
    BY <1>1, <1>2, <1>4, <2>1, <2>3 DEF TaskIn
<1>6. CASE ReviewStarted
  <2>1. /\ st = "IMPLEMENTING" /\ st' = "REVIEWING"
        /\ UNCHANGED <<attempts, row, gh, checks, seen, poll, reports, bounds>>
    BY <1>6 DEF ReviewStarted, github
  <2> QED
    BY <1>2, <1>4, <2>1 DEF States
<1>7. CASE Cancelled
  <2>1. /\ st \notin {"DONE", "CANCELLED"} /\ st' = "CANCELLED"
        /\ attempts' = [e \in Attempts |->
                          [attempts[e] EXCEPT !.is = IF e \in Live THEN "ended" ELSE attempts[e].is]]
        /\ UNCHANGED <<row, gh, checks, seen, poll, reports, bounds>>
    BY <1>7 DEF Cancelled, github
  <2>2. attempts' \in Tries /\ \A f \in Attempts : attempts'[f].rounds = attempts[f].rounds
    BY <1>2, <2>1 DEF Tries
  <2> QED
    BY <1>2, <1>4, <2>1, <2>2 DEF States
<1>8. CASE Retried
  <2> DEFINE e == bounds.retries + 2
  <2>1. /\ st \in {"NEEDS_HUMAN", "CANCELLED"} /\ st' = "REVIEWING" /\ bounds.retries < MaxRetries
        /\ attempts' = [attempts EXCEPT ![e].is = "live"]
        /\ bounds' = [bounds EXCEPT !.retries = bounds.retries + 1]
        /\ UNCHANGED <<row, gh, checks, seen, poll, reports>>
    BY <1>8 DEF Retried, github
  <2>2. bounds.retries + 1 \in 0 .. MaxRetries
    <3>1. bounds.retries \in 0 .. MaxRetries /\ bounds.retries < MaxRetries
      BY <1>2, <2>1 DEF Count
    <3> QED
      BY <3>1, Limits
  <2>3. bounds' \in Count /\ bounds'.commits = bounds.commits
    BY <1>2, <2>1, <2>2 DEF Count
  <2> HIDE DEF e
  <2>4. attempts' \in Tries /\ \A f \in Attempts : attempts'[f].rounds = attempts[f].rounds
    BY <1>2, <2>1 DEF Tries
  <2> QED
    BY <1>4, <2>1, <2>3, <2>4 DEF States
<1> QED
  BY <1>3, <1>5, <1>6, <1>7, <1>8

-----------------------------------------------------------------------------
(* The steps of a poll                                                     *)

\* A poller learns something of GitHub, or what the row says.
LEMMA PollMoves ==
  ASSUME VerdictsFit, UNCHANGED polled, NEW w \in Pollers, NEW q \in Poll, PollIn(gh, seen, q),
         ListedIn(reports, q), poll' = [poll EXCEPT ![w] = q]
  PROVE  VerdictsFit'
<1>1. /\ PullsIn(gh, bounds) /\ RowIn(gh, row)
      /\ TaskIn(st, attempts, reports.n, row) /\ MadeIn(reports, row, poll)
      /\ poll \in [Pollers -> Poll] /\ \A v \in Pollers : PollIn(gh, seen, poll[v])
  BY Parts
<1>2. bounds \in Count
  BY <1>1 DEF PullsIn
<1>3. UNCHANGED <<st, attempts, row, gh, checks, seen, reports, bounds>>
  BY DEF polled, github, rows
<1>4. poll' \in [Pollers -> Poll] /\ \A v \in Pollers : PollIn(gh, seen, poll'[v])
  BY <1>1
<1>5. MadeIn(reports', row', poll')
  BY <1>1, <1>3 DEF MadeIn
<1> QED
  BY <1>1, <1>2, <1>3, <1>4, <1>5, TaskMoves

LEMMA Zero == 0 \in 0 .. MaxHeads /\ 0 \in 0 .. MaxPulls
BY Limits

LEMMA RestFits ==
  Rest \in Poll /\ Rest.do = "rest" /\ (\A g, s : PollIn(g, s, Rest)) /\ \A p : ListedIn(p, Rest)
BY Limits DEF Rest, Poll, PollIn, ListedIn

LEMMA ListsStep == ASSUME VerdictsFit, NEW w \in Pollers, Lists(w) PROVE VerdictsFit'
<1>1. row.is = "open" /\ UNCHANGED polled
  BY DEF Lists
<1>2. RowIn(gh, row) /\ row \in Row /\ MadeIn(reports, row, poll) /\ HeadIn(gh, row.num, row.head)
  BY <1>1, Parts DEF RowIn
<1>3. CASE st = "CI_RUNNING"
  <2> DEFINE q == [do |-> "ask", ci |-> TRUE, exec |-> row.exec, num |-> row.num, head |-> row.head,
                   since |-> row.since, new |-> 0]
  <2>1. poll' = [poll EXCEPT ![w] = q]
    BY <1>3 DEF Lists
  <2>2. q \in Poll /\ q.do = "ask" /\ q.num = row.num /\ q.head = row.head /\ q.since = row.since
        /\ q.exec = row.exec
    BY <1>2, Limits DEF Row, Poll
  <2> HIDE DEF q
  <2>3. PollIn(gh, seen, q)
    BY <1>2, <2>2 DEF RowIn, PollIn
  <2>4. ListedIn(reports, q)
    BY <1>1, <1>2, <2>2 DEF MadeIn, ListedIn
  <2> QED
    BY <1>1, <2>1, <2>2, <2>3, <2>4, PollMoves
<1>4. CASE st # "CI_RUNNING"
  <2> DEFINE q == [Rest EXCEPT !.do = "ask", !.num = row.num, !.head = row.head]
  <2>1. poll' = [poll EXCEPT ![w] = q]
    BY <1>4 DEF Lists
  <2>2. q \in Poll /\ q.do = "ask" /\ ~q.ci /\ q.num = row.num /\ q.head = row.head /\ q.since = 0
    BY <1>2, Zero DEF Rest, Row, Poll
  <2> HIDE DEF q
  <2>3. PollIn(gh, seen, q)
    BY <1>2, <2>2 DEF PollIn
  <2>4. ListedIn(reports, q)
    BY <2>2 DEF ListedIn
  <2> QED
    BY <1>1, <2>1, <2>2, <2>3, <2>4, PollMoves
<1> QED
  BY <1>3, <1>4

LEMMA PollOf ==
  ASSUME VerdictsFit, NEW w \in Pollers
  PROVE  /\ poll[w] \in Poll /\ PollIn(gh, seen, poll[w]) /\ ListedIn(reports, poll[w])
         /\ gh \in [Pulls -> Pull] /\ poll \in [Pollers -> Poll]
         /\ poll[w].do = "ask" =>
              /\ poll[w].num \in Pulls /\ poll[w].num \in OpenIn(gh) /\ poll[w].head \in Heads
              /\ HeadIn(gh, poll[w].num, gh[poll[w].num].head)
<1>1. poll[w] \in Poll /\ PollIn(gh, seen, poll[w]) /\ gh \in [Pulls -> Pull] /\ PullsIn(gh, bounds)
      /\ poll \in [Pollers -> Poll] /\ ListedIn(reports, poll[w])
  BY Parts DEF PullsIn, MadeIn
<1>2. PICK k \in 0 .. MaxPulls : OrderIn(gh, k, bounds.commits)
  BY <1>1 DEF PullsIn
<1>3. \A n \in OpenIn(gh) : HeadIn(gh, n, gh[n].head)
  BY <1>2 DEF OrderIn
<1>4. poll[w].do = "ask" => HeadIn(gh, poll[w].num, poll[w].head)
  BY <1>1 DEF PollIn
<1>5. poll[w].do = "ask" => poll[w].num \in OpenIn(gh) /\ poll[w].head \in Heads
  BY <1>4 DEF HeadIn
<1>6. OpenIn(gh) \subseteq Pulls
  BY DEF OpenIn
<1> QED
  BY <1>1, <1>3, <1>5, <1>6

\* What is kept of a poll that has decided.
LEMMA DecidedStep ==
  ASSUME VerdictsFit, NEW w \in Pollers, NEW d \in Decisions \ {"push"}, Decided(w, d), UNCHANGED polled,
         d \in {"merged", "closed"} => \E n \in OpenIn(gh) : HeadIn(gh, n, poll[w].head) /\ gh[n].is = d,
         d = "failed" => /\ poll[w].head \in seen.red /\ poll[w].exec \in Attempts
                         /\ poll[w].head \in reports.had[poll[w].exec],
         d = "passed" => poll[w].head \in seen.green \/ poll[w].since = poll[w].head
  PROVE  VerdictsFit'
<1> DEFINE o == poll[w]
           q == [Rest EXCEPT !.do = d, !.head = o.head,
                             !.since = IF d = "passed" THEN o.since ELSE 0,
                             !.exec = IF d = "failed" THEN o.exec ELSE 0]
<1>1. poll' = [poll EXCEPT ![w] = q] /\ o \in Poll
  BY PollOf DEF Decided
<1>2. /\ q \in Poll /\ q.do = d /\ q.head = o.head
      /\ (d = "passed" => q.since = o.since) /\ (d = "failed" => q.exec = o.exec)
  <2>1. o.head \in 0 .. MaxHeads /\ o.since \in 0 .. MaxHeads /\ o.exec \in {0} \cup Attempts
    BY <1>1 DEF Poll
  <2> HIDE DEF o
  <2> QED
    BY <2>1, Zero DEF Rest, Poll
<1> HIDE DEF q
<1>3. PollIn(gh, seen, q)
  BY <1>2 DEF PollIn, Decisions
<1>4. ListedIn(reports, q)
  BY <1>2 DEF ListedIn, Decisions
<1> QED
  BY <1>1, <1>2, <1>3, <1>4, PollMoves

LEMMA AsksStep == ASSUME VerdictsFit, NEW w \in Pollers, Asks(w) PROVE VerdictsFit'
<1> DEFINE o == poll[w]
           g == gh[o.num]
<1>1. /\ o.do = "ask" /\ UNCHANGED polled
      /\ \/ g.is # "open" /\ Decided(w, g.is)
         \/ poll' = [poll EXCEPT ![w] = [Rest EXCEPT !.do = "push", !.head = o.head, !.new = g.head]]
         \/ poll' = [poll EXCEPT ![w] = Rest]
         \/ o.ci /\ poll' = [poll EXCEPT ![w] = [o EXCEPT !.do = "ask checks", !.ci = FALSE, !.num = 0]]
  BY DEF Asks, Answer
<1>2. /\ o \in Poll /\ PollIn(gh, seen, o) /\ ListedIn(reports, o) /\ gh \in [Pulls -> Pull] /\ o.num \in Pulls
      /\ o.num \in OpenIn(gh) /\ o.head \in Heads /\ HeadIn(gh, o.num, g.head)
  BY <1>1, PollOf
<1>3. HeadIn(gh, o.num, o.head) /\ o.since \in {0, o.head} /\ g \in Pull /\ g.is # "none"
  BY <1>1, <1>2 DEF PollIn, OpenIn
<1>4. CASE g.is # "open" /\ Decided(w, g.is)
  <2>1. g.is \in {"merged", "closed"} /\ g.is \in Decisions \ {"push"}
    BY <1>3, <1>4 DEF Pull, Ends, Decisions
  <2> QED
    BY <1>1, <1>2, <1>3, <1>4, <2>1, DecidedStep
<1>5. CASE poll' = [poll EXCEPT ![w] = [Rest EXCEPT !.do = "push", !.head = o.head, !.new = g.head]]
  <2> DEFINE q == [Rest EXCEPT !.do = "push", !.head = o.head, !.new = g.head]
  <2>1. q \in Poll /\ q.do = "push" /\ q.head = o.head /\ q.new = g.head
    <3>1. o.head \in 0 .. MaxHeads
      BY <1>2 DEF Poll
    <3>2. g.head \in 0 .. MaxHeads /\ "push" \in Decisions
      BY <1>3 DEF Pull, Decisions
    <3> HIDE DEF o, g
    <3> QED
      BY <3>1, <3>2, Zero DEF Rest, Poll
  <2>2. poll' = [poll EXCEPT ![w] = q]
    BY <1>5
  <2> HIDE DEF q
  <2>3. PollIn(gh, seen, q)
    BY <1>2, <1>3, <2>1 DEF PollIn
  <2>4. ListedIn(reports, q)
    BY <2>1 DEF ListedIn
  <2> QED
    BY <1>1, <2>1, <2>2, <2>3, <2>4, PollMoves
<1>6. CASE poll' = [poll EXCEPT ![w] = Rest]
  BY <1>1, <1>6, RestFits, PollMoves
<1>7. CASE o.ci /\ poll' = [poll EXCEPT ![w] = [o EXCEPT !.do = "ask checks", !.ci = FALSE, !.num = 0]]
  <2> DEFINE q == [o EXCEPT !.do = "ask checks", !.ci = FALSE, !.num = 0]
  <2>1. /\ q \in Poll /\ q.do = "ask checks" /\ q.head = o.head /\ q.since = o.since
        /\ q.exec = o.exec
    BY <1>2, Zero DEF Poll
  <2>2. poll' = [poll EXCEPT ![w] = q]
    BY <1>7
  <2>3. o.exec \in Attempts /\ o.head \in reports.had[o.exec]
    BY <1>1, <1>2, <1>7 DEF ListedIn
  <2> HIDE DEF q
  <2>4. PollIn(gh, seen, q)
    BY <1>3, <2>1 DEF PollIn
  <2>5. ListedIn(reports, q)
    BY <2>1, <2>3 DEF ListedIn
  <2> QED
    BY <1>1, <2>1, <2>2, <2>4, <2>5, PollMoves
<1> QED
  BY <1>1, <1>4, <1>5, <1>6, <1>7

LEMMA AsksChecksStep == ASSUME VerdictsFit, NEW w \in Pollers, AsksChecks(w) PROVE VerdictsFit'
<1> DEFINE o == poll[w]
           c == checks[o.head]
<1>1. /\ o.do = "ask checks" /\ UNCHANGED polled
      /\ \/ poll' = [poll EXCEPT ![w] = Rest]
         \/ c \in {"passed", "failed"} /\ Decided(w, c)
         \/ Decided(w, "no checks")
         \/ c = "none" /\ o.since # 0 /\ Decided(w, "passed")
  BY DEF AsksChecks, Evaluation, CheckRuns
<1>2. /\ o.exec \in Attempts /\ o.head \in reports.had[o.exec] /\ reports \in Made
      /\ o.since \in {0, o.head}
  BY <1>1, Parts, PollOf DEF PollIn, ListedIn, MadeIn
<1>3. (c = "failed" => o.head \in seen.red) /\ (c = "passed" => o.head \in seen.green)
  <2>1. o.head \in Heads
    BY <1>2 DEF Made
  <2> QED
    BY <2>1, Parts DEF ChecksIn
<1>4. {"passed", "failed", "no checks"} \subseteq Decisions \ {"push"}
  BY DEF Decisions
<1>5. CASE poll' = [poll EXCEPT ![w] = Rest]
  BY <1>1, <1>5, RestFits, PollMoves
<1>6. CASE c \in {"passed", "failed"} /\ Decided(w, c)
  <2>1. c \in Decisions \ {"push"} /\ c \notin {"merged", "closed"}
    BY <1>4, <1>6
  <2> QED
    BY <1>1, <1>2, <1>3, <1>6, <2>1, DecidedStep
<1>7. CASE Decided(w, "no checks")
  BY <1>1, <1>4, <1>7, DecidedStep
<1>8. CASE o.since # 0 /\ Decided(w, "passed")
  BY <1>1, <1>2, <1>4, <1>8, DecidedStep
<1> QED
  BY <1>1, <1>5, <1>6, <1>7, <1>8

LEMMA AskFailsStep == ASSUME VerdictsFit, NEW w \in Pollers, AskFails(w) PROVE VerdictsFit'
BY RestFits, PollMoves DEF AskFails

\* What a transaction of a poller makes of the task and its row.
LEMMA AppliesLaw ==
  ASSUME VerdictsFit, NEW w \in Pollers, Applies(w)
  PROVE  /\ RowIn(gh, row') /\ TaskIn(st', attempts', reports'.n, row') /\ MadeIn(reports', row', poll')
         /\ \A e \in Attempts : attempts'[e].rounds > attempts[e].rounds =>
              poll[w].do = "failed" /\ row.head = poll[w].head /\ e = poll[w].exec
         /\ st = "CI_RUNNING" /\ st' = "READY_FOR_MERGE" =>
              poll[w].do = "passed" /\ row.head = poll[w].head
         /\ row.is = "open" /\ row'.is \in {"merged", "closed"} =>
              poll[w].do = row'.is /\ row.head = poll[w].head
<1> DEFINE q == poll[w]
<1>1. /\ RowIn(gh, row) /\ TaskIn(st, attempts, reports.n, row) /\ MadeIn(reports, row, poll)
      /\ q \in Poll /\ PollIn(gh, seen, q) /\ poll \in [Pollers -> Poll] /\ ListedIn(reports, q)
  BY Parts, PollOf
<1>2. /\ row \in Row /\ reports \in Made /\ reports.n \in Nat /\ attempts \in Tries
      /\ CountIn(st, attempts, reports.n) /\ \A e \in Attempts : ~(attempts[e].rounds > attempts[e].rounds)
  <2>1. row \in Row /\ reports \in Made /\ attempts \in Tries /\ CountIn(st, attempts, reports.n)
    BY <1>1 DEF TaskIn, RowIn, MadeIn
  <2>2. \A e \in Attempts : attempts[e].rounds \in Nat
    BY <2>1 DEF Tries
  <2> QED
    BY <2>1, <2>2 DEF Made
<1>3. /\ poll' = [poll EXCEPT ![w] = Rest]
      /\ \A p : (\A v \in Pollers : ListedIn(p, poll[v])) => \A v \in Pollers : ListedIn(p, poll'[v])
  <2>1. poll' = [poll EXCEPT ![w] = Rest]
    BY DEF Applies
  <2> QED
    BY <1>1, <2>1, RestFits
\* No commit is moved to, and nothing charged.
<1>4. ASSUME UNCHANGED <<attempts, reports>>, row'.exec = row.exec, row'.head = row.head,
             row.is # "none" \/ row' = row
      PROVE  /\ MadeIn(reports', row', poll')
             /\ \A e \in Attempts : ~(attempts'[e].rounds > attempts[e].rounds)
  BY <1>1, <1>2, <1>3, <1>4 DEF MadeIn
<1>5. CASE UNCHANGED rows
  <2>1. UNCHANGED <<st, attempts, row, reports>>
    BY <1>5 DEF rows
  <2> QED
    BY <1>1, <1>2, <1>4, <2>1
<1>6. CASE Current(w) /\ (\/ q.do = "merged" /\ Actionable /\ MarkMerged
                          \/ q.do = "closed" /\ Actionable /\ MarkClosed)
  <2>1. PICK t \in {"merged", "closed"} :
          /\ q.do = t /\ row' = [row EXCEPT !.is = t] /\ UNCHANGED <<attempts, reports>>
          /\ st' = IF t = "merged" THEN "DONE" ELSE "NEEDS_HUMAN"
    BY <1>6 DEF MarkMerged, MarkClosed
  <2>2. row.is = "open" /\ row.head = q.head
    BY <1>6 DEF Current
  <2>3. /\ row' \in Row /\ row'.is = t /\ row'.head = row.head /\ row'.since = row.since
        /\ row'.exec = row.exec
    BY <1>2, <2>1 DEF Row, Ends
  <2>4. RowIn(gh, row')
    BY <1>1, <2>3 DEF RowIn
  <2>5. CountIn(st', attempts', reports'.n)
    <3>1. st' \notin {"CI_RUNNING", "READY_FOR_MERGE"}
      BY <2>1
    <3> QED
      BY <1>2, <2>1, <3>1 DEF CountIn
  <2>6. TaskIn(st', attempts', reports'.n, row')
    BY <1>2, <2>1, <2>3, <2>5 DEF TaskIn, States
  <2> QED
    BY <1>4, <2>1, <2>2, <2>3, <2>4, <2>6
<1>7. CASE Current(w) /\ q.do = "push" /\ MarkHead(q.new)
  <2>1. /\ row.is = "open" /\ row.head = q.head /\ st' = st /\ attempts' = attempts
        /\ row' = [row EXCEPT !.head = q.new, !.since = q.new, !.old = FALSE]
        /\ reports' = [reports EXCEPT !.had[row.exec] = reports.had[row.exec] \cup {q.new}]
    BY <1>7 DEF MarkHead, Current
  <2>2. /\ row' \in Row /\ row'.is = row.is /\ row'.head = q.new /\ row'.since = q.new
        /\ row'.num = row.num /\ row'.exec = row.exec
    BY <1>1, <1>2, <2>1 DEF Row, Poll
  <2>3. HeadIn(gh, row.num, q.new) /\ q.new \in Heads
    <3>1. HeadIn(gh, row.num, q.head)
      BY <1>1, <2>1 DEF RowIn
    <3>2. PICK n \in OpenIn(gh) : HeadIn(gh, n, q.head) /\ HeadIn(gh, n, q.new)
      BY <1>1, <1>7 DEF PollIn
    <3>3. gh \in [Pulls -> Pull]
      BY Parts DEF PullsIn
    <3>4. CASE SameHead
      BY <3>1, <3>2, <3>4 DEF HeadIn
    <3>5. CASE ~SameHead
      <4>1. n = row.num
        BY <2>1, <3>1, <3>2, <3>3, <3>5, OneHome
      <4> QED
        BY <3>2, <4>1 DEF HeadIn
    <3> QED
      BY <3>4, <3>5
  <2>4. RowIn(gh, row')
    BY <2>2, <2>3 DEF RowIn
  <2>5. row.exec \in Attempts
    BY <1>1, <2>1 DEF MadeIn
  <2>6. /\ reports' \in Made /\ reports'.n = reports.n /\ q.new \in reports'.had[row.exec]
        /\ \A f \in Attempts : reports.had[f] \subseteq reports'.had[f]
    BY <1>2, <2>1, <2>3, <2>5 DEF Made
  <2>7. MadeIn(reports', row', poll')
    <3>1. \A v \in Pollers : ListedIn(reports', poll[v])
      BY <1>1, <2>6 DEF MadeIn, ListedIn
    <3> QED
      BY <1>3, <2>2, <2>5, <2>6, <3>1 DEF MadeIn
  <2>8. TaskIn(st', attempts', reports'.n, row')
    BY <1>1, <2>1, <2>2, <2>6 DEF TaskIn
  <2> QED
    BY <1>2, <2>1, <2>2, <2>4, <2>7, <2>8
<1>8. CASE Current(w) /\ q.do = "no checks" /\ RecordNoChecks
  <2>1. row' = [row EXCEPT !.since = row.head, !.old = FALSE] /\ UNCHANGED <<st, attempts, reports>>
    BY <1>8 DEF RecordNoChecks
  <2>2. /\ row' \in Row /\ row'.is = row.is /\ row'.head = row.head /\ row'.since = row.head
        /\ row'.num = row.num /\ row'.exec = row.exec /\ row.is = "open"
    BY <1>2, <1>8, <2>1 DEF Row, Current
  <2>3. RowIn(gh, row')
    BY <1>1, <2>2 DEF RowIn
  <2>4. TaskIn(st', attempts', reports'.n, row')
    BY <1>1, <2>1, <2>2 DEF TaskIn
  <2> QED
    BY <1>4, <2>1, <2>2, <2>3, <2>4
<1>9. CASE Current(w) /\ q.do = "passed" /\ MarkPassed
  <2>1. /\ UNCHANGED <<row, attempts, reports>> /\ row.head = q.head
        /\ st' = IF st = "CI_RUNNING" THEN "READY_FOR_MERGE" ELSE st
    BY <1>9 DEF MarkPassed, Current
  <2>2. CountIn(st', attempts', reports'.n)
    BY <1>2, <2>1 DEF CountIn
  <2>3. TaskIn(st', attempts', reports'.n, row')
    BY <1>1, <2>1, <2>2 DEF TaskIn, States
  <2> QED
    BY <1>1, <1>4, <1>9, <2>1, <2>3
<1>10. CASE Current(w) /\ q.do = "failed" /\ st = "CI_RUNNING" /\ Charged(q.exec)
  <2>1. q.exec \in Attempts
    BY <1>1, <1>10 DEF ListedIn
  <2>2. PICK r, n : /\ r = attempts[q.exec].rounds + 1
                    /\ n = IF r > MaxCiRounds THEN attempts[q.exec].asked ELSE attempts[q.exec].asked + 1
                    /\ attempts' = [attempts EXCEPT ![q.exec].rounds = r, ![q.exec].asked = n]
                    /\ st' = IF r > MaxCiRounds THEN "NEEDS_HUMAN" ELSE "IMPLEMENTING"
    BY <1>10 DEF Charged
  <2>3. UNCHANGED <<row, reports>> /\ row.head = q.head /\ row.is = "open"
    BY <1>10 DEF Charged, Current
  <2>4. r \in Nat /\ n \in Nat
    <3>1. attempts[q.exec].rounds \in Nat /\ attempts[q.exec].asked \in Nat
      BY <1>2, <2>1 DEF Tries
    <3> HIDE DEF q
    <3> QED
      BY <2>2, <3>1
  <2> HIDE DEF q
  <2>5. /\ attempts' \in Tries /\ attempts'[q.exec].rounds = attempts[q.exec].rounds + 1
        /\ \A f \in Attempts : f # q.exec => attempts'[f].rounds = attempts[f].rounds
    <3>1. /\ attempts' = [attempts EXCEPT ![q.exec].rounds = r, ![q.exec].asked = n]
          /\ attempts \in Tries
      BY <1>2, <2>2
    <3>2. attempts' \in Tries /\ attempts'[q.exec].rounds = r
      BY <2>1, <2>4, <3>1 DEF Tries
    <3>3. \A f \in Attempts : f # q.exec => attempts'[f].rounds = attempts[f].rounds
      BY <2>1, <3>1 DEF Tries
    <3> QED
      BY <2>2, <3>2, <3>3
  <2>6. st' \in {"NEEDS_HUMAN", "IMPLEMENTING"}
    BY <2>2
  <2>7. CountIn(st', attempts', reports.n)
    <3>1. CountIn("CI_RUNNING", attempts, reports.n) /\ st' \notin {"CI_RUNNING", "READY_FOR_MERGE"}
      BY <1>2, <1>10, <2>6
    <3> QED
      BY <1>2, <2>1, <2>5, <3>1, CountCharged
  <2>8. TaskIn(st', attempts', reports'.n, row')
    BY <2>3, <2>5, <2>6, <2>7 DEF TaskIn, States
  <2>9. MadeIn(reports', row', poll')
    BY <1>1, <1>3, <2>3 DEF MadeIn
  <2>10. ASSUME NEW e \in Attempts, attempts'[e].rounds > attempts[e].rounds PROVE e = q.exec
    BY <1>2, <2>5, <2>10
  <2>11. q.do = "failed" /\ st' # "READY_FOR_MERGE" /\ row' = row
    BY <1>10, <2>3, <2>6
  <2> QED
    BY <1>1, <2>3, <2>8, <2>9, <2>10, <2>11 DEF q
<1>11. \/ UNCHANGED rows
       \/ /\ Current(w)
          /\ \/ q.do = "merged"    /\ Actionable /\ MarkMerged
             \/ q.do = "closed"    /\ Actionable /\ MarkClosed
             \/ q.do = "push"      /\ MarkHead(q.new)
             \/ q.do = "no checks" /\ RecordNoChecks
             \/ q.do = "passed"    /\ MarkPassed
             \/ q.do = "failed"    /\ st = "CI_RUNNING" /\ Charged(q.exec)
  <2>1. MarkMerged /\ ~Actionable => UNCHANGED rows
    BY DEF MarkMerged, rows
  <2>2. MarkClosed /\ ~Actionable => UNCHANGED rows
    BY DEF MarkClosed, rows
  <2>3. MarkFailed(q.exec) /\ ~(st = "CI_RUNNING" /\ Charged(q.exec)) => UNCHANGED rows
    BY DEF MarkFailed
  <2> QED
    BY <2>1, <2>2, <2>3 DEF Applies
<1> QED
  BY <1>5, <1>6, <1>7, <1>8, <1>9, <1>10, <1>11

LEMMA AppliesStep == ASSUME VerdictsFit, NEW w \in Pollers, Applies(w) PROVE VerdictsFit'
<1>1. RowIn(gh, row') /\ TaskIn(st', attempts', reports'.n, row') /\ MadeIn(reports', row', poll')
  BY AppliesLaw
<1>2. /\ PullsIn(gh, bounds) /\ poll \in [Pollers -> Poll]
      /\ \A v \in Pollers : PollIn(gh, seen, poll[v])
  BY Parts
<1>3. poll' = [poll EXCEPT ![w] = Rest] /\ UNCHANGED <<gh, checks, seen, bounds>>
  BY DEF Applies, github
<1>4. poll' \in [Pollers -> Poll] /\ \A v \in Pollers : PollIn(gh, seen, poll'[v])
  BY <1>2, <1>3, RestFits
<1>5. bounds' \in Count
  BY <1>2, <1>3 DEF PullsIn
<1> QED
  BY <1>1, <1>2, <1>3, <1>4, <1>5, TaskMoves

LEMMA GraceStep == ASSUME VerdictsFit, GraceEnds PROVE VerdictsFit'
<1>1. /\ RowIn(gh, row) /\ TaskIn(st, attempts, reports.n, row) /\ MadeIn(reports, row, poll)
      /\ PullsIn(gh, bounds) /\ poll \in [Pollers -> Poll]
      /\ \A v \in Pollers : PollIn(gh, seen, poll[v])
  BY Parts
<1>2. /\ row' = [row EXCEPT !.old = TRUE]
      /\ UNCHANGED <<st, attempts, gh, checks, seen, poll, reports, bounds>>
  BY DEF GraceEnds, github
<1>3. /\ row' \in Row /\ row'.is = row.is /\ row'.head = row.head /\ row'.since = row.since
      /\ row'.num = row.num /\ row'.exec = row.exec
  BY <1>1, <1>2 DEF RowIn, Row
<1>4. /\ RowIn(gh, row') /\ TaskIn(st', attempts', reports'.n, row')
      /\ MadeIn(reports', row', poll')
  BY <1>1, <1>2, <1>3 DEF RowIn, TaskIn, MadeIn
<1>5. bounds' \in Count
  BY <1>1, <1>2 DEF PullsIn
<1> QED
  BY <1>1, <1>2, <1>4, <1>5, TaskMoves

LEMMA StutterStep == VerdictsFit /\ UNCHANGED vars => VerdictsFit'
<1> SUFFICES ASSUME VerdictsFit, UNCHANGED vars PROVE VerdictsFit'
  OBVIOUS
<1>1. /\ RowIn(gh, row) /\ TaskIn(st, attempts, reports.n, row) /\ MadeIn(reports, row, poll)
      /\ PullsIn(gh, bounds) /\ poll \in [Pollers -> Poll]
      /\ \A v \in Pollers : PollIn(gh, seen, poll[v])
  BY Parts
<1>2. UNCHANGED <<st, attempts, row, gh, checks, seen, poll, reports, bounds>>
  BY DEF vars, rows, github
<1>3. bounds' \in Count
  BY <1>1, <1>2 DEF PullsIn
<1> QED
  BY <1>1, <1>2, <1>3, TaskMoves

-----------------------------------------------------------------------------
(* Theorems                                                                *)

LEMMA InitFits == Init => VerdictsFit
<1> SUFFICES ASSUME Init PROVE VerdictsFit
  OBVIOUS
<1>1. /\ st = "REVIEWING" /\ row = NoRow /\ reports = [n |-> 0, had |-> [e \in Attempts |-> {}]]
      /\ attempts = [e \in Attempts |-> [is |-> IF e = 1 THEN "live" ELSE "none", rounds |-> 0, asked |-> 0]]
      /\ gh = [n \in Pulls |-> NoPull] /\ checks = [h \in Heads |-> "none"]
      /\ poll = [w \in Pollers |-> Rest] /\ seen = [red |-> {}, green |-> {}]
      /\ bounds = [commits |-> 0, retries |-> 0, moves |-> 0]
  BY DEF Init
<1>2. PullsIn(gh, bounds)
  <2>1. gh \in [Pulls -> Pull] /\ OpenIn(gh) = {}
    BY <1>1, Zero DEF NoPull, Pull, Ends, OpenIn
  <2>2. bounds \in Count /\ bounds.commits = 0
    BY <1>1, Zero, Limits DEF Count
  <2>3. OrderIn(gh, 0, 0)
    BY <2>1 DEF OrderIn
  <2> QED
    BY <2>1, <2>2, <2>3, Zero DEF PullsIn
<1>3. ChecksIn(checks, seen)
  BY <1>1 DEF ChecksIn, Runs, Seen
<1>4. RowIn(gh, row) /\ row.is = "none"
  BY <1>1, Zero DEF NoRow, RowIn, Row, Ends
<1>5. attempts \in Tries /\ ChargesOf(attempts) = {} /\ reports.n = 0
  <2>1. attempts \in Tries
    BY <1>1 DEF Tries
  <2>2. \A e \in Attempts : 1 .. attempts[e].rounds = {}
    BY <1>1
  <2>3. ASSUME NEW x PROVE x \notin ChargesOf(attempts)
    BY <2>2, ChargeIs
  <2> QED
    BY <1>1, <2>1, <2>3
<1>6. CountIn(st, attempts, reports.n)
  <2>1. IsFiniteSet({}) /\ Cardinality({}) = 0
    BY FS_EmptySet
  <2>2. st \notin {"CI_RUNNING", "READY_FOR_MERGE"} /\ 0 <= reports.n
    BY <1>1
  <2> QED
    BY <1>5, <2>1, <2>2 DEF CountIn
<1>7. TaskIn(st, attempts, reports.n, row)
  BY <1>1, <1>4, <1>5, <1>6 DEF TaskIn, States
<1>8. poll \in [Pollers -> Poll] /\ \A w \in Pollers : PollIn(gh, seen, poll[w]) /\ ListedIn(reports, poll[w])
  BY <1>1, RestFits
<1>9. MadeIn(reports, row, poll)
  <2>1. reports \in Made
    BY <1>1 DEF Made
  <2> QED
    BY <1>4, <1>8, <2>1 DEF MadeIn
<1> QED
  BY <1>2, <1>3, <1>4, <1>7, <1>8, <1>9, WholeFits DEF Whole

LEMMA VerdictsFitStep == VerdictsFit /\ [Next]_vars => VerdictsFit'
<1> SUFFICES ASSUME VerdictsFit, [Next]_vars PROVE VerdictsFit'
  OBVIOUS
<1>1. ASSUME NEW n \in Pulls, Pushed(n) \/ Opens(n) \/ Settled(n) PROVE VerdictsFit'
  BY <1>1, PushedStep, OpensStep, SettledStep
<1>2. ASSUME NEW h \in Heads, ChecksMove(h) PROVE VerdictsFit'
  BY <1>2, ChecksStep
<1>3. ASSUME NEW n \in Pulls, NEW e \in Attempts, Reports(e, n) PROVE VerdictsFit'
  BY <1>3, TaskStep
<1>4. CASE (\E e \in Attempts : Resumed(e)) \/ ReviewStarted \/ Cancelled \/ Retried
  BY <1>4, TaskStep
<1>5. ASSUME NEW w \in Pollers, Lists(w) \/ Asks(w) \/ AsksChecks(w) \/ AskFails(w) \/ Applies(w)
      PROVE  VerdictsFit'
  BY <1>5, ListsStep, AsksStep, AsksChecksStep, AskFailsStep, AppliesStep
<1>6. CASE GraceEnds
  BY <1>6, GraceStep
<1>7. CASE UNCHANGED vars
  BY <1>7, StutterStep
<1> QED
  BY <1>1, <1>2, <1>3, <1>4, <1>5, <1>6, <1>7 DEF Next, World, Polling

\* The row, the task and the counts of rounds fit each other, whoever polls and
\* whichever execution the row had when it was listed: a task that waits for CI or
\* for its merge has an open row, and the rounds charged to all executions together
\* are never more than the reports, and fewer while a verdict is waited for.
THEOREM RowsFit == Spec => []RowFits
<1>1. VerdictsFit => RowFits
  BY DEF VerdictsFit
<1> QED
  BY InitFits, VerdictsFitStep, <1>1, PTL DEF Spec

\* The steps that do not end a wait leave the row, the rounds and the state in
\* which a verdict is given as they are.
LEMMA OnlyPollersJudge ==
  ASSUME VerdictsFit, Next, \A w \in Pollers : ~Applies(w)
  PROVE  /\ \A e \in Attempts : ~(attempts'[e].rounds > attempts[e].rounds)
         /\ ~(st = "CI_RUNNING" /\ st' = "READY_FOR_MERGE")
         /\ ~(row.is = "open" /\ row'.is \in {"merged", "closed"})
<1>1. attempts \in Tries /\ row \in Row /\ bounds \in Count
  BY Parts DEF TaskIn, RowIn, PullsIn
<1>2. \A e \in Attempts : ~(attempts[e].rounds > attempts[e].rounds)
  <2>1. \A e \in Attempts : attempts[e].rounds \in Nat
    BY <1>1 DEF Tries
  <2> QED
    BY <2>1
<1>3. CASE World
  <2>1. /\ \A e \in Attempts : attempts'[e].rounds = attempts[e].rounds
        /\ st' = st \/ st' # "READY_FOR_MERGE"
        /\ row' = row \/ row'.is = "open"
    <3>1. ASSUME NEW n \in Pulls, Pushed(n) \/ Opens(n) \/ Settled(n) PROVE UNCHANGED <<st, attempts, row>>
      BY <3>1 DEF Pushed, Opens, Settled, rows
    <3>2. ASSUME NEW h \in Heads, ChecksMove(h) PROVE UNCHANGED <<st, attempts, row>>
      BY <3>2 DEF ChecksMove, rows
    <3>3. ASSUME NEW n \in Pulls, NEW e \in Attempts, Reports(e, n)
          PROVE  /\ \A f \in Attempts : attempts'[f].rounds = attempts[f].rounds
                 /\ st' # "READY_FOR_MERGE" /\ row'.is = "open"
      <4>1. /\ attempts' = [attempts EXCEPT ![e].is = "completed"]
            /\ st' # "READY_FOR_MERGE" /\ row'.is = "open"
        BY <3>3 DEF Reports, Upserted
      <4> QED
        BY <1>1, <4>1 DEF Tries
    <3>4. ASSUME NEW e \in Attempts, Resumed(e)
          PROVE  /\ \A f \in Attempts : attempts'[f].rounds = attempts[f].rounds
                 /\ st' = st /\ row' = row
      <4>1. attempts' = [attempts EXCEPT ![e].asked = attempts[e].asked - 1,
                            ![e].is = IF attempts[e].is = "completed" THEN "live" ELSE attempts[e].is]
            /\ st' = st /\ row' = row
        BY <3>4 DEF Resumed
      <4> QED
        BY <1>1, <4>1 DEF Tries
    <3>5. CASE ReviewStarted
      BY <3>5 DEF ReviewStarted
    <3>6. CASE Cancelled
      <4>1. attempts' = [e \in Attempts |->
                           [attempts[e] EXCEPT !.is = IF e \in Live THEN "ended" ELSE attempts[e].is]]
            /\ st' = "CANCELLED" /\ row' = row
        BY <3>6 DEF Cancelled
      <4> QED
        BY <1>1, <4>1 DEF Tries
    <3>7. CASE Retried
      <4> DEFINE e == bounds.retries + 2
      <4>1. attempts' = [attempts EXCEPT ![e].is = "live"] /\ st' = "REVIEWING" /\ row' = row
        BY <3>7 DEF Retried
      <4> HIDE DEF e
      <4> QED
        BY <1>1, <4>1 DEF Tries
    <3> QED
      BY <1>3, <3>1, <3>2, <3>3, <3>4, <3>5, <3>6, <3>7 DEF World
  <2> QED
    BY <1>2, <2>1
<1>4. ASSUME NEW w \in Pollers, Lists(w) \/ Asks(w) \/ AsksChecks(w) \/ AskFails(w)
      PROVE  UNCHANGED <<st, attempts, row>>
  BY <1>4 DEF Lists, Asks, AsksChecks, AskFails, polled, rows
<1>5. CASE GraceEnds
  <2>1. st' = st /\ attempts' = attempts /\ row' = [row EXCEPT !.old = TRUE]
    BY <1>5 DEF GraceEnds
  <2>2. row'.is = row.is
    BY <1>1, <2>1 DEF Row
  <2> QED
    BY <1>2, <2>1, <2>2
<1> QED
  BY <1>2, <1>3, <1>4, <1>5 DEF Next, Polling

\* A round is charged to an execution whose report had the commit the row is at in
\* the row, and checks of that commit failed.
LEMMA ChargedForTheHead ==
  ASSUME VerdictsFit, Next
  PROVE  \A e \in Attempts : attempts'[e].rounds > attempts[e].rounds =>
           row.head \in seen.red \cap reports.had[e]
<1>1. CASE \A w \in Pollers : ~Applies(w)
  BY <1>1, OnlyPollersJudge
<1>2. ASSUME NEW w \in Pollers, Applies(w),
             NEW e \in Attempts, attempts'[e].rounds > attempts[e].rounds
      PROVE  row.head \in seen.red \cap reports.had[e]
  <2>1. poll[w].do = "failed" /\ row.head = poll[w].head /\ e = poll[w].exec
    BY <1>2, AppliesLaw
  <2>2. PollIn(gh, seen, poll[w]) /\ ListedIn(reports, poll[w])
    BY PollOf
  <2> QED
    BY <2>1, <2>2 DEF PollIn, ListedIn
<1> QED
  BY <1>1, <1>2

\* What any number of pollers decide is about the commit and the pull request the
\* row is at when it is applied, however old what they read was, as long as no
\* second pull request is opened for a commit of the first.
THEOREM VerdictsAreOfTheHead ==
  ASSUME ~SameHead
  PROVE  Spec => VerdictOfHead
<1> DEFINE Fair == /\ \A e \in Attempts : attempts'[e].rounds > attempts[e].rounds =>
                        row.head \in seen.red \cap reports.had[e]
                   /\ st = "CI_RUNNING" /\ st' = "READY_FOR_MERGE" => \/ row.head \in seen.green
                        \/ \E w \in Pollers : poll[w].do = "passed" /\ poll[w].since = row.head
                   /\ row.is = "open" /\ row'.is \in {"merged", "closed"} => gh[row.num].is = row'.is
<1>1. VerdictsFit /\ [Next]_vars => [Fair]_vars
  <2> SUFFICES ASSUME VerdictsFit, Next PROVE Fair
    OBVIOUS
  <2>1. \A e \in Attempts : attempts'[e].rounds > attempts[e].rounds =>
          row.head \in seen.red \cap reports.had[e]
    BY ChargedForTheHead
  <2>2. CASE \A w \in Pollers : ~Applies(w)
    BY <2>1, <2>2, OnlyPollersJudge
  <2>3. ASSUME NEW w \in Pollers, Applies(w) PROVE Fair
    <3>1. PollIn(gh, seen, poll[w]) /\ RowIn(gh, row) /\ gh \in [Pulls -> Pull]
      BY Parts DEF PullsIn
    <3>2. st = "CI_RUNNING" /\ st' = "READY_FOR_MERGE" =>
            row.head \in seen.green \/ (poll[w].do = "passed" /\ poll[w].since = row.head)
      BY <2>3, <3>1, AppliesLaw DEF PollIn
    <3>3. ASSUME row.is = "open", row'.is \in {"merged", "closed"} PROVE gh[row.num].is = row'.is
      <4>1. poll[w].do = row'.is /\ row.head = poll[w].head
        BY <2>3, <3>3, AppliesLaw
      <4>2. PICK n \in OpenIn(gh) : HeadIn(gh, n, poll[w].head) /\ gh[n].is = poll[w].do
        BY <3>1, <3>3, <4>1 DEF PollIn
      <4>3. HeadIn(gh, row.num, row.head)
        BY <3>1, <3>3 DEF RowIn
      <4>4. n = row.num
        BY <3>1, <4>1, <4>2, <4>3, OneHome
      <4> QED
        BY <4>1, <4>2, <4>4
    <3> QED
      BY <2>1, <3>2, <3>3
  <2> QED
    BY <2>2, <2>3
<1> QED
  BY InitFits, VerdictsFitStep, <1>1, PTL DEF Spec, VerdictOfHead

-----------------------------------------------------------------------------
(***************************************************************************)
(* Worktrees                                                               *)
(***************************************************************************)

(* Rows                                                                    *)

RowRecord == [role : Roles, state : ExecutionStates \cup {"NONE"}, path : 0 .. MaxRows,
              branch : BOOLEAN, evicted : BOOLEAN, prev : 0 .. MaxRows]

RunRecord == [phase : {"none", "ensure", "session"} \cup Preparing \cup Loading,
              from : ExecutionStates \cup {"NONE"}]

\* What PathsFit says of the rows, the runs and the commands
TablesFit ==
  /\ exec \in [Rows -> RowRecord] /\ run \in [Rows -> RunRecord] /\ asked \subseteq Rows
  /\ \A e \in Rows : exec[e].evicted => exec[e].path # 0
  /\ UnusedFit /\ FailedRests /\ TakenOver /\ OneOwner /\ RetryFits /\ BranchFits /\ UsedFits

DiskFits ==
  /\ work \in [Rows -> {"none", "branch", "detached"}]
  /\ local \in SUBSET Commits /\ remote \in SUBSET Commits /\ kept \in SUBSET Commits
  /\ sw = NoCandidate \/ sw \in [of : Rows, tip : SUBSET Commits]

LEMMA PathsFitIs == PathsFit <=> task \in TaskStates /\ TablesFit /\ DiskFits
BY DEF PathsFit, TablesFit, DiskFits, TreesTypeOK, RunsFit, RowRecord, RunRecord

LEMMA PathsFitIsNext == PathsFit' <=> task' \in TaskStates /\ TablesFit' /\ DiskFits'
BY DEF PathsFit, TablesFit, DiskFits, TreesTypeOK, RunsFit, RowRecord, RunRecord, UnusedFit,
       FailedRests, TakenOver, OneOwner, RetryFits, BranchFits, UsedFits, IsSpec

\* An execution that is there moves from a to b.
Moved(e, a, b) ==
  /\ a.state # "NONE" /\ b.state # "NONE" /\ b.role = a.role /\ b.prev = a.prev
  /\ a.state = "FAILED" => b.state = "FAILED" /\ b.branch = a.branch
  /\ b.state = "QUEUED" => b = a
  /\ b.path \in {0, a.path} \/ (b.path = e /\ a.state # "FAILED")
  /\ b.evicted => b.state \notin UsingStates /\ b.path # 0
  /\ IF a.role = "spec" THEN ~b.branch ELSE b.path # 0 => b.branch

\* The first unused row becomes b, an attempt or the retry of an implementation
\* that failed.
Born(e, b) ==
  /\ exec[e].state = "NONE" /\ \A f \in Rows : f < e => exec[f].state # "NONE"
  /\ b.role = "implementation" /\ b.path = 0 /\ ~b.evicted
  /\ \/ b.state = "ASSIGNED"
     \/ /\ b.state = "QUEUED" /\ b.prev \in Rows /\ exec[b.prev].state # "NONE"
        /\ exec'[b.prev].state = "FAILED" /\ exec[b.prev].role # "spec"
        /\ exec'[b.prev].branch = b.branch

RowsMove ==
  /\ exec' \in [Rows -> RowRecord]
  /\ \A e \in Rows : \/ exec'[e] = exec[e] \/ Moved(e, exec[e], exec'[e]) \/ Born(e, exec'[e])

\* A run goes on, or begins for an execution that is there and did not fail.
RunsMove ==
  /\ run' \in [Rows -> RunRecord] /\ asked' \subseteq Rows
  /\ \A e \in Rows : /\ run'[e].phase \in {"none", run[e].phase}
                        \/ exec'[e].state \notin {"NONE", "FAILED", "QUEUED"}
                     /\ exec'[e].state = "FAILED" /\ exec[e].state # "FAILED"
                          => run'[e].phase = "none"
                     /\ e \in asked' \ asked => exec'[e].state # "NONE"

LEMMA TablesMove ==
  ASSUME TablesFit, RowsMove, RunsMove
  PROVE  TablesFit'
<1> USE DEF TablesFit, RowsMove, RunsMove
<1> Rows \subseteq Nat /\ 0 \notin Rows /\ \A d \in 0 .. MaxRows : d # 0 => d \in Rows
  BY WorkspaceAssumption DEF Rows
<1>1. \A e \in Rows : exec'[e].evicted => exec'[e].path # 0
  BY DEF Moved, Born
<1>2. UnusedFit'
  <2>1. ASSUME NEW e \in Rows, exec'[e].state = "NONE"
        PROVE  exec'[e] = NoExecution /\ run'[e].phase = "none" /\ e \notin asked'
    BY <2>1 DEF Moved, Born, UnusedFit, RunRecord
  <2>2. ASSUME NEW e \in Rows, NEW f \in Rows, e < f, exec'[e].state = "NONE"
        PROVE  exec'[f].state = "NONE"
    BY <2>2 DEF Moved, Born, UnusedFit
  <2> QED
    BY <2>1, <2>2 DEF UnusedFit
<1>3. FailedRests'
  BY DEF FailedRests, Moved, Born
<1>4. \A e \in Rows : exec[e].state = "FAILED" => exec'[e].state = "FAILED" /\ exec'[e].branch = exec[e].branch
  BY DEF Moved, Born
<1>5. TakenOver'
  <2> SUFFICES ASSUME NEW e \in Rows, exec'[e].path \notin {0, e}
               PROVE  exec'[exec'[e].path].state = "FAILED"
    BY DEF TakenOver
  <2>1. exec'[e].path = exec[e].path /\ exec[e].path \in Rows
    BY DEF Moved, Born, RowRecord
  <2> QED
    BY <1>4, <2>1 DEF TakenOver
<1>6. OneOwner'
  <2> SUFFICES ASSUME NEW e \in Rows, NEW f \in Rows, exec'[e].path = exec'[f].path,
                      exec'[e].path # 0
               PROVE  e = f
    BY DEF OneOwner
  <2>1. /\ exec'[e].path = exec[e].path \/ (exec'[e].path = e /\ exec[e].state # "FAILED")
        /\ exec'[f].path = exec[f].path \/ (exec'[f].path = f /\ exec[f].state # "FAILED")
    BY DEF Moved, Born
  <2> QED
    BY <2>1 DEF OneOwner, TakenOver
<1>7. RetryFits'
  <2> SUFFICES ASSUME NEW e \in Rows, exec'[e].state = "QUEUED"
               PROVE  /\ exec'[e].prev # 0 /\ exec'[exec'[e].prev].state = "FAILED"
                      /\ exec'[exec'[e].prev].role # "spec"
                      /\ exec'[e].path = 0 /\ run'[e].phase = "none" /\ exec'[e].role # "spec"
                      /\ exec'[e].branch = exec'[exec'[e].prev].branch
    BY DEF RetryFits, IsSpec
  <2>1. CASE exec'[e] = exec[e]
    <3>1. exec[e].state = "QUEUED" /\ exec[e].prev \in 0 .. MaxRows
      BY <2>1 DEF RowRecord
    <3>2. PICK p \in Rows : p = exec[e].prev
      BY <3>1 DEF RetryFits
    <3>3. exec[p].state = "FAILED" /\ exec[p].role # "spec" /\ exec[e].branch = exec[p].branch
          /\ exec[e].path = 0 /\ run[e].phase = "none" /\ exec[e].role # "spec"
      BY <3>1, <3>2 DEF RetryFits, IsSpec
    <3>4. exec'[p].role # "spec"
      BY <3>3 DEF Moved, Born
    <3> QED
      BY <2>1, <1>4, <3>2, <3>3, <3>4
  <2>2. CASE Moved(e, exec[e], exec'[e])
    BY <2>1, <2>2 DEF Moved
  <2>3. CASE Born(e, exec'[e])
    <3>1. exec'[e].prev \in Rows /\ exec'[exec'[e].prev].role # "spec"
      BY <2>3 DEF Born, Moved
    <3> QED
      BY <2>3, <3>1 DEF Born, UnusedFit, RunRecord
  <2> QED
    BY <2>1, <2>2, <2>3
<1>8. BranchFits'
  BY DEF BranchFits, IsSpec, Moved, Born
<1>9. UsedFits'
  BY DEF UsedFits, Moved, Born
<1> QED
  BY <1>1, <1>2, <1>3, <1>5, <1>6, <1>7, <1>8, <1>9

-----------------------------------------------------------------------------
(* The first unused row, and a commit nobody made yet                      *)

LEMMA LessIsWellFounded == \A x, y \in Nat : x < y => <<x, y>> \in OpToRel(<, Nat)
BY DEF OpToRel

LEMMA LeastOf ==
  ASSUME NEW S \in SUBSET Nat, S # {}
  PROVE  \E m \in S : \A x \in S : m <= x
<1>1. PICK R : IsWellFoundedOn(R, Nat) /\ \A x, y \in Nat : x < y => <<x, y>> \in R
  BY LessIsWellFounded, NatLessThanWellFounded, Zenon
<1>2. IsWellFoundedOn(R, Nat)
  BY <1>1
<1>3. PICK m \in S : \A y \in S : ~(<<y, m>> \in R)
  BY <1>2, WFMin
<1>4. ASSUME NEW y \in S PROVE m <= y
  <2>1. y \in Nat /\ m \in Nat /\ ~(y < m)
    BY <1>1, <1>3
  <2> QED
    BY <2>1
<1> QED
  BY <1>4

LEMMA NextRowIsFirst ==
  ASSUME Fresh # {}
  PROVE  /\ NextRow \in Rows /\ exec[NextRow].state = "NONE"
         /\ \A f \in Rows : f < NextRow => exec[f].state # "NONE"
<1>1. \E m \in Fresh : \A x \in Fresh : m <= x
  <2>1. Fresh \in SUBSET Nat
    BY WorkspaceAssumption DEF Fresh, Rows
  <2> QED
    BY <2>1, LeastOf
<1>2. NextRow \in Fresh /\ \A f \in Fresh : NextRow <= f
  BY <1>1 DEF NextRow
<1> QED
  BY <1>2, WorkspaceAssumption DEF Fresh, Rows

LEMMA NewCommitIsUnused == ASSUME Unused # {} PROVE NewCommit \in Unused
<1>1. \E m \in Unused : \A x \in Unused : m <= x
  <2>1. Unused \in SUBSET Nat
    BY WorkspaceAssumption DEF Unused, Commits
  <2> QED
    BY <2>1, LeastOf
<1> QED
  BY <1>1 DEF NewCommit

-----------------------------------------------------------------------------
(* What the actions do to the rows                                         *)

\* The row of e becomes b, and no other row changes.
RowSet(e, b) ==
  /\ exec' \in [Rows -> RowRecord] /\ exec'[e] = b
  /\ \A f \in Rows : f # e => exec'[f] = exec[f]

WithState(a, state) == [a EXCEPT !.state = state]

LEMMA FieldsOfRow ==
  ASSUME NEW a \in RowRecord, NEW state \in ExecutionStates
  PROVE  /\ WithState(a, state) \in RowRecord /\ WithState(a, state).state = state
         /\ WithState(a, state).role = a.role /\ WithState(a, state).path = a.path
         /\ WithState(a, state).branch = a.branch /\ WithState(a, state).evicted = a.evicted
         /\ WithState(a, state).prev = a.prev
BY DEF WithState, RowRecord

LEMMA StateIsSet ==
  ASSUME TablesFit, NEW e \in Rows, NEW state \in ExecutionStates,
         exec' = [exec EXCEPT ![e].state = state]
  PROVE  RowSet(e, WithState(exec[e], state))
<1>1. exec' = [exec EXCEPT ![e] = WithState(exec[e], state)] /\ exec[e] \in RowRecord
  BY DEF WithState, TablesFit
<1>2. WithState(exec[e], state) \in RowRecord
  BY <1>1, FieldsOfRow
<1> QED
  BY <1>1, <1>2 DEF RowSet, TablesFit

\* The state of an execution that is there and has not failed becomes another.
LEMMA StateMoves ==
  ASSUME TablesFit, NEW e \in Rows, NEW state \in ExecutionStates \ {"QUEUED"},
         RowSet(e, WithState(exec[e], state)), exec[e].state \notin {"NONE", "FAILED"},
         exec[e].evicted => state \notin UsingStates
  PROVE  RowsMove
<1>1. exec[e] \in RowRecord
  BY DEF TablesFit
<1>2. Moved(e, exec[e], exec'[e])
  <2> DEFINE b == WithState(exec[e], state)
  <2>1. /\ b.state = state /\ b.role = exec[e].role /\ b.path = exec[e].path
        /\ b.branch = exec[e].branch /\ b.evicted = exec[e].evicted /\ b.prev = exec[e].prev
    BY <1>1, FieldsOfRow
  <2>2. exec'[e] = b
    BY DEF RowSet
  <2> HIDE DEF b
  <2>3. state # "NONE" /\ state # "QUEUED"
    BY DEF ExecutionStates
  <2> QED
    BY <1>1, <2>1, <2>2, <2>3 DEF Moved, TablesFit, BranchFits, IsSpec
<1> QED
  BY <1>2 DEF RowsMove, RowSet

LEMMA StateMovesNow ==
  ASSUME TablesFit, NEW e \in Rows, NEW state \in ExecutionStates \ {"QUEUED"},
         exec' = [exec EXCEPT ![e].state = state], exec[e].state \notin {"NONE", "FAILED"},
         exec[e].evicted => state \notin UsingStates
  PROVE  RowsMove /\ RowSet(e, WithState(exec[e], state))
BY StateIsSet, StateMoves

\* e has failed, and its retry may have been queued in the first unused row.
Failed(e) ==
  /\ exec' \in [Rows -> RowRecord] /\ exec'[e] = WithState(exec[e], "FAILED")
  /\ \/ /\ \A f \in Rows : f # e => exec'[f] = exec[f]
        /\ task' = task \/ ~IsSpec(e)
     \/ /\ ~IsSpec(e) /\ task = "IMPLEMENTING" /\ task' = task /\ Fresh # {} /\ e # NextRow
        /\ exec'[NextRow] = [NoExecution EXCEPT !.state = "QUEUED", !.prev = e,
                                                !.branch = exec[e].branch]
        /\ \A f \in Rows : f \notin {e, NextRow} => exec'[f] = exec[f]

LEMMA FailureIs ==
  ASSUME TablesFit, NEW e \in Rows, Fail(e)
  PROVE  \/ exec[e].state \notin {"ASSIGNED", "RUNNING"} /\ UNCHANGED <<task, exec>>
         \/ exec[e].state \in {"ASSIGNED", "RUNNING"} /\ Failed(e)
<1> SUFFICES ASSUME exec[e].state \in {"ASSIGNED", "RUNNING"} PROVE Failed(e)
  BY DEF Fail
<1> DEFINE failed == [exec EXCEPT ![e].state = "FAILED"]
<1>1. /\ failed \in [Rows -> RowRecord] /\ failed[e] = WithState(exec[e], "FAILED")
      /\ \A f \in Rows : f # e => failed[f] = exec[f]
  <2>1. failed = [exec EXCEPT ![e] = WithState(exec[e], "FAILED")] /\ exec[e] \in RowRecord
    BY DEF WithState, TablesFit
  <2>2. WithState(exec[e], "FAILED") \in RowRecord
    BY <2>1, FieldsOfRow DEF ExecutionStates
  <2> HIDE DEF failed
  <2> QED
    BY <2>1, <2>2 DEF TablesFit
<1>2. CASE exec' = failed /\ (task' = task \/ ~IsSpec(e))
  <2> HIDE DEF failed
  <2> QED
    BY <1>1, <1>2 DEF Failed
<1>3. CASE /\ Fresh # {} /\ exec' = WithRetry(e, failed) /\ UNCHANGED task
           /\ ~IsSpec(e) /\ task = "IMPLEMENTING"
  <2> DEFINE b == [NoExecution EXCEPT !.state = "QUEUED", !.prev = e, !.branch = exec[e].branch]
  <2>1. exec' = [failed EXCEPT ![NextRow] = b]
    BY <1>3 DEF WithRetry
  <2>2. b \in RowRecord
    <3>1. e \in 0 .. MaxRows /\ 0 \in 0 .. MaxRows /\ exec[e].branch \in BOOLEAN
      BY WorkspaceAssumption DEF TablesFit, Rows, RowRecord
    <3> QED
      BY <3>1 DEF NoExecution, RowRecord, Roles, ExecutionStates
  <2>3. NextRow \in Rows /\ exec[NextRow].state = "NONE"
    BY <1>3, NextRowIsFirst
  <2> HIDE DEF failed, b
  <2>4. /\ exec' \in [Rows -> RowRecord] /\ exec'[NextRow] = b
        /\ \A f \in Rows : f # NextRow => exec'[f] = failed[f]
    BY <1>1, <2>1, <2>2, <2>3
  <2> QED
    BY <1>1, <1>3, <2>3, <2>4 DEF Failed, b
<1> QED
  BY <1>2, <1>3 DEF Fail

LEMMA FailureMoves ==
  ASSUME TablesFit, NEW e \in Rows, exec[e].state \in {"ASSIGNED", "RUNNING"}, Failed(e)
  PROVE  RowsMove
<1> DEFINE a == WithState(exec[e], "FAILED")
<1>1. exec[e] \in RowRecord
  BY DEF TablesFit
<1>2. /\ a.state = "FAILED" /\ a.role = exec[e].role /\ a.path = exec[e].path
      /\ a.branch = exec[e].branch /\ a.evicted = exec[e].evicted /\ a.prev = exec[e].prev
  BY <1>1, FieldsOfRow DEF ExecutionStates
<1>3. exec'[e] = a
  BY DEF Failed
<1> HIDE DEF a
<1>4. Moved(e, exec[e], exec'[e])
  BY <1>1, <1>2, <1>3 DEF Moved, TablesFit, BranchFits, UsedFits, IsSpec, UsingStates
<1>5. CASE \A f \in Rows : f # e => exec'[f] = exec[f]
  BY <1>4, <1>5 DEF RowsMove, Failed
<1>6. CASE /\ ~IsSpec(e) /\ Fresh # {} /\ e # NextRow
           /\ exec'[NextRow] = [NoExecution EXCEPT !.state = "QUEUED", !.prev = e,
                                                   !.branch = exec[e].branch]
           /\ \A f \in Rows : f \notin {e, NextRow} => exec'[f] = exec[f]
  <2> DEFINE b == [NoExecution EXCEPT !.state = "QUEUED", !.prev = e, !.branch = exec[e].branch]
  <2>1. /\ b.role = "implementation" /\ b.state = "QUEUED" /\ b.path = 0
        /\ b.branch = exec[e].branch /\ b.evicted = FALSE /\ b.prev = e
    BY DEF NoExecution
  <2>2. exec'[NextRow] = b
    BY <1>6
  <2> HIDE DEF b
  <2>3. Born(NextRow, exec'[NextRow])
    BY <1>2, <1>3, <1>6, <2>1, <2>2, NextRowIsFirst DEF Born, IsSpec
  <2> QED
    BY <1>4, <1>6, <2>3 DEF RowsMove, Failed
<1> QED
  BY <1>5, <1>6 DEF Failed

-----------------------------------------------------------------------------
(* What the actions do to the runs                                         *)

\* The run of e becomes r, and no other run changes.
RunSet(e, r) ==
  /\ run' \in [Rows -> RunRecord] /\ run'[e] = r
  /\ \A f \in Rows : f # e => run'[f] = run[f]

LEMMA NoRunIs == NoRun \in RunRecord /\ NoRun.phase = "none"
BY DEF NoRun, RunRecord

LEMMA LeaveIs == ASSUME TablesFit, NEW e \in Rows, Leave(e) PROVE RunSet(e, NoRun)
<1>1. run' = [run EXCEPT ![e] = NoRun] /\ NoRun \in RunRecord
  BY NoRunIs DEF Leave
<1> QED
  BY <1>1 DEF RunSet, TablesFit

\* The run of e is in phase p.
PhaseSet(e, p) == /\ run' \in [Rows -> RunRecord] /\ run'[e].phase = p
                  /\ \A f \in Rows : f # e => run'[f] = run[f]

LEMMA PhaseIs ==
  ASSUME TablesFit, NEW e \in Rows,
         NEW p \in {"none", "ensure", "session"} \cup Preparing \cup Loading, Phase(e, p)
  PROVE  PhaseSet(e, p) /\ run'[e].from = run[e].from
<1> DEFINE r == [run[e] EXCEPT !.phase = p]
<1>1. run' = [run EXCEPT ![e] = r]
  BY DEF Phase
<1>2. r \in RunRecord /\ r.phase = p /\ r.from = run[e].from
  <2>1. run[e] \in RunRecord
    BY DEF TablesFit
  <2> QED
    BY <2>1 DEF RunRecord
<1> HIDE DEF r
<1> QED
  BY <1>1, <1>2 DEF PhaseSet, TablesFit

LEMMA SetLeaves == ASSUME NEW e \in Rows, RunSet(e, NoRun) PROVE PhaseSet(e, "none")
BY NoRunIs DEF RunSet, PhaseSet

\* A run goes on, or ends with its execution.
LEMMA RunsMoveOn ==
  ASSUME TablesFit, RowsMove, NEW e \in Rows, NEW p, PhaseSet(e, p), asked' \in SUBSET asked,
         p # "none" => exec'[e].state \notin {"NONE", "FAILED", "QUEUED"},
         \A f \in Rows : f # e /\ exec[f].state # "FAILED" => exec'[f].state # "FAILED"
  PROVE  TablesFit'
<1>1. RunsMove
  BY DEF RunsMove, PhaseSet, TablesFit, FailedRests
<1> QED
  BY <1>1, TablesMove

\* Only runs change, and commands are handled.
LEMMA RunAlone ==
  ASSUME TablesFit, UNCHANGED exec, NEW e \in Rows, NEW p, PhaseSet(e, p), asked' \in SUBSET asked,
         p # "none" => exec[e].state \notin {"NONE", "FAILED", "QUEUED"}
  PROVE  TablesFit'
<1>1. RowsMove
  BY DEF RowsMove, TablesFit
<1> QED
  BY <1>1, RunsMoveOn

\* A run is only of an execution that is there, and has not failed or still waits.
LEMMA RunIsOf ==
  ASSUME TablesFit, NEW e \in Rows, run[e].phase # "none"
  PROVE  exec[e].state \notin {"NONE", "FAILED", "QUEUED"}
BY DEF TablesFit, UnusedFit, FailedRests, RetryFits

LEMMA AskedOnly ==
  ASSUME TablesFit, UNCHANGED <<exec, run>>, NEW e \in Rows, asked' \in SUBSET (asked \cup {e}),
         exec[e].state # "NONE"
  PROVE  TablesFit'
<1>1. RowsMove /\ RunsMove
  BY DEF RowsMove, RunsMove, TablesFit
<1> QED
  BY <1>1, TablesMove

LEMMA TablesStutter == ASSUME TablesFit, UNCHANGED <<exec, run, asked>> PROVE TablesFit'
<1>1. RowsMove /\ RunsMove
  BY DEF RowsMove, RunsMove, TablesFit
<1> QED
  BY <1>1, TablesMove

-----------------------------------------------------------------------------
(* Every action keeps the tables                                           *)

\* The states of live executions of one kind become another, and nothing else.
LEMMA ManyMove ==
  ASSUME TablesFit, UNCHANGED <<run, asked>>,
         NEW state \in {"COMPLETED", "CANCELLED"}, NEW S \in SUBSET Rows,
         \A e \in S : exec[e].state \in LiveStates,
         exec' = [e \in Rows |-> IF e \in S THEN WithState(exec[e], state) ELSE exec[e]]
  PROVE  TablesFit'
<1>1. ASSUME NEW e \in Rows
      PROVE  exec'[e] \in RowRecord /\ (exec'[e] = exec[e] \/ Moved(e, exec[e], exec'[e]))
  <2>1. exec[e] \in RowRecord
    BY DEF TablesFit
  <2>2. CASE e \in S
    <3> DEFINE b == WithState(exec[e], state)
    <3>1. /\ b \in RowRecord /\ b.state = state /\ b.role = exec[e].role /\ b.path = exec[e].path
          /\ b.branch = exec[e].branch /\ b.evicted = exec[e].evicted /\ b.prev = exec[e].prev
      BY <2>1, FieldsOfRow DEF ExecutionStates
    <3>2. exec'[e] = b
      BY <2>2
    <3> HIDE DEF b
    <3> QED
      BY <2>1, <2>2, <3>1, <3>2 DEF Moved, TablesFit, BranchFits, IsSpec, LiveStates, UsingStates
  <2>3. CASE e \notin S
    BY <2>1, <2>3
  <2> QED
    BY <2>2, <2>3
<1>2. RowsMove
  BY <1>1 DEF RowsMove
<1>3. RunsMove
  <2> SUFFICES ASSUME NEW e \in Rows, exec'[e].state = "FAILED" PROVE run'[e].phase = "none"
    BY DEF RunsMove, TablesFit
  <2>1. exec'[e] = exec[e] \/ e \in S
    OBVIOUS
  <2>2. e \in S => exec'[e].state = state
    BY FieldsOfRow DEF TablesFit, ExecutionStates
  <2> QED
    BY <2>1, <2>2 DEF TablesFit, FailedRests
<1> QED
  BY <1>2, <1>3, TablesMove

LEMMA OthersKeepTables == ASSUME TablesFit, Others PROVE TablesFit'
<1>1. CASE Promote \/ Approve \/ Revise \/ PullRequestEnds \/ HumanRetry \/ Reopen
  BY <1>1, TablesStutter DEF Others, Promote, Approve, Revise, PullRequestEnds, HumanRetry, Reopen,
     memory
<1>2. CASE RequestReview
  <2> DEFINE S == {e \in Rows : IsSpec(e) /\ exec[e].state = "RUNNING"}
  <2>1. exec' = [e \in Rows |-> IF e \in S THEN WithState(exec[e], "COMPLETED") ELSE exec[e]]
    BY <1>2 DEF RequestReview, WithState
  <2>2. \A e \in S : exec[e].state \in LiveStates
    BY DEF LiveStates
  <2>3. UNCHANGED <<run, asked>> /\ S \in SUBSET Rows
    BY <1>2 DEF RequestReview, Others, memory
  <2> HIDE DEF S
  <2> QED
    BY <2>1, <2>2, <2>3, ManyMove
<1>3. CASE Cancel
  <2> DEFINE S == {e \in Rows : exec[e].state \in LiveStates}
  <2>1. exec' = [e \in Rows |-> IF e \in S THEN WithState(exec[e], "CANCELLED") ELSE exec[e]]
    BY <1>3 DEF Cancel, WithState
  <2>2. UNCHANGED <<run, asked>> /\ S \in SUBSET Rows /\ \A e \in S : exec[e].state \in LiveStates
    BY <1>3 DEF Cancel, Others, memory
  <2> HIDE DEF S
  <2> QED
    BY <2>1, <2>2, ManyMove
<1>4. CASE SendBack
  <2>1. PICK e \in InState({"COMPLETED"}) : Ask(e)
    BY <1>4 DEF SendBack
  <2> QED
    BY <1>4, <2>1, AskedOnly DEF SendBack, Others, memory, Ask, InState
<1>5. ASSUME NEW e \in Rows, UserAnswers(e) \/ CiFails(e) PROVE TablesFit'
  <2>1. exec[e].state # "NONE" /\ asked' \in SUBSET (asked \cup {e}) /\ UNCHANGED <<exec, run>>
    BY <1>5 DEF UserAnswers, CiFails, Ask, Others, memory
  <2> QED
    BY <2>1, AskedOnly
<1> QED
  BY <1>1, <1>2, <1>3, <1>4, <1>5 DEF Others

LEMMA LeaseKeepsTables == ASSUME TablesFit, NEW e \in Rows, LeaseExpires(e) PROVE TablesFit'
<1>1. UNCHANGED <<run, asked>> /\ exec[e].state \in {"ASSIGNED", "RUNNING"} /\ run[e].phase = "none"
  BY DEF LeaseExpires, memory, Alive
<1>2. Failed(e)
  BY <1>1, FailureIs DEF LeaseExpires
<1>3. RowsMove
  BY <1>1, <1>2, FailureMoves
<1>4. RunsMove
  BY <1>1, <1>2, NextRowIsFirst DEF RunsMove, Failed, TablesFit, NoExecution, FailedRests
<1> QED
  BY <1>3, <1>4, TablesMove

\* A run ends, and its execution may fail with it.
LEMMA FailAndLeave ==
  ASSUME TablesFit, NEW e \in Rows, Fail(e), Leave(e), asked' \in SUBSET asked
  PROVE  TablesFit'
<1>1. PhaseSet(e, "none")
  BY LeaveIs, SetLeaves
<1>2. CASE UNCHANGED <<task, exec>>
  BY <1>1, <1>2, RunAlone
<1>3. CASE exec[e].state \in {"ASSIGNED", "RUNNING"} /\ Failed(e)
  <2>1. RowsMove
    BY <1>3, FailureMoves
  <2>2. RunsMove
    BY <1>1, <1>3, NextRowIsFirst DEF RunsMove, PhaseSet, Failed, TablesFit, NoExecution, FailedRests
  <2> QED
    BY <2>1, <2>2, TablesMove
<1> QED
  BY <1>2, <1>3, FailureIs

LEMMA ClaimKeepsTables == ASSUME TablesFit, Claim PROVE TablesFit'
<1> DEFINE b == [NoExecution EXCEPT !.state = "ASSIGNED"]
           r == [run[NextRow] EXCEPT !.phase = "claimed"]
<1>1. b \in RowRecord /\ b.role = "implementation" /\ b.state = "ASSIGNED" /\ b.path = 0 /\ ~b.evicted
  <2>1. 0 \in 0 .. MaxRows
    BY WorkspaceAssumption
  <2> QED
    BY <2>1 DEF NoExecution, RowRecord, Roles, ExecutionStates
<1>2. /\ NextRow \in Rows /\ exec[NextRow].state = "NONE"
      /\ \A f \in Rows : f < NextRow => exec[f].state # "NONE"
  BY NextRowIsFirst DEF Claim
<1>3. r \in RunRecord
  <2>1. run[NextRow] \in RunRecord
    BY <1>2 DEF TablesFit
  <2> QED
    BY <2>1 DEF RunRecord, Preparing
<1>4. exec' = [exec EXCEPT ![NextRow] = b] /\ run' = [run EXCEPT ![NextRow] = r] /\ UNCHANGED asked
  BY DEF Claim
<1> HIDE DEF b, r
<1>5. RowsMove
  BY <1>1, <1>2, <1>4 DEF RowsMove, TablesFit, Born
<1>6. RunsMove
  BY <1>1, <1>2, <1>3, <1>4 DEF RunsMove, TablesFit, FailedRests
<1> QED
  BY <1>5, <1>6, TablesMove

\* The retry e takes over the directory of the attempt p.
Inherits(e, p) ==
  /\ exec' \in [Rows -> RowRecord]
  /\ exec'[e] = [exec[e] EXCEPT !.state = "ASSIGNED", !.path = exec[p].path]
  /\ exec'[p] = [exec[p] EXCEPT !.path = 0]
  /\ \A f \in Rows : f \notin {e, p} => exec'[f] = exec[f]

\* What a queued retry names
LEMMA PrevIs ==
  ASSUME TablesFit, NEW e \in Rows, exec[e].state = "QUEUED"
  PROVE  /\ exec[e].prev \in Rows /\ exec[e].prev # e /\ exec[exec[e].prev].state = "FAILED"
         /\ ~IsSpec(exec[e].prev) /\ ~IsSpec(e) /\ exec[e].path = 0 /\ run[e].phase = "none"
         /\ exec[e].branch = exec[exec[e].prev].branch
<1>1. exec[e].prev # 0 /\ exec[e].prev \in 0 .. MaxRows
  BY DEF TablesFit, RetryFits, RowRecord
<1>2. exec[e].prev \in Rows
  BY <1>1, WorkspaceAssumption DEF Rows
<1> QED
  BY <1>2 DEF TablesFit, RetryFits

LEMMA TransferInherits ==
  ASSUME TablesFit, NEW e \in Rows, exec[e].state = "QUEUED",
         exec' = Transfer(e, exec[e].prev, [exec EXCEPT ![e].state = "ASSIGNED"])
  PROVE  Inherits(e, exec[e].prev)
<1> DEFINE p == exec[e].prev
           pinned == [exec EXCEPT ![e].state = "ASSIGNED"]
           a == WithState(exec[e], "ASSIGNED")
           b == [a EXCEPT !.path = exec[p].path]
           c == [exec[p] EXCEPT !.path = 0]
<1>1. p \in Rows /\ p # e /\ exec[e] \in RowRecord /\ exec[p] \in RowRecord
  BY PrevIs DEF TablesFit
<1>2. pinned = [exec EXCEPT ![e] = a]
  BY DEF WithState
<1>3. a \in RowRecord
  BY <1>1, FieldsOfRow DEF ExecutionStates
<1>4. b \in RowRecord /\ c \in RowRecord /\ b = [exec[e] EXCEPT !.state = "ASSIGNED", !.path = exec[p].path]
  <2>1. b = [exec[e] EXCEPT !.state = "ASSIGNED", !.path = exec[p].path]
    BY DEF WithState
  <2>2. exec[p].path \in 0 .. MaxRows /\ 0 \in 0 .. MaxRows
    BY <1>1, WorkspaceAssumption DEF RowRecord
  <2> HIDE DEF a
  <2>3. b \in RowRecord
    BY <1>3, <2>2 DEF RowRecord
  <2>4. c \in RowRecord
    BY <1>1, <2>2 DEF RowRecord
  <2> QED
    BY <2>1, <2>3, <2>4
<1> HIDE DEF a
<1>5. pinned[p] = exec[p] /\ pinned[e] = a /\ pinned \in [Rows -> RowRecord]
      /\ \A f \in Rows : f # e => pinned[f] = exec[f]
  <2> HIDE DEF pinned
  <2> QED
    BY <1>1, <1>2, <1>3 DEF TablesFit
<1>6. exec' = [[pinned EXCEPT ![e] = b] EXCEPT ![p] = c]
  <2>1. exec' = [pinned EXCEPT ![e].path = exec[p].path, ![p].path = 0]
    BY <1>5 DEF Transfer
  <2> HIDE DEF pinned
  <2> DEFINE taken == [pinned EXCEPT ![e] = b]
  <2>2. taken = [pinned EXCEPT ![e].path = exec[p].path] /\ exec' = [taken EXCEPT ![p].path = 0]
    BY <1>1, <1>5, <2>1
  <2>3. taken[p] = exec[p]
    BY <1>1, <1>5
  <2> HIDE DEF taken
  <2>4. exec' = [taken EXCEPT ![p] = c]
    BY <2>2, <2>3
  <2> QED
    BY <2>4 DEF taken
<1> HIDE DEF pinned, b, c
<1>7. exec' \in [Rows -> RowRecord] /\ exec'[e] = b /\ exec'[p] = c
      /\ \A f \in Rows : f \notin {e, p} => exec'[f] = pinned[f]
  BY <1>1, <1>4, <1>5, <1>6
<1> QED
  BY <1>4, <1>5, <1>7 DEF Inherits, c

LEMMA HeirKeepsTables ==
  ASSUME TablesFit, NEW e \in Rows, exec[e].state = "QUEUED", Inherits(e, exec[e].prev),
         exec[exec[e].prev].path # 0, ~exec[exec[e].prev].evicted,
         PhaseSet(e, "claimed"), UNCHANGED asked
  PROVE  TablesFit'
<1> DEFINE p == exec[e].prev
<1>1. /\ p \in Rows /\ p # e /\ exec[p].state = "FAILED" /\ exec[p].role # "spec"
      /\ exec[e].role # "spec" /\ exec[e].branch = exec[p].branch /\ ~exec[p].evicted
  BY PrevIs DEF IsSpec
<1>2. exec[e] \in RowRecord /\ exec[p] \in RowRecord /\ exec[p].path \in Rows
  <2>1. exec[p].path \in 0 .. MaxRows
    BY <1>1 DEF TablesFit, RowRecord
  <2> QED
    BY <1>1, <2>1, WorkspaceAssumption DEF TablesFit, Rows
<1>3. /\ exec'[e].state = "ASSIGNED" /\ exec'[e].path = exec[p].path
      /\ exec'[e].role = exec[e].role /\ exec'[e].branch = exec[e].branch
      /\ exec'[e].evicted = exec[e].evicted
      /\ exec'[p].state = "FAILED" /\ exec'[p].path = 0 /\ exec'[p].role = exec[p].role
      /\ exec'[p].branch = exec[p].branch /\ exec'[p].evicted = exec[p].evicted
  BY <1>1, <1>2 DEF Inherits, RowRecord
<1>4. \A f \in Rows : f \notin {e, p} => exec'[f] = exec[f]
  BY DEF Inherits
<1>5. ~exec[e].evicted
  BY DEF TablesFit, UsedFits, UsingStates
<1>6. \A f \in Rows : exec[f].state = "FAILED" => exec'[f].state = "FAILED" /\ exec'[f].branch = exec[f].branch
                                                /\ exec'[f].role = exec[f].role
  BY <1>1, <1>3, <1>4
<1> HIDE DEF p
<1> USE DEF TablesFit
<1>7. UnusedFit'
  BY <1>1, <1>3, <1>4 DEF UnusedFit, PhaseSet
<1>8. FailedRests'
  BY <1>1, <1>3, <1>4 DEF FailedRests, PhaseSet
<1>9. TakenOver'
  <2> SUFFICES ASSUME NEW f \in Rows, exec'[f].path \notin {0, f}
               PROVE  exec'[exec'[f].path].state = "FAILED"
    BY DEF TakenOver
  <2>1. CASE f = e
    <3>1. exec[exec[p].path].state = "FAILED"
      <4>1. CASE exec[p].path = p
        BY <1>1, <4>1
      <4>2. CASE exec[p].path # p
        <5>1. exec[p].path \notin {0, p}
          BY <1>2, <4>2, WorkspaceAssumption DEF Rows
        <5> QED
          BY <1>1, <5>1 DEF TakenOver
      <4> QED
        BY <4>1, <4>2
    <3> QED
      BY <1>2, <1>3, <1>6, <2>1, <3>1
  <2>2. CASE f = p
    BY <1>3, <2>2
  <2>3. CASE f \notin {e, p}
    <3>1. exec[f].path \in Rows
      <4>1. exec[f].path \in 0 .. MaxRows /\ exec[f].path # 0
        BY <1>4, <2>3 DEF RowRecord
      <4> QED
        BY <4>1, WorkspaceAssumption DEF Rows
    <3> QED
      BY <1>4, <1>6, <2>3, <3>1 DEF TakenOver
  <2> QED
    BY <2>1, <2>2, <2>3
<1>10. OneOwner'
  BY <1>1, <1>2, <1>3, <1>4 DEF OneOwner
<1>11. RetryFits'
  <2> SUFFICES ASSUME NEW f \in Rows, exec'[f].state = "QUEUED"
               PROVE  /\ exec'[f].prev # 0 /\ exec'[exec'[f].prev].state = "FAILED"
                      /\ exec'[exec'[f].prev].role # "spec"
                      /\ exec'[f].path = 0 /\ run'[f].phase = "none" /\ exec'[f].role # "spec"
                      /\ exec'[f].branch = exec'[exec'[f].prev].branch
    BY DEF RetryFits, IsSpec
  <2>1. f \notin {e, p} /\ exec'[f] = exec[f]
    BY <1>1, <1>3, <1>4
  <2> QED
    BY <1>6, <2>1, PrevIs DEF PhaseSet, RetryFits, IsSpec
<1>12. BranchFits'
  BY <1>1, <1>2, <1>3, <1>4 DEF BranchFits, IsSpec
<1>13. UsedFits'
  BY <1>1, <1>3, <1>4, <1>5 DEF UsedFits
<1>14. \A f \in Rows : exec'[f].evicted => exec'[f].path # 0
  BY <1>1, <1>3, <1>4, <1>5
<1> QED
  BY <1>7, <1>8, <1>9, <1>10, <1>11, <1>12, <1>13, <1>14 DEF Inherits, PhaseSet

LEMMA RetryKeepsTables == ASSUME TablesFit, NEW e \in Rows, ClaimRetry(e) PROVE TablesFit'
<1> DEFINE p == exec[e].prev
<1>1. exec[e].state = "QUEUED" /\ UNCHANGED asked /\ PhaseSet(e, "claimed")
  BY PhaseIs DEF ClaimRetry, Preparing
<1>2. CASE exec[p].state = "FAILED" /\ ~exec[p].evicted /\ Present(exec[p].path)
  <2>1. exec' = Transfer(e, p, [exec EXCEPT ![e].state = "ASSIGNED"]) /\ exec[p].path # 0
    BY <1>2 DEF ClaimRetry, Present
  <2> QED
    BY <1>1, <1>2, <2>1, TransferInherits, HeirKeepsTables
<1>3. CASE ~(exec[p].state = "FAILED" /\ ~exec[p].evicted /\ Present(exec[p].path))
  <2>1. exec' = [exec EXCEPT ![e].state = "ASSIGNED"]
    BY <1>3 DEF ClaimRetry
  <2>2. ~exec[e].evicted
    BY <1>1 DEF TablesFit, UsedFits, UsingStates
  <2>3. RowsMove /\ RowSet(e, WithState(exec[e], "ASSIGNED"))
    BY <1>1, <2>1, <2>2, StateMovesNow DEF ExecutionStates
  <2>4. exec'[e].state = "ASSIGNED" /\ \A f \in Rows : f # e => exec'[f] = exec[f]
    BY <2>3, FieldsOfRow DEF RowSet, TablesFit, ExecutionStates
  <2> QED
    BY <1>1, <2>3, <2>4, RunsMoveOn
<1> QED
  BY <1>2, <1>3

\* The row of e becomes b.
LEMMA RowIs ==
  ASSUME TablesFit, NEW e \in Rows, NEW b \in RowRecord, exec' = [exec EXCEPT ![e] = b],
         Moved(e, exec[e], b)
  PROVE  RowsMove /\ RowSet(e, b)
BY DEF RowsMove, RowSet, TablesFit

LEMMA RowAlone ==
  ASSUME TablesFit, RowsMove, NEW e \in Rows, NEW b, RowSet(e, b), UNCHANGED <<run, asked>>,
         b.state # "FAILED" \/ exec[e].state = "FAILED"
  PROVE  TablesFit'
<1>1. RunsMove
  BY DEF RunsMove, RowSet, TablesFit, FailedRests
<1> QED
  BY <1>1, TablesMove

\* An execution that runs, or begins to, is in phase p.
LEMMA RunsOn ==
  ASSUME TablesFit, NEW e \in Rows, NEW p, PhaseSet(e, p), asked' \in SUBSET asked,
         exec' = [exec EXCEPT ![e].state = "RUNNING"],
         exec[e].state \notin {"NONE", "FAILED"}, ~exec[e].evicted
  PROVE  TablesFit' /\ RowSet(e, WithState(exec[e], "RUNNING"))
<1>1. RowsMove /\ RowSet(e, WithState(exec[e], "RUNNING"))
  BY StateMovesNow DEF ExecutionStates
<1>2. exec'[e].state = "RUNNING" /\ \A f \in Rows : f # e => exec'[f] = exec[f]
  BY <1>1, FieldsOfRow DEF RowSet, TablesFit, ExecutionStates
<1> QED
  BY <1>1, <1>2, RunsMoveOn

\* A command is refused.
LEMMA RefuseIs ==
  ASSUME TablesFit, NEW e \in Rows, Refuse(e)
  PROVE  RunSet(e, NoRun) /\ PhaseSet(e, "none") /\ asked' \in SUBSET asked
BY LeaveIs, SetLeaves DEF Refuse, TablesFit

LEMMA ReuseKeepsTables == ASSUME TablesFit, NEW e \in Rows, Reuse(e) PROVE TablesFit'
<1>1. PhaseSet(e, "ensure") /\ run[e].phase = "claimed" /\ UNCHANGED asked
  BY PhaseIs DEF Reuse
<1>2. exec[e].state \notin {"NONE", "FAILED", "QUEUED"}
  BY <1>1, RunIsOf
<1>3. CASE exec[e].state = "ASSIGNED" /\ exec' = [exec EXCEPT ![e].state = "RUNNING"]
  <2>1. ~exec[e].evicted
    BY <1>3 DEF TablesFit, UsedFits, UsingStates
  <2> QED
    BY <1>1, <1>3, <2>1, RunsOn
<1>4. CASE UNCHANGED exec
  BY <1>1, <1>2, <1>4, RunAlone
<1> QED
  BY <1>3, <1>4 DEF Reuse

LEMMA PrepareKeepsTables ==
  ASSUME TablesFit, NEW e \in Rows,
         PushPrevious(e) \/ Prepare(e) \/ StartOver(e) \/ Restore(e) \/ Stop(e)
  PROVE  TablesFit'
<1>1. UNCHANGED <<exec, asked>> /\ run[e].phase # "none"
  BY DEF PushPrevious, Prepare, StartOver, Restore, Stop, Ready, db
<1>2. exec[e].state \notin {"NONE", "FAILED", "QUEUED"}
  BY <1>1, RunIsOf
<1>3. CASE Stop(e)
  BY <1>1, <1>3, LeaveIs, SetLeaves, RunAlone DEF Stop
<1>4. CASE ~Stop(e)
  <2>1. PICK p \in {"pushed", "untried", "prepared", "restore", "restored"} : Phase(e, p)
    BY <1>4 DEF PushPrevious, Prepare, StartOver, Restore
  <2>2. PhaseSet(e, p)
    BY <2>1, PhaseIs DEF Preparing, Loading
  <2> QED
    BY <1>1, <1>2, <2>2, RunAlone
<1> QED
  BY <1>3, <1>4

LEMMA RecordKeepsTables == ASSUME TablesFit, NEW e \in Rows, Record(e) PROVE TablesFit'
<1> DEFINE b == [exec[e] EXCEPT !.path = e, !.branch = ~IsSpec(e)]
<1>1. PhaseSet(e, "ensure") /\ run[e].phase = "prepared" /\ UNCHANGED asked
  BY PhaseIs DEF Record
<1>2. exec[e].state \notin {"NONE", "FAILED", "QUEUED"} /\ exec[e] \in RowRecord
  BY <1>1, RunIsOf DEF TablesFit
<1>3. exec' = [exec EXCEPT ![e] = b]
  BY DEF Record, Recorded
<1>4. /\ b \in RowRecord /\ b.state = exec[e].state /\ b.role = exec[e].role /\ b.prev = exec[e].prev
      /\ b.path = e /\ (b.branch <=> exec[e].role # "spec") /\ b.evicted = exec[e].evicted
  <2>1. e \in 0 .. MaxRows /\ IsSpec(e) \in BOOLEAN /\ (IsSpec(e) <=> exec[e].role = "spec")
    BY WorkspaceAssumption DEF Rows, IsSpec
  <2> QED
    BY <1>2, <2>1 DEF RowRecord
<1> HIDE DEF b
<1>5. Moved(e, exec[e], b)
  <2>1. exec[e].evicted => exec[e].state \notin UsingStates
    BY DEF TablesFit, UsedFits
  <2>2. b.path # 0
    BY <1>4, WorkspaceAssumption DEF Rows
  <2> QED
    BY <1>2, <1>4, <2>1, <2>2 DEF Moved
<1>6. RowsMove /\ RowSet(e, b)
  BY <1>3, <1>4, <1>5, RowIs
<1> QED
  BY <1>1, <1>2, <1>4, <1>6, RunsMoveOn DEF RowSet

LEMMA LoadKeepsTables == ASSUME TablesFit, NEW e \in Rows, Load(e) PROVE TablesFit'
<1>1. UNCHANGED exec
  BY DEF Load
<1>2. CASE Resumable(e) /\ exec[e].path # 0
  <2> DEFINE p == IF exec[e].evicted THEN "restore" ELSE "loaded"
             r == [phase |-> p, from |-> exec[e].state]
  <2>1. run' = [run EXCEPT ![e] = r] /\ UNCHANGED asked
    BY <1>2 DEF Load
  <2>2. r \in RunRecord /\ r.phase = p
    BY DEF RunRecord, Loading, TablesFit, RowRecord
  <2> HIDE DEF r, p
  <2>3. PhaseSet(e, p)
    BY <2>1, <2>2 DEF PhaseSet, TablesFit
  <2>4. exec[e].state \notin {"NONE", "FAILED", "QUEUED"}
    BY <1>2 DEF Resumable
  <2> QED
    BY <1>1, <2>1, <2>3, <2>4, RunAlone
<1>3. CASE Refuse(e)
  BY <1>1, <1>3, RefuseIs, RunAlone
<1> QED
  BY <1>2, <1>3 DEF Load

LEMMA RestoredKeepsTables ==
  ASSUME TablesFit, NEW e \in Rows, RecordRestored(e)
  PROVE  TablesFit'
<1> DEFINE b == [exec[e] EXCEPT !.evicted = FALSE]
<1>1. PhaseSet(e, "loaded") /\ run[e].phase = "restored" /\ UNCHANGED asked
  BY PhaseIs DEF RecordRestored, Loading
<1>2. exec[e].state \notin {"NONE", "FAILED", "QUEUED"} /\ exec[e] \in RowRecord
  BY <1>1, RunIsOf DEF TablesFit
<1>3. exec' = [exec EXCEPT ![e] = b]
  BY DEF RecordRestored
<1>4. /\ b \in RowRecord /\ b.state = exec[e].state /\ b.role = exec[e].role /\ b.prev = exec[e].prev
      /\ b.path = exec[e].path /\ b.branch = exec[e].branch /\ b.evicted = FALSE
  BY <1>2 DEF RowRecord
<1> HIDE DEF b
<1>5. Moved(e, exec[e], b)
  BY <1>2, <1>4 DEF Moved, TablesFit, BranchFits, IsSpec
<1>6. RowsMove /\ RowSet(e, b)
  BY <1>3, <1>4, <1>5, RowIs
<1> QED
  BY <1>1, <1>2, <1>4, <1>6, RunsMoveOn DEF RowSet

LEMMA ResumeKeepsTables ==
  ASSUME TablesFit, NEW e \in Rows, Resume(e) \/ RestoreFails(e)
  PROVE  TablesFit'
<1>1. CASE Resume(e) /\ MayResume(e)
  <2> DEFINE r == [NoRun EXCEPT !.phase = "ensure"]
  <2>1. run' = [run EXCEPT ![e] = r] /\ asked' \in SUBSET asked /\ run[e].phase # "none"
        /\ exec' = [exec EXCEPT ![e].state = "RUNNING"] /\ ~exec[e].evicted
    BY <1>1 DEF Resume, TablesFit, MayResume
  <2>2. r \in RunRecord /\ r.phase = "ensure"
    BY DEF NoRun, RunRecord
  <2> HIDE DEF r
  <2>3. PhaseSet(e, "ensure")
    BY <2>1, <2>2 DEF PhaseSet, TablesFit
  <2>4. exec[e].state \notin {"NONE", "FAILED"}
    BY <2>1, RunIsOf
  <2> QED
    BY <2>1, <2>3, <2>4, RunsOn
<1>2. CASE UNCHANGED exec /\ Refuse(e)
  BY <1>2, RefuseIs, RunAlone
<1> QED
  BY <1>1, <1>2 DEF Resume, RestoreFails

LEMMA StartKeepsTables ==
  ASSUME TablesFit, NEW e \in Rows, Start(e) \/ StartFails(e) \/ PrepareFails(e)
  PROVE  TablesFit'
<1>1. asked' \in SUBSET asked
  BY DEF Start, StartFails, PrepareFails, TablesFit
<1>2. CASE Fail(e) /\ Leave(e)
  BY <1>1, <1>2, FailAndLeave
<1>3. CASE UNCHANGED exec /\ Leave(e)
  BY <1>1, <1>3, LeaveIs, SetLeaves, RunAlone
<1>4. CASE /\ exec[e].state \in {"ASSIGNED", "RUNNING"} /\ exec' = [exec EXCEPT ![e].state = "RUNNING"]
           /\ Phase(e, "session")
  <2>1. PhaseSet(e, "session")
    BY <1>4, PhaseIs
  <2>2. ~exec[e].evicted
    BY <1>4 DEF TablesFit, UsedFits, UsingStates
  <2> QED
    BY <1>1, <1>4, <2>1, <2>2, RunsOn
<1> QED
  BY <1>2, <1>3, <1>4 DEF Start, StartFails, PrepareFails

LEMMA TurnKeepsTables == ASSUME TablesFit, NEW e \in Rows, TurnEnds(e) PROVE TablesFit'
<1>1. Leave(e) /\ PhaseSet(e, "none") /\ asked' \in SUBSET asked
  BY LeaveIs, SetLeaves DEF TurnEnds, TablesFit
<1>2. CASE Pause(e)
  <2>1. RowsMove /\ RowSet(e, WithState(exec[e], "WAITING_FOR_USER"))
    BY <1>2, StateMovesNow DEF Pause, ExecutionStates, UsingStates
  <2>2. \A g \in Rows : g # e => exec'[g] = exec[g]
    BY <2>1 DEF RowSet
  <2> QED
    BY <1>1, <2>1, <2>2, RunsMoveOn
<1>3. CASE Fail(e)
  BY <1>1, <1>3, FailAndLeave
<1>4. CASE UNCHANGED <<task, exec>>
  BY <1>1, <1>4, RunAlone
<1> QED
  BY <1>2, <1>3, <1>4 DEF TurnEnds

LEMMA CompletesKeepsTables ==
  ASSUME TablesFit, NEW e \in Rows, AgentCompletes(e)
  PROVE  TablesFit'
<1>1. exec' = [exec EXCEPT ![e].state = "COMPLETED"] /\ UNCHANGED <<run, asked>> /\ exec[e].state = "RUNNING"
  BY DEF AgentCompletes, memory
<1>2. RowsMove /\ RowSet(e, WithState(exec[e], "COMPLETED"))
  BY <1>1, StateMovesNow DEF ExecutionStates, UsingStates
<1>3. WithState(exec[e], "COMPLETED").state = "COMPLETED"
  BY FieldsOfRow DEF TablesFit, ExecutionStates
<1> QED
  BY <1>1, <1>2, <1>3, RowAlone

\* A candidate of the sweeper is an execution that ended, waits or may be resumed.
LEMMA RemoveKeepsTables ==
  ASSUME TablesFit, NEW e \in Rows, NEW kind, Remove(e, kind)
  PROVE  TablesFit'
<1> DEFINE b == [exec[e] EXCEPT !.path = 0]
<1>1. exec' = [exec EXCEPT ![e] = b] /\ UNCHANGED <<run, asked>>
  BY DEF Remove, memory
<1>2. exec[e] \in RowRecord /\ ~exec[e].evicted /\ exec[e].state \notin UsingStates \cup {"NONE"}
  BY DEF Remove, Candidate, TablesFit
<1>3. /\ b \in RowRecord /\ b.state = exec[e].state /\ b.role = exec[e].role /\ b.prev = exec[e].prev
      /\ b.path = 0 /\ b.branch = exec[e].branch /\ b.evicted = exec[e].evicted
  <2>1. 0 \in 0 .. MaxRows
    BY WorkspaceAssumption
  <2> QED
    BY <1>2, <2>1 DEF RowRecord
<1> HIDE DEF b
<1>4. Moved(e, exec[e], b)
  BY <1>2, <1>3 DEF Moved, TablesFit, BranchFits, IsSpec, UsingStates
<1>5. RowsMove /\ RowSet(e, b)
  BY <1>1, <1>3, <1>4, RowIs
<1> QED
  BY <1>1, <1>3, <1>5, RowAlone

LEMMA EvictKeepsTables == ASSUME TablesFit, DiskFits, Evict PROVE TablesFit'
<1>1. UNCHANGED <<run, asked>>
  BY DEF Evict
<1>2. CASE StillIdle
  <2> DEFINE e == sw.of
             b == [exec[e] EXCEPT !.evicted = TRUE]
  <2>1. e \in Rows
    BY DEF DiskFits, Evict
  <2>2. exec' = [exec EXCEPT ![e] = b]
    BY <1>2 DEF Evict, MarkEvicted
  <2>3. /\ exec[e] \in RowRecord /\ exec[e].path # 0 /\ exec[e].state \notin UsingStates \cup {"NONE"}
    BY <1>2, <2>1 DEF StillIdle, Candidate, TablesFit
  <2>4. /\ b \in RowRecord /\ b.state = exec[e].state /\ b.role = exec[e].role /\ b.prev = exec[e].prev
        /\ b.path = exec[e].path /\ b.branch = exec[e].branch /\ b.evicted = TRUE
    BY <2>3 DEF RowRecord
  <2> HIDE DEF b
  <2>5. Moved(e, exec[e], b)
    BY <2>1, <2>3, <2>4 DEF Moved, TablesFit, BranchFits, IsSpec, UsingStates
  <2>6. RowsMove /\ RowSet(e, b)
    BY <2>1, <2>2, <2>4, <2>5, RowIs
  <2> QED
    BY <1>1, <2>1, <2>4, <2>6, RowAlone
<1>3. CASE ~StillIdle
  BY <1>1, <1>3, TablesStutter DEF Evict
<1> QED
  BY <1>2, <1>3

LEMMA RestartKeepsTables ==
  ASSUME TablesFit, Restarted, UNCHANGED <<exec, asked>>
  PROVE  TablesFit'
<1>1. run' \in [Rows -> RunRecord] /\ \A e \in Rows : run'[e].phase = "none"
  BY NoRunIs DEF Restarted
<1>2. RowsMove /\ RunsMove
  BY <1>1 DEF RowsMove, RunsMove, TablesFit
<1> QED
  BY <1>2, TablesMove

-----------------------------------------------------------------------------
(* Every action keeps what is on disk in its place                         *)

LEMMA DiskStutter == ASSUME DiskFits, UNCHANGED <<disk, sw, kept>> PROVE DiskFits'
BY DEF DiskFits, disk

LEMMA CommitsMove ==
  ASSUME DiskFits
  PROVE  /\ PushedTip \in SUBSET Commits /\ Unpushed \in SUBSET Commits
         /\ kept \ Unpushed \in SUBSET Commits
BY DEF DiskFits, PushedTip, Unpushed

LEMMA CheckOutKeepsDisk ==
  ASSUME DiskFits, NEW d, CheckOut(d), UNCHANGED <<remote, sw>>, kept' \in SUBSET kept
  PROVE  DiskFits'
BY DEF DiskFits, CheckOut

LEMMA CheckOutSpecKeepsDisk ==
  ASSUME DiskFits, NEW d, CheckOutSpec(d), UNCHANGED <<remote, sw, kept>>
  PROVE  DiskFits'
BY DEF DiskFits, CheckOutSpec

LEMMA RemovalKeepsDisk ==
  ASSUME DiskFits, NEW d, NEW branch, RemoveWorktree(d, branch), UNCHANGED remote,
         kept' \in SUBSET kept, sw' \in {sw, NoCandidate}
  PROVE  DiskFits'
BY DEF DiskFits, RemoveWorktree

LEMMA PushKeepsDisk ==
  ASSUME DiskFits, remote' \in {remote, PushedTip}, UNCHANGED <<work, local, kept>>,
         sw' = sw \/ sw' = NoCandidate \/ sw' \in [of : Rows, tip : SUBSET Commits]
  PROVE  DiskFits'
BY CommitsMove DEF DiskFits

LEMMA RunnerKeepsDisk == ASSUME DiskFits, Runner PROVE DiskFits'
<1>1. CASE Claim
  BY <1>1, DiskStutter DEF Claim, history
<1>2. ASSUME NEW e \in Rows,
             \/ ClaimRetry(e) \/ Reuse(e) \/ Record(e) \/ Load(e) \/ StartOver(e) \/ RecordRestored(e)
             \/ Resume(e) \/ Start(e) \/ StartFails(e) \/ TurnEnds(e) \/ Stop(e)
      PROVE  DiskFits'
  <2>1. UNCHANGED <<disk, sw, kept>>
    BY <1>2 DEF ClaimRetry, Reuse, Record, Load, StartOver, RecordRestored, Resume, Start, StartFails,
       TurnEnds, Stop, history
  <2> QED
    BY <2>1, DiskStutter
<1>3. ASSUME NEW e \in Rows, PushPrevious(e) PROVE DiskFits'
  <2>1. remote' \in {remote, PushedTip} /\ UNCHANGED <<work, local, kept, sw>>
    BY <1>3 DEF PushPrevious, history
  <2> QED
    BY <2>1, PushKeepsDisk
<1>4. ASSUME NEW e \in Rows, Prepare(e) \/ PrepareFails(e) PROVE DiskFits'
  <2>1. UNCHANGED <<remote, sw>> /\ kept' \in SUBSET kept
    BY <1>4 DEF Prepare, PrepareFails, GiveUp, history
  <2>2. CASE CheckOut(e)
    BY <2>1, <2>2, CheckOutKeepsDisk
  <2>3. CASE CheckOutSpec(e) /\ UNCHANGED kept
    BY <2>1, <2>3, CheckOutSpecKeepsDisk
  <2>4. CASE UNCHANGED <<local, work, history>>
    BY <2>1, <2>4, DiskStutter DEF disk, history
  <2> QED
    BY <1>4, <2>2, <2>3, <2>4 DEF Prepare, PrepareFails, history
<1>5. ASSUME NEW e \in Rows, Restore(e) PROVE DiskFits'
  <2>1. UNCHANGED <<remote, sw, kept>>
    BY <1>5 DEF Restore, history
  <2> QED
    BY <1>5, <2>1, CheckOutKeepsDisk, CheckOutSpecKeepsDisk DEF Restore
<1>6. ASSUME NEW e \in Rows, RestoreFails(e) PROVE DiskFits'
  <2>1. UNCHANGED <<remote, sw, kept>> /\ RemoveWorktree(exec[e].path, ~IsSpec(e))
    BY <1>6 DEF RestoreFails, history
  <2> QED
    BY <2>1, RemovalKeepsDisk
<1> QED
  BY <1>1, <1>2, <1>3, <1>4, <1>5, <1>6 DEF Runner

LEMMA SweeperKeepsDisk == ASSUME DiskFits, Sweeper PROVE DiskFits'
<1>1. CASE Evict
  <2>1. UNCHANGED <<remote, kept>> /\ sw' = NoCandidate
    BY <1>1 DEF Evict, history
  <2>2. CASE StillIdle
    <3>1. RemoveWorktree(exec[sw.of].path, exec[sw.of].branch)
      BY <1>1, <2>2 DEF Evict
    <3> QED
      BY <2>1, <3>1, RemovalKeepsDisk
  <2>3. CASE ~StillIdle
    BY <1>1, <2>1, <2>3 DEF Evict, DiskFits
  <2> QED
    BY <2>2, <2>3
<1>2. CASE Skip
  BY <1>2 DEF Skip, DiskFits, disk, history
<1>3. ASSUME NEW e \in Rows, NEW kind, Remove(e, kind) PROVE DiskFits'
  <2>1. RemoveWorktree(exec[e].path, exec[e].branch) /\ UNCHANGED <<remote, sw>> /\ kept' \in SUBSET kept
    BY <1>3 DEF Remove, memory
  <2> QED
    BY <2>1, RemovalKeepsDisk
<1>4. ASSUME NEW e \in Rows, PushIdle(e) PROVE DiskFits'
  <2>1. remote' \in {remote, PushedTip} /\ UNCHANGED <<work, local, kept>>
    BY <1>4 DEF PushIdle, MayEvict, history
  <2>2. sw' \in [of : Rows, tip : SUBSET Commits]
    BY <1>4 DEF PushIdle, DiskFits
  <2> QED
    BY <2>1, <2>2, PushKeepsDisk
<1> QED
  BY <1>1, <1>2, <1>3, <1>4 DEF Sweeper

LEMMA AgentKeepsDisk == ASSUME DiskFits, Agent \/ ColleaguePushes PROVE DiskFits'
<1>1. ASSUME NEW e \in Rows, AgentCommits(e) PROVE DiskFits'
  <2>1. NewCommit \in Commits
    BY <1>1, NewCommitIsUnused DEF AgentCommits, Unused
  <2> QED
    BY <1>1, <2>1 DEF AgentCommits, DiskFits, memory
<1>2. ASSUME NEW e \in Rows, AgentPushes(e) PROVE DiskFits'
  <2>1. remote' \in {remote, PushedTip} /\ UNCHANGED <<work, local, kept, sw>>
    BY <1>2 DEF AgentPushes, memory, history
  <2> QED
    BY <2>1, PushKeepsDisk
<1>3. ASSUME NEW e \in Rows, AgentCompletes(e) PROVE DiskFits'
  BY <1>3, DiskStutter DEF AgentCompletes, memory, history
<1>4. CASE ColleaguePushes
  <2>1. NewCommit \in Commits
    BY <1>4, NewCommitIsUnused DEF ColleaguePushes, Unused
  <2> QED
    BY <1>4, <2>1 DEF ColleaguePushes, DiskFits, memory
<1> QED
  BY <1>1, <1>2, <1>3, <1>4 DEF Agent

LEMMA CrashKeeps == ASSUME TablesFit, DiskFits, Crash \/ CrashInRemoval PROVE TablesFit' /\ DiskFits'
<1>1. Restarted /\ UNCHANGED <<task, exec, asked>>
  BY DEF Crash, CrashInRemoval, db
<1>2. CASE Crash
  BY <1>1, <1>2, RestartKeepsTables DEF Crash, DiskFits, Restarted, disk, history
<1>3. CASE CrashInRemoval
  <2>1. PICK e \in Rows : RemoveWorktree(exec[e].path, exec[e].branch)
    BY <1>3 DEF CrashInRemoval
  <2>2. UNCHANGED remote /\ kept' \in SUBSET kept /\ sw' = NoCandidate
    BY <1>3 DEF CrashInRemoval, Restarted
  <2> QED
    BY <1>1, <2>1, <2>2, RemovalKeepsDisk, RestartKeepsTables
<1> QED
  BY <1>1, <1>2, <1>3, RestartKeepsTables

-----------------------------------------------------------------------------
(* No two rows name one directory                                          *)

LEMMA TaskIsTyped == ASSUME task \in TaskStates, TreesNext PROVE task' \in TaskStates
<1> USE DEF TaskStates
<1>1. CASE Others
  BY <1>1 DEF Others, Promote, Approve, RequestReview, SendBack, Revise, PullRequestEnds, HumanRetry,
     Cancel, Reopen, UserAnswers, CiFails
<1>2. CASE Runner
  <2>1. task' \in {task, "IMPLEMENTING", "NEEDS_HUMAN"}
    BY <1>2 DEF Runner, Claim, ClaimRetry, Reuse, PushPrevious, Prepare, PrepareFails, Record, Load,
       StartOver, Restore, RestoreFails, RecordRestored, Resume, Start, StartFails, TurnEnds, Stop,
       Fail, Pause, db
  <2> QED
    BY <2>1
<1>3. CASE Agent
  BY <1>3 DEF Agent, AgentCommits, AgentPushes, AgentCompletes, db
<1>4. CASE Sweeper
  BY <1>4 DEF Sweeper, Evict, Skip, Remove, PushIdle, db
<1>5. CASE ColleaguePushes \/ Crash \/ CrashInRemoval \/ \E e \in Rows : LeaseExpires(e)
  BY <1>5 DEF ColleaguePushes, Crash, CrashInRemoval, LeaseExpires, Fail, db
<1> QED
  BY <1>1, <1>2, <1>3, <1>4, <1>5 DEF TreesNext

LEMMA PathsFitFirst == TreesInit => PathsFit
<1> SUFFICES ASSUME TreesInit PROVE task \in TaskStates /\ TablesFit /\ DiskFits
  BY PathsFitIs
<1>1. 0 \in 0 .. MaxRows /\ Rows \subseteq Nat
  BY WorkspaceAssumption DEF Rows
<1> DEFINE first == [NoExecution EXCEPT !.role = "spec", !.state = "ASSIGNED"]
           begun == [NoRun EXCEPT !.phase = "claimed"]
<1>2. /\ NoExecution \in RowRecord /\ NoExecution.state = "NONE" /\ NoExecution.path = 0
      /\ ~NoExecution.evicted /\ ~NoExecution.branch
  BY <1>1 DEF NoExecution, RowRecord, Roles
<1>3. /\ first \in RowRecord /\ first.state = "ASSIGNED" /\ first.path = 0 /\ ~first.evicted
      /\ first.role = "spec" /\ ~first.branch
  BY <1>1 DEF NoExecution, RowRecord, Roles, ExecutionStates
<1>4. begun \in RunRecord
  BY DEF NoRun, RunRecord, Preparing
<1>5. /\ task \in {"SPEC_IN_PROGRESS", "READY"} /\ asked = {}
      /\ exec \in [Rows -> RowRecord] /\ run \in [Rows -> RunRecord]
      /\ \A e \in Rows : \/ exec[e] = NoExecution /\ run[e] = NoRun
                         \/ e = 1 /\ exec[e] = first
      /\ 1 \in Rows /\ exec[1] # first => \A e \in Rows : exec[e] = NoExecution
  BY <1>2, <1>3, <1>4, NoRunIs DEF TreesInit
<1> HIDE DEF first, begun
<1>6. TablesFit
  BY <1>1, <1>2, <1>3, <1>5, NoRunIs DEF TablesFit, UnusedFit, FailedRests, TakenOver, OneOwner, RetryFits,
     BranchFits, UsedFits, IsSpec, Rows
<1>7. DiskFits
  BY DEF DiskFits, TreesInit
<1> QED
  BY <1>5, <1>6, <1>7 DEF TaskStates

LEMMA PathsFitNext == PathsFit /\ [TreesNext]_treesVars => PathsFit'
<1> SUFFICES ASSUME PathsFit, [TreesNext]_treesVars PROVE PathsFit'
  OBVIOUS
<1>1. task \in TaskStates /\ TablesFit /\ DiskFits
  BY PathsFitIs
<1>2. CASE UNCHANGED treesVars
  <2>1. TablesFit'
    BY <1>1, <1>2, TablesStutter DEF treesVars, db, memory
  <2>2. DiskFits' /\ task' \in TaskStates
    BY <1>1, <1>2, DiskStutter DEF treesVars, memory, history, db
  <2> QED
    BY <2>1, <2>2, PathsFitIsNext
<1>3. CASE TreesNext
  <2>1. task' \in TaskStates
    BY <1>1, <1>3, TaskIsTyped
  <2>2. CASE Others
    BY <1>1, <2>2, OthersKeepTables, DiskStutter, <2>1, PathsFitIsNext DEF Others, memory, history
  <2>3. CASE Runner
    <3>1. TablesFit'
      BY <1>1, <2>3, ClaimKeepsTables, RetryKeepsTables, ReuseKeepsTables, PrepareKeepsTables,
         StartKeepsTables, RecordKeepsTables, LoadKeepsTables, ResumeKeepsTables,
         RestoredKeepsTables, TurnKeepsTables DEF Runner
    <3> QED
      BY <1>1, <2>1, <2>3, <3>1, RunnerKeepsDisk, PathsFitIsNext
  <2>4. CASE Agent \/ ColleaguePushes
    <3>1. TablesFit'
      BY <1>1, <2>4, TablesStutter, CompletesKeepsTables DEF Agent, AgentCommits, AgentPushes,
         ColleaguePushes, db, memory
    <3> QED
      BY <1>1, <2>1, <2>4, <3>1, AgentKeepsDisk, PathsFitIsNext
  <2>5. CASE Sweeper
    <3>1. TablesFit'
      BY <1>1, <2>5, TablesStutter, EvictKeepsTables, RemoveKeepsTables DEF Sweeper, Skip, PushIdle, db
    <3> QED
      BY <1>1, <2>1, <2>5, <3>1, SweeperKeepsDisk, PathsFitIsNext
  <2>6. CASE Crash \/ CrashInRemoval
    BY <1>1, <2>1, <2>6, CrashKeeps, PathsFitIsNext
  <2>7. ASSUME NEW e \in Rows, LeaseExpires(e) PROVE PathsFit'
    <3>1. DiskFits'
      BY <1>1, <2>7, DiskStutter DEF LeaseExpires, memory, history
    <3> QED
      BY <1>1, <2>1, <2>7, <3>1, LeaseKeepsTables, PathsFitIsNext
  <2> QED
    BY <1>3, <2>2, <2>3, <2>4, <2>5, <2>6, <2>7 DEF TreesNext
<1> QED
  BY <1>2, <1>3

\* No two executions record one worktree, whatever is retried, evicted, restored
\* or removed and wherever the worker crashes: a retry that takes over the
\* directory of a failed attempt clears the old row in the same transaction, so
\* the sweeper never deletes what another execution works in.
THEOREM PathsAlwaysFit == TreesSpec => []PathsFit
BY PathsFitFirst, PathsFitNext, PTL DEF TreesSpec

-----------------------------------------------------------------------------
(* Only the latest execution may still get the branch                      *)

TurnsFit == EngagedFits /\ AskedRest /\ StartingFits

\* Who works was asked nothing, and who is being started does not wait.
Awake(f) ==
  exec'[f].role # "spec" =>
    /\ exec'[f].state \in UsingStates => f \notin asked'
    /\ run'[f].phase \in Preparing \cup {"ensure"}
         => exec'[f].state \notin {"WAITING_FOR_USER", "COMPLETED"}

\* No execution begins, and who is engaged was, or is the latest.
Calm(e) ==
  /\ exec'[e].role = exec[e].role /\ (exec'[e].state = "NONE" <=> exec[e].state = "NONE")
  /\ Engaged(e)' => /\ Engaged(e) \/ Latest(e)
                    /\ \/ exec'[e].state \in LiveStates
                       \/ task' \in {"IMPLEMENTING", "CANCELLED"}
                       \/ Engaged(e) /\ exec[e].state \notin LiveStates /\ task' = task
  /\ Awake(e)

LEMMA CalmFits == ASSUME TurnsFit, \A e \in Rows : Calm(e) PROVE TurnsFit'
<1>1. EngagedFits'
  <2> SUFFICES ASSUME NEW e \in Rows, Engaged(e)'
               PROVE  /\ Latest(e)'
                      /\ exec'[e].state \notin LiveStates => task' \in {"IMPLEMENTING", "CANCELLED"}
    BY DEF EngagedFits
  <2>1. Latest(e)
    BY DEF Calm, TurnsFit, EngagedFits
  <2>2. Latest(e)'
    BY <2>1 DEF Latest, Calm
  <2> QED
    BY <2>2 DEF Calm, TurnsFit, EngagedFits
<1>2. AskedRest' /\ StartingFits'
  BY DEF Calm, Awake, AskedRest, StartingFits, IsSpec
<1> QED
  BY <1>1, <1>2 DEF TurnsFit

\* An execution of which nothing changed, with the same task, is calm.
LEMMA CalmStutter ==
  ASSUME TurnsFit, NEW e \in Rows, exec'[e] = exec[e], run'[e] = run[e], e \in asked' => e \in asked,
         task' = task
  PROVE  Calm(e)
BY DEF TurnsFit, EngagedFits, AskedRest, StartingFits, Calm, Awake, Engaged, IsSpec

\* Two engaged executions are one.
LEMMA EngagedIsOne ==
  ASSUME TablesFit, TurnsFit, NEW e \in Rows, NEW f \in Rows, Engaged(e), Engaged(f)
  PROVE  e = f
<1>1. Latest(e) /\ Latest(f) /\ e \in Nat /\ f \in Nat
  BY WorkspaceAssumption DEF TurnsFit, EngagedFits, Rows
<1> QED
  BY <1>1 DEF Latest

\* The first unused row becomes a live implementation, when nobody else stays engaged.
LEMMA BirthFits ==
  ASSUME TablesFit, TurnsFit, NEW n \in Rows, exec[n].state = "NONE",
         \A f \in Rows : f < n => exec[f].state # "NONE",
         exec'[n].state \in {"ASSIGNED", "QUEUED"}, n \notin asked',
         \A f \in Rows : f # n => (exec'[f].state = "NONE" <=> exec[f].state = "NONE"),
         \A f \in Rows : f # n => ~Engaged(f)' /\ Awake(f)
  PROVE  TurnsFit'
<1>1. Latest(n)'
  <2>1. \A f \in Rows : n < f => exec[f].state = "NONE"
    BY DEF TablesFit, UnusedFit
  <2>2. \A f \in Rows : n < f => f # n
    BY WorkspaceAssumption DEF Rows
  <2> QED
    BY <2>1, <2>2 DEF Latest
<1>2. EngagedFits'
  BY <1>1 DEF EngagedFits, LiveStates
<1>3. Awake(n)
  BY DEF Awake, TablesFit
<1>4. AskedRest' /\ StartingFits'
  BY <1>3 DEF Awake, AskedRest, StartingFits, IsSpec
<1> QED
  BY <1>2, <1>4 DEF TurnsFit

\* e fails, with its run, and no other run or command changes.
LEMMA FailureFits ==
  ASSUME TablesFit, TurnsFit, NEW e \in Rows, exec[e].state \in {"ASSIGNED", "RUNNING"}, Failed(e),
         run'[e].phase = "none", \A f \in Rows : f # e => run'[f] = run[f], asked' \in SUBSET asked
  PROVE  TurnsFit'
<1>1. exec'[e].state = "FAILED" /\ exec'[e].role = exec[e].role
  BY FieldsOfRow DEF Failed, TablesFit, ExecutionStates
<1>2. ~IsSpec(e) => Engaged(e)
  BY DEF Engaged, LiveStates
<1>3. Calm(e) /\ ~Engaged(e)'
  BY <1>1 DEF Calm, Awake, Engaged, LiveStates, UsingStates, Preparing, Loading, IsSpec
<1>4. CASE (\A f \in Rows : f # e => exec'[f] = exec[f]) /\ (task' = task \/ ~IsSpec(e))
  <2>1. ASSUME NEW f \in Rows, f # e PROVE Calm(f)
    <3>1. CASE task' = task
      BY <1>4, <2>1, <3>1, CalmStutter
    <3>2. CASE ~IsSpec(e)
      <4>1. ~Engaged(f) /\ ~Engaged(f)'
        BY <1>2, <1>4, <2>1, <3>2, EngagedIsOne DEF Engaged, IsSpec
      <4> QED
        BY <1>4, <2>1, <4>1 DEF Calm, Awake, TurnsFit, AskedRest, StartingFits, IsSpec
    <3> QED
      BY <1>4, <3>1, <3>2
  <2> QED
    BY <1>3, <2>1, CalmFits
<1>5. CASE /\ ~IsSpec(e) /\ Fresh # {} /\ e # NextRow
           /\ exec'[NextRow] = [NoExecution EXCEPT !.state = "QUEUED", !.prev = e,
                                                   !.branch = exec[e].branch]
           /\ \A f \in Rows : f \notin {e, NextRow} => exec'[f] = exec[f]
  <2>1. /\ NextRow \in Rows /\ exec[NextRow].state = "NONE"
        /\ \A f \in Rows : f < NextRow => exec[f].state # "NONE"
    BY <1>5, NextRowIsFirst
  <2>2. exec'[NextRow].state = "QUEUED"
    BY <1>5 DEF NoExecution
  <2>3. NextRow \notin asked'
    BY <2>1 DEF TablesFit, UnusedFit
  <2>4. ASSUME NEW f \in Rows, f \notin {e, NextRow}
        PROVE  ~Engaged(f)' /\ exec'[f] = exec[f] /\ run'[f] = run[f]
    <3>1. ~Engaged(f)
      BY <1>2, <1>5, <2>4, EngagedIsOne
    <3> QED
      BY <1>5, <2>4, <3>1 DEF Engaged, IsSpec
  <2>5. ASSUME NEW f \in Rows, f # NextRow
        PROVE  /\ exec'[f].state = "NONE" <=> exec[f].state = "NONE"
               /\ ~Engaged(f)' /\ Awake(f)
    <3>1. CASE f = e
      BY <1>1, <1>3, <3>1 DEF Awake, UsingStates, Preparing
    <3>2. CASE f # e
      BY <2>4, <2>5, <3>2 DEF Awake, TurnsFit, AskedRest, StartingFits, IsSpec
    <3> QED
      BY <3>1, <3>2
  <2> HIDE DEF NextRow
  <2> QED
    BY <2>1, <2>2, <2>3, <2>5, BirthFits
<1> QED
  BY <1>4, <1>5 DEF Failed

\* Nothing but the row of e changes, and of it nothing but its state s.
StateOnly(e, s) ==
  /\ \A f \in Rows : f # e => exec'[f] = exec[f]
  /\ exec'[e].state = s /\ exec'[e].role = exec[e].role /\ exec'[e].path = exec[e].path
  /\ exec'[e].branch = exec[e].branch /\ exec'[e].evicted = exec[e].evicted
  /\ exec'[e].prev = exec[e].prev

LEMMA StateOnlyIs ==
  ASSUME TablesFit, NEW e \in Rows, NEW s \in ExecutionStates, exec' = [exec EXCEPT ![e].state = s]
  PROVE  StateOnly(e, s)
BY StateIsSet, FieldsOfRow DEF StateOnly, RowSet, TablesFit

LEMMA NoStateIs ==
  ASSUME NEW e \in Rows, UNCHANGED exec
  PROVE  StateOnly(e, exec[e].state)
BY DEF StateOnly

LEMMA OneCalm ==
  ASSUME TurnsFit, NEW e \in Rows, \A f \in Rows : f # e => exec'[f] = exec[f] /\ run'[f] = run[f],
         asked' \in SUBSET asked, task' = task, Calm(e)
  PROVE  TurnsFit'
BY CalmStutter, CalmFits

LEMMA RefuseFits ==
  ASSUME TablesFit, TurnsFit, NEW e \in Rows, UNCHANGED <<task, exec>>, Leave(e), asked' \in SUBSET asked
  PROVE  TurnsFit'
<1>1. PhaseSet(e, "none")
  BY LeaveIs, SetLeaves
<1>2. Calm(e)
  BY <1>1 DEF Calm, Awake, PhaseSet, Engaged, IsSpec, Preparing, Loading, TurnsFit, AskedRest
<1> QED
  BY <1>1, <1>2, OneCalm DEF PhaseSet

LEMMA FailFits ==
  ASSUME TablesFit, TurnsFit, NEW e \in Rows, Fail(e), Leave(e), asked' \in SUBSET asked
  PROVE  TurnsFit'
<1>1. PhaseSet(e, "none")
  BY LeaveIs, SetLeaves
<1> QED
  BY <1>1, FailureIs, FailureFits, RefuseFits DEF PhaseSet

LEMMA LeaseFits ==
  ASSUME TablesFit, TurnsFit, NEW e \in Rows, LeaseExpires(e)
  PROVE  TurnsFit'
<1>1. UNCHANGED <<run, asked>> /\ exec[e].state \in {"ASSIGNED", "RUNNING"} /\ run[e].phase = "none"
  BY DEF LeaseExpires, memory, Alive
<1>2. Failed(e)
  BY <1>1, FailureIs DEF LeaseExpires
<1> QED
  BY <1>1, <1>2, FailureFits DEF TablesFit

\* An engaged run goes on to p.
LEMMA PhaseFits ==
  ASSUME TablesFit, TurnsFit, NEW e \in Rows, NEW p, PhaseSet(e, p), UNCHANGED <<task, asked>>,
         StateOnly(e, exec[e].state), ~IsSpec(e) /\ p \in Preparing \cup Loading => Engaged(e),
         ~IsSpec(e) /\ p \in Preparing \cup {"ensure"} => run[e].phase \in Preparing \cup {"ensure"}
  PROVE  TurnsFit'
<1>1. Calm(e)
  BY DEF Calm, Awake, PhaseSet, StateOnly, Engaged, IsSpec, TurnsFit, AskedRest, StartingFits
<1> QED
  BY <1>1, OneCalm DEF PhaseSet, StateOnly, TablesFit

\* A run begins to run, for an execution that was engaged.
LEMMA RunningFits ==
  ASSUME TablesFit, TurnsFit, NEW e \in Rows, NEW p, PhaseSet(e, p), task' = task,
         asked' \in SUBSET asked, StateOnly(e, "RUNNING"), ~IsSpec(e) => Engaged(e),
         ~IsSpec(e) => e \notin asked', exec[e].state # "NONE"
  PROVE  TurnsFit'
<1>1. Calm(e)
  BY DEF Calm, Awake, PhaseSet, StateOnly, Engaged, IsSpec, LiveStates
<1> QED
  BY <1>1, OneCalm DEF PhaseSet, StateOnly, TablesFit

LEMMA ReuseFits == ASSUME TablesFit, TurnsFit, NEW e \in Rows, Reuse(e) PROVE TurnsFit'
<1>1. PhaseSet(e, "ensure") /\ run[e].phase = "claimed" /\ UNCHANGED <<task, asked>>
  BY PhaseIs DEF Reuse
<1>2. ~IsSpec(e) => Engaged(e)
  BY <1>1 DEF Engaged, Preparing
<1>3. CASE exec[e].state = "ASSIGNED" /\ exec' = [exec EXCEPT ![e].state = "RUNNING"]
  <2>1. StateOnly(e, "RUNNING")
    BY <1>3, StateOnlyIs DEF ExecutionStates
  <2>2. ~IsSpec(e) => e \notin asked'
    BY <1>1, <1>3 DEF TurnsFit, AskedRest, UsingStates
  <2> QED
    BY <1>1, <1>2, <1>3, <2>1, <2>2, RunningFits DEF TablesFit
<1>4. CASE UNCHANGED exec
  BY <1>1, <1>2, <1>4, NoStateIs, PhaseFits DEF Preparing, Loading
<1> QED
  BY <1>3, <1>4 DEF Reuse

LEMMA PrepareFits ==
  ASSUME TablesFit, TurnsFit, NEW e \in Rows,
         PushPrevious(e) \/ Prepare(e) \/ StartOver(e) \/ Restore(e) \/ Stop(e)
  PROVE  TurnsFit'
<1>1. UNCHANGED <<task, exec, asked>>
  BY DEF PushPrevious, Prepare, StartOver, Restore, Stop, db
<1>2. CASE Stop(e)
  BY <1>1, <1>2, RefuseFits DEF Stop, TablesFit
<1>3. CASE PushPrevious(e) \/ Prepare(e)
  <2>1. PICK p \in {"pushed", "untried", "prepared"} : PhaseSet(e, p)
    BY <1>3, PhaseIs DEF PushPrevious, Prepare, Preparing
  <2>2. run[e].phase \in Preparing
    BY <1>3 DEF PushPrevious, Prepare, Ready, Preparing
  <2>3. ~IsSpec(e) => Engaged(e)
    BY <2>2 DEF Engaged
  <2> QED
    BY <1>1, <2>1, <2>2, <2>3, NoStateIs, PhaseFits
<1>4. CASE StartOver(e) \/ Restore(e)
  <2>1. PICK p \in {"restore", "restored"} : PhaseSet(e, p)
    BY <1>4, PhaseIs DEF StartOver, Restore, Loading
  <2>2. ~IsSpec(e) => Engaged(e)
    BY <1>4 DEF StartOver, Restore, Engaged, Loading
  <2>3. p \notin Preparing \cup {"ensure"}
    BY <2>1 DEF Preparing
  <2> QED
    BY <1>1, <2>1, <2>2, <2>3, NoStateIs, PhaseFits
<1> QED
  BY <1>2, <1>3, <1>4

LEMMA LoadFits == ASSUME TablesFit, TurnsFit, NEW e \in Rows, Load(e) PROVE TurnsFit'
<1>1. UNCHANGED <<task, exec>> /\ e \in asked
  BY DEF Load
<1>2. CASE Resumable(e) /\ exec[e].path # 0
  <2> DEFINE p == IF exec[e].evicted THEN "restore" ELSE "loaded"
             r == [phase |-> p, from |-> exec[e].state]
  <2>1. run' = [run EXCEPT ![e] = r] /\ UNCHANGED asked
    BY <1>2 DEF Load
  <2>2. r \in RunRecord /\ r.phase = p /\ p \in Loading /\ p \notin Preparing \cup {"ensure"}
    BY DEF RunRecord, Loading, Preparing, TablesFit, RowRecord
  <2> HIDE DEF r, p
  <2>3. PhaseSet(e, p)
    BY <2>1, <2>2 DEF PhaseSet, TablesFit
  <2>4. ~IsSpec(e) => Engaged(e)
    BY <1>1, <1>2 DEF Resumable, Engaged, LiveStates
  <2> QED
    BY <1>1, <2>1, <2>2, <2>3, <2>4, NoStateIs, PhaseFits
<1>3. CASE Refuse(e)
  BY <1>1, <1>3, RefuseFits DEF Refuse, TablesFit
<1> QED
  BY <1>2, <1>3 DEF Load

LEMMA ResumeFits ==
  ASSUME TablesFit, TurnsFit, NEW e \in Rows, Resume(e) \/ RestoreFails(e)
  PROVE  TurnsFit'
<1>1. task' = task
  BY DEF Resume, RestoreFails
<1>2. CASE Resume(e) /\ MayResume(e)
  <2> DEFINE r == [NoRun EXCEPT !.phase = "ensure"]
  <2>1. run' = [run EXCEPT ![e] = r] /\ asked' = asked \ {e} /\ run[e].phase = "loaded"
        /\ exec' = [exec EXCEPT ![e].state = "RUNNING"]
    BY <1>2 DEF Resume
  <2>2. r \in RunRecord /\ r.phase = "ensure"
    BY DEF NoRun, RunRecord
  <2> HIDE DEF r
  <2>3. PhaseSet(e, "ensure")
    BY <2>1, <2>2 DEF PhaseSet, TablesFit
  <2>4. StateOnly(e, "RUNNING")
    BY <2>1, StateOnlyIs DEF ExecutionStates
  <2>5. ~IsSpec(e) => Engaged(e)
    BY <2>1 DEF Engaged, Loading
  <2> QED
    BY <1>1, <2>1, <2>3, <2>4, <2>5, RunIsOf, RunningFits DEF TablesFit
<1>3. CASE UNCHANGED exec /\ Refuse(e)
  BY <1>1, <1>3, RefuseFits DEF Refuse, TablesFit
<1> QED
  BY <1>2, <1>3 DEF Resume, RestoreFails

LEMMA StartFits ==
  ASSUME TablesFit, TurnsFit, NEW e \in Rows, Start(e) \/ StartFails(e) \/ PrepareFails(e)
  PROVE  TurnsFit'
<1>1. UNCHANGED asked
  BY DEF Start, StartFails, PrepareFails
<1>2. CASE Fail(e) /\ Leave(e)
  BY <1>1, <1>2, FailFits DEF TablesFit
<1>3. CASE UNCHANGED <<task, exec>> /\ Leave(e)
  BY <1>1, <1>3, RefuseFits DEF TablesFit
<1>4. CASE /\ exec[e].state \in {"ASSIGNED", "RUNNING"} /\ exec' = [exec EXCEPT ![e].state = "RUNNING"]
           /\ Phase(e, "session") /\ task' = task
  <2>1. PhaseSet(e, "session") /\ StateOnly(e, "RUNNING")
    BY <1>4, PhaseIs, StateOnlyIs DEF ExecutionStates
  <2>2. ~IsSpec(e) => Engaged(e) /\ e \notin asked'
    BY <1>1, <1>4 DEF Engaged, LiveStates, UsingStates, TurnsFit, AskedRest
  <2> QED
    BY <1>1, <1>4, <2>1, <2>2, RunningFits DEF TablesFit
<1> QED
  BY <1>2, <1>3, <1>4 DEF Start, StartFails, PrepareFails

LEMMA TurnFits == ASSUME TablesFit, TurnsFit, NEW e \in Rows, TurnEnds(e) PROVE TurnsFit'
<1>1. Leave(e) /\ PhaseSet(e, "none") /\ UNCHANGED asked
  BY LeaveIs, SetLeaves DEF TurnEnds
<1>2. CASE Pause(e)
  <2>1. StateOnly(e, "WAITING_FOR_USER") /\ exec[e].state = "RUNNING" /\ task' = task
    BY <1>2, StateOnlyIs DEF Pause, ExecutionStates
  <2>2. Calm(e)
    BY <1>1, <2>1 DEF Calm, Awake, PhaseSet, StateOnly, Engaged, IsSpec, LiveStates, UsingStates, Preparing
  <2> QED
    BY <1>1, <2>1, <2>2, OneCalm DEF PhaseSet, StateOnly, TablesFit
<1>3. CASE Fail(e)
  BY <1>1, <1>3, FailFits DEF TablesFit
<1>4. CASE UNCHANGED <<task, exec>>
  BY <1>1, <1>4, RefuseFits DEF TablesFit
<1> QED
  BY <1>2, <1>3, <1>4 DEF TurnEnds

LEMMA CompletesFits ==
  ASSUME TablesFit, TurnsFit, NEW e \in Rows, AgentCompletes(e)
  PROVE  TurnsFit'
<1>1. /\ StateOnly(e, "COMPLETED") /\ exec[e].state = "RUNNING" /\ UNCHANGED <<run, asked>>
      /\ ~IsSpec(e) /\ run[e].phase = "session"
  BY StateOnlyIs DEF AgentCompletes, InSession, ExecutionStates, memory
<1>2. e \notin asked /\ Engaged(e)
  BY <1>1 DEF TurnsFit, AskedRest, UsingStates, Engaged, LiveStates
<1>3. Calm(e)
  BY <1>1, <1>2 DEF Calm, Awake, StateOnly, Engaged, IsSpec, LiveStates, UsingStates, Preparing, Loading
<1>4. ASSUME NEW f \in Rows, f # e PROVE Calm(f)
  <2>1. ~Engaged(f)
    BY <1>2, <1>4, EngagedIsOne
  <2> QED
    BY <1>1, <1>4, <2>1 DEF StateOnly, Calm, Awake, Engaged, IsSpec, TurnsFit, AskedRest, StartingFits
<1> QED
  BY <1>3, <1>4, CalmFits

\* A run stays, ends, or advances in its preparation or its restoration.
Advances(e) ==
  \/ run'[e].phase \in {run[e].phase, "none"}
  \/ run[e].phase = "prepared" /\ run'[e].phase = "ensure"
  \/ run[e].phase \in Loading /\ run'[e].phase \in Loading

\* The path, the branch or the eviction of rows changes, and no state.
LEMMA PathsTurn ==
  ASSUME TurnsFit, UNCHANGED task, asked' \in SUBSET asked,
         \A e \in Rows : exec'[e].role = exec[e].role /\ exec'[e].state = exec[e].state,
         \A e \in Rows : Advances(e)
  PROVE  TurnsFit'
<1>1. ASSUME NEW e \in Rows PROVE Calm(e)
  BY DEF Advances, Calm, Awake, Engaged, IsSpec, Preparing, Loading, TurnsFit, EngagedFits, AskedRest,
         StartingFits
<1> QED
  BY <1>1, CalmFits

LEMMA RecordFits ==
  ASSUME TablesFit, TurnsFit, NEW e \in Rows, Record(e) \/ RecordRestored(e)
  PROVE  TurnsFit'
<1>1. UNCHANGED <<task, asked>>
  BY DEF Record, RecordRestored
<1>2. \/ PhaseSet(e, "ensure") /\ run[e].phase = "prepared"
      \/ PhaseSet(e, "loaded") /\ run[e].phase = "restored"
  BY PhaseIs DEF Record, RecordRestored, Loading
<1>3. \A f \in Rows : exec'[f].role = exec[f].role /\ exec'[f].state = exec[f].state
  BY DEF Record, Recorded, RecordRestored, TablesFit, RowRecord
<1>4. asked' \in SUBSET asked /\ \A f \in Rows : Advances(f)
  BY <1>1, <1>2 DEF PhaseSet, Advances, Loading
<1> QED
  BY <1>1, <1>3, <1>4, PathsTurn

LEMMA SweeperFits == ASSUME TablesFit, TurnsFit, Sweeper PROVE TurnsFit'
<1>1. UNCHANGED <<task, asked, run>>
  BY DEF Sweeper, Evict, Skip, Remove, PushIdle, db, memory
<1>2. \A f \in Rows : exec'[f].role = exec[f].role /\ exec'[f].state = exec[f].state
  <2>1. CASE Evict
    BY <2>1 DEF Evict, MarkEvicted, TablesFit, RowRecord
  <2>2. CASE Skip \/ \E e \in Rows : PushIdle(e)
    BY <2>2 DEF Skip, PushIdle, db
  <2>3. ASSUME NEW e \in Rows, NEW kind \in Kinds, Remove(e, kind)
        PROVE  \A f \in Rows : exec'[f].role = exec[f].role /\ exec'[f].state = exec[f].state
    BY <2>3 DEF Remove, TablesFit, RowRecord
  <2> QED
    BY <2>1, <2>2, <2>3 DEF Sweeper
<1>3. asked' \in SUBSET asked /\ \A f \in Rows : Advances(f)
  BY <1>1 DEF Advances
<1> QED
  BY <1>1, <1>2, <1>3, PathsTurn

LEMMA CrashFits == ASSUME TablesFit, TurnsFit, Crash \/ CrashInRemoval PROVE TurnsFit'
<1>1. UNCHANGED <<task, asked, exec>> /\ \A f \in Rows : run'[f].phase = "none"
  BY NoRunIs DEF Crash, CrashInRemoval, Restarted, db
<1>2. asked' \in SUBSET asked /\ \A f \in Rows : Advances(f)
  BY <1>1 DEF Advances
<1> QED
  BY <1>1, <1>2, PathsTurn

LEMMA ClaimFits == ASSUME TablesFit, TurnsFit, Claim PROVE TurnsFit'
<1> DEFINE n == NextRow
           b == [NoExecution EXCEPT !.state = "ASSIGNED"]
           r == [run[NextRow] EXCEPT !.phase = "claimed"]
<1>1. n \in Rows /\ exec[n].state = "NONE" /\ \A f \in Rows : f < n => exec[f].state # "NONE"
  BY NextRowIsFirst DEF Claim
<1>2. exec' = [exec EXCEPT ![n] = b] /\ run' = [run EXCEPT ![n] = r] /\ UNCHANGED asked
  BY DEF Claim
<1>3. b.state = "ASSIGNED"
  BY DEF NoExecution
<1>4. n \notin asked
  BY <1>1 DEF TablesFit, UnusedFit
<1> HIDE DEF n, b, r
<1>5. exec'[n].state = "ASSIGNED" /\ \A f \in Rows : f # n => exec'[f] = exec[f] /\ run'[f] = run[f]
  BY <1>1, <1>2, <1>3 DEF TablesFit
<1>6. ASSUME NEW f \in Rows, f # n PROVE ~Engaged(f)' /\ Awake(f)
  <2>1. exec[f].state \notin LiveStates /\ task = "READY"
    BY DEF Claim, InState
  <2>2. ~Engaged(f)
    BY <2>1 DEF TurnsFit, EngagedFits
  <2> QED
    BY <1>2, <1>5, <1>6, <2>2 DEF Engaged, IsSpec, Awake, TurnsFit, AskedRest, StartingFits
<1> QED
  BY <1>1, <1>2, <1>4, <1>5, <1>6, BirthFits

LEMMA RetryTurns == ASSUME TablesFit, TurnsFit, NEW e \in Rows, ClaimRetry(e) PROVE TurnsFit'
<1>1. exec[e].state = "QUEUED" /\ UNCHANGED <<task, asked>> /\ PhaseSet(e, "claimed")
  BY PhaseIs DEF ClaimRetry, Preparing
<1> PICK p \in Rows : p = exec[e].prev
  BY <1>1, PrevIs
<1>2. p # e /\ exec[p].state = "FAILED" /\ ~IsSpec(p) /\ ~IsSpec(e) /\ exec[p] \in RowRecord
      /\ exec[e] \in RowRecord
  BY <1>1, PrevIs DEF TablesFit
<1>3. /\ exec'[e].state = "ASSIGNED" /\ exec'[e].role = exec[e].role
      /\ exec'[p].state = exec[p].state /\ exec'[p].role = exec[p].role
      /\ \A f \in Rows : f \notin {e, p} => exec'[f] = exec[f]
  <2>1. CASE exec' = Transfer(e, p, [exec EXCEPT ![e].state = "ASSIGNED"])
    <3>1. Inherits(e, p)
      BY <1>1, <2>1, TransferInherits
    <3> QED
      BY <1>2, <3>1 DEF Inherits, RowRecord
  <2>2. CASE exec' = [exec EXCEPT ![e].state = "ASSIGNED"]
    <3>1. StateOnly(e, "ASSIGNED")
      BY <2>2, StateOnlyIs DEF ExecutionStates
    <3> QED
      BY <1>2, <3>1 DEF StateOnly
  <2> QED
    BY <2>1, <2>2 DEF ClaimRetry
<1>4. Calm(e)
  <2>1. Engaged(e) /\ e \notin asked
    BY <1>1, <1>2 DEF Engaged, LiveStates, UsingStates, TurnsFit, AskedRest
  <2> QED
    BY <1>1, <1>3, <2>1 DEF Calm, Awake, LiveStates, PhaseSet
<1>5. Calm(p)
  <2>1. run'[p].phase = "none"
    BY <1>1, <1>2 DEF PhaseSet, TablesFit, FailedRests
  <2>2. exec'[p].state = "FAILED" /\ exec'[p].role = exec[p].role
    BY <1>2, <1>3
  <2> QED
    BY <1>2, <2>1, <2>2 DEF Calm, Awake, Engaged, IsSpec, LiveStates, UsingStates, Preparing, Loading
<1>6. \A f \in Rows : f \notin {e, p} => Calm(f)
  BY <1>1, <1>3, CalmStutter DEF PhaseSet
<1> QED
  BY <1>4, <1>5, <1>6, CalmFits

LEMMA OthersFits == ASSUME Patient, TablesFit, TurnsFit, Others PROVE TurnsFit'
<1> USE DEF TurnsFit, EngagedFits, AskedRest, StartingFits
<1>1. UNCHANGED run
  BY DEF Others, memory
<1>2. CASE Promote \/ Approve \/ Revise \/ PullRequestEnds \/ HumanRetry
  <2>1. UNCHANGED <<exec, asked>> /\ task \notin {"IMPLEMENTING", "CANCELLED"}
    BY <1>2 DEF Promote, Approve, Revise, PullRequestEnds, HumanRetry
  <2>2. ASSUME NEW e \in Rows PROVE Calm(e)
    BY <1>1, <2>1 DEF Calm, Awake, Engaged, IsSpec
  <2> QED
    BY <2>2, CalmFits
<1>3. CASE Reopen
  <2>1. UNCHANGED <<exec, asked>> /\ asked = {} /\ \A e \in Rows : run[e].phase = "none"
    BY <1>3 DEF Reopen, Alive
  <2>2. ASSUME NEW e \in Rows PROVE Calm(e)
    BY <1>1, <2>1 DEF Calm, Awake, Engaged, IsSpec, Preparing, Loading
  <2> QED
    BY <2>2, CalmFits
<1>4. CASE RequestReview
  <2>1. UNCHANGED asked /\ task \notin {"IMPLEMENTING", "CANCELLED"}
    BY <1>4 DEF RequestReview
  <2>2. ASSUME NEW e \in Rows PROVE Calm(e)
    <3>1. \/ exec'[e] = exec[e]
          \/ exec[e].role = "spec" /\ exec'[e] = WithState(exec[e], "COMPLETED") /\ exec[e].state = "RUNNING"
      BY <1>4 DEF RequestReview, IsSpec, WithState
    <3>2. CASE exec'[e] = exec[e]
      BY <1>1, <2>1, <3>2 DEF Calm, Awake, Engaged, IsSpec
    <3>3. CASE exec[e].role = "spec" /\ exec'[e] = WithState(exec[e], "COMPLETED") /\ exec[e].state = "RUNNING"
      <4>1. exec'[e].role = "spec" /\ exec'[e].state = "COMPLETED"
        BY <3>3, FieldsOfRow DEF TablesFit, ExecutionStates
      <4> QED
        BY <3>3, <4>1 DEF Calm, Awake, Engaged, IsSpec
    <3> QED
      BY <3>1, <3>2, <3>3
  <2> QED
    BY <2>2, CalmFits
<1>5. CASE Cancel
  <2>1. UNCHANGED asked /\ task' = "CANCELLED"
    BY <1>5 DEF Cancel
  <2>2. ASSUME NEW e \in Rows PROVE Calm(e)
    <3>1. \/ exec'[e] = exec[e]
          \/ exec'[e] = WithState(exec[e], "CANCELLED") /\ exec[e].state \in LiveStates
      BY <1>5 DEF Cancel, WithState
    <3>2. CASE exec'[e] = exec[e]
      BY <1>1, <2>1, <3>2 DEF Calm, Awake, Engaged, IsSpec
    <3>3. CASE exec'[e] = WithState(exec[e], "CANCELLED") /\ exec[e].state \in LiveStates
      <4>1. exec'[e].role = exec[e].role /\ exec'[e].state = "CANCELLED"
        BY <3>3, FieldsOfRow DEF TablesFit, ExecutionStates
      <4> QED
        BY <1>1, <2>1, <3>3, <4>1 DEF Calm, Awake, Engaged, IsSpec, LiveStates, UsingStates
    <3> QED
      BY <3>1, <3>2, <3>3
  <2> QED
    BY <2>2, CalmFits
<1>6. ASSUME NEW e \in Rows, SendBack \/ UserAnswers(e) \/ CiFails(e) PROVE TurnsFit'
  <2>1. UNCHANGED exec
    BY <1>6 DEF SendBack, UserAnswers, CiFails
  <2>2. ASSUME NEW f \in Rows PROVE Calm(f)
    <3>1. CASE SendBack
      <4>1. task \notin {"IMPLEMENTING", "CANCELLED"}
        BY <3>1 DEF SendBack
      <4>2. f \in asked' => f \in asked \/ IsSpec(f)
        BY <3>1 DEF SendBack, Ask
      <4> QED
        BY <1>1, <2>1, <4>1, <4>2 DEF Calm, Awake, Engaged, IsSpec
    <3>2. CASE UserAnswers(e)
      <4>1. task' = task /\ (f \in asked' => f \in asked \/ IsSpec(f) \/ exec[f].state = "WAITING_FOR_USER")
        BY <3>2 DEF UserAnswers, Ask
      <4> QED
        BY <1>1, <2>1, <4>1 DEF Calm, Awake, Engaged, IsSpec, UsingStates
    <3>3. CASE CiFails(e)
      <4>1. /\ task' = "IMPLEMENTING" /\ Latest(e) /\ exec[e].state = "COMPLETED"
            /\ f \in asked' => f \in asked \/ f = e
        BY <3>3, WorkspaceAssumption DEF CiFails, Ask, Latest, Rows
      <4> QED
        BY <1>1, <2>1, <4>1 DEF Calm, Awake, Engaged, IsSpec, UsingStates
    <3> QED
      BY <1>6, <3>1, <3>2, <3>3
  <2> QED
    BY <2>2, CalmFits
<1> QED
  BY <1>2, <1>3, <1>4, <1>5, <1>6 DEF Others, SendBack

LEMMA TurnsFitFirst == TreesInit => TurnsFit
<1> SUFFICES ASSUME TreesInit PROVE TurnsFit
  OBVIOUS
<1>1. \A e \in Rows : ~Engaged(e) /\ (IsSpec(e) \/ (exec[e].state = "NONE" /\ run[e].phase = "none"))
  <2> DEFINE first == [NoExecution EXCEPT !.role = "spec", !.state = "ASSIGNED"]
  <2>1. first.role = "spec" /\ NoExecution.state = "NONE" /\ NoRun.phase = "none"
    BY DEF NoExecution, NoRun
  <2>2. \A e \in Rows : (exec[e] = NoExecution /\ run[e] = NoRun) \/ exec[e] = first
    BY DEF TreesInit
  <2> HIDE DEF first
  <2>3. asked = {}
    BY DEF TreesInit
  <2>4. ASSUME NEW e \in Rows
        PROVE  IsSpec(e) \/ (exec[e].state = "NONE" /\ run[e].phase = "none")
    BY <2>1, <2>2 DEF IsSpec
  <2> QED
    BY <2>3, <2>4 DEF Engaged, LiveStates, Preparing, Loading
<1> QED
  BY <1>1 DEF TurnsFit, EngagedFits, AskedRest, StartingFits, UsingStates, Preparing

LEMMA TurnsFitNext ==
  ASSUME Patient, PathsFit, TurnsFit, [TreesNext]_treesVars
  PROVE  TurnsFit'
<1>1. TablesFit
  BY PathsFitIs
<1>2. CASE UNCHANGED treesVars
  <2>1. UNCHANGED <<task, exec, asked, run>>
    BY <1>2 DEF treesVars, db, memory
  <2> QED
    BY <2>1, CalmStutter, CalmFits
<1>3. CASE Others
  BY <1>1, <1>3, OthersFits
<1>4. CASE ColleaguePushes \/ \E e \in Rows : AgentCommits(e) \/ AgentPushes(e)
  <2>1. UNCHANGED <<task, exec, asked, run>>
    BY <1>4 DEF ColleaguePushes, AgentCommits, AgentPushes, db, memory
  <2> QED
    BY <2>1, CalmStutter, CalmFits
<1>5. CASE Runner
  BY <1>1, <1>5, ClaimFits, RetryTurns, ReuseFits, PrepareFits, StartFits, RecordFits, LoadFits,
     ResumeFits, TurnFits DEF Runner
<1>6. CASE \E e \in Rows : AgentCompletes(e)
  BY <1>1, <1>6, CompletesFits
<1>7. CASE Sweeper
  BY <1>1, <1>7, SweeperFits
<1>8. CASE Crash \/ CrashInRemoval
  BY <1>1, <1>8, CrashFits
<1>9. CASE \E e \in Rows : LeaseExpires(e)
  BY <1>1, <1>9, LeaseFits
<1> QED
  BY <1>2, <1>3, <1>4, <1>5, <1>6, <1>7, <1>8, <1>9 DEF TreesNext, Agent

-----------------------------------------------------------------------------
(* A session has its worktree                                              *)

\* The removal of the worktree of e is not that of another's.
LEMMA RemovalSpares ==
  ASSUME TablesFit, DiskFits, NEW e \in Rows, NEW branch, RemoveWorktree(exec[e].path, branch)
  PROVE  /\ \A f \in Rows : f # e /\ exec[f].path # 0 => work'[exec[f].path] = work[exec[f].path]
         /\ \A d \in Rows : work'[d] \in {work[d], "none"} /\ (d # exec[e].path => work'[d] = work[d])
<1>1. \A f \in Rows : exec[f].path # 0 => exec[f].path \in Rows
  BY WorkspaceAssumption DEF TablesFit, RowRecord, Rows
<1> QED
  BY <1>1 DEF RemoveWorktree, DiskFits, TablesFit, OneOwner

\* What is on disk stays there.
LEMMA CheckOutStays ==
  ASSUME DiskFits, NEW d, CheckOut(d) \/ CheckOutSpec(d), NEW x \in Rows, work[x] # "none"
  PROVE  work'[x] # "none"
BY DEF CheckOut, CheckOutSpec, DiskFits

\* f is not at work in a session, or was, in the same directory, which stays.
SessionStays(f) ==
  run'[f].phase = "session" /\ exec'[f].state = "RUNNING" =>
    /\ InSession(f) /\ exec[f].state = "RUNNING" /\ exec'[f].path = exec[f].path
    /\ exec[f].path # 0 /\ work[exec[f].path] # "none" => work'[exec[f].path] # "none"

LEMMA SessionsStay == ASSUME HasItsTree, \A f \in Rows : SessionStays(f) PROVE HasItsTree'
BY DEF SessionStays, HasItsTree, InSession, Present

\* Only e moves, and is in no session; nothing leaves the disk.
LEMMA AllSessionsStay ==
  ASSUME HasItsTree, NEW e \in Rows, run'[e].phase # "session" \/ exec'[e].state # "RUNNING",
         \A f \in Rows : f # e => run'[f] = run[f] /\ (exec'[f] = exec[f] \/ exec'[f].state # "RUNNING"),
         \A f \in Rows : f # e => /\ exec[f].path # 0 /\ work[exec[f].path] # "none"
                                     => work'[exec[f].path] # "none"
  PROVE  HasItsTree'
BY SessionsStay DEF SessionStays, InSession

LEMMA PathIsRow == ASSUME TablesFit, NEW f \in Rows, exec[f].path # 0 PROVE exec[f].path \in Rows
BY WorkspaceAssumption DEF TablesFit, RowRecord, Rows

\* e moves to a phase that is no session, and at most its state changes.
LEMMA OneSessionEnds ==
  ASSUME TablesFit, HasItsTree, NEW e \in Rows, NEW p, PhaseSet(e, p), p # "session",
         \A f \in Rows : f # e => (exec'[f] = exec[f] \/ exec'[f].state # "RUNNING"),
         \A d \in Rows : work[d] # "none" => work'[d] # "none"
  PROVE  HasItsTree'
BY AllSessionsStay, PathIsRow DEF PhaseSet

\* When e fails, the other rows stay, or are a retry that waits.
LEMMA FailSpares ==
  ASSUME TablesFit, NEW e \in Rows, Fail(e), NEW f \in Rows, f # e
  PROVE  exec'[f] = exec[f] \/ exec'[f].state # "RUNNING"
BY FailureIs DEF Failed, NoExecution

LEMMA RunnerKeepsSessions ==
  ASSUME TablesFit, DiskFits, HasItsTree, Runner
  PROVE  HasItsTree'
<1>1. CASE Claim
  <2> DEFINE n == NextRow
             b == [NoExecution EXCEPT !.state = "ASSIGNED"]
             r == [run[NextRow] EXCEPT !.phase = "claimed"]
  <2>1. n \in Rows
    BY <1>1, NextRowIsFirst DEF Claim
  <2>2. exec' = [exec EXCEPT ![n] = b] /\ run' = [run EXCEPT ![n] = r] /\ UNCHANGED work
    BY <1>1 DEF Claim, disk
  <2>3. b.state = "ASSIGNED"
    BY DEF NoExecution
  <2> HIDE DEF b, r, n
  <2>4. exec'[n].state = "ASSIGNED" /\ \A f \in Rows : f # n => exec'[f] = exec[f] /\ run'[f] = run[f]
    BY <2>1, <2>2, <2>3 DEF TablesFit
  <2> QED
    BY <2>1, <2>2, <2>4, SessionsStay DEF SessionStays, InSession
<1>2. ASSUME NEW e \in Rows, ClaimRetry(e) PROVE HasItsTree'
  <2>1. PhaseSet(e, "claimed") /\ UNCHANGED work /\ exec[e].state = "QUEUED"
    BY <1>2, PhaseIs DEF ClaimRetry, Preparing, disk
  <2> PICK p \in Rows : p = exec[e].prev
    BY <2>1, PrevIs
  <2>2. exec[p].state = "FAILED" /\ exec[p] \in RowRecord /\ p # e
    BY <2>1, PrevIs DEF TablesFit
  <2>3. \A f \in Rows : f # e => (exec'[f] = exec[f] \/ exec'[f].state # "RUNNING")
    <3>1. CASE exec' = Transfer(e, p, [exec EXCEPT ![e].state = "ASSIGNED"])
      <4>1. Inherits(e, p)
        BY <2>1, <3>1, TransferInherits
      <4>2. exec'[p].state = "FAILED"
        BY <2>2, <4>1 DEF Inherits, RowRecord
      <4> QED
        BY <4>1, <4>2 DEF Inherits
    <3>2. CASE exec' = [exec EXCEPT ![e].state = "ASSIGNED"]
      BY <3>2, StateOnlyIs DEF StateOnly, ExecutionStates
    <3> QED
      BY <1>2, <3>1, <3>2 DEF ClaimRetry
  <2> QED
    BY <2>1, <2>3, OneSessionEnds
<1>3. ASSUME NEW e \in Rows,
             \/ Reuse(e) \/ PushPrevious(e) \/ Record(e) \/ StartOver(e) \/ RecordRestored(e)
             \/ Prepare(e) \/ Restore(e)
      PROVE  HasItsTree'
  <2>1. PICK p \in {"ensure", "pushed", "untried", "restore", "loaded", "prepared", "restored"} : PhaseSet(e, p)
    BY <1>3, PhaseIs DEF Reuse, PushPrevious, Record, StartOver, RecordRestored, Prepare, Restore,
       Preparing, Loading
  <2>2. \A f \in Rows : f # e => exec'[f] = exec[f]
    BY <1>3 DEF Reuse, PushPrevious, Record, Recorded, StartOver, RecordRestored, Prepare, Restore, db,
       TablesFit
  <2>3. \A d \in Rows : work[d] # "none" => work'[d] # "none"
    <3>1. CASE UNCHANGED work
      BY <3>1
    <3>2. CASE \E d : CheckOut(d) \/ CheckOutSpec(d)
      BY <3>2, CheckOutStays
    <3> QED
      BY <1>3, <3>1, <3>2 DEF Reuse, PushPrevious, Record, StartOver, RecordRestored, Prepare, Restore,
         disk
  <2> QED
    BY <2>1, <2>2, <2>3, OneSessionEnds
<1>4. ASSUME NEW e \in Rows, Leave(e), UNCHANGED work,
             Load(e) \/ Resume(e) \/ Start(e) \/ StartFails(e) \/ TurnEnds(e) \/ Stop(e)
      PROVE  HasItsTree'
  <2>1. PhaseSet(e, "none")
    BY <1>4, LeaveIs, SetLeaves
  <2>2. \A f \in Rows : f # e => (exec'[f] = exec[f] \/ exec'[f].state # "RUNNING")
    <3>1. CASE Fail(e)
      BY <3>1, FailSpares
    <3>2. CASE ~Fail(e)
      BY <1>4, <3>2 DEF Load, Resume, Start, StartFails, TurnEnds, Pause, Stop, db, TablesFit
    <3> QED
      BY <3>1, <3>2
  <2> QED
    BY <1>4, <2>1, <2>2, OneSessionEnds
<1>5. ASSUME NEW e \in Rows, PrepareFails(e) PROVE HasItsTree'
  <2>1. PhaseSet(e, "none")
    BY <1>5, LeaveIs, SetLeaves DEF PrepareFails
  <2>2. \A f \in Rows : f # e => (exec'[f] = exec[f] \/ exec'[f].state # "RUNNING")
    BY <1>5, FailSpares DEF PrepareFails
  <2>3. \A d \in Rows : work[d] # "none" => work'[d] # "none"
    BY <1>5, CheckOutStays DEF PrepareFails
  <2> QED
    BY <2>1, <2>2, <2>3, OneSessionEnds
<1>6. ASSUME NEW e \in Rows, RestoreFails(e) PROVE HasItsTree'
  <2>1. PhaseSet(e, "none") /\ UNCHANGED exec /\ RemoveWorktree(exec[e].path, ~IsSpec(e))
    BY <1>6, RefuseIs DEF RestoreFails
  <2> QED
    BY <2>1, RemovalSpares, AllSessionsStay DEF PhaseSet
<1>7. ASSUME NEW e \in Rows, Load(e) \/ Resume(e), ~Leave(e) PROVE HasItsTree'
  <2>1. PICK p \in {"restore", "loaded", "ensure"} : PhaseSet(e, p)
    <3> DEFINE q == IF exec[e].evicted THEN "restore" ELSE "loaded"
               r == [phase |-> q, from |-> exec[e].state]
               s == [NoRun EXCEPT !.phase = "ensure"]
    <3>1. run' = [run EXCEPT ![e] = r] \/ run' = [run EXCEPT ![e] = s]
      BY <1>7 DEF Load, Resume, Refuse
    <3>2. r \in RunRecord /\ r.phase = q /\ q \in {"restore", "loaded"} /\ s \in RunRecord /\ s.phase = "ensure"
      BY DEF RunRecord, Loading, TablesFit, RowRecord, NoRun
    <3> HIDE DEF r, s, q
    <3> QED
      BY <3>1, <3>2 DEF PhaseSet, TablesFit
  <2>2. UNCHANGED work /\ \A f \in Rows : f # e => exec'[f] = exec[f]
    BY <1>7 DEF Load, Resume, disk, TablesFit
  <2> QED
    BY <2>1, <2>2, OneSessionEnds
<1>8. ASSUME NEW e \in Rows, Start(e), ~Leave(e) PROVE HasItsTree'
  <2>1. PhaseSet(e, "session") /\ StateOnly(e, "RUNNING") /\ Present(exec[e].path) /\ UNCHANGED work
    BY <1>8, PhaseIs, StateOnlyIs DEF Start, ExecutionStates, disk
  <2> QED
    BY <2>1 DEF HasItsTree, InSession, PhaseSet, StateOnly, Present
<1>9. ASSUME NEW e \in Rows, Load(e) \/ Resume(e) \/ Start(e) \/ StartFails(e) \/ TurnEnds(e) \/ Stop(e)
      PROVE  HasItsTree'
  <2>1. UNCHANGED work
    BY <1>9 DEF Load, Resume, Start, StartFails, TurnEnds, Stop, disk
  <2>2. CASE Leave(e)
    BY <1>4, <1>9, <2>1, <2>2
  <2>3. CASE ~Leave(e)
    BY <1>7, <1>8, <1>9, <2>3 DEF StartFails, TurnEnds, Stop
  <2> QED
    BY <2>2, <2>3
<1> QED
  BY <1>1, <1>2, <1>3, <1>5, <1>6, <1>9 DEF Runner

\* No run and no path changes, no execution becomes RUNNING, and what sessions use stays on disk.
LEMMA SessionsSpared ==
  ASSUME HasItsTree, UNCHANGED run,
         \A f \in Rows : exec'[f].state = "RUNNING" =>
           /\ exec[f].state = "RUNNING" /\ exec'[f].path = exec[f].path
           /\ exec[f].path # 0 /\ work[exec[f].path] # "none" => work'[exec[f].path] # "none"
  PROVE  HasItsTree'
BY SessionsStay DEF SessionStays, InSession

LEMMA SweeperKeepsSessions ==
  ASSUME TablesFit, DiskFits, HasItsTree, Sweeper
  PROVE  HasItsTree'
<1>1. CASE Skip \/ \E e \in Rows : PushIdle(e)
  <2>1. UNCHANGED <<run, exec, work>>
    BY <1>1 DEF Skip, PushIdle, db, disk
  <2> QED
    BY <2>1, SessionsSpared
<1>2. ASSUME NEW e \in Rows, NEW b \in RowRecord, exec' = [exec EXCEPT ![e] = b], b.state = exec[e].state,
             exec[e].state \notin UsingStates, NEW branch, RemoveWorktree(exec[e].path, branch), UNCHANGED run
      PROVE  HasItsTree'
  <2>1. \A f \in Rows : f # e => exec'[f] = exec[f]
    BY <1>2 DEF TablesFit
  <2>2. exec'[e].state # "RUNNING"
    BY <1>2 DEF TablesFit, UsingStates
  <2> QED
    BY <1>2, <2>1, <2>2, RemovalSpares, SessionsSpared
<1>3. ASSUME NEW e \in Rows, NEW kind \in Kinds, Remove(e, kind) PROVE HasItsTree'
  <2> DEFINE b == [exec[e] EXCEPT !.path = 0]
  <2>1. exec[e] \in RowRecord /\ 0 \in 0 .. MaxRows /\ exec[e].state \notin UsingStates
    BY <1>3, WorkspaceAssumption DEF TablesFit, Remove, Candidate
  <2>2. b \in RowRecord /\ b.state = exec[e].state
    BY <2>1 DEF RowRecord
  <2>3. exec' = [exec EXCEPT ![e] = b] /\ RemoveWorktree(exec[e].path, exec[e].branch) /\ UNCHANGED run
    BY <1>3 DEF Remove, memory
  <2> HIDE DEF b
  <2> QED
    BY <1>2, <2>1, <2>2, <2>3
<1>4. CASE Evict /\ StillIdle
  <2> PICK e \in Rows : e = sw.of
    BY <1>4 DEF Evict, DiskFits
  <2> DEFINE b == [exec[e] EXCEPT !.evicted = TRUE]
  <2>1. exec[e] \in RowRecord /\ exec[e].state \notin UsingStates
    BY <1>4 DEF TablesFit, StillIdle, Candidate
  <2>2. b \in RowRecord /\ b.state = exec[e].state
    BY <2>1 DEF RowRecord
  <2>3. exec' = [exec EXCEPT ![e] = b] /\ RemoveWorktree(exec[e].path, exec[e].branch) /\ UNCHANGED run
    BY <1>4 DEF Evict, MarkEvicted
  <2> HIDE DEF b
  <2> QED
    BY <1>2, <2>1, <2>2, <2>3
<1>5. CASE Evict /\ ~StillIdle
  <2>1. UNCHANGED <<run, exec, work>>
    BY <1>5 DEF Evict
  <2> QED
    BY <2>1, SessionsSpared
<1> QED
  BY <1>1, <1>3, <1>4, <1>5 DEF Sweeper

LEMMA HasItsTreeNext ==
  ASSUME PathsFit, HasItsTree, [TreesNext]_treesVars
  PROVE  HasItsTree'
<1>1. TablesFit /\ DiskFits
  BY PathsFitIs
<1>2. CASE UNCHANGED treesVars
  BY <1>2, SessionsSpared DEF treesVars, db, disk, memory
<1>3. CASE Others
  <2>1. UNCHANGED <<run, work>>
    BY <1>3 DEF Others, memory, disk
  <2>2. \A f \in Rows : exec'[f] = exec[f] \/ exec'[f].state # "RUNNING"
    <3>1. CASE RequestReview
      <4>1. \A f \in Rows : exec'[f] = exec[f] \/ exec'[f] = WithState(exec[f], "COMPLETED")
        BY <3>1 DEF RequestReview, WithState
      <4> QED
        BY <1>1, <4>1, FieldsOfRow DEF TablesFit, ExecutionStates
    <3>2. CASE Cancel
      <4>1. \A f \in Rows : exec'[f] = exec[f] \/ exec'[f] = WithState(exec[f], "CANCELLED")
        BY <3>2 DEF Cancel, WithState
      <4> QED
        BY <1>1, <4>1, FieldsOfRow DEF TablesFit, ExecutionStates
    <3>3. CASE UNCHANGED exec
      BY <3>3
    <3> QED
      BY <1>3, <3>1, <3>2, <3>3 DEF Others, Promote, Approve, SendBack, Revise, PullRequestEnds, HumanRetry,
         Reopen, UserAnswers, CiFails
  <2> QED
    BY <2>1, <2>2, SessionsSpared
<1>4. CASE ColleaguePushes \/ \E e \in Rows : AgentCommits(e) \/ AgentPushes(e)
  <2>1. UNCHANGED <<run, exec, work>>
    BY <1>4 DEF ColleaguePushes, AgentCommits, AgentPushes, db, memory
  <2> QED
    BY <2>1, SessionsSpared
<1>5. CASE \E e \in Rows : AgentCompletes(e)
  <2> PICK e \in Rows : AgentCompletes(e)
    BY <1>5
  <2>1. StateOnly(e, "COMPLETED") /\ UNCHANGED <<run, work>>
    BY <1>1, StateOnlyIs DEF AgentCompletes, ExecutionStates, memory, disk
  <2> QED
    BY <2>1, SessionsSpared DEF StateOnly
<1>6. CASE Crash \/ CrashInRemoval
  <2>1. \A f \in Rows : run'[f].phase = "none"
    BY <1>6, NoRunIs DEF Crash, CrashInRemoval, Restarted
  <2> QED
    BY <2>1 DEF HasItsTree, InSession
<1>7. ASSUME NEW e \in Rows, LeaseExpires(e) PROVE HasItsTree'
  <2>1. UNCHANGED <<run, work>> /\ run[e].phase = "none"
    BY <1>7 DEF LeaseExpires, memory, disk, Alive
  <2>2. \A f \in Rows : f # e => exec'[f] = exec[f] \/ exec'[f].state # "RUNNING"
    BY <1>1, <1>7, FailSpares DEF LeaseExpires
  <2> QED
    BY <2>1, <2>2, AllSessionsStay
<1> QED
  BY <1>1, <1>2, <1>3, <1>4, <1>5, <1>6, <1>7, RunnerKeepsSessions, SweeperKeepsSessions DEF TreesNext, Agent

\* The directory of a session is on disk while its execution is RUNNING: the
\* sweeper decides on the locked row, and a resume that restored an evicted
\* worktree goes on only if no second eviction came in between.
THEOREM SessionsKeepTheirTrees == TreesSpec => []HasItsTree
<1>1. TreesInit => HasItsTree
  <2> SUFFICES ASSUME TreesInit, NEW e \in Rows, run[e].phase = "session" PROVE FALSE
    BY DEF HasItsTree, InSession
  <2> DEFINE begun == [NoRun EXCEPT !.phase = "claimed"]
  <2>1. begun.phase = "claimed" /\ NoRun.phase = "none" /\ (run[e] = NoRun \/ run[e] = begun)
    BY DEF TreesInit, NoRun
  <2> HIDE DEF begun
  <2> QED
    BY <2>1
<1>2. PathsFit /\ HasItsTree /\ [TreesNext]_treesVars => HasItsTree'
  BY HasItsTreeNext
<1> QED
  BY <1>1, <1>2, PathsAlwaysFit, PTL DEF TreesSpec

-----------------------------------------------------------------------------
(* The branch is with the latest execution, and nothing is lost            *)

PlaceFit == BranchIsLatest /\ NothingToLose /\ TipPushed /\ SweepKeepsWork

\* What BranchIsLatest and NothingToLose say of the latest execution
BranchFit(e) ==
  /\ OnBranch(exec[e].path)
  /\ run[e].phase \in {"pushed", "untried"} => ~Present(exec[e].path)
  /\ run[e].phase = "prepared" => OnBranch(e)
  /\ exec[e].state = "QUEUED" => OnBranch(exec[exec[e].prev].path)

LossFit(e) ==
  \/ kept \subseteq remote
  \/ /\ ~exec[e].evicted /\ run[e].phase # "restore"
     /\ exec[e].state \in {"WAITING_FOR_USER", "COMPLETED"} \/ run[e].phase \in Loading
          => Present(exec[e].path)

LatestFit == \A e \in Rows : ~IsSpec(e) /\ Latest(e) => BranchFit(e) /\ LossFit(e)

LEMMA LatestFitIs == BranchIsLatest /\ NothingToLose <=> LatestFit
BY DEF BranchIsLatest, NothingToLose, LatestFit, BranchFit, LossFit

LEMMA LatestFitIsNext == LatestFit' => BranchIsLatest' /\ NothingToLose'
BY DEF BranchIsLatest, NothingToLose, LatestFit, BranchFit, LossFit

LEMMA PlaceFitIsNext == LatestFit' /\ TipPushed' /\ SweepKeepsWork' => PlaceFit'
BY LatestFitIsNext DEF PlaceFit

\* There is one latest execution.
LEMMA LatestNow ==
  ASSUME NEW n \in Rows, Latest(n)', BranchFit(n)' /\ LossFit(n)'
  PROVE  LatestFit'
<1>1. ASSUME NEW f \in Rows, Latest(f)' PROVE f = n
  <2>1. f \in Nat /\ n \in Nat
    BY WorkspaceAssumption DEF Rows
  <2> QED
    BY <1>1, <2>1 DEF Latest
<1> QED
  BY <1>1 DEF LatestFit

LEMMA StillLatest ==
  ASSUME NEW e \in Rows, Latest(e), exec'[e].state # "NONE",
         \A f \in Rows : f # e => (exec'[f].state = "NONE" <=> exec[f].state = "NONE")
  PROVE  Latest(e)'
BY WorkspaceAssumption DEF Latest, Rows

LEMMA NewIsLatest ==
  ASSUME TablesFit, NEW n \in Rows, exec[n].state = "NONE", exec'[n].state # "NONE",
         \A f \in Rows : f # n => (exec'[f].state = "NONE" <=> exec[f].state = "NONE")
  PROVE  Latest(n)'
<1>1. \A f \in Rows : n < f => exec[f].state = "NONE" /\ f # n
  BY WorkspaceAssumption DEF TablesFit, UnusedFit, Rows
<1> QED
  BY <1>1 DEF Latest

\* What e does takes nothing from the directories of others.
Spares(e) ==
  /\ \A f \in Rows : f # e /\ exec[f].path # 0 => work'[exec[f].path] = work[exec[f].path]
  /\ \A f \in Rows : f # e /\ run[f].phase = "prepared" => work'[f] \in {work[f], "none"}
  /\ exec[e].state = "FAILED" =>
       \/ exec'[e].path = 0
       \/ exec'[e].path = exec[e].path /\ work'[exec[e].path] \in {work[exec[e].path], "none"}

\* One execution moves, and it is not an implementation that is the latest.
LEMMA AnotherActs ==
  ASSUME TablesFit, LatestFit, NEW e \in Rows, IsSpec(e) \/ ~Latest(e),
         exec'[e].role = exec[e].role, exec[e].state # "NONE", exec'[e].state # "NONE",
         \A f \in Rows : f # e => exec'[f] = exec[f] /\ run'[f] = run[f],
         Spares(e), kept \subseteq remote => kept' \subseteq remote'
  PROVE  LatestFit'
<1> SUFFICES ASSUME NEW f \in Rows, exec'[f].role # "spec", Latest(f)'
             PROVE  BranchFit(f)' /\ LossFit(f)'
  BY DEF LatestFit, IsSpec
<1>1. Latest(f) /\ f # e /\ exec'[f] = exec[f] /\ run'[f] = run[f]
  <2>1. \A g \in Rows : exec'[g].state = "NONE" <=> exec[g].state = "NONE"
    OBVIOUS
  <2>2. Latest(f)
    BY <2>1 DEF Latest
  <2> QED
    BY <2>2 DEF IsSpec
<1>2. BranchFit(f) /\ LossFit(f)
  BY <1>1 DEF LatestFit, IsSpec
<1>3. Present(exec[f].path)' <=> Present(exec[f].path)
  BY <1>1 DEF Spares, Present
<1>4. OnBranch(exec[f].path)' /\ (run[f].phase = "prepared" => OnBranch(f)')
  BY <1>1, <1>2 DEF Spares, Present, OnBranch, BranchFit
<1>5. ASSUME exec[f].state = "QUEUED" PROVE OnBranch(exec[exec[f].prev].path)'
  <2> PICK p \in Rows : p = exec[f].prev
    BY <1>5, PrevIs
  <2>1. exec[p].state = "FAILED" /\ OnBranch(exec[p].path)
    BY <1>2, <1>5, PrevIs DEF BranchFit
  <2>2. OnBranch(exec[p].path)'
    BY <2>1 DEF Spares, OnBranch, Present
  <2> QED
    BY <1>1, <2>2
<1>6. BranchFit(f)'
  BY <1>1, <1>2, <1>3, <1>4, <1>5 DEF BranchFit
<1>7. LossFit(f)'
  BY <1>1, <1>2, <1>3 DEF LossFit
<1> QED
  BY <1>6, <1>7

\* What the sweeper pushed stays pushed, and what was made stays, when the remote
\* only grows.
LEMMA CommitsStay ==
  ASSUME PlaceFit, remote \subseteq remote', UNCHANGED local, kept' \subseteq kept, sw' \in {sw, NoCandidate}
  PROVE  TipPushed' /\ SweepKeepsWork'
BY DEF PlaceFit, TipPushed, SweepKeepsWork, NoCandidate

\* The latest implementation e moves to state s and phase p, and the remote grows.
LEMMA StateTurns ==
  ASSUME TablesFit, PlaceFit, NEW e \in Rows, NEW s, NEW p, StateOnly(e, s), PhaseSet(e, p),
         exec[e].state # "NONE", s # "NONE", s = "QUEUED" => exec[e].state = "QUEUED",
         exec[e].state = "FAILED" => s = "FAILED",
         UNCHANGED <<work, local, kept>>, remote \subseteq remote', sw' \in {sw, NoCandidate},
         ~IsSpec(e) /\ Latest(e) =>
           /\ p \in {"pushed", "untried"} => ~Present(exec[e].path)
           /\ p = "prepared" => OnBranch(e)
           /\ \/ kept \subseteq remote
              \/ /\ ~exec[e].evicted /\ p # "restore"
                 /\ s \in {"WAITING_FOR_USER", "COMPLETED"} \/ p \in Loading => Present(exec[e].path)
  PROVE  PlaceFit'
<1>1. LatestFit
  BY LatestFitIs DEF PlaceFit
<1>2. TipPushed' /\ SweepKeepsWork'
  BY CommitsStay
<1>3. CASE IsSpec(e) \/ ~Latest(e)
  <2>1. Spares(e)
    BY DEF Spares, StateOnly
  <2>2. \A f \in Rows : f # e => exec'[f] = exec[f] /\ run'[f] = run[f]
    BY DEF StateOnly, PhaseSet
  <2>3. LatestFit'
    BY <1>1, <1>3, <2>1, <2>2, AnotherActs DEF StateOnly
  <2> QED
    BY <1>2, <2>3, PlaceFitIsNext
<1>4. CASE ~IsSpec(e) /\ Latest(e)
  <2>1. Latest(e)'
    BY <1>4, StillLatest DEF StateOnly
  <2>2. BranchFit(e)
    BY <1>1, <1>4 DEF LatestFit
  <2>3. BranchFit(e)'
    <3>1. OnBranch(exec[e].path)' /\ (Present(exec[e].path)' <=> Present(exec[e].path))
      BY <2>2 DEF BranchFit, OnBranch, Present, StateOnly
    <3>2. ASSUME exec'[e].state = "QUEUED" PROVE OnBranch(exec[exec[e].prev].path)'
      <4>1. exec[e].state = "QUEUED"
        BY <3>2 DEF StateOnly
      <4> PICK q \in Rows : q = exec[e].prev
        BY <4>1, PrevIs
      <4>2. q # e /\ OnBranch(exec[q].path)
        BY <2>2, <4>1, PrevIs DEF BranchFit
      <4>3. exec'[e].prev = q /\ exec'[q] = exec[q]
        BY <4>2 DEF StateOnly
      <4> QED
        BY <4>2, <4>3 DEF OnBranch, Present
    <3>3. OnBranch(e)' <=> OnBranch(e)
      BY DEF OnBranch, Present
    <3> QED
      BY <1>4, <3>1, <3>2, <3>3 DEF BranchFit, PhaseSet
  <2>4. LossFit(e)'
    <3>1. exec'[e].evicted = exec[e].evicted /\ run'[e].phase = p /\ exec'[e].state = s
          /\ (Present(exec[e].path)' <=> Present(exec[e].path))
      BY DEF StateOnly, PhaseSet, Present
    <3> QED
      BY <1>4, <3>1 DEF LossFit
  <2>5. LatestFit'
    BY <2>1, <2>3, <2>4, LatestNow
  <2> QED
    BY <1>2, <2>5, PlaceFitIsNext
<1> QED
  BY <1>3, <1>4

\* What the loss of the latest execution's worktree means for its branch
LEMMA LatestIs ==
  ASSUME PlaceFit, NEW e \in Rows, ~IsSpec(e), Latest(e)
  PROVE  BranchFit(e) /\ LossFit(e)
BY LatestFitIs DEF PlaceFit, LatestFit

LEMMA EngagedIs ==
  ASSUME PlaceFit, TurnsFit, NEW e \in Rows, Engaged(e)
  PROVE  ~IsSpec(e) /\ Latest(e) /\ BranchFit(e) /\ LossFit(e)
BY LatestIs DEF TurnsFit, EngagedFits, Engaged

\* A push
LEMMA PushGrows ==
  ASSUME DiskFits, ~Diverged
  PROVE  remote \subseteq PushedTip /\ local \subseteq PushedTip /\ PushedTip \subseteq local \cup remote
BY DEF DiskFits, Diverged, PushedTip, Unpushed

LEMMA PushPlace ==
  ASSUME TablesFit, DiskFits, PlaceFit, TurnsFit, NEW e \in Rows, PushPrevious(e)
  PROVE  PlaceFit'
<1>1. PICK p \in {"pushed", "untried"} : PhaseSet(e, p)
  BY PhaseIs DEF PushPrevious, Preparing
<1>2. /\ UNCHANGED <<exec, work, local, kept, sw>> /\ run[e].phase = "claimed" /\ ~IsSpec(e)
      /\ ~Present(exec[e].path)
  BY DEF PushPrevious, db, history
<1>3. remote \subseteq remote'
  BY PushGrows DEF PushPrevious
<1>4. exec[e].state \notin {"NONE", "FAILED", "QUEUED"}
  BY <1>2, RunIsOf
<1>5. LossFit(e)
  BY <1>2, EngagedIs DEF Engaged, Preparing
<1>6. \/ kept \subseteq remote
      \/ /\ ~exec[e].evicted /\ p # "restore"
         /\ exec[e].state \in {"WAITING_FOR_USER", "COMPLETED"} \/ p \in Loading => Present(exec[e].path)
  BY <1>1, <1>5 DEF LossFit, Loading
<1>7. StateOnly(e, exec[e].state)
  BY <1>2, NoStateIs
<1> QED
  BY <1>1, <1>2, <1>3, <1>4, <1>6, <1>7, StateTurns

\* A turn begins or ends, and who rests then has its worktree, or rested before.
LEMMA RestTurns ==
  ASSUME TablesFit, PlaceFit, NEW e \in Rows, NEW s, NEW p \in {"none", "ensure", "session"},
         StateOnly(e, s), PhaseSet(e, p), exec[e].state # "NONE", s # "NONE",
         s = "QUEUED" => exec[e].state = "QUEUED", exec[e].state = "FAILED" => s = "FAILED",
         UNCHANGED <<disk, kept, sw>>,
         s = exec[e].state \/ s \notin {"WAITING_FOR_USER", "COMPLETED"} \/ Present(exec[e].path)
  PROVE  PlaceFit'
<1>1. UNCHANGED <<work, local, kept>> /\ remote \subseteq remote' /\ sw' \in {sw, NoCandidate}
  BY DEF disk
<1>2. ASSUME ~IsSpec(e), Latest(e)
      PROVE  /\ p \in {"pushed", "untried"} => ~Present(exec[e].path)
             /\ p = "prepared" => OnBranch(e)
             /\ \/ kept \subseteq remote
                \/ /\ ~exec[e].evicted /\ p # "restore"
                   /\ s \in {"WAITING_FOR_USER", "COMPLETED"} \/ p \in Loading => Present(exec[e].path)
  BY <1>2, LatestIs DEF LossFit, Loading
<1> QED
  BY <1>1, <1>2, StateTurns

LEMMA LeavePlace ==
  ASSUME TablesFit, PlaceFit, NEW e \in Rows, UNCHANGED <<exec, disk, kept, sw>>, Leave(e),
         exec[e].state # "NONE"
  PROVE  PlaceFit'
<1>1. PhaseSet(e, "none") /\ StateOnly(e, exec[e].state)
  BY LeaveIs, SetLeaves, NoStateIs
<1> QED
  BY <1>1, RestTurns

\* e fails, and its run is over: the directory it leaves to its retry has the branch.
LEMMA FailurePlace ==
  ASSUME TablesFit, TurnsFit, PlaceFit, NEW e \in Rows, exec[e].state \in {"ASSIGNED", "RUNNING"}, Failed(e),
         run'[e].phase = "none", \A f \in Rows : f # e => run'[f] = run[f],
         IF IsSpec(e) THEN UNCHANGED work
                      ELSE exec[e].path # 0 /\ work'[exec[e].path] # "none" => work'[exec[e].path] = "branch",
         kept \subseteq remote => kept' \subseteq remote'
  PROVE  LatestFit'
<1>1. /\ exec'[e].state = "FAILED" /\ exec'[e].role = exec[e].role /\ exec'[e].path = exec[e].path
      /\ exec'[e].evicted = exec[e].evicted
  BY FieldsOfRow DEF Failed, TablesFit, ExecutionStates
<1>2. LatestFit
  BY LatestFitIs DEF PlaceFit
<1>3. CASE (\A f \in Rows : f # e => exec'[f] = exec[f]) /\ IsSpec(e)
  <2>1. Spares(e)
    BY <1>1, <1>3 DEF Spares
  <2> QED
    BY <1>1, <1>2, <1>3, <2>1, AnotherActs
<1>4. CASE (\A f \in Rows : f # e => exec'[f] = exec[f]) /\ ~IsSpec(e)
  <2>1. Latest(e) /\ ~exec[e].evicted
    BY <1>4, EngagedIs DEF Engaged, LiveStates, TablesFit, UsedFits, UsingStates
  <2>2. Latest(e)'
    BY <1>1, <1>4, <2>1, StillLatest
  <2>3. BranchFit(e)'
    BY <1>1, <1>4 DEF BranchFit, OnBranch, Present
  <2>4. LossFit(e)'
    BY <1>1, <2>1 DEF LossFit, Loading
  <2> QED
    BY <2>2, <2>3, <2>4, LatestNow
<1>5. CASE /\ ~IsSpec(e) /\ Fresh # {} /\ e # NextRow
           /\ exec'[NextRow] = [NoExecution EXCEPT !.state = "QUEUED", !.prev = e,
                                                   !.branch = exec[e].branch]
           /\ \A f \in Rows : f \notin {e, NextRow} => exec'[f] = exec[f]
  <2> PICK n \in Rows : n = NextRow /\ exec[n].state = "NONE"
    BY <1>5, NextRowIsFirst
  <2>1. exec'[n].state = "QUEUED" /\ exec'[n].path = 0 /\ exec'[n].evicted = FALSE /\ exec'[n].prev = e
    BY <1>5 DEF NoExecution
  <2>2. run'[n].phase = "none"
    BY <1>5 DEF TablesFit, UnusedFit
  <2>3. Latest(n)'
    <3>1. \A f \in Rows : f # n => (exec'[f].state = "NONE" <=> exec[f].state = "NONE")
      BY <1>1, <1>5
    <3> QED
      BY <2>1, <3>1, NewIsLatest
  <2>4. BranchFit(n)'
    BY <1>1, <1>5, <2>1, <2>2 DEF BranchFit, OnBranch, Present
  <2>5. LossFit(n)'
    BY <2>1, <2>2 DEF LossFit, Loading
  <2> QED
    BY <2>3, <2>4, <2>5, LatestNow
<1> QED
  BY <1>3, <1>4, <1>5 DEF Failed

LEMMA FailPlace ==
  ASSUME TablesFit, TurnsFit, PlaceFit, NEW e \in Rows, Fail(e), Leave(e), UNCHANGED <<disk, kept, sw>>,
         run[e].phase # "none"
  PROVE  PlaceFit'
<1>1. PhaseSet(e, "none") /\ exec[e].state # "NONE"
  BY LeaveIs, SetLeaves, RunIsOf
<1>2. CASE UNCHANGED <<task, exec>>
  BY <1>1, <1>2, LeavePlace
<1>3. CASE exec[e].state \in {"ASSIGNED", "RUNNING"} /\ Failed(e)
  <2>1. ~IsSpec(e) => OnBranch(exec[e].path)
    BY <1>3, EngagedIs DEF Engaged, LiveStates, BranchFit
  <2>2. LatestFit'
    BY <1>1, <1>3, <2>1, FailurePlace DEF PhaseSet, OnBranch, Present, disk
  <2>3. TipPushed' /\ SweepKeepsWork'
    BY CommitsStay DEF disk
  <2> QED
    BY <2>2, <2>3, PlaceFitIsNext
<1> QED
  BY <1>2, <1>3, FailureIs

LEMMA LeasePlace ==
  ASSUME TablesFit, TurnsFit, PlaceFit, NEW e \in Rows, LeaseExpires(e)
  PROVE  PlaceFit'
<1>1. /\ UNCHANGED <<run, disk, sw, kept>> /\ exec[e].state \in {"ASSIGNED", "RUNNING"} /\ run[e].phase = "none"
      /\ ~IsSpec(e)
  BY DEF LeaseExpires, memory, Alive, history
<1>2. Failed(e)
  BY <1>1, FailureIs DEF LeaseExpires
<1>3. OnBranch(exec[e].path)
  BY <1>1, EngagedIs DEF Engaged, LiveStates, BranchFit
<1>4. LatestFit'
  BY <1>1, <1>2, <1>3, FailurePlace DEF OnBranch, Present, disk
<1>5. TipPushed' /\ SweepKeepsWork'
  BY <1>1, CommitsStay DEF disk
<1> QED
  BY <1>4, <1>5, PlaceFitIsNext

LEMMA ReusePlace == ASSUME TablesFit, PlaceFit, NEW e \in Rows, Reuse(e) PROVE PlaceFit'
<1>1. PhaseSet(e, "ensure") /\ run[e].phase = "claimed" /\ UNCHANGED <<disk, kept, sw>>
  BY PhaseIs DEF Reuse, history
<1>2. exec[e].state \notin {"NONE", "FAILED", "QUEUED"}
  BY <1>1, RunIsOf
<1>3. StateOnly(e, exec[e].state) \/ StateOnly(e, "RUNNING")
  BY StateOnlyIs, NoStateIs DEF Reuse, ExecutionStates
<1> QED
  BY <1>1, <1>2, <1>3, RestTurns

LEMMA TurnPlace ==
  ASSUME TablesFit, TurnsFit, HasItsTree, PlaceFit, NEW e \in Rows,
         Start(e) \/ StartFails(e) \/ TurnEnds(e) \/ Stop(e)
  PROVE  PlaceFit'
<1>1. UNCHANGED <<disk, kept, sw>> /\ run[e].phase # "none"
  BY DEF Start, StartFails, TurnEnds, Stop, InSession, history
<1>2. exec[e].state \notin {"NONE", "FAILED", "QUEUED"}
  BY <1>1, RunIsOf
<1>3. CASE Fail(e) /\ Leave(e)
  BY <1>1, <1>3, FailPlace
<1>4. CASE UNCHANGED exec /\ Leave(e)
  BY <1>1, <1>2, <1>4, LeavePlace
<1>5. CASE Start(e) /\ Phase(e, "session") /\ exec' = [exec EXCEPT ![e].state = "RUNNING"]
  <2>1. PhaseSet(e, "session") /\ StateOnly(e, "RUNNING")
    BY <1>5, PhaseIs, StateOnlyIs DEF ExecutionStates
  <2> QED
    BY <1>1, <1>2, <2>1, RestTurns
<1>6. CASE TurnEnds(e) /\ Pause(e)
  <2>1. PhaseSet(e, "none") /\ StateOnly(e, "WAITING_FOR_USER")
    BY <1>6, LeaveIs, SetLeaves, StateOnlyIs DEF TurnEnds, Pause, ExecutionStates
  <2>2. Present(exec[e].path)
    BY <1>6 DEF TurnEnds, Pause, HasItsTree
  <2> QED
    BY <1>1, <1>2, <2>1, <2>2, RestTurns
<1> QED
  BY <1>3, <1>4, <1>5, <1>6 DEF Start, StartFails, TurnEnds, Stop, db

LEMMA CompletesPlace ==
  ASSUME TablesFit, HasItsTree, PlaceFit, NEW e \in Rows, AgentCompletes(e)
  PROVE  PlaceFit'
<1>1. /\ StateOnly(e, "COMPLETED") /\ PhaseSet(e, "session") /\ UNCHANGED <<disk, kept, sw>>
      /\ exec[e].state = "RUNNING" /\ Present(exec[e].path)
  BY StateOnlyIs DEF AgentCompletes, ExecutionStates, PhaseSet, InSession, TablesFit, memory, history, HasItsTree
<1> QED
  BY <1>1, RestTurns

LEMMA RecordPlace ==
  ASSUME TablesFit, TurnsFit, PlaceFit, NEW e \in Rows, Record(e)
  PROVE  PlaceFit'
<1>1. PhaseSet(e, "ensure") /\ run[e].phase = "prepared" /\ UNCHANGED <<disk, sw, kept>>
  BY PhaseIs DEF Record, history
<1>2. exec[e].state \notin {"NONE", "FAILED", "QUEUED"} /\ exec[e] \in RowRecord
  BY <1>1, RunIsOf DEF TablesFit
<1>3. /\ exec'[e].path = e /\ exec'[e].state = exec[e].state /\ exec'[e].role = exec[e].role
      /\ exec'[e].evicted = exec[e].evicted /\ \A f \in Rows : f # e => exec'[f] = exec[f]
  BY <1>2 DEF Record, Recorded, TablesFit, RowRecord
<1>4. TipPushed' /\ SweepKeepsWork'
  BY <1>1, CommitsStay DEF disk
<1>5. CASE IsSpec(e)
  <2>1. Spares(e) /\ LatestFit
    BY <1>1, <1>2, LatestFitIs DEF Spares, PlaceFit, disk
  <2>2. LatestFit'
    BY <1>1, <1>2, <1>3, <1>5, <2>1, AnotherActs DEF PhaseSet, disk
  <2> QED
    BY <1>4, <2>2, PlaceFitIsNext
<1>6. CASE ~IsSpec(e)
  <2>1. Latest(e) /\ BranchFit(e) /\ LossFit(e)
    BY <1>1, <1>6, EngagedIs DEF Engaged, Preparing
  <2>2. exec[e].state \notin {"WAITING_FOR_USER", "COMPLETED"}
    BY <1>1, <1>6 DEF TurnsFit, StartingFits, Preparing
  <2>3. Latest(e)'
    BY <1>2, <1>3, <2>1, StillLatest
  <2>4. BranchFit(e)'
    BY <1>1, <1>2, <1>3, <2>1 DEF BranchFit, PhaseSet, OnBranch, Present, disk
  <2>5. LossFit(e)'
    BY <1>1, <1>3, <2>1, <2>2 DEF LossFit, PhaseSet, Loading, disk
  <2>6. LatestFit'
    BY <2>3, <2>4, <2>5, LatestNow
  <2> QED
    BY <1>4, <2>6, PlaceFitIsNext
<1> QED
  BY <1>5, <1>6

LEMMA RestoredPlace ==
  ASSUME TablesFit, TurnsFit, PlaceFit, NEW e \in Rows, RecordRestored(e)
  PROVE  PlaceFit'
<1>1. PhaseSet(e, "loaded") /\ run[e].phase = "restored" /\ UNCHANGED <<disk, sw, kept>>
  BY PhaseIs DEF RecordRestored, Loading, history
<1>2. exec[e].state \notin {"NONE", "FAILED", "QUEUED"} /\ exec[e] \in RowRecord
  BY <1>1, RunIsOf DEF TablesFit
<1>3. /\ exec'[e].path = exec[e].path /\ exec'[e].state = exec[e].state /\ exec'[e].role = exec[e].role
      /\ exec'[e].evicted = FALSE /\ \A f \in Rows : f # e => exec'[f] = exec[f]
  BY <1>2 DEF RecordRestored, TablesFit, RowRecord
<1>4. TipPushed' /\ SweepKeepsWork'
  BY <1>1, CommitsStay DEF disk
<1>5. CASE IsSpec(e)
  <2>1. Spares(e) /\ LatestFit
    BY <1>1, <1>2, LatestFitIs DEF Spares, PlaceFit, disk
  <2>2. LatestFit'
    BY <1>1, <1>2, <1>3, <1>5, <2>1, AnotherActs DEF PhaseSet, disk
  <2> QED
    BY <1>4, <2>2, PlaceFitIsNext
<1>6. CASE ~IsSpec(e)
  <2>1. Latest(e) /\ BranchFit(e) /\ LossFit(e)
    BY <1>1, <1>6, EngagedIs DEF Engaged, Loading
  <2>2. Latest(e)'
    BY <1>2, <1>3, <2>1, StillLatest
  <2>3. BranchFit(e)'
    BY <1>1, <1>2, <1>3, <2>1 DEF BranchFit, PhaseSet, OnBranch, Present, disk
  <2>4. LossFit(e)'
    BY <1>1, <1>3, <2>1 DEF LossFit, PhaseSet, Loading, Present, disk
  <2>5. LatestFit'
    BY <2>2, <2>3, <2>4, LatestNow
  <2> QED
    BY <1>4, <2>5, PlaceFitIsNext
<1> QED
  BY <1>5, <1>6

LEMMA LoadPlace ==
  ASSUME TablesFit, TurnsFit, PlaceFit, NEW e \in Rows, Load(e) \/ StartOver(e)
  PROVE  PlaceFit'
<1>1. UNCHANGED <<exec, disk, sw, kept>> /\ StateOnly(e, exec[e].state)
  BY NoStateIs DEF Load, StartOver, db, history
<1>2. CASE Load(e) /\ Resumable(e) /\ exec[e].path # 0
  <2> DEFINE p == IF exec[e].evicted THEN "restore" ELSE "loaded"
             r == [phase |-> p, from |-> exec[e].state]
  <2>1. run' = [run EXCEPT ![e] = r]
    BY <1>2 DEF Load
  <2>2. r \in RunRecord /\ r.phase = p
    BY DEF RunRecord, Loading, TablesFit, RowRecord
  <2> HIDE DEF r
  <2>3. PhaseSet(e, p)
    BY <2>1, <2>2 DEF PhaseSet, TablesFit
  <2>4. exec[e].state \notin {"NONE", "FAILED", "QUEUED"}
    BY <1>2 DEF Resumable
  <2>5. ASSUME ~IsSpec(e), Latest(e)
        PROVE  kept \subseteq remote \/ (~exec[e].evicted /\ Present(exec[e].path))
    BY <1>2, <2>5, LatestIs DEF LossFit, Load, Resumable
  <2> QED
    BY <1>1, <2>3, <2>4, <2>5, StateTurns DEF disk
<1>3. CASE Load(e) /\ Refuse(e)
  <2>1. PhaseSet(e, "none")
    BY <1>3, RefuseIs
  <2>2. exec[e].state # "NONE"
    BY <1>3 DEF Load, TablesFit, UnusedFit
  <2> QED
    BY <1>1, <2>1, <2>2, RestTurns
<1>4. CASE StartOver(e)
  <2>1. PhaseSet(e, "restore") /\ run[e].phase = "loaded" /\ ~IsSpec(e) /\ ~Present(exec[e].path)
    BY <1>4, PhaseIs DEF StartOver, Loading
  <2>2. exec[e].state \notin {"NONE", "FAILED", "QUEUED"}
    BY <2>1, RunIsOf
  <2>3. kept \subseteq remote
    BY <2>1, EngagedIs DEF LossFit, Engaged, Loading
  <2> QED
    BY <1>1, <2>1, <2>2, <2>3, StateTurns DEF disk
<1> QED
  BY <1>2, <1>3, <1>4 DEF Load

LEMMA ResumePlace == ASSUME TablesFit, PlaceFit, NEW e \in Rows, Resume(e) PROVE PlaceFit'
<1>1. UNCHANGED <<disk, sw, kept>> /\ run[e].phase = "loaded"
  BY DEF Resume, history
<1>2. exec[e].state \notin {"NONE", "FAILED", "QUEUED"}
  BY <1>1, RunIsOf
<1>3. CASE MayResume(e)
  <2> DEFINE r == [NoRun EXCEPT !.phase = "ensure"]
  <2>1. run' = [run EXCEPT ![e] = r] /\ StateOnly(e, "RUNNING")
    BY <1>3, StateOnlyIs DEF Resume, ExecutionStates
  <2>2. r \in RunRecord /\ r.phase = "ensure"
    BY DEF NoRun, RunRecord
  <2> HIDE DEF r
  <2>3. PhaseSet(e, "ensure")
    BY <2>1, <2>2 DEF PhaseSet, TablesFit
  <2> QED
    BY <1>1, <1>2, <2>1, <2>3, RestTurns
<1>4. CASE UNCHANGED exec /\ Refuse(e)
  <2>1. PhaseSet(e, "none") /\ StateOnly(e, exec[e].state)
    BY <1>4, RefuseIs, NoStateIs
  <2> QED
    BY <1>1, <1>2, <2>1, RestTurns
<1> QED
  BY <1>3, <1>4 DEF Resume

\* A fresh attempt's new start of the branch leaves what is on the remote.
LEMMA GiveUpKeeps ==
  ASSUME PlaceFit, NEW e, GiveUp(e), NEW d, CheckOut(d), UNCHANGED <<remote, sw>>
  PROVE  kept' \subseteq remote' /\ TipPushed' /\ SweepKeepsWork'
BY DEF GiveUp, CheckOut, Unpushed, PlaceFit, TipPushed, SweepKeepsWork

\* A specification's checkout touches no other execution's directory.
LEMMA SpecSpares ==
  ASSUME TablesFit, DiskFits, NEW e \in Rows, run[e].phase # "none", UNCHANGED exec,
         NEW d \in {e, exec[e].path}, CheckOutSpec(d)
  PROVE  Spares(e)
<1>1. exec[e].state # "FAILED"
  BY RunIsOf
<1>2. ASSUME NEW f \in Rows, f # e, exec[f].path # 0 PROVE work'[exec[f].path] = work[exec[f].path]
  <2>1. exec[f].path # d /\ exec[f].path \in Rows
    BY <1>1, <1>2, PathIsRow DEF TablesFit, OneOwner, TakenOver
  <2> QED
    BY <2>1 DEF CheckOutSpec, DiskFits
<1>3. ASSUME NEW f \in Rows, f # e, run[f].phase = "prepared" PROVE work'[f] = work[f]
  <2>1. exec[f].state # "FAILED"
    BY <1>3, RunIsOf
  <2>2. f # d
    <3>1. f # 0
      BY WorkspaceAssumption DEF Rows
    <3> QED
      BY <1>3, <2>1, <3>1 DEF TablesFit, TakenOver
  <2> QED
    BY <2>2 DEF CheckOutSpec, DiskFits
<1> QED
  BY <1>1, <1>2, <1>3 DEF Spares

LEMMA SpecPlace ==
  ASSUME TablesFit, DiskFits, PlaceFit, NEW e \in Rows, IsSpec(e), run[e].phase # "none", UNCHANGED exec,
         NEW d \in {e, exec[e].path}, CheckOutSpec(d), UNCHANGED <<remote, kept, sw>>, NEW p, PhaseSet(e, p)
  PROVE  PlaceFit'
<1>1. Spares(e) /\ LatestFit /\ exec[e].state # "NONE"
  BY SpecSpares, LatestFitIs, RunIsOf DEF PlaceFit
<1>2. LatestFit'
  BY <1>1, AnotherActs DEF PhaseSet
<1>3. TipPushed' /\ SweepKeepsWork'
  BY CommitsStay DEF CheckOutSpec
<1> QED
  BY <1>2, <1>3, PlaceFitIsNext

\* The branch is checked out for e, the latest execution, and nothing of it is only local.
LEMMA BranchPlace ==
  ASSUME TablesFit, NEW e \in Rows, Latest(e), BranchFit(e), NEW d, CheckOut(d), UNCHANGED <<exec, remote>>,
         d \in Rows => work'[d] = "branch",
         d = exec[e].path \/ ~Present(exec[e].path), NEW p, PhaseSet(e, p), p \notin {"pushed", "untried"},
         p = "prepared" => d = e, exec[e].state # "QUEUED", kept' \subseteq remote'
  PROVE  LatestFit'
<1>1. Latest(e)'
  BY DEF Latest
<1>2. \A x \in Rows : x # d /\ work[x] = "none" => work'[x] = "none"
  BY DEF CheckOut
<1>3. OnBranch(exec[e].path)'
  <2>1. CASE exec[e].path \in Rows
    BY <1>2, <2>1 DEF OnBranch, Present
  <2>2. CASE exec[e].path = 0
    BY <2>2 DEF OnBranch, Present
  <2> QED
    BY <2>1, <2>2, PathIsRow
<1>4. BranchFit(e)'
  BY <1>3 DEF BranchFit, PhaseSet, OnBranch
<1>5. LossFit(e)'
  BY DEF LossFit
<1> QED
  BY <1>1, <1>4, <1>5, LatestNow

LEMMA PreparePlace ==
  ASSUME TablesFit, DiskFits, TurnsFit, PlaceFit, NEW e \in Rows, Prepare(e)
  PROVE  PlaceFit'
<1>1. PhaseSet(e, "prepared") /\ UNCHANGED <<exec, remote, sw>> /\ run[e].phase \in Preparing
  BY PhaseIs DEF Prepare, Preparing, Ready, db
<1>2. exec[e].state \notin {"NONE", "FAILED", "QUEUED"} /\ run[e].phase # "none"
  BY <1>1, RunIsOf DEF Preparing
<1>3. CASE IsSpec(e)
  <2>1. CheckOutSpec(e) /\ UNCHANGED kept
    BY <1>3 DEF Prepare, history
  <2> QED
    BY <1>1, <1>2, <1>3, <2>1, SpecPlace
<1>4. CASE ~IsSpec(e)
  <2>1. CheckOut(e) /\ GiveUp(e) /\ run[e].phase \in {"pushed", "untried"}
    BY <1>4 DEF Prepare, Ready
  <2>2. kept' \subseteq remote' /\ TipPushed' /\ SweepKeepsWork'
    BY <1>1, <2>1, GiveUpKeeps
  <2>3. Latest(e) /\ BranchFit(e)
    BY <1>1, <1>4, EngagedIs DEF Engaged
  <2>4. ~Present(exec[e].path) /\ work'[e] = "branch"
    BY <2>1, <2>3 DEF BranchFit, CheckOut
  <2>5. LatestFit'
    BY <1>1, <1>2, <2>1, <2>2, <2>3, <2>4, BranchPlace
  <2> QED
    BY <2>2, <2>5, PlaceFitIsNext
<1> QED
  BY <1>3, <1>4

LEMMA PrepareFailsPlace ==
  ASSUME TablesFit, DiskFits, TurnsFit, PlaceFit, NEW e \in Rows, PrepareFails(e)
  PROVE  PlaceFit'
<1>1. PhaseSet(e, "none") /\ UNCHANGED <<remote, sw>> /\ run[e].phase \in Preparing
  BY LeaveIs, SetLeaves DEF PrepareFails, Preparing, Ready
<1>2. exec[e].state \notin {"NONE", "FAILED", "QUEUED"} /\ run[e].phase # "none"
  BY <1>1, RunIsOf DEF Preparing
<1>3. CASE UNCHANGED <<local, work, history>>
  BY <1>1, <1>2, <1>3, FailPlace DEF PrepareFails, disk, history
<1>4. CASE ~IsSpec(e) /\ CheckOut(e) /\ GiveUp(e)
  <2>1. kept' \subseteq remote' /\ TipPushed' /\ SweepKeepsWork'
    BY <1>1, <1>4, GiveUpKeeps
  <2>2. Latest(e) /\ BranchFit(e) /\ run[e].phase \in {"pushed", "untried"}
    BY <1>1, <1>4, EngagedIs DEF Engaged, PrepareFails, Ready
  <2>3. ~Present(exec[e].path) /\ work'[e] = "branch"
    BY <1>4, <2>2 DEF BranchFit, CheckOut
  <2>4. CASE UNCHANGED <<task, exec>>
    <3>1. LatestFit'
      BY <1>1, <1>2, <1>4, <2>1, <2>2, <2>3, <2>4, BranchPlace
    <3> QED
      BY <2>1, <3>1, PlaceFitIsNext
  <2>5. CASE exec[e].state \in {"ASSIGNED", "RUNNING"} /\ Failed(e)
    <3>1. exec[e].path # 0 /\ work'[exec[e].path] # "none" => work'[exec[e].path] = "branch"
      BY <1>4, <2>3, PathIsRow DEF Present, CheckOut
    <3>2. LatestFit'
      BY <1>1, <1>4, <2>1, <2>5, <3>1, FailurePlace DEF PhaseSet
    <3> QED
      BY <2>1, <3>2, PlaceFitIsNext
  <2> QED
    BY <2>4, <2>5, FailureIs DEF PrepareFails
<1> QED
  BY <1>3, <1>4 DEF PrepareFails

LEMMA RestorePlace ==
  ASSUME TablesFit, DiskFits, TurnsFit, PlaceFit, NEW e \in Rows, Restore(e)
  PROVE  PlaceFit'
<1>1. PhaseSet(e, "restored") /\ UNCHANGED <<exec, remote, kept, sw>> /\ run[e].phase = "restore"
  BY PhaseIs DEF Restore, Loading, db, history
<1>2. exec[e].state \notin {"NONE", "FAILED", "QUEUED"}
  BY <1>1, RunIsOf
<1>3. CASE IsSpec(e)
  BY <1>1, <1>3, SpecPlace DEF Restore
<1>4. CASE ~IsSpec(e)
  <2>1. CheckOut(exec[e].path)
    BY <1>4 DEF Restore
  <2>2. Latest(e) /\ BranchFit(e) /\ kept \subseteq remote
    BY <1>1, <1>4, EngagedIs DEF Engaged, Loading, LossFit
  <2>3. TipPushed' /\ SweepKeepsWork'
    BY <1>1, <2>2 DEF PlaceFit, TipPushed, SweepKeepsWork
  <2>4. exec[e].path \in Rows => work'[exec[e].path] = "branch"
    BY <2>1 DEF CheckOut
  <2> DEFINE d == exec[e].path
  <2>5. CheckOut(d) /\ (d \in Rows => work'[d] = "branch") /\ d = exec[e].path
    BY <2>1, <2>4
  <2>6. LatestFit'
    BY <1>1, <1>2, <2>2, <2>5, BranchPlace
  <2> QED
    BY <2>3, <2>6, PlaceFitIsNext
<1> QED
  BY <1>3, <1>4

\* A directory is removed: the branch goes with it, or stays.
LEMMA RemovalIs ==
  ASSUME NEW d, NEW branch, RemoveWorktree(d, branch)
  PROVE  local' \in {local, {}} /\ (~branch => local' = local)
BY DEF RemoveWorktree

\* The directory of the latest implementation goes, with nothing in it but what
\* is on the remote.
LEMMA LatestRemoved ==
  ASSUME TablesFit, DiskFits, NEW e \in Rows, ~IsSpec(e), Latest(e), BranchFit(e), NEW branch,
         RemoveWorktree(exec[e].path, branch), kept' \subseteq remote', exec[e].state # "QUEUED",
         \A f \in Rows : f # e => exec'[f] = exec[f], exec'[e].state = exec[e].state,
         exec'[e].path \in {0, exec[e].path}, run'[e].phase \in {run[e].phase, "none"}
  PROVE  LatestFit'
<1>1. Latest(e)'
  BY StillLatest DEF Latest
<1>2. \A d \in Rows : work'[d] \in {work[d], "none"}
  BY RemovalSpares
<1>3. OnBranch(exec[e].path)' /\ (~Present(exec[e].path) => ~Present(exec[e].path)') /\ (OnBranch(e) => OnBranch(e)')
  BY <1>2, PathIsRow DEF OnBranch, Present, BranchFit
<1>4. BranchFit(e)'
  BY <1>3 DEF BranchFit
<1>5. LossFit(e)'
  BY DEF LossFit
<1> QED
  BY <1>1, <1>4, <1>5, LatestNow

LEMMA OtherRemoved ==
  ASSUME TablesFit, DiskFits, LatestFit, NEW e \in Rows, IsSpec(e) \/ ~Latest(e), NEW branch,
         RemoveWorktree(exec[e].path, branch), kept \subseteq remote => kept' \subseteq remote',
         \A f \in Rows : f # e => exec'[f] = exec[f] /\ run'[f] = run[f],
         exec[e].state # "NONE", exec'[e].state = exec[e].state, exec'[e].role = exec[e].role,
         exec'[e].path \in {0, exec[e].path}
  PROVE  LatestFit'
<1>1. Spares(e)
  <2>1. \A d \in Rows : work'[d] \in {work[d], "none"}
    BY RemovalSpares
  <2>2. \A f \in Rows : f # e /\ exec[f].path # 0 => work'[exec[f].path] = work[exec[f].path]
    BY RemovalSpares
  <2> QED
    BY <2>1, <2>2, PathIsRow DEF Spares
<1> QED
  BY <1>1, AnotherActs

LEMMA RestoreFailsPlace ==
  ASSUME TablesFit, DiskFits, TurnsFit, PlaceFit, NEW e \in Rows, RestoreFails(e)
  PROVE  PlaceFit'
<1>1. /\ PhaseSet(e, "none") /\ UNCHANGED <<exec, remote, kept, sw>> /\ run[e].phase = "restore"
      /\ RemoveWorktree(exec[e].path, ~IsSpec(e))
  BY RefuseIs DEF RestoreFails, history
<1>2. exec[e].state \notin {"NONE", "FAILED", "QUEUED"}
  BY <1>1, RunIsOf
<1>3. CASE IsSpec(e)
  <2>1. LatestFit
    BY LatestFitIs DEF PlaceFit
  <2>2. LatestFit'
    BY <1>1, <1>2, <1>3, <2>1, OtherRemoved DEF PhaseSet
  <2>3. UNCHANGED local
    BY <1>1, <1>3, RemovalIs
  <2>4. TipPushed' /\ SweepKeepsWork'
    BY <1>1, <2>3, CommitsStay
  <2> QED
    BY <2>2, <2>4, PlaceFitIsNext
<1>4. CASE ~IsSpec(e)
  <2>1. Latest(e) /\ BranchFit(e) /\ kept \subseteq remote
    BY <1>1, <1>4, EngagedIs DEF Engaged, Loading, LossFit
  <2>2. LatestFit'
    BY <1>1, <1>2, <1>4, <2>1, LatestRemoved DEF PhaseSet
  <2>3. TipPushed' /\ SweepKeepsWork'
    BY <1>1, <2>1 DEF PlaceFit, TipPushed, SweepKeepsWork
  <2> QED
    BY <2>2, <2>3, PlaceFitIsNext
<1> QED
  BY <1>3, <1>4

LEMMA RemovePlace ==
  ASSUME TablesFit, DiskFits, PlaceFit, NEW e \in Rows, NEW kind, Remove(e, kind)
  PROVE  PlaceFit'
<1>1. /\ RemoveWorktree(exec[e].path, exec[e].branch) /\ kept' = kept \ Unpushed
      /\ UNCHANGED <<remote, run, sw>> /\ exec[e].state \notin UsingStates \cup {"NONE"}
  BY DEF Remove, Candidate, memory
<1>2. /\ \A f \in Rows : f # e => exec'[f] = exec[f]
      /\ exec'[e].state = exec[e].state /\ exec'[e].role = exec[e].role /\ exec'[e].path = 0
  BY DEF Remove, TablesFit, RowRecord
<1>3. kept' \subseteq remote' /\ TipPushed' /\ SweepKeepsWork'
  BY <1>1 DEF Unpushed, PlaceFit, TipPushed, SweepKeepsWork
<1>4. LatestFit
  BY LatestFitIs DEF PlaceFit
<1>5. LatestFit'
  BY <1>1, <1>2, <1>3, <1>4, LatestRemoved, OtherRemoved DEF LatestFit, UsingStates
<1> QED
  BY <1>3, <1>5, PlaceFitIsNext

\* What the sweeper evicts is on the remote, or is no branch.
LEMMA IdleIsPushed ==
  ASSUME TablesFit, PlaceFit, NEW e \in Rows, sw.of = e, StillIdle
  PROVE  /\ exec[e].branch => kept \subseteq remote
         /\ ~IsSpec(e) => exec[e].branch
         /\ exec[e].path # 0 /\ exec[e].state \notin UsingStates \cup {"NONE"}
BY DEF StillIdle, Candidate, PlaceFit, TipPushed, SweepKeepsWork, TablesFit, BranchFits

LEMMA EvictPlace ==
  ASSUME TablesFit, DiskFits, PlaceFit, Evict
  PROVE  PlaceFit'
<1>1. LatestFit /\ UNCHANGED <<remote, run, kept>> /\ sw' = NoCandidate
  BY LatestFitIs DEF PlaceFit, Evict, history
<1>2. CASE StillIdle
  <2> PICK e \in Rows : e = sw.of
    BY DEF Evict, DiskFits
  <2>1. /\ exec[e].branch => kept \subseteq remote
        /\ ~IsSpec(e) => exec[e].branch
        /\ exec[e].path # 0 /\ exec[e].state \notin UsingStates \cup {"NONE"}
    BY <1>2, IdleIsPushed
  <2>2. RemoveWorktree(exec[e].path, exec[e].branch)
    BY <1>2 DEF Evict
  <2>3. /\ \A f \in Rows : f # e => exec'[f] = exec[f]
        /\ exec'[e].state = exec[e].state /\ exec'[e].role = exec[e].role /\ exec'[e].path = exec[e].path
    BY <1>2 DEF Evict, MarkEvicted, TablesFit, RowRecord
  <2>4. TipPushed' /\ SweepKeepsWork'
    BY <1>1, <2>1, <2>2, RemovalIs DEF PlaceFit, TipPushed, SweepKeepsWork, NoCandidate
  <2>5. LatestFit'
    BY <1>1, <2>1, <2>2, <2>3, LatestRemoved, OtherRemoved DEF LatestFit, UsingStates
  <2> QED
    BY <2>4, <2>5, PlaceFitIsNext
<1>3. CASE ~StillIdle
  <2>1. UNCHANGED <<work, local, exec>>
    BY <1>3 DEF Evict
  <2>2. LatestFit'
    BY <1>1, <2>1 DEF LatestFit, IsSpec, Latest, BranchFit, LossFit, OnBranch, Present
  <2>3. TipPushed' /\ SweepKeepsWork'
    BY <1>1, <2>1, CommitsStay
  <2> QED
    BY <2>2, <2>3, PlaceFitIsNext
<1> QED
  BY <1>2, <1>3

\* e stays, or is cancelled, or its specification is.
Idles(e) ==
  /\ exec'[e].role = exec[e].role /\ exec'[e].path = exec[e].path
  /\ exec'[e].evicted = exec[e].evicted /\ exec'[e].prev = exec[e].prev
  /\ \/ exec'[e].state = exec[e].state
     \/ exec[e].state # "NONE" /\ exec'[e].state = "CANCELLED"
     \/ IsSpec(e) /\ exec[e].state # "NONE" /\ exec'[e].state = "COMPLETED"

\* No execution moves but to CANCELLED, runs at most end, no directory changes.
LEMMA NobodyActs ==
  ASSUME LatestFit, UNCHANGED work, kept \subseteq remote => kept' \subseteq remote',
         \A e \in Rows : Idles(e) /\ run'[e].phase \in {run[e].phase, "none"},
         \A e \in Rows : exec[e].state = "QUEUED" => exec[e].prev \in Rows
  PROVE  LatestFit'
<1> SUFFICES ASSUME NEW e \in Rows, exec'[e].role # "spec", Latest(e)'
             PROVE  BranchFit(e)' /\ LossFit(e)'
  BY DEF LatestFit, IsSpec
<1>1. Latest(e) /\ ~IsSpec(e)
  <2>1. \A f \in Rows : exec'[f].state = "NONE" <=> exec[f].state = "NONE"
    BY DEF Idles
  <2> QED
    BY <2>1 DEF Latest, IsSpec, Idles
<1>2. BranchFit(e) /\ LossFit(e)
  BY <1>1 DEF LatestFit
<1>3. exec'[e].state = "QUEUED" => exec[e].state = "QUEUED" /\ exec'[exec'[e].prev].path = exec[exec[e].prev].path
  BY DEF Idles
<1>4. BranchFit(e)'
  BY <1>1, <1>2, <1>3 DEF Idles, BranchFit, OnBranch, Present
<1>5. LossFit(e)'
  BY <1>1, <1>2 DEF Idles, LossFit, Present, Loading, IsSpec
<1> QED
  BY <1>4, <1>5

LEMMA OthersPlace == ASSUME TablesFit, PlaceFit, Others PROVE PlaceFit'
<1>1. UNCHANGED <<run, work, local, remote, kept, sw>>
  BY DEF Others, memory, disk, history
<1>2. LatestFit /\ \A e \in Rows : exec[e].state = "QUEUED" => exec[e].prev \in Rows
  BY LatestFitIs, PrevIs DEF PlaceFit
<1>3. TipPushed' /\ SweepKeepsWork'
  BY <1>1, CommitsStay
<1>4. ASSUME NEW e \in Rows
      PROVE  Idles(e)
  <2>1. CASE RequestReview
    <3>1. \/ exec'[e] = exec[e]
          \/ exec'[e] = WithState(exec[e], "COMPLETED") /\ IsSpec(e) /\ exec[e].state = "RUNNING"
      BY <2>1 DEF RequestReview, WithState
    <3> QED
      BY <3>1, FieldsOfRow DEF Idles, TablesFit, ExecutionStates
  <2>2. CASE Cancel
    <3>1. \/ exec'[e] = exec[e]
          \/ exec'[e] = WithState(exec[e], "CANCELLED") /\ exec[e].state \in LiveStates
      BY <2>2 DEF Cancel, WithState
    <3> QED
      BY <3>1, FieldsOfRow DEF Idles, TablesFit, ExecutionStates, LiveStates
  <2>3. CASE UNCHANGED exec
    BY <2>3 DEF Idles
  <2> QED
    BY <2>1, <2>2, <2>3 DEF Others, Promote, Approve, SendBack, Revise, PullRequestEnds, HumanRetry,
       Reopen, UserAnswers, CiFails
<1>5. LatestFit'
  BY <1>1, <1>2, <1>4, NobodyActs
<1> QED
  BY <1>3, <1>5, PlaceFitIsNext

\* Runs at most end, and the remote grows.
LEMMA RemoteGrows ==
  ASSUME TablesFit, PlaceFit, UNCHANGED <<exec, work>>, kept \subseteq remote => kept' \subseteq remote',
         \A e \in Rows : run'[e].phase \in {run[e].phase, "none"}, TipPushed', SweepKeepsWork'
  PROVE  PlaceFit'
<1>1. LatestFit /\ \A e \in Rows : exec[e].state = "QUEUED" => exec[e].prev \in Rows
  BY LatestFitIs, PrevIs DEF PlaceFit
<1>2. \A e \in Rows : Idles(e)
  BY DEF Idles
<1>3. LatestFit'
  BY <1>1, <1>2, NobodyActs
<1> QED
  BY <1>3, PlaceFitIsNext

LEMMA PushesPlace ==
  ASSUME TablesFit, DiskFits, PlaceFit,
         \/ ColleaguePushes \/ Skip \/ Crash
         \/ \E e \in Rows : AgentPushes(e) \/ PushIdle(e)
  PROVE  PlaceFit'
<1>1. UNCHANGED <<exec, work>> /\ \A e \in Rows : run'[e].phase \in {run[e].phase, "none"}
  BY NoRunIs DEF ColleaguePushes, Skip, Crash, Restarted, AgentPushes, PushIdle, db, disk, memory
<1>2. CASE ColleaguePushes
  <2>1. kept' = kept \cup {NewCommit} /\ remote' = remote \cup {NewCommit} /\ UNCHANGED <<local, sw>>
    BY <1>2 DEF ColleaguePushes, memory
  <2> QED
    BY <1>1, <2>1, RemoteGrows DEF PlaceFit, TipPushed, SweepKeepsWork
<1>3. CASE Skip \/ Crash
  <2>1. UNCHANGED <<local, remote, kept>> /\ sw' = NoCandidate
    BY <1>3 DEF Skip, Crash, Restarted, disk, history
  <2>2. TipPushed' /\ SweepKeepsWork'
    BY <2>1, CommitsStay
  <2> QED
    BY <1>1, <2>1, <2>2, RemoteGrows
<1>4. ASSUME NEW e \in Rows, AgentPushes(e) PROVE PlaceFit'
  <2>1. remote \subseteq remote' /\ UNCHANGED <<local, kept, sw>>
    BY <1>4, PushGrows DEF AgentPushes, memory, history
  <2>2. TipPushed' /\ SweepKeepsWork'
    BY <2>1, CommitsStay
  <2> QED
    BY <1>1, <2>1, <2>2, RemoteGrows
<1>5. ASSUME NEW e \in Rows, PushIdle(e) PROVE PlaceFit'
  <2>1. UNCHANGED <<local, kept>> /\ remote \subseteq remote' /\ sw'.tip \subseteq remote'
    BY <1>5, PushGrows DEF PushIdle, MayEvict, history
  <2>2. TipPushed' /\ SweepKeepsWork'
    BY <2>1 DEF PlaceFit, TipPushed, SweepKeepsWork
  <2> QED
    BY <1>1, <2>1, <2>2, RemoteGrows
<1> QED
  BY <1>2, <1>3, <1>4, <1>5

LEMMA CommitPlace ==
  ASSUME TablesFit, DiskFits, TurnsFit, PlaceFit, NEW e \in Rows, AgentCommits(e)
  PROVE  PlaceFit'
<1>1. /\ UNCHANGED <<exec, run, work, remote, sw>> /\ ~IsSpec(e) /\ exec[e].state = "RUNNING"
      /\ Present(exec[e].path) /\ run[e].phase = "session" /\ kept' = kept \cup {NewCommit}
  BY DEF AgentCommits, InSession, db, memory
<1>2. Latest(e) /\ BranchFit(e)
  BY <1>1, EngagedIs DEF Engaged, LiveStates
<1>3. local' = local \cup {NewCommit}
  BY <1>1, <1>2 DEF AgentCommits, BranchFit, OnBranch
<1>4. TipPushed' /\ SweepKeepsWork'
  BY <1>1, <1>3 DEF PlaceFit, TipPushed, SweepKeepsWork
<1>5. Latest(e)' /\ BranchFit(e)'
  BY <1>1, <1>2 DEF Latest, BranchFit, OnBranch, Present
<1>6. LossFit(e)'
  BY <1>1 DEF LossFit, TablesFit, UsedFits, UsingStates, Loading
<1>7. LatestFit'
  BY <1>5, <1>6, LatestNow
<1> QED
  BY <1>4, <1>7, PlaceFitIsNext

LEMMA CrashPlace ==
  ASSUME TablesFit, DiskFits, PlaceFit, CrashInRemoval
  PROVE  PlaceFit'
<1>1. /\ UNCHANGED <<exec, remote>> /\ sw' = NoCandidate /\ LatestFit
      /\ \A f \in Rows : run'[f].phase = "none"
  BY NoRunIs, LatestFitIs DEF CrashInRemoval, Restarted, db, PlaceFit
<1>2. PICK e \in Rows, kind \in Kinds :
        /\ IF kind = "idle" THEN sw.of = e /\ StillIdle ELSE sw = NoCandidate /\ Candidate(e, kind)
        /\ RemoveWorktree(exec[e].path, exec[e].branch)
        /\ kept' = IF kind = "idle" THEN kept ELSE kept \ Unpushed
  BY DEF CrashInRemoval
<1>3. exec[e].state \notin UsingStates \cup {"NONE"} /\ (exec[e].branch => kept' \subseteq remote')
      /\ (~IsSpec(e) => exec[e].branch)
  <2>1. CASE kind = "idle"
    BY <1>1, <1>2, <2>1, IdleIsPushed
  <2>2. CASE kind # "idle"
    BY <1>1, <1>2, <2>2 DEF Candidate, PlaceFit, SweepKeepsWork, Unpushed, TablesFit, BranchFits
  <2> QED
    BY <2>1, <2>2
<1>4. kept' \subseteq kept /\ (kept \subseteq remote => kept' \subseteq remote')
  BY <1>1, <1>2
<1>5. TipPushed' /\ SweepKeepsWork'
  BY <1>1, <1>2, <1>3, <1>4, RemovalIs DEF PlaceFit, TipPushed, SweepKeepsWork, NoCandidate
<1>6. LatestFit'
  <2>1. \A d \in Rows : work'[d] \in {work[d], "none"}
    BY <1>2, RemovalSpares
  <2>2. \A f \in Rows : f # e /\ exec[f].path # 0 => work'[exec[f].path] = work[exec[f].path]
    BY <1>2, RemovalSpares
  <2> SUFFICES ASSUME NEW f \in Rows, ~IsSpec(f), Latest(f)
               PROVE  BranchFit(f)' /\ LossFit(f)'
    BY <1>1 DEF LatestFit, IsSpec, Latest
  <2>3. BranchFit(f) /\ LossFit(f)
    BY <1>1 DEF LatestFit
  <2>4. BranchFit(f)'
    <3>1. OnBranch(exec[f].path)'
      BY <1>1, <2>1, <2>3, PathIsRow DEF BranchFit, OnBranch, Present
    <3>2. exec[f].state = "QUEUED" => OnBranch(exec[exec[f].prev].path)'
      BY <1>1, <2>1, <2>3, PathIsRow, PrevIs DEF BranchFit, OnBranch, Present
    <3> QED
      BY <1>1, <3>1, <3>2 DEF BranchFit
  <2>5. LossFit(f)'
    <3>1. CASE f = e
      BY <1>3, <3>1 DEF LossFit
    <3>2. CASE f # e
      BY <1>1, <1>4, <2>2, <2>3, <3>2 DEF LossFit, Present, Loading
    <3> QED
      BY <3>1, <3>2
  <2> QED
    BY <2>4, <2>5
<1> QED
  BY <1>5, <1>6, PlaceFitIsNext

LEMMA ClaimPlace == ASSUME TablesFit, PlaceFit, Claim PROVE PlaceFit'
<1> DEFINE b == [NoExecution EXCEPT !.state = "ASSIGNED"]
           r == [run[NextRow] EXCEPT !.phase = "claimed"]
<1> PICK n \in Rows : n = NextRow /\ exec[n].state = "NONE"
  BY NextRowIsFirst DEF Claim
<1>1. exec' = [exec EXCEPT ![n] = b] /\ run' = [run EXCEPT ![n] = r] /\ UNCHANGED <<disk, kept, sw>>
  BY DEF Claim, history
<1>2. b.state = "ASSIGNED" /\ b.path = 0 /\ b.evicted = FALSE
  BY DEF NoExecution
<1>3. r.phase = "claimed"
  <2>1. run[n] \in RunRecord
    BY DEF TablesFit
  <2> QED
    BY <2>1 DEF RunRecord
<1> HIDE DEF b, r
<1>4. /\ exec'[n].state = "ASSIGNED" /\ exec'[n].path = 0 /\ exec'[n].evicted = FALSE /\ run'[n].phase = "claimed"
      /\ \A f \in Rows : f # n => exec'[f] = exec[f]
  BY <1>1, <1>2, <1>3 DEF TablesFit
<1>5. Latest(n)'
  BY <1>4, NewIsLatest
<1>6. BranchFit(n)' /\ LossFit(n)'
  BY <1>4 DEF BranchFit, LossFit, OnBranch, Present, Loading
<1>7. LatestFit'
  BY <1>5, <1>6, LatestNow
<1>8. TipPushed' /\ SweepKeepsWork'
  BY <1>1, CommitsStay DEF disk
<1> QED
  BY <1>7, <1>8, PlaceFitIsNext

LEMMA RetryPlace ==
  ASSUME TablesFit, TurnsFit, PlaceFit, NEW e \in Rows, ClaimRetry(e)
  PROVE  PlaceFit'
<1>1. exec[e].state = "QUEUED" /\ UNCHANGED <<disk, kept, sw>> /\ PhaseSet(e, "claimed")
  BY PhaseIs DEF ClaimRetry, Preparing, history
<1> PICK p \in Rows : p = exec[e].prev
  BY <1>1, PrevIs
<1>2. p # e /\ exec[p].state = "FAILED" /\ ~IsSpec(e) /\ exec[p] \in RowRecord /\ exec[e] \in RowRecord
      /\ exec[e].path = 0 /\ ~exec[e].evicted
  BY <1>1, PrevIs DEF TablesFit, UsedFits, UsingStates
<1>3. Latest(e) /\ OnBranch(exec[p].path)
  BY <1>1, <1>2, EngagedIs DEF Engaged, LiveStates, BranchFit
<1>4. /\ exec'[e].state = "ASSIGNED" /\ exec'[e].path \in {0, exec[p].path} /\ ~exec'[e].evicted
      /\ \A f \in Rows : f # e => exec'[f].state = exec[f].state
  <2>1. CASE exec' = Transfer(e, p, [exec EXCEPT ![e].state = "ASSIGNED"])
    <3>1. Inherits(e, p)
      BY <1>1, <2>1, TransferInherits
    <3> QED
      BY <1>2, <3>1 DEF Inherits, RowRecord
  <2>2. CASE exec' = [exec EXCEPT ![e].state = "ASSIGNED"]
    <3>1. StateOnly(e, "ASSIGNED")
      BY <2>2, StateOnlyIs DEF ExecutionStates
    <3> QED
      BY <1>2, <3>1 DEF StateOnly
  <2> QED
    BY <2>1, <2>2 DEF ClaimRetry
<1>5. Latest(e)'
  BY <1>3, <1>4, StillLatest
<1>6. BranchFit(e)' /\ LossFit(e)'
  BY <1>1, <1>3, <1>4 DEF BranchFit, LossFit, OnBranch, Present, Loading, PhaseSet, disk
<1>7. LatestFit'
  BY <1>5, <1>6, LatestNow
<1>8. TipPushed' /\ SweepKeepsWork'
  BY <1>1, CommitsStay DEF disk
<1> QED
  BY <1>7, <1>8, PlaceFitIsNext

LEMMA PlaceFitFirst == TreesInit => PlaceFit
<1> SUFFICES ASSUME TreesInit PROVE PlaceFit
  OBVIOUS
<1>1. kept = {} /\ sw.tip = {}
  BY DEF TreesInit, NoCandidate
<1>2. ASSUME NEW e \in Rows, ~IsSpec(e), Latest(e) PROVE FALSE
  <2> DEFINE first == [NoExecution EXCEPT !.role = "spec", !.state = "ASSIGNED"]
  <2>1. first.role = "spec" /\ NoExecution.state = "NONE" /\ (exec[e] = NoExecution \/ exec[e] = first)
    BY DEF TreesInit, NoExecution
  <2> HIDE DEF first
  <2> QED
    BY <1>2, <2>1 DEF IsSpec, Latest
<1> QED
  BY <1>1, <1>2 DEF PlaceFit, BranchIsLatest, NothingToLose, TipPushed, SweepKeepsWork

LEMMA PlaceFitNext ==
  ASSUME PathsFit, HasItsTree, TurnsFit, PlaceFit, [TreesNext]_treesVars
  PROVE  PlaceFit'
<1>1. TablesFit /\ DiskFits
  BY PathsFitIs
<1>2. CASE UNCHANGED treesVars
  <2>1. UNCHANGED <<exec, run, work, local, remote, kept, sw>>
    BY <1>2 DEF treesVars, db, disk, memory, history
  <2>2. TipPushed' /\ SweepKeepsWork'
    BY <2>1, CommitsStay
  <2> QED
    BY <1>1, <2>1, <2>2, RemoteGrows
<1>3. CASE Others
  BY <1>1, <1>3, OthersPlace
<1>4. CASE Runner
  BY <1>1, <1>4, ClaimPlace, RetryPlace, ReusePlace, PushPlace, PreparePlace, PrepareFailsPlace,
     RecordPlace, LoadPlace, RestorePlace, RestoreFailsPlace, RestoredPlace, ResumePlace,
     TurnPlace DEF Runner
<1>5. CASE Agent
  BY <1>1, <1>5, CommitPlace, PushesPlace, CompletesPlace DEF Agent
<1>6. CASE Sweeper
  BY <1>1, <1>6, EvictPlace, PushesPlace, RemovePlace DEF Sweeper
<1>7. CASE ColleaguePushes \/ Crash
  BY <1>1, <1>7, PushesPlace
<1>8. CASE CrashInRemoval
  BY <1>1, <1>8, CrashPlace
<1>9. CASE \E e \in Rows : LeaseExpires(e)
  BY <1>1, <1>9, LeasePlace
<1> QED
  BY <1>2, <1>3, <1>4, <1>5, <1>6, <1>7, <1>8, <1>9 DEF TreesNext

-----------------------------------------------------------------------------
(* When a task is reopened only once its runs have stopped                 *)

LEMMA TreesInvAlways == ASSUME Patient PROVE TreesSpec => [](HasItsTree /\ PathsFit /\ TurnsFit /\ PlaceFit)
<1>1. TreesInit => TurnsFit /\ PlaceFit
  BY TurnsFitFirst, PlaceFitFirst
<1>2. PathsFit /\ HasItsTree /\ TurnsFit /\ PlaceFit /\ [TreesNext]_treesVars => TurnsFit' /\ PlaceFit'
  BY TurnsFitNext, PlaceFitNext
<1> QED
  BY <1>1, <1>2, PathsAlwaysFit, SessionsKeepTheirTrees, PTL DEF TreesSpec

\* The directory of a running implementation has the branch of the task checked
\* out, and no other run has taken it, if the runs of a cancelled task have
\* stopped and its commands are handled before the task is reopened.  The manager
\* moves the branch to the directory it prepares and asks its caller to see that
\* nobody works on it (manager.ts:402).
THEOREM TreesAlwaysFit == ASSUME Patient PROVE TreesSpec => []TreesFit
<1>1. HasItsTree /\ PathsFit /\ TurnsFit /\ PlaceFit => TreesFit
  <2> SUFFICES ASSUME HasItsTree, PathsFit, TurnsFit, PlaceFit PROVE TreesFit
    OBVIOUS
  <2>1. ASSUME NEW e \in Rows, InSession(e), exec[e].state = "RUNNING"
        PROVE  IF IsSpec(e) THEN Present(exec[e].path) ELSE work[exec[e].path] = "branch"
    <3>1. Present(exec[e].path)
      BY <2>1 DEF HasItsTree
    <3>2. ~IsSpec(e) => OnBranch(exec[e].path)
      BY <2>1, EngagedIs DEF Engaged, LiveStates, BranchFit
    <3> QED
      BY <3>1, <3>2 DEF OnBranch
  <2> QED
    BY <2>1 DEF TreesFit, PathsFit, WorksOnItsBranch
<1> QED
  BY <1>1, TreesInvAlways, PTL

\* Under the same condition every commit stays on the remote or on the local
\* branch, over evictions, restores, retries, removals and crashes, but for those
\* a fresh attempt gives up and those the rules remove with an ended execution.
THEOREM WorkIsAlwaysKept == ASSUME Patient PROVE TreesSpec => []SweepKeepsWork
<1>1. PlaceFit => SweepKeepsWork
  BY DEF PlaceFit
<1> QED
  BY <1>1, TreesInvAlways, PTL
=============================================================================

---------------------------- MODULE Issues_proofs ----------------------------
(***************************************************************************)
(* Theorems of Issues, for any number of issues, messages and faults.      *)
(***************************************************************************)
EXTENDS Issues, FiniteSetTheorems, SequenceTheorems, TLAPS

-----------------------------------------------------------------------------
(* Commands                                                                *)

Command == [kind : {"message", "decision", "revision"}, issue : Ids \cup {0}, claimed : BOOLEAN]

About(q, k, kind, i) == q[k].kind = kind /\ q[k].issue = i

\* The commands of m are those of q without G, each with its kind and its issue.
Shrinks(q, m, G) ==
  /\ m \in Seq(Command)
  /\ \E h \in [DOMAIN m -> DOMAIN q \ G] :
       /\ \A j \in DOMAIN m : m[j].kind = q[h[j]].kind /\ m[j].issue = q[h[j]].issue
       /\ \A j, l \in DOMAIN m : h[j] = h[l] => j = l
       /\ \A l \in DOMAIN q \ G : \E j \in DOMAIN m : h[j] = l

LEMMA SeqDomain == ASSUME NEW q \in Seq(Command) PROVE /\ DOMAIN q = 1 .. Len(q) /\ Len(q) \in Nat
                                                       /\ \A k \in DOMAIN q : q[k] \in Command
OBVIOUS

LEMMA Relabels ==
  ASSUME NEW q \in Seq(Command), NEW m \in Seq(Command), DOMAIN m = DOMAIN q,
         \A k \in DOMAIN q : m[k].kind = q[k].kind /\ m[k].issue = q[k].issue
  PROVE  Shrinks(q, m, {})
<1> DEFINE h == [k \in DOMAIN m |-> k]
<1>1. h \in [DOMAIN m -> DOMAIN q \ {}] /\ \A k \in DOMAIN m : h[k] = k
  OBVIOUS
<1> HIDE DEF h
<1> QED
  BY <1>1 DEF Shrinks

LEMMA RemovesOne ==
  ASSUME NEW q \in Seq(Command), NEW k \in DOMAIN q PROVE Shrinks(q, RemoveAt(q, k), {k})
<1> DEFINE m == RemoveAt(q, k)
           h == [j \in 1 .. Len(q) - 1 |-> IF j < k THEN j ELSE j + 1]
<1>1. /\ Len(q) \in Nat /\ k \in 1 .. Len(q) /\ DOMAIN q = 1 .. Len(q)
      /\ \A l \in 1 .. Len(q) : q[l] \in Command
  BY SeqDomain
<1>2. /\ m \in Seq(Command) /\ Len(m) = Len(q) - 1
      /\ \A j \in 1 .. Len(q) - 1 : m[j] = IF j < k THEN q[j] ELSE q[j + 1]
  <2> DEFINE a == SubSeq(q, 1, k - 1)
             b == SubSeq(q, k + 1, Len(q))
  <2>1. /\ a \in Seq(Command) /\ Len(a) = k - 1
        /\ \A j \in 1 .. k - 1 : a[j] = q[j]
    BY <1>1
  <2>2. /\ b \in Seq(Command) /\ Len(b) = Len(q) - k
        /\ \A j \in 1 .. Len(q) - k : b[j] = q[j + k]
    BY <1>1
  <2> HIDE DEF a, b
  <2>3. /\ a \o b \in Seq(Command) /\ Len(a \o b) = Len(a) + Len(b)
        /\ \A j \in 1 .. Len(a) + Len(b) : (a \o b)[j] = IF j <= Len(a) THEN a[j] ELSE b[j - Len(a)]
    BY <2>1, <2>2, ConcatProperties
  <2>4. /\ a \o b \in Seq(Command) /\ Len(a \o b) = Len(q) - 1
        /\ \A j \in 1 .. Len(q) - 1 : (a \o b)[j] = IF j < k THEN q[j] ELSE q[j + 1]
    <3>1. Len(a) + Len(b) = Len(q) - 1 /\ Len(a) = k - 1 /\ Len(q) \in Nat /\ k \in Nat
      BY <1>1, <2>1, <2>2
    <3>2. ASSUME NEW j \in 1 .. Len(q) - 1 PROVE (a \o b)[j] = IF j < k THEN q[j] ELSE q[j + 1]
      <4>1. (a \o b)[j] = IF j <= k - 1 THEN a[j] ELSE b[j - (k - 1)]
        BY <2>3, <3>1
      <4>2. CASE j < k
        BY <2>1, <3>1, <4>1, <4>2
      <4>3. CASE ~(j < k)
        <5>1. j - (k - 1) \in 1 .. Len(q) - k /\ (j - (k - 1)) + k = j + 1 /\ ~(j <= k - 1)
          BY <1>1, <4>3
        <5>2. b[j - (k - 1)] = q[(j - (k - 1)) + k]
          BY <2>2, <5>1
        <5>3. (a \o b)[j] = b[j - (k - 1)]
          BY <4>1, <5>1
        <5>4. q[(j - (k - 1)) + k] = q[j + 1]
          BY <5>1
        <5> QED
          BY <4>3, <5>2, <5>3, <5>4
      <4> QED
        BY <4>2, <4>3
    <3> QED
      BY <2>3, <3>1, <3>2
  <2> QED
    BY <2>4 DEF RemoveAt, a, b
<1>3. DOMAIN m = 1 .. Len(q) - 1
  BY <1>2
<1>4. /\ \A j \in 1 .. Len(q) - 1 : h[j] = IF j < k THEN j ELSE j + 1
      /\ h \in [1 .. Len(q) - 1 -> (1 .. Len(q)) \ {k}]
  BY <1>1
<1>5. ASSUME NEW l \in (1 .. Len(q)) \ {k} PROVE \E j \in 1 .. Len(q) - 1 : h[j] = l
  <2>1. CASE l < k
    <3>1. l \in 1 .. Len(q) - 1
      BY <1>1, <2>1
    <3> QED
      BY <1>4, <2>1, <3>1
  <2>2. CASE ~(l < k)
    <3>1. l - 1 \in 1 .. Len(q) - 1 /\ ~(l - 1 < k) /\ (l - 1) + 1 = l
      BY <1>1, <2>2
    <3> QED
      BY <1>4, <3>1
  <2> QED
    BY <2>1, <2>2
<1>6. \A j, l \in 1 .. Len(q) - 1 : h[j] = h[l] => j = l
  BY <1>1, <1>4
<1>7. \A j \in 1 .. Len(q) - 1 : m[j] = q[h[j]]
  BY <1>1, <1>2, <1>4
<1> HIDE DEF m, h
<1>8. /\ h \in [DOMAIN m -> DOMAIN q \ {k}]
      /\ \A j \in DOMAIN m : m[j].kind = q[h[j]].kind /\ m[j].issue = q[h[j]].issue
      /\ \A j, l \in DOMAIN m : h[j] = h[l] => j = l
      /\ \A l \in DOMAIN q \ {k} : \E j \in DOMAIN m : h[j] = l
  BY <1>1, <1>3, <1>4, <1>5, <1>6, <1>7
<1>9. Shrinks(q, m, {k})
  BY <1>2, <1>8 DEF Shrinks
<1> QED
  BY <1>9 DEF m

\* How many commands are about i, of the queue q
Number(q, kind, i) == Cardinality({k \in DOMAIN q : About(q, k, kind, i)})

LEMMA NumberIsNat ==
  ASSUME NEW q \in Seq(Command), NEW kind, NEW i
  PROVE  IsFiniteSet({k \in DOMAIN q : About(q, k, kind, i)}) /\ Number(q, kind, i) \in Nat
<1>1. DOMAIN q = 1 .. Len(q) /\ Len(q) \in Nat
  BY SeqDomain
<1>2. IsFiniteSet(DOMAIN q)
  BY <1>1, FS_Interval
<1>3. {k \in DOMAIN q : About(q, k, kind, i)} \in SUBSET DOMAIN q
  OBVIOUS
<1> QED
  BY <1>2, <1>3, FS_Subset, FS_CardinalityType DEF Number

LEMMA NumberShrinks ==
  ASSUME NEW q \in Seq(Command), NEW m, NEW G, Shrinks(q, m, G), NEW kind, NEW i
  PROVE  /\ Number(m, kind, i) <= Number(q, kind, i)
         /\ (\E k \in G \cap DOMAIN q : About(q, k, kind, i)) => Number(m, kind, i) + 1 <= Number(q, kind, i)
<1> DEFINE M == {k \in DOMAIN m : About(m, k, kind, i)}
           Q == {k \in DOMAIN q : About(q, k, kind, i)}
<1>1. m \in Seq(Command)
  BY DEF Shrinks
<1>2. IsFiniteSet(M) /\ IsFiniteSet(Q) /\ Cardinality(M) \in Nat /\ Cardinality(Q) \in Nat
  BY <1>1, NumberIsNat, FS_CardinalityType
<1>3. PICK h \in [DOMAIN m -> DOMAIN q \ G] :
             /\ \A j \in DOMAIN m : m[j].kind = q[h[j]].kind /\ m[j].issue = q[h[j]].issue
             /\ \A j, l \in DOMAIN m : h[j] = h[l] => j = l
  BY DEF Shrinks
<1> DEFINE f == [j \in M |-> h[j]]
<1>4. f \in Injection(M, Q \ G)
  BY <1>3 DEF Injection, IsInjective, About
<1>5. IsFiniteSet(Q \ G) /\ Cardinality(Q \ G) \in Nat /\ Cardinality(Q \ G) <= Cardinality(Q)
  BY <1>2, FS_Subset, FS_CardinalityType
<1> HIDE DEF M, Q, f
<1>6. Cardinality(M) <= Cardinality(Q \ G)
  BY <1>4, <1>5, FS_Injection
<1>7. ASSUME NEW k \in G \cap Q PROVE Cardinality(Q \ G) + 1 <= Cardinality(Q)
  <2>1. Q \ G \in SUBSET (Q \ {k}) /\ IsFiniteSet(Q \ {k})
    BY <1>2, FS_Subset
  <2>2. Cardinality(Q \ {k}) = Cardinality(Q) - 1
    BY <1>2, FS_RemoveElement
  <2>3. Cardinality(Q \ G) <= Cardinality(Q \ {k})
    BY <2>1, FS_Subset
  <2> QED
    BY <1>2, <1>5, <2>2, <2>3
<1>8. (\E k \in G \cap DOMAIN q : About(q, k, kind, i)) => \E k \in G \cap Q : TRUE
  BY DEF Q
<1> QED
  BY <1>2, <1>5, <1>6, <1>7, <1>8 DEF Number, M, Q

-----------------------------------------------------------------------------
(* What a step does to the issues                                          *)

USE DEF Open, Waiting

\* G are the commands carried out, and each is heard or told at most once.
Moves(G) ==
  /\ issue' \in [Ids -> IssueRow]
  /\ \A i \in Ids :
       /\ issue'[i].sent = issue[i].sent
       /\ \/ issue'[i].heard = issue[i].heard
          \/ /\ issue'[i].heard = issue[i].heard + 1
             /\ \E k \in G \cap DOMAIN cmd : About(cmd, k, "message", i)
       /\ \/ issue'[i].told = issue[i].told
          \/ /\ issue'[i].told = issue[i].told + 1
             /\ \E k \in G \cap DOMAIN cmd : About(cmd, k, "decision", i)
       /\ issue[i].kind = "clarification" => issue'[i].kind = "clarification"
       /\ issue'[i].kind # "none" <=> issue'[i].status = "RESOLVED"
       /\ issue'[i].status = "none" => issue'[i] = NoIssue

\* What the invariant says of the rows and the commands on their way
Carried ==
  /\ issue \in [Ids -> IssueRow]
  /\ \A i \in Ids : /\ issue[i].kind # "none" <=> issue[i].status = "RESOLVED"
                    /\ issue[i].heard <= issue[i].sent
                    /\ issue[i].status = "none" => issue[i] = NoIssue
  /\ cmd \in Seq(Command) /\ \A k \in DOMAIN cmd : cmd[k].issue = 0 <=> cmd[k].kind = "revision"
  /\ HeardOnce /\ ToldNext /\ ToldOnce

LEMMA HeardIs == HeardOnce <=> \A i \in Ids : issue[i].heard + Number(cmd, "message", i) <= issue[i].sent
BY DEF HeardOnce, OnItsWay, Number, About

LEMMA HeardIsNext == HeardOnce' <=> \A i \in Ids : issue'[i].heard + Number(cmd', "message", i) <= issue'[i].sent
BY DEF HeardOnce, OnItsWay, Number, About

LEMMA RowNumbers ==
  ASSUME NEW r \in IssueRow PROVE r.heard \in Nat /\ r.sent \in Nat /\ r.told \in Nat /\ r.replies \in Nat
BY DEF IssueRow

LEMMA MovesCarries ==
  ASSUME Carried, NEW G, Shrinks(cmd, cmd', G), Moves(G) PROVE Carried'
<1>1. cmd' \in Seq(Command) /\ cmd \in Seq(Command)
  BY DEF Shrinks, Carried
<1>2. PICK h \in [DOMAIN cmd' -> DOMAIN cmd \ G] :
             /\ \A j \in DOMAIN cmd' : cmd'[j].kind = cmd[h[j]].kind /\ cmd'[j].issue = cmd[h[j]].issue
             /\ \A j, l \in DOMAIN cmd' : h[j] = h[l] => j = l
  BY DEF Shrinks
<1>3. \A i \in Ids : issue[i] \in IssueRow /\ issue'[i] \in IssueRow
  BY DEF Carried, Moves
<1>4. ASSUME NEW i \in Ids PROVE issue'[i].heard + Number(cmd', "message", i) <= issue'[i].sent
  <2>1. /\ issue[i].heard \in Nat /\ issue[i].sent \in Nat
        /\ Number(cmd, "message", i) \in Nat /\ Number(cmd', "message", i) \in Nat
    BY <1>1, <1>3, RowNumbers, NumberIsNat
  <2>2. issue[i].heard + Number(cmd, "message", i) <= issue[i].sent
    BY HeardIs DEF Carried
  <2>3. /\ Number(cmd', "message", i) <= Number(cmd, "message", i)
        /\ (\E k \in G \cap DOMAIN cmd : About(cmd, k, "message", i))
             => Number(cmd', "message", i) + 1 <= Number(cmd, "message", i)
    BY <1>1, NumberShrinks
  <2>4. issue'[i].sent = issue[i].sent
    BY DEF Moves
  <2>5. CASE issue'[i].heard = issue[i].heard
    BY <2>1, <2>2, <2>3, <2>4, <2>5
  <2>6. CASE issue'[i].heard = issue[i].heard + 1 /\ \E k \in G \cap DOMAIN cmd : About(cmd, k, "message", i)
    BY <2>1, <2>2, <2>3, <2>4, <2>6
  <2> QED
    BY <2>5, <2>6 DEF Moves
<1>5. HeardOnce'
  BY <1>4, HeardIsNext
<1>6. ASSUME NEW i \in Ids PROVE issue'[i].heard <= issue'[i].sent
  <2>1. issue'[i].heard \in Nat /\ issue'[i].sent \in Nat /\ Number(cmd', "message", i) \in Nat
    BY <1>1, <1>3, RowNumbers, NumberIsNat
  <2> QED
    BY <1>4, <2>1
<1>7. ASSUME NEW k \in DOMAIN cmd, cmd[k].kind = "decision"
      PROVE  /\ cmd[k].issue \in Ids /\ issue[cmd[k].issue].kind = "clarification" /\ issue[cmd[k].issue].told = 0
             /\ \A l \in DOMAIN cmd : cmd[l].kind = "decision" /\ cmd[l].issue = cmd[k].issue => l = k
  <2>1. cmd[k] \in Command /\ cmd[k].issue # 0
    BY <1>1, <1>7, SeqDomain DEF Carried
  <2> QED
    BY <1>7, <2>1 DEF Carried, ToldNext, Command
<1>8. ToldNext'
  <2> SUFFICES ASSUME NEW k \in DOMAIN cmd', cmd'[k].kind = "decision"
               PROVE  /\ issue'[cmd'[k].issue].kind = "clarification" /\ issue'[cmd'[k].issue].told = 0
                      /\ \A l \in DOMAIN cmd' : cmd'[l].kind = "decision" /\ cmd'[l].issue = cmd'[k].issue => l = k
    BY DEF ToldNext
  <2>1. h[k] \in DOMAIN cmd \ G /\ cmd[h[k]].kind = "decision" /\ cmd'[k].issue = cmd[h[k]].issue
    BY <1>2
  <2>2. /\ cmd'[k].issue \in Ids /\ issue[cmd'[k].issue].kind = "clarification" /\ issue[cmd'[k].issue].told = 0
        /\ \A l \in DOMAIN cmd : cmd[l].kind = "decision" /\ cmd[l].issue = cmd'[k].issue => l = h[k]
    BY <1>7, <2>1
  <2>3. ~\E l \in G \cap DOMAIN cmd : About(cmd, l, "decision", cmd'[k].issue)
    BY <2>1, <2>2 DEF About
  <2>4. issue'[cmd'[k].issue].kind = "clarification" /\ issue'[cmd'[k].issue].told = 0
    BY <2>2, <2>3 DEF Moves
  <2>5. ASSUME NEW l \in DOMAIN cmd', cmd'[l].kind = "decision", cmd'[l].issue = cmd'[k].issue PROVE l = k
    <3>1. h[l] \in DOMAIN cmd /\ cmd[h[l]].kind = "decision" /\ cmd[h[l]].issue = cmd'[k].issue
      BY <1>2, <2>5
    <3>2. h[l] = h[k]
      BY <2>2, <3>1
    <3> QED
      BY <1>2, <3>2
  <2> QED
    BY <2>4, <2>5
<1>9. ASSUME NEW i \in Ids PROVE issue'[i].told <= (IF issue'[i].kind = "clarification" THEN 1 ELSE 0)
  <2>1. /\ issue[i].told \in Nat /\ issue[i].told <= (IF issue[i].kind = "clarification" THEN 1 ELSE 0)
        /\ issue[i].kind = "clarification" => issue'[i].kind = "clarification"
    BY <1>3, RowNumbers DEF Carried, ToldOnce, Moves
  <2>2. CASE issue'[i].told = issue[i].told
    BY <2>1, <2>2
  <2>3. CASE issue'[i].told = issue[i].told + 1 /\ \E k \in G \cap DOMAIN cmd : About(cmd, k, "decision", i)
    <3>1. issue[i].kind = "clarification" /\ issue[i].told = 0
      BY <1>7, <2>3 DEF About
    <3> QED
      BY <2>1, <2>3, <3>1
  <2> QED
    BY <2>2, <2>3 DEF Moves
<1>10. \A k \in DOMAIN cmd' : cmd'[k].issue = 0 <=> cmd'[k].kind = "revision"
  BY <1>2 DEF Carried
<1> QED
  BY <1>1, <1>5, <1>6, <1>8, <1>9, <1>10 DEF Carried, ToldOnce, Moves

LEMMA NumberAppends ==
  ASSUME NEW q \in Seq(Command), NEW c \in Command, NEW kind, NEW i
  PROVE  Number(Append(q, c), kind, i) = Number(q, kind, i) + (IF c.kind = kind /\ c.issue = i THEN 1 ELSE 0)
<1> DEFINE m == Append(q, c)
           M == {k \in DOMAIN m : About(m, k, kind, i)}
           Q == {k \in DOMAIN q : About(q, k, kind, i)}
<1>1. /\ DOMAIN q = 1 .. Len(q) /\ Len(q) \in Nat /\ DOMAIN m = 1 .. Len(q) + 1
      /\ m[Len(q) + 1] = c /\ \A k \in DOMAIN q : m[k] = q[k]
  BY SeqDomain
<1>2. IsFiniteSet(Q) /\ Cardinality(Q) \in Nat
  BY NumberIsNat, FS_CardinalityType
<1>3. Len(q) + 1 \notin Q
  BY <1>1
<1> HIDE DEF m
<1>4. M = IF c.kind = kind /\ c.issue = i THEN Q \cup {Len(q) + 1} ELSE Q
  <2>1. 1 .. Len(q) + 1 = (1 .. Len(q)) \cup {Len(q) + 1}
    BY <1>1
  <2>2. M = {k \in (1 .. Len(q)) \cup {Len(q) + 1} : About(m, k, kind, i)}
    BY <1>1, <2>1
  <2>3. \A k \in 1 .. Len(q) : About(m, k, kind, i) <=> About(q, k, kind, i)
    BY <1>1 DEF About
  <2>4. About(m, Len(q) + 1, kind, i) <=> c.kind = kind /\ c.issue = i
    BY <1>1 DEF About
  <2> QED
    BY <1>1, <2>2, <2>3, <2>4
<1> HIDE DEF M, Q
<1>5. Cardinality(Q \cup {Len(q) + 1}) = Cardinality(Q) + 1
  BY <1>2, <1>3, FS_AddElement
<1>6. Cardinality(M) = Cardinality(Q) + (IF c.kind = kind /\ c.issue = i THEN 1 ELSE 0)
  BY <1>2, <1>4, <1>5
<1> QED
  BY <1>6 DEF Number, M, Q, m

\* A command c is put behind the others, by the row it is about.
LEMMA AppendCarries ==
  ASSUME Carried, NEW c \in Command, cmd' = Append(cmd, c), c.issue = 0 <=> c.kind = "revision",
         issue' \in [Ids -> IssueRow],
         \A i \in Ids :
           /\ issue'[i].heard = issue[i].heard /\ issue'[i].told = issue[i].told
           /\ issue'[i].sent = issue[i].sent + (IF c.kind = "message" /\ c.issue = i THEN 1 ELSE 0)
           /\ issue[i].kind = "clarification" => issue'[i].kind = "clarification"
           /\ issue'[i].kind # "none" <=> issue'[i].status = "RESOLVED"
           /\ issue'[i].status = "none" => issue'[i] = NoIssue,
         c.kind = "decision" => /\ issue[c.issue].kind # "clarification"
                                /\ issue'[c.issue].kind = "clarification"
  PROVE  Carried'
<1>1. /\ cmd \in Seq(Command) /\ cmd' \in Seq(Command) /\ DOMAIN cmd = 1 .. Len(cmd) /\ Len(cmd) \in Nat
      /\ DOMAIN cmd' = 1 .. Len(cmd) + 1 /\ cmd'[Len(cmd) + 1] = c
      /\ \A k \in DOMAIN cmd : cmd'[k] = cmd[k] /\ cmd[k] \in Command
  BY SeqDomain DEF Carried
<1>2. DOMAIN cmd' = DOMAIN cmd \cup {Len(cmd) + 1}
  BY <1>1
<1>3. \A i \in Ids : issue[i] \in IssueRow /\ issue'[i] \in IssueRow
  BY DEF Carried
<1>4. ASSUME NEW i \in Ids
      PROVE  /\ issue'[i].heard + Number(cmd', "message", i) <= issue'[i].sent
             /\ issue'[i].heard <= issue'[i].sent
  <2>1. /\ issue[i].heard \in Nat /\ issue[i].sent \in Nat
        /\ Number(cmd, "message", i) \in Nat /\ Number(cmd', "message", i) \in Nat
    BY <1>1, <1>3, RowNumbers, NumberIsNat
  <2>2. issue[i].heard + Number(cmd, "message", i) <= issue[i].sent
    BY HeardIs DEF Carried
  <2>3. Number(cmd', "message", i)
          = Number(cmd, "message", i) + (IF c.kind = "message" /\ c.issue = i THEN 1 ELSE 0)
    BY <1>1, NumberAppends
  <2> QED
    BY <2>1, <2>2, <2>3
<1>5. HeardOnce'
  BY <1>4, HeardIsNext
<1>6. \A k \in DOMAIN cmd' : cmd'[k].issue = 0 <=> cmd'[k].kind = "revision"
  BY <1>1, <1>2 DEF Carried
<1>7. ASSUME NEW k \in DOMAIN cmd, cmd[k].kind = "decision"
      PROVE  /\ cmd[k].issue \in Ids /\ issue[cmd[k].issue].kind = "clarification" /\ issue[cmd[k].issue].told = 0
             /\ \A l \in DOMAIN cmd : cmd[l].kind = "decision" /\ cmd[l].issue = cmd[k].issue => l = k
  <2>1. cmd[k] \in Command /\ cmd[k].issue # 0
    BY <1>1, <1>7 DEF Carried
  <2> QED
    BY <1>7, <2>1 DEF Carried, ToldNext, Command
<1>8. c.kind = "decision" => c.issue \in Ids /\ issue[c.issue].told = 0
  <2>1. c.kind = "decision" => c.issue \in Ids
    BY DEF Command
  <2> QED
    BY <1>3, <2>1, RowNumbers DEF Carried, ToldOnce
<1>9. ToldNext'
  <2> SUFFICES ASSUME NEW k \in DOMAIN cmd', cmd'[k].kind = "decision"
               PROVE  /\ issue'[cmd'[k].issue].kind = "clarification" /\ issue'[cmd'[k].issue].told = 0
                      /\ \A l \in DOMAIN cmd' : cmd'[l].kind = "decision" /\ cmd'[l].issue = cmd'[k].issue => l = k
    BY DEF ToldNext
  <2>1. CASE k \in DOMAIN cmd
    BY <1>1, <1>2, <1>7, <2>1
  <2>2. CASE k = Len(cmd) + 1
    BY <1>1, <1>2, <1>7, <1>8, <2>2
  <2> QED
    BY <1>2, <2>1, <2>2
<1>10. ToldOnce'
  BY <1>3, RowNumbers DEF Carried, ToldOnce
<1> QED
  BY <1>1, <1>4, <1>5, <1>6, <1>9, <1>10 DEF Carried

LEMMA Survives ==
  ASSUME NEW q, NEW m, NEW G, Shrinks(q, m, G)
  PROVE  /\ \A j \in DOMAIN m : \E l \in DOMAIN q \ G : m[j].kind = q[l].kind /\ m[j].issue = q[l].issue
         /\ \A l \in DOMAIN q \ G : \E j \in DOMAIN m : m[j].kind = q[l].kind /\ m[j].issue = q[l].issue
BY DEF Shrinks

-----------------------------------------------------------------------------
(* The invariant in two parts                                              *)

Frame ==
  /\ task \in {"IMPLEMENTING", "SPEC_IN_PROGRESS", "SPEC_REVIEW", "READY", "CI_RUNNING", "CANCELLED"}
  /\ approved \in Nat /\ exec.rev \in 1 .. approved
  /\ task # "CANCELLED" => (draft <=> task \in {"SPEC_IN_PROGRESS", "SPEC_REVIEW"})
  /\ exec \in [state : {"RUNNING", "WAITING_FOR_USER", "COMPLETED", "FAILED", "CANCELLED"}, rev : Nat]
  /\ run \in [phase : {"idle", "loading", "turn", "ended", "closing"}, talk : Ids \cup {0},
              pending : BOOLEAN, cmd : Nat]
  /\ run.cmd # 0 <=> run.phase = "loading"
  /\ exec.state = "RUNNING" => run.phase \in {"turn", "ended"}
  /\ faults \in 0 .. MaxFaults

LEMMA Parts == TalkInv <=> Carried /\ Frame /\ RaisedStaysOpen /\ HasReason /\ TalkFits
BY DEF TalkInv, TypeOK, RowsFit, Carried, Frame, Command, IssueRow

LEMMA PartsNext == TalkInv' <=> Carried' /\ Frame' /\ RaisedStaysOpen' /\ HasReason' /\ TalkFits'
BY DEF TalkInv, TypeOK, RowsFit, Carried, Frame, Command, IssueRow

-----------------------------------------------------------------------------
(* Every step keeps TalkInv                                                *)

\* What is left to show of a step, once Carried is known to hold after it
Left == Frame' /\ RaisedStaysOpen' /\ HasReason' /\ TalkFits'

LEMMA RowSet ==
  ASSUME issue \in [Ids -> IssueRow], NEW i \in Ids, NEW b \in IssueRow, issue' = [issue EXCEPT ![i] = b]
  PROVE  /\ issue' \in [Ids -> IssueRow] /\ issue'[i] = b
         /\ \A j \in Ids : j # i => issue'[j] = issue[j]
OBVIOUS

LEMMA Appended ==
  ASSUME cmd \in Seq(Command), NEW c, cmd' = Append(cmd, c)
  PROVE  /\ DOMAIN cmd' = DOMAIN cmd \cup {Len(cmd) + 1} /\ Len(cmd) + 1 \notin DOMAIN cmd
         /\ cmd'[Len(cmd) + 1] = c /\ \A k \in DOMAIN cmd : cmd'[k] = cmd[k]
<1>1. DOMAIN cmd = 1 .. Len(cmd) /\ Len(cmd) \in Nat
  BY SeqDomain
<1> QED
  BY <1>1

LEMMA PostMessageTalk ==
  ASSUME TalkInv, NEW i \in Ids, PostMessage(i) PROVE TalkInv'
<1>1. Carried /\ Frame /\ RaisedStaysOpen /\ HasReason /\ TalkFits
  BY Parts
<1> DEFINE b == [issue[i] EXCEPT !.sent = @ + 1]
           c == [kind |-> "message", issue |-> i, claimed |-> FALSE]
<1>2. /\ issue[i] \in IssueRow /\ issue[i].status = "OPEN"
      /\ b \in IssueRow /\ issue' = [issue EXCEPT ![i] = b]
      /\ b.sent = issue[i].sent + 1 /\ b.heard = issue[i].heard /\ b.told = issue[i].told
      /\ b.replies = issue[i].replies /\ b.status = "OPEN" /\ b.kind = issue[i].kind
      /\ b.blocking = issue[i].blocking
  <2>1. issue[i] \in IssueRow /\ issue[i].status = "OPEN" /\ issue[i].sent + 1 \in Nat
    BY <1>1 DEF PostMessage, Carried, IssueRow
  <2>2. issue' = [issue EXCEPT ![i] = b]
    BY DEF PostMessage, WithMessage
  <2> QED
    BY <2>1, <2>2 DEF IssueRow
<1>3. c \in Command /\ cmd' = Append(cmd, c) /\ c.issue # 0 /\ c.kind = "message" /\ c.issue = i
  BY DEF PostMessage, Enqueue, Command, Ids
<1> HIDE DEF b, c
<1>4. /\ issue' \in [Ids -> IssueRow] /\ issue'[i] = b
      /\ \A j \in Ids : j # i => issue'[j] = issue[j]
  BY <1>1, <1>2, RowSet DEF Carried
<1>5. \A j \in Ids :
           /\ issue'[j].heard = issue[j].heard /\ issue'[j].told = issue[j].told
           /\ issue'[j].sent = issue[j].sent + (IF c.kind = "message" /\ c.issue = j THEN 1 ELSE 0)
           /\ issue[j].kind = "clarification" => issue'[j].kind = "clarification"
           /\ issue'[j].kind # "none" <=> issue'[j].status = "RESOLVED"
           /\ issue'[j].status = "none" => issue'[j] = NoIssue
           /\ issue'[j].status = issue[j].status /\ issue'[j].blocking = issue[j].blocking
           /\ issue'[j].replies = issue[j].replies
  <2>1. ASSUME NEW j \in Ids, j # i
        PROVE  issue'[j].sent = issue[j].sent + (IF c.kind = "message" /\ c.issue = j THEN 1 ELSE 0)
    BY <1>1, <1>3, <1>4, <2>1, RowNumbers DEF Carried
  <2> QED
    BY <1>1, <1>2, <1>3, <1>4, <2>1 DEF Carried
<1>6. Carried'
  BY <1>1, <1>3, <1>4, <1>5, AppendCarries
<1>7. Frame' /\ RaisedStaysOpen' /\ TalkFits'
  BY <1>1, <1>5 DEF PostMessage, Frame, RaisedStaysOpen, TalkFits, OpenBlocking
<1>8. HasReason'
  <2>1. OpenBlocking' = OpenBlocking
    BY <1>5 DEF OpenBlocking
  <2>2. (\E k \in DOMAIN cmd : cmd[k].kind # "message") => \E k \in DOMAIN cmd' : cmd'[k].kind # "message"
    BY <1>1, <1>3, Appended DEF Carried
  <2> QED
    BY <1>1, <2>1, <2>2 DEF PostMessage, HasReason
<1> QED
  BY <1>6, <1>7, <1>8, PartsNext

LEMMA ResolveNonBlockingTalk ==
  ASSUME TalkInv, NEW i \in Ids, ResolveNonBlocking(i) PROVE TalkInv'
<1>1. Carried /\ Frame /\ RaisedStaysOpen /\ HasReason /\ TalkFits
  BY Parts
<1> DEFINE b == Resolution(i, "note")
<1>2. /\ b \in IssueRow /\ b.status = "RESOLVED" /\ b.kind = "note" /\ b.sent = issue[i].sent
      /\ b.heard = issue[i].heard /\ b.told = issue[i].told /\ b.replies = issue[i].replies
      /\ b.blocking = FALSE /\ issue[i].status = "OPEN" /\ issue[i].blocking = FALSE /\ issue[i].kind = "none"
  <2>1. issue[i] \in IssueRow /\ issue[i].status = "OPEN" /\ issue[i].blocking = FALSE /\ issue[i].kind = "none"
    BY <1>1 DEF ResolveNonBlocking, Carried, IssueRow
  <2> QED
    BY <2>1 DEF Resolution, IssueRow
<1>3. issue' = [issue EXCEPT ![i] = b]
  BY DEF ResolveNonBlocking, WithResolution
<1> HIDE DEF b
<1>4. /\ issue' \in [Ids -> IssueRow] /\ issue'[i] = b
      /\ \A j \in Ids : j # i => issue'[j] = issue[j]
  BY <1>1, <1>2, <1>3, RowSet DEF Carried
<1>5. Carried'
  <2>1. Moves({}) /\ Shrinks(cmd, cmd', {})
    BY <1>1, <1>2, <1>4, Relabels DEF Moves, Carried, ResolveNonBlocking
  <2> QED
    BY <1>1, <2>1, MovesCarries
<1>6. OpenBlocking' = OpenBlocking
  BY <1>2, <1>4 DEF OpenBlocking
<1>7. Frame' /\ RaisedStaysOpen' /\ HasReason' /\ TalkFits'
  BY <1>1, <1>2, <1>4, <1>6 DEF ResolveNonBlocking, Frame, RaisedStaysOpen, TalkFits, HasReason
<1> QED
  BY <1>5, <1>7, PartsNext

LEMMA ClarificationTalk ==
  ASSUME TalkInv, NEW i \in Ids, ResolveAsClarification(i) PROVE TalkInv'
<1>1. Carried /\ Frame /\ RaisedStaysOpen /\ HasReason /\ TalkFits
  BY Parts
<1> DEFINE b == Resolution(i, "clarification")
           c == [kind |-> "decision", issue |-> i, claimed |-> FALSE]
<1>2. /\ b \in IssueRow /\ b.status = "RESOLVED" /\ b.kind = "clarification" /\ b.sent = issue[i].sent
      /\ b.heard = issue[i].heard /\ b.told = issue[i].told /\ b.replies = issue[i].replies
      /\ issue[i].kind = "none"
  <2>1. issue[i] \in IssueRow /\ issue[i].status = "OPEN" /\ issue[i].kind = "none"
    BY <1>1 DEF ResolveAsClarification, Carried
  <2> QED
    BY <2>1 DEF Resolution, IssueRow
<1>3. /\ c \in Command /\ cmd' = Append(cmd, c) /\ c.issue # 0 /\ c.kind = "decision" /\ c.issue = i
      /\ issue' = [issue EXCEPT ![i] = b]
  BY DEF ResolveAsClarification, WithResolution, Enqueue, Command, Ids
<1> HIDE DEF b, c
<1>4. /\ issue' \in [Ids -> IssueRow] /\ issue'[i] = b
      /\ \A j \in Ids : j # i => issue'[j] = issue[j]
  BY <1>1, <1>2, <1>3, RowSet DEF Carried
<1>5. \A j \in Ids :
           /\ issue'[j].heard = issue[j].heard /\ issue'[j].told = issue[j].told
           /\ issue'[j].sent = issue[j].sent + (IF c.kind = "message" /\ c.issue = j THEN 1 ELSE 0)
           /\ issue[j].kind = "clarification" => issue'[j].kind = "clarification"
           /\ issue'[j].kind # "none" <=> issue'[j].status = "RESOLVED"
           /\ issue'[j].status = "none" => issue'[j] = NoIssue
           /\ issue'[j].replies = issue[j].replies
  <2>1. ASSUME NEW j \in Ids
        PROVE  issue'[j].sent = issue[j].sent + (IF c.kind = "message" /\ c.issue = j THEN 1 ELSE 0)
    BY <1>1, <1>2, <1>3, <1>4, <2>1, RowNumbers DEF Carried
  <2> QED
    BY <1>1, <1>2, <1>3, <1>4, <2>1 DEF Carried
<1>6. Carried'
  BY <1>1, <1>2, <1>3, <1>4, <1>5, AppendCarries
<1>7. exec' = exec /\ Waiting /\ run' = run
  BY DEF ResolveAsClarification, AnswerAllowed
<1>8. Frame' /\ RaisedStaysOpen' /\ TalkFits'
  BY <1>1, <1>5, <1>7 DEF ResolveAsClarification, Frame, RaisedStaysOpen, TalkFits
<1>9. HasReason'
  <2>1. \E k \in DOMAIN cmd' : cmd'[k].kind # "message"
    BY <1>1, <1>3, Appended DEF Carried
  <2> QED
    BY <2>1 DEF HasReason
<1> QED
  BY <1>6, <1>8, <1>9, PartsNext

LEMMA RevisionTalk ==
  ASSUME TalkInv, NEW i \in Ids, ResolveAsRevision(i) PROVE TalkInv'
<1>1. Carried /\ Frame /\ RaisedStaysOpen /\ HasReason /\ TalkFits
  BY Parts
<1> DEFINE b == Resolution(i, "spec_revision")
           s(j) == [issue[j] EXCEPT !.status = "SUPERSEDED"]
<1>2. ASSUME NEW j \in Ids
      PROVE  /\ issue[j] \in IssueRow
             /\ issue[j].status = "OPEN" => issue[j].kind = "none"
             /\ s(j) \in IssueRow /\ s(j).status = "SUPERSEDED" /\ s(j).kind = issue[j].kind
             /\ s(j).sent = issue[j].sent /\ s(j).heard = issue[j].heard /\ s(j).told = issue[j].told
             /\ s(j).replies = issue[j].replies
  <2>1. issue[j] \in IssueRow /\ (issue[j].status = "OPEN" => issue[j].kind = "none")
    BY <1>1 DEF Carried
  <2> QED
    BY <2>1 DEF IssueRow
<1>3. /\ b \in IssueRow /\ b.status = "RESOLVED" /\ b.kind = "spec_revision" /\ b.sent = issue[i].sent
      /\ b.heard = issue[i].heard /\ b.told = issue[i].told /\ b.replies = issue[i].replies
      /\ issue[i].kind = "none"
  <2>1. issue[i] \in IssueRow /\ issue[i].status = "OPEN" /\ issue[i].kind = "none"
    BY <1>1 DEF ResolveAsRevision, Carried
  <2> QED
    BY <2>1 DEF Resolution, IssueRow
<1>4. \A j \in Ids : issue'[j] = IF j = i THEN b ELSE IF Open(j) THEN s(j) ELSE issue[j]
  BY DEF ResolveAsRevision, Superseded
<1>5. issue' = [j \in Ids |-> IF j = i THEN b ELSE IF Open(j) THEN s(j) ELSE issue[j]]
  BY DEF ResolveAsRevision, Superseded
<1> HIDE DEF b, s
<1>6. Carried'
  <2>1. issue' \in [Ids -> IssueRow]
    <3>1. \A j \in Ids : (IF j = i THEN b ELSE IF Open(j) THEN s(j) ELSE issue[j]) \in IssueRow
      BY <1>2, <1>3
    <3> QED
      BY <1>5, <3>1
  <2>2. Moves({})
    BY <1>1, <1>2, <1>3, <1>4, <2>1 DEF Moves, Carried
  <2>3. Shrinks(cmd, cmd', {})
    BY <1>1, Relabels DEF Carried, ResolveAsRevision
  <2> QED
    BY <1>1, <2>2, <2>3, MovesCarries
<1>7. Frame' /\ RaisedStaysOpen' /\ HasReason'
  BY <1>1 DEF ResolveAsRevision, Frame, RaisedStaysOpen, HasReason
<1>8. TalkFits'
  BY <1>1, <1>2, <1>3, <1>4 DEF ResolveAsRevision, TalkFits
<1> QED
  BY <1>6, <1>7, <1>8, PartsNext

LEMMA RequestReviewTalk ==
  ASSUME TalkInv, RequestReview PROVE TalkInv'
BY DEF RequestReview, TalkInv, TypeOK, RowsFit, HeardOnce, OnItsWay, RaisedStaysOpen, HasReason, ToldNext,
       ToldOnce, TalkFits, OpenBlocking

LEMMA ApproveTalk ==
  ASSUME TalkInv, Approve PROVE TalkInv'
<1>1. Carried /\ Frame /\ RaisedStaysOpen /\ HasReason /\ TalkFits
  BY Parts
<1> DEFINE c == [kind |-> "revision", issue |-> 0, claimed |-> FALSE]
<1>2. c \in Command /\ c.issue = 0 /\ c.kind = "revision"
  BY DEF Command
<1>3. (Waiting /\ cmd' = Append(cmd, c)) \/ (~Waiting /\ cmd' = cmd)
  <2>1. (Waiting /\ cmd' = Enqueue("revision", 0)) \/ (~Waiting /\ cmd' = cmd)
    BY DEF Approve
  <2>2. Enqueue("revision", 0) = Append(cmd, c)
    BY DEF Enqueue
  <2> QED
    BY <2>1, <2>2
<1> HIDE DEF c
<1>4. issue' = issue /\ exec' = exec /\ run' = run /\ faults' = faults
  BY DEF Approve
<1>5. Carried'
  <2>1. ASSUME cmd' = Append(cmd, c) PROVE Carried'
    <3>1. \A j \in Ids : issue[j].sent \in Nat
      BY <1>1, RowNumbers DEF Carried
    <3> QED
      BY <1>1, <1>2, <1>4, <2>1, <3>1, AppendCarries DEF Carried
  <2>2. ASSUME cmd' = cmd PROVE Carried'
    BY <1>1, <1>4, <2>2 DEF Carried, HeardOnce, OnItsWay, ToldNext, ToldOnce
  <2> QED
    BY <1>3, <2>1, <2>2
<1>6. Frame' /\ RaisedStaysOpen' /\ TalkFits'
  BY <1>1, <1>4 DEF Approve, Frame, RaisedStaysOpen, TalkFits, OpenBlocking
<1>7. HasReason'
  <2>1. Waiting => \E k \in DOMAIN cmd' : cmd'[k].kind # "message"
    BY <1>1, <1>2, <1>3, Appended DEF Carried
  <2> QED
    BY <1>4, <2>1 DEF HasReason
<1> QED
  BY <1>5, <1>6, <1>7, PartsNext

LEMMA CancelTalk ==
  ASSUME TalkInv, Cancel PROVE TalkInv'
BY DEF Cancel, TalkInv, TypeOK, RowsFit, HeardOnce, OnItsWay, RaisedStaysOpen, HasReason, ToldNext,
       ToldOnce, TalkFits, OpenBlocking

LEMMA UserTalk == ASSUME TalkInv, User PROVE TalkInv'
BY PostMessageTalk, ResolveNonBlockingTalk, ClarificationTalk, RevisionTalk, RequestReviewTalk, ApproveTalk,
   CancelTalk DEF User

LEMMA RaiseTalk ==
  ASSUME TalkInv, NEW i \in Ids, NEW blocking \in BOOLEAN, RaiseIssue(i, blocking) PROVE TalkInv'
<1>1. Carried /\ Frame /\ RaisedStaysOpen /\ HasReason /\ TalkFits
  BY Parts
<1> DEFINE b == Raised(blocking)
<1>2. /\ b \in IssueRow /\ b.status = "OPEN" /\ b.kind = "none" /\ b.blocking = blocking
      /\ b.sent = 0 /\ b.heard = 0 /\ b.told = 0 /\ b.replies = 0
  BY DEF Raised, NoIssue, IssueRow
<1>3. /\ issue[i].status = "none" /\ issue[i].kind = "none" /\ issue[i].sent = 0 /\ issue[i].heard = 0
      /\ issue[i].told = 0 /\ issue[i].replies = 0
  BY <1>1 DEF RaiseIssue, Carried, NoIssue
<1>4. issue' = [issue EXCEPT ![i] = b]
  BY DEF RaiseIssue
<1> HIDE DEF b
<1>5. /\ issue' \in [Ids -> IssueRow] /\ issue'[i] = b
      /\ \A j \in Ids : j # i => issue'[j] = issue[j]
  BY <1>1, <1>2, <1>4, RowSet DEF Carried
<1>6. Carried'
  <2>1. Moves({}) /\ Shrinks(cmd, cmd', {})
    BY <1>1, <1>2, <1>3, <1>5, Relabels DEF Moves, Carried, RaiseIssue
  <2> QED
    BY <1>1, <2>1, MovesCarries
<1>7. exec' = exec /\ exec.state = "RUNNING" /\ run' = [run EXCEPT !.pending = @ \/ blocking]
      /\ task' = task /\ approved' = approved /\ draft' = draft /\ faults' = faults
  BY DEF RaiseIssue, InTurn
<1>8. Frame' /\ HasReason'
  BY <1>1, <1>7 DEF Frame, HasReason
<1>9. RaisedStaysOpen'
  <2>1. OpenBlocking # {} => OpenBlocking' # {}
    BY <1>3, <1>5 DEF OpenBlocking
  <2>2. blocking => OpenBlocking' # {}
    BY <1>2, <1>5 DEF OpenBlocking
  <2>3. run'.pending => run.pending \/ blocking
    BY <1>1, <1>7 DEF Frame
  <2> QED
    BY <1>1, <1>7, <2>1, <2>2, <2>3 DEF RaisedStaysOpen
<1>10. TalkFits'
  <2>1. run'.talk = run.talk /\ run'.phase = run.phase
    BY <1>1, <1>7 DEF Frame
  <2>2. run'.talk # 0 /\ exec'.state = "RUNNING" /\ issue'[run'.talk].blocking => issue'[run'.talk].status = "OPEN"
    <3>1. run.talk \in Ids \cup {0}
      BY <1>1 DEF Frame
    <3> QED
      BY <1>1, <1>2, <1>5, <1>7, <2>1, <3>1 DEF TalkFits
  <2>3. \A j \in Ids : issue'[j].replies = issue[j].replies /\ issue'[j].heard = issue[j].heard
    BY <1>2, <1>3, <1>5
  <2> QED
    BY <1>1, <2>1, <2>2, <2>3 DEF TalkFits
<1> QED
  BY <1>6, <1>8, <1>9, <1>10, PartsNext

LEMMA ReportTalk ==
  ASSUME TalkInv, ReportPrCreated PROVE TalkInv'
BY DEF ReportPrCreated, InTurn, TalkInv, TypeOK, RowsFit, HeardOnce, OnItsWay, RaisedStaysOpen, HasReason,
       ToldNext, ToldOnce, TalkFits, OpenBlocking

LEMMA TurnEndsTalk ==
  ASSUME TalkInv, TurnEnds PROVE TalkInv'
BY DEF TurnEnds, rows, TalkInv, TypeOK, RowsFit, HeardOnce, OnItsWay, RaisedStaysOpen, HasReason,
       ToldNext, ToldOnce, TalkFits, OpenBlocking

LEMMA AgentTalk == ASSUME TalkInv, Agent PROVE TalkInv'
BY RaiseTalk, ReportTalk, TurnEndsTalk DEF Agent

LEMMA ForgetTalk ==
  ASSUME TalkInv, Forget PROVE TalkInv'
<1>1. Carried /\ Frame /\ RaisedStaysOpen /\ HasReason /\ TalkFits
  BY Parts
<1>2. /\ run.phase = "closing" /\ run' = [run EXCEPT !.phase = "idle", !.talk = 0, !.pending = FALSE]
      /\ UNCHANGED <<task, approved, draft, exec, issue, cmd, faults>>
  BY DEF Forget, rows
<1>3. /\ run'.phase = "idle" /\ run'.talk = 0 /\ run'.pending = FALSE /\ run'.cmd = run.cmd
      /\ run' \in [phase : {"idle", "loading", "turn", "ended", "closing"}, talk : Ids \cup {0},
                   pending : BOOLEAN, cmd : Nat]
  BY <1>1, <1>2 DEF Frame
<1>4. Carried'
  BY <1>1, <1>2 DEF Carried, HeardOnce, OnItsWay, ToldNext, ToldOnce
<1>5. Frame'
  BY <1>1, <1>2, <1>3 DEF Frame
<1>6. RaisedStaysOpen' /\ HasReason'
  BY <1>1, <1>2, <1>3 DEF RaisedStaysOpen, HasReason, OpenBlocking
<1>7. TalkFits'
  BY <1>1, <1>2, <1>3 DEF TalkFits
<1> QED
  BY <1>4, <1>5, <1>6, <1>7, PartsNext

LEMMA AfterTurnTalk ==
  ASSUME TalkInv, AfterTurn PROVE TalkInv'
<1>1. Carried /\ Frame /\ RaisedStaysOpen /\ HasReason /\ TalkFits
  BY Parts
<1>2. /\ run.phase = "ended" /\ run' = [run EXCEPT !.phase = "closing"]
      /\ exec' = [exec EXCEPT !.state = AfterTurnState]
      /\ UNCHANGED <<task, approved, draft, cmd, faults>>
  BY DEF AfterTurn
<1>3. /\ exec'.state = AfterTurnState /\ exec'.rev = exec.rev /\ run'.phase = "closing"
      /\ run'.talk = run.talk /\ run'.pending = run.pending /\ run'.cmd = run.cmd
  BY <1>1, <1>2 DEF Frame
<1>4. /\ exec.state # "RUNNING" => exec'.state = exec.state
      /\ exec.state = "RUNNING" => \/ exec'.state = "WAITING_FOR_USER" /\ (run.pending \/ Holding)
                                   \/ exec'.state = "FAILED"
  BY <1>3 DEF AfterTurnState
\* The reply is owed
<1>5. /\ issue' \in [Ids -> IssueRow]
      /\ \A j \in Ids :
           /\ issue'[j].heard = issue[j].heard /\ issue'[j].told = issue[j].told
           /\ issue'[j].sent = issue[j].sent /\ issue'[j].kind = issue[j].kind
           /\ issue'[j].status = issue[j].status /\ issue'[j].blocking = issue[j].blocking
           /\ issue'[j].status = "none" => issue'[j] = NoIssue
           /\ \/ issue'[j].replies = issue[j].replies
              \/ j = run.talk /\ issue'[j].replies = issue[j].replies + 1
  <2>1. CASE issue' = issue
    BY <1>1, <2>1 DEF Carried
  <2>2. CASE run.talk # 0 /\ Open(run.talk) /\ issue' = WithReply(run.talk)
    <3> DEFINE i == run.talk
               b == [issue[i] EXCEPT !.replies = @ + 1]
    <3>1. i \in Ids /\ issue[i] \in IssueRow /\ issue[i].replies + 1 \in Nat /\ issue[i].status = "OPEN"
      BY <1>1, <2>2, RowNumbers DEF Frame, Carried
    <3>2. /\ b \in IssueRow /\ b.status = issue[i].status /\ b.blocking = issue[i].blocking
          /\ b.kind = issue[i].kind /\ b.sent = issue[i].sent /\ b.heard = issue[i].heard
          /\ b.told = issue[i].told /\ b.replies = issue[i].replies + 1
      BY <3>1 DEF IssueRow
    <3>3. issue' = [issue EXCEPT ![i] = b]
      BY <2>2 DEF WithReply
    <3> HIDE DEF b
    <3>4. /\ issue' \in [Ids -> IssueRow] /\ issue'[i] = b
          /\ \A j \in Ids : j # i => issue'[j] = issue[j]
      BY <1>1, <3>1, <3>2, <3>3, RowSet DEF Carried
    <3> QED
      BY <1>1, <3>1, <3>2, <3>4 DEF Carried
  <2> QED
    BY <2>1, <2>2 DEF AfterTurn, CaptureReply, Replied
<1>6. Carried'
  <2>1. Moves({}) /\ Shrinks(cmd, cmd', {})
    BY <1>1, <1>2, <1>5, Relabels DEF Moves, Carried
  <2> QED
    BY <1>1, <2>1, MovesCarries
<1>7. Frame'
  <2>1. AfterTurnState \in {"RUNNING", "WAITING_FOR_USER", "COMPLETED", "FAILED", "CANCELLED"}
    BY <1>1, <1>3, <1>4 DEF Frame
  <2>2. exec'.state # "RUNNING"
    BY <1>4
  <2> QED
    BY <1>1, <1>2, <1>3, <2>1, <2>2 DEF Frame
<1>8. OpenBlocking' = OpenBlocking
  BY <1>5 DEF OpenBlocking
<1>9. RaisedStaysOpen' /\ HasReason'
  <2>1. exec'.state # "RUNNING"
    BY <1>4
  <2>2. exec'.state = "WAITING_FOR_USER" => exec.state = "WAITING_FOR_USER" \/ OpenBlocking # {}
    BY <1>1, <1>4 DEF RaisedStaysOpen, Holding
  <2> QED
    BY <1>1, <1>2, <1>8, <2>1, <2>2 DEF RaisedStaysOpen, HasReason
<1>10. TalkFits'
  <2>1. ASSUME NEW j \in Ids PROVE issue'[j].replies <= issue'[j].heard
    <3>1. issue[j].replies \in Nat /\ issue[j].heard \in Nat
      BY <1>1, RowNumbers DEF Carried
    <3> QED
      BY <1>1, <1>2, <1>5, <3>1 DEF TalkFits
  <2> QED
    BY <1>3, <1>4, <2>1 DEF TalkFits
<1> QED
  BY <1>6, <1>7, <1>9, <1>10, PartsNext

-----------------------------------------------------------------------------
(* Commands: they are relabelled and carried out                           *)

LEMMA TickRelabels ==
  ASSUME cmd \in Seq(Command), Tick PROVE Shrinks(cmd, cmd', {})
<1>1. cmd' = [k \in DOMAIN cmd |-> [cmd[k] EXCEPT !.claimed = TRUE]]
  BY DEF Tick
<1>2. ASSUME NEW k \in DOMAIN cmd
      PROVE  /\ cmd'[k] \in Command /\ cmd'[k].kind = cmd[k].kind /\ cmd'[k].issue = cmd[k].issue
  <2>1. cmd[k] \in Command /\ cmd'[k] = [cmd[k] EXCEPT !.claimed = TRUE]
    BY <1>1, SeqDomain
  <2> QED
    BY <2>1 DEF Command
<1>3. DOMAIN cmd' = DOMAIN cmd /\ DOMAIN cmd = 1 .. Len(cmd) /\ Len(cmd) \in Nat
  BY <1>1, SeqDomain
<1>4. cmd' \in Seq(Command)
  <2>1. cmd' \in [1 .. Len(cmd) -> Command]
    BY <1>1, <1>2, <1>3
  <2> QED
    BY <1>3, <2>1
<1> QED
  BY <1>2, <1>3, <1>4, Relabels

LEMMA UnclaimRelabels ==
  ASSUME cmd \in Seq(Command), NEW k \in DOMAIN cmd, Unclaim(k) PROVE Shrinks(cmd, cmd', {})
<1> DEFINE b == [cmd[k] EXCEPT !.claimed = FALSE]
<1>1. /\ DOMAIN cmd = 1 .. Len(cmd) /\ Len(cmd) \in Nat /\ b \in Command
      /\ b.kind = cmd[k].kind /\ b.issue = cmd[k].issue
  <2>1. cmd[k] \in Command
    BY SeqDomain
  <2> QED
    BY <2>1, SeqDomain DEF Command
<1>2. cmd' = [cmd EXCEPT ![k] = b]
  BY DEF Unclaim
<1> HIDE DEF b
<1>3. cmd' \in Seq(Command) /\ DOMAIN cmd' = DOMAIN cmd /\ cmd'[k] = b /\ \A l \in DOMAIN cmd : l # k => cmd'[l] = cmd[l]
  BY <1>1, <1>2
<1> QED
  BY <1>1, <1>3, Relabels

LEMMA CompleteRemoves ==
  ASSUME cmd \in Seq(Command), NEW k \in DOMAIN cmd, CompleteCommand(k) PROVE Shrinks(cmd, cmd', {k})
BY RemovesOne DEF CompleteCommand

\* A command that is relabelled or carried out while no issue moves.
LEMMA Untouched ==
  ASSUME Carried, issue' = issue, NEW G, Shrinks(cmd, cmd', G) PROVE Carried'
<1>1. Moves(G)
  BY DEF Carried, Moves
<1> QED
  BY <1>1, MovesCarries

LEMMA TickTalk ==
  ASSUME TalkInv, Tick PROVE TalkInv'
<1>1. Carried /\ Frame /\ RaisedStaysOpen /\ HasReason /\ TalkFits /\ Shrinks(cmd, cmd', {})
  BY Parts, TickRelabels DEF Carried
<1>2. UNCHANGED <<task, approved, draft, exec, issue, run, faults>>
  BY DEF Tick
<1>3. Carried'
  BY <1>1, <1>2, Untouched
<1>4. Frame' /\ RaisedStaysOpen' /\ TalkFits'
  BY <1>1, <1>2 DEF Frame, RaisedStaysOpen, TalkFits, OpenBlocking
<1>5. HasReason'
  BY <1>1, <1>2, Survives DEF HasReason, OpenBlocking
<1> QED
  BY <1>3, <1>4, <1>5, PartsNext

LEMMA TurnInFlightTalk ==
  ASSUME TalkInv, NEW k \in DOMAIN cmd, TurnInFlight(k) PROVE TalkInv'
<1>1. Carried /\ Frame /\ RaisedStaysOpen /\ HasReason /\ TalkFits /\ Shrinks(cmd, cmd', {})
  BY Parts, UnclaimRelabels DEF Carried, TurnInFlight
<1>2. UNCHANGED <<task, approved, draft, exec, issue, run, faults>>
  BY DEF TurnInFlight
<1>3. Carried'
  BY <1>1, <1>2, Untouched
<1>4. Frame' /\ RaisedStaysOpen' /\ TalkFits'
  BY <1>1, <1>2 DEF Frame, RaisedStaysOpen, TalkFits, OpenBlocking
<1>5. HasReason'
  BY <1>1, <1>2, Survives DEF HasReason, OpenBlocking
<1> QED
  BY <1>3, <1>4, <1>5, PartsNext

\* Only a message can be skipped while its execution waits.
LEMMA SkipTalk ==
  ASSUME TalkInv, NEW k \in DOMAIN cmd, Skip(k) PROVE TalkInv'
<1>1. Carried /\ Frame /\ RaisedStaysOpen /\ HasReason /\ TalkFits /\ Shrinks(cmd, cmd', {k})
  BY Parts, CompleteRemoves DEF Carried, Skip
<1>2. UNCHANGED <<task, approved, draft, exec, issue, run, faults>>
  BY DEF Skip
<1>3. Carried'
  BY <1>1, <1>2, Untouched
<1>4. Frame' /\ RaisedStaysOpen' /\ TalkFits'
  BY <1>1, <1>2 DEF Frame, RaisedStaysOpen, TalkFits, OpenBlocking
<1>5. Waiting => cmd[k].kind = "message"
  BY DEF Skip, Resumable, StillOpen
<1>6. HasReason'
  BY <1>1, <1>2, <1>5, Survives DEF HasReason, OpenBlocking
<1> QED
  BY <1>3, <1>4, <1>6, PartsNext

LEMMA BeginResumeTalk ==
  ASSUME TalkInv, NEW k \in DOMAIN cmd, BeginResume(k) PROVE TalkInv'
<1>1. Carried /\ Frame /\ RaisedStaysOpen /\ HasReason /\ TalkFits
  BY Parts
<1>2. /\ run.phase = "idle" /\ Waiting /\ run' = [run EXCEPT !.phase = "loading", !.cmd = k]
      /\ UNCHANGED <<task, approved, draft, exec, issue, cmd, faults>>
  BY DEF BeginResume, Resumable, rows
<1>3. k \in Nat /\ k # 0
  BY <1>1, SeqDomain DEF Carried
<1>4. /\ run'.phase = "loading" /\ run'.cmd = k /\ run'.talk = run.talk /\ run'.pending = run.pending
      /\ run' \in [phase : {"idle", "loading", "turn", "ended", "closing"}, talk : Ids \cup {0},
                   pending : BOOLEAN, cmd : Nat]
  BY <1>1, <1>2, <1>3 DEF Frame
<1>5. Carried'
  BY <1>1, <1>2 DEF Carried, HeardOnce, OnItsWay, ToldNext, ToldOnce
<1>6. Frame'
  BY <1>1, <1>2, <1>3, <1>4 DEF Frame
<1>7. RaisedStaysOpen' /\ HasReason'
  BY <1>1, <1>2, <1>4 DEF RaisedStaysOpen, HasReason, OpenBlocking
<1>8. TalkFits'
  BY <1>1, <1>2, <1>4 DEF TalkFits
<1> QED
  BY <1>5, <1>6, <1>7, <1>8, PartsNext

LEMMA RefusedTalk ==
  ASSUME TalkInv, NEW k \in DOMAIN cmd, Refused(k) PROVE TalkInv'
<1>1. Carried /\ Frame /\ RaisedStaysOpen /\ HasReason /\ TalkFits /\ Shrinks(cmd, cmd', {k})
  BY Parts, CompleteRemoves DEF Carried, Refused
<1>2. /\ run.phase = "loading" /\ run' = Idle /\ exec.state # "RUNNING"
      /\ UNCHANGED <<task, approved, draft, exec, issue, faults>>
  BY <1>1 DEF Refused, Resuming, Frame
<1>3. Carried'
  BY <1>1, <1>2, Untouched
<1>4. Frame' /\ RaisedStaysOpen' /\ TalkFits'
  BY <1>1, <1>2 DEF Frame, RaisedStaysOpen, TalkFits, OpenBlocking, Idle
<1>5. Waiting => cmd[k].kind = "message"
  BY DEF Refused, StillOpen
<1>6. HasReason'
  BY <1>1, <1>2, <1>5, Survives DEF HasReason, OpenBlocking
<1> QED
  BY <1>3, <1>4, <1>6, PartsNext

LEMMA SessionLostTalk ==
  ASSUME TalkInv, NEW k \in DOMAIN cmd, SessionLost(k) PROVE TalkInv'
<1>1. Carried /\ Frame /\ RaisedStaysOpen /\ HasReason /\ TalkFits /\ Shrinks(cmd, cmd', {k})
  BY Parts, CompleteRemoves DEF Carried, SessionLost
<1>2. /\ run.phase = "loading" /\ run' = Idle /\ exec.state # "RUNNING"
      /\ faults' = faults + 1 /\ faults < MaxFaults
      /\ UNCHANGED <<task, approved, draft, exec, issue>>
  BY <1>1 DEF SessionLost, Resuming, Frame
<1>3. Carried'
  BY <1>1, <1>2, Untouched
<1>4. faults' \in 0 .. MaxFaults /\ faults' # 0
  BY <1>1, <1>2, IssuesAssumption DEF Frame
<1>5. Frame' /\ RaisedStaysOpen' /\ TalkFits' /\ HasReason'
  BY <1>1, <1>2, <1>4 DEF Frame, RaisedStaysOpen, TalkFits, HasReason, OpenBlocking, Idle
<1> QED
  BY <1>3, <1>5, PartsNext

LEMMA ResumedTalk ==
  ASSUME TalkInv, NEW k \in DOMAIN cmd, Resumed(k) PROVE TalkInv'
<1>1. Carried /\ Frame /\ RaisedStaysOpen /\ HasReason /\ TalkFits /\ Shrinks(cmd, cmd', {k})
  BY Parts, CompleteRemoves DEF Carried, Resumed
<1> DEFINE c == cmd[k]
<1>2. /\ c \in Command /\ c.issue \in Ids \cup {0} /\ c.kind \in {"message", "decision", "revision"}
      /\ c.issue = 0 <=> c.kind = "revision"
  <2>1. c \in Command
    BY <1>1, SeqDomain DEF Carried
  <2> QED
    BY <1>1, <2>1 DEF Command, Carried
<1>3. /\ run.phase = "loading" /\ exec.state # "RUNNING" /\ issue' = Told(c)
      /\ c.kind = "message" => issue[c.issue].status = "OPEN"
      /\ exec' = [state |-> "RUNNING", rev |-> RunsOn(c)]
      /\ run' = [phase |-> "turn", pending |-> FALSE, cmd |-> 0,
                 talk |-> IF c.kind = "message" THEN c.issue ELSE 0]
      /\ UNCHANGED <<task, approved, draft, faults>>
  BY <1>1 DEF Resumed, Resuming, StillOpen, Frame
<1> HIDE DEF c
<1>4. /\ issue' \in [Ids -> IssueRow]
      /\ \A j \in Ids :
           /\ issue'[j].sent = issue[j].sent /\ issue'[j].kind = issue[j].kind
           /\ issue'[j].status = issue[j].status /\ issue'[j].blocking = issue[j].blocking
           /\ issue'[j].replies = issue[j].replies
           /\ issue'[j].heard = issue[j].heard + (IF c.kind = "message" /\ c.issue = j THEN 1 ELSE 0)
           /\ issue'[j].told = issue[j].told + (IF c.kind = "decision" /\ c.issue = j THEN 1 ELSE 0)
           /\ issue'[j].status = "none" => issue'[j] = NoIssue
  <2>1. \A j \in Ids : issue[j] \in IssueRow /\ issue[j].heard \in Nat /\ issue[j].told \in Nat
    BY <1>1, RowNumbers DEF Carried
  <2>2. CASE c.kind = "message"
    <3> DEFINE i == c.issue
               b == [issue[i] EXCEPT !.heard = @ + 1]
    <3>1. i \in Ids /\ issue[i] \in IssueRow /\ issue[i].heard + 1 \in Nat /\ issue[i].status = "OPEN"
      BY <1>2, <1>3, <2>1, <2>2
    <3>2. /\ b \in IssueRow /\ b.status = issue[i].status /\ b.blocking = issue[i].blocking
          /\ b.kind = issue[i].kind /\ b.sent = issue[i].sent /\ b.heard = issue[i].heard + 1
          /\ b.told = issue[i].told /\ b.replies = issue[i].replies
      BY <3>1 DEF IssueRow
    <3>3. issue' = [issue EXCEPT ![i] = b]
      BY <1>3, <2>2 DEF Told, Heard
    <3> HIDE DEF b
    <3>4. /\ issue' \in [Ids -> IssueRow] /\ issue'[i] = b
          /\ \A j \in Ids : j # i => issue'[j] = issue[j]
      BY <1>1, <3>1, <3>2, <3>3, RowSet DEF Carried
    <3> QED
      BY <1>1, <2>1, <2>2, <3>1, <3>2, <3>4 DEF Carried
  <2>3. CASE c.kind = "decision"
    <3> DEFINE i == c.issue
               b == [issue[i] EXCEPT !.told = @ + 1]
    <3>1. i \in Ids /\ issue[i] \in IssueRow /\ issue[i].told + 1 \in Nat /\ issue[i].status # "none"
      <4>1. issue[i].kind = "clarification"
        BY <1>1, <2>3 DEF Carried, ToldNext, c
      <4>2. i \in Ids
        BY <1>2, <2>3
      <4> QED
        BY <1>1, <2>1, <4>1, <4>2 DEF Carried
    <3>2. /\ b \in IssueRow /\ b.status = issue[i].status /\ b.blocking = issue[i].blocking
          /\ b.kind = issue[i].kind /\ b.sent = issue[i].sent /\ b.heard = issue[i].heard
          /\ b.told = issue[i].told + 1 /\ b.replies = issue[i].replies
      BY <3>1 DEF IssueRow
    <3>3. issue' = [issue EXCEPT ![i] = b]
      BY <1>3, <2>3 DEF Told, Decided
    <3> HIDE DEF b
    <3>4. /\ issue' \in [Ids -> IssueRow] /\ issue'[i] = b
          /\ \A j \in Ids : j # i => issue'[j] = issue[j]
      BY <1>1, <3>1, <3>2, <3>3, RowSet DEF Carried
    <3> QED
      BY <1>1, <2>1, <2>3, <3>1, <3>2, <3>4 DEF Carried
  <2>4. CASE c.kind = "revision"
    <3>1. issue' = issue
      BY <1>3, <2>4 DEF Told
    <3> QED
      BY <1>1, <2>1, <2>4, <3>1 DEF Carried
  <2> QED
    BY <1>2, <2>2, <2>3, <2>4
<1>5. Carried'
  <2>1. Moves({k})
    <3>1. \A j \in Ids : issue[j] \in IssueRow /\ issue[j].heard \in Nat /\ issue[j].told \in Nat
      BY <1>1, RowNumbers DEF Carried
    <3>2. ASSUME NEW j \in Ids
          PROVE  /\ \/ issue'[j].heard = issue[j].heard
                    \/ issue'[j].heard = issue[j].heard + 1 /\ About(cmd, k, "message", j)
                 /\ \/ issue'[j].told = issue[j].told
                    \/ issue'[j].told = issue[j].told + 1 /\ About(cmd, k, "decision", j)
      BY <1>4, <3>1 DEF About, c
    <3>3. ASSUME NEW j \in Ids PROVE issue'[j].kind # "none" <=> issue'[j].status = "RESOLVED"
      BY <1>1, <1>4 DEF Carried
    <3> QED
      BY <1>4, <3>2, <3>3 DEF Moves
  <2> QED
    BY <1>1, <2>1, MovesCarries
<1>6. /\ exec'.state = "RUNNING" /\ exec'.rev \in {approved, exec.rev} /\ run'.phase = "turn"
      /\ run'.pending = FALSE /\ run'.cmd = 0 /\ run'.talk = IF c.kind = "message" THEN c.issue ELSE 0
  BY <1>3 DEF RunsOn
<1>7. Frame'
  <2>1. exec'.rev \in 1 .. approved /\ exec'.rev \in Nat /\ approved \in Nat
    BY <1>1, <1>6 DEF Frame
  <2>2. exec' \in [state : {"RUNNING", "WAITING_FOR_USER", "COMPLETED", "FAILED", "CANCELLED"}, rev : Nat]
    BY <1>3, <1>6, <2>1
  <2>3. run' \in [phase : {"idle", "loading", "turn", "ended", "closing"}, talk : Ids \cup {0},
                  pending : BOOLEAN, cmd : Nat]
    BY <1>2, <1>3
  <2> QED
    BY <1>1, <1>3, <1>6, <2>1, <2>2, <2>3 DEF Frame
<1>8. RaisedStaysOpen' /\ HasReason'
  BY <1>6 DEF RaisedStaysOpen, HasReason
<1>9. TalkFits'
  <2>1. run'.talk # 0 => c.kind = "message" /\ run'.talk = c.issue /\ issue'[run'.talk].status = "OPEN"
    BY <1>2, <1>3, <1>4, <1>6
  <2>2. ASSUME NEW j \in Ids
        PROVE  IF run'.talk = j THEN issue'[j].replies < issue'[j].heard ELSE issue'[j].replies <= issue'[j].heard
    <3>1. issue[j].replies \in Nat /\ issue[j].heard \in Nat /\ issue[j].replies <= issue[j].heard
      BY <1>1, <1>3, RowNumbers DEF Carried, TalkFits
    <3>2. j # 0
      BY DEF Ids
    <3> QED
      BY <1>2, <1>4, <1>6, <3>1, <3>2
  <2> QED
    BY <1>6, <2>1, <2>2 DEF TalkFits
<1> QED
  BY <1>5, <1>7, <1>8, <1>9, PartsNext

LEMMA NextTalk == ASSUME TalkInv, [Next]_vars PROVE TalkInv'
<1>1. ASSUME NEW k \in DOMAIN cmd, Handle(k) PROVE TalkInv'
  BY <1>1, TurnInFlightTalk, SkipTalk, BeginResumeTalk, RefusedTalk, ResumedTalk DEF Handle
<1>2. ASSUME UNCHANGED vars PROVE TalkInv'
  BY <1>2 DEF vars, rows, TalkInv, TypeOK, RowsFit, HeardOnce, OnItsWay, RaisedStaysOpen, HasReason,
              ToldNext, ToldOnce, TalkFits, OpenBlocking
<1> QED
  BY <1>1, <1>2, UserTalk, AgentTalk, AfterTurnTalk, ForgetTalk, TickTalk, SessionLostTalk DEF Next, Commands

LEMMA InitTalk == Init => TalkInv
<1> SUFFICES ASSUME Init PROVE TalkInv
  OBVIOUS
<1>1. /\ Frame /\ RaisedStaysOpen /\ HasReason /\ TalkFits
  <2>1. /\ run = [phase |-> "turn", talk |-> 0, pending |-> FALSE, cmd |-> 0]
        /\ exec = [state |-> "RUNNING", rev |-> 1] /\ approved = 1 /\ draft = FALSE /\ task = "IMPLEMENTING"
        /\ faults = 0 /\ \A i \in Ids : issue[i] = NoIssue /\ i # 0
    <3>1. run = [Idle EXCEPT !.phase = "turn"]
      BY DEF Init
    <3>2. run = [phase |-> "turn", talk |-> 0, pending |-> FALSE, cmd |-> 0]
      BY <3>1 DEF Idle
    <3>3. \A i \in Ids : issue[i] = NoIssue /\ i # 0
      BY DEF Init, Ids
    <3> QED
      BY <3>2, <3>3 DEF Init
  <2>2. 0 \in 0 .. MaxFaults
    BY IssuesAssumption
  <2>3. Frame
    BY <2>1, <2>2 DEF Frame
  <2> QED
    BY <2>1, <2>3 DEF NoIssue, RaisedStaysOpen, HasReason, TalkFits
<1>2. issue \in [Ids -> IssueRow] /\ \A i \in Ids : issue[i] = NoIssue
  BY DEF Init, NoIssue, IssueRow
<1>3. cmd \in Seq(Command) /\ DOMAIN cmd = {}
  BY DEF Init
<1>4. HeardOnce
  <2>1. \A i \in Ids : Cardinality(OnItsWay(i)) = 0
    BY <1>3, FS_EmptySet DEF OnItsWay
  <2> QED
    BY <1>2, <2>1 DEF HeardOnce, NoIssue
<1>5. Carried
  BY <1>2, <1>3, <1>4 DEF Carried, NoIssue, ToldNext, ToldOnce
<1> QED
  BY <1>1, <1>5, Parts

LEMMA AlwaysTalk == Spec => []TalkInv
BY InitTalk, NextTalk, PTL DEF Spec

-----------------------------------------------------------------------------
(* A revision goes first                                                   *)

\* Commands go, and no issue is opened or closed.
LEMMA ShrinksFirst ==
  ASSUME RevisionFirst, NEW G, Shrinks(cmd, cmd', G), UNCHANGED <<task, approved, exec>>,
         \A i \in Ids : issue'[i].status = issue[i].status
  PROVE  RevisionFirst'
<1>1. Hushed => Hushed'
  BY Survives DEF Hushed, AnswerOnItsWay
<1>2. PICK h \in [DOMAIN cmd' -> DOMAIN cmd \ G] :
             /\ \A j \in DOMAIN cmd' : cmd'[j].kind = cmd[h[j]].kind /\ cmd'[j].issue = cmd[h[j]].issue
             /\ \A j, l \in DOMAIN cmd' : h[j] = h[l] => j = l
  BY DEF Shrinks
<1>3. task \in {"SPEC_IN_PROGRESS", "SPEC_REVIEW"} => Hushed' /\ \A k \in DOMAIN cmd' : ~Resumes(k)'
  BY <1>1, <1>2 DEF RevisionFirst, Resumes
<1>4. ASSUME NEW k \in DOMAIN cmd', Resumes(k)'
      PROVE  Hushed' /\ exec.state # "RUNNING" /\ \A l \in DOMAIN cmd' : Resumes(l)' => l = k
  <2>1. h[k] \in DOMAIN cmd /\ Resumes(h[k])
    BY <1>2, <1>4 DEF Resumes
  <2>2. \A l \in DOMAIN cmd' : Resumes(l)' => h[l] \in DOMAIN cmd /\ Resumes(h[l])
    BY <1>2 DEF Resumes
  <2> QED
    BY <1>1, <1>2, <2>1, <2>2 DEF RevisionFirst
<1>5. task = "IMPLEMENTING" /\ exec.rev # approved => Hushed' /\ exec.state # "RUNNING"
  BY <1>1 DEF RevisionFirst
<1> QED
  BY <1>3, <1>4, <1>5 DEF RevisionFirst

\* While an issue is open no revision is on its way, and the execution is on
\* the approved one.
LEMMA OpenIsCurrent ==
  ASSUME RevisionFirst, NEW i \in Ids, Open(i)
  PROVE  /\ task \notin {"SPEC_IN_PROGRESS", "SPEC_REVIEW"} /\ \A k \in DOMAIN cmd : ~Resumes(k)
         /\ task = "IMPLEMENTING" => exec.rev = approved
BY DEF RevisionFirst, Hushed

LEMMA UserFirst ==
  ASSUME ~Hasty, PauseInv, User PROVE RevisionFirst' /\ StaysPaused' /\ BuiltAsApproved'
<1>1. TalkInv /\ RevisionFirst /\ StaysPaused /\ BuiltAsApproved /\ cmd \in Seq(Command)
      /\ issue \in [Ids -> IssueRow]
  BY Parts DEF PauseInv, Carried
<1>2. ASSUME NEW i \in Ids, PostMessage(i) \/ ResolveNonBlocking(i) \/ ResolveAsClarification(i)
      PROVE  RevisionFirst' /\ StaysPaused' /\ BuiltAsApproved'
  <2>1. Open(i) /\ UNCHANGED <<task, approved, exec>>
    BY <1>2 DEF PostMessage, ResolveNonBlocking, ResolveAsClarification
  <2>2. \A k \in DOMAIN cmd' : ~Resumes(k)'
    <3>1. CASE cmd' = cmd
      BY <1>1, <2>1, <3>1, OpenIsCurrent DEF Resumes
    <3>2. ASSUME NEW c, cmd' = Append(cmd, c), c.kind # "revision" PROVE \A k \in DOMAIN cmd' : ~Resumes(k)'
      BY <1>1, <2>1, <3>2, OpenIsCurrent, Appended DEF Resumes
    <3>3. \/ cmd' = cmd
          \/ cmd' = Append(cmd, [kind |-> "message", issue |-> i, claimed |-> FALSE])
          \/ cmd' = Append(cmd, [kind |-> "decision", issue |-> i, claimed |-> FALSE])
      BY <1>2 DEF PostMessage, ResolveNonBlocking, ResolveAsClarification, Enqueue
    <3> QED
      BY <3>1, <3>2, <3>3
  <2>3. RevisionFirst'
    BY <1>1, <2>1, <2>2, OpenIsCurrent DEF RevisionFirst
  <2> QED
    BY <1>1, <2>1, <2>3 DEF StaysPaused, BuiltAsApproved
<1>3. ASSUME NEW i \in Ids, ResolveAsRevision(i) PROVE RevisionFirst' /\ StaysPaused' /\ BuiltAsApproved'
  <2>1. /\ Open(i) /\ ~AnswerOnItsWay /\ Waiting /\ task' = "SPEC_IN_PROGRESS"
        /\ issue' = [Superseded(i) EXCEPT ![i] = Resolution(i, "spec_revision")]
        /\ UNCHANGED <<approved, exec, cmd>>
    BY <1>3 DEF ResolveAsRevision
  <2>2. \A j \in Ids : issue'[j].status # "OPEN"
    <3>1. issue'[i].status = "RESOLVED"
      BY <1>1, <2>1 DEF Superseded, Resolution, IssueRow
    <3>2. ASSUME NEW j \in Ids, j # i PROVE issue'[j].status # "OPEN"
      <4>1. issue[j] \in IssueRow
        BY <1>1
      <4>2. issue'[j] = IF Open(j) THEN [issue[j] EXCEPT !.status = "SUPERSEDED"] ELSE issue[j]
        BY <2>1, <3>2 DEF Superseded
      <4> QED
        BY <4>1, <4>2 DEF IssueRow
    <3> QED
      BY <3>1, <3>2
  <2>3. Hushed' /\ \A k \in DOMAIN cmd' : ~Resumes(k)'
    BY <1>1, <2>1, <2>2, OpenIsCurrent DEF Hushed, AnswerOnItsWay, Resumes
  <2> QED
    BY <2>1, <2>3 DEF RevisionFirst, StaysPaused, BuiltAsApproved
<1>4. CASE RequestReview
  BY <1>1, <1>4 DEF RequestReview, RevisionFirst, Hushed, AnswerOnItsWay, Resumes, StaysPaused, BuiltAsApproved
<1>5. CASE Approve
  <2>1. /\ task = "SPEC_REVIEW" /\ Hushed /\ (\A k \in DOMAIN cmd : ~Resumes(k)) /\ exec.state # "RUNNING"
        /\ issue' = issue /\ exec' = exec /\ task' \in {"IMPLEMENTING", "READY"}
    BY <1>1, <1>5 DEF Approve, RevisionFirst, StaysPaused
  <2>2. CASE cmd' = cmd /\ task' = "READY"
    BY <2>1, <2>2 DEF RevisionFirst, Hushed, AnswerOnItsWay, Resumes, StaysPaused, BuiltAsApproved
  <2>3. CASE cmd' = Enqueue("revision", 0) /\ task' = "IMPLEMENTING"
    <3> DEFINE c == [kind |-> "revision", issue |-> 0, claimed |-> FALSE]
    <3>1. cmd' = Append(cmd, c) /\ c.kind = "revision"
      BY <2>3 DEF Enqueue
    <3> HIDE DEF c
    <3>2. Hushed' /\ \A k \in DOMAIN cmd' : Resumes(k)' => k = Len(cmd) + 1
      BY <1>1, <2>1, <3>1, Appended DEF Hushed, AnswerOnItsWay, Resumes
    <3> QED
      BY <2>1, <2>3, <3>2 DEF RevisionFirst, StaysPaused, BuiltAsApproved
  <2> QED
    BY <1>5, <2>2, <2>3 DEF Approve
<1>6. CASE Cancel
  <2>1. task' = "CANCELLED" /\ exec'.state = "CANCELLED" /\ UNCHANGED <<issue, cmd>>
    BY <1>1, <1>6, Parts DEF Cancel, Frame
  <2> QED
    BY <1>1, <2>1 DEF RevisionFirst, Hushed, AnswerOnItsWay, Resumes, StaysPaused, BuiltAsApproved
<1> QED
  BY <1>2, <1>3, <1>4, <1>5, <1>6 DEF User

LEMMA AgentFirst ==
  ASSUME PauseInv, Agent PROVE RevisionFirst' /\ StaysPaused' /\ BuiltAsApproved'
<1>1. TalkInv /\ RevisionFirst /\ StaysPaused /\ BuiltAsApproved /\ Frame
  BY Parts DEF PauseInv
<1>2. CASE (\E i \in Ids, b \in BOOLEAN : RaiseIssue(i, b)) \/ ReportPrCreated
  <2>1. exec.state = "RUNNING" /\ UNCHANGED <<approved, cmd>>
    BY <1>2 DEF RaiseIssue, ReportPrCreated, InTurn
  <2>2. /\ task \notin {"SPEC_IN_PROGRESS", "SPEC_REVIEW"} /\ \A k \in DOMAIN cmd : ~Resumes(k)
        /\ task = "IMPLEMENTING" => exec.rev = approved
    BY <1>1, <2>1 DEF RevisionFirst, StaysPaused
  <2>3. \/ task' = task /\ exec' = exec
        \/ task = "IMPLEMENTING" /\ task' = "CI_RUNNING" /\ exec'.rev = exec.rev
    BY <1>1, <1>2 DEF RaiseIssue, ReportPrCreated, Frame
  <2> QED
    BY <1>1, <2>1, <2>2, <2>3 DEF RevisionFirst, Resumes, StaysPaused, BuiltAsApproved
<1>3. CASE TurnEnds
  BY <1>1, <1>3 DEF TurnEnds, rows, RevisionFirst, Hushed, AnswerOnItsWay, Resumes, StaysPaused, BuiltAsApproved
<1> QED
  BY <1>2, <1>3 DEF Agent

LEMMA AfterTurnFirst ==
  ASSUME PauseInv, AfterTurn PROVE RevisionFirst' /\ StaysPaused' /\ BuiltAsApproved'
<1>1. TalkInv /\ RevisionFirst /\ StaysPaused /\ BuiltAsApproved /\ Frame /\ issue \in [Ids -> IssueRow]
  BY Parts DEF PauseInv, Carried
<1>2. UNCHANGED <<task, approved, cmd>> /\ exec'.rev = exec.rev /\ exec'.state # "RUNNING"
  BY <1>1 DEF AfterTurn, AfterTurnState, Frame
<1>3. \A i \in Ids : issue'[i].status = issue[i].status
  BY <1>1 DEF AfterTurn, CaptureReply, Replied, WithReply, IssueRow
<1>4. Hushed => Hushed'
  BY <1>2, <1>3 DEF Hushed, AnswerOnItsWay
<1> QED
  BY <1>1, <1>2, <1>4 DEF RevisionFirst, Resumes, StaysPaused, BuiltAsApproved

LEMMA ResumedFirst ==
  ASSUME PauseInv, NEW k \in DOMAIN cmd, Resumed(k) PROVE RevisionFirst' /\ StaysPaused' /\ BuiltAsApproved'
<1>1. /\ TalkInv /\ RevisionFirst /\ StaysPaused /\ BuiltAsApproved /\ Carried /\ Frame
      /\ issue \in [Ids -> IssueRow] /\ Shrinks(cmd, cmd', {k})
  BY Parts, CompleteRemoves DEF PauseInv, Carried, Resumed
<1>2. /\ UNCHANGED <<task, approved>> /\ exec'.state = "RUNNING" /\ exec'.rev = RunsOn(cmd[k])
      /\ cmd[k] \in Command
  BY <1>1, SeqDomain DEF Resumed, Carried
<1>3. PICK h \in [DOMAIN cmd' -> DOMAIN cmd \ {k}] :
             \A j \in DOMAIN cmd' : cmd'[j].kind = cmd[h[j]].kind /\ cmd'[j].issue = cmd[h[j]].issue
  BY <1>1 DEF Shrinks
<1>4. CASE cmd[k].kind = "revision"
  <2>1. task \notin {"SPEC_IN_PROGRESS", "SPEC_REVIEW"} /\ exec'.rev = approved
    BY <1>1, <1>2, <1>4 DEF RevisionFirst, Resumes, RunsOn
  <2>2. \A j \in DOMAIN cmd' : ~Resumes(j)'
    BY <1>1, <1>3, <1>4 DEF RevisionFirst, Resumes
  <2> QED
    BY <1>2, <2>1, <2>2 DEF RevisionFirst, StaysPaused, BuiltAsApproved
<1>5. CASE cmd[k].kind \in {"message", "decision"}
  <2>1. ~Hushed
    <3>1. CASE cmd[k].kind = "decision"
      BY <3>1 DEF Hushed, AnswerOnItsWay
    <3>2. CASE cmd[k].kind = "message"
      <4>1. cmd[k].issue \in Ids
        BY <1>1, <1>2, <3>2 DEF Carried, Command
      <4> QED
        BY <3>2, <4>1 DEF Hushed, Resumed, StillOpen
    <3> QED
      BY <1>5, <3>1, <3>2
  <2>2. /\ task \notin {"SPEC_IN_PROGRESS", "SPEC_REVIEW"} /\ \A j \in DOMAIN cmd : ~Resumes(j)
        /\ task = "IMPLEMENTING" => exec.rev = approved
    BY <1>1, <2>1 DEF RevisionFirst
  <2>3. \A j \in DOMAIN cmd' : ~Resumes(j)'
    BY <1>3, <2>2 DEF Resumes
  <2>4. exec'.rev = exec.rev
    BY <1>2, <1>5 DEF RunsOn
  <2> QED
    BY <1>1, <1>2, <2>2, <2>3, <2>4 DEF RevisionFirst, StaysPaused, BuiltAsApproved
<1> QED
  BY <1>2, <1>4, <1>5 DEF Command

LEMMA NextFirst ==
  ASSUME ~Hasty, PauseInv, [Next]_vars PROVE RevisionFirst' /\ StaysPaused' /\ BuiltAsApproved'
<1>1. /\ TalkInv /\ RevisionFirst /\ StaysPaused /\ BuiltAsApproved /\ cmd \in Seq(Command)
  BY Parts DEF PauseInv, Carried
<1>2. ASSUME UNCHANGED rows PROVE RevisionFirst' /\ StaysPaused' /\ BuiltAsApproved'
  BY <1>1, <1>2 DEF rows, RevisionFirst, Hushed, AnswerOnItsWay, Resumes, StaysPaused, BuiltAsApproved
<1>3. ASSUME NEW G, Shrinks(cmd, cmd', G), UNCHANGED <<task, approved, exec, issue>>
      PROVE  RevisionFirst' /\ StaysPaused' /\ BuiltAsApproved'
  <2>1. RevisionFirst'
    BY <1>1, <1>3, ShrinksFirst
  <2> QED
    BY <1>1, <1>3, <2>1 DEF StaysPaused, BuiltAsApproved
<1>4. CASE Tick
  BY <1>1, <1>3, <1>4, TickRelabels DEF Tick
<1>5. ASSUME NEW k \in DOMAIN cmd, Handle(k) \/ SessionLost(k)
      PROVE  RevisionFirst' /\ StaysPaused' /\ BuiltAsApproved'
  <2>1. CASE TurnInFlight(k)
    BY <1>1, <1>3, <2>1, UnclaimRelabels DEF TurnInFlight
  <2>2. CASE Skip(k) \/ Refused(k) \/ SessionLost(k)
    BY <1>1, <1>3, <2>2, CompleteRemoves DEF Skip, Refused, SessionLost
  <2>3. CASE BeginResume(k)
    BY <1>2, <2>3 DEF BeginResume
  <2>4. CASE Resumed(k)
    BY <2>4, ResumedFirst
  <2> QED
    BY <1>5, <2>1, <2>2, <2>3, <2>4 DEF Handle
<1>6. CASE Forget
  BY <1>2, <1>6 DEF Forget
<1>7. CASE UNCHANGED vars
  BY <1>2, <1>7 DEF vars
<1> QED
  BY <1>4, <1>5, <1>6, <1>7, UserFirst, AgentFirst, AfterTurnFirst DEF Next, Commands

LEMMA NextPause == ASSUME ~Hasty, PauseInv, [Next]_vars PROVE PauseInv'
BY NextFirst, NextTalk DEF PauseInv

LEMMA InitPause == Init => PauseInv
BY InitTalk DEF Init, PauseInv, RevisionFirst, Hushed, AnswerOnItsWay, Resumes, StaysPaused, BuiltAsApproved

LEMMA AlwaysPause == ASSUME ~Hasty PROVE Spec => []PauseInv
BY InitPause, NextPause, PTL DEF Spec

-----------------------------------------------------------------------------
(* Theorems                                                                *)

\* design.md 10.4: an execution that waits has an open blocking issue, a
\* command on its way or a revision being written, and from the resolution as a
\* revision to its approval nothing resumes it.
THEOREM PausesAreKept == ASSUME ~Hasty PROVE Spec => []PauseIsKept
<1>1. PauseInv => PauseIsKept
  <2> SUFFICES ASSUME PauseInv PROVE PauseIsKept
    OBVIOUS
  <2>1. TypeOK /\ HasReason /\ StaysPaused /\ cmd \in Seq(Command)
    BY Parts DEF PauseInv, TalkInv, Carried
  <2>2. (\E k \in DOMAIN cmd : cmd[k].kind # "message") => cmd # << >>
    OBVIOUS
  <2> QED
    BY <2>1, <2>2 DEF PauseIsKept, WaitsForSomeone, HasReason
<1> QED
  BY <1>1, AlwaysPause, PTL

\* A decision is told once, and what goes to CI was built on the approved
\* revision, whatever was on its way when that was approved.
THEOREM DecisionsAreCarried == ASSUME ~Hasty PROVE Spec => []DecisionsCarry
<1>1. PauseInv => DecisionsCarry
  BY DEF PauseInv, TalkInv, DecisionsCarry
<1> QED
  BY <1>1, AlwaysPause, PTL

\* Whatever users do: the agent answers only what it was asked, adds nothing to
\* a closed issue, and talking about a blocking issue never fails an execution.
THEOREM TalkIsFree == Spec => RepliesFollow /\ TalkNeverFails
<1>1. TalkInv => \A i \in Ids : issue[i].replies <= issue[i].heard
  <2> SUFFICES ASSUME TalkInv, NEW i \in Ids PROVE issue[i].replies <= issue[i].heard
    OBVIOUS
  <2>1. issue[i].replies \in Nat /\ issue[i].heard \in Nat /\ TalkFits
    BY Parts, RowNumbers DEF Carried
  <2> QED
    BY <2>1 DEF TalkFits
<1>2. TalkInv /\ [Next]_vars =>
        [\A i \in Ids : issue[i].status \in {"RESOLVED", "SUPERSEDED"} => issue'[i].replies = issue[i].replies]_vars
  <2> SUFFICES ASSUME TalkInv, Next, NEW i \in Ids, issue[i].status \in {"RESOLVED", "SUPERSEDED"}
               PROVE  issue'[i].replies = issue[i].replies
    OBVIOUS
  <2>1. Carried /\ Frame /\ issue[i] \in IssueRow /\ ~Open(i) /\ issue[i].status # "none"
    BY Parts DEF Carried
  <2>2. ASSUME NEW j \in Ids, PostMessage(j) \/ ResolveNonBlocking(j) \/ ResolveAsClarification(j)
        PROVE  issue'[i].replies = issue[i].replies
    BY <2>1, <2>2 DEF PostMessage, ResolveNonBlocking, ResolveAsClarification, WithMessage, WithResolution, Carried
  <2>3. ASSUME NEW j \in Ids, ResolveAsRevision(j) PROVE issue'[i].replies = issue[i].replies
    BY <2>1, <2>3 DEF ResolveAsRevision, Superseded
  <2>4. CASE RequestReview \/ Approve \/ Cancel
    BY <2>4 DEF RequestReview, Approve, Cancel
  <2>5. ASSUME NEW j \in Ids, NEW b \in BOOLEAN, RaiseIssue(j, b) PROVE issue'[i].replies = issue[i].replies
    BY <2>1, <2>5 DEF RaiseIssue
  <2>6. CASE ReportPrCreated \/ TurnEnds \/ Forget \/ Tick
    BY <2>6 DEF ReportPrCreated, TurnEnds, Forget, Tick, rows
  <2>7. CASE AfterTurn
    <3>1. CASE issue' = issue
      BY <3>1
    <3>2. CASE Open(run.talk) /\ issue' = [issue EXCEPT ![run.talk].replies = @ + 1]
      <4>1. run.talk # i
        BY <2>1, <3>2
      <4> QED
        BY <2>1, <3>2, <4>1 DEF Carried
    <3> QED
      BY <2>7, <3>1, <3>2 DEF AfterTurn, CaptureReply, Replied, WithReply
  <2>8. ASSUME NEW k \in DOMAIN cmd, Resumed(k) PROVE issue'[i].replies = issue[i].replies
    <3>1. issue' = Told(cmd[k]) /\ cmd[k] \in Command
      BY <2>1, <2>8, SeqDomain DEF Resumed, Carried
    <3>2. cmd[k].kind \in {"message", "decision", "revision"}
      BY <3>1 DEF Command
    <3> QED
      BY <2>1, <3>1, <3>2 DEF Told, Heard, Decided, Carried, IssueRow
  <2>9. ASSUME NEW k \in DOMAIN cmd, TurnInFlight(k) \/ Skip(k) \/ BeginResume(k) \/ Refused(k) \/ SessionLost(k)
        PROVE  issue'[i].replies = issue[i].replies
    BY <2>9 DEF TurnInFlight, Skip, BeginResume, Refused, SessionLost, rows
  <2> QED
    BY <2>2, <2>3, <2>4, <2>5, <2>6, <2>7, <2>8, <2>9 DEF Next, User, Agent, Commands, Handle
<1>3. TalkInv /\ [Next]_vars =>
        [run.talk # 0 /\ issue[run.talk].blocking /\ exec.state = "RUNNING" => exec'.state # "FAILED"]_vars
  <2> SUFFICES ASSUME TalkInv, Next, run.talk # 0, issue[run.talk].blocking, exec.state = "RUNNING"
               PROVE  exec'.state # "FAILED"
    OBVIOUS
  <2>1. Carried /\ Frame /\ TalkFits
    BY Parts
  <2>2. run.talk \in Ids /\ Holding
    BY <2>1 DEF Frame, TalkFits, Holding, OpenBlocking
  <2>3. CASE AfterTurn
    BY <2>1, <2>2, <2>3 DEF AfterTurn, AfterTurnState, Frame
  <2>4. ASSUME NEW k \in DOMAIN cmd, Handle(k) \/ SessionLost(k) PROVE exec'.state # "FAILED"
    BY <2>4 DEF Handle, TurnInFlight, Skip, BeginResume, Refused, Resumed, SessionLost, rows
  <2>5. CASE Cancel \/ ReportPrCreated
    BY <2>1, <2>5 DEF Cancel, ReportPrCreated, Frame
  <2>6. CASE Agent \/ User \/ Forget \/ Tick
    BY <2>5, <2>6 DEF User, Agent, PostMessage, ResolveNonBlocking, ResolveAsClarification, ResolveAsRevision,
                      RequestReview, Approve, RaiseIssue, TurnEnds, Forget, Tick, rows
  <2> QED
    BY <2>3, <2>4, <2>6 DEF Next, Commands
<1> QED
  BY <1>1, <1>2, <1>3, AlwaysTalk, PTL DEF Spec, RepliesFollow, TalkNeverFails
=============================================================================
